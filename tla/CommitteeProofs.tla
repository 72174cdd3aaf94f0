-------------------------- MODULE CommitteeProofs --------------------------
(***************************************************************************)
(* Proofs about Committee, for every committee, number of ceremonies, coins *)
(* and faults.  The invariant has five layers:                             *)
(*   Types    - types, without the bound on how often a deal is in a share, *)
(*              and what the deals in flight are;                          *)
(*   Counts   - a deal is in a share at most as often as its validator     *)
(*              finished a ceremony, and the validator's own deal is in it *)
(*              only after that;                                           *)
(*   Agree    - of a ceremony dealt once, all deals are in a record or none; *)
(*   Signing  - partial signatures of an undisturbed operation were made   *)
(*              with the shares that are loaded;                           *)
(*   Chains   - a log no append to which was cut short is a chain.         *)
(***************************************************************************)
EXTENDS Committee, FiniteSetTheorems, FunctionTheorems, SequenceTheorems, TLAPS

-----------------------------------------------------------------------------
(***************************************************************************)
(* The invariant                                                           *)
(***************************************************************************)

Deal == [by : V, in : Ceremonies]

AnyShare == [base : SUBSET Deals, sum : [Deals -> Nat]]

InCeremony == [own : 0..MaxDeals, peers : SUBSET Deals]

\* A deal in flight is in the ceremony it was made for; the deals received
\* are of different other validators.
FlightSound(v, c) ==
    /\ InFlight(v, c) =>
          ceremony[v][c].own \in DOMAIN deal /\ deal[ceremony[v][c].own] = [by |-> v, in |-> c]
    /\ ceremony[v][c].peers \subseteq DOMAIN deal
    /\ \A d \in ceremony[v][c].peers : deal[d].by # v
    /\ \A d, e \in ceremony[v][c].peers : deal[d].by = deal[e].by => d = e

Types ==
    /\ share \in [V -> AnyShare]
    /\ disk \in [V -> SUBSET AnyShare]
    /\ \A v \in V : \A r, s \in disk[v] : r.base = s.base => r = s
    /\ deal \in Seq(Deal) /\ Len(deal) <= MaxDeals
    /\ ceremony \in [V -> [Ceremonies -> InCeremony]]
    /\ \A v \in V, c \in Ceremonies : FlightSound(v, c)

\* The records of v.
Records(v) == {share[v]} \cup disk[v]

\* The deals of v that are no longer in flight.
Spent(v) == {d \in DOMAIN deal : deal[d].by = v /\ \A c \in Ceremonies : ceremony[v][c].own # d}

\* Deal d is in record r of v as the code may have put it there.
Accounted(v, r, d) ==
    /\ r.sum[d] <= Cardinality(Spent(v))
    /\ r.sum[d] # 0 => d \in DOMAIN deal /\ (deal[d].by = v => d \in Spent(v))

Counts == \A v \in V : \A r \in Records(v), d \in Deals : Accounted(v, r, d)

\* The deals of ceremony c.
Of(c) == {d \in DOMAIN deal : deal[d].in = c}

AllIn(c, r) == \A d \in Of(c) : r.sum[d] = 1

NoneIn(c, r) == \A d \in Of(c) : r.sum[d] = 0

Complete(c) == \A v \in V : \E d \in Of(c) : deal[d].by = v

Agree ==
    \A c \in Ceremonies : DealtOnce(c) =>
        \A v \in V : \A r \in Records(v) : NoneIn(c, r) \/ (AllIn(c, r) /\ Complete(c))

\* The variables of the wallets and of the logs.
OtherTypes ==
    /\ session \in [V -> SUBSET Ops]
    /\ op \in [Ops -> Operation]
    /\ log \in [Logged -> Log]
    /\ faults \in Nat

Signing1(o) ==
    op[o].at = "signing" /\ op[o].calm =>
        \A v \in op[o].answered : op[o].parts[v] = share[v] /\ Fits(op[o].pk)

SignedWell == (\A o \in Ops : Signing1(o)) /\ CoinsVerify

Chained(l) ==
    ~l.hurt => /\ Verifies(l)
               /\ l.last = IF l.lines = <<>> THEN Genesis ELSE l.lines[Len(l.lines)].id
               /\ l.ended

Chains == \A v \in Logged : Chained(log[v])

IInv == Types /\ Counts /\ Agree /\ OtherTypes /\ SignedWell /\ Chains

-----------------------------------------------------------------------------
(***************************************************************************)
(* Chains: what append and open do to a log                                *)
(***************************************************************************)

Line == [id : Nat \ {0}, prev : Nat, whole : BOOLEAN]

\* A set of positions that is not empty has a last one.
LEMMA IntervalMax ==
    ASSUME NEW n \in Nat, NEW S, S \subseteq 1..n, S # {}
    PROVE  \E x \in S : \A y \in S : x >= y
<1> DEFINE T == {n - i : i \in S}
           R == OpToRel(<, Nat)
<1>1. T \subseteq Nat /\ T # {}
  <2>1. \A i \in S : n - i \in Nat
    OBVIOUS
  <2>2. PICK i \in S : TRUE
    OBVIOUS
  <2>3. n - i \in T
    OBVIOUS
  <2>4. QED BY <2>1, <2>3
<1>2. IsWellFoundedOn(R, Nat)
  BY NatLessThanWellFounded
<1>3. \A x, y \in Nat : y < x => <<y, x>> \in R
  BY DEF OpToRel
<1> HIDE DEF T, R
<1>4. PICK m \in T : \A y \in T : ~(<<y, m>> \in R)
  BY <1>1, <1>2, WFMin
<1>5. PICK x \in S : m = n - x
  BY DEF T
<1>6. ASSUME NEW y \in S PROVE x >= y
  <2>1. n - y \in T /\ n - y \in Nat /\ m \in Nat
    BY <1>1, <1>4, <1>6 DEF T
  <2>2. ~(n - y < m)
    BY <1>3, <1>4, <2>1
  <2>3. QED BY <1>5, <2>1, <2>2
<1>7. QED BY <1>6

LEMMA NewLogChained == NewLog \in Log /\ Chained(NewLog)
<1>1. NewLog \in Log
  BY DEF NewLog, Log, Genesis
<1>2. QED BY <1>1 DEF NewLog, Chained, Verifies, Genesis

LEMMA ExtendedType ==
    ASSUME NEW l \in Log, NEW line \in Line
    PROVE  Extended(l, line) \in Seq(Line)
<1>1. l.lines \in Seq(Line)
  BY DEF Log, Line
<1>2. CASE l.ended
  BY <1>1, <1>2 DEF Extended
<1>3. CASE ~l.ended
  <2>1. Extended(l, line) = [l.lines EXCEPT ![Len(l.lines)].whole = FALSE]
    BY <1>3 DEF Extended
  <2>2. CASE l.lines = <<>>
    <3>1. Len(l.lines) \notin DOMAIN l.lines
      BY <1>1, <2>2
    <3>2. [l.lines EXCEPT ![Len(l.lines)].whole = FALSE] = l.lines
      BY <1>1, <3>1
    <3>3. QED BY <1>1, <2>1, <3>2
  <2>3. CASE l.lines # <<>>
    <3>1. Len(l.lines) \in 1..Len(l.lines) /\ l.lines[Len(l.lines)] \in Line
      BY <1>1, <2>3
    <3>2. [l.lines[Len(l.lines)] EXCEPT !.whole = FALSE] \in Line
      BY <3>1 DEF Line
    <3>3. QED BY <1>1, <2>1, <3>1, <3>2
  <2>4. QED BY <2>2, <2>3
<1>4. l.ended \in BOOLEAN
  BY DEF Log
<1>5. QED BY <1>2, <1>3, <1>4

\* An append leaves a log, and a chain unless it is hurt.
LEMMA AppendedChained ==
    ASSUME NEW l \in Log, Chained(l), NEW outcome \in Outcomes
    PROVE  Appended(l, outcome) \in Log /\ Chained(Appended(l, outcome))
<1>1. CASE outcome = "refused"
  BY <1>1 DEF Appended
<1>2. CASE outcome # "refused"
  <2> DEFINE line == [id |-> l.ids + 1, prev |-> l.last, whole |-> outcome # "half"]
             m == Appended(l, outcome)
  <2>1. l.ids \in Nat /\ l.last \in Nat /\ l.hurt \in BOOLEAN /\ l.lines \in Seq(Line)
    BY DEF Log, Line
  <2>2. line \in Line
    BY <2>1 DEF Line
  <2>3. m = [lines |-> Extended(l, line), ended |-> outcome \notin {"half", "cut"},
             last |-> IF outcome = "done" THEN line.id ELSE l.last,
             ids |-> line.id, hurt |-> l.hurt \/ outcome # "done"]
    BY <1>2 DEF Appended
  <2>4. Extended(l, line) \in Seq(Line) /\ line.id \in Nat
    BY <2>1, <2>2, ExtendedType
  <2> HIDE DEF line, m
  <2>5. m \in Log
    BY <2>1, <2>3, <2>4 DEF Log, Line
  <2>6. ASSUME ~m.hurt PROVE Verifies(m) /\ m.ended /\ m.lines # <<>> /\ m.last = m.lines[Len(m.lines)].id
    <3>1. ~l.hurt /\ outcome = "done"
      BY <2>1, <2>3, <2>6
    <3>2. Verifies(l) /\ l.ended /\ l.last = IF l.lines = <<>> THEN Genesis ELSE l.lines[Len(l.lines)].id
      BY <3>1 DEF Chained
    <3>3. m.lines = Append(l.lines, line) /\ m.last = line.id /\ m.ended
      BY <2>3, <3>1, <3>2 DEF Extended
    <3>4. line.prev = l.last /\ line.whole
      BY <3>1 DEF line
    <3> DEFINE n == Len(l.lines)
    <3>5. /\ n \in Nat /\ Len(m.lines) = n + 1 /\ m.lines[n + 1] = line
          /\ \A i \in 1..n : m.lines[i] = l.lines[i]
          /\ m.lines # <<>>
      BY <2>1, <2>2, <3>3
    <3>6. l.lines = <<>> <=> n = 0
      BY <2>1
    <3>7. ASSUME NEW i \in 1..(n + 1)
          PROVE  m.lines[i].whole /\ m.lines[i].prev = IF i = 1 THEN Genesis ELSE m.lines[i - 1].id
      <4>1. CASE i = n + 1 /\ n = 0
        BY <3>2, <3>4, <3>5, <3>6, <4>1
      <4>2. CASE i = n + 1 /\ n # 0
        <5>1. l.last = l.lines[n].id
          BY <3>2, <3>6, <4>2
        <5>2. n \in 1..n /\ i # 1 /\ i - 1 = n
          BY <3>5, <4>2
        <5>3. m.lines[i - 1].id = l.last
          BY <3>5, <5>1, <5>2
        <5>4. QED BY <3>4, <3>5, <4>2, <5>2, <5>3
      <4>3. CASE i \in 1..n
        <5>1. l.lines[i].whole /\ l.lines[i].prev = IF i = 1 THEN Genesis ELSE l.lines[i - 1].id
          BY <3>2, <4>3 DEF Verifies
        <5>2. i # 1 => i - 1 \in 1..n
          BY <3>5, <4>3
        <5>3. QED BY <3>5, <4>3, <5>1, <5>2
      <4>4. QED BY <3>5, <4>1, <4>2, <4>3
    <3>8. Verifies(m)
      BY <3>5, <3>7 DEF Verifies
    <3>9. m.last = m.lines[Len(m.lines)].id
      BY <3>3, <3>5
    <3>10. QED BY <3>3, <3>5, <3>8, <3>9
  <2>7. Chained(m)
    BY <2>6 DEF Chained
  <2>8. QED BY <2>5, <2>7 DEF m
<1>3. QED BY <1>1, <1>2

\* Opening a chain goes on from its last line.
LEMMA OpenedChained ==
    ASSUME NEW l \in Log, Chained(l)
    PROVE  Opened(l) \in Log /\ Chained(Opened(l))
<1> DEFINE whole == {i \in 1..Len(l.lines) : l.lines[i].whole}
           new == IF whole = {} THEN Genesis ELSE l.lines[Max(whole)].id
<1>1. l.lines \in Seq(Line) /\ Len(l.lines) \in Nat
  BY DEF Log, Line
<1>2. Opened(l) = [l EXCEPT !.last = new]
  BY DEF Opened
<1>3. new \in Nat
  <2>1. CASE whole = {}
    BY <2>1 DEF Genesis
  <2>2. CASE whole # {}
    <3>1. \E x \in whole : \A y \in whole : x >= y
      <4>1. whole \subseteq 1..Len(l.lines)
        OBVIOUS
      <4> HIDE DEF whole
      <4>2. QED BY <1>1, <2>2, <4>1, IntervalMax
    <3>2. Max(whole) \in whole
      BY <3>1 DEF Max
    <3>3. Max(whole) \in 1..Len(l.lines)
      BY <3>2
    <3>4. l.lines[Max(whole)] \in Line
      <4>1. \A i \in 1..Len(l.lines) : l.lines[i] \in Line
        BY <1>1
      <4> HIDE DEF whole
      <4>2. QED BY <3>3, <4>1
    <3>5. QED BY <2>2, <3>4 DEF Line
  <2>3. QED BY <2>1, <2>2
<1>4. Opened(l) \in Log
  BY <1>2, <1>3 DEF Log
<1>5. ASSUME ~l.hurt PROVE new = l.last
  <2>1. Verifies(l) /\ l.last = IF l.lines = <<>> THEN Genesis ELSE l.lines[Len(l.lines)].id
    BY <1>5 DEF Chained
  <2>2. whole = 1..Len(l.lines)
    BY <2>1 DEF Verifies
  <2>3. CASE l.lines = <<>>
    BY <2>1, <2>2, <2>3
  <2>4. CASE l.lines # <<>>
    <3>1. Len(l.lines) \in whole /\ \A y \in whole : Len(l.lines) >= y
      BY <1>1, <2>2, <2>4
    <3>2. Max(whole) = Len(l.lines)
      BY <1>1, <2>2, <3>1 DEF Max
    <3>3. QED BY <2>1, <2>4, <3>1, <3>2
  <2>5. QED BY <2>3, <2>4
<1> HIDE DEF new
<1>6. /\ Opened(l).lines = l.lines /\ Opened(l).hurt = l.hurt /\ Opened(l).ended = l.ended
      /\ Opened(l).last = new
  BY <1>2 DEF Log
<1>7. QED BY <1>4, <1>5, <1>6 DEF Chained, Verifies

-----------------------------------------------------------------------------
(***************************************************************************)
(* Layer 1: Types                                                          *)
(***************************************************************************)

Ring == <<share, disk, ceremony, deal>>

\* What the wallets do, and the loss of their sessions.
WalletStep ==
    \/ \E o \in Ops, v \in V : Loaded(v) /\ IssueCoin(o, share[v].base)
    \/ \E o, m \in Ops : RefreshCoin(o, m)
    \/ \E o \in Ops, v \in V : Round1(o, v) \/ PartialSign(o, v) \/ Expire(o, v)
    \/ \E o \in Ops : BlindRequest(o) \/ ChooseCandidate(o) \/ Unblind(o) \/ UserRound6(o) \/ Fail(o)

LEMMA NextSplit ==
    ASSUME Next
    PROVE  \/ \E v \in V, c \in Ceremonies :
                \/ Start(v, c) /\ UNCHANGED op
                \/ \E d \in DOMAIN deal : Contribute(v, c, d)
                \/ DkgFinalize(v, c) \/ ReshareFinalize(v, c)
                \/ Evict(v, c)
           \/ \E v \in V : Crash(v)
           \/ WalletStep /\ UNCHANGED Ring
<1>1. WalletStep => UNCHANGED Ring
  BY DEF WalletStep, Ring, IssueCoin, RefreshCoin, Round1, PartialSign, Expire, BlindRequest, ChooseCandidate,
     Unblind, UserRound6, Fail
<1>2. CASE \E v \in V, c \in Ceremonies : DkgStart(v, c) \/ ReshareStart(v, c)
  BY <1>2 DEF DkgStart, ReshareStart, Start
<1>3. CASE \E o \in Ops, v \in V : SignRound1(o, v) \/ RefreshRound1(o, v) \/ SignRound3(o, v)
                                   \/ RefreshRound5(o, v)
  BY <1>1, <1>3 DEF WalletStep, SignRound1, RefreshRound1, SignRound3, RefreshRound5
<1>4. QED BY <1>1, <1>2, <1>3 DEF Next, WalletStep

LEMMA NoShareType == NoShare \in AnyShare /\ NoShare.base = {} /\ \A d \in Deals : NoShare.sum[d] = 0
BY DEF NoShare, AnyShare

LEMMA NoCeremonyType == NoCeremony \in InCeremony /\ NoCeremony.own = 0 /\ NoCeremony.peers = {}
BY CommitteeAssumption DEF NoCeremony, InCeremony

LEMMA DealFacts ==
    ASSUME Types
    PROVE  /\ DOMAIN deal = 1..Len(deal) /\ Len(deal) \in Nat /\ DOMAIN deal \subseteq Deals
           /\ \A d \in DOMAIN deal : deal[d] \in Deal
<1>1. deal \in Seq(Deal) /\ Len(deal) <= MaxDeals
  BY DEF Types
<1>2. DOMAIN deal = 1..Len(deal) /\ Len(deal) \in Nat /\ \A d \in DOMAIN deal : deal[d] \in Deal
  BY <1>1
<1>3. DOMAIN deal \subseteq Deals
  BY <1>1, <1>2, CommitteeAssumption DEF Deals
<1>4. QED BY <1>2, <1>3

\* A step that changes one ceremony of v.
LEMMA OneCeremony ==
    ASSUME Types, NEW v \in V, NEW c \in Ceremonies, NEW x, ceremony' = [ceremony EXCEPT ![v][c] = x]
    PROVE  /\ \A u \in V, e \in Ceremonies :
                 ceremony'[u][e] = IF u = v /\ e = c THEN x ELSE ceremony[u][e]
           /\ x \in InCeremony => ceremony' \in [V -> [Ceremonies -> InCeremony]]
<1>1. ceremony \in [V -> [Ceremonies -> InCeremony]]
  BY DEF Types
<1>2. \A u \in V, e \in Ceremonies : ceremony'[u][e] = IF u = v /\ e = c THEN x ELSE ceremony[u][e]
  BY <1>1
<1>3. x \in InCeremony => ceremony' \in [V -> [Ceremonies -> InCeremony]]
  BY <1>1
<1>4. QED BY <1>2, <1>3

\* Start adds a deal.
Dealing(v, c, n) ==
    /\ deal' \in Seq(Deal) /\ Len(deal') <= MaxDeals /\ n = Len(deal) + 1 /\ n \in Deals
    /\ DOMAIN deal' = DOMAIN deal \cup {n} /\ n \notin DOMAIN deal
    /\ deal'[n] = [by |-> v, in |-> c]
    /\ \A d \in DOMAIN deal : deal'[d] = deal[d]
    /\ \A u \in V, e \in Ceremonies :
          ceremony'[u][e] = IF u = v /\ e = c THEN [own |-> n, peers |-> {}] ELSE ceremony[u][e]
    /\ ceremony' \in [V -> [Ceremonies -> InCeremony]]
    /\ share' = share /\ disk' = disk

LEMMA StartFacts ==
    ASSUME Types, NEW v \in V, NEW c \in Ceremonies, Start(v, c)
    PROVE  \E n \in Deals : Dealing(v, c, n)
<1>1. deal \in Seq(Deal) /\ [by |-> v, in |-> c] \in Deal /\ Len(deal) \in Nat
  BY DEF Types, Deal
<1>2. deal' = Append(deal, [by |-> v, in |-> c]) /\ Len(deal) < MaxDeals
  BY DEF Start
<1>3. /\ deal' \in Seq(Deal) /\ Len(deal') = Len(deal) + 1 /\ deal'[Len(deal) + 1] = [by |-> v, in |-> c]
      /\ \A d \in 1..Len(deal) : deal'[d] = deal[d]
  BY <1>1, <1>2
<1>4. DOMAIN deal = 1..Len(deal) /\ DOMAIN deal' = 1..(Len(deal) + 1)
  BY <1>1, <1>3
<1>5. Len(deal) + 1 \in Deals /\ [own |-> Len(deal) + 1, peers |-> {}] \in InCeremony
  BY <1>1, <1>2, CommitteeAssumption DEF Deals, InCeremony
<1>6. ceremony' = [ceremony EXCEPT ![v][c] = [own |-> Len(deal) + 1, peers |-> {}]]
  BY DEF Start
<1>7. /\ \A u \in V, e \in Ceremonies :
            ceremony'[u][e] = IF u = v /\ e = c THEN [own |-> Len(deal) + 1, peers |-> {}] ELSE ceremony[u][e]
      /\ ceremony' \in [V -> [Ceremonies -> InCeremony]]
  BY <1>5, <1>6, OneCeremony
<1>8. /\ DOMAIN deal' = DOMAIN deal \cup {Len(deal) + 1} /\ Len(deal) + 1 \notin DOMAIN deal
      /\ Len(deal') <= MaxDeals
  BY <1>1, <1>2, <1>3, <1>4, CommitteeAssumption
<1>9. share' = share /\ disk' = disk
  BY DEF Start
<1>10. Dealing(v, c, Len(deal) + 1)
  BY <1>3, <1>4, <1>5, <1>7, <1>8, <1>9 DEF Dealing
<1>11. QED BY <1>5, <1>10

LEMMA TypesStart == ASSUME Types, NEW v \in V, NEW c \in Ceremonies, Start(v, c) PROVE Types'
<1>1. PICK n \in Deals : Dealing(v, c, n)
  BY StartFacts
<1>2. ASSUME NEW u \in V, NEW e \in Ceremonies PROVE FlightSound(u, e)'
  <2>1. CASE u = v /\ e = c
    <3>1. ceremony'[u][e].own = n /\ ceremony'[u][e].peers = {}
      BY <1>1, <2>1 DEF Dealing
    <3>2. QED BY <1>1, <2>1, <3>1 DEF FlightSound, InFlight, Dealing
  <2>2. CASE ~(u = v /\ e = c)
    <3>1. ceremony'[u][e] = ceremony[u][e]
      BY <1>1, <2>2 DEF Dealing
    <3>2. FlightSound(u, e)
      BY DEF Types
    <3>3. DOMAIN deal \subseteq DOMAIN deal' /\ \A d \in DOMAIN deal : deal'[d] = deal[d]
      BY <1>1 DEF Dealing
    <3>4. QED BY <3>1, <3>2, <3>3 DEF FlightSound, InFlight
  <2>3. QED BY <2>1, <2>2
<1>3. QED BY <1>1, <1>2 DEF Types, Dealing

\* Contribute changes the deals received.
Receiving(v, c, d) ==
    /\ \A u \in V, e \in Ceremonies :
          /\ ceremony'[u][e].own = ceremony[u][e].own
          /\ ceremony'[u][e].peers =
                IF u = v /\ e = c THEN {f \in ceremony[u][e].peers : deal[f].by # deal[d].by} \cup {d}
                ELSE ceremony[u][e].peers
    /\ ceremony' \in [V -> [Ceremonies -> InCeremony]]
    /\ deal' = deal /\ share' = share /\ disk' = disk

LEMMA ContributeFacts ==
    ASSUME Types, NEW v \in V, NEW c \in Ceremonies, NEW d \in DOMAIN deal, Contribute(v, c, d)
    PROVE  Receiving(v, c, d)
<1> DEFINE ps == {e \in ceremony[v][c].peers : deal[e].by # deal[d].by} \cup {d}
           x == [ceremony[v][c] EXCEPT !.peers = ps]
<1>1. ceremony[v][c] \in InCeremony
  BY DEF Types
<1>2. ps \in SUBSET Deals
  BY <1>1, DealFacts DEF InCeremony
<1>3. ceremony' = [ceremony EXCEPT ![v][c] = x]
  BY DEF Contribute
<1> HIDE DEF ps
<1>4. x \in InCeremony /\ x.own = ceremony[v][c].own /\ x.peers = ps
  BY <1>1, <1>2 DEF InCeremony
<1> HIDE DEF x
<1>5. /\ \A u \in V, e \in Ceremonies : ceremony'[u][e] = IF u = v /\ e = c THEN x ELSE ceremony[u][e]
      /\ ceremony' \in [V -> [Ceremonies -> InCeremony]]
  BY <1>3, <1>4, OneCeremony
<1>6. deal' = deal /\ share' = share /\ disk' = disk
  BY DEF Contribute
<1>7. QED BY <1>4, <1>5, <1>6 DEF ps, Receiving

LEMMA TypesContribute ==
    ASSUME Types, NEW v \in V, NEW c \in Ceremonies, NEW d \in DOMAIN deal, Contribute(v, c, d)
    PROVE  Types'
<1>1. Receiving(v, c, d) /\ deal[d].by # v
  BY ContributeFacts DEF Contribute
<1>2. ASSUME NEW u \in V, NEW e \in Ceremonies PROVE FlightSound(u, e)'
  <2>1. FlightSound(u, e) /\ deal' = deal /\ ceremony'[u][e].own = ceremony[u][e].own
    BY <1>1 DEF Types, Receiving
  <2>2. CASE u = v /\ e = c
    <3>1. ceremony'[u][e].peers = {f \in ceremony[u][e].peers : deal[f].by # deal[d].by} \cup {d}
      BY <1>1, <2>2 DEF Receiving
    <3>2. QED BY <1>1, <2>1, <2>2, <3>1 DEF FlightSound, InFlight
  <2>3. CASE ~(u = v /\ e = c)
    <3>1. ceremony'[u][e].peers = ceremony[u][e].peers
      BY <1>1, <2>3 DEF Receiving
    <3>2. QED BY <2>1, <3>1 DEF FlightSound, InFlight
  <2>4. QED BY <2>2, <2>3
<1>3. QED BY <1>1, <1>2 DEF Types, Receiving

\* A step after which v, or more, is no longer in a ceremony it was in.
Losing ==
    /\ deal' = deal
    /\ ceremony' \in [V -> [Ceremonies -> InCeremony]]
    /\ \A u \in V, e \in Ceremonies : ceremony'[u][e] \in {ceremony[u][e], NoCeremony}

LEMMA LosingSound ==
    ASSUME Types, Losing, NEW u \in V, NEW e \in Ceremonies
    PROVE  FlightSound(u, e)'
<1>1. FlightSound(u, e) /\ deal' = deal
  BY DEF Types, Losing
<1>2. CASE ceremony'[u][e] = ceremony[u][e]
  BY <1>1, <1>2 DEF FlightSound, InFlight
<1>3. CASE ceremony'[u][e] = NoCeremony
  <2>1. ceremony'[u][e].own = 0 /\ ceremony'[u][e].peers = {}
    BY <1>3, NoCeremonyType
  <2>2. QED BY <2>1 DEF FlightSound, InFlight
<1>4. QED BY <1>2, <1>3 DEF Losing

LEMMA OneLost ==
    ASSUME Types, NEW v \in V, NEW c \in Ceremonies, deal' = deal,
           ceremony' = [ceremony EXCEPT ![v][c] = NoCeremony]
    PROVE  Losing /\ ceremony'[v][c].own = 0
<1>1. /\ \A u \in V, e \in Ceremonies :
            ceremony'[u][e] = IF u = v /\ e = c THEN NoCeremony ELSE ceremony[u][e]
      /\ ceremony' \in [V -> [Ceremonies -> InCeremony]]
  BY OneCeremony, NoCeremonyType
<1>2. QED BY <1>1, NoCeremonyType DEF Losing

\* Ceremony c of v is accepted, and r is its record.
Accepted(v, c, r) ==
    /\ InFlight(v, c) /\ Acceptable(v, c)
    /\ Losing /\ ceremony'[v][c].own = 0
    /\ r \in AnyShare
    /\ \E old \in {NoShare, share[v]} : \A d \in Deals :
          r.sum[d] = IF d \in Dealt(v, c) THEN old.sum[d] + 1 ELSE old.sum[d]
    /\ Store(v, r)

\* dkg_finalize and reshare_finalize store a sum of deals, or nothing.
LEMMA FinalizeFacts ==
    ASSUME Types, NEW v \in V, NEW c \in Ceremonies, DkgFinalize(v, c) \/ ReshareFinalize(v, c)
    PROVE  \/ Losing /\ UNCHANGED <<share, disk, op, log, faults>>
           \/ (\E r \in AnyShare : Accepted(v, c, r)) /\ op' = Disturbed /\ Tlog(v)
<1> DEFINE D == [base |-> Dealt(v, c), sum |-> [d \in Deals |-> IF d \in Dealt(v, c) THEN 1 ELSE 0]]
           R == [share[v] EXCEPT !.sum = [d \in Deals |-> IF d \in Dealt(v, c) THEN @[d] + 1 ELSE @[d]]]
<1>1. InFlight(v, c) /\ deal' = deal /\ ceremony' = [ceremony EXCEPT ![v][c] = NoCeremony]
  BY DEF DkgFinalize, ReshareFinalize, Finalize
<1>2. Losing /\ ceremony'[v][c].own = 0
  BY <1>1, OneLost
<1>3. share[v] \in AnyShare /\ share[v].base \in SUBSET Deals /\ share[v].sum \in [Deals -> Nat]
  BY DEF Types, AnyShare
<1>4. Dealt(v, c) \subseteq Deals
  <2>1. ceremony[v][c] \in InCeremony /\ FlightSound(v, c)
    BY DEF Types
  <2>2. QED BY <1>1, <2>1, DealFacts DEF FlightSound, InCeremony, Dealt
<1>5. D \in AnyShare /\ \A d \in Deals : D.sum[d] = IF d \in Dealt(v, c) THEN NoShare.sum[d] + 1 ELSE NoShare.sum[d]
  BY <1>4, NoShareType DEF AnyShare
<1>6. R \in AnyShare /\ \A d \in Deals : R.sum[d] = IF d \in Dealt(v, c) THEN share[v].sum[d] + 1 ELSE share[v].sum[d]
  BY <1>3 DEF AnyShare
<1>7. Finalize(v, c, D) \/ Finalize(v, c, R)
  BY DEF DkgFinalize, ReshareFinalize
<1> HIDE DEF D, R
<1>8. PICK r \in {D, R} : Finalize(v, c, r)
  BY <1>7
<1>9. r \in AnyShare /\ \E old \in {NoShare, share[v]} : \A d \in Deals :
          r.sum[d] = IF d \in Dealt(v, c) THEN old.sum[d] + 1 ELSE old.sum[d]
  BY <1>5, <1>6
<1>10. CASE Acceptable(v, c)
  <2>1. Store(v, r) /\ op' = Disturbed /\ Tlog(v)
    BY <1>8, <1>10 DEF Finalize
  <2>2. Accepted(v, c, r)
    BY <1>1, <1>2, <1>9, <1>10, <2>1 DEF Accepted
  <2>3. QED BY <1>9, <2>1, <2>2
<1>11. CASE ~Acceptable(v, c)
  BY <1>2, <1>8, <1>11 DEF Finalize
<1>12. QED BY <1>10, <1>11

\* What the other validators have is left alone.
LEMMA AcceptedRecords ==
    ASSUME Types, NEW v \in V, NEW c \in Ceremonies, NEW r, Accepted(v, c, r)
    PROVE  /\ share' \in [V -> AnyShare] /\ disk' \in [V -> SUBSET AnyShare]
           /\ \A u \in V : \A s, t \in disk'[u] : s.base = t.base => s = t
           /\ \A u \in V : \A s \in {share'[u]} \cup disk'[u] :
                 s \in {share[u]} \cup disk[u] \/ (u = v /\ s = r)
<1>1. share \in [V -> AnyShare] /\ disk \in [V -> SUBSET AnyShare]
      /\ \A u \in V : \A s, t \in disk[u] : s.base = t.base => s = t
  BY DEF Types
<1>2. /\ disk' = [disk EXCEPT ![v] = {s \in @ : s.base # r.base} \cup {r}]
      /\ share' = [share EXCEPT ![v] = r] /\ r \in AnyShare
  BY DEF Accepted, Store
<1>3. QED BY <1>1, <1>2

\* A restart keeps the files, and loads one.
LEMMA CrashFacts ==
    ASSUME Types, NEW v \in V, Crash(v)
    PROVE  /\ Losing /\ disk' = disk /\ share' \in [V -> AnyShare]
           /\ \A u \in V : share'[u] \in {share[u], NoShare} \cup disk[u]
<1>1. /\ share \in [V -> AnyShare] /\ disk \in [V -> SUBSET AnyShare]
      /\ ceremony \in [V -> [Ceremonies -> InCeremony]]
  BY DEF Types
<1>2. /\ ceremony' = [ceremony EXCEPT ![v] = [c \in Ceremonies |-> NoCeremony]]
      /\ deal' = deal /\ disk' = disk
  BY DEF Crash
<1>3. PICK r \in (IF disk[v] = {} THEN {NoShare} ELSE disk[v]) : share' = [share EXCEPT ![v] = r]
  BY DEF Crash
<1>4. r \in AnyShare /\ r \in {NoShare} \cup disk[v]
  BY <1>1, <1>3, NoShareType
<1>5. Losing
  BY <1>1, <1>2, NoCeremonyType DEF Losing
<1>6. share' \in [V -> AnyShare] /\ \A u \in V : share'[u] \in {share[u], NoShare} \cup disk[u]
  BY <1>1, <1>3, <1>4
<1>7. QED BY <1>2, <1>5, <1>6

LEMMA TypesLosing ==
    ASSUME Types, Losing, share' \in [V -> AnyShare], disk' \in [V -> SUBSET AnyShare],
           \A u \in V : \A s, t \in disk'[u] : s.base = t.base => s = t
    PROVE  Types'
<1>1. \A u \in V, e \in Ceremonies : FlightSound(u, e)'
  BY LosingSound
<1>2. deal' \in Seq(Deal) /\ Len(deal') <= MaxDeals /\ ceremony' \in [V -> [Ceremonies -> InCeremony]]
  BY DEF Losing, Types
<1>3. QED BY <1>1, <1>2 DEF Types

\* A first committee has a deal of every validator.
LEMMA InitFacts ==
    ASSUME Init
    PROVE  /\ deal \in Seq(Deal) /\ Len(deal) <= MaxDeals
           /\ \/ deal = <<>>
              \/ \E c \in Ceremonies :
                    /\ \A d \in DOMAIN deal : deal[d].in = c
                    /\ \A v \in V : \E d \in DOMAIN deal : deal[d].by = v
<1> DEFINE N == Cardinality(V)
           onto(f) == \A v \in V : \E i \in DOMAIN f : f[i] = v
           dealer == CHOOSE f \in [1..N -> V] : onto(f)
<1>1. N \in Nat /\ N <= MaxDeals /\ MaxDeals \in Nat /\ ExistsBijection(1..N, V)
  BY CommitteeAssumption, FS_CardinalityType
<1>2. \E f \in [1..N -> V] : onto(f)
  BY <1>1 DEF ExistsBijection, Bijection, Surjection
<1> HIDE DEF N
<1>3. dealer \in [1..N -> V] /\ onto(dealer)
  BY <1>2
<1>4. deal = <<>> \/ \E c \in DkgIds : deal = [i \in 1..N |-> [by |-> dealer[i], in |-> c]]
  BY DEF Init, FirstDeals, N
<1> HIDE DEF dealer
<1>5. CASE deal = <<>>
  BY <1>1, <1>5
<1>6. CASE \E c \in DkgIds : deal = [i \in 1..N |-> [by |-> dealer[i], in |-> c]]
  <2>1. PICK c \in DkgIds : deal = [i \in 1..N |-> [by |-> dealer[i], in |-> c]]
    BY <1>6
  <2>2. c \in Ceremonies /\ \A i \in 1..N : [by |-> dealer[i], in |-> c] \in Deal
    BY <1>3 DEF Ceremonies, Deal
  <2>3. deal \in Seq(Deal) /\ Len(deal) = N
    BY <1>1, <2>1, <2>2
  <2>4. \A d \in DOMAIN deal : deal[d].in = c
    BY <2>1
  <2>5. \A v \in V : \E d \in DOMAIN deal : deal[d].by = v
    BY <1>3, <2>1
  <2>6. QED BY <1>1, <2>2, <2>3, <2>4, <2>5
<1>7. QED BY <1>4, <1>5, <1>6

LEMMA InitRecords ==
    ASSUME Init, NEW v \in V
    PROVE  /\ share[v].base = DOMAIN deal
           /\ \A r \in Records(v) : \A d \in Deals : r.sum[d] = IF d \in DOMAIN deal THEN 1 ELSE 0
<1>1. share[v] = [base |-> DOMAIN deal, sum |-> [d \in Deals |-> IF d \in DOMAIN deal THEN 1 ELSE 0]]
  BY DEF Init
<1>2. Records(v) = {share[v]}
  BY DEF Init, Records
<1>3. QED BY <1>1, <1>2

LEMMA TypesInit == ASSUME Init PROVE Types
<1>1. deal \in Seq(Deal) /\ Len(deal) <= MaxDeals
  BY InitFacts
<1>2. DOMAIN deal \subseteq Deals
  BY <1>1, CommitteeAssumption DEF Deals
<1>3. [base |-> DOMAIN deal, sum |-> [d \in Deals |-> IF d \in DOMAIN deal THEN 1 ELSE 0]] \in AnyShare
  BY <1>2 DEF AnyShare
<1>4. share \in [V -> AnyShare]
  BY <1>3 DEF Init
<1>5. disk \in [V -> SUBSET AnyShare] /\ \A v \in V : disk[v] \subseteq {share[v]}
  BY <1>4 DEF Init
<1>6. ceremony = [v \in V |-> [c \in Ceremonies |-> NoCeremony]]
  BY DEF Init
<1>7. ceremony \in [V -> [Ceremonies -> InCeremony]]
  BY <1>6, NoCeremonyType
<1>8. \A v \in V, c \in Ceremonies : ceremony[v][c] = NoCeremony
  BY <1>6
<1>9. \A v \in V, c \in Ceremonies : FlightSound(v, c)
  BY <1>8, NoCeremonyType DEF FlightSound, InFlight
<1>10. QED BY <1>1, <1>4, <1>5, <1>7, <1>9 DEF Types

\* What a step does to the ring, case by case.
LEMMA RingSteps ==
    ASSUME Types, Next
    PROVE  \/ \E v \in V, c \in Ceremonies : Start(v, c)
           \/ \E v \in V, c \in Ceremonies, d \in DOMAIN deal : Contribute(v, c, d)
           \/ \E v \in V, c \in Ceremonies, r \in AnyShare : Accepted(v, c, r)
           \/ Losing /\ share' = share /\ disk' = disk
           \/ \E v \in V : Crash(v)
           \/ UNCHANGED Ring
<1>1. CASE \E v \in V, c \in Ceremonies : DkgFinalize(v, c) \/ ReshareFinalize(v, c)
  BY <1>1, FinalizeFacts
<1>2. CASE \E v \in V, c \in Ceremonies : Evict(v, c)
  <2>1. PICK v \in V, c \in Ceremonies : Evict(v, c)
    BY <1>2
  <2>2. ceremony' = [ceremony EXCEPT ![v][c] = NoCeremony] /\ deal' = deal /\ share' = share /\ disk' = disk
    BY <2>1 DEF Evict
  <2>3. QED BY <2>2, OneLost
<1>3. QED BY <1>1, <1>2, NextSplit

LEMMA TypesStep == ASSUME Types, [Next]_vars PROVE Types'
<1>1. CASE UNCHANGED Ring
  BY <1>1 DEF Types, FlightSound, InFlight, Ring
<1>2. CASE vars' = vars
  BY <1>1, <1>2 DEF vars, Ring
<1>3. CASE Next
  <2>1. CASE \E v \in V, c \in Ceremonies, r \in AnyShare : Accepted(v, c, r)
    <3>1. PICK v \in V, c \in Ceremonies, r \in AnyShare : Accepted(v, c, r)
      BY <2>1
    <3>2. /\ share' \in [V -> AnyShare] /\ disk' \in [V -> SUBSET AnyShare]
          /\ \A u \in V : \A s, t \in disk'[u] : s.base = t.base => s = t
      BY <3>1, AcceptedRecords
    <3>3. Losing
      BY <3>1 DEF Accepted
    <3>4. QED BY <3>2, <3>3, TypesLosing
  <2>2. CASE Losing /\ share' = share /\ disk' = disk
    <3>1. /\ share' \in [V -> AnyShare] /\ disk' \in [V -> SUBSET AnyShare]
          /\ \A u \in V : \A s, t \in disk'[u] : s.base = t.base => s = t
      BY <2>2 DEF Types
    <3>2. QED BY <2>2, <3>1, TypesLosing
  <2>3. CASE \E v \in V : Crash(v)
    <3>1. Losing /\ share' \in [V -> AnyShare] /\ disk' = disk
      BY <2>3, CrashFacts
    <3>2. /\ disk' \in [V -> SUBSET AnyShare]
          /\ \A u \in V : \A s, t \in disk'[u] : s.base = t.base => s = t
      BY <3>1 DEF Types
    <3>3. QED BY <3>1, <3>2, TypesLosing
  <2>4. QED BY <1>1, <1>3, <2>1, <2>2, <2>3, RingSteps, TypesStart, TypesContribute
<1>4. QED BY <1>2, <1>3

-----------------------------------------------------------------------------
(***************************************************************************)
(* Layer 2: Counts                                                         *)
(***************************************************************************)

LEMMA SpentFinite ==
    ASSUME Types, NEW v \in V
    PROVE  IsFiniteSet(Spent(v)) /\ Cardinality(Spent(v)) \in Nat /\ Cardinality(Spent(v)) <= MaxDeals
<1>1. IsFiniteSet(Deals) /\ Cardinality(Deals) = MaxDeals
  BY FS_Interval, CommitteeAssumption DEF Deals
<1>2. Spent(v) \subseteq Deals
  BY DealFacts DEF Spent
<1>3. IsFiniteSet(Spent(v)) /\ Cardinality(Spent(v)) <= MaxDeals
  BY <1>1, <1>2, FS_Subset
<1>4. QED BY <1>3, FS_CardinalityType

\* A deal in flight belongs to one ceremony.
LEMMA OwnDistinct ==
    ASSUME Types, NEW v \in V, NEW c \in Ceremonies, NEW e \in Ceremonies, InFlight(v, c),
           ceremony[v][e].own = ceremony[v][c].own
    PROVE  e = c
<1>1. FlightSound(v, c) /\ FlightSound(v, e) /\ InFlight(v, e)
  BY DEF Types, InFlight
<1>2. deal[ceremony[v][c].own] = [by |-> v, in |-> c] /\ deal[ceremony[v][c].own] = [by |-> v, in |-> e]
  BY <1>1 DEF FlightSound
<1>3. QED BY <1>2

LEMMA SpentFinitePrime ==
    ASSUME NEW v \in V
    PROVE  (Types => IsFiniteSet(Spent(v)) /\ Cardinality(Spent(v)) \in Nat)'
<1>1. Types => IsFiniteSet(Spent(v)) /\ Cardinality(Spent(v)) \in Nat
  BY SpentFinite
<1>2. QED BY <1>1, PTL

\* Deals are never taken back, nor do they return to a ceremony.
LEMMA DealsGrow ==
    ASSUME Types, Next
    PROVE  DOMAIN deal \subseteq DOMAIN deal' /\ \A d \in DOMAIN deal : deal'[d] = deal[d]
<1>1. CASE \E v \in V, c \in Ceremonies : Start(v, c)
  BY <1>1, StartFacts DEF Dealing
<1>2. CASE deal' = deal
  BY <1>2
<1>3. CASE \E v \in V : Crash(v)
  BY <1>2, <1>3 DEF Crash
<1>4. QED BY <1>1, <1>2, <1>3, RingSteps DEF Contribute, Accepted, Losing, Ring

LEMMA SpentGrows ==
    ASSUME Types, Next, NEW v \in V
    PROVE  Spent(v) \subseteq Spent(v)'
<1>1. SUFFICES ASSUME NEW d \in Spent(v), NEW e \in Ceremonies
               PROVE  ceremony'[v][e].own # d
  BY DealsGrow DEF Spent
<1>2. d \in DOMAIN deal /\ ceremony[v][e].own # d /\ d # 0
  BY DealFacts DEF Spent
<1>3. CASE \E u \in V, c \in Ceremonies : Start(u, c)
  <2>1. PICK u \in V, c \in Ceremonies : Start(u, c)
    BY <1>3
  <2>2. PICK n \in Deals : Dealing(u, c, n)
    BY <2>1, StartFacts
  <2>3. QED BY <1>2, <2>2 DEF Dealing
<1>4. CASE \E u \in V, c \in Ceremonies, f \in DOMAIN deal : Contribute(u, c, f)
  BY <1>2, <1>4, ContributeFacts DEF Receiving
<1>5. CASE Losing
  BY <1>2, <1>5, NoCeremonyType DEF Losing
<1>6. CASE UNCHANGED Ring
  BY <1>2, <1>6 DEF Ring
<1>7. QED BY <1>3, <1>4, <1>5, <1>6, RingSteps, CrashFacts DEF Accepted

\* A record that is left alone stays accounted for.
LEMMA AccountedKept ==
    ASSUME Types, Types', Next, NEW v \in V, NEW r \in AnyShare, NEW d \in Deals, Accounted(v, r, d)
    PROVE  Accounted(v, r, d)'
<1>1. IsFiniteSet(Spent(v)') /\ Cardinality(Spent(v)') \in Nat
  BY SpentFinitePrime
<1>2. Cardinality(Spent(v)) \in Nat
  BY SpentFinite
<1>3. Spent(v) \subseteq Spent(v)'
  BY SpentGrows
<1>4. Cardinality(Spent(v)) <= Cardinality(Spent(v)')
  BY <1>1, <1>3, FS_Subset
<1>5. r.sum[d] \in Nat
  BY DEF AnyShare
<1>6. r.sum[d] <= Cardinality(Spent(v)')
  BY <1>1, <1>2, <1>4, <1>5 DEF Accounted
<1>7. r.sum[d] # 0 => d \in DOMAIN deal' /\ (deal'[d].by = v => d \in Spent(v)')
  BY <1>3, DealsGrow DEF Accounted
<1>8. QED BY <1>6, <1>7 DEF Accounted

LEMMA NoShareAccounted ==
    ASSUME NEW v \in V, NEW d \in Deals
    PROVE  (Types => Accounted(v, NoShare, d))'
<1>1. Types => Accounted(v, NoShare, d)
  <2>1. NoShare.sum[d] = 0
    BY NoShareType
  <2>2. QED BY <2>1, SpentFinite DEF Accounted
<1>2. QED BY <1>1, PTL

\* Finishing a ceremony spends the deal v made for it.
LEMMA OwnSpent ==
    ASSUME Types, Next, NEW v \in V, NEW c \in Ceremonies, NEW r, Accepted(v, c, r)
    PROVE  /\ ceremony[v][c].own \in DOMAIN deal /\ deal[ceremony[v][c].own] = [by |-> v, in |-> c]
           /\ ceremony[v][c].own \notin Spent(v)
           /\ ceremony[v][c].own \in Spent(v)'
<1> DEFINE own == ceremony[v][c].own
<1>1. own \in DOMAIN deal /\ deal[own] = [by |-> v, in |-> c] /\ own # 0
  BY DEF Types, FlightSound, Accepted, InFlight
<1>2. own \notin Spent(v)
  BY DEF Spent
<1>3. deal' = deal /\ ceremony'[v][c].own = 0
  BY DEF Accepted, Losing
<1>4. ASSUME NEW e \in Ceremonies PROVE ceremony'[v][e].own # own
  <2>1. CASE e = c
    BY <1>1, <1>3, <2>1
  <2>2. CASE e # c
    <3>1. ceremony[v][e].own # own
      BY <2>2, OwnDistinct DEF Accepted
    <3>2. ceremony'[v][e] \in {ceremony[v][e], NoCeremony}
      BY DEF Accepted, Losing
    <3>3. QED BY <1>1, <3>1, <3>2, NoCeremonyType
  <2>3. QED BY <2>1, <2>2
<1>5. own \in Spent(v)'
  BY <1>1, <1>3, <1>4 DEF Spent
<1>6. QED BY <1>1, <1>2, <1>5

LEMMA AcceptedAccounted ==
    ASSUME Types, Types', Counts, Next, NEW v \in V, NEW c \in Ceremonies, NEW r \in AnyShare,
           Accepted(v, c, r), NEW d \in Deals
    PROVE  Accounted(v, r, d)'
<1> DEFINE own == ceremony[v][c].own
<1>1. PICK old \in {NoShare, share[v]} :
          r.sum[d] = IF d \in Dealt(v, c) THEN old.sum[d] + 1 ELSE old.sum[d]
  BY DEF Accepted
<1>2. Accounted(v, old, d) /\ old.sum[d] \in Nat
  <2>1. CASE old = NoShare
    BY <2>1, NoShareType, SpentFinite DEF Accounted
  <2>2. CASE old = share[v]
    <3>1. share[v] \in Records(v)
      BY DEF Records
    <3>2. Accounted(v, share[v], d)
      BY <3>1 DEF Counts
    <3>3. share[v].sum[d] \in Nat
      BY DEF Types, AnyShare
    <3>4. QED BY <2>2, <3>2, <3>3
  <2>3. QED BY <2>1, <2>2
<1>3. IsFiniteSet(Spent(v)') /\ Cardinality(Spent(v)') \in Nat
  BY SpentFinitePrime
<1>4. IsFiniteSet(Spent(v)) /\ Cardinality(Spent(v)) \in Nat
  BY SpentFinite
<1>5. /\ own \in DOMAIN deal /\ deal[own] = [by |-> v, in |-> c]
      /\ own \notin Spent(v) /\ own \in Spent(v)'
  BY OwnSpent
<1>6. Spent(v) \cup {own} \subseteq Spent(v)'
  BY <1>5, SpentGrows
<1>7. Cardinality(Spent(v) \cup {own}) = Cardinality(Spent(v)) + 1
  BY <1>4, <1>5, FS_AddElement
<1>8. Cardinality(Spent(v)) + 1 <= Cardinality(Spent(v)')
  BY <1>3, <1>6, <1>7, FS_Subset
<1>9. r.sum[d] <= Cardinality(Spent(v)')
  <2>1. old.sum[d] <= Cardinality(Spent(v)) /\ r.sum[d] \in {old.sum[d], old.sum[d] + 1}
    BY <1>1, <1>2 DEF Accounted
  <2> HIDE DEF own
  <2>2. QED BY <1>2, <1>3, <1>4, <1>8, <2>1
<1>10. ceremony[v][c].peers \subseteq DOMAIN deal /\ \A f \in ceremony[v][c].peers : deal[f].by # v
  BY DEF Types, FlightSound
<1>11. deal' = deal
  BY DEF Accepted, Losing
<1>12. ASSUME r.sum[d] # 0 PROVE d \in DOMAIN deal /\ (deal[d].by = v => d \in Spent(v)')
  <2>1. CASE d \in Dealt(v, c)
    BY <1>5, <1>10, <2>1 DEF Dealt
  <2>2. CASE d \notin Dealt(v, c)
    BY <1>1, <1>2, <1>6, <1>12, <2>2 DEF Accounted
  <2>3. QED BY <2>1, <2>2
<1>13. QED BY <1>9, <1>11, <1>12 DEF Accounted

LEMMA CountsInit == ASSUME Init PROVE Counts
<1>1. SUFFICES ASSUME NEW v \in V, NEW r \in Records(v), NEW d \in Deals PROVE Accounted(v, r, d)
  BY DEF Counts
<1>2. Types
  BY TypesInit
<1>3. r.sum[d] = IF d \in DOMAIN deal THEN 1 ELSE 0
  BY InitRecords
<1>4. IsFiniteSet(Spent(v)) /\ Cardinality(Spent(v)) \in Nat
  BY <1>2, SpentFinite
<1>5. CASE d \notin DOMAIN deal
  BY <1>3, <1>4, <1>5 DEF Accounted
<1>6. CASE d \in DOMAIN deal
  <2>1. PICK e \in DOMAIN deal : deal[e].by = v
    <3>1. deal # <<>>
      BY <1>6
    <3>2. QED BY <3>1, InitFacts
  <2>2. ASSUME NEW c \in Ceremonies PROVE ceremony[v][c].own = 0
    BY NoCeremonyType DEF Init
  <2>3. 0 \notin DOMAIN deal
    BY <1>2, DealFacts
  <2>4. \A f \in DOMAIN deal : deal[f].by = v => f \in Spent(v)
    BY <2>2, <2>3 DEF Spent
  <2>5. {e} \subseteq Spent(v) /\ Cardinality({e}) = 1
    BY <2>1, <2>4, FS_Singleton
  <2>6. 1 <= Cardinality(Spent(v))
    BY <1>4, <2>5, FS_Subset
  <2>7. QED BY <1>3, <1>6, <2>4, <2>6 DEF Accounted
<1>7. QED BY <1>5, <1>6

\* Where the records of a validator come from.
LEMMA RecordSteps ==
    ASSUME Types, Next, NEW u \in V, NEW s \in Records(u)'
    PROVE  \/ s \in Records(u) \cup {NoShare}
           \/ \E c \in Ceremonies : s \in AnyShare /\ Accepted(u, c, s)
<1>1. s = share'[u] \/ s \in disk'[u]
  BY DEF Records
<1>2. CASE \E v \in V, c \in Ceremonies, r \in AnyShare : Accepted(v, c, r)
  <2>1. PICK v \in V, c \in Ceremonies, r \in AnyShare : Accepted(v, c, r)
    BY <1>2
  <2>2. s \in {share[u]} \cup disk[u] \/ (u = v /\ s = r)
    BY <1>1, <2>1, AcceptedRecords
  <2>3. QED BY <2>1, <2>2 DEF Records
<1>3. CASE share' = share /\ disk' = disk
  BY <1>1, <1>3 DEF Records
<1>4. CASE \E v \in V : Crash(v)
  <2>1. disk' = disk /\ share'[u] \in {share[u], NoShare} \cup disk[u]
    BY <1>4, CrashFacts
  <2>2. QED BY <1>1, <2>1 DEF Records
<1>5. QED BY <1>2, <1>3, <1>4, RingSteps DEF Start, Contribute, Ring

LEMMA RecordTypes == ASSUME Types, NEW v \in V PROVE Records(v) \subseteq AnyShare
BY DEF Types, Records

LEMMA CountsStep == ASSUME Types, Types', Counts, [Next]_vars PROVE Counts'
<1>1. CASE vars' = vars
  BY <1>1 DEF vars, Counts, Records, Accounted, Spent
<1>2. CASE Next
  <2>1. SUFFICES ASSUME NEW v \in V, NEW r \in Records(v)', NEW d \in Deals PROVE Accounted(v, r, d)'
    BY DEF Counts
  <2>2. CASE r \in Records(v)
    <3>1. PICK s \in Records(v) : s = r
      BY <2>2
    <3>2. Accounted(v, r, d) /\ r \in AnyShare
      BY <2>2, RecordTypes DEF Counts
    <3>3. QED BY <1>2, <3>2, AccountedKept
  <2>3. CASE r = NoShare
    <3>1. Accounted(v, NoShare, d)'
      BY NoShareAccounted
    <3>2. QED BY <2>3, <3>1
  <2>4. CASE \E c \in Ceremonies : r \in AnyShare /\ Accepted(v, c, r)
    BY <1>2, <2>4, AcceptedAccounted
  <2>5. QED BY <1>2, <2>2, <2>3, <2>4, RecordSteps
<1>3. QED BY <1>1, <1>2

-----------------------------------------------------------------------------
(***************************************************************************)
(* Layer 3: Agree                                                          *)
(***************************************************************************)

\* Record r has all the deals of ceremony c, or none.
Whole(c, r) == NoneIn(c, r) \/ (AllIn(c, r) /\ Complete(c))

\* Pigeonhole: as many deals as there are other validators, of different other
\* validators, are one of each.
LEMMA OneOfEach ==
    ASSUME Types, NEW v \in V, NEW c \in Ceremonies, Acceptable(v, c), NEW w \in V, w # v
    PROVE  \E d \in ceremony[v][c].peers : deal[d].by = w
<1> DEFINE P == ceremony[v][c].peers
           f == [d \in P |-> deal[d].by]
<1>1. /\ P \subseteq DOMAIN deal
      /\ \A d \in P : deal[d].by # v
      /\ \A d, e \in P : deal[d].by = deal[e].by => d = e
  BY DEF Types, FlightSound
<1>2. \A d \in P : deal[d].by \in V
  BY <1>1, DealFacts DEF Deal
<1>3. f \in [P -> V \ {v}] /\ \A d, e \in P : f[d] = f[e] => d = e
  BY <1>1, <1>2
<1>4. f \in Injection(P, V \ {v})
  BY <1>3, Fun_IsInj
<1>5. IsFiniteSet(V \ {v}) /\ Cardinality(V \ {v}) = Cardinality(V) - 1
  BY CommitteeAssumption, FS_RemoveElement
<1>6. Cardinality(P) = Cardinality(V \ {v})
  BY <1>5 DEF Acceptable
<1>7. f \in Surjection(P, V \ {v})
  BY <1>4, <1>5, <1>6, FS_Injection
<1>8. \A u \in V \ {v} : \E d \in P : f[d] = u
  BY <1>7 DEF Surjection
<1>9. QED BY <1>8

\* Whoever finishes a ceremony that was dealt once has all its deals.
LEMMA DealtIsAll ==
    ASSUME Types, NEW v \in V, NEW c \in Ceremonies, InFlight(v, c), Acceptable(v, c)
    PROVE  /\ Dealt(v, c) \subseteq Of(c) /\ Complete(c)
           /\ DealtOnce(c) => Dealt(v, c) = Of(c)
<1>1. FlightSound(v, c)
  BY DEF Types
<1>2. /\ ceremony[v][c].own \in DOMAIN deal /\ deal[ceremony[v][c].own] = [by |-> v, in |-> c]
      /\ ceremony[v][c].peers \subseteq DOMAIN deal
  BY <1>1 DEF FlightSound
<1>3. Dealt(v, c) \subseteq Of(c)
  BY <1>2 DEF Dealt, Of, Acceptable
<1>4. \A w \in V : \E d \in Dealt(v, c) : deal[d].by = w
  BY <1>2, OneOfEach DEF Dealt
<1>5. Complete(c)
  BY <1>3, <1>4 DEF Complete
<1>6. ASSUME DealtOnce(c), NEW d \in Of(c) PROVE d \in Dealt(v, c)
  <2>1. d \in DOMAIN deal /\ deal[d] \in Deal /\ deal[d].in = c
    BY DealFacts DEF Of
  <2>2. PICK e \in Dealt(v, c) : deal[e].by = deal[d].by
    BY <1>4, <2>1 DEF Deal
  <2>3. e \in DOMAIN deal /\ deal[e] \in Deal /\ deal[e].in = c
    BY <1>3, DealFacts DEF Of
  <2>4. deal[d] = deal[e]
    BY <2>1, <2>2, <2>3 DEF Deal
  <2>5. d = e
    BY <1>6, <2>1, <2>3, <2>4 DEF DealtOnce
  <2>6. QED BY <2>5
<1>7. QED BY <1>3, <1>5, <1>6

LEMMA OfDeals == ASSUME Types, NEW c \in Ceremonies PROVE Of(c) \subseteq Deals /\ Of(c) \subseteq DOMAIN deal
BY DealFacts DEF Of

\* The record v stores has all or nothing of a ceremony, as its share had.
LEMMA AcceptedWhole ==
    ASSUME Types, Counts, Agree, NEW v \in V, NEW c \in Ceremonies, NEW r, Accepted(v, c, r), Next,
           NEW e \in Ceremonies, DealtOnce(e)
    PROVE  Whole(e, r)
<1> DEFINE own == ceremony[v][c].own
<1>1. PICK old \in {NoShare, share[v]} : \A d \in Deals :
          r.sum[d] = IF d \in Dealt(v, c) THEN old.sum[d] + 1 ELSE old.sum[d]
  BY DEF Accepted
<1>2. Of(e) \subseteq Deals
  BY OfDeals
<1>3. Whole(e, old)
  <2>1. CASE old = NoShare
    BY <1>2, <2>1, NoShareType DEF Whole, NoneIn
  <2>2. CASE old = share[v]
    <3>1. share[v] \in Records(v)
      BY DEF Records
    <3>2. Whole(e, share[v])
      BY <3>1 DEF Agree, Whole
    <3>3. QED BY <2>2, <3>2
  <2>3. QED BY <2>1, <2>2
<1>4. Dealt(v, c) \subseteq Of(c) /\ Complete(c) /\ (DealtOnce(c) => Dealt(v, c) = Of(c))
  BY DealtIsAll DEF Accepted
<1>5. CASE e # c
  <2>1. \A d \in Of(e) : d \notin Dealt(v, c)
    BY <1>4, <1>5 DEF Of
  <2>2. \A d \in Of(e) : r.sum[d] = old.sum[d]
    BY <1>1, <1>2, <2>1
  <2>3. QED BY <1>3, <2>2 DEF Whole, NoneIn, AllIn
<1>6. CASE e = c
  <2>1. own \in DOMAIN deal /\ deal[own] = [by |-> v, in |-> c] /\ own \notin Spent(v)
    BY OwnSpent
  <2>2. own \in Of(c) /\ own \in Deals
    BY <1>2, <1>6, <2>1 DEF Of
  <2>3. old.sum[own] = 0
    <3>1. CASE old = NoShare
      BY <2>2, <3>1, NoShareType
    <3>2. CASE old = share[v]
      <4>1. share[v] \in Records(v)
        BY DEF Records
      <4>2. Accounted(v, share[v], own)
        BY <2>2, <4>1 DEF Counts
      <4>3. QED BY <2>1, <3>2, <4>2 DEF Accounted
    <3>3. QED BY <3>1, <3>2
  <2>4. NoneIn(c, old)
    BY <1>3, <1>6, <2>2, <2>3 DEF Whole, AllIn
  <2>5. \A d \in Of(c) : r.sum[d] = old.sum[d] + 1 /\ old.sum[d] = 0
    BY <1>1, <1>2, <1>4, <1>6, <2>4 DEF NoneIn
  <2>6. AllIn(c, r)
    BY <2>5 DEF AllIn
  <2>7. QED BY <1>4, <1>6, <2>6 DEF Whole
<1>7. QED BY <1>5, <1>6

\* Of a ceremony that v starts once more than once nothing is said; one that v
\* starts for the first time nobody has finished.
LEMMA StartedWhole ==
    ASSUME Types, Counts, Agree, NEW v \in V, NEW c \in Ceremonies, Start(v, c),
           NEW e \in Ceremonies, DealtOnce(e)', NEW u \in V, NEW r \in Records(u)
    PROVE  Whole(e, r)'
<1>1. PICK n \in Deals : Dealing(v, c, n)
  BY StartFacts
<1>2. DealtOnce(e)
  BY <1>1 DEF Dealing, DealtOnce
<1>3. Whole(e, r)
  BY <1>2 DEF Agree, Whole
<1>4. CASE e # c
  <2>1. Of(e)' = Of(e)
    BY <1>1, <1>4 DEF Of, Dealing
  <2>2. Complete(e) => Complete(e)'
    <3>1. \A d \in Of(e) : deal'[d] = deal[d]
      BY <1>1 DEF Of, Dealing
    <3>2. QED BY <2>1, <3>1 DEF Complete
  <2>3. QED BY <1>3, <2>1, <2>2 DEF Whole, NoneIn, AllIn
<1>5. CASE e = c
  <2>1. Of(c)' = Of(c) \cup {n}
    BY <1>1 DEF Of, Dealing
  <2>2. ~Complete(c)
    <3>1. SUFFICES ASSUME NEW d \in Of(c), deal[d].by = v PROVE FALSE
      BY DEF Complete
    <3>2. d \in DOMAIN deal /\ deal[d] \in Deal /\ deal[d].in = c
      BY DealFacts DEF Of
    <3>3. deal[d] = [by |-> v, in |-> c]
      BY <3>1, <3>2 DEF Deal
    <3>4. d \in DOMAIN deal' /\ n \in DOMAIN deal' /\ deal'[d] = deal'[n] /\ deal'[d].in = c /\ d # n
      BY <1>1, <3>2, <3>3 DEF Dealing
    <3>5. QED BY <1>5, <3>4 DEF DealtOnce
  <2>3. NoneIn(c, r)
    BY <1>3, <1>5, <2>2 DEF Whole
  <2>4. r.sum[n] = 0
    <3>1. Accounted(u, r, n) /\ n \notin DOMAIN deal
      BY <1>1 DEF Counts, Dealing
    <3>2. QED BY <3>1 DEF Accounted
  <2>5. NoneIn(c, r)'
    BY <2>1, <2>3, <2>4 DEF NoneIn
  <2>6. QED BY <1>5, <2>5 DEF Whole
<1>6. QED BY <1>4, <1>5

LEMMA AgreeInit == ASSUME Init PROVE Agree
<1>1. SUFFICES ASSUME NEW c \in Ceremonies, NEW v \in V, NEW r \in Records(v) PROVE Whole(c, r)
  BY DEF Agree, Whole
<1>2. Types
  BY TypesInit
<1>3. \A d \in Of(c) : d \in DOMAIN deal /\ deal[d].in = c /\ r.sum[d] = 1
  BY <1>2, InitRecords, OfDeals DEF Of
<1>4. CASE Of(c) = {}
  BY <1>4 DEF Whole, NoneIn
<1>5. CASE Of(c) # {}
  <2>1. PICK d \in Of(c) : TRUE
    BY <1>5
  <2>2. deal # <<>>
    BY <1>3, <2>1
  <2>3. PICK e \in Ceremonies : /\ \A f \in DOMAIN deal : deal[f].in = e
                                /\ \A u \in V : \E f \in DOMAIN deal : deal[f].by = u
    BY <2>2, InitFacts
  <2>4. Of(c) = DOMAIN deal
    BY <1>3, <2>1, <2>3 DEF Of
  <2>5. Complete(c)
    BY <2>3, <2>4 DEF Complete
  <2>6. QED BY <1>3, <2>5 DEF Whole, AllIn
<1>6. QED BY <1>4, <1>5

LEMMA NoShareWhole == ASSUME NEW c \in Ceremonies PROVE (Types => Whole(c, NoShare))'
<1>1. Types => Whole(c, NoShare)
  BY NoShareType, OfDeals DEF Whole, NoneIn
<1>2. QED BY <1>1, PTL

LEMMA AgreeStep == ASSUME Types, Types', Counts, Agree, [Next]_vars PROVE Agree'
<1>1. CASE vars' = vars
  BY <1>1 DEF vars, Agree, Records, DealtOnce, NoneIn, AllIn, Complete, Of
<1>2. CASE Next
  <2>1. SUFFICES ASSUME NEW c \in Ceremonies, DealtOnce(c)', NEW v \in V, NEW r \in Records(v)'
                 PROVE  Whole(c, r)'
    BY DEF Agree, Whole
  <2>2. CASE r = NoShare
    <3>1. Whole(c, NoShare)'
      BY NoShareWhole
    <3>2. QED BY <2>2, <3>1
  <2>3. CASE \E u \in V, e \in Ceremonies : Start(u, e)
    <3>1. r \in Records(v)
      BY <2>3 DEF Start, Records
    <3>2. QED BY <2>1, <2>3, <3>1, StartedWhole
  <2>4. CASE deal' = deal
    <3>1. DealtOnce(c) /\ (Whole(c, r) => Whole(c, r)')
      BY <2>1, <2>4 DEF DealtOnce, Whole, NoneIn, AllIn, Complete, Of
    <3>2. CASE r \in Records(v)
      BY <3>1, <3>2 DEF Agree, Whole
    <3>3. CASE \E e \in Ceremonies : r \in AnyShare /\ Accepted(v, e, r)
      BY <1>2, <3>1, <3>3, AcceptedWhole
    <3>4. QED BY <1>2, <2>2, <3>2, <3>3, RecordSteps
  <2>5. CASE \E u \in V : Crash(u)
    BY <2>4, <2>5 DEF Crash
  <2>6. QED BY <1>2, <2>3, <2>4, <2>5, RingSteps DEF Contribute, Accepted, Losing, Ring
<1>3. QED BY <1>1, <1>2

\* Two records with all the deals of a ceremony agree about it.
LEMMA AgreeImplies == ASSUME Types, Agree PROVE CeremonyAgrees
<1>1. SUFFICES ASSUME NEW c \in Ceremonies, DealtOnce(c), NEW v \in V, NEW w \in V,
                      TookPart(v, c), TookPart(w, c), NEW d \in DOMAIN deal, deal[d].in = c
               PROVE  share[v].sum[d] = share[w].sum[d]
  BY DEF CeremonyAgrees
<1>2. ASSUME NEW u \in V, TookPart(u, c) PROVE share[u].sum[d] = 1
  <2>1. share[u] \in Records(u)
    BY DEF Records
  <2>2. Whole(c, share[u])
    BY <1>1, <2>1 DEF Agree, Whole
  <2>3. PICK e \in DOMAIN deal : deal[e].in = c /\ share[u].sum[e] > 0
    BY <1>2 DEF TookPart
  <2>4. ~NoneIn(c, share[u])
    BY <2>3 DEF NoneIn, Of
  <2>5. QED BY <1>1, <2>2, <2>4 DEF Whole, AllIn, Of
<1>3. QED BY <1>1, <1>2

-----------------------------------------------------------------------------
(***************************************************************************)
(* Layers 4 and 5: what the wallets have, and the logs                     *)
(***************************************************************************)

\* A deal is in a share at most MaxDeals times.
LEMMA ShareTyped == ASSUME Types, Counts, NEW v \in V PROVE share[v] \in Share
<1>1. share[v] \in AnyShare /\ share[v] \in Records(v)
  BY DEF Types, Records
<1>2. ASSUME NEW d \in Deals PROVE share[v].sum[d] \in 0..MaxDeals
  <2>1. share[v].sum[d] \in Nat /\ share[v].sum[d] <= Cardinality(Spent(v))
    BY <1>1 DEF AnyShare, Counts, Accounted
  <2>2. Cardinality(Spent(v)) \in Nat /\ Cardinality(Spent(v)) <= MaxDeals
    BY SpentFinite
  <2>3. QED BY <2>1, <2>2, CommitteeAssumption
<1>3. QED BY <1>1, <1>2 DEF AnyShare, Share

LEMMA NoOpType == NoOp \in Operation /\ NoOp.at = "idle" /\ NoOp.answered = {} /\ NoOp.calm = TRUE
<1>1. NoShare \in Share
  BY CommitteeAssumption DEF NoShare, Share
<1>2. QED BY <1>1 DEF NoOp, Operation

\* An operation is signed well, and its coin verifies as far as it was.
Sound(x) ==
    /\ x.at = "signing" /\ x.calm => \A v \in x.answered : x.parts[v] = share[v] /\ Fits(x.pk)
    /\ x.at = "coin" => x.valid \/ (x.kind = "issue" /\ ~x.calm)

LEMMA SoundOps == SignedWell <=> \A o \in Ops : Sound(op[o])
BY DEF SignedWell, Signing1, CoinsVerify, Sound

LEMMA OpFields ==
    ASSUME OtherTypes, NEW o \in Ops
    PROVE  /\ op[o] \in Operation /\ op[o].pk \in SUBSET Deals /\ op[o].answered \in SUBSET V
           /\ op[o].parts \in [V -> Share] /\ op[o].calm \in BOOLEAN /\ op[o].valid \in BOOLEAN
           /\ op[o].kind \in {"none", "issue", "refresh"}
           /\ op[o].at \in {"idle", "round1", "signing", "coin", "failed"}
BY DEF OtherTypes, Operation

\* The wallet has asked validator v.
LEMMA Round1Sound ==
    ASSUME OtherTypes, NEW o \in Ops, NEW v \in V, Round1(o, v)
    PROVE  \E x \in Operation : op' = [op EXCEPT ![o] = x] /\ Sound(x)
<1> DEFINE x == [op[o] EXCEPT !.answered = @ \cup {v}]
<1>1. op' = [op EXCEPT ![o] = x] /\ op[o].at = "round1"
  BY DEF Round1
<1>2. x \in Operation /\ x.at = "round1"
  BY <1>1, OpFields DEF Operation
<1>3. Sound(x)
  BY <1>2 DEF Sound
<1>4. QED BY <1>1, <1>2, <1>3

\* A wallet begins to collect partial signatures.
LEMMA SigningSound ==
    ASSUME OtherTypes, NEW o \in Ops, op' = Signing(o)
    PROVE  \E x \in Operation : op' = [op EXCEPT ![o] = x] /\ Sound(x)
<1> DEFINE x == [op[o] EXCEPT !.at = "signing", !.answered = {}]
<1>1. op' = [op EXCEPT ![o] = x]
  BY DEF Signing, OtherTypes
<1>2. x \in Operation /\ x.at = "signing" /\ x.answered = {}
  BY OpFields DEF Operation
<1>3. Sound(x)
  BY <1>2 DEF Sound
<1>4. QED BY <1>1, <1>2, <1>3

\* A partial signature is made with the share that is loaded.
LEMMA PartialSignSound ==
    ASSUME OtherTypes, NEW o \in Ops, NEW v \in V, share[v] \in Share, Sound(op[o]), PartialSign(o, v)
    PROVE  \E x \in Operation : op' = [op EXCEPT ![o] = x] /\ Sound(x)
<1> DEFINE fits == Fits(op[o].pk)
           x == [op[o] EXCEPT !.answered = @ \cup {v}, !.parts = [@ EXCEPT ![v] = share[v]],
                              !.calm = @ /\ fits]
<1>1. op' = [op EXCEPT ![o] = x] /\ op[o].at = "signing"
  BY DEF PartialSign, OtherTypes
<1>2. fits \in BOOLEAN
  BY DEF Fits
<1> HIDE DEF fits
<1>3. [op[o].parts EXCEPT ![v] = share[v]] \in [V -> Share] /\ op[o].answered \cup {v} \in SUBSET V
      /\ (op[o].calm /\ fits) \in BOOLEAN
  BY OpFields
<1>4. /\ x \in Operation /\ x.at = "signing" /\ x.pk = op[o].pk
      /\ x.answered = op[o].answered \cup {v} /\ x.parts = [op[o].parts EXCEPT ![v] = share[v]]
      /\ x.calm = (op[o].calm /\ fits)
  BY <1>1, <1>3, OpFields DEF Operation
<1> HIDE DEF x
<1>5. ASSUME x.calm PROVE \A u \in x.answered : x.parts[u] = share[u] /\ Fits(x.pk)
  <2>1. op[o].calm /\ Fits(x.pk)
    BY <1>4, <1>5 DEF fits
  <2>2. \A u \in op[o].answered : op[o].parts[u] = share[u]
    BY <1>1, <2>1 DEF Sound
  <2>3. \A u \in x.answered : u \in V /\ x.parts[u] = IF u = v THEN share[v] ELSE op[o].parts[u]
    BY <1>4, OpFields
  <2>4. QED BY <1>4, <2>1, <2>2, <2>3
<1>6. Sound(x)
  BY <1>4, <1>5 DEF Sound
<1>7. QED BY <1>1, <1>4, <1>6

\* A coin of an operation nothing disturbed verifies.
LEMMA CalmIsValid ==
    ASSUME Types, OtherTypes, NEW o \in Ops, Sound(op[o]), op[o].at = "signing", op[o].calm, Aggregated(o)
    PROVE  Valid(o)
<1>1. SUFFICES ASSUME NEW v \in V, NEW w \in V
               PROVE  op[o].parts[v].base = op[o].pk /\ op[o].parts[v] = op[o].parts[w]
  BY DEF Valid
<1>2. /\ op[o].parts[v] = share[v] /\ op[o].parts[w] = share[w] /\ Fits(op[o].pk)
  BY DEF Sound, Aggregated
<1>3. share[v].base = op[o].pk /\ share[w].base = op[o].pk /\ share[v].sum = share[w].sum
  BY <1>2 DEF Fits
<1>4. share[v] \in AnyShare /\ share[w] \in AnyShare
  BY DEF Types
<1>5. share[v] = share[w]
  BY <1>3, <1>4 DEF AnyShare
<1>6. QED BY <1>2, <1>3, <1>5

LEMMA CoinSound ==
    ASSUME Types, OtherTypes, NEW o \in Ops, Sound(op[o]), Unblind(o) \/ UserRound6(o)
    PROVE  \E x \in Operation : op' = [op EXCEPT ![o] = x] /\ Sound(x)
<1> DEFINE valid == Valid(o)
           x == [op[o] EXCEPT !.at = "coin", !.answered = {}, !.parts = NoOp.parts, !.valid = valid]
<1>1. op' = [op EXCEPT ![o] = x] /\ op[o].at = "signing" /\ Aggregated(o)
  BY DEF Unblind, UserRound6, Coin, OtherTypes
<1>2. (op[o].kind = "issue") \/ valid
  BY DEF Unblind, UserRound6
<1>3. op[o].calm => valid
  BY <1>1, CalmIsValid
<1>4. valid \in BOOLEAN
  BY DEF Valid
<1> HIDE DEF valid
<1>5. NoOp.parts \in [V -> Share]
  BY NoOpType DEF Operation
<1>6. x \in Operation /\ x.at = "coin" /\ x.valid = valid /\ x.kind = op[o].kind /\ x.calm = op[o].calm
  BY <1>4, <1>5, OpFields DEF Operation
<1> HIDE DEF x
<1>7. Sound(x)
  BY <1>2, <1>3, <1>6 DEF Sound
<1>8. QED BY <1>1, <1>6, <1>7

\* A wallet begins, or gives up.
LEMMA OtherOpsSound ==
    ASSUME Types, OtherTypes, NEW o \in Ops,
           \/ \E v \in V : IssueCoin(o, share[v].base)
           \/ \E m \in Ops : RefreshCoin(o, m)
           \/ Fail(o)
    PROVE  \E x \in Operation : op' = [op EXCEPT ![o] = x] /\ Sound(x)
<1>1. CASE \E v \in V : IssueCoin(o, share[v].base)
  <2>1. PICK v \in V : IssueCoin(o, share[v].base)
    BY <1>1
  <2> DEFINE x == [NoOp EXCEPT !.kind = "issue", !.at = "round1", !.pk = share[v].base]
  <2>2. op' = [op EXCEPT ![o] = x]
    BY <2>1 DEF IssueCoin
  <2>3. share[v].base \in SUBSET Deals
    BY DEF Types, AnyShare
  <2>4. x \in Operation /\ x.at = "round1"
    BY <2>3, NoOpType DEF Operation
  <2>5. QED BY <2>2, <2>4 DEF Sound
<1>2. CASE \E m \in Ops : RefreshCoin(o, m)
  <2>1. PICK m \in Ops : RefreshCoin(o, m)
    BY <1>2
  <2> DEFINE x == [NoOp EXCEPT !.kind = "refresh", !.at = "round1", !.pk = op[m].pk, !.valid = op[m].valid]
  <2>2. op' = [op EXCEPT ![o] = x]
    BY <2>1 DEF RefreshCoin
  <2>3. op[m].pk \in SUBSET Deals /\ op[m].valid \in BOOLEAN
    BY OpFields
  <2>4. x \in Operation /\ x.at = "round1"
    BY <2>3, NoOpType DEF Operation
  <2>5. QED BY <2>2, <2>4 DEF Sound
<1>3. CASE Fail(o)
  <2> DEFINE x == [NoOp EXCEPT !.at = "failed"]
  <2>1. op' = [op EXCEPT ![o] = x]
    BY <1>3 DEF Fail
  <2>2. x \in Operation /\ x.at = "failed"
    BY NoOpType DEF Operation
  <2>3. QED BY <2>1, <2>2 DEF Sound
<1>4. QED BY <1>1, <1>2, <1>3

LEMMA WalletOps ==
    ASSUME Types, Counts, OtherTypes, SignedWell, WalletStep
    PROVE  op' = op \/ \E o \in Ops : \E x \in Operation : op' = [op EXCEPT ![o] = x] /\ Sound(x)
<1>1. \A o \in Ops : Sound(op[o])
  BY SoundOps
<1>2. CASE \E o \in Ops : \/ \E v \in V : IssueCoin(o, share[v].base)
                          \/ \E m \in Ops : RefreshCoin(o, m)
                          \/ Fail(o)
  BY <1>2, OtherOpsSound
<1>3. CASE \E o \in Ops, v \in V : Round1(o, v)
  BY <1>3, Round1Sound
<1>4. CASE \E o \in Ops, v \in V : PartialSign(o, v)
  BY <1>1, <1>4, PartialSignSound, ShareTyped
<1>5. CASE \E o \in Ops, v \in V : Expire(o, v)
  BY <1>5 DEF Expire
<1>6. CASE \E o \in Ops : BlindRequest(o) \/ ChooseCandidate(o)
  BY <1>6, SigningSound DEF BlindRequest, ChooseCandidate
<1>7. CASE \E o \in Ops : Unblind(o) \/ UserRound6(o)
  BY <1>1, <1>7, CoinSound
<1>8. QED BY <1>2, <1>3, <1>4, <1>5, <1>6, <1>7 DEF WalletStep

LEMMA SoundOpsPrime == (\A o \in Ops : Sound(op[o]))' => SignedWell'
BY SoundOps, PTL

\* As long as the shares stay, so does what was signed with them.
LEMMA SignedKept ==
    ASSUME OtherTypes, SignedWell, share' = share,
           op' = op \/ \E o \in Ops : \E x \in Operation : op' = [op EXCEPT ![o] = x] /\ Sound(x)
    PROVE  op' \in [Ops -> Operation] /\ SignedWell'
<1>1. op \in [Ops -> Operation] /\ \A o \in Ops : Sound(op[o])
  BY SoundOps DEF OtherTypes
<1>2. op' \in [Ops -> Operation]
  BY <1>1
<1>3. ASSUME NEW p \in Ops PROVE Sound(op[p])'
  <2>1. PICK y \in Operation : y = op'[p]
    BY <1>2
  <2>2. Sound(y)
    BY <1>1, <2>1
  <2>3. Sound(y)'
    BY <2>2 DEF Sound, Fits
  <2>4. QED BY <2>1, <2>3 DEF Sound
<1>4. QED BY <1>2, <1>3, SoundOpsPrime

\* After a share has changed, no operation under way counts as undisturbed.
LEMMA SignedDisturbed ==
    ASSUME OtherTypes, SignedWell, op' = Disturbed
    PROVE  op' \in [Ops -> Operation] /\ SignedWell'
<1>1. \A o \in Ops : Sound(op[o])
  BY SoundOps
<1>2. ASSUME NEW o \in Ops
      PROVE  /\ op'[o] \in Operation
             /\ op'[o].at = op[o].at /\ op'[o].kind = op[o].kind /\ op'[o].valid = op[o].valid
             /\ IF op[o].at = "signing" THEN op'[o].calm = FALSE ELSE op'[o].calm = op[o].calm
  <2>1. op'[o] = IF op[o].at = "signing" THEN [op[o] EXCEPT !.calm = FALSE] ELSE op[o]
    BY DEF Disturbed
  <2>2. QED BY <2>1, OpFields DEF Operation
<1>3. op' \in [Ops -> Operation]
  <2>1. op' = [o \in Ops |-> op'[o]]
    BY DEF Disturbed
  <2>2. QED BY <1>2, <2>1
<1>4. ASSUME NEW o \in Ops PROVE Sound(op[o])'
  <2>1. op[o].at = "coin" => op[o].valid \/ (op[o].kind = "issue" /\ ~op[o].calm)
    BY <1>1 DEF Sound
  <2>2. ~(op'[o].at = "signing" /\ op'[o].calm)
    BY <1>2
  <2>3. op'[o].at = "coin" => op'[o].valid \/ (op'[o].kind = "issue" /\ ~op'[o].calm)
    BY <1>2, <2>1
  <2>4. QED BY <2>2, <2>3 DEF Sound
<1>5. QED BY <1>3, <1>4, SoundOpsPrime

LEMMA FaultType == ASSUME OtherTypes, Fault PROVE faults' \in Nat
BY DEF OtherTypes, Fault

\* A line for an event, or a failure to write it.
LEMMA TlogFacts ==
    ASSUME OtherTypes, Chains, NEW v \in V, Tlog(v)
    PROVE  log' \in [Logged -> Log] /\ Chains' /\ faults' \in Nat
<1>1. log \in [Logged -> Log] /\ faults \in Nat
  BY DEF OtherTypes
<1>2. CASE v \notin Logged
  BY <1>1, <1>2 DEF Tlog, Chains
<1>3. CASE v \in Logged
  <2>1. PICK outcome \in Outcomes :
            /\ IF outcome \in Troubles THEN Fault ELSE UNCHANGED faults
            /\ log' = [log EXCEPT ![v] = Appended(@, outcome)]
    BY <1>3 DEF Tlog
  <2>2. Appended(log[v], outcome) \in Log /\ Chained(Appended(log[v], outcome))
    BY <1>1, <1>3, AppendedChained DEF Chains
  <2>3. log' \in [Logged -> Log]
    BY <1>1, <2>1, <2>2
  <2>4. \A u \in Logged : Chained(log'[u])
    BY <1>1, <2>1, <2>2 DEF Chains
  <2>5. QED BY <1>1, <2>1, <2>3, <2>4, FaultType DEF Chains, Chained
<1>4. QED BY <1>2, <1>3

LEMMA CrashLog ==
    ASSUME OtherTypes, Chains, NEW v \in V, Crash(v)
    PROVE  log' \in [Logged -> Log] /\ Chains' /\ faults' \in Nat
<1>1. log \in [Logged -> Log] /\ faults' \in Nat
  BY FaultType DEF OtherTypes, Crash
<1>2. PICK outcome \in Outcomes :
          log' = [u \in Logged |-> IF u = v THEN Appended(Opened(log[v]), outcome) ELSE log[u]]
  BY DEF Crash
<1>3. ASSUME NEW u \in Logged PROVE log'[u] \in Log /\ Chained(log'[u])
  <2>1. CASE u = v
    <3>1. log[v] \in Log /\ Chained(log[v])
      BY <1>1, <2>1 DEF Chains
    <3>2. Opened(log[v]) \in Log /\ Chained(Opened(log[v]))
      BY <3>1, OpenedChained
    <3>3. QED BY <1>2, <2>1, <3>2, AppendedChained
  <2>2. CASE u # v
    BY <1>1, <1>2, <2>2 DEF Chains
  <2>3. QED BY <2>1, <2>2
<1>4. log' \in [Logged -> Log]
  <2>1. log' = [u \in Logged |-> log'[u]]
    BY <1>2
  <2>2. QED BY <1>3, <2>1
<1>5. QED BY <1>1, <1>3, <1>4 DEF Chains, Chained

Rest == OtherTypes /\ SignedWell /\ Chains

LEMMA RestInit == ASSUME Init PROVE Rest
<1>1. \A o \in Ops : op[o] = NoOp
  BY DEF Init
<1>2. \A o \in Ops : op[o].at = "idle"
  BY <1>1, NoOpType
<1>3. SignedWell
  BY <1>2, SoundOps DEF Sound
<1>4. OtherTypes
  BY NoOpType, NewLogChained DEF Init, OtherTypes
<1>5. \A v \in Logged : log[v] = NewLog
  BY DEF Init
<1>6. Chains
  BY <1>5, NewLogChained DEF Chains
<1>7. QED BY <1>3, <1>4, <1>6 DEF Rest

LEMMA RestWallet ==
    ASSUME Types, Counts, Rest, WalletStep, UNCHANGED Ring
    PROVE  Rest'
<1>1. OtherTypes /\ SignedWell /\ Chains /\ share' = share
  BY DEF Rest, Ring
<1>2. op' \in [Ops -> Operation] /\ SignedWell'
  BY <1>1, WalletOps, SignedKept
<1>3. session' \in [V -> SUBSET Ops]
  <2>1. session \in [V -> SUBSET Ops]
    BY <1>1 DEF OtherTypes
  <2>2. CASE UNCHANGED session
    BY <2>1, <2>2
  <2>3. CASE \E o \in Ops, v \in V : session' \in {[session EXCEPT ![v] = @ \cup {o}], [session EXCEPT ![v] = @ \ {o}]}
    BY <2>1, <2>3
  <2>4. CASE \E o \in Ops : Fail(o)
    BY <2>1, <2>4 DEF Fail
  <2>5. QED BY <2>2, <2>3, <2>4 DEF WalletStep, IssueCoin, RefreshCoin, Round1, PartialSign, Expire,
           BlindRequest, ChooseCandidate, Unblind, UserRound6
<1>4. log' \in [Logged -> Log] /\ Chains' /\ faults' \in Nat
  <2>1. CASE UNCHANGED log /\ (faults' = faults \/ Fault)
    BY <1>1, <2>1, FaultType DEF OtherTypes, Chains, Chained
  <2>2. CASE \E o \in Ops, v \in V : Round1(o, v)
    BY <1>1, <2>2, TlogFacts DEF Round1
  <2>3. QED BY <2>1, <2>2 DEF WalletStep, IssueCoin, RefreshCoin, PartialSign, Expire, BlindRequest,
           ChooseCandidate, Unblind, UserRound6, Fail
<1>5. QED BY <1>2, <1>3, <1>4 DEF Rest, OtherTypes

LEMMA RestStep == ASSUME Types, Counts, Rest, [Next]_vars PROVE Rest'
<1>1. OtherTypes /\ SignedWell /\ Chains
  BY DEF Rest
<1>2. ASSUME UNCHANGED <<share, op>> PROVE op' \in [Ops -> Operation] /\ SignedWell'
  BY <1>1, <1>2, SignedKept
<1>3. ASSUME UNCHANGED log, faults' = faults \/ Fault
      PROVE  log' \in [Logged -> Log] /\ Chains' /\ faults' \in Nat
  BY <1>1, <1>3, FaultType DEF OtherTypes, Chains, Chained
<1>4. session \in [V -> SUBSET Ops]
  BY <1>1 DEF OtherTypes
<1>5. CASE vars' = vars
  BY <1>2, <1>3, <1>4, <1>5 DEF vars, Rest, OtherTypes
<1>6. CASE \E v \in V, c \in Ceremonies : Start(v, c)
  <2>1. log' \in [Logged -> Log] /\ Chains' /\ faults' \in Nat
    BY <1>1, <1>6, TlogFacts DEF Start
  <2>2. UNCHANGED <<share, op, session>>
    BY <1>6 DEF Start
  <2>3. QED BY <1>2, <1>4, <2>1, <2>2 DEF Rest, OtherTypes
<1>7. CASE \E v \in V, c \in Ceremonies : (\E d \in DOMAIN deal : Contribute(v, c, d)) \/ Evict(v, c)
  <2>1. UNCHANGED <<share, op, session, log>> /\ (faults' = faults \/ Fault)
    BY <1>7 DEF Contribute, Evict
  <2>2. QED BY <1>2, <1>3, <1>4, <2>1 DEF Rest, OtherTypes
<1>8. CASE \E v \in V, c \in Ceremonies : DkgFinalize(v, c) \/ ReshareFinalize(v, c)
  <2>1. PICK v \in V, c \in Ceremonies : DkgFinalize(v, c) \/ ReshareFinalize(v, c)
    BY <1>8
  <2>2. session' = session
    BY <2>1 DEF DkgFinalize, ReshareFinalize, Finalize
  <2>3. CASE UNCHANGED <<share, op, log, faults>>
    BY <1>2, <1>3, <1>4, <2>2, <2>3 DEF Rest, OtherTypes
  <2>4. CASE op' = Disturbed /\ Tlog(v)
    BY <1>1, <1>4, <2>2, <2>4, SignedDisturbed, TlogFacts DEF Rest, OtherTypes
  <2>5. QED BY <2>1, <2>3, <2>4, FinalizeFacts
<1>9. CASE \E v \in V : Crash(v)
  <2>1. PICK v \in V : Crash(v)
    BY <1>9
  <2>2. log' \in [Logged -> Log] /\ Chains' /\ faults' \in Nat
    BY <1>1, <2>1, CrashLog
  <2>3. session' \in [V -> SUBSET Ops]
    BY <1>4, <2>1 DEF Crash
  <2>4. op' = IF share' = share THEN op ELSE Disturbed
    BY <2>1 DEF Crash
  <2>5. op' \in [Ops -> Operation] /\ SignedWell'
    BY <1>1, <1>2, <2>4, SignedDisturbed
  <2>6. QED BY <2>2, <2>3, <2>5 DEF Rest, OtherTypes
<1>10. CASE WalletStep /\ UNCHANGED Ring
  BY <1>10, RestWallet
<1>11. QED BY <1>5, <1>6, <1>7, <1>8, <1>9, <1>10, NextSplit

-----------------------------------------------------------------------------
(***************************************************************************)
(* Theorems                                                                *)
(***************************************************************************)

LEMMA Inductive == Spec => []IInv
<1>1. Init => IInv
  BY TypesInit, CountsInit, AgreeInit, RestInit DEF IInv, Rest
<1>2. IInv /\ [Next]_vars => IInv'
  <2>1. SUFFICES ASSUME Types, Counts, Agree, Rest, [Next]_vars PROVE IInv'
    BY DEF IInv, Rest
  <2>2. Types'
    BY <2>1, TypesStep
  <2>3. QED BY <2>1, <2>2, CountsStep, AgreeStep, RestStep DEF IInv, Rest
<1>3. QED BY <1>1, <1>2, PTL DEF Spec

\* api.rs, dkg_start_handler, reshare_start_handler and the finalize handlers:
\* a validator in a ceremony has its own deal in it and its peers' deals are
\* others', it has one record file of a keyset, and a share holds no deal more
\* often than there are ceremonies.
THEOREM CommitteeTypeCorrect == Spec => []TypeOK
<1>1. IInv => TypeOK
  <2>1. SUFFICES ASSUME IInv PROVE TypeOK
    OBVIOUS
  <2>2. Types /\ Counts /\ OtherTypes
    BY <2>1 DEF IInv
  <2>3. \A v \in V : share[v] \in Share
    BY <2>2, ShareTyped
  <2>4. deal \in Seq([by : V, in : Ceremonies]) /\ Len(deal) <= MaxDeals
    BY <2>2 DEF Types, Deal
  <2>5. \A v \in V, c \in Ceremonies :
          /\ InFlight(v, c) => deal[ceremony[v][c].own] = [by |-> v, in |-> c]
          /\ \A d \in ceremony[v][c].peers : deal[d].by # v
    BY <2>2 DEF Types, FlightSound
  <2>6. \A v \in V : \A r, s \in disk[v] : r.base = s.base => r = s
    BY <2>2 DEF Types
  <2>7. QED BY <2>2, <2>3, <2>4, <2>5, <2>6 DEF TypeOK, OtherTypes
<1>2. QED BY <1>1, Inductive, PTL

\* rotation.rs, reshare_finalize; api.rs 1088-1090: whoever finishes a ceremony
\* in which every validator started once has the same deals of it in its share.
THEOREM CommitteeCeremonyAgrees == Spec => []CeremonyAgrees
<1>1. IInv => CeremonyAgrees
  BY AgreeImplies DEF IInv
<1>2. QED BY <1>1, Inductive, PTL

\* refresh.rs, user_refresh_round6, and issue_coin: a refreshed coin verifies,
\* and an issued one unless a share changed or the committee did not fit while
\* it was signed.
THEOREM CommitteeCoinsVerify == Spec => []CoinsVerify
<1>1. IInv => CoinsVerify
  BY DEF IInv, SignedWell
<1>2. QED BY <1>1, Inductive, PTL

\* transparency_log.rs 5-8: appends that fail before they write, and restarts,
\* leave the chain of a validator's log whole.
THEOREM CommitteeChainVerifies == Spec => []ChainVerifies
<1>1. IInv => ChainVerifies
  BY DEF IInv, Chains, Chained, ChainVerifies
<1>2. QED BY <1>1, Inductive, PTL
=============================================================================
