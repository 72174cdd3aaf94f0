----------------------------- MODULE Committee -----------------------------
(***************************************************************************)
(* A committee of validators, the operators who run its DKG and reshare    *)
(* ceremonies over HTTP, and the wallets that have it sign: issue_coin and *)
(* refresh_coin (crates/tardus-wallet/src/issue.rs, refresh.rs) against    *)
(* the handlers of tardus-validator/src/api.rs.  What one daemon does with *)
(* overlapping requests is in ValidatorSessions and ShareLifecycle; here a *)
(* handler is one step, and the question is whether what the daemons hold  *)
(* fits together.  The threshold is the size of the committee, as the      *)
(* coordinators assume.                                                    *)
(*                                                                         *)
(* A deal is the polynomial a validator draws when it starts a ceremony; a *)
(* share is a sum of deals.  Partial signatures add up to a signature under *)
(* the joint key of a DKG exactly if they were made with sums of the same  *)
(* deals, those of that DKG among them.                                    *)
(***************************************************************************)
EXTENDS TransparencyLog

CONSTANTS
    V,            \* the validators
    DkgIds,       \* ceremony ids the operators use for DKGs
    ReshareIds,   \* ... and for reshares
    Ops,          \* coins the wallets ask for; each has a random session id
    Logged,       \* validators started with --transparency-log
    MaxDeals,     \* bound on the ceremonies started by validators, that of
                  \* Init included
    MaxFaults     \* bound on what goes wrong: crashes, evictions, contributions
                  \* sent to the wrong ceremony, appends to a log

ASSUME CommitteeAssumption ==
    /\ IsFiniteSet(V) /\ Logged \subseteq V /\ DkgIds \cap ReshareIds = {}
    /\ MaxDeals \in Nat /\ Cardinality(V) <= MaxDeals /\ MaxFaults \in Nat

Deals == 1..MaxDeals
Ceremonies == DkgIds \cup ReshareIds

VARIABLES
    share,     \* share[v]: the record loaded in daemon v
    disk,      \* disk[v]: its record files, at most one for each keyset
    ceremony,  \* ceremony[v][c]: v's own deal in flight and its peers' deals
    deal,      \* deal[d]: who dealt d, and in which ceremony
    session,   \* session[v]: the signing sessions in flight at v
    op,        \* op[o]: how far the wallet is with o
    log,       \* log[v]: the transparency log of v
    faults     \* number of faults so far

vars == <<share, disk, ceremony, deal, session, op, log, faults>>

\* base: the deals of the DKG that made the keyset, which its joint public key
\* stands for.  sum: how often each deal is in the share.
NoShare == [base |-> {}, sum |-> [d \in Deals |-> 0]]

Loaded(v) == share[v] # NoShare

NoCeremony == [own |-> 0, peers |-> {}]

NoOp == [kind |-> "none", at |-> "idle", pk |-> {}, answered |-> {},
         parts |-> [v \in V |-> NoShare], calm |-> TRUE, valid |-> FALSE]

\* A committee after a DKG has the first deals in its shares; a new one has none.
FirstDeals ==
    LET dealer == CHOOSE f \in [1..Cardinality(V) -> V] : \A v \in V : \E i \in DOMAIN f : f[i] = v
    IN  {<<>>} \cup {[i \in 1..Cardinality(V) |-> [by |-> dealer[i], in |-> c]] : c \in DkgIds}

Init ==
    /\ deal \in FirstDeals
    /\ share = [v \in V |-> [base |-> DOMAIN deal,
                             sum |-> [d \in Deals |-> IF d \in DOMAIN deal THEN 1 ELSE 0]]]
    /\ disk = [v \in V |-> {share[v]} \ {NoShare}]
    /\ ceremony = [v \in V |-> [c \in Ceremonies |-> NoCeremony]]
    /\ session = [v \in V |-> {}]
    /\ op = [o \in Ops |-> NoOp]
    /\ log = [v \in Logged |-> NewLog]
    /\ faults = 0

Fault == faults < MaxFaults /\ faults' = faults + 1

\* tlog at v: a failure is only warned of.
Tlog(v) ==
    IF v \notin Logged THEN UNCHANGED <<log, faults>>
    ELSE \E outcome \in Outcomes :
            /\ IF outcome \in Troubles THEN Fault ELSE UNCHANGED faults
            /\ log' = [log EXCEPT ![v] = Appended(@, outcome)]

-----------------------------------------------------------------------------
(***************************************************************************)
(* Ceremonies                                                              *)
(***************************************************************************)

InFlight(v, c) == ceremony[v][c].own # 0

\* start of the ceremony maps, once v has dealt: an id in flight is refused.
Start(v, c) ==
    /\ ~InFlight(v, c)
    /\ Len(deal) < MaxDeals
    /\ deal' = Append(deal, [by |-> v, in |-> c])
    /\ ceremony' = [ceremony EXCEPT ![v][c] = [own |-> Len(deal) + 1, peers |-> {}]]
    /\ Tlog(v)
    /\ UNCHANGED <<share, disk, session, op>>

DkgStart(v, c) == c \in DkgIds /\ Start(v, c)

ReshareStart(v, c) == c \in ReshareIds /\ Loaded(v) /\ Start(v, c)

SameKind(c, e) == c \in DkgIds <=> e \in DkgIds

\* An operator hands v the part of deal d that is for it, or sends it to the
\* wrong ceremony; it takes the place of an earlier deal of the same validator.
Contribute(v, c, d) ==
    /\ InFlight(v, c)
    /\ deal[d].by # v
    /\ SameKind(c, deal[d].in)
    /\ ceremony' = [ceremony EXCEPT ![v][c].peers =
                       {e \in @ : deal[e].by # deal[d].by} \cup {d}]
    /\ IF deal[d].in = c THEN UNCHANGED faults ELSE Fault
    /\ UNCHANGED <<share, disk, deal, session, op, log>>

\* dkg_finalize and reshare_finalize accept the contributions.  That a deal
\* fits its own commitments is checked; that everybody has the same is not.
Acceptable(v, c) ==
    /\ Cardinality(ceremony[v][c].peers) = Cardinality(V) - 1
    /\ \A d \in ceremony[v][c].peers : deal[d].in = c

\* Faulty: the record goes to a file of its own.
StoreBeside(v, record) ==
    /\ disk' = [disk EXCEPT ![v] = @ \cup {record}]
    /\ share' = [share EXCEPT ![v] = record]

\* write_share_record and the swap: the record replaces that of its keyset.
Store(v, record) ==
    /\ disk' = [disk EXCEPT ![v] = {r \in @ : r.base # record.base} \cup {record}]
    /\ share' = [share EXCEPT ![v] = record]

\* Partial signatures that are already there were made with the shares of
\* before.
Disturbed == [o \in Ops |-> IF op[o].at = "signing" THEN [op[o] EXCEPT !.calm = FALSE] ELSE op[o]]

\* take_finalisable and what the two handlers do then: the ceremony is gone
\* from v, also when its contributions are refused.
Finalize(v, c, record) ==
    /\ InFlight(v, c)
    /\ Cardinality(ceremony[v][c].peers) >= Cardinality(V) - 1
    /\ ceremony' = [ceremony EXCEPT ![v][c] = NoCeremony]
    /\ IF Acceptable(v, c)
       THEN Store(v, record) /\ op' = Disturbed /\ Tlog(v)
       ELSE UNCHANGED <<share, disk, op, log, faults>>
    /\ UNCHANGED <<deal, session>>

\* Faulty: the validator leaves out what it dealt to itself.
DealtByPeers(v, c) == ceremony[v][c].peers

\* The deals v sums up: its own and its peers'.
Dealt(v, c) == ceremony[v][c].peers \cup {ceremony[v][c].own}

\* dkg_finalize_handler: the share is the sum of the deals.
DkgFinalize(v, c) ==
    /\ c \in DkgIds
    /\ Finalize(v, c, [base |-> Dealt(v, c),
                       sum |-> [d \in Deals |-> IF d \in Dealt(v, c) THEN 1 ELSE 0]])

\* reshare_finalize_handler: the deals, of the secret zero, are added to the
\* share that is loaded.
ReshareFinalize(v, c) ==
    /\ c \in ReshareIds
    /\ Loaded(v)
    /\ Finalize(v, c, [share[v] EXCEPT !.sum =
                          [d \in Deals |-> IF d \in Dealt(v, c) THEN @[d] + 1 ELSE @[d]]])

\* The prune loops evict a ceremony that has taken an hour.
Evict(v, c) ==
    /\ InFlight(v, c)
    /\ Fault
    /\ ceremony' = [ceremony EXCEPT ![v][c] = NoCeremony]
    /\ UNCHANGED <<share, disk, deal, session, op, log>>

\* Daemon v dies and starts again: it loads one of its record files, has no
\* ceremonies and no sessions, opens its log and appends the Boot event.
Crash(v) ==
    /\ Fault
    /\ share' \in {[share EXCEPT ![v] = r] : r \in IF disk[v] = {} THEN {NoShare} ELSE disk[v]}
    /\ op' = IF share' = share THEN op ELSE Disturbed
    /\ ceremony' = [ceremony EXCEPT ![v] = [c \in Ceremonies |-> NoCeremony]]
    /\ session' = [session EXCEPT ![v] = {}]
    /\ \E outcome \in Outcomes :
          log' = [u \in Logged |-> IF u = v THEN Appended(Opened(log[v]), outcome) ELSE log[u]]
    /\ UNCHANGED <<disk, deal>>

-----------------------------------------------------------------------------
(***************************************************************************)
(* Issuing and refreshing coins                                            *)
(***************************************************************************)

\* A bound: the wallet does one thing at a time.
Free(o) == op[o] = NoOp /\ \A p \in Ops : op[p].at \notin {"round1", "signing"}

\* A wallet asks for a coin under a joint key some validator reports.
IssueCoin(o, pk) ==
    /\ Free(o)
    /\ op' = [op EXCEPT ![o] = [NoOp EXCEPT !.kind = "issue", !.at = "round1", !.pk = pk]]
    /\ UNCHANGED <<share, disk, ceremony, deal, session, log, faults>>

\* A wallet gives up the coin it got from m for a new one.  Until that is there,
\* valid says whether the coin given up verifies.
RefreshCoin(o, m) ==
    /\ Free(o)
    /\ op[m].at = "coin"
    /\ op' = [op EXCEPT ![o] = [NoOp EXCEPT !.kind = "refresh", !.at = "round1",
                                            !.pk = op[m].pk, !.valid = op[m].valid]]
    /\ UNCHANGED <<share, disk, ceremony, deal, session, log, faults>>

\* Round 1 at v, up to the answer: a session is opened.
Round1(o, v) ==
    /\ op[o].at = "round1"
    /\ v \notin op[o].answered
    /\ Loaded(v)
    /\ session' = [session EXCEPT ![v] = @ \cup {o}]
    /\ op' = [op EXCEPT ![o].answered = @ \cup {v}]
    /\ Tlog(v)
    /\ UNCHANGED <<share, disk, ceremony, deal>>

SignRound1(o, v) == op[o].kind = "issue" /\ Round1(o, v)

RefreshRound1(o, v) == op[o].kind = "refresh" /\ Round1(o, v)

\* aggregate_commitments and aggregate_refresh_round1: one commitment of every
\* validator of the signing set.
Aggregated(o) == op[o].answered = V

Signing(o) == [op EXCEPT ![o].at = "signing", ![o].answered = {}]

\* issue_coin between the rounds: blind_request.
BlindRequest(o) ==
    /\ op[o].kind = "issue" /\ op[o].at = "round1"
    /\ Aggregated(o)
    /\ op' = Signing(o)
    /\ UNCHANGED <<share, disk, ceremony, deal, session, log, faults>>

\* refresh_coin between the rounds: the candidates are blinded, the coin given
\* up is verified, the candidates that are not signed are revealed and
\* recomputed, which succeeds for what the wallet has just computed itself.
ChooseCandidate(o) ==
    /\ op[o].kind = "refresh" /\ op[o].at = "round1"
    /\ Aggregated(o)
    /\ op[o].valid
    /\ op' = Signing(o)
    /\ UNCHANGED <<share, disk, ceremony, deal, session, log, faults>>

\* The committee as it stands signs under pk.
Fits(pk) == \A v \in V : share[v].base = pk /\ share[v].sum = share[CHOOSE w \in V : TRUE].sum

\* The last round at v: the session is consumed, and the partial signature is
\* made with the share that is loaded now.
PartialSign(o, v) ==
    /\ op[o].at = "signing"
    /\ v \notin op[o].answered
    /\ Loaded(v)
    /\ o \in session[v]
    /\ session' = [session EXCEPT ![v] = @ \ {o}]
    /\ op' = [op EXCEPT ![o].answered = @ \cup {v}, ![o].parts[v] = share[v],
                        ![o].calm = @ /\ Fits(op[o].pk)]
    /\ UNCHANGED <<share, disk, ceremony, deal, log, faults>>

SignRound3(o, v) == op[o].kind = "issue" /\ PartialSign(o, v)

RefreshRound5(o, v) == op[o].kind = "refresh" /\ PartialSign(o, v)

\* schnorr_verify of the sum of the partial signatures.
Valid(o) == \A v, w \in V : op[o].parts[v].base = op[o].pk /\ op[o].parts[v] = op[o].parts[w]

Coin(o) == [op EXCEPT ![o].at = "coin", ![o].answered = {},
                      ![o].parts = NoOp.parts, ![o].valid = Valid(o)]

\* unblind and Coin::new, which do not verify.
Unblind(o) ==
    /\ op[o].kind = "issue" /\ op[o].at = "signing"
    /\ Aggregated(o)
    /\ op' = Coin(o)
    /\ UNCHANGED <<share, disk, ceremony, deal, session, log, faults>>

\* Faulty: the new coin is not verified.
UserRound6Trusting(o) ==
    /\ op[o].kind = "refresh" /\ op[o].at = "signing"
    /\ Aggregated(o)
    /\ op' = Coin(o)
    /\ UNCHANGED <<share, disk, ceremony, deal, session, log, faults>>

\* user_refresh_round6, which does; a coin that fails is an error (Fail).
UserRound6(o) ==
    /\ op[o].kind = "refresh" /\ op[o].at = "signing"
    /\ Aggregated(o)
    /\ Valid(o)
    /\ op' = Coin(o)
    /\ UNCHANGED <<share, disk, ceremony, deal, session, log, faults>>

\* The first error of a request or of a check ends the whole operation; what
\* the other validators have answered is dropped.  Their sessions stay until
\* they are pruned; nobody else knows the session id, and they are left out.
Fail(o) ==
    /\ op[o].at \in {"round1", "signing"}
    /\ op' = [op EXCEPT ![o] = [NoOp EXCEPT !.at = "failed"]]
    /\ session' = [v \in V |-> session[v] \ {o}]
    /\ UNCHANGED <<share, disk, ceremony, deal, log, faults>>

\* The prune loop of v evicts the session of an operation that takes too long.
Expire(o, v) ==
    /\ o \in session[v]
    /\ Fault
    /\ session' = [session EXCEPT ![v] = @ \ {o}]
    /\ UNCHANGED <<share, disk, ceremony, deal, op, log>>

-----------------------------------------------------------------------------

Next ==
    \/ \E v \in V, c \in Ceremonies :
          \/ DkgStart(v, c) \/ ReshareStart(v, c)
          \/ \E d \in DOMAIN deal : Contribute(v, c, d)
          \/ DkgFinalize(v, c) \/ ReshareFinalize(v, c)
          \/ Evict(v, c)
    \/ \E v \in V : Crash(v)
    \/ \E o \in Ops : \E v \in V : Loaded(v) /\ IssueCoin(o, share[v].base)
    \/ \E o, m \in Ops : RefreshCoin(o, m)
    \/ \E o \in Ops, v \in V :
          SignRound1(o, v) \/ RefreshRound1(o, v) \/ SignRound3(o, v) \/ RefreshRound5(o, v)
          \/ Expire(o, v)
    \/ \E o \in Ops : BlindRequest(o) \/ ChooseCandidate(o) \/ Unblind(o) \/ UserRound6(o) \/ Fail(o)

Spec == Init /\ [][Next]_vars

-----------------------------------------------------------------------------
(***************************************************************************)
(* Properties                                                              *)
(***************************************************************************)

Share == [base : SUBSET Deals, sum : [Deals -> 0..MaxDeals]]

Operation ==
    [kind : {"none", "issue", "refresh"}, at : {"idle", "round1", "signing", "coin", "failed"},
     pk : SUBSET Deals, answered : SUBSET V, parts : [V -> Share], calm : BOOLEAN, valid : BOOLEAN]

\* Besides the types: a validator in a ceremony deals for itself, and nobody
\* has two record files of one keyset.
TypeOK ==
    /\ \A v \in V : share[v] \in Share
    /\ \A v \in V : \A r, s \in disk[v] : r.base = s.base => r = s
    /\ deal \in Seq([by : V, in : Ceremonies]) /\ Len(deal) <= MaxDeals
    /\ \A v \in V, c \in Ceremonies :
          /\ InFlight(v, c) => deal[ceremony[v][c].own] = [by |-> v, in |-> c]
          /\ \A d \in ceremony[v][c].peers : deal[d].by # v
    /\ session \in [V -> SUBSET Ops]
    /\ \A o \in Ops : op[o] \in Operation
    /\ \A v \in Logged : log[v] \in Log
    /\ faults \in Nat

DealtOnce(c) == \A d, e \in DOMAIN deal : deal[d].in = c /\ deal[d] = deal[e] => d = e

TookPart(v, c) == \E d \in DOMAIN deal : deal[d].in = c /\ share[v].sum[d] > 0

\* rotation.rs, reshare_finalize; api.rs 1088-1090: whoever finishes a ceremony
\* in which every validator started once has the same deals of it in its
\* share, in whatever order contributions come and go astray, requests are
\* repeated and daemons restart.  Nobody compares what the others received: a
\* validator that starts the same ceremony again deals anew.
CeremonyAgrees ==
    \A c \in Ceremonies : DealtOnce(c) =>
        \A v, w \in V : TookPart(v, c) /\ TookPart(w, c) =>
            \A d \in DOMAIN deal : deal[d].in = c => share[v].sum[d] = share[w].sum[d]

\* refresh.rs, user_refresh_round6: a refresh that succeeds gives a coin that
\* verifies, whatever reshares the committee was in the middle of.  issue_coin
\* does not look: its coin verifies if the committee fitted together at every
\* partial signature and no share changed between them (sign_round3 takes
\* whatever share is loaded).
CoinsVerify ==
    \A o \in Ops : op[o].at = "coin" =>
        op[o].valid \/ (op[o].kind = "issue" /\ ~op[o].calm)

\* transparency_log.rs 5-8: an append that fails before it writes, and a
\* restart, leave the chain whole: as long as no line was cut short or written
\* without its id being remembered, verify_chain succeeds and the logger
\* continues from the last line.
ChainVerifies ==
    \A v \in Logged : ~log[v].hurt =>
        /\ Verifies(log[v])
        /\ log[v].last = IF log[v].lines = <<>> THEN Genesis ELSE log[v].lines[Len(log[v].lines)].id
=============================================================================
