------------------------- MODULE ValidatorSessions -------------------------
(***************************************************************************)
(* The signing endpoints of one validator daemon (crates/tardus-validator: *)
(* api.rs, sign_sessions.rs, refresh_sessions.rs).  Every request runs in  *)
(* a task of its own; a task gives way wherever the handler awaits a lock  *)
(* or the Solana RPC, and what it read before may have changed by then.    *)
(* The nonce of a round 1 lives in a session until round 3 (sign) or round *)
(* 5 (refresh) consumes it, a prune loop evicts it, or the process dies.   *)
(* Counters, metrics and the transparency log are left out, and so are the *)
(* requests refused before they change anything.                           *)
(***************************************************************************)
EXTENDS Integers

CONSTANTS
    Tasks,       \* requests that can be served at the same time
    SessionIds,  \* ids the clients choose
    Coins,       \* coins surrendered in refreshes
    Challenges,  \* blinded challenges
    Kappas,      \* numbers of candidates of a refresh
    Shares,      \* share records that can be loaded
    None,        \* absence of a value
    Guarded,     \* whether solana_rpc_url is configured
    Ttl,         \* DEFAULT_SESSION_TTL and DEFAULT_REFRESH_TTL, in ticks
    MaxNonces,   \* bound on the nonces sampled
    MaxLives     \* bound on the process's lives

ASSUME NoneAssumption == None \notin Shares \cup SessionIds \cup Coins \cup Challenges
ASSUME BoundsAssumption ==
    /\ Kappas \subseteq Nat \ {0}
    /\ Guarded \in BOOLEAN
    /\ Ttl \in Nat /\ MaxNonces \in Nat /\ MaxLives \in Nat

Kinds == {"sign", "refresh"}

VARIABLES
    share,      \* ValidatorState.share, None while no share is loaded
    sessions,   \* the two session maps; an entry without nonce is no entry
    task,       \* what each task is about to do
    finalized,  \* coins whose nullifier is finalized on chain
    nonces,     \* number of nonces (or batches of kappa nonces) sampled so far
    lives,      \* number of crashes
    answers     \* every partial signature given out, for the properties

vars == <<share, sessions, task, finalized, nonces, lives, answers>>

Empty == [nonce |-> 0, kappa |-> 0, share |-> None, age |-> 0]

Idle == [at |-> "idle", kind |-> "none", sid |-> None, nonce |-> 0, kappa |-> 0,
         gamma |-> 0, coin |-> None, c |-> None, good |-> FALSE, share |-> None]

\* A task that has sampled a nonce for a session it is about to insert.
Starting(kind, sid, nonce, kappa) ==
    [at |-> "insert", kind |-> kind, sid |-> sid, nonce |-> nonce, kappa |-> kappa,
     gamma |-> 0, coin |-> None, c |-> None, good |-> FALSE, share |-> share]

\* A task that serves the last round of a session, with share sh once it has
\* read it.
Finishing(at, kind, sid, gamma, coin, c, good, sh) ==
    [at |-> at, kind |-> kind, sid |-> sid, nonce |-> 0, kappa |-> 0,
     gamma |-> gamma, coin |-> coin, c |-> c, good |-> good, share |-> sh]

Init ==
    /\ share \in Shares \cup {None}
    /\ sessions = [p \in Kinds \X SessionIds |-> Empty]
    /\ task = [t \in Tasks |-> Idle]
    /\ finalized = {}
    /\ nonces = 0
    /\ lives = 0
    /\ answers = {}

InFlight(p) == sessions[p].nonce # 0

\* The session a task is about.
Target(t) == <<task[t].kind, task[t].sid>>

-----------------------------------------------------------------------------
(***************************************************************************)
(* Round 1                                                                 *)
(***************************************************************************)

\* A round 1 up to the insertion: a share must be loaded; fresh nonces are
\* sampled, one for a signature, kappa for a refresh.
Round1(t, kind, sid, kappa) ==
    /\ task[t] = Idle
    /\ share # None
    /\ nonces < MaxNonces
    /\ nonces' = nonces + 1
    /\ task' = [task EXCEPT ![t] = Starting(kind, sid, nonces + 1, kappa)]
    /\ UNCHANGED <<share, sessions, finalized, lives, answers>>

SignRound1(t, sid) == Round1(t, "sign", sid, 1)

RefreshRound1(t, sid, kappa) == Round1(t, "refresh", sid, kappa)

\* The session task t has started; its age counts from here.
NewSession(t) ==
    [nonce |-> task[t].nonce, kappa |-> task[t].kappa, share |-> task[t].share, age |-> 0]

\* Faulty: the id is not looked up first.
InsertOver(t) ==
    /\ task[t].at = "insert"
    /\ sessions' = [sessions EXCEPT ![Target(t)] = NewSession(t)]
    /\ task' = [task EXCEPT ![t] = Idle]
    /\ UNCHANGED <<share, finalized, nonces, lives, answers>>

\* insert of the session maps: an id in flight is refused.
Insert(t) ==
    /\ task[t].at = "insert"
    /\ sessions' = IF InFlight(Target(t)) THEN sessions
                   ELSE [sessions EXCEPT ![Target(t)] = NewSession(t)]
    /\ task' = [task EXCEPT ![t] = Idle]
    /\ UNCHANGED <<share, finalized, nonces, lives, answers>>

-----------------------------------------------------------------------------
(***************************************************************************)
(* Round 3 and round 5                                                     *)
(***************************************************************************)

\* Faulty: a share need not be loaded.
SignRound3Unloaded(t, sid, c, good) ==
    /\ task[t] = Idle
    /\ task' = [task EXCEPT ![t] = Finishing("take", "sign", sid, 1, None, c, good, share)]
    /\ UNCHANGED <<share, sessions, finalized, nonces, lives, answers>>

\* sign_round3 up to the awaited take: the share is read.  good: partial_sign
\* accepts the challenge and the signing set.
SignRound3(t, sid, c, good) ==
    /\ task[t] = Idle
    /\ share # None
    /\ task' = [task EXCEPT ![t] = Finishing("take", "sign", sid, 1, None, c, good, share)]
    /\ UNCHANGED <<share, sessions, finalized, nonces, lives, answers>>

\* Faulty: the nullifier is not looked up.
RefreshRound5Unguarded(t, sid, coin, gamma, c, good) ==
    /\ task[t] = Idle
    /\ task' = [task EXCEPT ![t] = Finishing("share", "refresh", sid, gamma, coin, c, good, None)]
    /\ UNCHANGED <<share, sessions, finalized, nonces, lives, answers>>

\* refresh_round5 up to the end of the nullifier guard.  The answer of the
\* RPC may be old, but a nullifier it shows is finalized.
RefreshRound5(t, sid, coin, gamma, c, good) ==
    /\ task[t] = Idle
    /\ Guarded => coin \in finalized
    /\ task' = [task EXCEPT ![t] = Finishing("share", "refresh", sid, gamma, coin, c, good, None)]
    /\ UNCHANGED <<share, sessions, finalized, nonces, lives, answers>>

\* refresh_round5 reads the share once the guard has let it through.
ReadShare(t) ==
    /\ task[t].at = "share"
    /\ task' = [task EXCEPT ![t] =
                   IF share = None THEN Idle
                   ELSE Finishing("take", task[t].kind, task[t].sid, task[t].gamma,
                                  task[t].coin, task[t].c, task[t].good, share)]
    /\ UNCHANGED <<share, sessions, finalized, nonces, lives, answers>>

\* The partial signature task t gives out for session e.
Answer(t, e) ==
    [kind |-> task[t].kind, nonce |-> e.nonce, gamma |-> task[t].gamma, c |-> task[t].c,
     coin |-> task[t].coin, share |-> task[t].share, started |-> e.share]

\* partial_sign and validator_refresh_round5 accept the request.
Signs(t, e) == e.nonce # 0 /\ task[t].good /\ task[t].gamma <= e.kappa

\* Faulty: the session is looked up and left in the map.
TakeCopy(t) ==
    /\ task[t].at = "take"
    /\ answers' = answers \cup {Answer(t, e) : e \in {x \in {sessions[Target(t)]} : Signs(t, x)}}
    /\ task' = [task EXCEPT ![t] = Idle]
    /\ UNCHANGED <<share, sessions, finalized, nonces, lives>>

\* take and what follows it: whoever takes the session consumes it, also
\* when the request turns out to be unacceptable.
Take(t) ==
    /\ task[t].at = "take"
    /\ sessions' = [sessions EXCEPT ![Target(t)] = Empty]
    /\ answers' = IF Signs(t, sessions[Target(t)])
                  THEN answers \cup {Answer(t, sessions[Target(t)])} ELSE answers
    /\ task' = [task EXCEPT ![t] = Idle]
    /\ UNCHANGED <<share, finalized, nonces, lives>>

-----------------------------------------------------------------------------
(***************************************************************************)
(* The rest of the process and the world around it                         *)
(***************************************************************************)

\* Faulty: the prune loop of the refresh sessions is not spawned.
PruneSign(kind) ==
    /\ kind = "sign"
    /\ \E p \in DOMAIN sessions : p[1] = kind /\ InFlight(p) /\ sessions[p].age >= Ttl
    /\ sessions' = [p \in DOMAIN sessions |->
                        IF p[1] = kind /\ sessions[p].age >= Ttl THEN Empty ELSE sessions[p]]
    /\ UNCHANGED <<share, task, finalized, nonces, lives, answers>>

\* A round of the prune loop of one map that finds something to evict.
Prune(kind) ==
    /\ \E p \in DOMAIN sessions : p[1] = kind /\ InFlight(p) /\ sessions[p].age >= Ttl
    /\ sessions' = [p \in DOMAIN sessions |->
                        IF p[1] = kind /\ sessions[p].age >= Ttl THEN Empty ELSE sessions[p]]
    /\ UNCHANGED <<share, task, finalized, nonces, lives, answers>>

\* Time passes; an age beyond Ttl makes no difference.
Tick ==
    /\ \E p \in DOMAIN sessions : InFlight(p) /\ sessions[p].age < Ttl
    /\ sessions' = [p \in DOMAIN sessions |->
                        IF InFlight(p) /\ sessions[p].age < Ttl
                        THEN [sessions[p] EXCEPT !.age = @ + 1] ELSE sessions[p]]
    /\ UNCHANGED <<share, task, finalized, nonces, lives, answers>>

\* The last step of /dkg/finalize, /reshare/finalize and /admin/reload-share.
SwapShare(s) ==
    /\ share' = s
    /\ UNCHANGED <<sessions, task, finalized, nonces, lives, answers>>

\* The process dies and starts again with a share of its data directory, if
\* it finds one.  Sessions are nowhere but in memory.
Crash(s) ==
    /\ lives < MaxLives
    /\ lives' = lives + 1
    /\ share' = s
    /\ sessions' = [p \in DOMAIN sessions |-> Empty]
    /\ task' = [t \in Tasks |-> Idle]
    /\ UNCHANGED <<finalized, nonces, answers>>

\* A Refresh or Withdraw of the coin is finalized on chain.
Finalize(coin) ==
    /\ finalized' = finalized \cup {coin}
    /\ UNCHANGED <<share, sessions, task, nonces, lives, answers>>

Next ==
    \/ \E t \in Tasks, sid \in SessionIds :
          \/ SignRound1(t, sid)
          \/ \E kappa \in Kappas : RefreshRound1(t, sid, kappa)
          \/ \E c \in Challenges, good \in BOOLEAN : SignRound3(t, sid, c, good)
          \/ \E coin \in Coins, gamma \in Kappas, c \in Challenges, good \in BOOLEAN :
                RefreshRound5(t, sid, coin, gamma, c, good)
    \/ \E t \in Tasks : Insert(t) \/ ReadShare(t) \/ Take(t)
    \/ \E kind \in Kinds : Prune(kind)
    \/ Tick
    \/ \E s \in Shares : SwapShare(s)
    \/ \E s \in Shares \cup {None} : Crash(s)
    \/ \E coin \in Coins : Finalize(coin)

Spec == Init /\ [][Next]_vars

\* Time passes and the prune loops, which main spawns, go on; clients need
\* never come back.
FairSpec == Spec /\ WF_vars(Tick) /\ \A kind \in Kinds : WF_vars(Prune(kind))

-----------------------------------------------------------------------------
(***************************************************************************)
(* Properties                                                              *)
(***************************************************************************)

Entry == [nonce : Nat, kappa : Nat, share : Shares \cup {None}, age : Nat]

Task ==
    [at : {"idle", "insert", "share", "take"}, kind : Kinds \cup {"none"},
     sid : SessionIds \cup {None}, nonce : Nat, kappa : Nat, gamma : Nat,
     coin : Coins \cup {None}, c : Challenges \cup {None}, good : BOOLEAN,
     share : Shares \cup {None}]

PartialSignature ==
    [kind : Kinds, nonce : Nat \ {0}, gamma : Nat, c : Challenges, coin : Coins \cup {None},
     share : Shares, started : Shares]

TypeOK ==
    /\ share \in Shares \cup {None}
    /\ sessions \in [Kinds \X SessionIds -> Entry]
    /\ task \in [Tasks -> Task]
    /\ finalized \in SUBSET Coins
    /\ nonces \in Nat
    /\ lives \in Nat
    /\ answers \in SUBSET PartialSignature

\* A nonce enters at most one partial signature, and of the nonces of a
\* refresh session only one is used at all, whatever the tasks, the prune
\* loops, share swaps and crashes do in between: two answers for one session
\* would give the share away (take, insert; Remark 3.1 of the specification).
NonceUsedOnce == \A a, b \in answers : a.nonce = b.nonce => a = b

\* With the guard configured, no refresh is signed unless the coin given up
\* is finalized as spent on chain (refresh_round5, verify_nullifier_finalized).
RefreshAfterMelt ==
    Guarded => \A a \in answers : a.kind = "refresh" => a.coin \in finalized

\* A session in flight is neither replaced nor lost: it stays until a task
\* takes it, until it is at least Ttl old, or until the process dies.
SessionStep(p) ==
    InFlight(p) /\ sessions'[p].nonce # sessions[p].nonce =>
        /\ sessions'[p].nonce = 0
        /\ \/ sessions[p].age >= Ttl
           \/ lives' # lives
           \/ \E t \in Tasks : task[t].at = "take" /\ Target(t) = p /\ task'[t] = Idle

\* The client of a session in flight can count on it (insert, take, prune).
SessionsKept == [][\A p \in DOMAIN sessions : SessionStep(p)]_vars

HeldNonce(n) == \E p \in DOMAIN sessions : sessions[p].nonce = n

\* Every nonce is eventually consumed or forgotten, even if its client never
\* comes back: sessions do not pile up (prune_loop).
NoncesForgotten == \A n \in 1..MaxNonces : HeldNonce(n) ~> ~HeldNonce(n)

\* state.rs 30-35: the guard "closes the state-desynchronisation window that
\* would otherwise allow a client to reuse the same coin across multiple
\* off-chain refresh sessions".
RefreshOncePerCoin ==
    \A a, b \in answers :
        a.kind = "refresh" /\ b.kind = "refresh" /\ a.coin = b.coin => a.nonce = b.nonce
=============================================================================
