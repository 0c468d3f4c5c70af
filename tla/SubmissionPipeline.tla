-------------------------- MODULE SubmissionPipeline --------------------------
(***************************************************************************)
(* bot/src/shared/submission.rs: the one nonce counter and the one relay   *)
(* failover state that every strategy task shares.                         *)
(*                                                                         *)
(* A task is a tokio task that calls submit_priority (or the escalating    *)
(* variant).  Tasks overlap: main.rs detaches a strategy task after 900 ms *)
(* and spawns another one at the next block.  Between two .awaits, and     *)
(* between two atomic operations, any other task may run, so every atomic  *)
(* operation is a step of its own.                                         *)
(***************************************************************************)
EXTENDS Naturals, FiniteSets

CONSTANTS
  Tasks,         \* tasks that may be inside the pipeline at the same time
  EndpointCounts, \* numbers of builder endpoints the bot may be configured with
  Variants,      \* whether calls escalate: {FALSE} is what the strategy calls
  MaxBlocks,     \* attempts of submit_with_escalation
  MaxJobs,       \* bound: calls of submit over a behaviour
  MaxRestarts,   \* bound: process restarts
  MaxChain       \* bound: the wallet sends nothing outside this process above this nonce

ASSUME SubmissionAssumption ==
  /\ IsFiniteSet(Tasks)
  /\ EndpointCounts \subseteq Nat
  /\ Variants \subseteq BOOLEAN
  /\ MaxBlocks \in Nat \ {0}
  /\ MaxJobs \in Nat
  /\ MaxRestarts \in Nat
  /\ MaxChain \in Nat

VARIABLES
  endpoints,             \* builder_endpoints.len(): 0 when the env var is blank
  mode,                  \* submission_mode
  nonce,                 \* AtomicU64 nonce
  consecutive_failures,  \* AtomicUsize
  active_builder_idx,    \* AtomicUsize
  pc,                    \* where each task is
  tx,                    \* the transaction each task is submitting
  escalating,            \* the task is inside submit_with_escalation
  next_idx,              \* local of broadcast_raw
  resync,                \* locals of resync_nonce, run by the block loop
  chain,                 \* the wallet's nonce on chain
  pool,                  \* transactions some builder holds
  landed,                \* transactions included in a block
  foreign,               \* a transaction not signed by this process landed since boot
  life,                  \* number of restarts so far
  jobs,                  \* number of calls of submit so far
  issued                 \* nonces fetch_add has returned since boot

config  == <<endpoints, mode>>
relays  == <<consecutive_failures, active_builder_idx>>
network == <<chain, pool, landed, foreign>>
call    == <<tx, escalating, next_idx>>
counter == <<nonce, issued>>
others  == <<config, network, counter, resync, life, jobs>>
vars == <<endpoints, mode, nonce, consecutive_failures, active_builder_idx, pc, tx,
          escalating, next_idx, resync, chain, pool, landed, foreign, life, jobs,
          issued>>

-----------------------------------------------------------------------------
(* The chain and the builders, as far as the pipeline depends on them.     *)

Tx == [job : Nat, nonce : Nat, try : Nat, life : Nat]

Resync == [pc : {"idle", "queried", "loaded"}, chain : Nat, local : Nat]

FailoverAfter == 3

Steps == {"idle", "sign", "post", "count", "clear", "load", "store", "zero", "sleep"}

\* broadcast_raw returns before it posts anything
Silent == mode = "shadow" \/ endpoints = 0

Goto(t, step) == pc' = [pc EXCEPT ![t] = step]

NoTx == [job |-> 0, nonce |-> 0, try |-> 0, life |-> 0]

\* the call returns and its locals are dropped
Return(t) ==
  /\ Goto(t, "idle")
  /\ tx' = [tx EXCEPT ![t] = NoTx]
  /\ escalating' = [escalating EXCEPT ![t] = FALSE]
  /\ next_idx' = [next_idx EXCEPT ![t] = 0]

\* broadcast_raw returned: submit is done, the escalation sleeps two seconds
AfterBroadcast(t) ==
  IF escalating[t] THEN Goto(t, "sleep") /\ UNCHANGED call ELSE Return(t)

NoResync == [pc |-> "idle", chain |-> 0, local |-> 0]

Init ==
  /\ endpoints \in EndpointCounts
  /\ mode \in {"shadow", "live"}
  /\ nonce = 0
  /\ consecutive_failures = 0
  /\ active_builder_idx = 0
  /\ pc = [t \in Tasks |-> "idle"]
  /\ tx = [t \in Tasks |-> NoTx]
  /\ escalating = [t \in Tasks |-> FALSE]
  /\ next_idx = [t \in Tasks |-> 0]
  /\ resync = NoResync
  /\ chain = 0
  /\ pool = {}
  /\ landed = {}
  /\ foreign = FALSE
  /\ life = 0
  /\ jobs = 0
  /\ issued = {}

-----------------------------------------------------------------------------
(* Mistakes the properties must notice: each replaces the definition its   *)
(* name points to.                                                         *)

NextIndexUnwrapped == active_builder_idx + 1
ResyncedAlways     == resync.chain
FailuresKept       == consecutive_failures
RetryNonceFresh(t) == nonce + 1
NonceReturned      == nonce - 1

-----------------------------------------------------------------------------
(* Submission.                                                             *)

\* submit_with_tip, submit_with_escalation: nonce.fetch_add(1)
Submit(t, escalate) ==
  /\ pc[t] = "idle"
  /\ jobs < MaxJobs
  /\ nonce' = nonce + 1
  /\ issued' = issued \union {nonce}
  /\ jobs' = jobs + 1
  /\ tx' = [tx EXCEPT ![t] = [job |-> jobs, nonce |-> nonce, try |-> 0, life |-> life]]
  /\ escalating' = [escalating EXCEPT ![t] = escalate]
  /\ Goto(t, "sign")
  /\ UNCHANGED <<config, relays, network, next_idx, resync, life>>

Sign(t) ==
  /\ pc[t] = "sign"
  /\ Goto(t, "post")
  /\ UNCHANGED <<others, relays, call>>

\* the counter is not stepped back
NonceAfterFailure == nonce

\* sign_transaction(..).await? returns the error: the nonce is spent, nothing is sent
SignFail(t) ==
  /\ pc[t] = "sign"
  /\ nonce' = NonceAfterFailure
  /\ Return(t)
  /\ UNCHANGED <<config, network, issued, resync, life, jobs, relays>>

\* Shadow mode, or no endpoint: broadcast_raw returns at once
PostSilent(t) ==
  /\ pc[t] = "post"
  /\ Silent
  /\ AfterBroadcast(t)
  /\ UNCHANGED <<others, relays>>

\* join_all over the endpoints.  A builder may hold the transaction although its
\* answer was lost, and a JSON body without "error" counts as success although the
\* builder dropped it: delivery and acknowledgement are independent.
Post(t) ==
  /\ pc[t] = "post"
  /\ ~Silent
  /\ \/ tx[t].nonce >= chain /\ pool' = pool \union {tx[t]}
     \/ UNCHANGED pool
  /\ \E step \in {"count", "clear"} : Goto(t, step)
  /\ UNCHANGED <<config, counter, resync, life, jobs, relays, call, chain, landed, foreign>>

\* some relay accepted: consecutive_failures.store(0)
ClearFailures(t) ==
  /\ pc[t] = "clear"
  /\ consecutive_failures' = 0
  /\ AfterBroadcast(t)
  /\ UNCHANGED <<others, active_builder_idx>>

\* no relay accepted: the fetch_add decides, on the value it returned, to fail over
CountFailure(t) ==
  /\ pc[t] = "count"
  /\ consecutive_failures' = consecutive_failures + 1
  /\ IF consecutive_failures + 1 >= FailoverAfter
       THEN Goto(t, "load") /\ UNCHANGED call
       ELSE AfterBroadcast(t)
  /\ UNCHANGED <<others, active_builder_idx>>

NextIndex == (active_builder_idx + 1) % endpoints

LoadIndex(t) ==
  /\ pc[t] = "load"
  /\ next_idx' = [next_idx EXCEPT ![t] = NextIndex]
  /\ Goto(t, "store")
  /\ UNCHANGED <<others, relays, tx, escalating>>

StoreIndex(t) ==
  /\ pc[t] = "store"
  /\ active_builder_idx' = next_idx[t]
  /\ Goto(t, "zero")
  /\ UNCHANGED <<others, call, consecutive_failures>>

FailuresAfterFailover == 0

ZeroFailures(t) ==
  /\ pc[t] = "zero"
  /\ consecutive_failures' = FailuresAfterFailover
  /\ AfterBroadcast(t)
  /\ UNCHANGED <<others, active_builder_idx>>

\* the escalation finds the receipt of the last hash it signed
Included(t) ==
  /\ pc[t] = "sleep"
  /\ tx[t] \in landed
  /\ consecutive_failures' = 0
  /\ Return(t)
  /\ UNCHANGED <<others, active_builder_idx>>

\* what the next attempt of an escalation is signed with
RetryNonce(t) == tx[t].nonce
NextTry(t)    == tx[t].try + 1

\* no receipt of the last hash, or the RPC failed: sign a better tip under the same
\* nonce, or give up after max_blocks attempts with Ok(last)
NotIncluded(t) ==
  /\ pc[t] = "sleep"
  /\ IF NextTry(t) < MaxBlocks
       THEN /\ tx' = [tx EXCEPT ![t].try = NextTry(t), ![t].nonce = RetryNonce(t)]
            /\ Goto(t, "sign")
            /\ UNCHANGED <<escalating, next_idx>>
       ELSE Return(t)
  /\ UNCHANGED <<others, relays>>

-----------------------------------------------------------------------------
(* resync_nonce, called by the block loop once per block.                  *)

\* get_transaction_count(pending): private transactions are not in the node's pool,
\* so the answer is the mined nonce.  An RPC error leaves everything unchanged.
ResyncQuery ==
  /\ resync.pc = "idle"
  /\ resync' = [NoResync EXCEPT !.pc = "queried", !.chain = chain]
  /\ UNCHANGED <<config, relays, network, counter, pc, call, life, jobs>>

ResyncLoad ==
  /\ resync.pc = "queried"
  /\ resync' = [resync EXCEPT !.pc = "loaded", !.local = nonce]
  /\ UNCHANGED <<config, relays, network, counter, pc, call, life, jobs>>

\* if chain_nonce > local { nonce.store(chain_nonce) }
Resynced == IF resync.chain > resync.local THEN resync.chain ELSE nonce

\* the store is a step of its own: a fetch_add since the load is overwritten
ResyncStore ==
  /\ resync.pc = "loaded"
  /\ nonce' = Resynced
  /\ resync' = NoResync
  /\ UNCHANGED <<config, relays, network, issued, pc, call, life, jobs>>

-----------------------------------------------------------------------------
(* The chain includes one transaction per nonce, in order.                 *)

Mine(m) ==
  /\ m.nonce = chain
  /\ chain' = chain + 1
  /\ landed' = landed \union {m}
  /\ pool' = {p \in pool : p.nonce > chain}
  /\ foreign' = (foreign \/ m.life # life)
  /\ UNCHANGED <<config, relays, counter, pc, call, resync, life, jobs>>

\* scripts/sweep.sh signs with the same hot key
ForeignSend ==
  /\ chain < MaxChain
  /\ chain' = chain + 1
  /\ pool' = {p \in pool : p.nonce > chain}
  /\ foreign' = TRUE
  /\ UNCHANGED <<config, relays, counter, pc, call, resync, landed, life, jobs>>

\* the process dies and SubmissionPipeline::new bootstraps the nonce from the chain;
\* what the builders hold survives
Restart ==
  /\ life < MaxRestarts
  /\ life' = life + 1
  /\ nonce' = chain
  /\ consecutive_failures' = 0
  /\ active_builder_idx' = 0
  /\ pc' = [t \in Tasks |-> "idle"]
  /\ tx' = [t \in Tasks |-> NoTx]
  /\ escalating' = [t \in Tasks |-> FALSE]
  /\ next_idx' = [t \in Tasks |-> 0]
  /\ resync' = NoResync
  /\ foreign' = FALSE
  /\ issued' = {}
  /\ UNCHANGED <<config, chain, pool, landed, jobs>>

-----------------------------------------------------------------------------

TaskStep(t) ==
  \/ Sign(t) \/ SignFail(t) \/ PostSilent(t) \/ Post(t)
  \/ ClearFailures(t) \/ CountFailure(t)
  \/ LoadIndex(t) \/ StoreIndex(t) \/ ZeroFailures(t)
  \/ Included(t) \/ NotIncluded(t)

Next ==
  \/ \E t \in Tasks, e \in Variants : Submit(t, e)
  \/ \E t \in Tasks : TaskStep(t)
  \/ ResyncQuery \/ ResyncLoad \/ ResyncStore
  \/ \E m \in pool : Mine(m)
  \/ ForeignSend
  \/ Restart

Spec == Init /\ [][Next]_vars

-----------------------------------------------------------------------------
(* Properties.                                                             *)

Types ==
  /\ endpoints \in Nat /\ mode \in {"shadow", "live"}
  /\ nonce \in Nat /\ chain \in Nat /\ life \in Nat /\ jobs \in Nat
  /\ consecutive_failures \in Nat
  /\ active_builder_idx \in Nat
  /\ pc \in [Tasks -> Steps]
  /\ tx \in [Tasks -> Tx]
  /\ escalating \in [Tasks -> BOOLEAN]
  /\ next_idx \in [Tasks -> Nat]
  /\ resync \in Resync
  /\ pool \subseteq Tx /\ landed \subseteq Tx
  /\ foreign \in BOOLEAN
  /\ issued \subseteq Nat

\* Types, and the relay index always names a configured endpoint: broadcast_raw
\* indexes builder_endpoints with it (submission.rs:186) and would panic.
TypeOK == Types /\ (endpoints > 0 => active_builder_idx < endpoints)

\* As long as only this process's transactions land, the counter is above every
\* nonce it has handed out, so no two submissions share one, whatever the
\* interleaving of fetch_add with resync_nonce's load and store.
NoNonceReuse == ~foreign => \A n \in issued : n < nonce

\* A nonce that was handed out and whose transaction nobody holds any more (signing
\* failed, or no builder took it).
Lost(n) ==
  /\ n >= chain
  /\ \A t \in Tasks : pc[t] # "idle" => tx[t].nonce # n
  /\ \A m \in pool : m.nonce # n

\* A lost nonce is never handed out again and resync_nonce never heals it: until a
\* restart or a transaction from outside, the chain cannot get past it.
LostNonceStaysLost ==
  [][\A n \in issued : Lost(n) /\ ~foreign' /\ life' = life => Lost(n)']_vars

\* Escalation replaces a transaction, it never repeats one: of the attempts of a
\* call at most one lands.
OneLandingPerJob == \A a, b \in landed : a.job = b.job => a = b

\* The pipeline keeps the wallet's books as WalletLedger promises: what retries, relays,
\* lost answers, resyncs and restarts do is invisible there (submission.rs:84-130).
Ledger == INSTANCE WalletLedger
            WITH made <- jobs, height <- chain,
                 entries <- {[job |-> m.job, nonce |-> m.nonce] : m \in landed}

ImplementsLedger == Ledger!Spec

Failing == {t \in Tasks : pc[t] \in {"load", "store", "zero"}}

\* The failure counter exceeds the failover limit only by the tasks that are
\* already failing over: every overshoot is accounted for by a reset in progress.
FailureCountBounded == consecutive_failures <= FailoverAfter - 1 + Cardinality(Failing)

-----------------------------------------------------------------------------
(* Inductive strengthenings.                                               *)

IndexInv ==
  /\ endpoints > 0 => active_builder_idx < endpoints
  /\ \A t \in Tasks :
       /\ pc[t] \in {"clear", "count", "load", "store", "zero"} => endpoints > 0
       /\ pc[t] = "store" => next_idx[t] < endpoints

\* Everything this process has signed lies below the counter, and what resync_nonce
\* read from the chain is no news to it, until somebody else's transaction lands.
NonceInv ==
  /\ \A t \in Tasks : pc[t] # "idle" => tx[t].life = life
  /\ \A m \in pool : m.life <= life
  /\ resync.pc # "idle" => resync.chain <= chain
  /\ ~foreign =>
       /\ chain <= nonce
       /\ \A n \in issued : n < nonce
       /\ \A m \in pool : m.life = life => m.nonce < nonce
       /\ \A t \in Tasks : pc[t] # "idle" => tx[t].nonce < nonce
       /\ resync.pc = "loaded" => resync.chain <= resync.local

\* The transactions of a call share its nonce, the chain has passed whatever landed and
\* nothing a builder holds, and it takes one transaction per nonce.
JobInv ==
  LET signed == pool \union landed \union {tx[t] : t \in {u \in Tasks : pc[u] # "idle"}}
  IN /\ \A a \in signed : a.job < jobs
     /\ \A a, b \in signed : a.job = b.job => a.nonce = b.nonce
     /\ \A m \in pool : m.nonce >= chain
     /\ \A m \in landed : m.nonce < chain
     /\ \A a, b \in landed : a.nonce = b.nonce => a = b
=============================================================================
