--------------------------- MODULE SubmissionProofs ---------------------------
(***************************************************************************)
(* Machine-checked proofs about SubmissionPipeline, for every number of    *)
(* tasks, endpoints, attempts, calls, restarts and outside transactions.   *)
(***************************************************************************)
EXTENDS SubmissionPipeline, FiniteSetTheorems, TLAPS

USE DEF config, relays, network, call, counter, others

LEMMA NoTxType == NoTx \in Tx
  BY DEF NoTx, Tx

LEMMA NoResyncType == NoResync \in Resync
  BY DEF NoResync, Resync

\* What leaving the pipeline and leaving broadcast_raw do to a task's locals.
LEMMA ReturnTypes ==
  ASSUME Types, NEW t \in Tasks, Return(t)
  PROVE  /\ pc' \in [Tasks -> Steps] /\ tx' \in [Tasks -> Tx]
         /\ escalating' \in [Tasks -> BOOLEAN] /\ next_idx' \in [Tasks -> Nat]
  BY NoTxType DEF Return, Goto, Types, Steps

LEMMA AfterBroadcastTypes ==
  ASSUME Types, NEW t \in Tasks, AfterBroadcast(t)
  PROVE  /\ pc' \in [Tasks -> Steps] /\ tx' \in [Tasks -> Tx]
         /\ escalating' \in [Tasks -> BOOLEAN] /\ next_idx' \in [Tasks -> Nat]
<1>1. CASE escalating[t]
  BY <1>1 DEF AfterBroadcast, Goto, Types, Steps
<1>2. CASE ~escalating[t]
  BY <1>2, ReturnTypes DEF AfterBroadcast
<1>3. QED
  BY <1>1, <1>2

LEMMA ModBound ==
  ASSUME NEW a \in Nat, NEW n \in Nat, n > 0
  PROVE  a % n \in Nat /\ a % n < n
  OBVIOUS

LEMMA InitTypes == Init => Types
<1> SUFFICES ASSUME Init PROVE Types
  OBVIOUS
<1>1. endpoints \in Nat /\ mode \in {"shadow", "live"}
  BY SubmissionAssumption DEF Init, SubmissionAssumption
<1>2. /\ pc \in [Tasks -> Steps] /\ tx \in [Tasks -> Tx]
      /\ escalating \in [Tasks -> BOOLEAN] /\ next_idx \in [Tasks -> Nat]
  BY NoTxType DEF Init, Steps
<1>3. QED
  BY <1>1, <1>2, NoResyncType DEF Init, Types

\* The types of every variable, and the relay index stays inside the endpoint list:
\* every step of submission.rs keeps both.
LEMMA TypesInvariant == Spec => [](Types /\ IndexInv)
<1>1. Init => Types /\ IndexInv
  BY InitTypes DEF Init, IndexInv
<1>2. Types /\ IndexInv /\ [Next]_vars => (Types /\ IndexInv)'
  <2> SUFFICES ASSUME Types, IndexInv, [Next]_vars PROVE Types' /\ IndexInv'
    OBVIOUS
  <2> USE DEF Goto
  <2>1. ASSUME NEW t \in Tasks, NEW e \in Variants, Submit(t, e) PROVE Types' /\ IndexInv'
    BY <2>1, SubmissionAssumption DEF Submit, Types, IndexInv, Tx, Steps, SubmissionAssumption
  <2>2. ASSUME NEW t \in Tasks, Sign(t) PROVE Types' /\ IndexInv'
    BY <2>2 DEF Sign, Types, IndexInv, Steps
  <2>3. ASSUME NEW t \in Tasks, SignFail(t) PROVE Types' /\ IndexInv'
    <3>1. Types'
      BY <2>3, ReturnTypes DEF SignFail, NonceAfterFailure, Types
    <3>2. IndexInv'
      BY <2>3 DEF SignFail, Return, Types, IndexInv
    <3>3. QED
      BY <3>1, <3>2
  <2>4. ASSUME NEW t \in Tasks, PostSilent(t) PROVE Types' /\ IndexInv'
    <3>1. Types'
      BY <2>4, AfterBroadcastTypes DEF PostSilent, Types
    <3>2. IndexInv'
      BY <2>4 DEF PostSilent, AfterBroadcast, Return, Types, IndexInv
    <3>3. QED
      BY <3>1, <3>2
  <2>5. ASSUME NEW t \in Tasks, Post(t) PROVE Types' /\ IndexInv'
    <3>1. Types'
      BY <2>5 DEF Post, Types, Steps
    <3>2. IndexInv'
      BY <2>5 DEF Post, Silent, Types, IndexInv
    <3>3. QED
      BY <3>1, <3>2
  <2>6. ASSUME NEW t \in Tasks, ClearFailures(t) PROVE Types' /\ IndexInv'
    <3>1. Types'
      BY <2>6, AfterBroadcastTypes DEF ClearFailures, Types
    <3>2. IndexInv'
      BY <2>6 DEF ClearFailures, AfterBroadcast, Return, Types, IndexInv
    <3>3. QED
      BY <3>1, <3>2
  <2>7. ASSUME NEW t \in Tasks, CountFailure(t) PROVE Types' /\ IndexInv'
    <3>1. Types'
      BY <2>7, AfterBroadcastTypes DEF CountFailure, Types, Steps
    <3>2. IndexInv'
      BY <2>7 DEF CountFailure, AfterBroadcast, Return, Types, IndexInv
    <3>3. QED
      BY <3>1, <3>2
  <2>8. ASSUME NEW t \in Tasks, LoadIndex(t) PROVE Types' /\ IndexInv'
    <3>1. NextIndex \in Nat /\ NextIndex < endpoints
      BY <2>8, ModBound DEF LoadIndex, NextIndex, Types, IndexInv
    <3>2. QED
      BY <2>8, <3>1 DEF LoadIndex, Types, IndexInv, Steps
  <2>9. ASSUME NEW t \in Tasks, StoreIndex(t) PROVE Types' /\ IndexInv'
    BY <2>9 DEF StoreIndex, Types, IndexInv, Steps
  <2>10. ASSUME NEW t \in Tasks, ZeroFailures(t) PROVE Types' /\ IndexInv'
    <3>1. Types'
      BY <2>10, AfterBroadcastTypes DEF ZeroFailures, FailuresAfterFailover, Types
    <3>2. IndexInv'
      BY <2>10 DEF ZeroFailures, AfterBroadcast, Return, Types, IndexInv
    <3>3. QED
      BY <3>1, <3>2
  <2>11. ASSUME NEW t \in Tasks, Included(t) PROVE Types' /\ IndexInv'
    <3>1. Types'
      BY <2>11, ReturnTypes DEF Included, Types
    <3>2. IndexInv'
      BY <2>11 DEF Included, Return, Types, IndexInv
    <3>3. QED
      BY <3>1, <3>2
  <2>12. ASSUME NEW t \in Tasks, NotIncluded(t) PROVE Types' /\ IndexInv'
    <3>1. CASE NextTry(t) < MaxBlocks
      <4>1. tx' \in [Tasks -> Tx]
        BY <2>12, <3>1 DEF NotIncluded, NextTry, RetryNonce, Types, Tx
      <4>2. QED
        BY <2>12, <3>1, <4>1 DEF NotIncluded, Types, IndexInv, Steps
    <3>2. CASE ~(NextTry(t) < MaxBlocks)
      <4>1. Types'
        BY <2>12, <3>2, ReturnTypes DEF NotIncluded, Types
      <4>2. IndexInv'
        BY <2>12, <3>2 DEF NotIncluded, Return, Types, IndexInv
      <4>3. QED
        BY <4>1, <4>2
    <3>3. QED
      BY <3>1, <3>2
  <2>13. CASE ResyncQuery
    BY <2>13 DEF ResyncQuery, NoResync, Types, IndexInv, Resync
  <2>14. CASE ResyncLoad
    BY <2>14 DEF ResyncLoad, Types, IndexInv, Resync
  <2>15. CASE ResyncStore
    <3>1. nonce' \in Nat
      BY <2>15 DEF ResyncStore, Resynced, Types, Resync
    <3>2. QED
      BY <2>15, <3>1, NoResyncType DEF ResyncStore, Types, IndexInv
  <2>16. ASSUME NEW m \in pool, Mine(m) PROVE Types' /\ IndexInv'
    <3>1. foreign' \in BOOLEAN
      BY <2>16 DEF Mine
    <3>2. QED
      BY <2>16, <3>1 DEF Mine, Types, IndexInv
  <2>17. CASE ForeignSend
    BY <2>17 DEF ForeignSend, Types, IndexInv
  <2>18. CASE Restart
    <3>1. /\ pc' \in [Tasks -> Steps] /\ tx' \in [Tasks -> Tx]
          /\ escalating' \in [Tasks -> BOOLEAN] /\ next_idx' \in [Tasks -> Nat]
      BY <2>18, NoTxType DEF Restart, Steps
    <3>2. /\ endpoints' = endpoints /\ mode' = mode /\ nonce' = chain /\ chain' = chain
          /\ life' = life + 1 /\ jobs' = jobs /\ consecutive_failures' = 0
          /\ active_builder_idx' = 0 /\ resync' = NoResync /\ pool' = pool
          /\ landed' = landed /\ foreign' \in BOOLEAN /\ issued' = {}
      BY <2>18 DEF Restart
    <3>3. Types'
      BY <3>1, <3>2, NoResyncType DEF Types
    <3>4. IndexInv'
      BY <2>18 DEF Restart, Types, IndexInv
    <3>5. QED
      BY <3>3, <3>4
  <2>19. CASE UNCHANGED vars
    BY <2>19 DEF vars, Types, IndexInv
  <2>20. QED
    BY <2>1, <2>2, <2>3, <2>4, <2>5, <2>6, <2>7, <2>8, <2>9, <2>10, <2>11, <2>12, <2>13,
       <2>14, <2>15, <2>16, <2>17, <2>18, <2>19 DEF Next, TaskStep
<1>3. QED
  BY <1>1, <1>2, PTL DEF Spec

\* The run's TypeOK, for every value of the constants: broadcast_raw never indexes
\* outside builder_endpoints, however many tasks fail over at once.
THEOREM TypeCorrect == Spec => []TypeOK
<1>1. Types /\ IndexInv => TypeOK
  BY DEF TypeOK, IndexInv
<1>2. QED
  BY <1>1, TypesInvariant, PTL

\* NoNonceReuse is not inductive: NonceInv adds what the tasks and the builders hold
\* and that resync_nonce has read nothing above its own local load.
LEMMA NonceInvariant == Spec => []NonceInv
<1>1. Init => NonceInv
  BY DEF Init, NonceInv, NoResync
<1>2. Types /\ NonceInv /\ [Next]_vars => NonceInv'
  <2> SUFFICES ASSUME Types, NonceInv, [Next]_vars PROVE NonceInv'
    OBVIOUS
  <2> USE DEF Goto
  <2>1. ASSUME NEW t \in Tasks, NEW e \in Variants, Submit(t, e) PROVE NonceInv'
    <3>1. \A u \in Tasks : pc'[u] # "idle" =>
            \/ tx'[u].life = life /\ tx'[u].nonce = nonce
            \/ tx'[u] = tx[u] /\ pc[u] # "idle"
      BY <2>1 DEF Submit, Types
    <3>2. QED
      BY <2>1, <3>1 DEF Submit, NonceInv, Types, Tx
  <2>2. ASSUME NEW t \in Tasks, TaskStep(t) PROVE NonceInv'
    <3>1. \A u \in Tasks : pc'[u] # "idle" =>
            tx'[u].life = tx[u].life /\ tx'[u].nonce = tx[u].nonce /\ pc[u] # "idle"
      <4>1. CASE NotIncluded(t)
        <5>1. CASE NextTry(t) < MaxBlocks
          <6>1. \A u \in Tasks \ {t} : tx'[u] = tx[u] /\ pc'[u] = pc[u]
            BY <4>1, <5>1 DEF NotIncluded, Types
          <6>2. tx'[t].life = tx[t].life /\ tx'[t].nonce = tx[t].nonce /\ pc[t] # "idle"
            BY <4>1, <5>1 DEF NotIncluded, RetryNonce, Types, Tx
          <6>3. QED
            BY <6>1, <6>2
        <5>2. CASE ~(NextTry(t) < MaxBlocks)
          BY <4>1, <5>2 DEF NotIncluded, Return, Types
        <5>3. QED
          BY <5>1, <5>2
      <4>2. CASE ~NotIncluded(t)
        BY <2>2, <4>2 DEF TaskStep, Sign, SignFail, PostSilent, Post, ClearFailures,
           CountFailure, LoadIndex, StoreIndex, ZeroFailures, Included, AfterBroadcast,
           Return, Types
      <4>3. QED
        BY <4>1, <4>2
    <3>2. \A m \in pool' : m \in pool \/ (m = tx[t] /\ pc[t] # "idle")
      BY <2>2 DEF TaskStep, Sign, SignFail, PostSilent, Post, ClearFailures,
         CountFailure, LoadIndex, StoreIndex, ZeroFailures, Included, NotIncluded
    <3>3. UNCHANGED <<nonce, issued, resync, chain, foreign, life>>
      BY <2>2 DEF TaskStep, Sign, SignFail, PostSilent, Post, ClearFailures, CountFailure,
         LoadIndex, StoreIndex, ZeroFailures, Included, NotIncluded, NonceAfterFailure
    <3>4. QED
      BY <3>1, <3>2, <3>3 DEF NonceInv, Types, Tx
  <2>3. CASE ResyncQuery
    BY <2>3 DEF ResyncQuery, NoResync, NonceInv, Types, Resync
  <2>4. CASE ResyncLoad
    BY <2>4 DEF ResyncLoad, NonceInv, Types, Resync
  <2>5. CASE ResyncStore
    BY <2>5 DEF ResyncStore, Resynced, NoResync, NonceInv, Types, Resync
  <2>6. ASSUME NEW m \in pool, Mine(m) PROVE NonceInv'
    <3>1. ~foreign' => ~foreign /\ m.life = life /\ m.nonce < nonce
      BY <2>6 DEF Mine, NonceInv
    <3>2. QED
      BY <2>6, <3>1 DEF Mine, NonceInv, Types, Tx, Resync
  <2>7. CASE ForeignSend
    BY <2>7 DEF ForeignSend, NonceInv, Types, Resync
  <2>8. CASE Restart
    <3>1. \A m \in pool : m.life # life + 1
      BY DEF NonceInv, Types, Tx
    <3>2. QED
      BY <2>8, <3>1 DEF Restart, NoResync, NonceInv, Types, Tx
  <2>9. CASE UNCHANGED vars
    BY <2>9 DEF vars, NonceInv
  <2>10. QED
    BY <2>1, <2>2, <2>3, <2>4, <2>5, <2>6, <2>7, <2>8, <2>9 DEF Next
<1>3. QED
  BY <1>1, <1>2, TypesInvariant, PTL DEF Spec

\* The run's NoNonceReuse, for every interleaving of fetch_add with resync_nonce.
THEOREM NonceNeverReused == Spec => []NoNonceReuse
<1>1. NonceInv => NoNonceReuse
  BY DEF NonceInv, NoNonceReuse
<1>2. QED
  BY <1>1, NonceInvariant, PTL

\* What a task's own step does to the transactions: it goes on with the nonce it has, and a
\* builder may take what it is posting.
LEMMA TaskStepKeeps ==
  ASSUME Types, NEW t \in Tasks, TaskStep(t)
  PROVE  /\ \A u \in Tasks : pc'[u] # "idle" =>
              /\ pc[u] # "idle"
              /\ tx'[u].job = tx[u].job /\ tx'[u].nonce = tx[u].nonce
         /\ \A m \in pool' : m \in pool \/ (m = tx[t] /\ pc[t] # "idle" /\ m.nonce >= chain)
         /\ UNCHANGED <<nonce, issued, chain, landed, foreign, life, jobs>>
<1> USE DEF Goto
<1>1. \A u \in Tasks : pc'[u] # "idle" =>
        /\ pc[u] # "idle"
        /\ tx'[u].job = tx[u].job /\ tx'[u].nonce = tx[u].nonce
  <2>1. CASE NotIncluded(t)
    BY <2>1 DEF NotIncluded, NextTry, RetryNonce, Return, Types, Tx
  <2>2. CASE ~NotIncluded(t)
    BY <2>2 DEF TaskStep, Sign, SignFail, PostSilent, Post, ClearFailures, CountFailure,
       LoadIndex, StoreIndex, ZeroFailures, Included, AfterBroadcast, Return, Types
  <2>3. QED
    BY <2>1, <2>2
<1>2. \A m \in pool' : m \in pool \/ (m = tx[t] /\ pc[t] # "idle" /\ m.nonce >= chain)
  BY DEF TaskStep, Sign, SignFail, PostSilent, Post, ClearFailures, CountFailure,
     LoadIndex, StoreIndex, ZeroFailures, Included, NotIncluded
<1>3. UNCHANGED <<nonce, issued, chain, landed, foreign, life, jobs>>
  BY DEF TaskStep, Sign, SignFail, PostSilent, Post, ClearFailures, CountFailure,
     LoadIndex, StoreIndex, ZeroFailures, Included, NotIncluded, NonceAfterFailure
<1>4. QED
  BY <1>1, <1>2, <1>3

\* However many tasks count at once, the failure counter passes its limit only by the tasks
\* that are on their way to reset it.
THEOREM FailuresBounded == Spec => []FailureCountBounded
<1>1. Init => FailureCountBounded
  <2> SUFFICES ASSUME Init PROVE FailureCountBounded
    OBVIOUS
  <2>1. Cardinality(Failing) \in Nat
    BY SubmissionAssumption, FS_Subset, FS_CardinalityType DEF Failing, SubmissionAssumption
  <2>2. QED
    BY <2>1 DEF Init, FailureCountBounded, FailoverAfter
<1>2. Types /\ FailureCountBounded /\ [Next]_vars => FailureCountBounded'
  <2> SUFFICES ASSUME Types, FailureCountBounded, [Next]_vars PROVE FailureCountBounded'
    OBVIOUS
  <2> USE DEF Goto
  <2>1. Failing \subseteq Tasks /\ IsFiniteSet(Failing) /\ Cardinality(Failing) \in Nat
    BY SubmissionAssumption, FS_Subset, FS_CardinalityType DEF Failing, SubmissionAssumption
  <2>2. Failing' \subseteq Tasks /\ IsFiniteSet(Failing') /\ Cardinality(Failing') \in Nat
    BY SubmissionAssumption, FS_Subset, FS_CardinalityType DEF Failing, SubmissionAssumption
  <2>3. CASE consecutive_failures' \in 0..(FailoverAfter - 1)
    BY <2>2, <2>3 DEF FailureCountBounded, FailoverAfter, Types
  <2>4. CASE consecutive_failures' = consecutive_failures /\ Failing' = Failing
    BY <2>4 DEF FailureCountBounded
  <2>5. ASSUME NEW t \in Tasks, CountFailure(t), consecutive_failures' \notin 0..(FailoverAfter - 1)
        PROVE  FailureCountBounded'
    <3>1. t \notin Failing /\ Failing' = Failing \union {t}
      BY <2>5 DEF CountFailure, Failing, FailoverAfter, Types
    <3>2. Cardinality(Failing') = Cardinality(Failing) + 1
      BY <2>1, <3>1, FS_AddElement
    <3>3. QED
      BY <2>1, <2>5, <3>2 DEF CountFailure, FailureCountBounded, FailoverAfter, Types
  <2>6. ASSUME NEW t \in Tasks, ~CountFailure(t), TaskStep(t)
        PROVE  \/ consecutive_failures' = 0
               \/ consecutive_failures' = consecutive_failures /\ Failing' = Failing
    <3>1. CASE ClearFailures(t) \/ ZeroFailures(t) \/ Included(t)
      BY <3>1 DEF ClearFailures, ZeroFailures, FailuresAfterFailover, Included
    <3>2. CASE Sign(t) \/ SignFail(t) \/ PostSilent(t) \/ Post(t) \/ NotIncluded(t)
      BY <3>2 DEF Sign, SignFail, PostSilent, Post, NotIncluded, AfterBroadcast, Return,
         Failing, Types
    <3>3. CASE LoadIndex(t) \/ StoreIndex(t)
      BY <3>3 DEF LoadIndex, StoreIndex, Failing, Types
    <3>4. QED
      BY <2>6, <3>1, <3>2, <3>3 DEF TaskStep
  <2>7. ASSUME NEW t \in Tasks, NEW e \in Variants, Submit(t, e)
        PROVE  consecutive_failures' = consecutive_failures /\ Failing' = Failing
    BY <2>7 DEF Submit, Failing, Types
  <2>8. CASE ResyncQuery \/ ResyncLoad \/ ResyncStore \/ (\E m \in pool : Mine(m)) \/ ForeignSend
             \/ UNCHANGED vars
    BY <2>4, <2>8 DEF ResyncQuery, ResyncLoad, ResyncStore, Mine, ForeignSend, vars, Failing
  <2>9. CASE Restart
    BY <2>3, <2>9 DEF Restart, FailoverAfter
  <2>10. QED
    BY <2>3, <2>4, <2>5, <2>6, <2>7, <2>8, <2>9 DEF Next, FailoverAfter
<1>3. QED
  BY <1>1, <1>2, TypesInvariant, PTL DEF Spec

\* The attempts of a call share its nonce, and what builders hold the chain has not passed.
LEMMA JobInvariant == Spec => []JobInv
<1>1. Init => JobInv
  BY DEF Init, JobInv
<1>2. Types /\ JobInv /\ [Next]_vars => JobInv'
  <2> SUFFICES ASSUME Types, JobInv, [Next]_vars PROVE JobInv'
    OBVIOUS
  <2> USE DEF Goto
  <2>1. ASSUME NEW t \in Tasks, NEW e \in Variants, Submit(t, e) PROVE JobInv'
    <3>1. \A u \in Tasks : pc'[u] # "idle" =>
            \/ tx'[u].job = jobs /\ u = t
            \/ tx'[u] = tx[u] /\ pc[u] # "idle"
      BY <2>1 DEF Submit, Types
    <3>2. QED
      BY <2>1, <3>1 DEF Submit, JobInv, Types, Tx
  <2>2. ASSUME NEW t \in Tasks, TaskStep(t) PROVE JobInv'
    BY <2>2, TaskStepKeeps DEF JobInv, Types, Tx
  <2>3. CASE ResyncQuery \/ ResyncLoad \/ ResyncStore
    BY <2>3 DEF ResyncQuery, ResyncLoad, ResyncStore, JobInv
  <2>4. ASSUME NEW m \in pool, Mine(m) PROVE JobInv'
    BY <2>4 DEF Mine, JobInv, Types, Tx
  <2>5. CASE ForeignSend
    BY <2>5 DEF ForeignSend, JobInv, Types, Tx
  <2>6. CASE Restart
    BY <2>6 DEF Restart, JobInv
  <2>7. CASE UNCHANGED vars
    BY <2>7 DEF vars, JobInv
  <2>8. QED
    BY <2>1, <2>2, <2>3, <2>4, <2>5, <2>6, <2>7 DEF Next
<1>3. QED
  BY <1>1, <1>2, TypesInvariant, PTL DEF Spec

\* An escalated call lands at most once: its attempts share a nonce (JobInv), and the chain
\* takes one transaction per nonce, across restarts and outside transactions.
THEOREM JobsLandOnce == Spec => []OneLandingPerJob
<1>1. JobInv => OneLandingPerJob
  BY DEF JobInv, OneLandingPerJob
<1> QED BY <1>1, JobInvariant, PTL

\* An included transaction is one new entry of the ledger, at the wallet's nonce.
LEMMA MineIncludes ==
  ASSUME Types, JobInv, NEW m \in pool, Mine(m)
  PROVE  Ledger!Include(m.job) /\ m.job \in 0..(jobs - 1)
<1>1. /\ m.nonce = chain /\ landed' = landed \union {m} /\ chain' = chain + 1 /\ jobs' = jobs
  BY DEF Mine
<1>2. m.job \in Nat /\ m.job < jobs /\ jobs \in Nat
  BY DEF Types, Tx, JobInv
<1>3. \A l \in landed : l.job # m.job
  <2> SUFFICES ASSUME NEW l \in landed, l.job = m.job PROVE FALSE
    OBVIOUS
  <2>1. l.nonce = m.nonce /\ l.nonce < chain
    BY DEF JobInv
  <2>2. chain \in Nat
    BY DEF Types
  <2> QED BY <1>1, <2>1, <2>2
<1>4. {[job |-> l.job, nonce |-> l.nonce] : l \in landed'}
        = {[job |-> l.job, nonce |-> l.nonce] : l \in landed} \union {[job |-> m.job, nonce |-> chain]}
  BY <1>1
<1> QED BY <1>1, <1>2, <1>3, <1>4 DEF Ledger!Include

\* Every step of the pipeline is a call, an inclusion, a nonce that somebody else spends,
\* or nothing at all to the wallet: retries under a used nonce, lost answers, the resync
\* and a restart that signs a nonce again cannot include a call twice
\* (submission.rs:37-50, 84-130).
THEOREM KeepsTheBooks == Spec => ImplementsLedger
<1>1. Init => Ledger!Init
  BY DEF Init, Ledger!Init
<1>2. Types /\ JobInv /\ [Next]_vars
        => [Ledger!Next]_<<jobs, chain, {[job |-> m.job, nonce |-> m.nonce] : m \in landed}>>
  <2> SUFFICES ASSUME Types, JobInv, [Next]_vars
               PROVE  Ledger!Next \/ UNCHANGED <<jobs, chain, landed>>
    OBVIOUS
  <2>1. ASSUME NEW t \in Tasks, NEW e \in Variants, Submit(t, e) PROVE Ledger!Call
    BY <2>1 DEF Submit, Ledger!Call
  <2>2. ASSUME NEW t \in Tasks, TaskStep(t) PROVE UNCHANGED <<jobs, chain, landed>>
    BY <2>2, TaskStepKeeps
  <2>3. ASSUME NEW m \in pool, Mine(m) PROVE Ledger!Next
    BY <2>3, MineIncludes DEF Ledger!Next
  <2>4. CASE ForeignSend
    BY <2>4 DEF ForeignSend, Ledger!Outside, Ledger!Next
  <2>5. CASE ResyncQuery \/ ResyncLoad \/ ResyncStore \/ Restart \/ UNCHANGED vars
    BY <2>5 DEF ResyncQuery, ResyncLoad, ResyncStore, Restart, vars
  <2> QED BY <2>1, <2>2, <2>3, <2>4, <2>5 DEF Next, Ledger!Next
<1> QED
  BY <1>1, <1>2, TypesInvariant, JobInvariant, PTL DEF Spec, ImplementsLedger, Ledger!Spec,
     Ledger!ledgerVars

\* Until an outside transaction lands the resync of every block is idle: what it stores is
\* what the counter holds, however long ago it asked and whatever was submitted since.  It
\* heals no lost nonce, and it takes none back (submission.rs:106-118).
THEOREM ResyncChangesNothing ==
  Spec => [][ResyncStore /\ ~foreign => UNCHANGED nonce]_vars
<1>1. Types /\ NonceInv /\ [Next]_vars => [ResyncStore /\ ~foreign => UNCHANGED nonce]_vars
  BY DEF ResyncStore, Resynced, NonceInv, Types, Resync
<1> QED BY <1>1, TypesInvariant, NonceInvariant, PTL DEF Spec

\* A nonce whose transaction is gone stays without one: fetch_add only hands out nonces
\* above it, and nobody but an outside transaction takes the chain past it.
THEOREM LostForGood == Spec => LostNonceStaysLost
<1>1. Types /\ NonceInv /\ [Next]_vars =>
        [\A n \in issued : Lost(n) /\ ~foreign' /\ life' = life => Lost(n)']_vars
  <2> SUFFICES ASSUME Types, NonceInv, [Next]_vars,
                      NEW n \in issued, Lost(n), ~foreign', life' = life
               PROVE  Lost(n)'
    OBVIOUS
  <2> USE DEF Goto
  <2>1. ASSUME NEW t \in Tasks, NEW e \in Variants, Submit(t, e) PROVE Lost(n)'
    <3>1. n < nonce /\ n \in Nat
      BY <2>1 DEF Submit, NonceInv, Types
    <3>2. \A u \in Tasks : pc'[u] # "idle" =>
            tx'[u].nonce = nonce \/ (tx'[u] = tx[u] /\ pc[u] # "idle")
      BY <2>1 DEF Submit, Types
    <3>3. QED
      BY <2>1, <3>1, <3>2 DEF Submit, Lost, Types
  <2>2. ASSUME NEW t \in Tasks, TaskStep(t) PROVE Lost(n)'
    BY <2>2, TaskStepKeeps DEF Lost
  <2>3. CASE ResyncQuery \/ ResyncLoad \/ ResyncStore
    BY <2>3 DEF ResyncQuery, ResyncLoad, ResyncStore, Lost
  <2>4. ASSUME NEW m \in pool, Mine(m) PROVE Lost(n)'
    BY <2>4 DEF Mine, Lost, Types, Tx
  <2>5. CASE ForeignSend
    BY <2>5 DEF ForeignSend
  <2>6. CASE Restart
    BY <2>6 DEF Restart, Types
  <2>7. CASE UNCHANGED vars
    BY <2>7 DEF vars, Lost
  <2>8. QED
    BY <2>1, <2>2, <2>3, <2>4, <2>5, <2>6, <2>7 DEF Next
<1>2. QED
  BY <1>1, TypesInvariant, NonceInvariant, PTL DEF Spec, LostNonceStaysLost
=============================================================================
