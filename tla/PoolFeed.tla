------------------------------- MODULE PoolFeed -------------------------------
(***************************************************************************)
(* The pool registry and the price feed.                                   *)
(* (bot/src/shared/pool_discovery.rs, bot/src/shared/price_feed.rs and     *)
(* their part of the loop body in bot/src/main.rs.)                        *)
(*                                                                         *)
(* A build of the registry asks for one pool after the other while the     *)
(* chain moves; the loop builds every few blocks, and now and then a task  *)
(* beside it does.  The feed is read for the pools of a snapshot of the    *)
(* registry, in one multicall or, if that fails, pool by pool.  A value is *)
(* the moment at which it was read, of which pool it is, and which one.    *)
(***************************************************************************)
EXTENDS Integers, Sequences, FiniteSets, SequencesExt

CONSTANTS
  Pairs,            \* how many MONITORED_PAIRS there are
  RefreshEvery,     \* POOL_REFRESH_BLOCKS
  BackgroundEvery,  \* blocks between builds beside the loop, 1000
  Selectors,        \* what SEL_LIQUIDITY may select: see selector
  MaxBlock,         \* bound: blocks; fewer than two builds beside the loop
  MaxMoves,         \* bound: changes of the chain
  MaxFailing        \* bound: calls that fail

ASSUME FeedAssumption ==
  /\ Pairs \in Nat /\ RefreshEvery \in Nat \ {0} /\ BackgroundEvery \in Nat \ {0}
  /\ MaxBlock \in Nat /\ MaxBlock < 2 * BackgroundEvery /\ MaxMoves \in Nat
  /\ MaxFailing \in Nat

\* the places where refresh looks, in its order: on both exchanges for every pair
Looks   == 2 * Pairs
Look(i) == <<(i + 1) \div 2, IF i % 2 = 1 THEN "aero" ELSE "uni">>
Places == {Look(i) : i \in 1..Looks}

IsUni(p) == p[2] = "uni"

VARIABLES
  deep,      \* the chain: the pools that exist and hold min_tvl_usd
  time,      \* the chain: how often it has moved
  selector,  \* SEL_LIQUIDITY: bytes of totalSupply() at this commit, see LiquidationQuote
  registry,  \* the pools registered
  at,        \* where each build is, 0 if it does not run
  found,     \* what each build has admitted
  block,     \* bn
  pc,        \* where the loop body is
  list,      \* the pools still to be read
  half,      \* slot0, when the liquidity is still to be read
  copy,      \* pf.states, of the loop body
  apart,     \* history: the body reads the pools one by one
  feed,      \* price_feed.states
  failed     \* bound: how many calls have failed

chain  == <<deep, time, selector>>
builds == <<registry, at, found>>
loop   == <<block, pc, list, half, copy, apart, feed>>
vars   == <<chain, builds, loop, failed>>

Builders == {"loop", "task"}

Word(p, kind) == [pool |-> p, kind |-> kind, time |-> time]
Nothing       == [pool |-> "none", kind |-> "none", time |-> 0]

\* the calls a pool takes, and what has to be answered for its state
Kinds(p)    == IF IsUni(p) THEN <<"slot0", "liquidity">> ELSE <<"reserves">>
StateNow(p) == [i \in DOMAIN Kinds(p) |-> Word(p, Kinds(p)[i])]

Readable    == selector = "liquidity"
Answered(p) == Readable \/ ~IsUni(p)

Init ==
  /\ deep \in SUBSET Places /\ time = 0
  /\ selector \in Selectors
  /\ failed \in 0..MaxFailing
  /\ \E lost \in SUBSET deep : Cardinality(lost) = failed /\ registry = deep \ lost
  /\ feed = [p \in {q \in registry : Answered(q)} |-> StateNow(p)]
  /\ at = [b \in Builders |-> 0] /\ found = [b \in Builders |-> {}]
  /\ block = 0 /\ pc = "wait" /\ list = <<>> /\ half = Nothing
  /\ copy = <<>> /\ apart = FALSE

-----------------------------------------------------------------------------
(* A mistake the property must notice.                                     *)

OneCall(p) == 1

-----------------------------------------------------------------------------
(* The chain.                                                              *)

Move ==
  /\ time < MaxMoves /\ time' = time + 1
  /\ \E p \in Places : deep' \in {deep, deep \union {p}, deep \ {p}}
  /\ UNCHANGED <<selector, builds, loop, failed>>

-----------------------------------------------------------------------------
(* PoolRegistry::build.                                                    *)

Started(b) == /\ at' = [at EXCEPT ![b] = 1]
              /\ found' = [found EXCEPT ![b] = {}]

Fails(n) == failed + n <= MaxFailing /\ failed' = failed + n

\* one exchange of one pair: no pool, a thin one, and an answer that fails are all left out
RefreshOne(b, ok) ==
  /\ at[b] \in 1..Looks
  /\ found' = [found EXCEPT ![b] =
                 IF ok /\ Look(at[b]) \in deep THEN @ \union {Look(at[b])} ELSE @]
  /\ at' = [at EXCEPT ![b] = @ + 1]
  /\ Fails(IF ok THEN 0 ELSE 1)
  /\ UNCHANGED <<chain, registry, loop>>

\* the new registry replaces the old one as a whole
Built(b) ==
  /\ at[b] = Looks + 1
  /\ registry' = found[b]
  /\ at' = [at EXCEPT ![b] = 0]
  /\ found' = [found EXCEPT ![b] = {}]
  /\ pc' = IF b = "loop" THEN "update" ELSE pc
  /\ UNCHANGED <<chain, block, list, half, copy, apart, feed, failed>>

-----------------------------------------------------------------------------
(* The loop body.                                                          *)

NewBlock ==
  /\ pc = "wait" /\ block < MaxBlock
  /\ block' = block + 1
  /\ IF block' % RefreshEvery = 0
     THEN pc' = "build" /\ Started("loop")
     ELSE pc' = "update" /\ UNCHANGED <<at, found>>
  /\ UNCHANGED <<chain, registry, list, half, copy, apart, feed, failed>>

\* all(), in no particular order; then "next" or nothing to read
Snapshot(next) ==
  /\ list' \in SetToSeqs(registry)
  /\ pc' = IF registry = {} THEN "done" ELSE next

\* price_feed.clone() copies the states
Update ==
  /\ pc = "update"
  /\ copy' = feed /\ apart' = FALSE
  /\ IF block % BackgroundEvery = 0 THEN Started("task") ELSE UNCHANGED <<at, found>>
  /\ Snapshot("batch")
  /\ UNCHANGED <<chain, registry, block, half, feed, failed>>

Insert(p, state) == [q \in DOMAIN copy \union {p} |-> IF q = p THEN state ELSE copy[q]]

Advance(p) == Len(Kinds(p))

\* the calls of the multicall: those of the first i pools
Asked ==
  LET to[i \in 0..Len(list)] == IF i = 0 THEN <<>> ELSE to[i - 1] \o StateNow(list[i]) IN to

\* call_idx, once the first i pools are worked off
CallIdx ==
  LET to[i \in 0..Len(list)] == IF i = 0 THEN 0 ELSE to[i - 1] + Advance(list[i]) IN to

\* what comes back for a call that is lost or not
Answer(call, lost) == IF lost \/ (call.kind = "liquidity" /\ ~Readable) THEN Nothing ELSE call

\* the returned data has room for what is decoded from it
Fits(word, kind) ==
  word # Nothing /\ (kind = "liquidity" \/ word.kind \in {"slot0", "reserves"})

\* one multicall, each of whose calls may fail: a pool is inserted if all its calls succeed
ReloadBatched ==
  LET calls == Asked[Len(list)]
      index == CallIdx
      slot  == [p \in Range(list) |-> CHOOSE i \in DOMAIN list : list[i] = p]
  IN /\ pc = "batch"
     /\ \E failing \in SUBSET DOMAIN calls :
          LET answer(k) == Answer(calls[k], k \in failing)
              state == [p \in Range(list) |->
                          [j \in DOMAIN Kinds(p) |-> answer(index[slot[p] - 1] + j)]]
              got   == {p \in Range(list) :
                          \A j \in DOMAIN Kinds(p) : Fits(state[p][j], Kinds(p)[j])}
          IN /\ Fails(Cardinality(failing))
             /\ copy' = [p \in DOMAIN copy \union got |-> IF p \in got THEN state[p] ELSE copy[p]]
     /\ pc' = "done" /\ list' = <<>>
     /\ UNCHANGED <<chain, builds, block, half, apart, feed>>

\* the multicall itself fails: the registry is asked once more
BatchFails ==
  /\ pc = "batch" /\ Snapshot("single") /\ apart' = TRUE /\ Fails(1)
  /\ UNCHANGED <<chain, builds, block, half, copy, feed>>

NextPool == list' = Tail(list) /\ half' = Nothing
            /\ pc' = IF Len(list) = 1 THEN "done" ELSE "single"

\* reload_sequential: one call after the other; a pool is left as it was if one fails
ReadOne(ok) ==
  LET p == Head(list) IN
  /\ pc = "single" /\ Fails(IF ok THEN 0 ELSE 1)
  /\ IF ~ok THEN NextPool /\ UNCHANGED copy
     ELSE IF ~IsUni(p) THEN copy' = Insert(p, StateNow(p)) /\ NextPool
     ELSE pc' = "liquidity" /\ half' = Word(p, "slot0") /\ UNCHANGED <<list, copy>>
  /\ UNCHANGED <<chain, builds, block, apart, feed>>

ReadLiquidity(ok) ==
  LET p == Head(list) IN
  /\ pc = "liquidity" /\ Fails(IF ok THEN 0 ELSE 1)
  /\ copy' = IF ok /\ Readable THEN Insert(p, <<half, Word(p, "liquidity")>>) ELSE copy
  /\ NextPool
  /\ UNCHANGED <<chain, builds, block, apart, feed>>

\* the clone ends with the body, and nothing of it is kept
EndOfBody ==
  /\ pc = "done"
  /\ copy' = <<>> /\ pc' = "wait"
  /\ UNCHANGED <<chain, builds, block, list, half, apart, feed, failed>>

Next ==
  \/ Move
  \/ \E b \in Builders, ok \in BOOLEAN : RefreshOne(b, ok)
  \/ \E b \in Builders : Built(b)
  \/ NewBlock
  \/ Update
  \/ ReloadBatched
  \/ BatchFails
  \/ \E ok \in BOOLEAN : ReadOne(ok) \/ ReadLiquidity(ok)
  \/ EndOfBody

Spec == Init /\ [][Next]_vars

-----------------------------------------------------------------------------
(* Properties.                                                             *)

\* Whichever calls of a multicall fail and in whatever order the pools come, the answers a
\* pool gets are its own, and those of one moment unless they were read one by one; a pool
\* is never inserted with half of them (price_feed.rs:120-137 and 221-224).
StatesAreOwn ==
  \A p \in DOMAIN copy :
    /\ \A i \in DOMAIN copy[p] : copy[p][i].pool = p /\ copy[p][i].kind = Kinds(p)[i]
    /\ DOMAIN copy[p] = DOMAIN Kinds(p)
    /\ apart \/ \A i \in DOMAIN copy[p] : copy[p][i].time = copy[p][1].time
=============================================================================
