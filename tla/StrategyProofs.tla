----------------------------- MODULE StrategyProofs -----------------------------
(***************************************************************************)
(* Proofs about LiquidationStrategy: what a batch works on has prices, and *)
(* what it submits was due.                                                *)
(***************************************************************************)
EXTENDS LiquidationStrategy, DataProofs, TLAPS

-----------------------------------------------------------------------------
(* The inductive invariant.                                                *)

Record(pos) ==
  pos = [coll |-> pos.coll, debt |-> pos.debt, coll_amount |-> pos.coll_amount,
         debt_amount |-> pos.debt_amount, hf |-> pos.hf, block |-> pos.block]

Shapes ==
  /\ positions = [k \in DOMAIN positions |-> positions[k]]
  /\ \A k \in DOMAIN positions : Record(positions[k])
  /\ at \in [Tasks -> Steps]
  /\ threshold \in [Tasks -> 0..MaxHf]
  /\ todo = [t \in Tasks |-> todo[t]] /\ snapshot = [t \in Tasks |-> snapshot[t]]
  /\ picked = [t \in Tasks |-> picked[t]] /\ current = [t \in Tasks |-> current[t]]
  /\ \A t \in Tasks : todo[t] \subseteq DOMAIN positions

\* the scan is over before the first block, and with it before the first health factor
BootFirst ==
  phase # "live" =>
    /\ stage = "idle"
    /\ \A t \in Tasks : at[t] = "idle"
    /\ \A k \in DOMAIN positions : positions[k].hf = MaxHf

\* a health factor that was computed had both prices, and prices are never removed
JudgedArePriced ==
  \A k \in DOMAIN positions : positions[k].hf # MaxHf => Priced(positions[k], prices)

\* the only pending price has a current one beside it
SnapshotsPriced == \A t \in Tasks : DOMAIN snapshot[t] \subseteq DOMAIN prices
PendingPriced   == DOMAIN pending \subseteq DOMAIN prices

PricedInv ==
  /\ Shapes
  /\ BootFirst
  /\ JudgedArePriced
  /\ SnapshotsPriced
  /\ PendingPriced
  /\ EthFeed \in DOMAIN prices
  /\ PickedArePriced

-----------------------------------------------------------------------------
\* Whoever writes prices, none is ever taken away, and none is pending that is not there.
LEMMA PricesGrow ==
  ASSUME MarketNext \/ UNCHANGED marketVars, EthFeed \in DOMAIN prices, PendingPriced
  PROVE  DOMAIN prices \subseteq DOMAIN prices' /\ PendingPriced'
<1> USE DEF PendingPriced
<1>1. CASE NewBlock BY <1>1 DEF NewBlock
<1>2. CASE RefreshGas BY <1>2 DEF RefreshGas
<1>3. CASE Flush BY <1>3 DEF Flush, Kept
<1>4. CASE PollEth BY <1>4 DEF PollEth, Written
<1>5. CASE PollBtc BY <1>5 DEF PollBtc, Written
<1>6. ASSUME NEW f \in Rated, PollRated(f)
      PROVE  DOMAIN prices \subseteq DOMAIN prices' /\ PendingPriced'
  BY <1>6 DEF PollRated, Written
<1>7. CASE WatchTransmit
  <2>1. DOMAIN prices' = DOMAIN prices \union {EthFeed}
    BY <1>7 DEF WatchTransmit, Written, CurrentWrite
  <2>2. DOMAIN pending' = DOMAIN pending \union {EthFeed}
    BY <1>7 DEF WatchTransmit, Written
  <2> QED BY <2>1, <2>2
<1>8. ASSUME NEW s \in Swaps, WatchSwap(s)
      PROVE  DOMAIN prices \subseteq DOMAIN prices' /\ PendingPriced'
  BY <1>8 DEF WatchSwap
<1>9. CASE Spawned BY <1>9 DEF Spawned
<1>10. CASE UNCHANGED marketVars BY <1>10 DEF marketVars
<1> QED
  BY <1>1, <1>2, <1>3, <1>4, <1>5, <1>6, <1>7, <1>8, <1>9, <1>10 DEF MarketNext, MarketStep

\* A log's entry is a record without a health factor.
LEMMA LoggedShape ==
  ASSUME NEW p, NEW b, NEW pos \in Logged(p, b)
  PROVE  Record(pos) /\ pos.hf = MaxHf
  BY DEF Logged, AavePosition, MorphoPosition, Record

LEMMA PricedInit == Init => PricedInv
<1> SUFFICES ASSUME Init PROVE PricedInv
  OBVIOUS
<1>1. Shapes /\ SnapshotsPriced
  BY StrategyAssumption DEF Init, IndexInit, Shapes, Steps, SnapshotsPriced
<1>2. BootFirst /\ JudgedArePriced
  BY DEF Init, IndexInit, MarketInit, BootFirst, JudgedArePriced
<1>3. PendingPriced /\ EthFeed \in DOMAIN prices
  BY DEF Init, MarketInit, PendingPriced
<1>4. PickedArePriced
  BY DEF Init, PickedArePriced
<1> QED BY <1>1, <1>2, <1>3, <1>4 DEF PricedInv

-----------------------------------------------------------------------------
(* The steps.                                                              *)

\* An entry is replaced by one that has not been judged, and no entry disappears.
LEMMA InsertStep ==
  ASSUME PricedInv, NEW k, NEW pos, Record(pos), pos.hf = MaxHf,
         positions' = Inserted(positions, k, pos), UNCHANGED prices
  PROVE  /\ positions' = [x \in DOMAIN positions' |-> positions'[x]]
         /\ DOMAIN positions \subseteq DOMAIN positions'
         /\ \A x \in DOMAIN positions' : Record(positions'[x])
         /\ JudgedArePriced'
         /\ phase # "live" => \A x \in DOMAIN positions' : positions'[x].hf = MaxHf
<1>1. /\ DOMAIN positions' = DOMAIN positions \union {k}
      /\ positions' = [x \in DOMAIN positions' |-> positions'[x]]
      /\ \A x \in DOMAIN positions' :
           positions'[x] = pos \/ (x \in DOMAIN positions /\ positions'[x] = positions[x])
  BY DEF Inserted
<1>2. \A x \in DOMAIN positions' : Record(positions'[x])
  BY <1>1 DEF PricedInv, Shapes
<1>3. JudgedArePriced'
  BY <1>1 DEF PricedInv, JudgedArePriced
<1>4. phase # "live" => \A x \in DOMAIN positions' : positions'[x].hf = MaxHf
  BY <1>1 DEF PricedInv, BootFirst
<1> QED BY <1>1, <1>2, <1>3, <1>4

\* What the index does leaves the tasks alone: it is enough to look at the map.
LEMMA IndexFrame ==
  ASSUME PricedInv, UNCHANGED <<marketVars, at, locals>>,
         positions' = [x \in DOMAIN positions' |-> positions'[x]],
         DOMAIN positions \subseteq DOMAIN positions',
         \A x \in DOMAIN positions' : Record(positions'[x]),
         JudgedArePriced',
         phase' # "live" => phase # "live" /\ \A x \in DOMAIN positions' : positions'[x].hf = MaxHf
  PROVE  PricedInv'
<1>1. Shapes'
  BY DEF PricedInv, Shapes, locals
<1>2. BootFirst'
  BY DEF PricedInv, BootFirst, marketVars
<1>3. SnapshotsPriced' /\ PendingPriced' /\ EthFeed \in DOMAIN prices' /\ PickedArePriced'
  BY DEF PricedInv, SnapshotsPriced, PendingPriced, PickedArePriced, marketVars, locals
<1> QED BY <1>1, <1>2, <1>3 DEF PricedInv

LEMMA IndexStep ==
  ASSUME PricedInv, IndexNext, UNCHANGED <<marketVars, at, locals>>
  PROVE  PricedInv'
<1>0. UNCHANGED prices
  BY DEF marketVars
<1>1. ASSUME UNCHANGED positions, phase' # "live" => phase # "live"
      PROVE  PricedInv'
  <2>1. JudgedArePriced'
    BY <1>0, <1>1 DEF PricedInv, JudgedArePriced
  <2> QED BY <1>1, <2>1, IndexFrame DEF PricedInv, Shapes, BootFirst
<1>2. CASE NextChunk BY <1>1, <1>2 DEF NextChunk
<1>3. ASSUME NEW p \in Protocols, FetchLogs(p) \/ FetchFails(p) PROVE PricedInv'
  BY <1>1, <1>3 DEF FetchLogs, FetchFails, Fetching
<1>4. ASSUME NEW p \in Protocols, ReadBlock(p) PROVE PricedInv'
  <2>1. phase # "live"
    BY <1>4 DEF ReadBlock, Reading
  <2>2. CASE UNCHANGED positions
    BY <1>1, <2>1, <2>2
  <2>3. ASSUME NEW who \in Borrowers, NEW pos \in Logged(p, cursor),
               positions' = Inserted(positions, <<who, p>>, pos)
        PROVE  PricedInv'
    <3>1. Record(pos) /\ pos.hf = MaxHf
      BY LoggedShape
    <3> QED BY <1>0, <2>1, <2>3, <3>1, InsertStep, IndexFrame
  <2> QED BY <1>4, <2>2, <2>3 DEF ReadBlock
<1>5. CASE Lookup
  <2>1. phase # "live"
    BY <1>5 DEF Lookup
  <2>2. PICK keys \in Batches : \E found \in [keys -> Holdings] :
          positions' = [k \in DOMAIN positions |->
                          IF k \in keys THEN WithHolding(positions[k], found[k])
                                        ELSE positions[k]]
    BY <1>5 DEF Lookup
  <2>2a. PICK found \in [keys -> Holdings] :
          positions' = [k \in DOMAIN positions |->
                          IF k \in keys THEN WithHolding(positions[k], found[k])
                                        ELSE positions[k]]
    BY <2>2
  <2>3. ASSUME NEW pos, NEW h, Record(pos), pos.hf = MaxHf
        PROVE  Record(WithHolding(pos, h)) /\ WithHolding(pos, h).hf = MaxHf
    BY <2>3 DEF Record, WithHolding
  <2>4. \A k \in DOMAIN positions : Record(positions[k]) /\ positions[k].hf = MaxHf
    BY <2>1 DEF PricedInv, Shapes, BootFirst
  <2>5. /\ DOMAIN positions' = DOMAIN positions
        /\ positions' = [x \in DOMAIN positions' |-> positions'[x]]
    BY <2>2a
  <2>6. \A x \in DOMAIN positions' : Record(positions'[x]) /\ positions'[x].hf = MaxHf
    BY <2>2a, <2>3, <2>4
  <2>7. JudgedArePriced'
    BY <2>6 DEF JudgedArePriced
  <2> QED BY <2>1, <2>5, <2>6, <2>7, IndexFrame
<1>6. ASSUME NEW p \in Protocols, LiveLog(p) PROVE PricedInv'
  <2>1. phase' = "live"
    BY <1>6 DEF LiveLog
  <2>2. PICK b \in StreamBlocks, who \in Borrowers : \E pos \in Logged(p, b) :
          positions' = Inserted(positions, <<who, p>>, pos)
    BY <1>6 DEF LiveLog
  <2>3. PICK pos \in Logged(p, b) : positions' = Inserted(positions, <<who, p>>, pos)
    BY <2>2
  <2>4. Record(pos) /\ pos.hf = MaxHf
    BY LoggedShape
  <2> QED BY <1>0, <2>1, <2>3, <2>4, InsertStep, IndexFrame
<1> QED BY <1>2, <1>3, <1>4, <1>5, <1>6 DEF IndexNext, ScanStep

\* What the market does leaves the index and the tasks alone, and removes no price.
LEMMA MarketKeeps ==
  ASSUME PricedInv, MarketNext \/ UNCHANGED marketVars,
         UNCHANGED <<positions, snapshot, picked, current>>
  PROVE  /\ JudgedArePriced' /\ SnapshotsPriced' /\ PendingPriced'
         /\ EthFeed \in DOMAIN prices' /\ PickedArePriced'
<1>1. DOMAIN prices \subseteq DOMAIN prices' /\ PendingPriced'
  BY PricesGrow DEF PricedInv
<1>2. JudgedArePriced' /\ SnapshotsPriced' /\ EthFeed \in DOMAIN prices'
  BY <1>1 DEF PricedInv, JudgedArePriced, SnapshotsPriced, Priced
<1>3. PickedArePriced'
  BY <1>1 DEF PricedInv, PickedArePriced, Priced
<1> QED BY <1>1, <1>2, <1>3

LEMMA EnvironmentStep ==
  ASSUME PricedInv, Environment, UNCHANGED <<at, locals>>
  PROVE  PricedInv'
<1>1. CASE MarketStep /\ (stage = "idle" /\ stage' # "idle" => phase = "live")
           /\ UNCHANGED indexVars
  <2>1. MarketNext
    BY <1>1 DEF MarketNext
  <2>2. UNCHANGED <<positions, snapshot, picked, current>>
    BY <1>1 DEF indexVars, locals
  <2>3. Shapes'
    BY <1>1 DEF PricedInv, Shapes, indexVars, locals
  <2>4. BootFirst'
    BY <1>1 DEF PricedInv, BootFirst, indexVars
  <2> QED BY <2>1, <2>2, <2>3, <2>4, MarketKeeps DEF PricedInv
<1>2. CASE IndexNext /\ UNCHANGED marketVars
  BY <1>2, IndexStep
<1> QED BY <1>1, <1>2 DEF Environment

\* A task that copies, drops or hands on entries keeps the invariant when the prices do
\* not shrink and it holds nothing new that has none.
LEMMA TaskFrame ==
  ASSUME PricedInv, UNCHANGED <<marketVars, indexVars, snapshot>>, phase = "live",
         at' \in [Tasks -> Steps], threshold' \in [Tasks -> 0..MaxHf],
         todo' = [x \in Tasks |-> todo'[x]],
         \A x \in Tasks : todo'[x] \subseteq DOMAIN positions,
         picked' = [x \in Tasks |-> picked'[x]], current' = [x \in Tasks |-> current'[x]],
         \A x \in Tasks : \A e \in picked'[x] \union current'[x] :
           e \in picked[x] \union current[x] \/ Priced(e.pos, prices)
  PROVE  PricedInv'
<1>1. Shapes'
  BY DEF PricedInv, Shapes, indexVars
<1>2. BootFirst'
  BY DEF BootFirst, indexVars
<1>3. JudgedArePriced' /\ SnapshotsPriced' /\ PendingPriced' /\ EthFeed \in DOMAIN prices'
  BY DEF PricedInv, JudgedArePriced, SnapshotsPriced, PendingPriced, marketVars, indexVars
<1>4. PickedArePriced'
  BY DEF PricedInv, PickedArePriced, marketVars
<1> QED BY <1>1, <1>2, <1>3, <1>4 DEF PricedInv

\* A task that is not idle has been spawned by a loop that waits for the scan.
LEMMA BusyIsLive ==
  ASSUME PricedInv, NEW t \in Tasks, at[t] # "idle"
  PROVE  phase = "live"
  BY DEF PricedInv, BootFirst

LEMMA BeginShapes ==
  ASSUME PricedInv, NEW t \in Tasks, NEW k, NEW step \in Steps, Begin(t, k, step)
  PROVE  /\ at' \in [Tasks -> Steps] /\ threshold' \in [Tasks -> 0..MaxHf]
         /\ todo' = [x \in Tasks |-> todo'[x]]
         /\ \A x \in Tasks : todo'[x] \subseteq DOMAIN positions
         /\ UNCHANGED <<picked, current>>
<1>1. Widened \subseteq 0..MaxHf
  BY StrategyAssumption, IndexerAssumption DEF Widened
<1> QED BY <1>1 DEF PricedInv, Shapes, Begin

LEMMA SpawnStep ==
  ASSUME PricedInv, NEW t \in Tasks, SpawnRun(t) \/ SpawnPresign(t)
  PROVE  PricedInv'
<1>1. CASE SpawnRun(t)
  <2>1. Spawned /\ Begin(t, "run", "refresh") /\ UNCHANGED <<indexVars, snapshot>>
    BY <1>1 DEF SpawnRun
  <2>2. phase = "live"
    BY <2>1 DEF Spawned, At, PricedInv, BootFirst
  <2>3. /\ at' \in [Tasks -> Steps] /\ threshold' \in [Tasks -> 0..MaxHf]
        /\ todo' = [x \in Tasks |-> todo'[x]]
        /\ \A x \in Tasks : todo'[x] \subseteq DOMAIN positions
        /\ UNCHANGED <<picked, current>>
    <3>1. "refresh" \in Steps
      BY DEF Steps
    <3> QED BY <2>1, <3>1, BeginShapes
  <2>4. MarketNext /\ UNCHANGED <<positions, phase, snapshot>>
    BY <2>1 DEF MarketNext, indexVars
  <2>5. Shapes'
    BY <2>3, <2>4 DEF PricedInv, Shapes
  <2>6. BootFirst'
    BY <2>2, <2>4 DEF BootFirst
  <2> QED BY <2>3, <2>4, <2>5, <2>6, MarketKeeps DEF PricedInv
<1>2. CASE SpawnPresign(t)
  <2>1. /\ phase = "live" /\ DOMAIN pending # {} /\ Begin(t, "presign", "presign")
        /\ snapshot' = [snapshot EXCEPT ![t] = PendingPrices]
        /\ UNCHANGED <<marketVars, indexVars>>
    BY <1>2 DEF SpawnPresign
  <2>2. /\ at' \in [Tasks -> Steps] /\ threshold' \in [Tasks -> 0..MaxHf]
        /\ todo' = [x \in Tasks |-> todo'[x]]
        /\ \A x \in Tasks : todo'[x] \subseteq DOMAIN positions
        /\ UNCHANGED <<picked, current>>
    <3>1. "presign" \in Steps
      BY DEF Steps
    <3> QED BY <2>1, <3>1, BeginShapes
  <2>3. SnapshotsPriced'
    BY <2>1 DEF PricedInv, Shapes, SnapshotsPriced, PendingPriced, PendingPrices, marketVars
  <2>4. Shapes'
    BY <2>1, <2>2 DEF PricedInv, Shapes, indexVars
  <2>5. BootFirst'
    BY <2>1 DEF BootFirst, indexVars
  <2>6. JudgedArePriced' /\ PendingPriced' /\ EthFeed \in DOMAIN prices' /\ PickedArePriced'
    BY <2>1, <2>2 DEF PricedInv, JudgedArePriced, PendingPriced, PickedArePriced,
                      marketVars, indexVars
  <2> QED BY <2>3, <2>4, <2>5, <2>6 DEF PricedInv
<1> QED BY <1>1, <1>2

\* A key that is refreshed is judged only with both prices.
LEMMA RefreshStep ==
  ASSUME PricedInv, NEW t \in Tasks, NEW k \in todo[t], Refresh(t, k)
  PROVE  PricedInv'
<1>1. /\ at[t] = "refresh" /\ todo' = [todo EXCEPT ![t] = @ \ {k}]
      /\ positions' = [positions EXCEPT ![k].hf = ComputeHf(positions[k], prices)]
      /\ UNCHANGED <<phase, prices, pending, stage, at, threshold, snapshot, picked, current>>
  BY DEF Refresh, Visit, RefreshKey, marketVars
<1>2. phase = "live"
  BY <1>1, BusyIsLive
<1>3. k \in DOMAIN positions
  BY DEF PricedInv, Shapes
<1>4. /\ DOMAIN positions' = DOMAIN positions
      /\ positions' = [x \in DOMAIN positions' |-> positions'[x]]
      /\ \A x \in DOMAIN positions \ {k} : positions'[x] = positions[x]
      /\ positions'[k] = [positions[k] EXCEPT !.hf = ComputeHf(positions[k], prices)]
  BY <1>1, <1>3
<1>5. Record(positions[k])
  BY <1>3 DEF PricedInv, Shapes
<1>6. /\ Record(positions'[k]) /\ positions'[k].hf = ComputeHf(positions[k], prices)
      /\ positions'[k].coll = positions[k].coll /\ positions'[k].debt = positions[k].debt
  BY <1>4, <1>5 DEF Record
<1>7. Shapes'
  BY <1>1, <1>4, <1>6 DEF PricedInv, Shapes
<1>8. JudgedArePriced'
  <2> SUFFICES ASSUME NEW x \in DOMAIN positions', positions'[x].hf # MaxHf
               PROVE  Priced(positions'[x], prices)
    BY <1>1 DEF JudgedArePriced
  <2>1. CASE x = k
    BY <1>6, <2>1 DEF ComputeHf, Priced
  <2>2. CASE x # k
    BY <1>4, <2>2 DEF PricedInv, JudgedArePriced
  <2> QED BY <2>1, <2>2
<1>9. /\ BootFirst' /\ SnapshotsPriced' /\ PendingPriced' /\ PickedArePriced'
      /\ EthFeed \in DOMAIN prices'
  BY <1>1, <1>2 DEF PricedInv, BootFirst, SnapshotsPriced, PendingPriced, PickedArePriced
<1> QED BY <1>7, <1>8, <1>9 DEF PricedInv

\* What is below a threshold has been judged, in the map or by the task itself.
LEMMA SelectStep ==
  ASSUME PricedInv, NEW t \in Tasks, NEW k \in todo[t], Select(t, k) \/ PresignSelect(t, k)
  PROVE  PricedInv'
<1>1. /\ at[t] \in {"select", "presign"} /\ todo' = [todo EXCEPT ![t] = @ \ {k}]
      /\ BelowHf(t, k) \/ BelowPendingHf(t, k) \/ UNCHANGED picked
      /\ Pick(t, k) \/ UNCHANGED picked
      /\ UNCHANGED <<marketVars, indexVars, snapshot, at, threshold, current>>
  BY DEF Select, PresignSelect, Visit
<1>2. phase = "live"
  BY <1>1, BusyIsLive
<1>3. k \in DOMAIN positions /\ threshold[t] \in 0..MaxHf
  BY DEF PricedInv, Shapes
<1>4. CASE UNCHANGED picked
  BY <1>1, <1>2, <1>4, TaskFrame DEF PricedInv, Shapes
<1>5. CASE Pick(t, k) /\ (BelowHf(t, k) \/ BelowPendingHf(t, k))
  <2>1. ~(MaxHf < threshold[t])
    BY <1>3, IndexerAssumption
  <2>2. ASSUME BelowHf(t, k) PROVE Priced(positions[k], prices)
    <3>1. positions[k].hf # MaxHf
      BY <2>1, <2>2 DEF BelowHf
    <3> QED BY <1>3, <3>1 DEF PricedInv, JudgedArePriced
  <2>3. ASSUME BelowPendingHf(t, k) PROVE Priced(positions[k], prices)
    <3>1. ComputeHf(positions[k], snapshot[t]) # MaxHf
      BY <2>1, <2>3 DEF BelowPendingHf
    <3>2. Priced(positions[k], snapshot[t])
      BY <3>1 DEF ComputeHf
    <3> QED BY <3>2 DEF Priced, PricedInv, SnapshotsPriced
  <2>4. Priced(Keyed(k).pos, prices)
    BY <1>5, <2>2, <2>3 DEF Keyed
  <2>5. /\ picked' = [x \in Tasks |-> picked'[x]]
        /\ \A x \in Tasks : \A e \in picked'[x] : e \in picked[x] \/ e = Keyed(k)
    BY <1>5 DEF Pick, PricedInv, Shapes
  <2>6. /\ at' \in [Tasks -> Steps] /\ threshold' \in [Tasks -> 0..MaxHf]
        /\ todo' = [x \in Tasks |-> todo'[x]]
        /\ \A x \in Tasks : todo'[x] \subseteq DOMAIN positions
        /\ current' = [x \in Tasks |-> current'[x]]
    BY <1>1 DEF PricedInv, Shapes
  <2> QED BY <1>1, <1>2, <2>4, <2>5, <2>6, TaskFrame
<1> QED BY <1>1, <1>4, <1>5

\* The rest of a task only hands on what it has picked.
LEMMA BatchStep ==
  ASSUME PricedInv, NEW t \in Tasks,
         \/ Refreshed(t) \/ Batch(t)
         \/ \E e \in picked[t] : Take(t, e)
         \/ Simulate(t) \/ Offer(t) \/ OfferFails(t) \/ BatchDone(t) \/ Ended(t)
  PROVE  PricedInv'
<1>1. CASE Refreshed(t) \/ Batch(t)
  <2>1. /\ at[t] \in {"refresh", "select", "presign"}
        /\ \E step \in Steps : at' = [at EXCEPT ![t] = step]
        /\ todo' = todo \/ todo' = [todo EXCEPT ![t] = DOMAIN positions]
        /\ UNCHANGED <<marketVars, indexVars, snapshot, threshold, picked, current>>
    BY <1>1 DEF Refreshed, Batch, Steps
  <2>2. phase = "live"
    BY <2>1, BusyIsLive
  <2> QED BY <2>1, <2>2, TaskFrame DEF PricedInv, Shapes
<1>2. ASSUME NEW e \in picked[t], Take(t, e)
      PROVE  PricedInv'
  <2>1. /\ at[t] = "batch"
        /\ picked' = [picked EXCEPT ![t] = @ \ {e}]
        /\ \/ UNCHANGED <<at, current>>
           \/ at' = [at EXCEPT ![t] = "simulate"] /\ current' = [current EXCEPT ![t] = {e}]
        /\ UNCHANGED <<marketVars, indexVars, snapshot, threshold, todo>>
    BY <1>2 DEF Take
  <2>2. phase = "live"
    BY <2>1, BusyIsLive
  <2>3. at' \in [Tasks -> Steps]
    BY <2>1 DEF PricedInv, Shapes, Steps
  <2>4. /\ picked' = [x \in Tasks |-> picked'[x]] /\ current' = [x \in Tasks |-> current'[x]]
        /\ \A x \in Tasks : picked'[x] \subseteq picked[x]
        /\ \A x \in Tasks : current'[x] \subseteq current[x] \union picked[x]
    <3>1. /\ picked = [x \in Tasks |-> picked[x]] /\ current = [x \in Tasks |-> current[x]]
      BY DEF PricedInv, Shapes
    <3>2. /\ picked' = [x \in Tasks |-> picked'[x]]
          /\ \A x \in Tasks : picked'[x] \subseteq picked[x]
      BY <2>1, <3>1
    <3>3. CASE UNCHANGED current
      BY <3>1, <3>2, <3>3
    <3>4. CASE current' = [current EXCEPT ![t] = {e}]
      <4>1. /\ current' = [x \in Tasks |-> current'[x]]
            /\ \A x \in Tasks : current'[x] = IF x = t THEN {e} ELSE current[x]
        BY <3>1, <3>4
      <4>2. {e} \subseteq picked[t]
        OBVIOUS
      <4> QED BY <3>2, <4>1, <4>2
    <3> QED BY <2>1, <3>3, <3>4
  <2>5. \A x \in Tasks : \A o \in picked'[x] \union current'[x] :
          o \in picked[x] \union current[x]
    BY <2>4
  <2>6. /\ threshold' \in [Tasks -> 0..MaxHf] /\ todo' = [x \in Tasks |-> todo'[x]]
        /\ \A x \in Tasks : todo'[x] \subseteq DOMAIN positions
    BY <2>1 DEF PricedInv, Shapes
  <2> QED BY <2>1, <2>2, <2>3, <2>4, <2>5, <2>6, TaskFrame
<1>3. ASSUME at[t] # "idle", NEW step \in Steps, NEW left, left \subseteq picked[t],
             NEW e, e \subseteq current[t], Proceed(t, step, left, e)
      PROVE  PricedInv'
  <2>1. /\ at' = [at EXCEPT ![t] = step]
        /\ picked' = [picked EXCEPT ![t] = left] /\ current' = [current EXCEPT ![t] = e]
        /\ UNCHANGED <<marketVars, indexVars, snapshot, threshold, todo>>
    BY <1>3 DEF Proceed
  <2>2. phase = "live"
    BY <1>3, BusyIsLive
  <2>3. /\ picked' = [x \in Tasks |-> picked'[x]] /\ current' = [x \in Tasks |-> current'[x]]
        /\ \A x \in Tasks : picked'[x] \subseteq picked[x] /\ current'[x] \subseteq current[x]
    BY <1>3, <2>1 DEF PricedInv, Shapes
  <2> QED BY <2>1, <2>2, <2>3, TaskFrame DEF PricedInv, Shapes
<1> USE DEF Steps
<1>4. CASE Simulate(t)
  BY <1>3, <1>4 DEF Simulate
<1>5. CASE Offer(t)
  BY <1>3, <1>5 DEF Offer
<1>6. CASE OfferFails(t)
  BY <1>3, <1>6 DEF OfferFails
<1>7. CASE BatchDone(t)
  BY <1>3, <1>7 DEF BatchDone
<1>8. CASE Ended(t)
  BY <1>3, <1>8 DEF Ended
<1> QED BY <1>1, <1>2, <1>4, <1>5, <1>6, <1>7, <1>8

LEMMA PricedStep == PricedInv /\ [Next]_vars => PricedInv'
<1> SUFFICES ASSUME PricedInv, [Next]_vars PROVE PricedInv'
  OBVIOUS
<1>1. CASE Environment /\ UNCHANGED <<at, locals>>
  BY <1>1, EnvironmentStep
<1>2. ASSUME NEW t \in Tasks, TaskStep(t) PROVE PricedInv'
  BY <1>2, SpawnStep, RefreshStep, SelectStep, BatchStep DEF TaskStep
<1>3. CASE UNCHANGED vars
  <2>1. UNCHANGED <<prices, pending, stage, positions, phase, at, locals>>
    BY <1>3 DEF vars, marketVars, indexVars
  <2>2. UNCHANGED <<todo, threshold, snapshot, picked, current>>
    BY <2>1 DEF locals
  <2> QED BY <2>1, <2>2 DEF PricedInv, Shapes, BootFirst, JudgedArePriced, SnapshotsPriced,
                            PendingPriced, PickedArePriced
<1> QED BY <1>1, <1>2, <1>3 DEF Next

\* No task ever works on a position without a price, whatever the market, the log stream
\* and the other tasks do to the shared maps in the meantime (liquidation.rs:132-170): the
\* error with which the simulation would end the whole batch does not occur.
THEOREM PricedAlways == Spec => []PickedArePriced
<1>1. PricedInv => PickedArePriced
  BY DEF PricedInv
<1> QED BY <1>1, PricedInit, PricedStep, PTL DEF Spec

-----------------------------------------------------------------------------
(* The composition: the market and the index take their own steps in it,   *)
(* and a refresh is the only other one that touches the index.             *)

LEMMA Moves ==
  ASSUME [Next]_vars
  PROVE  /\ [MarketNext]_marketVars
         /\ \/ [IndexNext]_indexVars
            \/ \E t \in Tasks : \E k \in todo[t] : Refresh(t, k)
         /\ [IndexNext]_indexVars \/ UNCHANGED <<phase, start, cursor, head, visits>>
<1>1. CASE Environment /\ UNCHANGED <<at, locals>>
  BY <1>1 DEF Environment, MarketNext
<1>2. ASSUME NEW t \in Tasks, SpawnRun(t) PROVE MarketNext /\ UNCHANGED indexVars
  BY <1>2 DEF SpawnRun, MarketNext
<1>3. ASSUME NEW t \in Tasks, NEW k \in todo[t], Refresh(t, k)
      PROVE  UNCHANGED marketVars /\ UNCHANGED <<phase, start, cursor, head, visits>>
  BY <1>3 DEF Refresh, RefreshKey
<1>4. ASSUME NEW t \in Tasks, TaskStep(t), ~SpawnRun(t),
             ~\E k \in todo[t] : Refresh(t, k)
      PROVE  UNCHANGED marketVars /\ UNCHANGED indexVars
  BY <1>4 DEF TaskStep, SpawnPresign, Refreshed, Select, PresignSelect, Batch, Take, Simulate,
              Offer, OfferFails, BatchDone, Ended, Proceed
<1>5. CASE UNCHANGED vars
  BY <1>5 DEF vars
<1> QED BY <1>1, <1>2, <1>3, <1>4, <1>5 DEF Next, TaskStep

\* The market's invariants hold in the composition.
LEMMA MarketInvariant == Spec => [](MarketTypeOK /\ PriceInv)
<1>1. Init => MarketTypeOK /\ PriceInv
  BY MarketTypeInit, PriceInit DEF Init
<1>2. MarketTypeOK /\ PriceInv /\ [Next]_vars => (MarketTypeOK /\ PriceInv)'
  BY Moves, MarketTypeStep, PriceStep DEF PriceInv
<1> QED BY <1>1, <1>2, PTL DEF Spec

\* What a confirmed market says of an asset: it is a token, with a positive, confirmed price.
LEMMA AssetPrices ==
  ASSUME MarketTypeOK, TokenPricesConfirmed,
         NEW a \in Candidates \union DebtAssets \union {NoAsset}, a \in DOMAIN prices
  PROVE  a \in Tokens /\ a # NoAsset /\ prices[a] \in ConfirmedPrices(a) /\ prices[a] \in Nat \ {0}
<1>1. a \in Keys /\ prices[a] \in Nat \ {0}
  BY DEF MarketTypeOK
<1>2. a # NoAsset /\ a \in Tokens
  BY <1>1, AssetAssumption DEF AssetAssumption, Keys
<1> QED BY <1>1, <1>2 DEF TokenPricesConfirmed

LEMMA Fraction ==
  ASSUME NEW a \in Nat, NEW b \in Nat, b # 0
  PROVE  a \div b \in Nat
  OBVIOUS

\* A health factor is a natural number, and one computed with prices comes from confirmed ones.
LEMMA HfOfEntry ==
  ASSUME MarketTypeOK, TokenPricesConfirmed, NEW k, NEW pos, Fits(k, pos)
  PROVE  /\ ComputeHf(pos, prices) \in Nat
         /\ Priced(pos, prices) =>
              /\ prices[pos.coll] \in ConfirmedPrices(pos.coll)
              /\ prices[pos.debt] \in ConfirmedPrices(pos.debt)
              /\ ComputeHf(pos, prices) = HfAt(pos, prices[pos.coll], prices[pos.debt])
<1>1. CASE ~Priced(pos, prices)
  BY <1>1, IndexerAssumption DEF ComputeHf
<1>2. CASE Priced(pos, prices)
  <2>1. /\ pos.coll \in Candidates \union {NoAsset} /\ pos.debt \in DebtAssets \union {NoAsset}
        /\ pos.coll_amount \in Nat
    BY DEF Fits, PositionType
  <2>2. /\ prices[pos.coll] \in ConfirmedPrices(pos.coll) /\ prices[pos.coll] \in Nat
        /\ prices[pos.debt] \in ConfirmedPrices(pos.debt) /\ prices[pos.debt] \in Nat \ {0}
        /\ pos.debt # NoAsset
    BY <1>2, <2>1, AssetPrices DEF Priced
  <2>2a. pos.debt_amount \in Nat \ {0}
    BY <2>2, IndexerAssumption DEF Fits, IndexKeys, Protocols, Protocol
  <2>2b. ASSUME NEW a \in Nat, NEW b \in Nat, NEW c \in Nat \ {0}, NEW d \in Nat \ {0}
         PROVE  (a * b * LiqThreshold) \div (c * d) \in Nat
    <3>1. a * b * LiqThreshold \in Nat /\ c * d \in Nat /\ c * d # 0
      BY DEF LiqThreshold
    <3> QED BY <3>1, Fraction
  <2>3. ComputeHf(pos, prices) = HfAt(pos, prices[pos.coll], prices[pos.debt])
    BY <1>2 DEF ComputeHf, HfAt
  <2>4. HfAt(pos, prices[pos.coll], prices[pos.debt]) \in Nat
    BY <2>1, <2>2, <2>2a, <2>2b DEF HfAt
  <2> QED BY <1>2, <2>2, <2>3, <2>4
<1> QED BY <1>1, <1>2

-----------------------------------------------------------------------------
(* The index in the composition, and the types.                            *)

\* A task writes no more than a health factor into an entry.
LEMMA RefreshKeepsEntry ==
  ASSUME PricedInv, EntryInv, MarketTypeOK, TokenPricesConfirmed, NEW t \in Tasks,
         NEW k \in todo[t], Refresh(t, k)
  PROVE  /\ k \in DOMAIN positions /\ DOMAIN positions' = DOMAIN positions
         /\ \A j \in DOMAIN positions :
              /\ Fits(j, positions'[j]) /\ positions'[j].block = positions[j].block
              /\ j # k => positions'[j] = positions[j]
         /\ positions'[k] = [positions[k] EXCEPT !.hf = ComputeHf(positions[k], prices)]
<1>1. k \in DOMAIN positions
  BY DEF PricedInv, Shapes
<1>2. positions' = [positions EXCEPT ![k].hf = ComputeHf(positions[k], prices)]
  BY DEF Refresh, RefreshKey
<1>3. positions'[k] = [positions[k] EXCEPT !.hf = ComputeHf(positions[k], prices)]
  BY <1>1, <1>2
<1>4. Fits(k, positions[k])
  BY <1>1 DEF EntryInv
<1>5. ComputeHf(positions[k], prices) \in Nat
  BY <1>4, HfOfEntry
<1>6. Fits(k, positions'[k]) /\ positions'[k].block = positions[k].block
  BY <1>3, <1>4, <1>5 DEF Fits, PositionType
<1>7. DOMAIN positions' = DOMAIN positions
      /\ \A j \in DOMAIN positions : j # k => positions'[j] = positions[j]
  BY <1>2
<1> QED BY <1>1, <1>3, <1>6, <1>7 DEF EntryInv

LEMMA CompositionStep ==
  ASSUME ScanInv, EntryInv, PricedInv, MarketTypeOK, TokenPricesConfirmed, [Next]_vars
  PROVE  ScanInv' /\ EntryInv'
<1>1. CASE [IndexNext]_indexVars
  BY <1>1, ScanStepInv, EntryStep
<1>2. ASSUME NEW t \in Tasks, NEW k \in todo[t], Refresh(t, k)
      PROVE  ScanInv' /\ EntryInv'
  <2>1. UNCHANGED <<phase, start, cursor, head, visits>>
    BY <1>2 DEF Refresh, RefreshKey
  <2>2. ScanInv'
    <3>1. ScanTypes' /\ ChunkEnd' = ChunkEnd
      BY <2>1 DEF ScanInv, ScanTypes, ChunkEnd
    <3>2. \A q \in Protocols : Frontier(q)' = Frontier(q)
      BY <2>1, <3>1 DEF Frontier, Reading
    <3> QED BY <2>1, <3>1, <3>2 DEF ScanInv, Before
  <2>3. \A q \in Protocols : Horizon(q)' = Horizon(q)
    <3>1. ChunkEnd' = ChunkEnd
      BY <2>1 DEF ChunkEnd
    <3> QED BY <2>1, <3>1 DEF Horizon, Frontier, Reading
  <2>4. EntryInv'
    <3> SUFFICES ASSUME NEW j \in DOMAIN positions'
                 PROVE  Fits(j, positions'[j]) /\ positions'[j].block < Horizon(Protocol(j))'
      BY DEF EntryInv, Fits
    <3>1. /\ j \in DOMAIN positions /\ Fits(j, positions'[j])
          /\ positions'[j].block = positions[j].block
      BY <1>2, RefreshKeepsEntry
    <3>2. Protocol(j) \in Protocols /\ positions[j].block < Horizon(Protocol(j))
      BY <3>1 DEF EntryInv, Fits, IndexKeys, Protocol
    <3> QED BY <2>3, <3>1, <3>2
  <2> QED BY <2>2, <2>4
<1> QED BY <1>1, <1>2, Moves

CompositionInv == ScanInv /\ EntryInv /\ PricedInv /\ MarketTypeOK /\ PriceInv

LEMMA CompositionInvariant == Spec => []CompositionInv
<1>1. Init => ScanInv /\ EntryInv
  BY ScanInit DEF Init, IndexInit, EntryInv
<1>2. ScanInv /\ EntryInv /\ PricedInv /\ MarketTypeOK /\ PriceInv /\ [Next]_vars
        => ScanInv' /\ EntryInv'
  BY CompositionStep DEF PriceInv
<1> QED BY <1>1, <1>2, PricedInit, PricedStep, MarketInvariant, PTL DEF Spec, CompositionInv

\* The market in the composition takes the market's own steps and no other: every theorem
\* about it holds with any number of tasks and an index beside it (main.rs:233-271).
THEOREM MarketInside == Spec => MarketSpec
<1>1. Init => MarketInit
  BY DEF Init
<1>2. [Next]_vars => [MarketNext]_marketVars
  BY Moves
<1> QED BY <1>1, <1>2, PTL DEF Spec, MarketSpec

\* The strategy never reads a price that no oracle confirmed, although the mempool loop writes
\* pending ones into the map that it reads (mempool_monitor.rs:174, price_oracle.rs:80-107).
THEOREM PricesConfirmedInside == Spec => []TokenPricesConfirmed
  BY MarketInside, PricesConfirmed, PTL

\* The index does not keep to its own steps there, for the tasks write health factors into it
\* while it scans and streams; its promises hold all the same.  First the ones of the scan.
THEOREM ScanInside == Spec => [](ScanTiles /\ ScanReachesHead)
  BY CompositionInvariant, TilesByInv, ReachesByInv, PTL DEF CompositionInv

\* An entry that a task refreshes keeps its type (position_indexer.rs:264-271).
THEOREM IndexTypesInside == Spec => []IndexTypeOK
<1>1. Init => Booted
  BY DEF Init, IndexInit, Booted
<1>2. Booted /\ [Next]_vars => Booted'
  BY Moves, BootedStep DEF Booted
<1>3. CompositionInv /\ Booted => IndexTypeOK
  BY TypesByInv DEF CompositionInv
<1> QED BY <1>1, <1>2, <1>3, CompositionInvariant, PTL DEF Spec

\* A refresh that runs beside the stream writes a health factor into the entry that is there:
\* it never brings an older event of the account back (position_indexer.rs:246-251, 264-271).
THEOREM NewestWinsInside == Spec => NewestEventWins
<1> DEFINE Newer == \A k \in DOMAIN positions :
                      /\ k \in DOMAIN positions'
                      /\ positions'[k].block >= positions[k].block
<1>1. CompositionInv /\ [Next]_vars => [Newer]_indexVars
  <2> SUFFICES ASSUME CompositionInv, [Next]_vars PROVE Newer \/ UNCHANGED indexVars
    OBVIOUS
  <2>1. CASE [IndexNext]_indexVars
    BY <2>1, EntryStep DEF CompositionInv
  <2>2. ASSUME NEW t \in Tasks, NEW k \in todo[t], Refresh(t, k) PROVE Newer
    <3>1. /\ DOMAIN positions' = DOMAIN positions
          /\ \A j \in DOMAIN positions : positions'[j].block = positions[j].block
      BY <2>2, RefreshKeepsEntry DEF CompositionInv, PriceInv
    <3>2. \A j \in DOMAIN positions : positions[j].block \in Int
      BY IndexerAssumption DEF CompositionInv, EntryInv, Fits, PositionType, Blocks
    <3> QED BY <3>1, <3>2
  <2> QED BY <2>1, <2>2, Moves
<1> QED BY <1>1, CompositionInvariant, PTL DEF Spec, NewestEventWins

LEMMA EntriesOfKeys ==
  ASSUME EntryInv, NEW k \in DOMAIN positions
  PROVE  Keyed(k) \in Entries /\ k \in IndexKeys
  BY DEF EntryInv, Fits, Keyed, Entries

LEMMA StrategyTypeStep ==
  ASSUME StrategyTypeOK, CompositionInv, [Next]_vars
  PROVE  StrategyTypeOK'
<1> USE DEF Steps, StrategyTypeOK
<1>0. /\ DOMAIN positions \subseteq IndexKeys
      /\ \A t \in Tasks : todo[t] \subseteq DOMAIN positions
      /\ \A k \in DOMAIN positions : Keyed(k) \in Entries
  BY EntriesOfKeys DEF CompositionInv, PricedInv, Shapes
<1>0a. /\ picked = [t \in Tasks |-> picked[t]] /\ current = [t \in Tasks |-> current[t]]
       /\ snapshot = [t \in Tasks |-> snapshot[t]]
  BY DEF CompositionInv, PricedInv, Shapes
<1>1. CASE UNCHANGED <<at, locals>>
  BY <1>1 DEF locals
<1>2. ASSUME NEW t \in Tasks, NEW k \in {"run", "presign"}, NEW step \in Steps, Begin(t, k, step),
             snapshot' = snapshot \/ snapshot' = [snapshot EXCEPT ![t] = PendingPrices]
      PROVE  StrategyTypeOK'
  <2>1. Widened \subseteq {BaseHf} \union {BaseHf + w : w \in Widenings}
    BY DEF Widened
  <2>2. DOMAIN PendingPrices \subseteq {EthFeed}
    BY DEF PendingPrices, CompositionInv, MarketTypeOK
  <2>3. \A u \in Tasks : DOMAIN snapshot'[u] \subseteq {EthFeed}
    BY <1>0a, <1>2, <2>2
  <2>4. /\ at' \in [Tasks -> Steps] /\ kind' \in [Tasks -> {"run", "presign"}]
        /\ todo' \in [Tasks -> SUBSET IndexKeys]
        /\ threshold' \in [Tasks -> {BaseHf} \union {BaseHf + w : w \in Widenings}]
        /\ UNCHANGED <<picked, current, gas>>
    BY <1>0, <1>2, <2>1 DEF Begin
  <2> QED BY <2>3, <2>4
<1>3. ASSUME NEW t \in Tasks, SpawnRun(t) \/ SpawnPresign(t)
      PROVE  StrategyTypeOK'
  BY <1>2, <1>3 DEF SpawnRun, SpawnPresign
<1>4. ASSUME NEW t \in Tasks, NEW k \in todo[t],
             Refresh(t, k) \/ Select(t, k) \/ PresignSelect(t, k)
      PROVE  StrategyTypeOK'
  <2>1. /\ todo' = [todo EXCEPT ![t] = @ \ {k}]
        /\ UNCHANGED <<at, kind, threshold, snapshot, current, gas>>
        /\ picked' = picked \/ picked' = [picked EXCEPT ![t] = @ \union {Keyed(k)}]
    BY <1>4 DEF Refresh, Select, PresignSelect, Visit, Pick
  <2>2. \A u \in Tasks : \A e \in picked'[u] : e \in picked[u] \/ e = Keyed(k)
    BY <1>0a, <2>1
  <2>3. Keyed(k) \in Entries
    BY <1>0
  <2>4. todo' \in [Tasks -> SUBSET IndexKeys]
    BY <2>1
  <2> QED BY <2>1, <2>2, <2>3, <2>4
<1>5. ASSUME NEW t \in Tasks, Refreshed(t) PROVE StrategyTypeOK'
  BY <1>0, <1>5 DEF Refreshed
<1>6. ASSUME NEW t \in Tasks, Batch(t) PROVE StrategyTypeOK'
  <2>1. EffectiveGas \in Nat
    <3>1. base_fee \in Nat /\ tip \in Nat
      BY MarketAssumption DEF CompositionInv, MarketTypeOK, FeeFloor
    <3> QED BY <3>1, Fraction DEF EffectiveGas
  <2> QED BY <1>6, <2>1 DEF Batch
<1>7. ASSUME NEW t \in Tasks, NEW e \in picked[t], Take(t, e) PROVE StrategyTypeOK'
  <2>1. /\ \A u \in Tasks : picked'[u] \subseteq picked[u]
        /\ \A u \in Tasks : current'[u] \subseteq current[u] \union picked[u]
    BY <1>0a, <1>7 DEF Take
  <2>2. at' \in [Tasks -> Steps] /\ UNCHANGED <<kind, todo, threshold, snapshot, gas>>
    BY <1>7 DEF Take
  <2> QED BY <2>1, <2>2
<1>8. ASSUME NEW t \in Tasks, NEW step \in Steps, NEW left, left \subseteq picked[t],
             NEW e, e \subseteq current[t], Proceed(t, step, left, e)
      PROVE  StrategyTypeOK'
  <2>1. /\ \A u \in Tasks : picked'[u] \subseteq picked[u]
        /\ \A u \in Tasks : current'[u] \subseteq current[u]
    BY <1>0a, <1>8 DEF Proceed
  <2>2. at' \in [Tasks -> Steps] /\ UNCHANGED <<kind, todo, threshold, snapshot, gas>>
    BY <1>8 DEF Proceed
  <2> QED BY <2>1, <2>2
<1>9. ASSUME NEW t \in Tasks,
             Simulate(t) \/ Offer(t) \/ OfferFails(t) \/ BatchDone(t) \/ Ended(t)
      PROVE  StrategyTypeOK'
  <2>1. \/ Proceed(t, "submit", picked[t], current[t])
        \/ Proceed(t, "batch", picked[t], {})
        \/ Proceed(t, "failed", {}, {})
        \/ Proceed(t, "ok", {}, {})
        \/ Proceed(t, "idle", {}, {})
    BY <1>9 DEF Simulate, Offer, OfferFails, BatchDone, Ended
  <2>2. {} \subseteq picked[t] /\ {} \subseteq current[t]
    OBVIOUS
  <2> HIDE DEF StrategyTypeOK
  <2>3. {"submit", "batch", "failed", "ok", "idle"} \subseteq Steps
    OBVIOUS
  <2> QED BY <1>8, <2>1, <2>2, <2>3
<1> QED
  BY <1>1, <1>3, <1>4, <1>5, <1>6, <1>7, <1>9 DEF Next, TaskStep, vars

\* The types of the tasks' locals: what a task copies out of the index is an entry of it.
THEOREM StrategyTypes == Spec => []StrategyTypeOK
<1>1. Init => StrategyTypeOK
  BY DEF Init, StrategyTypeOK, Steps
<1> QED BY <1>1, StrategyTypeStep, CompositionInvariant, PTL DEF Spec

-----------------------------------------------------------------------------
(* What is offered was due: the two halves of Due, and where in a task     *)
(* each of them is known.                                                  *)

Judged(pos) ==
  \E p \in ConfirmedPrices(pos.coll), q \in ConfirmedPrices(pos.debt) : pos.hf = HfAt(pos, p, q)

Below(pos) ==
  \E p \in ConfirmedPrices(pos.coll), q \in ConfirmedPrices(pos.debt) :
    /\ pos.hf = HfAt(pos, p, q)
    /\ \E w \in Widenings \union {0} : pos.hf < BaseHf + w

Cleared(e, spike) ==
  \E q \in ConfirmedPrices(e.pos.debt) :
    DebtGate(Protocol(e.key), FALSE, spike, q * e.pos.debt_amount)

AllJudged == \A k \in DOMAIN positions : positions[k].hf # MaxHf => Judged(positions[k])
AllBelow  == \A t \in Tasks : \A e \in picked[t] \union current[t] : Below(e.pos)
AllCleared ==
  \A t \in Tasks : at[t] \in {"simulate", "submit"} =>
    \A e \in current[t] : Cleared(e, SpikeRegime(t))

OffersShape == offers = [t \in Tasks |-> offers[t]]

DueInv == AllJudged /\ AllBelow /\ AllCleared /\ OffersAreDue /\ OffersShape

\* An entry that a step of the index leaves behind is an old one or has not been judged.
LEMMA NewEntries ==
  ASSUME PricedInv, [IndexNext]_indexVars
  PROVE  \A k \in DOMAIN positions' :
           positions'[k].hf = MaxHf \/ (k \in DOMAIN positions /\ positions'[k] = positions[k])
<1>1. CASE UNCHANGED positions
  BY <1>1
<1>2. ASSUME NEW key, NEW p, NEW b, NEW pos \in Logged(p, b),
             positions' = Inserted(positions, key, pos)
      PROVE  \A k \in DOMAIN positions' :
               positions'[k].hf = MaxHf \/ (k \in DOMAIN positions /\ positions'[k] = positions[k])
  <2>1. pos.hf = MaxHf
    BY LoggedShape
  <2> QED BY <1>2, <2>1 DEF Inserted
<1>3. CASE Lookup
  <2>1. PICK keys \in Batches : \E found \in [keys -> Holdings] :
          positions' = [k \in DOMAIN positions |->
                          IF k \in keys THEN WithHolding(positions[k], found[k])
                                        ELSE positions[k]]
    BY <1>3 DEF Lookup
  <2>2. PICK found \in [keys -> Holdings] :
          positions' = [k \in DOMAIN positions |->
                          IF k \in keys THEN WithHolding(positions[k], found[k])
                                        ELSE positions[k]]
    BY <2>1
  <2>3. \A k \in DOMAIN positions : Record(positions[k]) /\ positions[k].hf = MaxHf
    BY <1>3 DEF Lookup, PricedInv, Shapes, BootFirst
  <2>4. ASSUME NEW pos, NEW h, Record(pos), pos.hf = MaxHf
        PROVE  WithHolding(pos, h).hf = MaxHf
    BY <2>4 DEF Record, WithHolding
  <2> QED BY <2>2, <2>3, <2>4
<1> QED
  BY <1>1, <1>2, <1>3 DEF IndexNext, ScanStep, NextChunk, FetchLogs, FetchFails, ReadBlock,
                          LiveLog, indexVars

LEMMA JudgedStep ==
  ASSUME CompositionInv, AllJudged, [Next]_vars
  PROVE  AllJudged'
<1>1. CASE [IndexNext]_indexVars
  BY <1>1, NewEntries DEF CompositionInv, AllJudged
<1>2. ASSUME NEW t \in Tasks, NEW k \in todo[t], Refresh(t, k) PROVE AllJudged'
  <2>1. /\ k \in DOMAIN positions /\ DOMAIN positions' = DOMAIN positions
        /\ \A j \in DOMAIN positions : j # k => positions'[j] = positions[j]
        /\ positions'[k] = [positions[k] EXCEPT !.hf = ComputeHf(positions[k], prices)]
    BY <1>2, RefreshKeepsEntry DEF CompositionInv, PriceInv
  <2>2. Fits(k, positions[k])
    BY <2>1 DEF CompositionInv, EntryInv
  <2>3. /\ positions'[k].hf = ComputeHf(positions[k], prices)
        /\ positions'[k].coll = positions[k].coll /\ positions'[k].debt = positions[k].debt
        /\ positions'[k].coll_amount = positions[k].coll_amount
        /\ positions'[k].debt_amount = positions[k].debt_amount
    BY <2>1, <2>2 DEF Fits, PositionType
  <2>4. positions'[k].hf # MaxHf => Priced(positions[k], prices)
    BY <2>3 DEF ComputeHf
  <2>5. positions'[k].hf # MaxHf => Judged(positions'[k])
    <3> SUFFICES ASSUME positions'[k].hf # MaxHf PROVE Judged(positions'[k])
      OBVIOUS
    <3>1. /\ prices[positions[k].coll] \in ConfirmedPrices(positions[k].coll)
          /\ prices[positions[k].debt] \in ConfirmedPrices(positions[k].debt)
          /\ ComputeHf(positions[k], prices)
               = HfAt(positions[k], prices[positions[k].coll], prices[positions[k].debt])
      BY <2>2, <2>4, HfOfEntry DEF CompositionInv, PriceInv
    <3>2. HfAt(positions'[k], prices[positions[k].coll], prices[positions[k].debt])
            = HfAt(positions[k], prices[positions[k].coll], prices[positions[k].debt])
      BY <2>3 DEF HfAt
    <3> QED BY <2>3, <3>1, <3>2 DEF Judged
  <2>6. \A j \in DOMAIN positions' : positions'[j].hf # MaxHf => Judged(positions'[j])
    BY <2>1, <2>5 DEF AllJudged
  <2> QED BY <2>6 DEF AllJudged, Judged
<1> QED BY <1>1, <1>2, Moves

\* A position below a task's threshold lies below the widest one.
LEMMA BelowThreshold ==
  ASSUME StrategyTypeOK, NEW t \in Tasks, NEW h \in Nat, h < threshold[t]
  PROVE  h # MaxHf /\ \E w \in Widenings \union {0} : h < BaseHf + w
<1>1. BaseHf \in Nat /\ MaxHf \in Nat /\ BaseHf <= MaxHf
  BY StrategyAssumption, IndexerAssumption DEF StrategyAssumption, IndexerAssumption
<1>2. CASE threshold[t] = BaseHf
  BY <1>1, <1>2
<1>3. ASSUME NEW w \in Widenings, threshold[t] = BaseHf + w
      PROVE  h # MaxHf /\ \E x \in Widenings \union {0} : h < BaseHf + x
  BY <1>1, <1>3, StrategyAssumption DEF StrategyAssumption
<1> QED BY <1>2, <1>3 DEF StrategyTypeOK

\* A pending price is a feed's, so nothing looks like a loan at risk to a presign task.
LEMMA PresignBlind ==
  ASSUME StrategyTypeOK, EntryInv, NEW t \in Tasks, NEW k \in DOMAIN positions
  PROVE  ~BelowPendingHf(t, k)
<1>1. positions[k].coll \in Candidates \union {NoAsset}
  BY DEF EntryInv, Fits, PositionType
<1>2. EthFeed \in Keys
  BY DEF Keys
<1>3. positions[k].coll \notin DOMAIN snapshot[t]
  BY <1>1, <1>2, AssetAssumption DEF StrategyTypeOK, AssetAssumption
<1>4. ComputeHf(positions[k], snapshot[t]) = MaxHf
  BY <1>3 DEF ComputeHf, Priced
<1>5. ~(MaxHf < threshold[t])
  <2>1. MaxHf \in Nat
    BY IndexerAssumption DEF IndexerAssumption
  <2> QED BY <2>1, BelowThreshold
<1> QED BY <1>4, <1>5 DEF BelowPendingHf

\* A batch takes only positions whose debt clears gate 2 at a confirmed price.
LEMMA TakenCleared ==
  ASSUME StrategyTypeOK, CompositionInv, NEW t \in Tasks, NEW e \in picked[t], PassesDebtGate(t, e)
  PROVE  Cleared(e, SpikeRegime(t))
<1>1. e.pos.debt \in DebtAssets \union {NoAsset} /\ e.pos.debt \in DOMAIN prices
  BY DEF StrategyTypeOK, Entries, PositionType, PassesDebtGate
<1>2. e.pos.debt \in Tokens /\ prices[e.pos.debt] \in ConfirmedPrices(e.pos.debt)
  BY <1>1, AssetPrices DEF CompositionInv, PriceInv
<1>3. (e.pos.debt = "WBTC") = FALSE
  BY <1>2 DEF Tokens, Stables, Rated
<1>4. DebtGate(Protocol(e.key), FALSE, SpikeRegime(t), prices[e.pos.debt] * e.pos.debt_amount)
  BY <1>3 DEF PassesDebtGate, DebtUsd
<1> QED BY <1>2, <1>4 DEF Cleared

\* A step that hands on what a task holds, and offers nothing.
LEMMA HandedOn ==
  ASSUME DueInv, NEW t \in Tasks, NEW step,
         at' = [at EXCEPT ![t] = step], at \in [Tasks -> Steps],
         step \in {"simulate", "submit"} => at[t] \in {"simulate", "submit"} /\ gas' = gas,
         \A u \in Tasks : u # t => gas'[u] = gas[u],
         \A u \in Tasks : picked'[u] \subseteq picked[u] /\ current'[u] \subseteq current[u]
  PROVE  AllBelow' /\ AllCleared'
<1>1. AllBelow'
  BY DEF DueInv, AllBelow, Below
<1>2. ASSUME NEW u \in Tasks, at'[u] \in {"simulate", "submit"}, NEW e \in current'[u]
      PROVE  Cleared(e, SpikeRegime(u)')
  <2>1. at[u] \in {"simulate", "submit"} /\ gas'[u] = gas[u]
    BY <1>2
  <2>2. Cleared(e, SpikeRegime(u))
    BY <1>2, <2>1 DEF DueInv, AllCleared
  <2> QED BY <2>1, <2>2 DEF SpikeRegime
<1> QED BY <1>1, <1>2 DEF AllCleared, Cleared

\* Nothing a task holds or has offered changes.
LEMMA NothingHandedOn ==
  ASSUME DueInv, UNCHANGED <<at, picked, current, gas>>
  PROVE  AllBelow' /\ AllCleared'
  BY DEF DueInv, AllBelow, AllCleared, Below, Cleared, SpikeRegime

LEMMA OffersKept ==
  ASSUME DueInv, UNCHANGED offers
  PROVE  OffersAreDue' /\ OffersShape'
  BY DEF DueInv, OffersAreDue, OffersShape, Due

LEMMA DueStep ==
  ASSUME StrategyTypeOK, CompositionInv, DueInv, [Next]_vars
  PROVE  DueInv'
<1> DEFINE Rest == AllBelow' /\ AllCleared' /\ OffersAreDue' /\ OffersShape'
<1> SUFFICES Rest
  BY JudgedStep DEF DueInv
<1>0. /\ at \in [Tasks -> Steps]
      /\ picked = [t \in Tasks |-> picked[t]] /\ current = [t \in Tasks |-> current[t]]
  BY DEF CompositionInv, PricedInv, Shapes
<1>1. CASE UNCHANGED <<at, locals>>
  BY <1>1, NothingHandedOn, OffersKept DEF locals
<1>2. ASSUME NEW t \in Tasks, SpawnRun(t) \/ SpawnPresign(t) PROVE Rest
  <2>1. PICK step \in {"refresh", "presign"} : at' = [at EXCEPT ![t] = step]
    BY <1>2 DEF SpawnRun, SpawnPresign, Begin
  <2>2. UNCHANGED <<picked, current, gas>> /\ offers' = [offers EXCEPT ![t] = {}]
    BY <1>2 DEF SpawnRun, SpawnPresign, Begin
  <2>3. AllBelow' /\ AllCleared'
    BY <1>0, <2>1, <2>2, HandedOn
  <2>4. OffersShape' /\ \A u \in Tasks : offers'[u] \subseteq offers[u]
    BY <2>2 DEF DueInv, OffersShape
  <2>5. OffersAreDue'
    BY <2>4 DEF DueInv, OffersAreDue, Due
  <2> QED BY <2>3, <2>4, <2>5
<1>3. ASSUME NEW t \in Tasks, NEW k \in todo[t], Refresh(t, k) PROVE Rest
  <2>1. UNCHANGED <<at, picked, current, gas, offers>>
    BY <1>3 DEF Refresh, Visit
  <2> QED BY <2>1, NothingHandedOn, OffersKept
<1>4. ASSUME NEW t \in Tasks, NEW k \in todo[t], Select(t, k) \/ PresignSelect(t, k) PROVE Rest
  <2>1. UNCHANGED <<at, current, gas, offers>>
    BY <1>4 DEF Select, PresignSelect, Visit
  <2>2. k \in DOMAIN positions
    BY DEF CompositionInv, PricedInv, Shapes
  <2>3. CASE UNCHANGED picked
    BY <2>1, <2>3, NothingHandedOn, OffersKept
  <2>4. CASE BelowHf(t, k) /\ Pick(t, k)
    <3>1. positions[k].hf \in Nat /\ positions[k].hf < threshold[t]
      BY <2>2, <2>4 DEF BelowHf, CompositionInv, EntryInv, Fits, PositionType
    <3>2. positions[k].hf # MaxHf /\ \E w \in Widenings \union {0} : positions[k].hf < BaseHf + w
      BY <3>1, BelowThreshold
    <3>3. Below(Keyed(k).pos)
      BY <2>2, <3>2 DEF DueInv, AllJudged, Judged, Below, Keyed
    <3>4. \A u \in Tasks : \A e \in picked'[u] : e \in picked[u] \/ e = Keyed(k)
      BY <1>0, <2>4 DEF Pick
    <3>5. AllBelow'
      BY <2>1, <3>3, <3>4 DEF DueInv, AllBelow, Below
    <3>6. AllCleared'
      BY <2>1 DEF DueInv, AllCleared, Cleared, SpikeRegime
    <3> QED BY <2>1, <3>5, <3>6, OffersKept
  <2>5. ~BelowPendingHf(t, k)
    BY <2>2, PresignBlind DEF CompositionInv
  <2> QED BY <1>4, <2>3, <2>4, <2>5 DEF Select, PresignSelect
<1>5. ASSUME NEW t \in Tasks, Refreshed(t) \/ Batch(t) PROVE Rest
  <2>1. PICK step \in {"select", "batch"} : at' = [at EXCEPT ![t] = step]
    BY <1>5 DEF Refreshed, Batch
  <2>2. UNCHANGED <<picked, current, offers>> /\ \A u \in Tasks : u # t => gas'[u] = gas[u]
    BY <1>5 DEF Refreshed, Batch, StrategyTypeOK
  <2> QED BY <1>0, <2>1, <2>2, HandedOn, OffersKept
<1>6. ASSUME NEW t \in Tasks, NEW e \in picked[t], Take(t, e) PROVE Rest
  <2>1. at[t] = "batch" /\ picked' = [picked EXCEPT ![t] = @ \ {e}] /\ UNCHANGED <<gas, offers>>
    BY <1>6 DEF Take
  <2>2. CASE PassesDebtGate(t, e)
    <3>1. at' = [at EXCEPT ![t] = "simulate"] /\ current' = [current EXCEPT ![t] = {e}]
      BY <1>6, <2>2 DEF Take
    <3>2. \A u \in Tasks : picked'[u] \subseteq picked[u]
                           /\ current'[u] = IF u = t THEN {e} ELSE current[u]
      BY <1>0, <2>1, <3>1
    <3>3. AllBelow'
      BY <3>2 DEF DueInv, AllBelow, Below
    <3>4. Cleared(e, SpikeRegime(t))
      BY <2>2, TakenCleared
    <3>5. AllCleared'
      <4> SUFFICES ASSUME NEW u \in Tasks, at'[u] \in {"simulate", "submit"}, NEW x \in current'[u]
                   PROVE  Cleared(x, SpikeRegime(u))
        BY <2>1 DEF AllCleared, Cleared, SpikeRegime
      <4>1. CASE u = t
        BY <3>2, <3>4, <4>1
      <4>2. CASE u # t
        BY <1>0, <3>1, <3>2, <4>2 DEF DueInv, AllCleared
      <4> QED BY <4>1, <4>2
    <3> QED BY <2>1, <3>3, <3>5, OffersKept
  <2>3. CASE ~PassesDebtGate(t, e)
    <3>1. at' = [at EXCEPT ![t] = "batch"] /\ current' = current
      BY <1>0, <1>6, <2>1, <2>3 DEF Take
    <3>2. \A u \in Tasks : picked'[u] \subseteq picked[u] /\ current'[u] \subseteq current[u]
      BY <1>0, <2>1, <3>1
    <3> QED BY <1>0, <2>1, <3>1, <3>2, HandedOn, OffersKept
  <2> QED BY <2>2, <2>3
<1>7. ASSUME NEW t \in Tasks, NEW step, NEW left, left \subseteq picked[t],
             NEW e, e \subseteq current[t], Proceed(t, step, left, e),
             step = "submit" => at[t] = "simulate", step # "simulate"
      PROVE  AllBelow' /\ AllCleared'
  <2>1. at' = [at EXCEPT ![t] = step] /\ UNCHANGED gas
    BY <1>7 DEF Proceed
  <2>2. \A u \in Tasks : picked'[u] \subseteq picked[u] /\ current'[u] \subseteq current[u]
    BY <1>0, <1>7 DEF Proceed
  <2> QED BY <1>0, <1>7, <2>1, <2>2, HandedOn
<1>8. ASSUME NEW t \in Tasks, Simulate(t) \/ OfferFails(t) \/ BatchDone(t) \/ Ended(t) PROVE Rest
  <2>1. /\ \/ at[t] = "simulate" /\ Proceed(t, "submit", picked[t], current[t])
           \/ Proceed(t, "batch", picked[t], {})
           \/ Proceed(t, "failed", {}, {})
           \/ Proceed(t, "ok", {}, {})
           \/ Proceed(t, "idle", {}, {})
        /\ UNCHANGED offers
    BY <1>8 DEF Simulate, OfferFails, BatchDone, Ended
  <2>2. {} \subseteq picked[t] /\ {} \subseteq current[t]
    OBVIOUS
  <2>3. AllBelow' /\ AllCleared'
    BY <1>7, <2>1, <2>2
  <2> QED BY <2>1, <2>3, OffersKept
<1>9. ASSUME NEW t \in Tasks, Offer(t) PROVE Rest
  <2>1. at[t] = "submit" /\ Proceed(t, "batch", picked[t], {})
    BY <1>9 DEF Offer
  <2>2. AllBelow' /\ AllCleared'
    BY <1>7, <2>1
  <2>3. offers' = [offers EXCEPT ![t] = {[e |-> x, spike |-> SpikeRegime(t)] : x \in current[t]}]
    BY <1>9 DEF Offer
  <2>4. OffersShape'
    BY <2>3 DEF DueInv, OffersShape
  <2>5. ASSUME NEW x \in current[t] PROVE Due([e |-> x, spike |-> SpikeRegime(t)])
    <3>1. Below(x.pos) /\ Cleared(x, SpikeRegime(t))
      BY <2>1 DEF DueInv, AllBelow, AllCleared
    <3> QED BY <3>1 DEF Due, Below, Cleared
  <2>6. \A u \in Tasks : \A o \in offers'[u] : Due(o)
    BY <2>3, <2>5 DEF DueInv, OffersShape, OffersAreDue
  <2> QED BY <2>2, <2>4, <2>6 DEF OffersAreDue, Due
<1> QED
  BY <1>1, <1>2, <1>3, <1>4, <1>5, <1>6, <1>8, <1>9 DEF Next, TaskStep, vars

\* What is submitted was due: its health factor comes from the amounts that are submitted and
\* from confirmed prices, lies below the widened threshold, and its debt clears gate 2
\* (liquidation.rs:132-241) -- for any number of tasks, whatever the stream, the poll, the
\* mempool and the other tasks write into the shared maps on the way.
THEOREM OffersDue == Spec => []OffersAreDue
<1>1. Init => DueInv
  BY DEF Init, IndexInit, DueInv, AllJudged, AllBelow, AllCleared, OffersAreDue, OffersShape
<1>2. StrategyTypeOK /\ CompositionInv /\ DueInv /\ [Next]_vars => DueInv'
  BY DueStep
<1>3. DueInv => OffersAreDue
  BY DEF DueInv
<1> QED BY <1>1, <1>2, <1>3, StrategyTypes, CompositionInvariant, PTL DEF Spec

-----------------------------------------------------------------------------
(* The fast loop.                                                          *)

\* A presign task works on nothing and submits nothing.
PresignOffersNothing ==
  \A t \in Tasks :
    kind[t] = "presign" => picked[t] = {} /\ current[t] = {} /\ offers[t] = {}

PresignInv ==
  /\ PresignOffersNothing
  /\ \A t \in Tasks :
       /\ at[t] = "idle" => picked[t] = {} /\ current[t] = {}
       /\ at[t] \in {"refresh", "select"} => kind[t] = "run"
  /\ kind \in [Tasks -> {"run", "presign"}]
  /\ OffersShape

\* One task moves, within its own kind, and is not given anything it did not hold.
LEMMA PresignFrame ==
  ASSUME PricedInv, PresignInv, NEW t \in Tasks, NEW step,
         at' = at \/ at' = [at EXCEPT ![t] = step],
         step \in {"refresh", "select"} => kind[t] = "run",
         UNCHANGED kind, OffersShape',
         \A u \in Tasks : /\ u # t => picked'[u] = picked[u] /\ current'[u] = current[u]
                                      /\ offers'[u] = offers[u]
                          /\ kind[u] = "presign" => /\ picked'[u] = {} /\ current'[u] = {}
                                                    /\ offers'[u] = {},
         at'[t] = "idle" => picked'[t] = {} /\ current'[t] = {}
  PROVE  PresignInv'
<1>1. \A u \in Tasks : at'[u] = at[u] \/ (u = t /\ at'[u] = step)
  BY DEF PricedInv, Shapes
<1>2. PresignOffersNothing'
  BY DEF PresignOffersNothing
<1>3. \A u \in Tasks : at'[u] = "idle" => picked'[u] = {} /\ current'[u] = {}
  BY <1>1 DEF PresignInv
<1>4. \A u \in Tasks : at'[u] \in {"refresh", "select"} => kind'[u] = "run"
  BY <1>1 DEF PresignInv
<1> QED BY <1>2, <1>3, <1>4 DEF PresignInv

LEMMA PresignBegins ==
  ASSUME PricedInv, PresignInv, NEW t \in Tasks, NEW k \in {"run", "presign"}, NEW step,
         Begin(t, k, step), step = IF k = "run" THEN "refresh" ELSE "presign"
  PROVE  PresignInv'
<1>1. /\ at[t] = "idle" /\ UNCHANGED <<picked, current>>
      /\ at' = [at EXCEPT ![t] = step] /\ kind' = [kind EXCEPT ![t] = k]
      /\ offers' = [offers EXCEPT ![t] = {}]
  BY DEF Begin
<1>2. picked[t] = {} /\ current[t] = {}
  BY <1>1 DEF PresignInv
<1>3. /\ \A u \in Tasks : kind'[u] = IF u = t THEN k ELSE kind[u]
      /\ \A u \in Tasks : offers'[u] = IF u = t THEN {} ELSE offers[u]
      /\ \A u \in Tasks : at'[u] = IF u = t THEN step ELSE at[u]
      /\ kind' \in [Tasks -> {"run", "presign"}] /\ OffersShape'
  BY <1>1 DEF PresignInv, PricedInv, Shapes, OffersShape
<1>4. PresignOffersNothing'
  BY <1>1, <1>2, <1>3 DEF PresignInv, PresignOffersNothing
<1>5. \A u \in Tasks : /\ at'[u] = "idle" => picked'[u] = {} /\ current'[u] = {}
                       /\ at'[u] \in {"refresh", "select"} => kind'[u] = "run"
  BY <1>1, <1>2, <1>3 DEF PresignInv
<1> QED BY <1>3, <1>4, <1>5 DEF PresignInv

LEMMA PresignStep ==
  ASSUME StrategyTypeOK, CompositionInv, PresignInv, [Next]_vars
  PROVE  PresignInv'
<1>0. /\ PricedInv /\ at \in [Tasks -> Steps] /\ OffersShape
      /\ picked = [t \in Tasks |-> picked[t]] /\ current = [t \in Tasks |-> current[t]]
      /\ \A u \in Tasks : kind[u] = "presign" =>
                           picked[u] = {} /\ current[u] = {} /\ offers[u] = {}
  BY DEF CompositionInv, PricedInv, Shapes, PresignInv, PresignOffersNothing
<1>1. CASE UNCHANGED <<at, locals>>
  BY <1>1 DEF PresignInv, PresignOffersNothing, OffersShape, locals
<1>2. ASSUME NEW t \in Tasks, SpawnRun(t) \/ SpawnPresign(t) PROVE PresignInv'
  BY <1>0, <1>2, PresignBegins DEF SpawnRun, SpawnPresign
<1>3. ASSUME NEW t \in Tasks, NEW k \in todo[t], Refresh(t, k) PROVE PresignInv'
  <2>1. UNCHANGED <<at, kind, picked, current, offers>>
    BY <1>3 DEF Refresh, Visit
  <2> QED BY <2>1 DEF PresignInv, PresignOffersNothing, OffersShape
<1>4. ASSUME NEW t \in Tasks, NEW k \in todo[t], Select(t, k) PROVE PresignInv'
  <2>1. at[t] = "select" /\ kind[t] = "run" /\ UNCHANGED <<at, kind, current, offers>>
    BY <1>4 DEF Select, Visit, PresignInv
  <2>2. \A u \in Tasks : u # t => picked'[u] = picked[u]
    BY <1>0, <1>4 DEF Select, Pick
  <2> QED BY <1>0, <2>1, <2>2, PresignFrame DEF OffersShape
<1>5. ASSUME NEW t \in Tasks, NEW k \in todo[t], PresignSelect(t, k) PROVE PresignInv'
  <2>1. k \in DOMAIN positions
    BY DEF CompositionInv, PricedInv, Shapes
  <2>2. UNCHANGED <<at, kind, picked, current, offers>>
    BY <1>5, <2>1, PresignBlind DEF PresignSelect, Visit, CompositionInv
  <2> QED BY <2>2 DEF PresignInv, PresignOffersNothing, OffersShape
<1>6. ASSUME NEW t \in Tasks, Refreshed(t) \/ Batch(t) PROVE PresignInv'
  <2>1. PICK step \in {"select", "batch"} :
          at' = [at EXCEPT ![t] = step] /\ (step = "select" => at[t] = "refresh")
    BY <1>6 DEF Refreshed, Batch
  <2>2. UNCHANGED <<kind, picked, current, offers>>
    BY <1>6 DEF Refreshed, Batch
  <2>3. step = "select" => kind[t] = "run"
    BY <2>1 DEF PresignInv
  <2>4. at'[t] # "idle"
    BY <1>0, <2>1
  <2> QED BY <1>0, <2>1, <2>2, <2>3, <2>4, PresignFrame DEF OffersShape
<1>7. ASSUME NEW t \in Tasks, NEW e \in picked[t], Take(t, e) PROVE PresignInv'
  <2>1. /\ at[t] = "batch" /\ picked' = [picked EXCEPT ![t] = @ \ {e}]
        /\ UNCHANGED <<kind, offers>>
        /\ \/ at' = [at EXCEPT ![t] = "simulate"] /\ current' = [current EXCEPT ![t] = {e}]
           \/ UNCHANGED <<at, current>>
    BY <1>7 DEF Take
  <2>2. kind[t] = "run"
    BY <1>0 DEF PresignInv
  <2>3. \A u \in Tasks : u # t => picked'[u] = picked[u] /\ current'[u] = current[u]
    BY <1>0, <2>1
  <2>4. at'[t] # "idle"
    BY <1>0, <2>1
  <2> QED BY <1>0, <2>1, <2>2, <2>3, <2>4, PresignFrame DEF OffersShape
<1>8. ASSUME NEW t \in Tasks,
             Simulate(t) \/ Offer(t) \/ OfferFails(t) \/ BatchDone(t) \/ Ended(t)
      PROVE  PresignInv'
  <2>1. PICK step \in {"submit", "batch", "failed", "ok", "idle"} :
          \E left \in {picked[t], {}}, e \in {current[t], {}} :
            Proceed(t, step, left, e) /\ (step = "idle" => left = {} /\ e = {})
    BY <1>8 DEF Simulate, Offer, OfferFails, BatchDone, Ended
  <2>2. PICK left \in {picked[t], {}}, e \in {current[t], {}} :
          Proceed(t, step, left, e) /\ (step = "idle" => left = {} /\ e = {})
    BY <2>1
  <2>3. /\ at' = [at EXCEPT ![t] = step] /\ UNCHANGED kind
        /\ picked' = [picked EXCEPT ![t] = left] /\ current' = [current EXCEPT ![t] = e]
    BY <2>2 DEF Proceed
  <2>4. \/ UNCHANGED offers
        \/ offers' = [offers EXCEPT ![t] = {[e |-> x, spike |-> SpikeRegime(t)] : x \in current[t]}]
    BY <1>8 DEF Simulate, Offer, OfferFails, BatchDone, Ended
  <2>5. /\ OffersShape' /\ \A u \in Tasks : u # t => offers'[u] = offers[u]
        /\ kind[t] = "presign" => offers'[t] = {}
    BY <1>0, <2>4 DEF OffersShape
  <2>6. \A u \in Tasks : /\ picked'[u] = IF u = t THEN left ELSE picked[u]
                         /\ current'[u] = IF u = t THEN e ELSE current[u]
    BY <1>0, <2>3
  <2>7. at'[t] = step
    BY <1>0, <2>3
  <2>8. kind[t] = "presign" => left = {} /\ e = {}
    BY <1>0
  <2>9. \A u \in Tasks :
          /\ u # t => picked'[u] = picked[u] /\ current'[u] = current[u] /\ offers'[u] = offers[u]
          /\ kind[u] = "presign" => picked'[u] = {} /\ current'[u] = {} /\ offers'[u] = {}
    BY <1>0, <2>5, <2>6, <2>8
  <2>10. at'[t] = "idle" => picked'[t] = {} /\ current'[t] = {}
    BY <2>2, <2>6, <2>7
  <2> QED BY <1>0, <2>3, <2>5, <2>9, <2>10, PresignFrame
<1> QED
  BY <1>1, <1>2, <1>3, <1>4, <1>5, <1>6, <1>7, <1>8 DEF Next, TaskStep, vars

\* The fast loop never submits anything: whatever price the mempool shows and however the
\* index, the market and the block's tasks interleave, a presign task finds nobody at risk,
\* for the pending prices are keyed by feed and the positions by token
\* (liquidation.rs:107-130, position_indexer.rs:281-288, mempool_monitor.rs:169-185).
THEOREM PresignIsIdle == Spec => []PresignOffersNothing
<1>1. Init => PresignInv
  BY DEF Init, PresignInv, PresignOffersNothing, OffersShape
<1>2. StrategyTypeOK /\ CompositionInv /\ PresignInv /\ [Next]_vars => PresignInv'
  BY PresignStep
<1>3. PresignInv => PresignOffersNothing
  BY DEF PresignInv
<1> QED BY <1>1, <1>2, <1>3, StrategyTypes, CompositionInvariant, PTL DEF Spec
=============================================================================
