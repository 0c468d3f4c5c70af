---------------------------- MODULE PositionIndexer ----------------------------
(***************************************************************************)
(* bot/src/shared/position_indexer.rs: the map of loans.  At boot it is    *)
(* filled from the logs of past blocks, chunk by chunk; then a stream of   *)
(* new logs keeps it up to date while strategy tasks compute health        *)
(* factors in it.                                                          *)
(*                                                                         *)
(* The blocks of a chunk get their logs when they are asked for: what the  *)
(* chain holds matters only from then on.                                  *)
(***************************************************************************)
EXTENDS Integers, FiniteSets

CONSTANTS
  Borrowers,     \* accounts
  DebtAssets,    \* reserves that are borrowed
  Candidates,    \* the collateral tokens that are looked up
  DebtAmounts,   \* amounts borrowed
  CollAmounts,   \* balances of collateral
  FromBlock,     \* bootstrap_from_block
  Heads,         \* heads of the chain when the engine may boot
  ChunkSize,     \* 10000
  BatchLimit,    \* accounts looked up per chunk (50)
  MaxHf,         \* f64::MAX, in thousandths: no such position is ever selected
  LastBlock,     \* bound: last block
  AaveBlocks,    \* bound: blocks that may hold an Aave borrow
  MorphoBlocks,  \* bound: blocks that may hold a supply of collateral to Morpho
  NoAsset        \* Address::zero()

ASSUME IndexerAssumption ==
  /\ IsFiniteSet(Borrowers)
  /\ NoAsset \notin DebtAssets \union Candidates
  /\ DebtAmounts \union CollAmounts \subseteq Nat \ {0}
  /\ FromBlock \in Nat /\ ChunkSize \in Nat \ {0} /\ BatchLimit \in Nat
  /\ LastBlock \in Nat /\ MaxHf \in Nat
  /\ Heads \subseteq FromBlock..LastBlock

VARIABLES
  positions,   \* key -> BorrowPosition, for the keys indexed so far
  phase,       \* the scan's next step, or "live"
  start,       \* local of bootstrap: first block of the chunk
  cursor,      \* the block whose logs are being processed
  head,        \* the block the engine booted at
  visits       \* history: how often the scan came to each block, per protocol

indexVars == <<positions, phase, start, cursor, head, visits>>

Blocks    == FromBlock..LastBlock
\* the protocols that are indexed: the four others have no log filter
Protocols == {"Aave", "Morpho"}
IndexKeys == Borrowers \X Protocols
Protocol(k) == k[2]

LiqThreshold == 825         \* aave_ltv_liq_threshold, the same for every asset

\* a mistake: the amount of the log goes into the wrong field
AmountAsCollateral(asset, amount, b) ==
  [coll |-> NoAsset, debt |-> asset, coll_amount |-> amount, debt_amount |-> 0,
   hf |-> MaxHf, block |-> b]

\* process_aave_borrow_log: the collateral is looked up later
AavePosition(asset, amount, b) ==
  [coll |-> NoAsset, debt |-> asset, coll_amount |-> 0, debt_amount |-> amount,
   hf |-> MaxHf, block |-> b]
\* process_morpho_supply_collateral_log: neither asset is decoded
MorphoPosition(amount, b) ==
  [coll |-> NoAsset, debt |-> NoAsset, coll_amount |-> amount, debt_amount |-> 0,
   hf |-> MaxHf, block |-> b]

\* what a log of protocol p in block b can make of the key it names
Logged(p, b) ==
  IF p = "Aave"
  THEN {pos \in {AavePosition(a, n, b) : a \in DebtAssets, n \in DebtAmounts} : b \in AaveBlocks}
  ELSE {pos \in {MorphoPosition(n, b) : n \in CollAmounts} : b \in MorphoBlocks}

\* a mistake: the entry is updated in place, and keeps the health factor it had
UpdatedInPlace(map, k, pos) ==
  [x \in DOMAIN map \union {k} |->
     IF x # k THEN map[x]
     ELSE IF k \in DOMAIN map THEN [pos EXCEPT !.hf = map[k].hf] ELSE pos]

Inserted(map, k, pos) ==
  [x \in DOMAIN map \union {k} |-> IF x = k THEN pos ELSE map[x]]

IndexInit ==
  /\ positions = <<>>
  /\ phase = "chunk"
  /\ start = FromBlock
  /\ cursor = FromBlock
  /\ head \in Heads
  /\ visits = [p \in Protocols |-> [b \in Blocks |-> 0]]

-----------------------------------------------------------------------------
(* Mistakes the properties must notice.                                    *)

UncappedChunkEnd == start + ChunkSize
FullChunksOnly   == start + ChunkSize < head
ReplayedBlocks   == FromBlock..LastBlock

-----------------------------------------------------------------------------
(* bootstrap: scan_block_range for one chunk after the other.  Nothing     *)
(* else runs on the map meanwhile.                                         *)

ChunkEnd == IF start + ChunkSize < head THEN start + ChunkSize ELSE head

\* while start < to_block
MoreToScan == start < head

NextChunk ==
  /\ phase = "chunk"
  /\ phase' = IF MoreToScan THEN "fetchAave" ELSE "live"
  /\ cursor' = IF MoreToScan THEN start ELSE head
  /\ UNCHANGED <<positions, start, head, visits>>

Fetching(p) == IF p = "Aave" THEN "fetchAave" ELSE "fetchMorpho"
Reading(p)  == IF p = "Aave" THEN "readAave"  ELSE "readMorpho"
After(p)    == IF p = "Aave" THEN "fetchMorpho" ELSE "lookup"

FetchLogs(p) ==
  /\ phase = Fetching(p)
  /\ phase' = Reading(p)
  /\ cursor' = start
  /\ UNCHANGED <<positions, start, head, visits>>

Visited(p, range) ==
  [visits EXCEPT ![p] = [b \in Blocks |-> @[b] + IF b \in range THEN 1 ELSE 0]]

\* get_logs failed: the error is dropped, and the chunk goes on without its logs
FetchFails(p) ==
  /\ phase = Fetching(p)
  /\ phase' = After(p)
  /\ visits' = Visited(p, start..ChunkEnd)
  /\ UNCHANGED <<positions, start, cursor, head>>

\* bound: one log of a protocol per block
ReadBlock(p) ==
  /\ phase = Reading(p)
  /\ phase' = IF cursor < ChunkEnd THEN phase ELSE After(p)
  /\ cursor' = cursor + 1
  /\ visits' = Visited(p, {cursor})
  /\ \/ \E who \in Borrowers, pos \in Logged(p, cursor) :
          positions' = Inserted(positions, <<who, p>>, pos)
     \/ UNCHANGED positions
  /\ UNCHANGED <<start, head>>

\* the Aave accounts without collateral, in the order of the map: any order
Missing == {k \in DOMAIN positions : Protocol(k) = "Aave" /\ positions[k].coll = NoAsset}
Batches ==
  {keys \in SUBSET Missing :
     \/ keys = Missing /\ Cardinality(keys) <= BatchLimit
     \/ keys # Missing /\ Cardinality(keys) = BatchLimit}

\* populate_aave_collateral_assets: the candidate with the largest balance, or none when
\* there is none or the calls fail
Holdings == [coll : Candidates, coll_amount : CollAmounts] \union {[coll |-> NoAsset]}

WithHolding(pos, h) ==
  IF h.coll = NoAsset THEN pos
  ELSE [pos EXCEPT !.coll = h.coll, !.coll_amount = h.coll_amount]

Lookup ==
  /\ phase = "lookup"
  /\ phase' = "chunk"
  /\ start' = ChunkEnd + 1
  /\ \E keys \in Batches : \E found \in [keys -> Holdings] :
       positions' = [k \in DOMAIN positions |->
                       IF k \in keys THEN WithHolding(positions[k], found[k])
                                     ELSE positions[k]]
  /\ UNCHANGED <<cursor, head, visits>>

ScanStep ==
  \/ NextChunk
  \/ \E p \in Protocols : FetchLogs(p)
  \/ \E p \in Protocols : FetchFails(p)
  \/ \E p \in Protocols : ReadBlock(p)
  \/ Lookup

-----------------------------------------------------------------------------
(* watch_live.  The filter is installed after the scan: the blocks between *)
(* head and that moment are in neither.                                    *)

StreamBlocks == (cursor + 1)..LastBlock

LiveLog(p) ==
  /\ phase = "live"
  /\ \E b \in StreamBlocks, who \in Borrowers : \E pos \in Logged(p, b) :
       /\ positions' = Inserted(positions, <<who, p>>, pos)
       /\ cursor' = b
  /\ UNCHANGED <<phase, start, head, visits>>

-----------------------------------------------------------------------------
(* What strategy tasks do with the map, one key at a time: DashMap locks   *)
(* no more than that.                                                      *)

\* compute_hf, in thousandths; without both prices a position is not judged
Priced(pos, px) == pos.coll \in DOMAIN px /\ pos.debt \in DOMAIN px

ComputeHf(pos, px) ==
  IF Priced(pos, px)
  THEN (px[pos.coll] * pos.coll_amount * LiqThreshold) \div (px[pos.debt] * pos.debt_amount)
  ELSE MaxHf

\* refresh_health_factors: one entry of the iteration
RefreshKey(k, px) ==
  /\ positions' = [positions EXCEPT ![k].hf = ComputeHf(positions[k], px)]
  /\ UNCHANGED <<phase, start, cursor, head, visits>>

-----------------------------------------------------------------------------
IndexNext == ScanStep \/ \E p \in Protocols : LiveLog(p)

IndexSpec == IndexInit /\ [][IndexNext]_indexVars

-----------------------------------------------------------------------------
(* Properties.                                                             *)

PositionType ==
  [coll : Candidates \union {NoAsset}, debt : DebtAssets \union {NoAsset},
   coll_amount : Nat, debt_amount : Nat, hf : Nat, block : Blocks]

\* Types of the index (position_indexer.rs:18-82); a borrower's debt is never zero.
IndexTypeOK ==
  /\ DOMAIN positions \subseteq IndexKeys
  /\ \A k \in DOMAIN positions :
       /\ positions[k] \in PositionType
       /\ Protocol(k) = "Aave" => positions[k].debt_amount \in DebtAmounts
  /\ phase \in {"chunk", "fetchAave", "readAave", "fetchMorpho", "readMorpho", "lookup", "live"}
  /\ start \in Nat /\ cursor \in Nat /\ head \in Heads
  /\ visits \in [Protocols -> [Blocks -> Nat]]

\* Between two chunks the scan has been at every block before it exactly once, at none
\* beyond, and never beyond the head it booted at (position_indexer.rs:90-103: end is
\* inclusive, the next chunk starts at end + 1, the last one is cut off).
ScanTiles ==
  phase \in {"chunk", "live"} =>
    \A p \in Protocols, b \in Blocks :
      visits[p][b] = IF b < start /\ b <= head THEN 1 ELSE 0

\* When the scan ends, at most the head itself is left out: it is, when the last chunk
\* would consist of it alone (position_indexer.rs:94).
ScanReachesHead ==
  phase = "live" =>
    \A p \in Protocols, b \in FromBlock..(head - 1) : visits[p][b] = 1

\* An entry is only ever replaced by a newer event of the same account
\* (position_indexer.rs:97-150, 246-251: chunks, then blocks of a chunk, then the stream).
NewestEventWins ==
  [][\A k \in DOMAIN positions :
       /\ k \in DOMAIN positions'
       /\ positions'[k].block >= positions[k].block]_indexVars

\* position_indexer.rs:7-8 says that collateral_asset is populated (it "was always
\* Address::zero(), preventing any liquidation from firing").  Once it is, it stays.
ResolvedStaysResolved ==
  [][\A k \in DOMAIN positions :
       phase = "live" /\ positions[k].coll # NoAsset => positions'[k].coll # NoAsset]_indexVars

=============================================================================
