----------------------------- MODULE ExecutorBase -----------------------------
(***************************************************************************)
(* contracts/src/ExecutorBase.sol: who may call, what is whitelisted, and  *)
(* the 24 hour timelock on the executor key.  An owner call that reverts   *)
(* changes nothing and is not a step.                                      *)
(***************************************************************************)
EXTENDS Naturals

CONSTANTS
  Keys,       \* addresses the owner may propose as executor
  FirstKey,   \* the executor given to the constructor
  Protocols,  \* lending pools a call may name
  Routers,    \* DEX routers a call may name
  Vaults,     \* flash vaults the owner may list
  Listable,   \* bound: the protocols and routers the owner lists and unlists
  NoKey,      \* address(0)
  Delay,      \* 24 hours
  MaxTime     \* bound: block.timestamp

ASSUME BaseAssumption ==
  /\ FirstKey \in Keys
  /\ NoKey \notin Keys
  /\ Listable \subseteq Protocols \union Routers
  /\ Delay \in Nat
  /\ MaxTime \in Nat

VARIABLES
  paused,
  executor,
  pendingExecutor,
  executorChangeETA,
  allowedProtocols,
  allowedRouters,
  allowedFlashVaults,  \* written by its setter and read by nobody
  now,                 \* block.timestamp
  pendingSince         \* history: when pendingExecutor became what it is

lists    == <<allowedProtocols, allowedRouters, allowedFlashVaults>>
timelock == <<executor, pendingExecutor, executorChangeETA, pendingSince>>
baseVars == <<paused, executor, pendingExecutor, executorChangeETA, allowedProtocols,
              allowedRouters, allowedFlashVaults, now, pendingSince>>

\* the constructors of ExecutorBase and FlashExecutor; the protocols listed are the
\* constants of FlashExecutor, given here as a parameter
BaseInit(listed) ==
  /\ paused = FALSE
  /\ executor = FirstKey
  /\ pendingExecutor = NoKey
  /\ executorChangeETA = 0
  /\ allowedProtocols = listed
  /\ allowedRouters = {}
  /\ allowedFlashVaults = Vaults
  /\ now = 0
  /\ pendingSince = 0

-----------------------------------------------------------------------------
(* A mistake the properties must notice.                                   *)

EtaOfFirstProposal == IF pendingExecutor = NoKey THEN now + Delay ELSE executorChangeETA

-----------------------------------------------------------------------------
(* Calls of the owner.                                                     *)

SetPaused ==
  /\ paused' = ~paused
  /\ UNCHANGED <<timelock, lists, now>>

\* every proposal, also of the key that is pending already, starts the clock again
NewEta == now + Delay

ProposeExecutor(key) ==
  /\ pendingExecutor' = key
  /\ executorChangeETA' = NewEta
  /\ pendingSince' = IF key = pendingExecutor THEN pendingSince ELSE now
  /\ UNCHANGED <<executor, paused, lists, now>>

AcceptExecutor ==
  /\ pendingExecutor # NoKey
  /\ now >= executorChangeETA
  /\ executor' = pendingExecutor
  /\ pendingExecutor' = NoKey
  /\ executorChangeETA' = 0
  /\ UNCHANGED <<pendingSince, paused, lists, now>>

\* list or unlist
Toggle(set, x) == IF x \in set THEN set \ {x} ELSE set \union {x}

SetProtocolWhitelisted(p) ==
  /\ allowedProtocols' = Toggle(allowedProtocols, p)
  /\ UNCHANGED <<allowedRouters, allowedFlashVaults, paused, timelock, now>>

SetRouterWhitelisted(r) ==
  /\ allowedRouters' = Toggle(allowedRouters, r)
  /\ UNCHANGED <<allowedProtocols, allowedFlashVaults, paused, timelock, now>>

SetFlashVaultWhitelisted(v) ==
  /\ allowedFlashVaults' = Toggle(allowedFlashVaults, v)
  /\ UNCHANGED <<allowedProtocols, allowedRouters, paused, timelock, now>>

\* a block with a later timestamp
Tick ==
  /\ now < MaxTime
  /\ now' = now + 1
  /\ UNCHANGED <<paused, timelock, lists>>

BaseNext ==
  \/ SetPaused
  \/ \E key \in Keys : ProposeExecutor(key)
  \/ AcceptExecutor
  \/ \E p \in Protocols \intersect Listable : SetProtocolWhitelisted(p)
  \/ \E r \in Routers \intersect Listable : SetRouterWhitelisted(r)
  \/ \E v \in Vaults : SetFlashVaultWhitelisted(v)
  \/ Tick

BaseSpec == BaseInit(Protocols) /\ [][BaseNext]_baseVars

-----------------------------------------------------------------------------
(* Properties.                                                             *)

BaseTypes ==
  /\ paused \in BOOLEAN
  /\ executor \in Keys
  /\ pendingExecutor \in Keys \union {NoKey}
  /\ executorChangeETA \in Nat
  /\ allowedProtocols \subseteq Protocols
  /\ allowedRouters \subseteq Routers
  /\ allowedFlashVaults \subseteq Vaults
  /\ now \in Nat
  /\ pendingSince \in 0..now

\* The executor key only ever changes to a key that has been pending, without a break,
\* for the whole delay: replacing a proposal that is about to mature buys no time.
TimelockRespected ==
  [][executor' # executor => /\ executor' = pendingExecutor
                             /\ now >= pendingSince + Delay]_baseVars

\* what makes it so: the ETA of a pending key lies a full delay after it became pending
EtaInv == pendingExecutor # NoKey => executorChangeETA >= pendingSince + Delay
=============================================================================
