------------------------------- MODULE BlockLoop -------------------------------
(***************************************************************************)
(* bot/src/main.rs: boot, the confirmed-block loop, the strategy task it   *)
(* spawns for every block, and SIGINT.  One life of the process.           *)
(*                                                                         *)
(* Boot is everything before the loop, and may end main.  The loop         *)
(* alternates between select! (the next block or the shutdown              *)
(* notification), the body, and waiting for the task it spawned.  It waits *)
(* 900 ms at most: a task that is not done by then is detached and goes on *)
(* running beside the task of the next block.                              *)
(***************************************************************************)
EXTENDS ChainBreaker

VARIABLES
  loop,      \* where main is
  awaited,   \* the tasks whose JoinHandle the loop is waiting on: at most one
  shutdown   \* the one-shot ctrl_c task and the Notify it wakes

loopVars == <<loop, awaited, shutdown>>
vars == <<reverts, consec, loss, at, cost, count_tripped, loop, awaited, shutdown>>

LoopSteps == {"config", "boot", "select", "body", "wait", "done"}

\* "notified" lives only as long as the Notified future of this select!
Signals == {"armed", "notified", "lost"}

Init ==
  /\ BreakerInit
  /\ loop = "config"
  /\ awaited = {}
  /\ shutdown = "armed"

-----------------------------------------------------------------------------
(* Mistakes the properties must notice.                                    *)

NoTimeout  == FALSE
HandleKept == awaited

-----------------------------------------------------------------------------
(* Boot.                                                                   *)

\* configuration and market registry; at the end the ctrl_c task takes SIGINT over
Configured ==
  /\ loop = "config"
  /\ loop' = "boot"
  /\ UNCHANGED <<breakerVars, awaited, shutdown>>

\* node, oracles, pools and the position scan, then the watchers and the block stream
Booted ==
  /\ loop = "boot"
  /\ loop' = "select"
  /\ UNCHANGED <<breakerVars, awaited, shutdown>>

\* no chain, a safety margin below one, an address that does not parse
ConfigRefused ==
  /\ loop = "config"
  /\ loop' = "done"
  /\ UNCHANGED <<breakerVars, awaited, shutdown>>

\* a key, an address or an RPC call; the markets are all Chainlink-priced and never refused
BootFails ==
  /\ loop = "boot"
  /\ loop' = "done"
  /\ UNCHANGED <<breakerVars, awaited, shutdown>>

-----------------------------------------------------------------------------
(* select!                                                                 *)

\* before the ctrl_c task the signal kills the process; after that notify_waiters wakes
\* the futures that exist, which is only while the loop is in select!
Interrupt ==
  /\ shutdown = "armed"
  /\ loop # "done"
  /\ shutdown' = IF loop \in {"config", "select"} THEN "notified" ELSE "lost"
  /\ loop' = IF loop = "config" THEN "done" ELSE loop
  /\ UNCHANGED <<breakerVars, awaited>>

Shutdown ==
  /\ loop = "select"
  /\ shutdown = "notified"
  /\ loop' = "done"
  /\ UNCHANGED <<breakerVars, awaited, shutdown>>

\* both branches may be ready and select! picks either; the losing future is dropped
BlockArrives ==
  /\ loop = "select"
  /\ \E t \in Tasks : at[t] = "idle"
  /\ loop' = "body"
  /\ shutdown' = IF shutdown = "notified" THEN "lost" ELSE shutdown
  /\ UNCHANGED <<breakerVars, awaited>>

StreamEnds ==
  /\ loop = "select"
  /\ loop' = "done"
  /\ UNCHANGED <<breakerVars, awaited, shutdown>>

-----------------------------------------------------------------------------
(* The body and the wait.                                                  *)

\* gas, pools, nonce and prices are brought up to date, then the task is spawned; none
\* of them ends the loop, reload_sequential having no error to return
SpawnTask(t) ==
  /\ loop = "body"
  /\ Move(t, "idle", "count")
  /\ loop' = "wait"
  /\ awaited' = {t}
  /\ UNCHANGED <<breaker, locals, shutdown>>

AwaitedAfter == {}

LeaveWait ==
  /\ loop = "wait"
  /\ loop' = "select"
  /\ awaited' = AwaitedAfter
  /\ UNCHANGED <<breakerVars, shutdown>>

Joined == LeaveWait /\ \A t \in awaited : at[t] = "idle"

\* 900 ms are over: the handle is dropped and the task goes on by itself
TimedOut == LeaveWait

\* main returning drops the runtime, and every task with it
RunTask(t) ==
  /\ loop # "done"
  /\ TaskStep(t)
  /\ UNCHANGED loopVars

Next ==
  \/ Configured \/ ConfigRefused \/ Booted \/ BootFails
  \/ Interrupt \/ Shutdown \/ BlockArrives \/ StreamEnds
  \/ \E t \in Tasks : SpawnTask(t) \/ RunTask(t)
  \/ Joined \/ TimedOut

\* The timer fires and an idle loop is polled: the runtime sees to both.  Nothing is
\* assumed of a task or of the body, whose RPC calls have no timeout.
Fairness ==
  /\ WF_vars(Joined \/ TimedOut)
  /\ WF_vars(Shutdown)

Spec == Init /\ [][Next]_vars /\ Fairness

-----------------------------------------------------------------------------
(* Properties.                                                             *)

\* Types, and the loop holds the handle of exactly one task while it waits and of none
\* otherwise.
TypeOK ==
  /\ BreakerTypes
  /\ loop \in LoopSteps
  /\ shutdown \in Signals
  /\ IF loop = "wait" THEN \E t \in Tasks : awaited = {t} ELSE awaited = {}

\* A task that never finishes holds the loop up for one timeout only: the loop always
\* comes back to the next block.
LoopNotWedged == (loop = "wait") ~> (loop = "select")

\* main.rs:142 "SIGINT received - initiating graceful shutdown": a received SIGINT ends
\* a loop that keeps coming back to select!.
ShutdownHonoured ==
  []<>(loop = "select") => ((shutdown # "armed") ~> (loop = "done"))
=============================================================================
