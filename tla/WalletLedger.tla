------------------------------ MODULE WalletLedger ------------------------------
(***************************************************************************)
(* What SubmissionPipeline promises its callers: of every call at most one *)
(* transaction is ever included, however often it was signed and           *)
(* broadcast, and whatever restarts and relays did to it; the wallet's     *)
(* nonces are used up one by one, by its calls or from outside.            *)
(***************************************************************************)
EXTENDS Naturals

VARIABLES
  made,      \* calls so far
  height,    \* the next nonce the chain takes
  entries    \* the calls that were included, each with its nonce

ledgerVars == <<made, height, entries>>

Init == made = 0 /\ height = 0 /\ entries = {}

Call == made' = made + 1 /\ UNCHANGED <<height, entries>>

Include(job) ==
  /\ \A e \in entries : e.job # job
  /\ entries' = entries \union {[job |-> job, nonce |-> height]}
  /\ height' = height + 1
  /\ UNCHANGED made

\* somebody else spends the nonce
Outside == height' = height + 1 /\ UNCHANGED <<made, entries>>

Next == Call \/ (\E job \in 0..(made - 1) : Include(job)) \/ Outside

Spec == Init /\ [][Next]_ledgerVars
=============================================================================
