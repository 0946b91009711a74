----------------------------- MODULE EventScan -----------------------------
(***************************************************************************)
(* Where pool events come from: Ingestor::scan_active_blocks               *)
(* (indexerd/src/ingest.rs) over RpcClient::call (indexerd/src/rpc.rs).    *)
(* The scan never presents a continuation token: it narrows its window     *)
(* until every answer is a single page.  The client retries, backs off and *)
(* moves between two endpoints under budgets of its own.  Storage proofs   *)
(* (RpcClient::get_storage_proof) are asked for beside the scan, of the    *)
(* same endpoints and on the same failure counter.                         *)
(*                                                                         *)
(* An event is counted, not described: the blocks have so many.            *)
(***************************************************************************)
EXTENDS Integers, Sequences, FiniteSetsExt

CONSTANTS
  MaxBlock,           \* the scan covers 1..MaxBlock
  Counts,             \* numbers of events a block may have
  Requested,          \* --chunk-size
  Limits,             \* page limits an endpoint may have
  MaxWindow,          \* MAX_SCAN_WINDOW
  TransportAttempts,  \* TRANSPORT_ATTEMPTS
  FailoverAfter,      \* FAILOVER_AFTER
  ThrottleRetries,    \* THROTTLE_RETRIES
  CapabilityRetries,  \* CAPABILITY_RETRIES
  ProofAttempts,      \* PROOF_TRANSPORT_ATTEMPTS
  ProofRetries,       \* PROOF_RETRIES
  MaxShort,           \* bound: answers cut short for another reason than their size
  MaxProofs           \* bound: storage proofs asked for beside the scan

VARIABLES
  total,       \* events in the blocks up to each height
  limit,       \* page limit of the endpoints
  health,      \* what each endpoint does: it answers, or how it fails
  active,      \* RpcClient.active
  fails,       \* RpcClient.consecutive_failures
  call,        \* the getEvents call in progress: its budgets
  cursor,
  window,
  pageCap,
  again,       \* rerequested
  got,         \* by_block
  pc,          \* "scan", "done", or how the scan failed
  short,
  provers,     \* endpoints that serve storage proofs
  served,      \* endpoints with proofs_served > 0
  denied,      \* endpoints with proofs_denied > 0
  query,       \* the storage proof being asked for
  proofs,      \* proofs asked for so far
  disturbed    \* history: an answer to a proof has cleared failures of the scan

rpcVars   == <<active, fails, call>>
scanVars  == <<cursor, window, pageCap, again, got, pc, short>>
proofVars == <<served, denied, query, proofs, disturbed>>
given     == <<total, limit, health, provers>>
vars == <<given, rpcVars, scanVars, proofVars>>

ASSUME ScanAssumption ==
  /\ MaxBlock \in Nat \ {0} /\ Counts \subseteq Nat /\ Counts # {} /\ Requested \in Nat \ {0}
  /\ Limits \subseteq Nat \ {0} /\ MaxWindow \in Nat \ {0}
  /\ FailoverAfter \in Nat \ {0} /\ TransportAttempts \in Nat
  /\ TransportAttempts > FailoverAfter
  /\ ThrottleRetries \in Nat /\ CapabilityRetries \in Nat
  /\ ProofAttempts \in Nat \ {0} /\ ProofRetries \in Nat \ {0}
  /\ MaxShort \in Nat /\ MaxProofs \in Nat

Blocks == 1..MaxBlock
events == [b \in Blocks |-> total[b] - total[b - 1]]
Endpoints == {0, 1}
Other(e) == 1 - e
Budgets(route) ==
  [route |-> route, transport |-> TransportAttempts, throttle |-> ThrottleRetries,
   capability |-> CapabilityRetries, escalated |-> FALSE]
\* The route of a call that follows the active endpoint; else the endpoint itself.
Failover == 2
Fresh == Budgets(Failover)
\* One endpoint asked for a proof, the first of those left to ask.
Asking(order, refusals) ==
  [order |-> order, refusals |-> refusals, transport |-> ProofAttempts,
   throttle |-> ThrottleRetries, capability |-> CapabilityRetries, out |-> "asking"]
Asked(out) == [Asking(<<>>, 0) EXCEPT !.out = out]

Init ==
  /\ total \in [0..MaxBlock -> 0..(MaxBlock * Max(Counts))]
  /\ total[0] = 0 /\ \A b \in Blocks : events[b] \in Counts
  /\ limit \in Limits
  /\ health \in [Endpoints -> {"up", "dead", "throttled", "pruned"}]
  /\ active = 0 /\ fails = 0 /\ call = Fresh
  /\ cursor = 1 /\ window = Min({MaxBlock, MaxWindow}) /\ pageCap = Requested /\ again = FALSE
  /\ got = [b \in Blocks |-> 0]
  /\ pc = "scan" /\ short = 0
  /\ provers \in SUBSET Endpoints
  /\ served = {} /\ denied = {} /\ query = Asked("idle") /\ proofs = 0 /\ disturbed = FALSE
-----------------------------------------------------------------------------
(***************************************************************************)
(* RpcClient::call_at, one answer of the endpoint at a time.               *)
(***************************************************************************)
Endpoint == IF call.route = Failover THEN active ELSE call.route
Elsewhere ==
  UNCHANGED <<given, cursor, window, pageCap, again, got, short, proofVars>>
GiveUp == pc' = "exhausted" /\ UNCHANGED call
\* A failure on the shared counter: the fifth in a row moves every call.
CountFailure ==
  /\ active' = IF fails + 1 >= FailoverAfter THEN Other(active) ELSE active
  /\ fails' = IF fails + 1 >= FailoverAfter THEN 0 ELSE fails + 1
TransportFails ==
  /\ pc = "scan" /\ health[Endpoint] = "dead"
  /\ IF call.route = Failover THEN CountFailure ELSE UNCHANGED <<active, fails>>
  /\ IF call.transport = 1 THEN GiveUp
     ELSE call' = [call EXCEPT !.transport = @ - 1] /\ UNCHANGED pc
  /\ Elsewhere

(***************************************************************************)
(* HTTP 429: backed off in place; once the budget is spent the call moves  *)
(* to the other endpoint, once.                                            *)
(***************************************************************************)
\* Mutant: a throttled endpoint is never left.
EscalatesNever == FALSE
Escalates == call.route = Failover /\ ~call.escalated
Throttled ==
  /\ pc = "scan" /\ health[Endpoint] = "throttled"
  /\ IF call.throttle > 0
     THEN call' = [call EXCEPT !.throttle = @ - 1] /\ UNCHANGED <<active, pc>>
     ELSE IF Escalates
     THEN /\ active' = Other(active)
          /\ call' = [call EXCEPT !.throttle = ThrottleRetries, !.escalated = TRUE]
          /\ UNCHANGED pc
     ELSE GiveUp /\ UNCHANGED active
  /\ UNCHANGED fails /\ Elsewhere

(***************************************************************************)
(* History the endpoint no longer has: call asks the other one, without    *)
(* moving the active endpoint; that one is asked again within a budget.    *)
(***************************************************************************)
Pruned ==
  /\ pc = "scan" /\ health[Endpoint] = "pruned"
  /\ fails' = 0
  /\ IF call.route = Failover THEN call' = Budgets(Other(active)) /\ UNCHANGED pc
     ELSE IF call.capability > 0 THEN call' = [call EXCEPT !.capability = @ - 1] /\ UNCHANGED pc
     ELSE pc' = "pruned" /\ UNCHANGED call
  /\ UNCHANGED active /\ Elsewhere

(***************************************************************************)
(* get_storage_proof, for verify-root or the proof broker: an endpoint     *)
(* that has served one is asked first, one that has only refused last.     *)
(* Nothing of it moves the active endpoint, but an answer clears the       *)
(* shared counter.                                                         *)
(***************************************************************************)
Rank(e) == IF e \in served THEN 0 ELSE IF e \in denied THEN 2 ELSE 1
ProofOrder ==
  IF Rank(Other(active)) < Rank(active) THEN <<Other(active), active>> ELSE <<active, Other(active)>>
AskProof ==
  /\ query.out # "asking" /\ proofs < MaxProofs /\ proofs' = proofs + 1
  /\ query' = Asking(ProofOrder, 0)
  /\ UNCHANGED <<given, rpcVars, scanVars, served, denied, disturbed>>

Asks(what) == query.out = "asking" /\ health[Head(query.order)] = what
Answered == fails' = 0 /\ disturbed' = (disturbed \/ fails > 0)
\* Mutant: an endpoint that cannot be reached ends the search.
NextCandidateNone == query' = Asked("unavailable")
NextCandidate ==
  query' = IF Len(query.order) = 1 THEN Asked("unavailable") ELSE Asking(Tail(query.order), 0)

ProofServed ==
  /\ Asks("up") /\ Head(query.order) \in provers
  /\ Answered /\ served' = served \cup {Head(query.order)} /\ query' = Asked("served")
  /\ UNCHANGED <<given, active, call, scanVars, denied, proofs>>
ProofRefused ==
  /\ Asks("up") /\ Head(query.order) \notin provers
  /\ Answered /\ denied' = denied \cup {Head(query.order)}
  /\ IF query.refusals + 1 >= ProofRetries THEN NextCandidate
     ELSE query' = Asking(query.order, query.refusals + 1)
  /\ UNCHANGED <<given, active, call, scanVars, served, proofs>>
\* Pruned history is neither a refusal nor exhaustion: it ends the search.
ProofPruned ==
  /\ Asks("pruned") /\ Answered
  /\ query' = IF query.capability > 0 THEN [query EXCEPT !.capability = @ - 1] ELSE Asked("failed")
  /\ UNCHANGED <<given, active, call, scanVars, served, denied, proofs>>
ProofUnreachable ==
  /\ \/ Asks("dead") /\ query.transport > 1 /\ query' = [query EXCEPT !.transport = @ - 1]
     \/ Asks("throttled") /\ query.throttle > 0 /\ query' = [query EXCEPT !.throttle = @ - 1]
     \/ Asks("dead") /\ query.transport = 1 /\ NextCandidate
     \/ Asks("throttled") /\ query.throttle = 0 /\ NextCandidate
  /\ UNCHANGED <<given, rpcVars, scanVars, served, denied, proofs, disturbed>>
-----------------------------------------------------------------------------
(***************************************************************************)
(* What getEvents answers for the window: all of it, or, with a token, a   *)
(* page cut at the limit or for another reason.  An answer may carry       *)
(* events from outside of the window.                                      *)
(***************************************************************************)
End == Min({cursor + window - 1, MaxBlock})
InWindow == cursor..End
EventsInWindow == total[End] - total[cursor - 1]
PageSize == Min({Requested, limit})
Whole == EventsInWindow <= PageSize

(***************************************************************************)
(* A page without a token covers its window: its events are kept, and the  *)
(* next window is as long as would fill three quarters of a page.          *)
(***************************************************************************)
NextWindowLen(len, seen) ==
  LET ceiling == Max({len * 8, 1})
      target  == IF seen = 0 THEN ceiling ELSE (len * pageCap * 3) \div Max({seen * 4, 1})
  IN  Min({Max({1, Min({target, ceiling})}), MaxWindow})
\* Mutant: events from outside of the window are kept too.
KeptAny(b, extra) == b \in InWindow \cup extra
Kept(b, extra) == b \in InWindow
WholePage(extra) ==
  /\ got' = [b \in Blocks |-> got[b] + IF Kept(b, extra) THEN events[b] ELSE 0]
  /\ cursor' = End + 1
  /\ window' = NextWindowLen(End - cursor + 1, EventsInWindow)
  /\ again' = FALSE
  /\ pc' = IF End + 1 > MaxBlock THEN "done" ELSE "scan"
  /\ UNCHANGED pageCap

(***************************************************************************)
(* A page with a token says the window was too wide, but one that is not   *)
(* full is asked for once more first.  A window of one block cannot be     *)
(* narrowed: the scan fails rather than drop events.                       *)
(***************************************************************************)
\* Mutants: a window halved downwards; a short page is asked for again and again.
HalfDown(n) == n \div 2
Half(n) == (n + 1) \div 2
AgainForgotten == FALSE
AskedAgain == TRUE
TokenPage(returned) ==
  LET full == returned >= Requested
  IN  /\ pageCap' = IF full THEN Min({pageCap, returned}) ELSE pageCap
      /\ \/ /\ ~full /\ ~again
            /\ again' = AskedAgain
            /\ UNCHANGED <<window, pc>>
         \/ /\ full \/ again
            /\ again' = FALSE
            /\ window' = IF End = cursor THEN window ELSE Half(End - cursor)
            /\ pc' = IF End = cursor THEN "irreducible" ELSE "scan"
      /\ UNCHANGED <<cursor, got>>

Page ==
  /\ pc = "scan" /\ health[Endpoint] = "up"
  /\ fails' = 0 /\ call' = Fresh
  /\ \/ /\ Whole
        /\ \E extra \in {{}, {End + 1}} : WholePage(extra)
        /\ UNCHANGED short
     \/ /\ ~Whole
        /\ TokenPage(PageSize)
        /\ UNCHANGED short
     \/ /\ short < MaxShort /\ short' = short + 1
        /\ TokenPage(0)
  /\ UNCHANGED <<given, active, proofVars>>

Scan  == TransportFails \/ Throttled \/ Pruned \/ Page
Proof == ProofServed \/ ProofRefused \/ ProofPruned \/ ProofUnreachable
Next  == Scan \/ AskProof \/ Proof
\* Every request ends: reqwest's timeout is 30 seconds.
ScanSpec == Init /\ [][Next]_vars /\ WF_vars(Scan) /\ WF_vars(Proof)
-----------------------------------------------------------------------------
(***************************************************************************)
(* A scan that completes has every event of every block, once: no page of  *)
(* a window that did not fit is taken for the window, and no block is left *)
(* out or covered twice as the window is narrowed and widened              *)
(* (scan_active_blocks: "takes the union").                                *)
(***************************************************************************)
ScanExact == pc = "done" => got = events

(***************************************************************************)
(* The window is never empty: `cursor + (window - 1)` would wrap around    *)
(* (next_window_len, div_ceil).                                            *)
(***************************************************************************)
WindowPositive == window \in 1..MaxWindow

(***************************************************************************)
(* The scan gives up on its endpoints, "failed after retries on all        *)
(* endpoints", only if neither answers, unless the answer to a proof has   *)
(* cleared failures it had counted (call_at).                              *)
(***************************************************************************)
HealthyEndpointServes ==
  pc = "exhausted" /\ ~disturbed => \A e \in Endpoints : health[e] # "up"

(***************************************************************************)
(* A storage proof is reported unavailable only when no endpoint that      *)
(* answers serves proofs: a dead, throttled or refusing endpoint does not  *)
(* end the search, whatever the order (get_storage_proof, "keep asking     *)
(* the remaining candidates").                                             *)
(***************************************************************************)
ProofSought == query.out = "unavailable" => \A e \in provers : health[e] # "up"

(***************************************************************************)
(* Whatever the endpoints answer, the scan and every proof end:            *)
(* re-requests and narrowed windows make progress and every retry is       *)
(* bounded (scan_active_blocks, call_at, get_storage_proof).               *)
(***************************************************************************)
ScanEnds == <>[](pc # "scan" /\ query.out # "asking")
=============================================================================
