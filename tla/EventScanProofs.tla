-------------------------- MODULE EventScanProofs --------------------------
(***************************************************************************)
(* Theorems about EventScan and the audit built on it, for every chain,    *)
(* page limit, window and budget: what a complete scan has, when it gives  *)
(* up, when a storage proof is unavailable, and what a repair leaves.      *)
(***************************************************************************)
EXTENDS CoverageAudit, FiniteSetTheorems, WellFoundedInduction, TLAPS

Healths == {"up", "dead", "throttled", "pruned"}
GivenOK ==
  /\ total \in [0..MaxBlock -> Int] /\ limit \in Nat \ {0}
  /\ health \in [Endpoints -> Healths] /\ provers \subseteq Endpoints

(***************************************************************************)
(* The scan has the events of the blocks below its cursor, once each, and  *)
(* none of the others; it is done when the cursor is past the last block.  *)
(***************************************************************************)
ScanInv ==
  /\ GivenOK
  /\ cursor \in Nat \ {0} /\ window \in 1..MaxWindow /\ pageCap \in Nat \ {0}
  /\ pc = "scan" => cursor <= MaxBlock
  /\ pc = "done" => cursor > MaxBlock
  /\ got = [b \in Blocks |-> IF b < cursor THEN events[b] ELSE 0]
-----------------------------------------------------------------------------
USE ScanAssumption

LEMMA MinOfTwo ==
  ASSUME NEW x \in Int, NEW y \in Int
  PROVE  Min({x, y}) = IF x <= y THEN x ELSE y
<1>1. \E m \in {x, y} : \A z \in {x, y} : m <= z
  BY SMT
<1>2. Min({x, y}) \in {x, y} /\ \A z \in {x, y} : Min({x, y}) <= z
  BY <1>1 DEF Min
<1> QED
  BY <1>2

LEMMA MaxOfTwo ==
  ASSUME NEW x \in Int, NEW y \in Int
  PROVE  Max({x, y}) = IF x >= y THEN x ELSE y
<1>1. \E m \in {x, y} : \A z \in {x, y} : m >= z
  BY SMT
<1>2. Max({x, y}) \in {x, y} /\ \A z \in {x, y} : Max({x, y}) >= z
  BY <1>1 DEF Max
<1> QED
  BY <1>2

(***************************************************************************)
(* next_window_len stays between one block and the largest window.         *)
(***************************************************************************)
LEMMA NextWindowBounds ==
  ASSUME NEW len \in Nat \ {0}, NEW seen \in Int, pageCap \in Nat \ {0}
  PROVE  NextWindowLen(len, seen) \in 1..MaxWindow
<1> DEFINE ceiling == Max({len * 8, 1})
           divisor == Max({seen * 4, 1})
           target  == IF seen = 0 THEN ceiling ELSE (len * pageCap * 3) \div divisor
<1>1. ceiling \in Int
  BY MaxOfTwo
<1>2. divisor \in Nat \ {0}
  <2>1. seen * 4 \in Int
    OBVIOUS
  <2> QED
    BY <2>1, MaxOfTwo
<1>3. len * pageCap * 3 \in Int
  OBVIOUS
<1>4. target \in Int
  <2> HIDE DEF ceiling, divisor
  <2>1. (len * pageCap * 3) \div divisor \in Int
    BY <1>2, <1>3
  <2> QED
    BY <1>1, <2>1
<1> DEFINE least == Min({target, ceiling})
<1>5. least \in Int
  <2> HIDE DEF ceiling, target
  <2> QED
    BY <1>1, <1>4, MinOfTwo
<1> DEFINE most == Max({1, least})
<1>6. most \in Nat \ {0}
  <2> HIDE DEF least
  <2>1. most = IF 1 >= least THEN 1 ELSE least
    BY <1>5, MaxOfTwo
  <2> QED
    BY <1>5, <2>1
<1>7. Min({most, MaxWindow}) \in 1..MaxWindow
  <2> HIDE DEF most
  <2> QED
    BY <1>6, MinOfTwo
<1> QED
  BY <1>7 DEF NextWindowLen

LEMMA EndBounds ==
  ASSUME ScanInv, pc = "scan"
  PROVE  /\ End \in cursor..MaxBlock /\ End - cursor < MaxWindow
         /\ EventsInWindow \in Int
<1>1. End = IF cursor + window - 1 <= MaxBlock THEN cursor + window - 1 ELSE MaxBlock
  BY MinOfTwo DEF End, ScanInv
<1>2. End \in cursor..MaxBlock /\ End - cursor < MaxWindow
  BY <1>1 DEF ScanInv
<1>3. End \in 0..MaxBlock /\ cursor - 1 \in 0..MaxBlock
  BY <1>2 DEF ScanInv
<1> QED
  BY <1>2, <1>3 DEF EventsInWindow, ScanInv, GivenOK

LEMMA EventsType ==
  ASSUME GivenOK
  PROVE  \A b \in Blocks : events[b] \in Int
BY DEF GivenOK, events, Blocks

LEMMA InitScan == Init => ScanInv
<1> SUFFICES ASSUME Init PROVE ScanInv
  OBVIOUS
<1>1. GivenOK
  <2>1. total \in [0..MaxBlock -> Int]
    BY DEF Init
  <2> QED
    BY <2>1 DEF Init, GivenOK, Healths
<1>2. window \in 1..MaxWindow
  BY MinOfTwo DEF Init
<1>3. got = [b \in Blocks |-> IF b < cursor THEN events[b] ELSE 0]
  BY DEF Init, Blocks
<1> QED
  BY <1>1, <1>2, <1>3 DEF Init, ScanInv

(***************************************************************************)
(* Steps that leave the window, the cursor and what was got alone.         *)
(***************************************************************************)
LEMMA SameScan ==
  ASSUME ScanInv, UNCHANGED <<given, cursor, window, pageCap, got>>,
         pc' \in {pc, "exhausted", "pruned", "irreducible"}
  PROVE  ScanInv'
BY DEF ScanInv, GivenOK, given, events, Blocks

LEMMA WholePageScan ==
  ASSUME ScanInv, pc = "scan", NEW extra, WholePage(extra), UNCHANGED given
  PROVE  ScanInv'
<1>1. End \in cursor..MaxBlock /\ End - cursor < MaxWindow /\ EventsInWindow \in Int
  BY EndBounds
<1>2. window' \in 1..MaxWindow
  BY <1>1, NextWindowBounds DEF WholePage, ScanInv
<1>3. GivenOK' /\ events' = events
  BY DEF ScanInv, GivenOK, given, events
<1>4. got' = [b \in Blocks |-> IF b < cursor' THEN events[b] ELSE 0]
  <2> SUFFICES ASSUME NEW b \in Blocks
               PROVE  got[b] + (IF Kept(b, extra) THEN events[b] ELSE 0)
                        = IF b < cursor' THEN events[b] ELSE 0
    BY DEF WholePage
  <2>1. events[b] \in Int /\ b \in Int
    BY EventsType DEF ScanInv, Blocks
  <2>2. got[b] = IF b < cursor THEN events[b] ELSE 0
    BY DEF ScanInv
  <2>3. Kept(b, extra) <=> cursor <= b /\ b <= End
    BY <1>1, <2>1 DEF Kept, InWindow, ScanInv
  <2>4. cursor' = End + 1
    BY DEF WholePage
  <2> QED
    BY <1>1, <2>1, <2>2, <2>3, <2>4 DEF ScanInv
<1> QED
  BY <1>1, <1>2, <1>3, <1>4 DEF WholePage, ScanInv

LEMMA TokenPageScan ==
  ASSUME ScanInv, pc = "scan", NEW returned \in Nat, TokenPage(returned), UNCHANGED given
  PROVE  ScanInv'
<1>1. End \in cursor..MaxBlock /\ End - cursor < MaxWindow
  BY EndBounds
<1>2. pageCap' \in Nat \ {0}
  BY MinOfTwo DEF TokenPage, ScanInv
<1>3. window' \in 1..MaxWindow
  BY <1>1 DEF TokenPage, Half, ScanInv
<1>4. pc' \in {"scan", "irreducible"} /\ UNCHANGED <<cursor, got>>
  BY DEF TokenPage
<1> QED
  BY <1>2, <1>3, <1>4 DEF ScanInv, GivenOK, given, events, Blocks

LEMMA NextScan == ScanInv /\ [Next]_vars => ScanInv'
<1> SUFFICES ASSUME ScanInv, [Next]_vars PROVE ScanInv'
  OBVIOUS
<1>1. CASE Page
  <2>1. pc = "scan" /\ UNCHANGED given
    BY <1>1 DEF Page
  <2>2. PageSize \in Nat
    BY MinOfTwo DEF PageSize, ScanInv, GivenOK
  <2>3. \/ \E extra \in {{}, {End + 1}} : WholePage(extra)
        \/ TokenPage(PageSize)
        \/ TokenPage(0)
    BY <1>1 DEF Page
  <2> QED
    BY <2>1, <2>2, <2>3, WholePageScan, TokenPageScan
<1>2. CASE TransportFails \/ Throttled \/ Pruned
  <2>1. UNCHANGED <<given, cursor, window, pageCap, got>>
    BY <1>2 DEF TransportFails, Throttled, Pruned, Elsewhere
  <2>2. pc' \in {pc, "exhausted", "pruned"}
    BY <1>2 DEF TransportFails, Throttled, Pruned, GiveUp
  <2> QED
    BY <2>1, <2>2, SameScan
<1>3. CASE AskProof \/ Proof \/ UNCHANGED vars
  <2>1. UNCHANGED <<given, cursor, window, pageCap, got, pc>>
    BY <1>3 DEF AskProof, Proof, ProofServed, ProofRefused, ProofPruned, ProofUnreachable,
         scanVars, vars
  <2> QED
    BY <2>1, SameScan
<1> QED
  BY <1>1, <1>2, <1>3 DEF Next, Scan
-----------------------------------------------------------------------------
(***************************************************************************)
(* The client.  While an endpoint is up and no failure of the scan was     *)
(* cleared, the attempts a call has used on a dead endpoint are counted    *)
(* among the failures, which are below the failover; a call has escalated  *)
(* only towards the endpoint that is up; and it has a route of its own     *)
(* only around one whose history is pruned.                                *)
(***************************************************************************)
Calls ==
  [route : {0, 1, Failover}, transport : Int, throttle : Nat, capability : Nat,
   escalated : BOOLEAN]
SomeUp == \E e \in Endpoints : health[e] = "up"
ClientInv ==
  /\ health \in [Endpoints -> Healths] /\ active \in Endpoints
  /\ fails \in Nat /\ fails < FailoverAfter /\ call \in Calls
  /\ call.route # Failover => call.route = Other(active) /\ health[active] = "pruned"
  /\ SomeUp /\ call.route = Failover /\ call.escalated => health[active] = "up"
  /\ SomeUp /\ ~disturbed /\ call.route = Failover /\ health[active] = "dead" =>
       TransportAttempts - call.transport <= fails
  /\ HealthyEndpointServes

LEMMA TwoEndpoints ==
  ASSUME NEW e \in Endpoints
  PROVE  Other(e) \in Endpoints /\ Endpoints = {e, Other(e)} /\ Other(e) # e /\ Other(Other(e)) = e
BY DEF Endpoints, Other

LEMMA BudgetsType ==
  ASSUME NEW route \in {0, 1, Failover}
  PROVE  /\ Budgets(route) \in Calls
         /\ Budgets(route).route = route /\ Budgets(route).transport = TransportAttempts
         /\ Budgets(route).escalated = FALSE
BY DEF Budgets, Calls, Failover

LEMMA InitClient == Init => ClientInv
<1> SUFFICES ASSUME Init PROVE ClientInv
  OBVIOUS
<1>1. call \in Calls /\ call.route = Failover /\ call.transport = TransportAttempts
      /\ call.escalated = FALSE
  BY BudgetsType DEF Init, Fresh
<1> QED
  BY <1>1 DEF Init, ClientInv, Endpoints, Healths, HealthyEndpointServes

LEMMA TransportFailsClient == ClientInv /\ TransportFails => ClientInv'
<1> SUFFICES ASSUME ClientInv, TransportFails PROVE ClientInv'
  OBVIOUS
<1> USE DEF ClientInv
<1>1. pc = "scan" /\ UNCHANGED <<health, disturbed>> /\ (SomeUp' <=> SomeUp)
  BY DEF TransportFails, Elsewhere, given, proofVars, SomeUp
<1>2. Other(active) \in Endpoints /\ Endpoints = {active, Other(active)}
  BY TwoEndpoints
<1>3. CASE call.route # Failover
  <2>1. health[Other(active)] = "dead" /\ ~SomeUp
    BY <1>2, <1>3 DEF TransportFails, Endpoint, SomeUp
  <2>2. call' \in Calls /\ call'.route = call.route /\ UNCHANGED <<active, fails>>
    BY <1>3 DEF TransportFails, GiveUp, Calls
  <2> QED
    BY <1>1, <1>3, <2>1, <2>2 DEF HealthyEndpointServes, SomeUp
<1>4. CASE call.route = Failover
  <2>1. health[active] = "dead"
    BY <1>4 DEF TransportFails, Endpoint
  <2>2. /\ active' = IF fails + 1 >= FailoverAfter THEN Other(active) ELSE active
        /\ fails' = IF fails + 1 >= FailoverAfter THEN 0 ELSE fails + 1
    BY <1>4 DEF TransportFails, CountFailure
  <2>3. active' \in Endpoints /\ fails' \in Nat /\ fails' < FailoverAfter
    BY <1>2, <2>2
  <2>4. call' \in Calls /\ call'.route = Failover /\ call'.escalated = call.escalated
    BY <1>4 DEF TransportFails, GiveUp, Calls
  <2>5. SomeUp => health[Other(active)] = "up"
    BY <1>2, <2>1 DEF SomeUp
  <2>6. SomeUp => ~call.escalated
    BY <1>4, <2>1
  <2>7. CASE call.transport = 1
    <3>1. pc' = "exhausted" /\ call' = call
      BY <2>7 DEF TransportFails, GiveUp
    <3>2. ~SomeUp \/ disturbed
      BY <1>4, <2>1, <2>7
    <3> QED
      BY <1>1, <2>3, <2>4, <2>5, <2>6, <3>1, <3>2 DEF HealthyEndpointServes, SomeUp
  <2>8. CASE call.transport # 1
    <3>1. call'.transport = call.transport - 1 /\ pc' = pc
      BY <2>8 DEF TransportFails, Calls
    <3>2. SomeUp /\ ~disturbed /\ health[active'] = "dead" =>
            TransportAttempts - call'.transport <= fails'
      <4> SUFFICES ASSUME SomeUp, ~disturbed, health[active'] = "dead"
                   PROVE  TransportAttempts - call'.transport <= fails'
        OBVIOUS
      <4>1. fails' = fails + 1
        BY <2>2, <2>5
      <4> QED
        BY <1>4, <2>1, <3>1, <4>1 DEF Calls
    <3> QED
      BY <1>1, <2>3, <2>4, <2>6, <3>1, <3>2 DEF HealthyEndpointServes
  <2> QED
    BY <2>7, <2>8
<1> QED
  BY <1>3, <1>4

LEMMA ThrottledClient == ClientInv /\ Throttled => ClientInv'
<1> SUFFICES ASSUME ClientInv, Throttled PROVE ClientInv'
  OBVIOUS
<1> USE DEF ClientInv
<1>1. pc = "scan" /\ UNCHANGED <<health, disturbed, fails>> /\ (SomeUp' <=> SomeUp)
  BY DEF Throttled, Elsewhere, given, proofVars, SomeUp
<1>2. Other(active) \in Endpoints /\ Endpoints = {active, Other(active)}
  BY TwoEndpoints
<1>3. CASE call.route # Failover
  <2>1. health[Other(active)] = "throttled" /\ ~SomeUp
    BY <1>2, <1>3 DEF Throttled, Endpoint, SomeUp
  <2>2. call' \in Calls /\ call'.route = call.route /\ UNCHANGED active
    BY <1>3 DEF Throttled, Escalates, GiveUp, Calls
  <2> QED
    BY <1>1, <1>3, <2>1, <2>2 DEF HealthyEndpointServes, SomeUp
<1>4. CASE call.route = Failover
  <2>1. health[active] = "throttled"
    BY <1>4 DEF Throttled, Endpoint
  <2>2. SomeUp => health[Other(active)] = "up" /\ ~call.escalated
    BY <1>2, <1>4, <2>1 DEF SomeUp
  <2>3. call' \in Calls /\ call'.route = Failover /\ active' \in Endpoints
    <3>1. CASE call.throttle > 0
      BY <1>4, <3>1 DEF Throttled, Calls
    <3>2. CASE ~(call.throttle > 0) /\ Escalates
      <4>1. call' = [call EXCEPT !.throttle = ThrottleRetries, !.escalated = TRUE]
            /\ active' = Other(active)
        BY <3>2 DEF Throttled
      <4> QED
        BY <1>2, <1>4, <4>1 DEF Calls
    <3>3. CASE ~(call.throttle > 0) /\ ~Escalates
      BY <1>4, <3>3 DEF Throttled, GiveUp
    <3> QED
      BY <3>1, <3>2, <3>3
  <2>4. \/ active' = active /\ call'.escalated = call.escalated
        \/ active' = Other(active)
    BY <1>4 DEF Throttled, GiveUp, Calls
  <2>5. pc' = pc \/ ~SomeUp
    BY <1>4, <2>2 DEF Throttled, Escalates
  <2> QED
    BY <1>1, <2>1, <2>2, <2>3, <2>4, <2>5 DEF HealthyEndpointServes, SomeUp
<1> QED
  BY <1>3, <1>4

LEMMA PrunedClient == ClientInv /\ Pruned => ClientInv'
<1> SUFFICES ASSUME ClientInv, Pruned PROVE ClientInv'
  OBVIOUS
<1> USE DEF ClientInv
<1>1. /\ UNCHANGED <<health, disturbed, active>> /\ fails' = 0
      /\ pc' # "exhausted" /\ (SomeUp' <=> SomeUp)
  BY DEF Pruned, Elsewhere, given, proofVars, SomeUp
<1>2. Other(active) \in {0, 1, Failover} /\ Other(active) # Failover
  BY DEF Endpoints, Other, Failover
<1>3. CASE call.route # Failover
  <2>1. call' \in Calls /\ call'.route = call.route
    BY <1>3 DEF Pruned, Calls
  <2> QED
    BY <1>1, <1>3, <2>1 DEF HealthyEndpointServes
<1>4. CASE call.route = Failover
  <2>1. health[active] = "pruned" /\ call' = Budgets(Other(active))
    BY <1>4 DEF Pruned, Endpoint
  <2> QED
    BY <1>1, <1>2, <2>1, BudgetsType DEF HealthyEndpointServes
<1> QED
  BY <1>3, <1>4

LEMMA PageClient == ClientInv /\ Page => ClientInv'
<1> SUFFICES ASSUME ClientInv, Page PROVE ClientInv'
  OBVIOUS
<1> USE DEF ClientInv
<1>1. UNCHANGED <<health, disturbed, active>> /\ fails' = 0 /\ call' = Budgets(Failover)
  BY DEF Page, Fresh, given, proofVars
<1>2. pc' # "exhausted"
  BY DEF Page, WholePage, TokenPage
<1>3. call' \in Calls /\ call'.route = Failover /\ call'.transport = TransportAttempts
      /\ call'.escalated = FALSE
  BY <1>1, BudgetsType
<1> QED
  BY <1>1, <1>2, <1>3 DEF HealthyEndpointServes

(***************************************************************************)
(* Proofs leave the call alone.  An answer clears the counter: if it had   *)
(* failures on it the scan is disturbed, otherwise nothing changes.        *)
(***************************************************************************)
LEMMA ProofClient == ClientInv /\ (AskProof \/ Proof \/ UNCHANGED vars) => ClientInv'
<1> SUFFICES ASSUME ClientInv, AskProof \/ Proof \/ UNCHANGED vars PROVE ClientInv'
  OBVIOUS
<1> USE DEF ClientInv
<1>1. UNCHANGED <<health, active, call, pc>> /\ (SomeUp' <=> SomeUp)
  BY DEF AskProof, Proof, ProofServed, ProofRefused, ProofPruned, ProofUnreachable,
     given, rpcVars, scanVars, vars, SomeUp
<1>2. \/ UNCHANGED <<fails, disturbed>>
      \/ fails' = 0 /\ disturbed' = (disturbed \/ fails > 0)
  BY DEF AskProof, Proof, ProofServed, ProofRefused, ProofPruned, ProofUnreachable,
     Answered, rpcVars, proofVars, vars
<1>3. CASE UNCHANGED <<fails, disturbed>>
  BY <1>1, <1>3 DEF HealthyEndpointServes
<1>4. CASE fails' = 0 /\ disturbed' = (disturbed \/ fails > 0)
  <2>0. ~disturbed' => ~disturbed /\ ~(fails > 0)
    BY <1>4, Zenon
  <2>1. ~disturbed' => ~disturbed /\ fails' = fails
    BY <1>4, <2>0
  <2> QED
    BY <1>1, <1>4, <2>1 DEF HealthyEndpointServes
<1> QED
  BY <1>2, <1>3, <1>4

LEMMA NextClient == ClientInv /\ [Next]_vars => ClientInv'
BY TransportFailsClient, ThrottledClient, PrunedClient, PageClient, ProofClient DEF Next, Scan
-----------------------------------------------------------------------------
(***************************************************************************)
(* The search for a proof: an endpoint that is no longer on the list was   *)
(* asked and does not serve proofs, or does not answer.                    *)
(***************************************************************************)
RuledOut(e) == e \notin provers \/ health[e] # "up"
Listed(e) == e = query.order[1] \/ (Len(query.order) = 2 /\ e = query.order[2])
QueryInv ==
  /\ active \in Endpoints /\ provers \subseteq Endpoints
  /\ query.out = "asking" =>
       /\ query.order \in {<<0>>, <<1>>, <<0, 1>>, <<1, 0>>}
       /\ \A e \in Endpoints : RuledOut(e) \/ Listed(e)
  /\ ProofSought

LEMMA AskedOut == ASSUME NEW out PROVE Asked(out).out = out
BY DEF Asked, Asking

LEMMA AskingOrder ==
  ASSUME NEW order, NEW refusals
  PROVE  Asking(order, refusals).order = order /\ Asking(order, refusals).out = "asking"
BY DEF Asking

LEMMA InitQuery == Init => QueryInv
BY AskedOut DEF Init, QueryInv, Endpoints, ProofSought

(***************************************************************************)
(* Steps that leave the query alone or only its budgets.                   *)
(***************************************************************************)
LEMMA SameQuery ==
  ASSUME QueryInv, UNCHANGED given, active' \in Endpoints,
         query'.out = query.out, query'.order = query.order
  PROVE  QueryInv'
BY DEF QueryInv, given, RuledOut, Listed, ProofSought

LEMMA EndedQuery ==
  ASSUME QueryInv, UNCHANGED <<given, active>>, NEW out, query' = Asked(out),
         out \notin {"asking", "unavailable"}
  PROVE  QueryInv'
BY AskedOut DEF QueryInv, given, ProofSought

LEMMA NextCandidateQuery ==
  ASSUME QueryInv, UNCHANGED <<given, active>>, query.out = "asking",
         RuledOut(Head(query.order)), NextCandidate
  PROVE  QueryInv'
<1>1. provers' = provers /\ health' = health /\ (\A e \in Endpoints : RuledOut(e) => RuledOut(e)')
  BY DEF given, RuledOut
<1>2. CASE Len(query.order) = 1
  <2>1. query'.out = "unavailable"
    BY <1>2, AskedOut DEF NextCandidate
  <2>2. \A e \in Endpoints : RuledOut(e)
    BY <1>2 DEF QueryInv, Listed
  <2> QED
    BY <1>1, <2>1, <2>2 DEF QueryInv, ProofSought, RuledOut
<1>3. CASE Len(query.order) # 1
  <2>1. query.order \in {<<0, 1>>, <<1, 0>>}
    BY <1>3 DEF QueryInv
  <2>2. query'.out = "asking" /\ query'.order = <<query.order[2]>>
    <3>1. query' = Asking(Tail(query.order), 0)
      BY <1>3 DEF NextCandidate
    <3>2. Tail(query.order) = <<query.order[2]>>
      <4>1. CASE query.order = <<0, 1>>
        BY <4>1
      <4>2. CASE query.order = <<1, 0>>
        BY <4>2
      <4> QED
        BY <2>1, <4>1, <4>2
    <3> QED
      BY <3>1, <3>2, AskingOrder
  <2>3. query'.order \in {<<0>>, <<1>>}
    BY <2>1, <2>2
  <2>4. \A e \in Endpoints : RuledOut(e)' \/ e = query'.order[1]
    BY <1>1, <2>1, <2>2 DEF QueryInv, Listed
  <2> QED
    BY <1>1, <2>2, <2>3, <2>4 DEF QueryInv, ProofSought, Listed
<1> QED
  BY <1>2, <1>3

LEMMA AskProofQuery == QueryInv /\ AskProof => QueryInv'
<1> SUFFICES ASSUME QueryInv, AskProof PROVE QueryInv'
  OBVIOUS
<1>1. ProofOrder \in {<<0, 1>>, <<1, 0>>}
  BY DEF ProofOrder, QueryInv, Endpoints, Other
<1>2. query'.out = "asking" /\ query'.order = ProofOrder
  BY AskingOrder DEF AskProof
<1>3. \A e \in Endpoints : e = query'.order[1] \/ (Len(query'.order) = 2 /\ e = query'.order[2])
  BY <1>1, <1>2 DEF Endpoints
<1> QED
  BY <1>1, <1>2, <1>3 DEF AskProof, QueryInv, given, rpcVars, ProofSought, Listed

LEMMA ProofQuery == QueryInv /\ Proof => QueryInv'
<1> SUFFICES ASSUME QueryInv, Proof PROVE QueryInv'
  OBVIOUS
<1>1. UNCHANGED <<given, active>> /\ query.out = "asking" /\ active' \in Endpoints
  BY DEF Proof, ProofServed, ProofRefused, ProofPruned, ProofUnreachable, rpcVars, Asks, QueryInv
<1>2. CASE ProofServed
  BY <1>1, <1>2, EndedQuery DEF ProofServed
<1>3. CASE ProofRefused
  <2>1. RuledOut(Head(query.order))
    BY <1>3 DEF ProofRefused, RuledOut
  <2>2. CASE NextCandidate
    BY <1>1, <2>1, <2>2, NextCandidateQuery
  <2>3. CASE query' = Asking(query.order, query.refusals + 1)
    BY <1>1, <2>3, AskingOrder, SameQuery
  <2> QED
    BY <1>3, <2>2, <2>3 DEF ProofRefused
<1>4. CASE ProofPruned
  <2>1. \/ query' = [query EXCEPT !.capability = @ - 1]
        \/ query' = Asked("failed")
    BY <1>4 DEF ProofPruned
  <2>2. CASE query' = [query EXCEPT !.capability = @ - 1]
    BY <1>1, <2>2, SameQuery
  <2> QED
    BY <1>1, <2>1, <2>2, EndedQuery
<1>5. CASE ProofUnreachable
  <2>1. RuledOut(Head(query.order))
    BY <1>5 DEF ProofUnreachable, Asks, RuledOut
  <2>2. \/ query' = [query EXCEPT !.transport = @ - 1]
        \/ query' = [query EXCEPT !.throttle = @ - 1]
        \/ NextCandidate
    BY <1>5 DEF ProofUnreachable
  <2>3. CASE NextCandidate
    BY <1>1, <2>1, <2>3, NextCandidateQuery
  <2>4. CASE query' = [query EXCEPT !.transport = @ - 1]
    BY <1>1, <2>4, SameQuery
  <2>5. CASE query' = [query EXCEPT !.throttle = @ - 1]
    BY <1>1, <2>5, SameQuery
  <2> QED
    BY <2>2, <2>3, <2>4, <2>5
<1> QED
  BY <1>2, <1>3, <1>4, <1>5 DEF Proof

LEMMA NextQuery == ClientInv /\ ClientInv' /\ QueryInv /\ [Next]_vars => QueryInv'
<1> SUFFICES ASSUME ClientInv', QueryInv, [Next]_vars PROVE QueryInv'
  OBVIOUS
<1>1. CASE Scan \/ UNCHANGED vars
  <2>1. UNCHANGED <<given, query>>
    BY <1>1 DEF Scan, TransportFails, Throttled, Pruned, Page, Elsewhere, proofVars, vars
  <2> QED
    BY <2>1, SameQuery DEF ClientInv
<1> QED
  BY <1>1, AskProofQuery, ProofQuery DEF Next
-----------------------------------------------------------------------------
ScanIndInv == ScanInv /\ ClientInv /\ QueryInv

LEMMA ScanIndInvHolds == Init /\ [][Next]_vars => []ScanIndInv
<1>1. Init => ScanIndInv
  BY InitScan, InitClient, InitQuery DEF ScanIndInv
<1>2. ScanIndInv /\ [Next]_vars => ScanIndInv'
  BY NextScan, NextClient, NextQuery DEF ScanIndInv
<1> QED
  BY <1>1, <1>2, PTL

(***************************************************************************)
(* To the scan, an audit is a scan during which no proofs are asked for.   *)
(***************************************************************************)
LEMMA AuditScans == AuditSpec => Init /\ [][Next]_vars
<1>1. AuditInit => Init
  BY DEF AuditInit
<1>2. [AuditNext]_allVars => [Next]_vars
  BY DEF AuditNext, AuditStep, Audit, Reingest, ReingestFails, Recheck, Next, allVars
<1> QED
  BY <1>1, <1>2, PTL DEF AuditSpec

(***************************************************************************)
(* A scan that completes has every event of every block, once              *)
(* (scan_active_blocks), whatever pages the endpoint cuts, for ingest and  *)
(* for an audit alike.                                                     *)
(***************************************************************************)
THEOREM CompleteScanIsExact == (ScanSpec \/ AuditSpec) => []ScanExact
<1>1. ScanInv => ScanExact
  BY DEF ScanInv, ScanExact, events, Blocks
<1> QED
  BY <1>1, ScanIndInvHolds, AuditScans, PTL DEF ScanSpec, ScanIndInv

(***************************************************************************)
(* The scan's window is never empty nor above its limit (next_window_len,  *)
(* the halving).                                                           *)
(***************************************************************************)
THEOREM WindowStaysPositive == (ScanSpec \/ AuditSpec) => []WindowPositive
<1>1. ScanInv => WindowPositive
  BY DEF ScanInv, WindowPositive
<1> QED
  BY <1>1, ScanIndInvHolds, AuditScans, PTL DEF ScanSpec, ScanIndInv

(***************************************************************************)
(* A scan that gives up on its endpoints had none that answers, for all    *)
(* budgets with more attempts than a failover takes (call_at).             *)
(***************************************************************************)
THEOREM GivesUpOnlyWithoutEndpoint == (ScanSpec \/ AuditSpec) => []HealthyEndpointServes
<1>1. ClientInv => HealthyEndpointServes
  BY DEF ClientInv
<1> QED
  BY <1>1, ScanIndInvHolds, AuditScans, PTL DEF ScanSpec, ScanIndInv

(***************************************************************************)
(* A storage proof is unavailable only if no endpoint that answers serves  *)
(* proofs (get_storage_proof).                                             *)
(***************************************************************************)
THEOREM ProofSoughtEverywhere == (ScanSpec \/ AuditSpec) => []ProofSought
<1>1. QueryInv => ProofSought
  BY DEF QueryInv
<1> QED
  BY <1>1, ScanIndInvHolds, AuditScans, PTL DEF ScanSpec, ScanIndInv
-----------------------------------------------------------------------------
AuditInv == mirror \in [Blocks -> Int] /\ RepairCloses

LEMMA GivenStays == [AuditNext]_allVars => UNCHANGED <<events, given>>
<1> SUFFICES ASSUME [AuditNext]_allVars PROVE UNCHANGED given
  BY DEF given, events
<1> QED
  BY DEF AuditNext, AuditStep, Audit, Reingest, ReingestFails, Recheck, Scan, Proof, AskProof,
     TransportFails, Throttled, Pruned, Page, Elsewhere, ProofServed, ProofRefused,
     ProofPruned, ProofUnreachable, vars, allVars

(***************************************************************************)
(* Among the active blocks, the gaps of an audit after a complete scan are *)
(* the blocks in which the mirror differs from the chain.                  *)
(***************************************************************************)
LEMMA GapsAreDifferences ==
  ASSUME got = events, NEW m \in [Blocks -> Int], NEW b \in Blocks,
         events[b] \in Int, events[b] > 0, m[b] # events[b]
  PROVE  b \in Gaps(Coverage(m, got, ActiveBlocks))
<1>1. b \in ActiveBlocks /\ m[b] \in Int /\ got[b] = events[b]
  BY DEF ActiveBlocks
<1>2. CASE m[b] = NoRow
  BY <1>1, <1>2 DEF Gaps, Coverage, InMirror
<1>3. CASE m[b] # NoRow
  <2>1. InMirror(m, b) /\ Stored(m, b) = m[b]
    BY <1>3 DEF InMirror, Stored
  <2>2. Stored(m, b) < got[b] \/ Stored(m, b) > got[b]
    BY <1>1, <2>1
  <2> QED
    BY <1>1, <2>1, <2>2 DEF Gaps, Coverage
<1> QED
  BY <1>2, <1>3

LEMMA NextAudit == ScanIndInv /\ AuditInv /\ [AuditNext]_allVars => AuditInv'
<1> SUFFICES ASSUME ScanIndInv, AuditInv, [AuditNext]_allVars PROVE AuditInv'
  OBVIOUS
<1>1. events' = events /\ \A b \in Blocks : events[b] \in Int
  BY GivenStays, EventsType DEF ScanIndInv, ScanInv
<1>2. CASE \E m \in [Blocks -> Counts \cup {NoRow}], repair \in BOOLEAN : Audit(m, repair)
  <2>1. PICK m \in [Blocks -> Counts \cup {NoRow}], repair \in BOOLEAN : Audit(m, repair)
    BY <1>2
  <2>2. got = events
    BY <2>1 DEF Audit, ScanIndInv, ScanInv, events, Blocks
  <2>0. Counts \cup {NoRow} \subseteq Int
    BY ScanAssumption DEF NoRow
  <2>3. m \in [Blocks -> Int]
    BY <2>0
  <2>4. phase' = "repair" => todo' = Gaps(Coverage(m, got, ActiveBlocks))
    BY <2>1 DEF Audit
  <2>5. mirror' = m /\ phase' \in {"ended", "repair"}
    BY <2>1 DEF Audit
  <2> QED
    BY <1>1, <2>2, <2>3, <2>4, <2>5, GapsAreDifferences DEF AuditInv, RepairCloses
<1>3. CASE Reingest
  <2>1. /\ mirror' = [mirror EXCEPT ![Min(todo)] = events[Min(todo)]]
        /\ todo' = todo \ {Min(todo)} /\ phase = "repair" /\ phase' = phase
    BY <1>3 DEF Reingest
  <2> DEFINE first == Min(todo)
  <2> HIDE DEF first
  <2>2. mirror' = [mirror EXCEPT ![first] = events[first]] /\ todo' = todo \ {first}
    BY <2>1 DEF first
  <2>3. mirror' \in [Blocks -> Int]
    BY <1>1, <2>2 DEF AuditInv
  <2>4. \A b \in Blocks : mirror'[b] = IF b = first THEN events[b] ELSE mirror[b]
    BY <2>2 DEF AuditInv
  <2> QED
    BY <1>1, <2>1, <2>2, <2>3, <2>4 DEF AuditInv, RepairCloses
<1>4. CASE ReingestFails \/ Recheck \/ UNCHANGED auditVars
  BY <1>1, <1>4 DEF AuditInv, RepairCloses, ReingestFails, Recheck, auditVars
<1> QED
  BY <1>2, <1>3, <1>4 DEF AuditNext, AuditStep, allVars

(***************************************************************************)
(* audit-coverage --repair: the active blocks that still differ from the   *)
(* chain are among those not yet re-ingested, at every moment and when the *)
(* command stops half-way, for every chain and mirror.                     *)
(***************************************************************************)
THEOREM RepairReachesEveryGap == AuditSpec => []RepairCloses
<1>1. AuditInit => AuditInv
  BY DEF AuditInit, AuditInv, RepairCloses, NoRow
<1>2. AuditInv => RepairCloses
  BY DEF AuditInv
<1> QED
  BY <1>1, <1>2, NextAudit, ScanIndInvHolds, AuditScans, PTL DEF AuditSpec
-----------------------------------------------------------------------------
(***************************************************************************)
(* The audit's counters are sums over sets of blocks. A sum is a recursive *)
(* function on the subsets of its set: that there is such a function, that *)
(* it does not depend on the order in which the elements are taken, and    *)
(* that it splits are proved by induction on subsets, that is, by looking  *)
(* at a smallest one for which they fail.                                  *)
(***************************************************************************)
LEMMA LeastOf ==
  ASSUME NEW B, B \subseteq Nat, B # {} PROVE \E n \in B : \A k \in B : n <= k
<1>1. PICK n \in B : \A k \in B : ~(<<k, n>> \in OpToRel(<, Nat))
  BY NatLessThanWellFounded, WFMin
<1>2. ASSUME NEW k \in B PROVE n <= k
  <2>1. k \in Nat /\ n \in Nat
    BY <1>1
  <2>2. ~(k < n)
    BY <1>1, <2>1 DEF OpToRel
  <2> QED
    BY <2>1, <2>2
<1> QED
  BY <1>2

\* What holds of a subset when it holds of its proper subsets holds of all.
LEMMA SubsetInduction ==
  ASSUME NEW U, IsFiniteSet(U), NEW G,
         \A s \in SUBSET U : (\A t \in SUBSET s : t # s => t \in G) => s \in G
  PROVE  \A s \in SUBSET U : s \in G
<1> SUFFICES ASSUME \E s \in SUBSET U : s \notin G PROVE FALSE
  OBVIOUS
<1> DEFINE Bad == {Cardinality(s) : s \in {u \in SUBSET U : u \notin G}}
<1>1. \A s \in SUBSET U : IsFiniteSet(s) /\ Cardinality(s) \in Nat
  BY FS_Subset, FS_CardinalityType
<1>2. Bad \subseteq Nat /\ Bad # {}
  BY <1>1
<1>3. PICK n \in Bad : \A k \in Bad : n <= k
  <2> HIDE DEF Bad
  <2> QED
    BY <1>2, LeastOf
<1>4. PICK s \in SUBSET U : s \notin G /\ n = Cardinality(s)
  OBVIOUS
<1>5. ASSUME NEW t \in SUBSET s, t # s PROVE t \in G
  <2>1. IsFiniteSet(s) /\ t \in SUBSET U
    BY <1>1
  <2>2. Cardinality(t) <= Cardinality(s) /\ (Cardinality(t) = Cardinality(s) => t = s)
    BY <2>1, FS_Subset
  <2>3. Cardinality(t) < n
    BY <1>1, <1>4, <1>5, <2>1, <2>2
  <2>4. t \notin G => Cardinality(t) \in Bad
    BY <2>1
  <2>5. t \notin G => n <= Cardinality(t)
    BY <1>3, <2>4
  <2>6. n \in Nat /\ Cardinality(t) \in Nat
    BY <1>1, <1>4, <2>1
  <2> QED
    BY <2>3, <2>5, <2>6
<1> QED
  BY <1>4, <1>5

\* The sum of what the mirror has, and the function that computes it.
Sum(m, S) == MapThenSumSet(LAMBDA b : Stored(m, b), S)
Any(s) == CHOOSE x \in s : TRUE
Sums(m, D, f) == f = [s \in D |-> IF s = {} THEN 0 ELSE Stored(m, Any(s)) + f[s \ {Any(s)}]]

LEMMA SumIs ==
  ASSUME NEW m, NEW S PROVE Sum(m, S) = (CHOOSE f : Sums(m, SUBSET S, f))[S]
BY DEF Sum, MapThenSumSet, MapThenFoldSet, Sums, Any

LEMMA AnyIs == ASSUME NEW s, s # {} PROVE Any(s) \in s
BY DEF Any

Small(S, n) == {s \in SUBSET S : Cardinality(s) <= n}

LEMMA Removed ==
  ASSUME NEW S, IsFiniteSet(S), NEW x \in S
  PROVE  IsFiniteSet(S \ {x}) /\ Cardinality(S) \in Nat /\ Cardinality(S) # 0
         /\ Cardinality(S \ {x}) = Cardinality(S) - 1
<1>1. IsFiniteSet(S \ {x}) /\ x \notin S \ {x} /\ S = (S \ {x}) \cup {x}
  BY FS_Subset
<1>2. Cardinality((S \ {x}) \cup {x}) = Cardinality(S \ {x}) + 1
  BY <1>1, FS_AddElement
<1>3. Cardinality(S) = Cardinality(S \ {x}) + 1
  BY <1>1, <1>2, Zenon
<1>4. Cardinality(S \ {x}) \in Nat
  BY <1>1, FS_CardinalityType
<1> QED
  BY <1>1, <1>3, <1>4

\* The function exists on the subsets of at most n elements, one n after the other.
LEMMA SumsOfSmall ==
  ASSUME NEW m, NEW S, IsFiniteSet(S), NEW n \in Nat
  PROVE  \E f : Sums(m, Small(S, n), f)
<1> DEFINE Bad == {k \in Nat : ~\E f : Sums(m, Small(S, k), f)}
<1> SUFFICES ASSUME Bad # {} PROVE FALSE
  OBVIOUS
<1>1. PICK k \in Bad : \A j \in Bad : k <= j
  <2>1. Bad \subseteq Nat
    OBVIOUS
  <2> HIDE DEF Bad
  <2> QED
    BY <2>1, LeastOf
<1>2. /\ k \in Nat /\ ~\E f : Sums(m, Small(S, k), f)
      /\ \A j \in Nat : j < k => \E f : Sums(m, Small(S, j), f)
  BY <1>1
<1>3. \A s \in SUBSET S : s # {} => /\ Any(s) \in s /\ Cardinality(s) \in Nat /\ Cardinality(s) # 0
                                    /\ Cardinality(s \ {Any(s)}) = Cardinality(s) - 1
  BY AnyIs, Removed, FS_Subset
<1>4. CASE k = 0
  <2> DEFINE f == [s \in Small(S, 0) |-> 0]
  <2>1. ASSUME NEW s \in Small(S, 0) PROVE s = {}
    <3>1. s \in SUBSET S /\ Cardinality(s) <= 0
      BY DEF Small
    <3>2. s # {} => Cardinality(s) \in Nat /\ Cardinality(s) # 0
      BY <1>3, <3>1
    <3> QED
      BY <3>1, <3>2
  <2>2. f = [s \in Small(S, 0) |-> IF s = {} THEN 0 ELSE Stored(m, Any(s)) + f[s \ {Any(s)}]]
    BY <2>1, Zenon
  <2> QED
    BY <1>2, <1>4, <2>2 DEF Sums
<1>5. CASE k # 0
  <2>1. k - 1 \in Nat /\ k - 1 < k
    BY <1>2, <1>5
  <2>2. PICK g : Sums(m, Small(S, k - 1), g)
    BY <1>2, <2>1
  <2> DEFINE f == [s \in Small(S, k) |-> IF s = {} THEN 0 ELSE Stored(m, Any(s)) + g[s \ {Any(s)}]]
  <2>3. \A s \in Small(S, k) : s # {} => s \ {Any(s)} \in Small(S, k - 1)
    BY <1>2, <1>3, <2>1 DEF Small
  <2>4. \A s \in Small(S, k - 1) : s \in Small(S, k)
    <3>1. \A s \in SUBSET S : Cardinality(s) \in Nat
      BY FS_Subset, FS_CardinalityType
    <3> QED
      BY <1>2, <2>1, <3>1 DEF Small
  <2>5. \A s \in Small(S, k - 1) : f[s] = g[s]
    <3> TAKE s \in Small(S, k - 1)
    <3>1. g[s] = IF s = {} THEN 0 ELSE Stored(m, Any(s)) + g[s \ {Any(s)}]
      BY <2>2 DEF Sums
    <3>2. f[s] = IF s = {} THEN 0 ELSE Stored(m, Any(s)) + g[s \ {Any(s)}]
      BY <2>4
    <3> QED
      BY <3>1, <3>2, Zenon
  <2>6. \A s \in Small(S, k) :
          (IF s = {} THEN 0 ELSE Stored(m, Any(s)) + g[s \ {Any(s)}]) =
          (IF s = {} THEN 0 ELSE Stored(m, Any(s)) + f[s \ {Any(s)}])
    <3> HIDE DEF f
    <3> QED
      BY <2>3, <2>5
  <2>7. Sums(m, Small(S, k), f)
    BY <2>6, Zenon DEF Sums
  <2> QED
    BY <1>2, <2>7
<1> QED
  BY <1>4, <1>5

LEMMA SumsExist ==
  ASSUME NEW m, NEW S, IsFiniteSet(S)
  PROVE  Sums(m, SUBSET S, CHOOSE f : Sums(m, SUBSET S, f))
<1>1. PICK n \in Nat : n = Cardinality(S)
  BY FS_CardinalityType
<1>2. Small(S, n) = SUBSET S
  BY <1>1, FS_Subset DEF Small
<1>3. \E f : Sums(m, Small(S, n), f)
  BY <1>1, SumsOfSmall
<1>4. \E f : Sums(m, SUBSET S, f)
  BY <1>2, <1>3, Zenon
<1> QED
  BY <1>4, Zenon

\* The functions of a set and of a subset agree.
LEMMA SumsAgree ==
  ASSUME NEW m, NEW S, IsFiniteSet(S), NEW T \in SUBSET S, NEW f, NEW g,
         Sums(m, SUBSET S, f), Sums(m, SUBSET T, g)
  PROVE  f[T] = g[T]
<1> DEFINE G == {s \in SUBSET T : f[s] = g[s]}
<1>1. IsFiniteSet(T)
  BY FS_Subset
<1>2. ASSUME NEW s \in SUBSET T, \A t \in SUBSET s : t # s => t \in G PROVE s \in G
  <2>1. f[s] = IF s = {} THEN 0 ELSE Stored(m, Any(s)) + f[s \ {Any(s)}]
    BY DEF Sums
  <2>2. g[s] = IF s = {} THEN 0 ELSE Stored(m, Any(s)) + g[s \ {Any(s)}]
    BY DEF Sums
  <2>3. s # {} => f[s \ {Any(s)}] = g[s \ {Any(s)}]
    BY <1>2, AnyIs
  <2>4. f[s] = g[s]
    BY <2>1, <2>2, <2>3, Zenon
  <2> QED
    BY <2>4
<1>3. \A s \in SUBSET T : s \in G
  <2> HIDE DEF G
  <2> QED
    BY <1>1, <1>2, SubsetInduction
<1> QED
  BY <1>3

\* What the sum computes.
LEMMA SumSteps ==
  ASSUME NEW m, NEW S, IsFiniteSet(S)
  PROVE  Sum(m, S) = IF S = {} THEN 0 ELSE Stored(m, Any(S)) + Sum(m, S \ {Any(S)})
<1>1. PICK f : f = CHOOSE g : Sums(m, SUBSET S, g)
  OBVIOUS
<1>2. Sums(m, SUBSET S, f) /\ Sum(m, S) = f[S]
  BY <1>1, SumsExist, SumIs
<1>3. f[S] = IF S = {} THEN 0 ELSE Stored(m, Any(S)) + f[S \ {Any(S)}]
  BY <1>2 DEF Sums
<1>4. f[S \ {Any(S)}] = Sum(m, S \ {Any(S)})
  <2>1. PICK T : T = S \ {Any(S)}
    OBVIOUS
  <2>2. IsFiniteSet(T) /\ T \in SUBSET S
    BY <2>1, FS_Subset
  <2>3. PICK g : g = CHOOSE h : Sums(m, SUBSET T, h)
    OBVIOUS
  <2>4. Sums(m, SUBSET T, g) /\ Sum(m, T) = g[T]
    BY <2>2, <2>3, SumsExist, SumIs
  <2>5. f[T] = g[T]
    BY <1>2, <2>2, <2>4, SumsAgree
  <2> QED
    BY <2>1, <2>4, <2>5
<1> QED
  BY <1>2, <1>3, <1>4, Zenon

LEMMA SumNat ==
  ASSUME NEW m, NEW S, IsFiniteSet(S), \A b \in S : Stored(m, b) \in Nat
  PROVE  \A s \in SUBSET S : Sum(m, s) \in Nat /\ IsFiniteSet(s)
<1> DEFINE G == {s \in SUBSET S : Sum(m, s) \in Nat}
<1>1. \A s \in SUBSET S : IsFiniteSet(s)
  BY FS_Subset
<1>2. ASSUME NEW s \in SUBSET S, \A t \in SUBSET s : t # s => t \in G PROVE s \in G
  <2>1. Sum(m, s) = IF s = {} THEN 0 ELSE Stored(m, Any(s)) + Sum(m, s \ {Any(s)})
    BY <1>1, SumSteps
  <2>2. s # {} => Stored(m, Any(s)) \in Nat /\ Sum(m, s \ {Any(s)}) \in Nat
    BY <1>2, AnyIs
  <2>3. Sum(m, s) \in Nat
    BY <2>1, <2>2
  <2> QED
    BY <2>3
<1>3. \A s \in SUBSET S : s \in G
  <2> HIDE DEF G
  <2> QED
    BY <1>2, SubsetInduction
<1> QED
  BY <1>1, <1>3

\* Any element may be taken first.
LEMMA SumWithout ==
  ASSUME NEW m, NEW S, IsFiniteSet(S), \A b \in S : Stored(m, b) \in Nat
  PROVE  \A s \in SUBSET S : \A x \in s : Sum(m, s) = Stored(m, x) + Sum(m, s \ {x})
<1> DEFINE G == {s \in SUBSET S : \A x \in s : Sum(m, s) = Stored(m, x) + Sum(m, s \ {x})}
<1>1. \A s \in SUBSET S : Sum(m, s) \in Nat /\ IsFiniteSet(s)
  BY SumNat
<1>2. ASSUME NEW s \in SUBSET S, \A t \in SUBSET s : t # s => t \in G PROVE s \in G
  <2> SUFFICES ASSUME NEW x \in s PROVE Sum(m, s) = Stored(m, x) + Sum(m, s \ {x})
    OBVIOUS
  <2>1. PICK y \in s : y = Any(s)
    BY AnyIs
  <2>2. Sum(m, s) = Stored(m, y) + Sum(m, s \ {y})
    BY <1>1, <2>1, SumSteps
  <2>3. CASE x = y
    BY <2>2, <2>3
  <2>4. CASE x # y
    <3>1. s \ {y} \in G /\ s \ {x} \in G /\ x \in s \ {y} /\ y \in s \ {x}
      BY <1>2, <2>4
    <3>2. PICK t : t = (s \ {y}) \ {x}
      OBVIOUS
    <3>3. t = (s \ {x}) \ {y} /\ t \in SUBSET S
      BY <3>2
    <3>4. Sum(m, s \ {y}) = Stored(m, x) + Sum(m, t)
      BY <3>1, <3>2
    <3>5. Sum(m, s \ {x}) = Stored(m, y) + Sum(m, t)
      BY <3>1, <3>3
    <3>6. Stored(m, x) \in Nat /\ Stored(m, y) \in Nat /\ Sum(m, t) \in Nat
      BY <1>1, <3>3
    <3> QED
      BY <2>2, <3>4, <3>5, <3>6
  <2> QED
    BY <2>3, <2>4
<1>3. \A s \in SUBSET S : s \in G
  <2> HIDE DEF G
  <2> QED
    BY <1>2, SubsetInduction
<1> QED
  BY <1>3

\* The sum over a set is that over a part of it and over the rest.
LEMMA SumSplit ==
  ASSUME NEW m, NEW S, IsFiniteSet(S), \A b \in S : Stored(m, b) \in Nat, NEW A \in SUBSET S
  PROVE  Sum(m, S) = Sum(m, A) + Sum(m, S \ A)
<1> DEFINE G == {s \in SUBSET S : Sum(m, S) = Sum(m, s) + Sum(m, S \ s)}
<1>1. \A s \in SUBSET S : Sum(m, s) \in Nat /\ IsFiniteSet(s)
  BY SumNat
<1>2. ASSUME NEW s \in SUBSET S, \A t \in SUBSET s : t # s => t \in G PROVE s \in G
  <2>1. CASE s = {}
    <3>1. Sum(m, s) = 0 /\ S \ s = S
      BY <1>1, <2>1, SumSteps
    <3>2. Sum(m, S) = Sum(m, s) + Sum(m, S \ s)
      BY <1>1, <3>1
    <3> QED
      BY <3>2
  <2>2. CASE s # {}
    <3>1. PICK x \in s : TRUE
      BY <2>2
    <3>2. PICK t, u, v : t = s \ {x} /\ u = S \ t /\ v = S \ s
      OBVIOUS
    <3>3. t \in SUBSET S /\ u \in SUBSET S /\ v \in SUBSET S /\ x \in u /\ u \ {x} = v
      BY <3>1, <3>2
    <3>4. Sum(m, S) = Sum(m, t) + Sum(m, u)
      BY <1>2, <3>1, <3>2
    <3>5. Sum(m, u) = Stored(m, x) + Sum(m, v) /\ Sum(m, s) = Stored(m, x) + Sum(m, t)
      BY <3>1, <3>2, <3>3, SumWithout
    <3>6. Sum(m, t) \in Nat /\ Sum(m, v) \in Nat /\ Stored(m, x) \in Nat
      BY <1>1, <3>1, <3>3
    <3>7. Sum(m, S) = Sum(m, s) + Sum(m, v)
      BY <3>4, <3>5, <3>6
    <3> QED
      BY <3>2, <3>7
  <2> QED
    BY <2>1, <2>2
<1>3. \A s \in SUBSET S : s \in G
  <2> HIDE DEF G
  <2> QED
    BY <1>2, SubsetInduction
<1> QED
  BY <1>3

\* Mirrors with the same events in a set of blocks have the same sum over it.
LEMMA SumSame ==
  ASSUME NEW m, NEW p, NEW S, IsFiniteSet(S), \A b \in S : Stored(m, b) = Stored(p, b)
  PROVE  Sum(m, S) = Sum(p, S)
<1> DEFINE G == {s \in SUBSET S : Sum(m, s) = Sum(p, s)}
<1>1. ASSUME NEW s \in SUBSET S, \A t \in SUBSET s : t # s => t \in G PROVE s \in G
  <2>1. IsFiniteSet(s)
    BY FS_Subset
  <2>2. /\ Sum(m, s) = IF s = {} THEN 0 ELSE Stored(m, Any(s)) + Sum(m, s \ {Any(s)})
        /\ Sum(p, s) = IF s = {} THEN 0 ELSE Stored(p, Any(s)) + Sum(p, s \ {Any(s)})
    BY <2>1, SumSteps
  <2>3. s # {} => /\ Stored(m, Any(s)) = Stored(p, Any(s))
                  /\ Sum(m, s \ {Any(s)}) = Sum(p, s \ {Any(s)})
    BY <1>1, AnyIs
  <2>4. Sum(m, s) = Sum(p, s)
    BY <2>2, <2>3, Zenon
  <2> QED
    BY <2>4
<1>2. \A s \in SUBSET S : s \in G
  <2> HIDE DEF G
  <2> QED
    BY <1>1, SubsetInduction
<1> QED
  BY <1>2

\* The active blocks of the chain.
Active == {b \in Blocks : events[b] > 0}

(***************************************************************************)
(* The report that is corrected from the gaps alone is that of the whole   *)
(* range: every active block that is no gap has the chain's events.        *)
(***************************************************************************)
LEMMA RefreshedIs ==
  ASSUME GivenOK, got = events, NEW m \in [Blocks -> Nat \cup {NoRow}],
         NEW r, r = Coverage(m, events, Active),
         NEW p, p = [b \in Blocks |-> IF b \in Gaps(r) THEN events[b] ELSE m[b]]
  PROVE  Refreshed(r, p) = Coverage(p, events, Active)
<1> DEFINE D == Gaps(r)
<1>1. PICK e : e = events
  OBVIOUS
<1>2. /\ \A b \in Blocks : e[b] \in Int /\ m[b] \in Nat \cup {NoRow}
      /\ \A b \in Active : b \in Blocks /\ e[b] > 0
      /\ NoRow = -1
  BY <1>1, EventsType DEF Active, NoRow
<1>3. \A b \in Blocks : /\ Stored(m, b) \in Nat
                        /\ InMirror(m, b) => Stored(m, b) = m[b]
                        /\ ~InMirror(m, b) <=> m[b] = NoRow
  BY <1>2 DEF Stored, InMirror
<1>4. D = {b \in Active : ~InMirror(m, b)} \cup {b \in Active : InMirror(m, b) /\ Stored(m, b) < e[b]}
          \cup {b \in Active : InMirror(m, b) /\ Stored(m, b) > e[b]}
  BY <1>1 DEF Gaps, Coverage
<1>5. \A b \in Active : b \notin D => InMirror(m, b) /\ m[b] = e[b] /\ Stored(m, b) = e[b]
  BY <1>2, <1>3, <1>4
<1>6. D \subseteq Active /\ IsFiniteSet(Active)
  <2>1. IsFiniteSet(Blocks)
    BY FS_Interval DEF Blocks
  <2> QED
    BY <1>4, <2>1, FS_Subset DEF Active
<1> HIDE DEF D
<1>7. \A b \in Active : p[b] = e[b]
  BY <1>1, <1>2, <1>5 DEF D
<1>8. \A b \in Active : InMirror(p, b) /\ Stored(p, b) = e[b] /\ Stored(p, b) \in Nat
  BY <1>2, <1>7 DEF Stored, InMirror
<1>9. ASSUME NEW bs \in SUBSET Active
      PROVE  Coverage(p, e, bs) =
               [missing |-> {}, undercounted |-> {}, overcounted |-> {}, read |-> p,
                blocks |-> Cardinality(bs), events |-> Sum(p, bs)]
  <2>1. \A b \in bs : InMirror(p, b) /\ Stored(p, b) = e[b] /\ e[b] \in Int
    BY <1>2, <1>8
  <2>2. /\ {b \in bs : ~InMirror(p, b)} = {} /\ {b \in bs : InMirror(p, b)} = bs
        /\ {b \in bs : InMirror(p, b) /\ Stored(p, b) < e[b]} = {}
        /\ {b \in bs : InMirror(p, b) /\ Stored(p, b) > e[b]} = {}
    BY <2>1
  <2> QED
    BY <2>2, Zenon DEF Coverage, Sum
<1>10. PICK R, k, o, x, y : /\ R = Active \ D /\ k = {b \in Active : InMirror(m, b)}
                            /\ o = {b \in D : InMirror(m, b)}
                            /\ x = Sum(m, Active) /\ y = Sum(m, D)
  OBVIOUS
<1>11. r.blocks = Cardinality(k) /\ r.events = x /\ r.read = m
  BY <1>10 DEF Coverage, Sum
<1>12. OldBlocks(r) = Cardinality(o) /\ OldEvents(r) = y
  BY <1>10, <1>11 DEF OldBlocks, OldEvents, D, Sum
<1>13. /\ IsFiniteSet(D) /\ IsFiniteSet(R) /\ IsFiniteSet(k) /\ IsFiniteSet(o)
       /\ Cardinality(D) \in Nat /\ Cardinality(R) \in Nat /\ Cardinality(o) \in Nat
  BY <1>6, <1>10, FS_Subset, FS_CardinalityType
<1>14. ASSUME NEW A, NEW B, IsFiniteSet(A), IsFiniteSet(B), A \cap B = {}
       PROVE  Cardinality(A \cup B) = Cardinality(A) + Cardinality(B)
  <2>1. Cardinality(A \cup B) = Cardinality(A) + Cardinality(B) - Cardinality(A \cap B)
    BY <1>14, FS_Union
  <2>2. Cardinality(A \cap B) = 0
    BY <1>14, FS_EmptySet
  <2>3. Cardinality(A) \in Nat /\ Cardinality(B) \in Nat
    BY <1>14, FS_CardinalityType
  <2> QED
    BY <2>1, <2>2, <2>3
<1>15. /\ Cardinality(Active) = Cardinality(D) + Cardinality(R)
       /\ Cardinality(k) = Cardinality(o) + Cardinality(R)
  <2>1. Active = D \cup R /\ D \cap R = {} /\ k = o \cup R /\ o \cap R = {}
    BY <1>5, <1>6, <1>10
  <2>2. /\ Cardinality(D \cup R) = Cardinality(D) + Cardinality(R)
        /\ Cardinality(o \cup R) = Cardinality(o) + Cardinality(R)
    BY <1>13, <1>14, <2>1
  <2> QED
    BY <2>1, <2>2
<1>16. SaturatingSub(Cardinality(k), Cardinality(o)) + Cardinality(D) = Cardinality(Active)
  BY <1>13, <1>15, MaxOfTwo DEF SaturatingSub
<1>17. /\ x = y + Sum(m, R) /\ y \in Nat /\ Sum(m, R) \in Nat
       /\ Sum(p, Active) = Sum(p, D) + Sum(p, R) /\ Sum(p, D) \in Nat /\ Sum(p, R) \in Nat
  <2>1. D \in SUBSET Active /\ R \in SUBSET Active
    BY <1>6, <1>10
  <2>2. \A b \in Active : Stored(m, b) \in Nat /\ Stored(p, b) \in Nat
    BY <1>2, <1>3, <1>8
  <2>3. Sum(m, Active) = Sum(m, D) + Sum(m, Active \ D)
        /\ Sum(p, Active) = Sum(p, D) + Sum(p, Active \ D)
    BY <1>6, <2>1, <2>2, SumSplit
  <2>4. /\ Sum(m, D) \in Nat /\ Sum(m, R) \in Nat /\ Sum(p, D) \in Nat /\ Sum(p, R) \in Nat
    BY <1>6, <2>1, <2>2, SumNat
  <2> QED
    BY <1>10, <2>3, <2>4
<1>18. Sum(m, R) = Sum(p, R)
  <2>1. \A b \in R : Stored(m, b) = Stored(p, b)
    BY <1>5, <1>8, <1>10
  <2> QED
    BY <1>13, <2>1, SumSame
<1>19. SaturatingSub(x, y) + Sum(p, D) = Sum(p, Active)
  <2>1. PICK c \in Nat, d \in Nat : c = Sum(m, R) /\ d = Sum(p, D)
    BY <1>17
  <2>2. x = y + c /\ y \in Nat /\ Sum(p, Active) = d + c
    BY <1>17, <1>18, <2>1
  <2>3. SaturatingSub(x, y) = c
    BY <2>2, MaxOfTwo DEF SaturatingSub
  <2> QED
    BY <2>1, <2>2, <2>3
<1>20. Refreshed(r, p) =
         [Coverage(p, e, D) EXCEPT !.blocks = SaturatingSub(Cardinality(k), Cardinality(o)) + @,
                                   !.events = SaturatingSub(x, y) + @]
  BY <1>1, <1>11, <1>12 DEF Refreshed, D
<1>21. Coverage(p, e, D) =
         [missing |-> {}, undercounted |-> {}, overcounted |-> {}, read |-> p,
          blocks |-> Cardinality(D), events |-> Sum(p, D)]
  BY <1>6, <1>9
<1>22. Refreshed(r, p) =
         [missing |-> {}, undercounted |-> {}, overcounted |-> {}, read |-> p,
          blocks |-> SaturatingSub(Cardinality(k), Cardinality(o)) + Cardinality(D),
          events |-> SaturatingSub(x, y) + Sum(p, D)]
  <2>1. PICK q, w, d, c, C : /\ q = SaturatingSub(Cardinality(k), Cardinality(o))
                             /\ w = SaturatingSub(x, y) /\ d = Cardinality(D) /\ c = Sum(p, D)
                             /\ C = Coverage(p, e, D)
    OBVIOUS
  <2>2. Refreshed(r, p) = [C EXCEPT !.blocks = q + @, !.events = w + @]
    BY <1>20, <2>1
  <2>3. C = [missing |-> {}, undercounted |-> {}, overcounted |-> {}, read |-> p,
             blocks |-> d, events |-> c]
    BY <1>21, <2>1
  <2>4. Refreshed(r, p) = [missing |-> {}, undercounted |-> {}, overcounted |-> {}, read |-> p,
                           blocks |-> q + d, events |-> w + c]
    BY <2>2, <2>3
  <2> QED
    BY <2>1, <2>4
<1>23. Coverage(p, e, Active) =
         [missing |-> {}, undercounted |-> {}, overcounted |-> {}, read |-> p,
          blocks |-> Cardinality(Active), events |-> Sum(p, Active)]
  BY <1>9
<1> QED
  BY <1>1, <1>16, <1>19, <1>22, <1>23

(***************************************************************************)
(* During the repair the mirror is what the audit read with the gaps       *)
(* already done replaced, and the report is still that of what was read.   *)
(***************************************************************************)
ReportInv ==
  /\ phase # "scan" => pc = "done"
  /\ phase = "repair" =>
       /\ report.read \in [Blocks -> Nat \cup {NoRow}]
       /\ report = Coverage(report.read, events, Active) /\ todo \subseteq Gaps(report)
       /\ mirror = [b \in Blocks |->
                      IF b \in Gaps(report) \ todo THEN events[b] ELSE report.read[b]]
  /\ AuditExact

LEMMA NextReport == ScanIndInv /\ ReportInv /\ [AuditNext]_allVars => ReportInv'
<1> SUFFICES ASSUME ScanIndInv, ReportInv, [AuditNext]_allVars PROVE ReportInv'
  OBVIOUS
<1>1. events' = events /\ Active' = Active /\ GivenOK
  BY GivenStays DEF ScanIndInv, ScanInv, Active
<1>2. pc = "done" => got = events
  BY DEF ScanIndInv, ScanInv, events, Blocks
<1>3. CASE \E m \in [Blocks -> Counts \cup {NoRow}], repair \in BOOLEAN : Audit(m, repair)
  <2>1. PICK m \in [Blocks -> Counts \cup {NoRow}], repair \in BOOLEAN : Audit(m, repair)
    BY <1>3
  <2>2. ActiveBlocks = Active /\ got = events /\ pc' = "done"
    BY <1>2, <2>1 DEF Audit, ActiveBlocks, Active, vars, scanVars
  <2>3. PICK r : r = Coverage(m, events, Active)
    OBVIOUS
  <2>4. /\ mirror' = m /\ report' = r /\ todo' \in {Gaps(r), {}}
        /\ phase' \in {"ended", "repair"} /\ (phase' = "repair" => todo' = Gaps(r))
    BY <2>1, <2>2, <2>3 DEF Audit
  <2>5. r.read = m
    BY <2>3 DEF Coverage
  <2>6. m \in [Blocks -> Nat \cup {NoRow}]
    <3>1. Counts \subseteq Nat
      BY ScanAssumption
    <3> QED
      BY <3>1
  <2>7. phase' = "repair" =>
          mirror' = [b \in Blocks |-> IF b \in Gaps(r) \ todo' THEN events[b] ELSE r.read[b]]
    BY <2>4, <2>5, <2>6
  <2>8. AuditExact'
    BY <1>1, <2>3, <2>4 DEF AuditExact, Active
  <2> QED
    BY <1>1, <2>2, <2>3, <2>4, <2>5, <2>6, <2>7, <2>8 DEF ReportInv
<1>4. CASE Reingest
  <2>1. PICK x : x = Min(todo)
    OBVIOUS
  <2>2. /\ mirror' = [mirror EXCEPT ![x] = events[x]] /\ todo' = todo \ {x} /\ todo # {}
        /\ UNCHANGED <<report, phase, pc>> /\ phase = "repair"
    BY <1>4, <2>1 DEF Reingest, vars, scanVars
  <2>3. PICK G : G = Gaps(report)
    OBVIOUS
  <2>4. x \in todo /\ todo \subseteq G /\ G \subseteq Blocks
    <3>1. todo \subseteq G /\ G \subseteq Blocks
      <4>1. report = Coverage(report.read, events, Active) /\ todo \subseteq Gaps(report)
        BY <2>2 DEF ReportInv
      <4>2. /\ report.missing \subseteq Active /\ report.undercounted \subseteq Active
            /\ report.overcounted \subseteq Active
        BY <4>1 DEF Coverage
      <4> QED
        BY <2>3, <4>1, <4>2 DEF Gaps, Active
    <3>2. \A s \in todo : s \in Nat
      BY <3>1 DEF Blocks
    <3>3. PICK n \in todo : \A s \in todo : n <= s
      BY <2>2, <3>2, LeastOf
    <3>4. Min(todo) \in todo
      BY <3>3 DEF Min
    <3> QED
      BY <2>1, <3>1, <3>4
  <2>5. mirror = [b \in Blocks |-> IF b \in G \ todo THEN events[b] ELSE report.read[b]]
    BY <2>2, <2>3 DEF ReportInv
  <2>6. mirror' = [b \in Blocks |-> IF b \in G \ todo' THEN events[b] ELSE report.read[b]]
    BY <2>2, <2>4, <2>5
  <2> QED
    BY <1>1, <2>2, <2>3, <2>4, <2>6 DEF ReportInv, AuditExact
<1>5. CASE Recheck
  <2>1. /\ phase = "repair" /\ todo = {} /\ report' = Refreshed(report, mirror) /\ phase' = "ended"
        /\ UNCHANGED <<mirror, todo, pc>>
    BY <1>5 DEF Recheck, vars, scanVars
  <2>2. PICK m, r, p : m = report.read /\ r = report /\ p = mirror
    OBVIOUS
  <2>3. /\ m \in [Blocks -> Nat \cup {NoRow}] /\ r = Coverage(m, events, Active)
        /\ p = [b \in Blocks |-> IF b \in Gaps(r) THEN events[b] ELSE m[b]]
    BY <2>1, <2>2 DEF ReportInv
  <2>4. Refreshed(r, p) = Coverage(p, events, Active)
    BY <1>1, <1>2, <2>1, <2>3, RefreshedIs DEF ReportInv
  <2>5. AuditExact'
    BY <1>1, <2>1, <2>2, <2>4 DEF AuditExact, Active
  <2> QED
    BY <2>1, <2>5 DEF ReportInv
<1>6. CASE ReingestFails \/ UNCHANGED allVars
  BY <1>1, <1>6 DEF ReportInv, ReingestFails, AuditExact, allVars, auditVars, vars, scanVars, Active
<1>7. CASE (Scan \/ Proof \/ AskProof) /\ UNCHANGED auditVars
  <2>1. phase # "scan" => pc' = "done"
    BY <1>7 DEF ReportInv, Scan, TransportFails, Throttled, Pruned, Page, Proof, AskProof,
       ProofServed, ProofRefused, ProofPruned, ProofUnreachable, scanVars
  <2> QED
    BY <1>1, <1>7, <2>1 DEF ReportInv, AuditExact, auditVars
<1> QED
  BY <1>3, <1>4, <1>5, <1>6, <1>7 DEF AuditNext, AuditStep

(***************************************************************************)
(* audit-coverage: the report the command ends with, of which only the     *)
(* gaps were read again and the counters corrected by the difference, is   *)
(* the one a second audit of the whole range would give, for every chain,  *)
(* mirror and page limit (refreshed_after_repair).                         *)
(***************************************************************************)
THEOREM FinalReportIsExact == AuditSpec => []AuditExact
<1>1. AuditInit => ReportInv
  BY DEF AuditInit, ReportInv, AuditExact
<1>2. ReportInv => AuditExact
  BY DEF ReportInv
<1> QED
  BY <1>1, <1>2, NextReport, ScanIndInvHolds, AuditScans, PTL DEF AuditSpec
=============================================================================
