--------------------------- MODULE CoverageAudit ---------------------------
(***************************************************************************)
(* The seeker pass, `strk20 audit-coverage [--repair]` (indexerd/src/      *)
(* main.rs, ingest.rs): the scan of EventScan run as a command of its own, *)
(* whose answer is compared with the mirror block by block; the blocks     *)
(* that differ are re-ingested one by one and looked at again.             *)
(***************************************************************************)
EXTENDS EventScan

VARIABLES
  command,   \* what the scan is run for: "ingest" or "audit"
  phase,     \* the audit: "scan", "repair", "ended" or "failed"
  mirror,    \* stored events of each block, NoRow without a row; read after the scan
  report,    \* CoverageReport
  todo       \* blocks yet to be re-ingested

auditVars == <<command, phase, mirror, report, todo>>
allVars   == <<vars, auditVars>>

NoRow == -1
InMirror(m, b) == m[b] # NoRow
\* events_of_block: a block without a row has no events.
Stored(m, b) == IF InMirror(m, b) THEN m[b] ELSE 0

(***************************************************************************)
(* A CoverageReport on the blocks bs: three kinds of gap, what was read of *)
(* the mirror for them, and the counters of what it holds; chain is the    *)
(* number of events the scan found.                                        *)
(***************************************************************************)
Coverage(m, chain, bs) ==
  [missing      |-> {b \in bs : ~InMirror(m, b)},
   undercounted |-> {b \in bs : InMirror(m, b) /\ Stored(m, b) < chain[b]},
   overcounted  |-> {b \in bs : InMirror(m, b) /\ Stored(m, b) > chain[b]},
   read         |-> m,
   blocks       |-> Cardinality({b \in bs : InMirror(m, b)}),
   events       |-> MapThenSumSet(LAMBDA b : Stored(m, b), bs)]
\* repair_blocks.  Mutant: a block with a lost page is overlooked.
GapsNoUndercount(r) == r.missing \cup r.overcounted
Gaps(r) == r.missing \cup r.undercounted \cup r.overcounted
ActiveBlocks == {b \in Blocks : got[b] > 0}

(***************************************************************************)
(* refreshed_after_repair: only the gaps are read again, and the counters  *)
(* are corrected by the difference.                                        *)
(***************************************************************************)
SaturatingSub(x, y) == Max({x - y, 0})
\* Mutant: what was counted for an overcounted block is not taken back.
OldEventsNoOver(r) == MapThenSumSet(LAMBDA b : Stored(r.read, b), r.missing \cup r.undercounted)
OldEvents(r) == MapThenSumSet(LAMBDA b : Stored(r.read, b), Gaps(r))
OldBlocks(r) == Cardinality({b \in Gaps(r) : InMirror(r.read, b)})
Refreshed(r, m) ==
  [Coverage(m, got, Gaps(r)) EXCEPT
     !.blocks = SaturatingSub(r.blocks, OldBlocks(r)) + @,
     !.events = SaturatingSub(r.events, OldEvents(r)) + @]

AuditInit ==
  /\ Init
  /\ command \in {"ingest", "audit"}
  /\ command = "audit" => provers = {}   \* it asks for no proofs
  /\ phase = "scan" /\ mirror = [b \in Blocks |-> NoRow]
  /\ report = Coverage(mirror, got, {}) /\ todo = {}
-----------------------------------------------------------------------------
(***************************************************************************)
(* audit_coverage on the mirror m it finds, once the scan is complete (one *)
(* that failed ends the command).                                          *)
(***************************************************************************)
Audit(m, repair) ==
  LET found == Coverage(m, got, ActiveBlocks)
  IN  /\ command = "audit" /\ phase = "scan" /\ pc = "done"
      /\ mirror' = m /\ report' = found
      /\ todo' = IF repair THEN Gaps(found) ELSE {}
      /\ phase' = IF todo' = {} THEN "ended" ELSE "repair"
      /\ UNCHANGED <<vars, command>>

(***************************************************************************)
(* reingest_blocks, in ascending order: the row is replaced and the events *)
(* of the old one go with it (ON DELETE CASCADE).  A block that cannot be  *)
(* fetched ends the command; the blocks before it stay repaired.  After    *)
(* the last, the report is refreshed.                                      *)
(***************************************************************************)
Reingest ==
  /\ phase = "repair" /\ todo # {}
  /\ mirror' = [mirror EXCEPT ![Min(todo)] = events[Min(todo)]]
  /\ todo' = todo \ {Min(todo)}
  /\ UNCHANGED <<vars, command, phase, report>>
ReingestFails ==
  /\ phase = "repair" /\ todo # {}
  /\ phase' = "failed"
  /\ UNCHANGED <<vars, command, mirror, report, todo>>
Recheck ==
  /\ phase = "repair" /\ todo = {}
  /\ report' = Refreshed(report, mirror)
  /\ phase' = "ended"
  /\ UNCHANGED <<vars, command, mirror, todo>>

AuditStep ==
  \/ \E m \in [Blocks -> Counts \cup {NoRow}], repair \in BOOLEAN : Audit(m, repair)
  \/ Reingest
  \/ ReingestFails
  \/ Recheck
AuditNext ==
  \/ (Scan \/ Proof) /\ UNCHANGED auditVars
  \/ command = "ingest" /\ AskProof /\ UNCHANGED auditVars
  \/ AuditStep
AuditSpec ==
  AuditInit /\ [][AuditNext]_allVars
  /\ WF_allVars(Scan /\ UNCHANGED auditVars) /\ WF_allVars(Proof /\ UNCHANGED auditVars)
-----------------------------------------------------------------------------
(***************************************************************************)
(* What the command reports is what it leaves: the gaps and counters of    *)
(* the final report are those a second audit of the whole range would      *)
(* find, although only the gaps were read again and the counters corrected *)
(* (refreshed_after_repair: "the state the operator is left in").          *)
(***************************************************************************)
AuditExact ==
  phase = "ended" => report = Coverage(mirror, events, {b \in Blocks : events[b] > 0})

(***************************************************************************)
(* A block the command has taken up for repair is left as the chain has    *)
(* it: nothing is missing, short or in excess among the active blocks once *)
(* every re-ingest went through, and of one that stopped half-way the      *)
(* blocks not reached are still to be done (reingest_blocks,               *)
(* repair_blocks: "every block that needs re-ingesting").                  *)
(***************************************************************************)
RepairCloses ==
  phase \in {"repair", "failed"} =>
    \A b \in Blocks : events[b] > 0 /\ mirror[b] # events[b] => b \in todo
=============================================================================
