------------------------------ MODULE FeedLog ------------------------------
(***************************************************************************)
(* What the publisher promises a consumer of the feed, whatever happens to *)
(* the chain, the endpoints and the process: the published epochs are one  *)
(* append-only log of adjacent block ranges, and a range is published only *)
(* once its last block is at or below a final height that never falls.     *)
(* Indexer implements this log.                                            *)
(***************************************************************************)
EXTENDS Integers, Sequences

CONSTANTS
  Size,    \* blocks per epoch
  First    \* index of the first epoch

VARIABLES
  log,     \* published epochs, each with its range [from, to] and content
  final    \* height up to which the publisher holds the chain to be final

Init == log = <<>> /\ final = 0

Advance ==
  /\ final' >= final
  /\ UNCHANGED log

Publish ==
  LET idx == First + Len(log)
      e   == log'[Len(log) + 1]
  IN  /\ Len(log') = Len(log) + 1
      /\ SubSeq(log', 1, Len(log)) = log
      /\ e.from = idx * Size
      /\ e.to = idx * Size + Size - 1
      /\ e.to <= final
      /\ UNCHANGED final

Next == Advance \/ Publish

Spec == Init /\ [][Next]_<<log, final>>
=============================================================================
