----------------------------- MODULE MCCrawlTask -----------------------------
(* Instance of CrawlTask for TLC. *)
EXTENDS CrawlTask, TLC

SlotSymmetry == Permutations(Slots)
=============================================================================
