----------------------------- MODULE MCTsCache -----------------------------
(***************************************************************************)
(* TsCache on a small range. ReadBound caps the history of reads, which    *)
(* alone makes the state space grow: enough reads to fill both generations *)
(* and collapse one into the floor.                                        *)
(***************************************************************************)
EXTENDS TsCache

CONSTANTS t1, MaxReads

MCTxns == {t1}
MCTimes == 1 .. 2

\* The write admitted last is a label of the step, not state the cache reads:
\* states that differ only in it are one.
CacheView == <<cache, reads>>

ReadBound == Cardinality(reads) <= MaxReads
=============================================================================
