--------------------------- MODULE ReadProtection ---------------------------
(***************************************************************************)
(* What a range's timestamp cache promises, without saying how: a read,    *)
(* once served, is never invalidated by a write admitted later.            *)
(* kvserver/tscache.go implements it; module TsCache is shown to refine it.*)
(***************************************************************************)
EXTENDS Integers

CONSTANTS Overlap(_, _),    \* whether two spans share a key
          NoTxn             \* uuid.Nil: a non-transactional request

VARIABLES reads,            \* every read served: its span, timestamp and reader
          wrote             \* the spans of the write admitted last

rvars == <<reads, wrote>>

(***************************************************************************)
(* A write conflicts with a read it would have to be visible to: the read  *)
(* overlaps it and is newer, or is as new and another transaction's.       *)
(***************************************************************************)
Invalidates(w, r) ==
  /\ Overlap(w.span, r.span)
  /\ \/ w.ts < r.ts
     \/ w.ts = r.ts /\ (w.txn = NoTxn \/ w.txn # r.txn)

RInit == reads = {} /\ wrote = {}

RServe == reads \subseteq reads' /\ wrote' = {}

RAdmit == reads' = reads /\ \A w \in wrote', r \in reads : ~Invalidates(w, r)

RNext == RServe \/ RAdmit

RSpec == RInit /\ [][RNext]_rvars
=============================================================================
