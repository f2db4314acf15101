--------------------------- MODULE MCRangeChanges ---------------------------
(***************************************************************************)
(* Changing ranges and finding them.  RangeChanges runs on three nodes, two*)
(* of which hold both ranges, with the calls its environment lets meet; or *)
(* a gateway sends a batch while ranges change under it (Addressing).      *)
(***************************************************************************)
EXTENDS RangeChanges

VARIABLES routing, view, leader, meta, pending, frozen, cache, hints, op, calls, left

routingVars == <<routing, view, leader, meta, pending, frozen, cache, hints, op, calls, left>>

CONSTANTS n1, n2, n3

MCNodes == {n1, n2, n3}
MCHome  == {n1, n2}

AddLeft    == [range |-> "l", node |-> n3, add |-> TRUE]
RemoveLeft == [range |-> "l", node |-> n2, add |-> FALSE]
MCChanges  == {AddLeft, RemoveLeft}

\* A merge that may time out once and lose its leader once.
MergeAlone == [splits |-> {}, changes |-> {}, writes |-> {}, merges |-> TRUE,
               timeouts |-> 1, moves |-> 1, lagging |-> FALSE, snapshots |-> FALSE]

MergeAndSplit  == [MergeAlone EXCEPT !.splits = {2}]
MergeAndRemove == [MergeAlone EXCEPT !.changes = {RemoveLeft}]
MergeAndLeft   == [MergeAndSplit EXCEPT !.changes = {RemoveLeft}, !.moves = 0]
MergeAndWrites == [MergeAlone EXCEPT !.writes = {1, 3}]

\* A split, an addition, a removal and catch-up snapshots.
Members == [MergeAlone EXCEPT !.splits = {2}, !.changes = MCChanges, !.merges = FALSE,
                              !.timeouts = 0, !.moves = 0, !.snapshots = TRUE]

\* Nobody changes the ranges.
Quiet == [MergeAlone EXCEPT !.merges = FALSE, !.timeouts = 0, !.moves = 0]

MCEnvironments == {MergeAndSplit, MergeAndRemove, MergeAndLeft, MergeAndWrites, Members, Quiet}

AddressingIn == INSTANCE Addressing WITH Environments <- {}, env <- routing
A == INSTANCE Addressing WITH Environments <- AddressingIn!Cases \union
    {AddressingIn!Unsent}, env <- routing

MCInit ==
    /\ \/ env = Quiet /\ routing \in AddressingIn!Cases
       \/ env \in MCEnvironments \ {Quiet} /\ routing = AddressingIn!Unsent
    /\ Init /\ A!Init

MCNext == \/ env # Quiet /\ Next /\ UNCHANGED routingVars
          \/ A!Next /\ UNCHANGED vars

MCSpec == MCInit /\ [][MCNext]_<<vars, routingVars>> /\ Fairness

\* However stale what the gateway knows, a batch reaches every range and its
\* answer is that of one big range (Addressing.tla).
RoutingRight == A!BatchRight /\ A!RoutingConverges
=============================================================================
