------------------------------- MODULE Latch -------------------------------
(***************************************************************************)
(* The span latches of one range (kvserver/latch.go): a set of held        *)
(* latches, an index of the point spans by key and the subset that holds a *)
(* ranged span. A request acquires all of its spans at once, or waits for  *)
(* one conflicting holder and scans again.                                 *)
(***************************************************************************)
EXTENDS Integers, FiniteSets

CONSTANTS NumKeys,      \* keys 0 .. NumKeys-1
          Requests,     \* requests, one latch each
          NoOne,        \* no latch
          Batches       \* the sets of spans a request may name

NoEnd  == 0             \* a nil End: the span is the single key Start
Keys   == 0 .. NumKeys - 1
Points == [start : Keys, end : {NoEnd}]
Ranges == {s \in [start : Keys, end : 1 .. NumKeys] : s.start < s.end}
Spans  == Points \cup Ranges
Modes  == {"shared", "exclusive"}

ASSUME NumKeysAssumption == NumKeys \in Nat \ {0}
ASSUME NoOneAssumption   == NoOne \notin Requests
ASSUME BatchesAssumption == Batches \subseteq SUBSET Spans

VARIABLES pc,           \* where each request stands in Acquire and Release
          spans, mode,  \* the latch of each request
          wait,         \* the holder whose done channel a waiter selects on
          held, points, ranged   \* latchManager

manager == <<held, points, ranged>>
vars    == <<pc, spans, mode, wait, held, points, ranged>>

overlaps(a, b) ==
  \/ a.end = NoEnd /\ b.end = NoEnd /\ a.start = b.start
  \/ a.end = NoEnd /\ b.end # NoEnd /\ b.start <= a.start /\ a.start < b.end
  \/ a.end # NoEnd /\ b.end = NoEnd /\ a.start <= b.start /\ b.start < a.end
  \/ a.end # NoEnd /\ b.end # NoEnd /\ a.start < b.end /\ b.start < a.end

conflicts(l, h) == mode[l] = "exclusive" \/ mode[h] = "exclusive"

PointsOf(l) == {s.start : s \in {x \in spans[l] : x.end = NoEnd}}

IsRanged(l) == \E s \in spans[l] : s.end # NoEnd

(***************************************************************************)
(* The holders findConflict may return for l. A ranged span is compared    *)
(* with every holder; a point is looked up in the index and compared with  *)
(* the ranged spans of the ranged holders. Maps iterate in any order.      *)
(***************************************************************************)
FoundByIndexOnly(l) ==        \* seeded fault: a point never meets the ranged holders
  UNION {IF s.end # NoEnd
         THEN {h \in held : conflicts(l, h) /\ \E hs \in spans[h] : overlaps(hs, s)}
         ELSE {h \in points[s.start] : conflicts(l, h)} : s \in spans[l]}

findConflict(l) ==
  UNION {IF s.end # NoEnd
         THEN {h \in held : conflicts(l, h) /\ \E hs \in spans[h] : overlaps(hs, s)}
         ELSE {h \in points[s.start] : conflicts(l, h)}
              \cup {h \in ranged : /\ conflicts(l, h)
                                   /\ \E hs \in spans[h] : hs.end # NoEnd /\ overlaps(hs, s)}
         : s \in spans[l]}

insert(l) ==
  /\ held' = held \cup {l}
  /\ ranged' = IF IsRanged(l) THEN ranged \cup {l} ELSE ranged
  /\ points' = [k \in Keys |-> IF k \in PointsOf(l) THEN points[k] \cup {l} ELSE points[k]]

remove(l) ==
  /\ held' = held \ {l}
  /\ ranged' = ranged \ {l}
  /\ points' = [k \in Keys |-> IF k \in PointsOf(l) THEN points[k] \ {l} ELSE points[k]]
----------------------------------------------------------------------------
Init == /\ pc = [l \in Requests |-> "idle"]
        /\ spans = [l \in Requests |-> {}]
        /\ mode = [l \in Requests |-> "shared"]
        /\ wait = [l \in Requests |-> NoOne]
        /\ held = {} /\ ranged = {} /\ points = [k \in Keys |-> {}]

\* A request arrives: latchSpans gives its spans and mode.
Arrive(l, S, m) ==
  /\ pc[l] = "idle"
  /\ pc' = [pc EXCEPT ![l] = "scan"]
  /\ spans' = [spans EXCEPT ![l] = S]
  /\ mode' = [mode EXCEPT ![l] = m]
  /\ UNCHANGED <<wait, manager>>

\* One turn of Acquire's loop: no conflict, and the latch is held; otherwise the
\* request is left with one conflicting latch's done channel.
Scan(l) ==
  /\ pc[l] = "scan"
  /\ \/ /\ findConflict(l) = {}
        /\ insert(l)
        /\ pc' = [pc EXCEPT ![l] = "held"]
        /\ UNCHANGED wait
     \/ \E h \in findConflict(l) :
          /\ pc' = [pc EXCEPT ![l] = "waiting"]
          /\ wait' = [wait EXCEPT ![l] = h]
          /\ UNCHANGED manager
  /\ UNCHANGED <<spans, mode>>

\* The context ends while the request waits: Acquire returns its error.
Cancel(l) ==
  /\ pc[l] = "waiting"
  /\ pc' = [pc EXCEPT ![l] = "cancelled"]
  /\ wait' = [wait EXCEPT ![l] = NoOne]
  /\ UNCHANGED <<spans, mode, manager>>

\* Release, under the mutex: the latch leaves the manager ...
Release(l) ==
  /\ pc[l] = "held"
  /\ remove(l)
  /\ pc' = [pc EXCEPT ![l] = "closing"]
  /\ UNCHANGED <<spans, mode, wait>>

\* ... and only then, outside it, its done channel is closed: all of its
\* waiters scan again.
Woken(l) == {x \in Requests : pc[x] = "waiting" /\ wait[x] = l}

CloseExclusive(l) ==          \* seeded fault: only a writer's channel is closed
  /\ pc[l] = "closing" /\ mode[l] = "exclusive"
  /\ pc' = [x \in Requests |-> IF x = l THEN "done"
                               ELSE IF x \in Woken(l) THEN "scan" ELSE pc[x]]
  /\ wait' = [x \in Requests |-> IF x \in Woken(l) THEN NoOne ELSE wait[x]]
  /\ UNCHANGED <<spans, mode, manager>>

Close(l) ==
  /\ pc[l] = "closing"
  /\ pc' = [x \in Requests |-> IF x = l THEN "done"
                               ELSE IF x \in Woken(l) THEN "scan" ELSE pc[x]]
  /\ wait' = [x \in Requests |-> IF x \in Woken(l) THEN NoOne ELSE wait[x]]
  /\ UNCHANGED <<spans, mode, manager>>

Next == \E l \in Requests :
          \/ \E S \in Batches, m \in Modes : Arrive(l, S, m)
          \/ Scan(l) \/ Cancel(l) \/ Release(l) \/ Close(l)

Spec == Init /\ [][Next]_vars

\* The goroutine of a request that has arrived keeps running: it scans, and it
\* ends what it does under its latch and releases it (a deferred call).
FairSpec == Spec /\ \A l \in Requests : WF_vars(Scan(l)) /\ WF_vars(Release(l)) /\ WF_vars(Close(l))
----------------------------------------------------------------------------
\* Type invariant of the manager and of the requests.
TypeOK ==
  /\ pc \in [Requests -> {"idle", "scan", "waiting", "cancelled", "held", "closing", "done"}]
  /\ spans \in [Requests -> {{}} \cup Batches]
  /\ mode \in [Requests -> Modes]
  /\ wait \in [Requests -> Requests \cup {NoOne}]
  /\ held \subseteq Requests /\ ranged \subseteq held
  /\ points \in [Keys -> SUBSET Requests]

Overlapping(a, b) == \E s \in spans[a], t \in spans[b] : overlaps(s, t)

\* The first half of invariant L1 (latch.go): two latches that overlap, one of
\* them exclusive, are never held together, whatever mix of point and ranged
\* spans they name and through whichever index findConflict meets them.
Serialized ==
  \A a, b \in held : (a # b /\ conflicts(a, b)) => ~Overlapping(a, b)

\* Acquire takes all spans at once, "hence no latch-latch deadlock": every
\* request that arrives is answered, with its latch or its context's error,
\* once the requests in front of it end.
EveryoneServed ==
  \A l \in Requests : pc[l] = "scan" ~> pc[l] \in {"done", "cancelled"}
=============================================================================
