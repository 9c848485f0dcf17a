----------------------------- MODULE OsvRanges -----------------------------
(***************************************************************************)
(* Which versions an advisory affects, and which later ones are safe        *)
(* (crates/core/src/osv.rs).                                                *)
(*                                                                          *)
(* A version is a natural number.  An advisory's ranges are the sequences   *)
(* of events of those the ecosystem evaluates.  An event is a record of its *)
(* kind ("introduced", "fixed", "last_affected", or "garbled": an           *)
(* introduced bound that cannot be read) and the version it is `at`.  Other *)
(* bounds that cannot be read have no effect and are left out.              *)
(***************************************************************************)
EXTENDS Naturals

Least(S) == {x \in S : \A y \in S : x <= y}
Greatest(S) == {x \in S : \A y \in S : y <= x}

Opening(event) == event.kind \in {"introduced", "garbled"}

\* The walk's outcome for a version is set by the last of the events that it has passed.
Passed(event, v) ==
    \/ event.kind = "garbled"
    \/ event.kind \in {"introduced", "fixed"} /\ event.at <= v
    \/ event.kind = "last_affected" /\ event.at < v
InRange(events, v) ==
    LET passed == {i \in DOMAIN events : Passed(events[i], v)}
    IN  IF passed = {}
        THEN \A i \in DOMAIN events : ~Opening(events[i])
        ELSE \E i \in passed : Opening(events[i]) /\ \A j \in passed : j <= i

Affected(ranges, v) == \E events \in ranges : InRange(events, v)

\* The bounds above v where the verdict may change.
EventAt(ranges, kinds, b) ==
    \E events \in ranges : \E i \in DOMAIN events : events[i].kind \in kinds /\ events[i].at = b
BoundsFixedOnly(ranges, v) ==
    {b \in UNION {{events[i].at : i \in DOMAIN events} : events \in ranges} :
       v < b /\ EventAt(ranges, {"fixed"}, b)}
Bounds(ranges, v) ==
    {b \in UNION {{events[i].at : i \in DOMAIN events} : events \in ranges} :
       v < b /\ EventAt(ranges, {"introduced", "fixed"}, b)}
\* The safe versions above an affected one: each interval starts where something is fixed and
\* nothing is affected, and runs up to the first bound in `until`, for ever when there is none.
SafeIntervals(ranges, v) ==
    IF ~Affected(ranges, v) THEN {}
    ELSE LET bad == {b \in Bounds(ranges, v) : Affected(ranges, b)}
             good == {b \in Bounds(ranges, v) \ bad : EventAt(ranges, {"fixed"}, b)}
             starts == {b \in good : \A c \in good : c < b => \E a \in bad : c < a /\ a < b}
         IN  {[from |-> b, until |-> {a \in bad : b < a}] : b \in starts}

Covers(interval, w) == interval.from <= w /\ \A u \in interval.until : w < u
=============================================================================
