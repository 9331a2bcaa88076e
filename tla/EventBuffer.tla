----------------------------- MODULE EventBuffer -----------------------------
(***************************************************************************)
(* The bounded replay buffer of core/events.py.  Cursors are given out in  *)
(* order and the deque drops its oldest entry when it is full, so the next *)
(* cursor alone tells what the buffer holds: the last Capacity cursors     *)
(* below it.  `mine' is the set of cursors whose event passes the session  *)
(* filter of the stream.                                                   *)
(***************************************************************************)
EXTENDS Integers, FiniteSets

CONSTANTS
    Capacity,       \* maxlen of the deque
    ReplayLimit     \* replay_limit of the stream: events per replay

ASSUME BufferAssumption ==
    /\ Capacity \in Nat \ {0}
    /\ ReplayLimit \in Nat \ {0}

Retained(next) == {n \in 1 .. next - 1 : n >= next - Capacity}

\* The oldest cursor of a buffer that is not empty.
Earliest(next) == IF next > Capacity THEN next - Capacity ELSE 1

\* The newest cursor, or `otherwise' when nothing has been published.
Latest(next, otherwise) == IF next > 1 THEN next - 1 ELSE otherwise

\* A reader that stands at `cursor' has missed something that is gone.
GapDetected(cursor, next) == next > 1 /\ cursor < Earliest(next) - 1

\* Mutation: the first event after the cursor does not match.
MatchingLater(cursor, next, mine) ==
    {n \in Retained(next) \cap mine : n > cursor + 1}

Matching(cursor, next, mine) ==
    {n \in Retained(next) \cap mine : n > cursor}

\* Mutation: a replay cut to its newest events instead of its oldest.
WindowNewest(cursor, next, mine) ==
    LET all == Matching(cursor, next, mine)
    IN  {n \in all : Cardinality({m \in all : m > n}) < ReplayLimit}

\* The events one replay returns: the oldest ReplayLimit that match.
Window(cursor, next, mine) ==
    LET all == Matching(cursor, next, mine)
    IN  {n \in all : Cardinality({m \in all : m < n}) < ReplayLimit}
=============================================================================
