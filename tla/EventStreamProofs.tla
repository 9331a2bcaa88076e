-------------------------- MODULE EventStreamProofs --------------------------
(***************************************************************************)
(* Proofs about EventStream: an event that the stream passes over is never *)
(* lost in silence, and a connection carries the session's events in order *)
(* and without holes, for any capacity, replay limit and number of faults. *)
(***************************************************************************)
EXTENDS EventStream, FiniteSetTheorems, SequenceTheorems, TLAPS

----------------------------------------------------------------------------
(* The inductive invariant *)

\* A cursor is of this core, or of an earlier one.
Given(c) == c < next \/ c <= stale

GivenCursors ==
    /\ Given(Position) /\ Given(gen.cursor) /\ Given(snap.latest)
    /\ ctrlCursor # NoCursor => Given(ctrlCursor)
    /\ \A i \in 1 .. Len(wire) : Given(wire[i].n)

\* The timer of the recovery runs only while attempts are left.
AttemptsLeft == armed => attempts < MaxAttempts

\* A connection is open, or it is over and the UI knows or will know.
Connection ==
    /\ conn = "waiting" => wire = <<>> /\ gen.pc = "none" /\ cut = "no" /\ needsReconcile
    /\ conn = "open" /\ gen.pc = "none" => cut # "no"
    /\ gen.pc # "none" => conn = "open" /\ cut = "no"
    /\ gen.pc = "opening" => wire = <<>>
    /\ tail => needsReconcile

\* Only state and gap frames announce a gap.
GapFrames ==
    \A i \in 1 .. Len(wire) : wire[i].gap => wire[i].kind \in {"connected", "gap"}

\* What the histories say is about this core.
Histories ==
    /\ covered < next /\ gaveUpAt < next /\ snap.horizon < next
    /\ \A n \in applied : n <= stale \/ (n \in known /\ n < next)

\* The rest of a replay lies ahead of its cursor and has no holes.
Batch ==
    /\ gen.todo # {} => gen.pc = "sending"
    /\ gen.todo \subseteq mine
    /\ \A t \in gen.todo : gen.cursor < t
    /\ \A s, t \in gen.todo : \A n \in mine : s < n /\ n < t => n \in gen.todo

\* Event n is on the wire.
Sent(n) == \E i \in 1 .. Len(wire) : wire[i].kind = "event" /\ wire[i].n = n

\* The generator will not send event n, or not again.
Skipped(n) ==
    \/ n <= gen.cursor
    \/ n \notin gen.todo /\ \E t \in gen.todo : n < t

\* What the generator skips is on the wire, or has reached the UI or is owed.
SkippedInv ==
    \A n \in mine :
      n > stale /\ gen.pc # "none" /\ Skipped(n)
        => Sent(n) \/ Reached(n) \/ SnapshotOwed(n) \/ Excused(n)

\* No gap frame stands between frames i and j.
Clear(i, j) == \A k \in i .. j : wire[k].kind # "gap"

\* Behind an event that no gap frame follows, everything up to the generator's
\* cursor is on the wire and everything up to the end of its batch is in it.
TrailingInv ==
    Streaming =>
      \A i \in 1 .. Len(wire) :
        wire[i].kind = "event" =>
          /\ wire[i].n <= gen.cursor /\ gen.cursor < next
          /\ Clear(i, Len(wire)) =>
               /\ \A n \in mine : wire[i].n < n /\ n <= gen.cursor
                    => \E k \in i .. Len(wire) : wire[k].kind = "event" /\ wire[k].n = n
               /\ \A t \in gen.todo : \A n \in mine :
                    gen.cursor < n /\ n < t => n \in gen.todo

StreamInv ==
    /\ TypeOK
    /\ AttemptsLeft
    /\ GivenCursors
    /\ Connection
    /\ GapFrames
    /\ Histories
    /\ Batch
    /\ SkippedInv
    /\ TrailingInv
    /\ StreamHasNoHoles

----------------------------------------------------------------------------
(* Lemmas about the buffer and the wire *)

\* What the abbreviations of the actions' unchanged variables stand for.
USE DEF coreVars, netVars, clientVars, recoveryVars, bridgeVars, UiUnchanged, CoreUnchanged

\* A replay is made of retained events of the session behind the cursor.
LEMMA WindowMatches ==
    ASSUME NEW c, NEW limit \in Nat, NEW own, NEW n \in Window(c, limit, own)
    PROVE  n \in own /\ n \in 1 .. limit - 1 /\ n >= limit - Capacity /\ n > c
BY DEF Window, Matching, Retained

\* A replay is cut to the oldest events: what matches before one is in it too.
LEMMA WindowIsPrefix ==
    ASSUME NEW c \in Nat, NEW limit \in Nat, NEW own,
           NEW n \in Window(c, limit, own), NEW m \in Matching(c, limit, own), m < n
    PROVE  m \in Window(c, limit, own)
<1> DEFINE All == Matching(c, limit, own)
           Before(x) == {k \in All : k < x}
<1>1. IsFiniteSet(All)
    <2>1. IsFiniteSet(1 .. limit - 1)
        BY FS_Interval
    <2> QED
        BY <2>1, FS_Subset DEF Matching, Retained
<1>2. Before(m) \subseteq Before(n) /\ IsFiniteSet(Before(n))
    <2>1. \A k \in All : k \in Nat
        BY DEF Matching, Retained
    <2>2. n \in All /\ Before(n) \subseteq All
        BY DEF Window
    <2> QED
        BY <1>1, <2>1, <2>2, FS_Subset
<1>3. Cardinality(Before(m)) <= Cardinality(Before(n))
    BY <1>2, FS_Subset
<1>4. Cardinality(Before(n)) < ReplayLimit
    BY DEF Window
<1>5. Cardinality(Before(m)) \in Nat /\ Cardinality(Before(n)) \in Nat
    BY <1>2, FS_Subset, FS_CardinalityType
<1>6. Cardinality(Before(m)) < ReplayLimit
    BY <1>3, <1>4, <1>5, BufferAssumption
<1> QED
    BY <1>6 DEF Window

\* A replay leaves out nothing between two events it returns.
LEMMA WindowIsConvex ==
    ASSUME NEW c \in Nat, NEW limit \in Nat, NEW own, NEW s \in Window(c, limit, own),
           NEW t \in Window(c, limit, own), NEW n \in own, n \in Nat, s < n, n < t
    PROVE  n \in Window(c, limit, own)
<1>1. /\ s \in 1 .. limit - 1 /\ s >= limit - Capacity /\ s > c
      /\ t \in 1 .. limit - 1
    BY WindowMatches
<1>2. n \in Matching(c, limit, own)
    BY <1>1, BufferAssumption DEF Matching, Retained
<1> QED
    BY <1>2, WindowIsPrefix

\* An event that a replay leaves out before one it returns has left the buffer,
\* and then the replay announces a gap.
LEMMA LeftOutMeansGap ==
    ASSUME NEW c \in Nat, NEW limit \in Nat, NEW own,
           NEW n \in own, n \in 1 .. limit - 1, c < n, n \notin Window(c, limit, own),
           NEW t \in Window(c, limit, own), n < t
    PROVE  GapDetected(c, limit)
<1>1. n \notin Matching(c, limit, own)
    BY WindowIsPrefix
<1>2. n < limit - Capacity
    BY <1>1, BufferAssumption DEF Matching, Retained
<1> QED
    BY <1>2, BufferAssumption DEF GapDetected, Earliest

\* The frames the core sends.
LEMMA FramesTyped ==
    ASSUME NEW kind \in {"connected", "gap", "event", "heartbeat"}, NEW n \in Nat,
           NEW gap \in BOOLEAN
    PROVE  /\ Frame(kind, n, gap) \in Frames
           /\ Frame(kind, n, gap).kind = kind
           /\ Frame(kind, n, gap).n = n
           /\ Frame(kind, n, gap).gap = gap
BY DEF Frame, Frames

\* A replay sends its gap frame behind what is on the wire.
LEMMA GapFrameAppended ==
    ASSUME NEW w \in Seq(Frames), NEW c
    PROVE  w \o GapFrame(c) = IF GapDetected(c, next)
                              THEN Append(w, Frame("gap", 0, TRUE)) ELSE w
<1>1. Frame("gap", 0, TRUE) \in Frames
    BY FramesTyped
<1>2. w \o <<Frame("gap", 0, TRUE)>> = Append(w, Frame("gap", 0, TRUE))
    BY <1>1, AppendIsConcat
<1>3. w \o <<>> = w
    BY ConcatEmptySeq
<1> QED
    BY <1>2, <1>3 DEF GapFrame

\* The newest cursor of a buffer is a cursor of this core, or what was asked for.
LEMMA LatestGiven ==
    ASSUME next \in Nat \ {0}, NEW c \in Nat
    PROVE  Latest(next, c) \in Nat /\ (Latest(next, c) < next \/ Latest(next, c) = c)
BY DEF Latest

\* A frame is sent: the frames before it stay where they are.
LEMMA Appended ==
    ASSUME NEW w \in Seq(Frames), NEW f \in Frames
    PROVE  /\ Append(w, f) \in Seq(Frames)
           /\ Len(Append(w, f)) = Len(w) + 1
           /\ \A i \in 1 .. Len(w) : Append(w, f)[i] = w[i]
           /\ Append(w, f)[Len(w) + 1] = f
OBVIOUS

\* A connection breaks: the frames that arrive stay where they are.
LEMMA Shortened ==
    ASSUME NEW w \in Seq(Frames), NEW k \in 0 .. Len(w)
    PROVE  /\ SubSeq(w, 1, k) \in Seq(Frames)
           /\ Len(SubSeq(w, 1, k)) = k
           /\ \A i \in 1 .. k : SubSeq(w, 1, k)[i] = w[i]
OBVIOUS

\* A frame is read: the others move up.
LEMMA Consumed ==
    ASSUME NEW w \in Seq(Frames), w # <<>>
    PROVE  /\ Head(w) = w[1] /\ Head(w) \in Frames /\ Len(w) \in Nat \ {0}
           /\ Tail(w) \in Seq(Frames)
           /\ Len(Tail(w)) = Len(w) - 1
           /\ \A i \in 1 .. Len(w) - 1 : Tail(w)[i] = w[i + 1]
OBVIOUS

\* Two frames in a row.
LEMMA TwoFrames ==
    ASSUME NEW v \in Seq(Frames), Len(v) = 1, NEW g \in Frames
    PROVE  /\ Append(v, g) \in Seq(Frames) /\ Len(Append(v, g)) = 2
           /\ Append(v, g)[1] = v[1] /\ Append(v, g)[2] = g
<1>1. Append(v, g) \in Seq(Frames)
    BY Appended
<1>2. Len(Append(v, g)) = 2
    BY Appended
<1>3. 1 \in 1 .. Len(v)
    OBVIOUS
<1>4. Append(v, g)[1] = v[1]
    BY <1>3, Appended
<1>5. Append(v, g)[2] = g
    <2>1. Append(v, g)[Len(v) + 1] = g
        BY Appended
    <2>2. Len(v) + 1 = 2
        OBVIOUS
    <2> QED
        BY <2>1, <2>2, Zenon
<1> QED
    BY <1>1, <1>2, <1>4, <1>5

\* The first frames of a connection: one state frame, and perhaps a gap frame.
LEMMA FirstFrames ==
    ASSUME next \in Nat \ {0}, NEW c \in Nat,
           NEW f, f = Frame("connected", Latest(next, c), GapDetected(c, next))
    PROVE  /\ <<f>> \o GapFrame(c) \in Seq(Frames) /\ f \in Frames
           /\ (<<f>> \o GapFrame(c))[1] = f
           /\ Len(<<f>> \o GapFrame(c)) = IF GapDetected(c, next) THEN 2 ELSE 1
           /\ GapDetected(c, next) => (<<f>> \o GapFrame(c))[2] = Frame("gap", 0, TRUE)
<1>1. f \in Frames
    <2>1. Latest(next, c) \in Nat /\ GapDetected(c, next) \in BOOLEAN
        BY DEF Latest, GapDetected
    <2> QED
        BY <2>1 DEF Frame, Frames
<1> DEFINE v == <<f>>
           g == Frame("gap", 0, TRUE)
<1>2. g \in Frames
    BY FramesTyped
<1>3. v \in Seq(Frames) /\ Len(v) = 1 /\ v[1] = f
    BY <1>1
<1>4. v \o GapFrame(c) = IF GapDetected(c, next) THEN Append(v, g) ELSE v
    BY <1>3, GapFrameAppended
<1> HIDE DEF v, g
<1>5. CASE GapDetected(c, next)
    <2>1. v \o GapFrame(c) = Append(v, g)
        BY <1>4, <1>5
    <2>2. Append(v, g) \in Seq(Frames) /\ Len(Append(v, g)) = 2 /\ Append(v, g)[1] = f
        BY <1>2, <1>3, TwoFrames
    <2>3. Append(v, g)[2] = g
        BY <1>2, <1>3, TwoFrames
    <2> QED
        BY <1>1, <1>5, <2>1, <2>2, <2>3 DEF v, g
<1>6. CASE ~GapDetected(c, next)
    <2>1. v \o GapFrame(c) = v
        BY <1>4, <1>6
    <2> QED
        BY <1>1, <1>3, <1>6, <2>1 DEF v, g
<1> QED
    BY <1>5, <1>6

----------------------------------------------------------------------------
(* Types *)

CoreTyped == up \in BOOLEAN /\ next \in Nat \ {0} /\ mine \subseteq 1 .. next - 1

NetTyped ==
    /\ gen \in [pc : {"none", "opening", "sending", "waiting", "woken", "timedout"},
                cursor : Nat, todo : SUBSET Nat]
    /\ wire \in Seq(Frames)
    /\ cut \in {"no", "clean", "torn"}

ClientTyped ==
    /\ conn \in {"open", "waiting"} /\ tail \in BOOLEAN /\ needsReconcile \in BOOLEAN
    /\ cursor \in Cursors /\ ctrlCursor \in Cursors

Requests == [phase : {"idle", "asked", "read"}, queued : BOOLEAN, horizon : Nat, latest : Nat]

RecoveryTyped ==
    /\ online \in BOOLEAN /\ armed \in BOOLEAN /\ attempts \in 0 .. MaxAttempts
    /\ armed => attempts < MaxAttempts

BridgeTyped ==
    /\ applied \subseteq Nat /\ known \subseteq applied /\ requested \in BOOLEAN
    /\ shown \in {"reconnecting", "connected", "stale", "reconciled"}

HistoryTyped == covered \in Nat /\ gaveUpAt \in Nat /\ stale \in Nat

BudgetTyped == budget \in [events : 0 .. MaxEvents, faults : 0 .. MaxFaults]

\* The type invariant, with the bound on the attempts, in parts.
Typed ==
    /\ CoreTyped /\ NetTyped /\ ClientTyped /\ snap \in Requests
    /\ RecoveryTyped /\ BridgeTyped /\ HistoryTyped /\ BudgetTyped

\* The parts are the type invariant and the bound on the attempts.
LEMMA TypedParts == Typed <=> TypeOK /\ AttemptsLeft
BY DEF Typed, CoreTyped, NetTyped, ClientTyped, Requests, RecoveryTyped, BridgeTyped,
       HistoryTyped, BudgetTyped, TypeOK, AttemptsLeft

\* The constants, one by one.
LEMMA Bounds ==
    /\ MaxEvents \in Nat /\ MaxFaults \in Nat /\ MaxAttempts \in Nat
    /\ NoCursor \notin Nat /\ NoCursor \in Cursors /\ \A n \in Nat : n \in Cursors
BY StreamAssumption DEF Cursors

\* A new generator starts from the cursor the client sent.
LEMMA OpenFromTyped ==
    ASSUME NEW c \in Cursors
    PROVE  /\ OpenFrom(c) \in [pc : {"opening"}, cursor : Nat, todo : {{}}]
           /\ OpenFrom(c).cursor = IF c = NoCursor THEN 0 ELSE c
BY DEF OpenFrom, NoGenerator, Cursors

\* The types of the initial state.
LEMMA TypeInit == Init => Typed
<1> SUFFICES ASSUME Init PROVE Typed
    OBVIOUS
<1>1. NetTyped
    BY OpenFromTyped, Bounds DEF Init, NetTyped
<1>2. snap \in Requests /\ BudgetTyped
    BY Bounds DEF Init, Requests, BudgetTyped
<1>3. CoreTyped /\ ClientTyped
    <2>1. up = TRUE /\ next = 1 /\ mine = {}
        BY DEF Init
    <2>2. CoreTyped
        BY <2>1 DEF CoreTyped
    <2> QED
        BY <2>2, Bounds DEF Init, ClientTyped
<1>4. RecoveryTyped
    <2>1. online = FALSE /\ armed = FALSE /\ attempts = 0
        BY DEF Init
    <2>2. online \in BOOLEAN /\ armed \in BOOLEAN
        BY <2>1
    <2>3. attempts \in 0 .. MaxAttempts
        BY <2>1, Bounds
    <2> QED
        BY <2>1, <2>2, <2>3 DEF RecoveryTyped
<1>5. BridgeTyped /\ HistoryTyped
    BY DEF Init, BridgeTyped, HistoryTyped
<1> QED
    BY <1>1, <1>2, <1>3, <1>4, <1>5 DEF Typed

\* Asking for a snapshot and its end keep the type of the request.
LEMMA RequestsTyped ==
    ASSUME NEW s \in Requests
    PROVE  /\ Forced(s) \in Requests
           /\ Forced(s).phase = "asked" \/ Forced(s).queued
           /\ s.phase = "asked" => Forced(s).phase = "asked"
           /\ s.queued => Forced(s).phase = "asked" \/ Forced(s).queued
           /\ Forced(s).horizon = s.horizon /\ Forced(s).latest = s.latest
           /\ Completed(s) \in Requests
           /\ Completed(s).horizon = 0 /\ Completed(s).latest = 0
           /\ Completed(s).phase # "read"
           /\ s.queued => Completed(s).phase = "asked"
BY DEF Requests, Forced, Completed

\* The controller takes a reported cursor or keeps its own.
LEMMA ReportedTyped ==
    ASSUME NEW c \in Cursors, ctrlCursor \in Cursors
    PROVE  Reported(c) \in {c, ctrlCursor}
BY StreamAssumption DEF Reported, Cursors

\* What a request that fails spends.
LEMMA FailureTyped ==
    ASSUME BudgetTyped, MayFail
    PROVE  BudgetTyped'
BY Bounds DEF BudgetTyped, MayFail

\* A connection that breaks leaves no generator and a reason.
LEMMA BrokenTyped ==
    ASSUME NetTyped, Broken
    PROVE  NetTyped' /\ gen'.pc = "none" /\ cut' # "no"
<1>1. wire' \in Seq(Frames)
    BY Shortened DEF Broken, NetTyped
<1> QED
    BY <1>1 DEF Broken, NoGenerator, NetTyped

\* Every step keeps the types.
LEMMA TypedKept ==
    ASSUME Typed, Next
    PROVE  Typed'
<1>0. /\ CoreTyped /\ NetTyped /\ ClientTyped /\ snap \in Requests
      /\ RecoveryTyped /\ BridgeTyped /\ HistoryTyped /\ BudgetTyped
    BY DEF Typed
<1>1. ASSUME NEW m \in BOOLEAN, Publish(m) PROVE Typed'
    <2>1. CoreTyped'
        BY <1>0, <1>1 DEF Publish, CoreTyped
    <2>2. BudgetTyped'
        BY <1>0, <1>1, Bounds DEF Publish, BudgetTyped
    <2>3. /\ NetTyped' /\ ClientTyped' /\ snap' \in Requests
          /\ RecoveryTyped' /\ BridgeTyped' /\ HistoryTyped'
        BY <1>0, <1>1 DEF Publish, NetTyped, ClientTyped, RecoveryTyped, BridgeTyped, HistoryTyped
    <2> QED
        BY <2>1, <2>2, <2>3 DEF Typed
<1>2. CASE Open
    <2>1. NetTyped'
        <3>1. wire' \in Seq(Frames)
            <4>1. next \in Nat \ {0} /\ gen.cursor \in Nat
                BY <1>0 DEF NetTyped, CoreTyped
            <4> DEFINE f == Frame("connected", Latest(next, gen.cursor),
                                  GapDetected(gen.cursor, next))
            <4>2. wire' = <<f>> \o GapFrame(gen.cursor)
                BY <1>2 DEF Open
            <4> QED
                BY <4>1, <4>2, FirstFrames
        <3>2. Window(gen.cursor, next, mine) \subseteq Nat
            BY <1>0, WindowMatches DEF CoreTyped
        <3> QED
            BY <1>0, <1>2, <3>1, <3>2 DEF Open, NetTyped
    <2>2. /\ CoreTyped' /\ ClientTyped' /\ snap' \in Requests
          /\ RecoveryTyped' /\ BridgeTyped' /\ HistoryTyped' /\ BudgetTyped'
        BY <1>0, <1>2 DEF Open, CoreTyped, ClientTyped, RecoveryTyped, BridgeTyped, HistoryTyped, BudgetTyped
    <2> QED
        BY <2>1, <2>2 DEF Typed
<1>3. CASE Yield
    <2>1. NetTyped'
        <3>1. CASE gen.todo = {}
            BY <1>0, <1>3, <3>1 DEF Yield, NetTyped
        <3>2. CASE gen.todo # {}
            <4>1. PICK n \in gen.todo :
                      /\ gen' = [gen EXCEPT !.cursor = n, !.todo = @ \ {n}]
                      /\ wire' = Append(wire, Frame("event", n, FALSE))
                BY <1>3, <3>2 DEF Yield
            <4>2. n \in Nat
                BY <1>0 DEF NetTyped
            <4>3. wire' \in Seq(Frames)
                BY <1>0, <4>1, <4>2, FramesTyped, Appended DEF NetTyped
            <4> QED
                BY <1>0, <1>3, <4>1, <4>2, <4>3 DEF Yield, NetTyped
        <3> QED
            BY <3>1, <3>2
    <2>2. /\ CoreTyped' /\ ClientTyped' /\ snap' \in Requests
          /\ RecoveryTyped' /\ BridgeTyped' /\ HistoryTyped' /\ BudgetTyped'
        BY <1>0, <1>3 DEF Yield, CoreTyped, ClientTyped, RecoveryTyped, BridgeTyped, HistoryTyped, BudgetTyped
    <2> QED
        BY <2>1, <2>2 DEF Typed
<1>4. CASE Wake
    <2>1. NetTyped'
        BY <1>0, <1>4 DEF Wake, NetTyped
    <2>2. /\ CoreTyped' /\ ClientTyped' /\ snap' \in Requests
          /\ RecoveryTyped' /\ BridgeTyped' /\ HistoryTyped' /\ BudgetTyped'
        BY <1>0, <1>4 DEF Wake, CoreTyped, ClientTyped, RecoveryTyped, BridgeTyped, HistoryTyped, BudgetTyped
    <2> QED
        BY <2>1, <2>2 DEF Typed
<1>5. CASE TimeOut
    <2>1. NetTyped'
        BY <1>0, <1>5 DEF TimeOut, NetTyped
    <2>2. /\ CoreTyped' /\ ClientTyped' /\ snap' \in Requests
          /\ RecoveryTyped' /\ BridgeTyped' /\ HistoryTyped' /\ BudgetTyped'
        BY <1>0, <1>5 DEF TimeOut, CoreTyped, ClientTyped, RecoveryTyped, BridgeTyped, HistoryTyped, BudgetTyped
    <2> QED
        BY <2>1, <2>2 DEF Typed
<1>6. CASE Heartbeat
    <2>1. NetTyped'
        BY <1>0, <1>6, LatestGiven, FramesTyped, Appended DEF Heartbeat, NetTyped, CoreTyped
    <2>2. /\ CoreTyped' /\ ClientTyped' /\ snap' \in Requests
          /\ RecoveryTyped' /\ BridgeTyped' /\ HistoryTyped' /\ BudgetTyped'
        BY <1>0, <1>6 DEF Heartbeat, CoreTyped, ClientTyped, RecoveryTyped, BridgeTyped, HistoryTyped, BudgetTyped
    <2> QED
        BY <2>1, <2>2 DEF Typed
<1>7. CASE Replay
    <2>1. NetTyped'
        <3>1. wire' \in Seq(Frames)
            <4>1. Frame("gap", 0, TRUE) \in Frames /\ wire \in Seq(Frames)
                BY <1>0, FramesTyped DEF NetTyped
            <4>2. wire' \in {wire, Append(wire, Frame("gap", 0, TRUE))}
                BY <1>7, <4>1, GapFrameAppended DEF Replay
            <4> QED
                BY <4>1, <4>2, Appended
        <3>2. Window(gen.cursor, next, mine) \subseteq Nat
            BY <1>0, WindowMatches DEF CoreTyped
        <3> QED
            BY <1>0, <1>7, <3>1, <3>2 DEF Replay, NetTyped
    <2>2. /\ CoreTyped' /\ ClientTyped' /\ snap' \in Requests
          /\ RecoveryTyped' /\ BridgeTyped' /\ HistoryTyped' /\ BudgetTyped'
        BY <1>0, <1>7 DEF Replay, CoreTyped, ClientTyped, RecoveryTyped, BridgeTyped, HistoryTyped, BudgetTyped
    <2> QED
        BY <2>1, <2>2 DEF Typed
<1>8. CASE Cut
    <2>1. NetTyped'
        BY <1>0, <1>8, BrokenTyped DEF Cut, NetTyped
    <2>2. BudgetTyped'
        BY <1>0, <1>8, Bounds DEF Cut, BudgetTyped
    <2>3. /\ CoreTyped' /\ ClientTyped' /\ snap' \in Requests
          /\ RecoveryTyped' /\ BridgeTyped' /\ HistoryTyped'
        BY <1>0, <1>8 DEF Cut, CoreTyped, ClientTyped, RecoveryTyped, BridgeTyped, HistoryTyped
    <2> QED
        BY <2>1, <2>2, <2>3 DEF Typed
<1>9. CASE Refuse
    <2>1. NetTyped'
        BY <1>0, <1>9 DEF Refuse, NetTyped, NoGenerator
    <2>2. /\ CoreTyped' /\ ClientTyped' /\ snap' \in Requests
          /\ RecoveryTyped' /\ BridgeTyped' /\ HistoryTyped' /\ BudgetTyped'
        BY <1>0, <1>9 DEF Refuse, CoreTyped, ClientTyped, RecoveryTyped, BridgeTyped, HistoryTyped, BudgetTyped
    <2> QED
        BY <2>1, <2>2 DEF Typed
<1>10. CASE Crash
    <2>1. NetTyped'
        BY <1>0, <1>10, BrokenTyped DEF Crash, NetTyped
    <2>2. BudgetTyped'
        BY <1>0, <1>10, Bounds DEF Crash, BudgetTyped
    <2>3. CoreTyped' /\ HistoryTyped' /\ BridgeTyped'
        <3>1. CoreTyped'
            <4>1. up' = FALSE /\ next' = 1 /\ mine' = {}
                BY <1>10 DEF Crash
            <4>2. up' \in BOOLEAN
                BY <4>1
            <4>3. next' \in Nat \ {0} /\ mine' \subseteq 1 .. next' - 1
                BY <4>1
            <4> QED
                BY <4>2, <4>3 DEF CoreTyped
        <3>2. HistoryTyped'
            BY <1>0, <1>10 DEF Crash, CoreTyped, HistoryTyped
        <3>3. BridgeTyped'
            BY <1>0, <1>10 DEF Crash, BridgeTyped
        <3> QED
            BY <3>1, <3>2, <3>3
    <2>4. snap' \in Requests
        BY <1>0, <1>10 DEF Crash, Requests
    <2>5. ClientTyped' /\ RecoveryTyped'
        BY <1>0, <1>10 DEF Crash, ClientTyped, RecoveryTyped
    <2> QED
        BY <2>1, <2>2, <2>3, <2>4, <2>5 DEF Typed
<1>11. CASE CoreStarts
    <2>1. CoreTyped'
        BY <1>0, <1>11 DEF CoreStarts, CoreTyped
    <2>2. /\ NetTyped' /\ ClientTyped' /\ snap' \in Requests
          /\ RecoveryTyped' /\ BridgeTyped' /\ HistoryTyped' /\ BudgetTyped'
        BY <1>0, <1>11 DEF CoreStarts, NetTyped, ClientTyped, RecoveryTyped, BridgeTyped, HistoryTyped, BudgetTyped
    <2> QED
        BY <2>1, <2>2 DEF Typed
<1>12. CASE Read
    <2>1. Head(wire) \in Frames /\ NetTyped'
        BY <1>0, <1>12, Consumed DEF Read, NetTyped
    <2>2. CoreTyped' /\ RecoveryTyped' /\ HistoryTyped' /\ BudgetTyped'
        BY <1>0, <1>12 DEF Read, CoreTyped, RecoveryTyped, HistoryTyped, BudgetTyped
    <2>3. ClientTyped' /\ snap' \in Requests /\ BridgeTyped'
        <3>1. CASE Spoilt
            BY <1>0, <3>1 DEF Spoilt, ClientTyped, BridgeTyped
        <3>2. ASSUME NEW notable \in BOOLEAN, TakeEvent(Head(wire), notable)
              PROVE  ClientTyped' /\ snap' \in Requests /\ BridgeTyped'
            BY <1>0, <2>1, <3>2, Bounds, RequestsTyped
            DEF TakeEvent, Frames, ClientTyped, BridgeTyped
        <3>3. CASE TakeGap(Head(wire))
            BY <1>0, <3>3, RequestsTyped DEF TakeGap, ClientTyped, BridgeTyped
        <3>4. CASE TakeConnected(Head(wire))
            BY <1>0, <2>1, <3>4, Bounds, RequestsTyped
            DEF TakeConnected, Frames, ClientTyped, BridgeTyped
        <3>5. CASE TakeHeartbeat(Head(wire))
            BY <1>0, <2>1, <3>5, Bounds DEF TakeHeartbeat, Frames, ClientTyped, BridgeTyped
        <3> QED
            BY <1>12, <3>1, <3>2, <3>3, <3>4, <3>5 DEF Read
    <2> QED
        BY <2>1, <2>2, <2>3 DEF Typed
<1>13. CASE Finish
    <2>1. NetTyped'
        BY <1>0, <1>13 DEF Finish, NetTyped
    <2>2. ClientTyped'
        BY <1>0, <1>13, ReportedTyped DEF Finish, ClientTyped
    <2>3. BridgeTyped'
        BY <1>0, <1>13 DEF Finish, BridgeTyped
    <2>4. /\ CoreTyped' /\ snap' \in Requests
          /\ RecoveryTyped' /\ HistoryTyped' /\ BudgetTyped'
        BY <1>0, <1>13 DEF Finish, CoreTyped, RecoveryTyped, HistoryTyped, BudgetTyped
    <2> QED
        BY <2>1, <2>2, <2>3, <2>4 DEF Typed
<1>14. CASE Reconnect
    <2>1. NetTyped'
        BY <1>0, <1>14, OpenFromTyped DEF Reconnect, NetTyped, ClientTyped
    <2>2. ClientTyped'
        BY <1>0, <1>14, ReportedTyped DEF Reconnect, ClientTyped
    <2>3. BridgeTyped'
        BY <1>0, <1>14 DEF Reconnect, BridgeTyped
    <2>4. /\ CoreTyped' /\ snap' \in Requests
          /\ RecoveryTyped' /\ HistoryTyped' /\ BudgetTyped'
        BY <1>0, <1>14 DEF Reconnect, CoreTyped, RecoveryTyped, HistoryTyped, BudgetTyped
    <2> QED
        BY <2>1, <2>2, <2>3, <2>4 DEF Typed
<1>15. CASE SnapshotRead
    <2>1. snap' \in Requests
        <3>1. next - 1 \in Nat /\ Latest(next, 0) \in Nat
            BY <1>0, LatestGiven DEF CoreTyped
        <3> QED
            BY <1>0, <1>15, <3>1 DEF SnapshotRead, Requests
    <2>2. /\ CoreTyped' /\ NetTyped' /\ ClientTyped'
          /\ RecoveryTyped' /\ BridgeTyped' /\ HistoryTyped' /\ BudgetTyped'
        BY <1>0, <1>15 DEF SnapshotRead, CoreTyped, NetTyped, ClientTyped, RecoveryTyped, BridgeTyped, HistoryTyped, BudgetTyped
    <2> QED
        BY <2>1, <2>2 DEF Typed
<1>16. CASE SnapshotArrives
    <2>1. snap' \in Requests
        BY <1>0, <1>16, RequestsTyped DEF SnapshotArrives
    <2>2. ClientTyped'
        BY <1>0, <1>16, Bounds DEF SnapshotArrives, ClientTyped, Requests
    <2>3. BridgeTyped' /\ HistoryTyped'
        BY <1>0, <1>16 DEF SnapshotArrives, BridgeTyped, HistoryTyped, Requests
    <2>4. CoreTyped' /\ NetTyped' /\ RecoveryTyped' /\ BudgetTyped'
        BY <1>0, <1>16 DEF SnapshotArrives, CoreTyped, NetTyped, RecoveryTyped, BudgetTyped
    <2> QED
        BY <2>1, <2>2, <2>3, <2>4 DEF Typed
<1>17. CASE SnapshotFails
    <2>1. snap' \in Requests
        BY <1>0, <1>17, RequestsTyped DEF SnapshotFails
    <2>2. BudgetTyped'
        BY <1>0, <1>17, FailureTyped DEF SnapshotFails, BudgetTyped
    <2>3. RecoveryTyped'
        BY <1>0, <1>17, Bounds DEF SnapshotFails, RecoveryTyped, ScheduleRecovery
    <2>4. HistoryTyped'
        BY <1>0, <1>17 DEF SnapshotFails, HistoryTyped, CoreTyped
    <2>5. CoreTyped' /\ NetTyped' /\ ClientTyped' /\ BridgeTyped'
        BY <1>0, <1>17 DEF SnapshotFails, CoreTyped, NetTyped, ClientTyped, BridgeTyped
    <2> QED
        BY <2>1, <2>2, <2>3, <2>4, <2>5 DEF Typed
<1>18. CASE PollFails
    <2>1. BudgetTyped'
        BY <1>0, <1>18, FailureTyped DEF PollFails, BudgetTyped
    <2>2. RecoveryTyped'
        BY <1>0, <1>18, Bounds DEF PollFails, RecoveryTyped, ScheduleRecovery
    <2>3. /\ CoreTyped' /\ NetTyped' /\ ClientTyped'
          /\ snap' \in Requests /\ BridgeTyped' /\ HistoryTyped'
        BY <1>0, <1>18 DEF PollFails, CoreTyped, NetTyped, ClientTyped, BridgeTyped, HistoryTyped
    <2> QED
        BY <2>1, <2>2, <2>3 DEF Typed
<1>19. CASE PollSucceeds
    <2>1. RecoveryTyped'
        BY <1>0, <1>19, Bounds DEF PollSucceeds, RecoveryTyped
    <2>2. /\ CoreTyped' /\ NetTyped' /\ ClientTyped'
          /\ snap' \in Requests /\ BridgeTyped' /\ HistoryTyped' /\ BudgetTyped'
        BY <1>0, <1>19 DEF PollSucceeds, CoreTyped, NetTyped, ClientTyped, BridgeTyped, HistoryTyped, BudgetTyped
    <2> QED
        BY <2>1, <2>2 DEF Typed
<1>20. CASE RecoveryFails
    <2>1. RecoveryTyped'
        <3>1. attempts' \in 0 .. MaxAttempts
            BY <1>0, <1>20, Bounds DEF RecoveryFails, RecoveryTyped
        <3>2. armed' = (attempts' < MaxAttempts)
            BY <1>20 DEF RecoveryFails
        <3>3. armed' \in BOOLEAN
            BY <3>2
        <3>4. online' \in BOOLEAN
            BY <1>0, <1>20 DEF RecoveryFails, RecoveryTyped
        <3> QED
            BY <3>1, <3>2, <3>3, <3>4 DEF RecoveryTyped
    <2>2. HistoryTyped'
        BY <1>0, <1>20 DEF RecoveryFails, HistoryTyped, CoreTyped
    <2>3. /\ CoreTyped' /\ NetTyped' /\ ClientTyped'
          /\ snap' \in Requests /\ BridgeTyped' /\ BudgetTyped'
        BY <1>0, <1>20 DEF RecoveryFails, CoreTyped, NetTyped, ClientTyped, BridgeTyped, BudgetTyped
    <2> QED
        BY <2>1, <2>2, <2>3 DEF Typed
<1>21. CASE Recover
    <2>1. CoreTyped'
        BY <1>0, <1>21 DEF Recover, CoreTyped
    <2>2. NetTyped'
        BY <1>0, <1>21, OpenFromTyped DEF Recover, NetTyped, ClientTyped
    <2>3. ClientTyped'
        BY <1>0, <1>21, ReportedTyped DEF Recover, ClientTyped
    <2>4. snap' \in Requests
        BY <1>0, <1>21, RequestsTyped DEF Recover
    <2>5. RecoveryTyped'
        <3>1. attempts' \in 0 .. MaxAttempts /\ armed' = FALSE /\ online' = online
            BY <1>0, <1>21, Bounds DEF Recover, RecoveryTyped
        <3> QED
            BY <1>0, <3>1 DEF RecoveryTyped
    <2>6. BridgeTyped'
        BY <1>0, <1>21 DEF Recover, BridgeTyped
    <2>7. HistoryTyped' /\ BudgetTyped'
        BY <1>0, <1>21 DEF Recover, HistoryTyped, BudgetTyped
    <2> QED
        BY <2>1, <2>2, <2>3, <2>4, <2>5, <2>6, <2>7 DEF Typed
<1> QED
    BY <1>1, <1>2, <1>3, <1>4, <1>5, <1>6, <1>7, <1>8, <1>9, <1>10, <1>11, <1>12,
       <1>13, <1>14, <1>15, <1>16, <1>17, <1>18, <1>19, <1>20, <1>21 DEF Next,
       CoreStep

----------------------------------------------------------------------------
(* Where frames and cursors come from *)

\* The types the other lemmas use.
LEMMA TypesOfInv ==
    ASSUME StreamInv
    PROVE  /\ Typed
           /\ next \in Nat \ {0} /\ stale \in Nat /\ mine \subseteq 1 .. next - 1
           /\ gen.cursor \in Nat /\ gen.todo \subseteq Nat /\ Position \in Nat
           /\ wire \in Seq(Frames) /\ Len(wire) \in Nat
           /\ \A i \in 1 .. Len(wire) : wire[i] \in Frames /\ wire[i].n \in Nat
<1>1. Typed
    BY TypedParts DEF StreamInv
<1>2. next \in Nat \ {0} /\ stale \in Nat /\ mine \subseteq 1 .. next - 1
    BY <1>1 DEF Typed, CoreTyped, HistoryTyped
<1>3. gen.cursor \in Nat /\ gen.todo \subseteq Nat /\ wire \in Seq(Frames)
    BY <1>1 DEF Typed, NetTyped
<1>4. \A i \in 1 .. Len(wire) : wire[i] \in Frames
    BY <1>3
<1>5. Position \in Nat
    BY <1>1 DEF Typed, ClientTyped, Cursors, Position
<1> QED
    BY <1>1, <1>2, <1>3, <1>4, <1>5 DEF Frames

\* A frame the core may send now.
Sendable(f) ==
    \/ f = Frame("connected", Latest(next, gen.cursor), GapDetected(gen.cursor, next))
    \/ f = Frame("gap", 0, TRUE)
    \/ f = Frame("heartbeat", Latest(next, 0), FALSE)
    \/ \E n \in gen.todo : f = Frame("event", n, FALSE)

\* The wire grows at its end by a frame.
Grows(f) == f \in Frames /\ Sendable(f) /\ wire' = Append(wire, f)

\* What the core may send is a frame.
LEMMA SendableTyped ==
    ASSUME StreamInv, NEW f, Sendable(f)
    PROVE  f \in Frames
<1>1. Latest(next, gen.cursor) \in Nat /\ Latest(next, 0) \in Nat
    BY TypesOfInv DEF Latest
<1>2. GapDetected(gen.cursor, next) \in BOOLEAN
    BY DEF GapDetected
<1>3. \A n \in gen.todo : n \in Nat
    BY TypesOfInv
<1>4. CASE f = Frame("connected", Latest(next, gen.cursor), GapDetected(gen.cursor, next))
    BY <1>1, <1>2, <1>4 DEF Frame, Frames
<1>5. CASE f = Frame("gap", 0, TRUE)
    BY <1>5 DEF Frame, Frames
<1>6. CASE f = Frame("heartbeat", Latest(next, 0), FALSE)
    BY <1>1, <1>6 DEF Frame, Frames
<1>7. CASE \E n \in gen.todo : f = Frame("event", n, FALSE)
    BY <1>3, <1>7 DEF Frame, Frames
<1> QED
    BY <1>4, <1>5, <1>6, <1>7 DEF Sendable

\* Yield sends the oldest event of the batch or ends it.
LEMMA YieldSends ==
    ASSUME StreamInv, Yield
    PROVE  \/ gen.todo = {} /\ gen' = [gen EXCEPT !.pc = "waiting"] /\ wire' = wire
           \/ \E n \in gen.todo :
                /\ \A t \in gen.todo : n <= t
                /\ gen' = [gen EXCEPT !.cursor = n, !.todo = @ \ {n}]
                /\ Grows(Frame("event", n, FALSE))
<1>1. CASE gen.todo = {}
    BY <1>1 DEF Yield
<1>2. CASE gen.todo # {}
    <2>1. PICK n \in gen.todo :
              /\ \A t \in gen.todo : n <= t
              /\ gen' = [gen EXCEPT !.cursor = n, !.todo = @ \ {n}]
              /\ wire' = Append(wire, Frame("event", n, FALSE))
        BY <1>2 DEF Yield
    <2>2. Grows(Frame("event", n, FALSE))
        BY <2>1, SendableTyped DEF Grows, Sendable
    <2> QED
        BY <2>1, <2>2
<1> QED
    BY <1>1, <1>2

\* Replay announces a gap or sends nothing yet.
LEMMA ReplaySends ==
    ASSUME StreamInv, Replay
    PROVE  IF GapDetected(gen.cursor, next) THEN Grows(Frame("gap", 0, TRUE)) ELSE wire' = wire
<1>1. wire \in Seq(Frames) /\ wire' = wire \o GapFrame(gen.cursor)
    BY TypesOfInv DEF Replay
<1>2. Frame("gap", 0, TRUE) \in Frames /\ Sendable(Frame("gap", 0, TRUE))
    BY SendableTyped DEF Sendable
<1> QED
    BY <1>1, <1>2, GapFrameAppended DEF Grows

\* A heartbeat carries the newest cursor.
LEMMA HeartbeatSends ==
    ASSUME StreamInv, Heartbeat
    PROVE  Grows(Frame("heartbeat", Latest(next, 0), FALSE))
BY SendableTyped DEF Heartbeat, Grows, Sendable

\* Open sends the state frame, and the gap frame behind it.
LEMMA OpenSends ==
    ASSUME StreamInv, Open
    PROVE  /\ wire = <<>> /\ Len(wire') \in {1, 2}
           /\ wire'[1] = Frame("connected", Latest(next, gen.cursor),
                               GapDetected(gen.cursor, next))
           /\ Len(wire') = 2 => wire'[2] = Frame("gap", 0, TRUE)
<1> DEFINE f == Frame("connected", Latest(next, gen.cursor), GapDetected(gen.cursor, next))
<1>1. wire' = <<f>> \o GapFrame(gen.cursor) /\ wire = <<>>
    BY DEF Open, StreamInv, Connection
<1>2. next \in Nat \ {0} /\ gen.cursor \in Nat
    BY TypesOfInv
<1>3. /\ wire'[1] = f
      /\ Len(wire') = IF GapDetected(gen.cursor, next) THEN 2 ELSE 1
      /\ GapDetected(gen.cursor, next) => wire'[2] = Frame("gap", 0, TRUE)
    BY <1>1, <1>2, FirstFrames
<1>4. CASE GapDetected(gen.cursor, next)
    <2>1. Len(wire') = 2
        BY <1>3, <1>4
    <2> QED
        BY <1>1, <1>3, <1>4, <2>1
<1>5. CASE ~GapDetected(gen.cursor, next)
    <2>1. Len(wire') = 1
        BY <1>3, <1>5
    <2>2. Len(wire') # 2
        BY <2>1
    <2> QED
        BY <1>1, <1>3, <2>1, <2>2
<1> QED
    BY <1>4, <1>5

\* A connection that breaks leaves a prefix of the frames.
LEMMA BrokenSends ==
    ASSUME StreamInv, Broken
    PROVE  Len(wire') \in 0 .. Len(wire) /\ \A i \in 1 .. Len(wire') : wire'[i] = wire[i]
BY TypesOfInv, Shortened DEF Broken

\* A frame is put behind the others.
LEMMA GrowsAtEnd ==
    ASSUME StreamInv, NEW f, Grows(f)
    PROVE  /\ Len(wire') = Len(wire) + 1 /\ wire'[Len(wire) + 1] = f
           /\ \A i \in 1 .. Len(wire) : wire'[i] = wire[i]
BY TypesOfInv, Appended DEF Grows

\* Reading takes the first frame.
LEMMA ReadShifts ==
    ASSUME StreamInv, Read
    PROVE  /\ Len(wire) \in Nat \ {0} /\ Head(wire) = wire[1] /\ Len(wire') = Len(wire) - 1
           /\ \A i \in 1 .. Len(wire) - 1 : wire'[i] = wire[i + 1]
<1>1. wire \in Seq(Frames) /\ wire # <<>> /\ wire' = Tail(wire)
    BY TypesOfInv DEF Read
<1> QED
    BY <1>1, Consumed

\* The steps that leave the wire alone.
QuietStep ==
    \/ \E m \in BOOLEAN : Publish(m)
    \/ Wake \/ TimeOut \/ Refuse \/ CoreStarts \/ Finish \/ Reconnect
    \/ SnapshotRead \/ SnapshotArrives \/ SnapshotFails
    \/ PollFails \/ PollSucceeds \/ RecoveryFails

\* The quiet steps leave the wire alone.
LEMMA QuietWire == QuietStep => wire' = wire
BY DEF QuietStep, Publish, Wake, TimeOut, Refuse, CoreStarts, Finish, Reconnect, SnapshotRead,
       SnapshotArrives, SnapshotFails, PollFails, PollSucceeds, RecoveryFails

\* How the wire may change in a step.
LEMMA WireSteps ==
    ASSUME StreamInv, Next
    PROVE  \/ QuietStep
           \/ Open \/ Yield \/ Heartbeat \/ Replay \/ Read
           \/ (Cut \/ Crash) /\ (Broken \/ wire' = wire)
           \/ Recover /\ wire' = <<>>
BY DEF Next, CoreStep, QuietStep, Cut, Crash, Recover

\* A frame on the wire was there before or is one the core may send.
LEMMA FrameOrigin ==
    ASSUME StreamInv, Next, NEW i \in 1 .. Len(wire')
    PROVE  (\E j \in 1 .. Len(wire) : wire'[i] = wire[j]) \/ Sendable(wire'[i])
<1>1. ASSUME wire' = wire PROVE \E j \in 1 .. Len(wire) : wire'[i] = wire[j]
    BY <1>1
<1>2. ASSUME NEW f, Grows(f)
      PROVE  (\E j \in 1 .. Len(wire) : wire'[i] = wire[j]) \/ Sendable(wire'[i])
    <2>1. i \in 1 .. Len(wire) \/ i = Len(wire) + 1
        BY <1>2, TypesOfInv, GrowsAtEnd
    <2> QED
        BY <1>2, <2>1, GrowsAtEnd DEF Grows
<1>3. CASE QuietStep
    BY <1>1, <1>3, QuietWire
<1>4. CASE Open
    <2>1. i = 1 \/ (i = 2 /\ Len(wire') = 2)
        <3>1. Len(wire') \in {1, 2}
            BY <1>4, OpenSends
        <3>2. ASSUME NEW l \in {1, 2}, i \in 1 .. l PROVE i = 1 \/ (i = 2 /\ l = 2)
            BY <3>2
        <3> QED
            BY <3>1, <3>2
    <2>2. wire'[1] = Frame("connected", Latest(next, gen.cursor), GapDetected(gen.cursor, next))
        BY <1>4, OpenSends
    <2>3. Len(wire') = 2 => wire'[2] = Frame("gap", 0, TRUE)
        BY <1>4, OpenSends
    <2>4. wire'[i] = Frame("connected", Latest(next, gen.cursor), GapDetected(gen.cursor, next))
          \/ wire'[i] = Frame("gap", 0, TRUE)
        BY <2>1, <2>2, <2>3
    <2> QED
        BY <2>4 DEF Sendable
<1>5. CASE Yield \/ Heartbeat \/ Replay
    BY <1>1, <1>2, <1>5, YieldSends, HeartbeatSends, ReplaySends
<1>6. CASE Broken
    <2>1. i \in 1 .. Len(wire) /\ wire'[i] = wire[i]
        BY <1>6, TypesOfInv, BrokenSends
    <2> QED
        BY <2>1
<1>7. CASE Read
    <2>1. i + 1 \in 1 .. Len(wire) /\ wire'[i] = wire[i + 1]
        BY <1>7, ReadShifts
    <2> QED
        BY <2>1
<1>8. CASE wire' = <<>>
    BY <1>8
<1> QED
    BY <1>1, <1>3, <1>4, <1>5, <1>6, <1>7, <1>8, WireSteps

----------------------------------------------------------------------------
(* Cursors are of this core or of an earlier one *)

\* A cursor stays given: what an ended core gave is behind `stale'.
LEMMA GivenStays ==
    ASSUME StreamInv, Next, NEW c \in Nat, Given(c)
    PROVE  Given(c)'
<1>1. next \in Nat \ {0} /\ stale \in Nat
    BY TypesOfInv
<1>2. CASE UNCHANGED <<next, stale>>
    BY <1>2 DEF Given
<1>3. ASSUME NEW m \in BOOLEAN, Publish(m) PROVE Given(c)'
    BY <1>1, <1>3 DEF Publish, Given
<1>4. CASE Crash
    BY <1>1, <1>4 DEF Crash, Given
<1>5. CASE CoreStep \/ Cut \/ Refuse \/ CoreStarts
    BY <1>2, <1>5 DEF CoreStep, Open, Yield, Wake, TimeOut, Heartbeat, Replay, Cut, Refuse,
                      CoreStarts
<1>6. CASE Read \/ Finish \/ Reconnect \/ SnapshotRead \/ SnapshotArrives
    BY <1>2, <1>6 DEF Read, Finish, Reconnect, SnapshotRead, SnapshotArrives
<1>7. CASE SnapshotFails \/ PollFails \/ PollSucceeds \/ RecoveryFails \/ Recover
    BY <1>2, <1>7 DEF SnapshotFails, PollFails, PollSucceeds, RecoveryFails, Recover
<1> QED
    BY <1>3, <1>4, <1>5, <1>6, <1>7 DEF Next

\* What the core may send is given.
LEMMA SendableGiven ==
    ASSUME StreamInv
    PROVE  /\ Given(0) /\ Given(Latest(next, 0)) /\ Latest(next, 0) \in Nat
           /\ \A n \in gen.todo : Given(n)
           /\ \A f : Sendable(f) => Given(f.n)
<1>1. next \in Nat \ {0} /\ stale \in Nat /\ mine \subseteq 1 .. next - 1
    BY TypesOfInv
<1>2. Given(0) /\ Latest(next, 0) \in Nat /\ Given(Latest(next, 0))
    BY <1>1 DEF Given, Latest
<1>3. \A n \in gen.todo : Given(n)
    <2>1. gen.todo \subseteq mine
        BY DEF StreamInv, Batch
    <2>2. ASSUME NEW n \in mine PROVE n < next
        <3>1. n \in 1 .. next - 1
            BY <1>1
        <3> QED
            BY <1>1, <3>1
    <2> QED
        BY <2>1, <2>2 DEF Given
<1>4. Given(Latest(next, gen.cursor))
    BY <1>1 DEF Given, Latest, StreamInv, GivenCursors
<1> QED
    BY <1>2, <1>3, <1>4 DEF Sendable, Frame

\* Where the cursors of a step come from.
Seen(c) ==
    \/ c \in {0, Position, gen.cursor, snap.latest, Latest(next, 0)}
    \/ c = ctrlCursor /\ ctrlCursor # NoCursor
    \/ c \in gen.todo
    \/ \E i \in 1 .. Len(wire) : c = wire[i].n

\* A cursor that is seen is given, also after the step.
LEMMA SeenGiven ==
    ASSUME StreamInv, Next, NEW c, Seen(c)
    PROVE  c \in Nat /\ Given(c)'
<1>1. /\ Typed /\ gen.cursor \in Nat /\ Position \in Nat /\ gen.todo \subseteq Nat
      /\ \A i \in 1 .. Len(wire) : wire[i].n \in Nat
    BY TypesOfInv
<1>2. snap.latest \in Nat /\ (ctrlCursor # NoCursor => ctrlCursor \in Nat)
    BY <1>1 DEF Typed, Requests, ClientTyped, Cursors
<1>3. c \in Nat /\ Given(c)
    BY <1>1, <1>2, SendableGiven DEF Seen, StreamInv, GivenCursors
<1> QED
    BY <1>3, GivenStays

\* Every cursor of the next state is seen in this one.
LEMMA CursorOrigin ==
    ASSUME StreamInv, Next
    PROVE  /\ Seen(Position') /\ Seen(gen'.cursor) /\ Seen(snap'.latest)
           /\ ctrlCursor' # NoCursor => Seen(ctrlCursor')
<1>1. Typed /\ Seen(Position) /\ Seen(gen.cursor) /\ Seen(snap.latest) /\ Seen(0)
      /\ (ctrlCursor # NoCursor => Seen(ctrlCursor)) /\ (cursor # NoCursor => Seen(cursor))
    BY TypesOfInv DEF Seen, Position
<1>2. snap \in Requests /\ cursor \in Cursors /\ ctrlCursor \in Cursors /\ NoCursor \notin Nat
    BY <1>1, StreamAssumption DEF Typed, ClientTyped
<1>3. CASE UNCHANGED <<cursor, ctrlCursor, gen, snap>>
    BY <1>1, <1>3 DEF Position
<1>4. ASSUME NEW m \in BOOLEAN, Publish(m) PROVE UNCHANGED <<cursor, ctrlCursor, gen, snap>>
    BY <1>4 DEF Publish
<1>5. CASE CoreStarts \/ PollFails \/ PollSucceeds \/ RecoveryFails
    BY <1>3, <1>5 DEF CoreStarts, PollFails, PollSucceeds, RecoveryFails
<1>6. CASE Open \/ Wake \/ TimeOut \/ Heartbeat \/ Replay
    <2>1. gen'.cursor = gen.cursor /\ UNCHANGED <<cursor, ctrlCursor, snap>>
        BY <1>1, <1>6 DEF Open, Wake, TimeOut, Heartbeat, Replay, Typed, NetTyped
    <2> QED
        BY <1>1, <2>1 DEF Position
<1>7. CASE Yield
    <2>1. gen'.cursor = gen.cursor \/ gen'.cursor \in gen.todo
        BY <1>1, <1>7 DEF Yield, Typed, NetTyped
    <2>2. UNCHANGED <<cursor, ctrlCursor, snap>>
        BY <1>7 DEF Yield
    <2> QED
        BY <1>1, <2>1, <2>2 DEF Position, Seen
<1>8. CASE Cut \/ Refuse
    <2>1. gen'.cursor = 0 /\ UNCHANGED <<cursor, ctrlCursor, snap>>
        BY <1>8 DEF Cut, Refuse, Broken, NoGenerator
    <2> QED
        BY <1>1, <2>1 DEF Position
<1>9. CASE Crash
    <2>1. gen'.cursor \in {0, gen.cursor} /\ UNCHANGED <<cursor, ctrlCursor>>
        BY <1>9 DEF Crash, Broken, NoGenerator
    <2>2. snap'.latest = snap.latest
        BY <1>2, <1>9 DEF Crash, Requests
    <2> QED
        BY <1>1, <2>1, <2>2 DEF Position
<1>10. CASE Read
    <2>1. Seen(Head(wire).n) /\ Head(wire).n \in Nat
        BY <1>10, TypesOfInv, ReadShifts DEF Seen
    <2>2. cursor' \in {cursor, Head(wire).n} /\ ctrlCursor' \in {ctrlCursor, Head(wire).n}
        BY <1>10 DEF Read, Spoilt, TakeEvent, TakeGap, TakeConnected, TakeHeartbeat
    <2>3. snap' \in {snap, Forced(snap)} /\ gen' = gen
        BY <1>10 DEF Read, Spoilt, TakeEvent, TakeGap, TakeConnected, TakeHeartbeat
    <2> QED
        BY <1>1, <1>2, <2>1, <2>2, <2>3, RequestsTyped DEF Position
<1>11. Reported(cursor) \in {cursor, ctrlCursor}
    BY <1>2, ReportedTyped
<1>12. CASE Finish
    BY <1>1, <1>11, <1>12 DEF Finish, Position
<1>13. CASE Reconnect
    <2>1. gen'.cursor = Position
        BY <1>2, <1>13, OpenFromTyped DEF Reconnect, Position
    <2> QED
        BY <1>1, <1>11, <1>13, <2>1 DEF Reconnect, Position
<1>14. CASE SnapshotRead
    <2>1. snap'.latest = Latest(next, 0)
        BY <1>2, <1>14 DEF SnapshotRead, Requests
    <2>2. UNCHANGED <<cursor, ctrlCursor, gen>>
        BY <1>14 DEF SnapshotRead
    <2> QED
        BY <1>1, <2>1, <2>2 DEF Position, Seen
<1>15. CASE SnapshotArrives
    <2>1. snap'.latest = 0 /\ UNCHANGED <<cursor, gen>>
        BY <1>2, <1>15, RequestsTyped DEF SnapshotArrives
    <2>2. ctrlCursor' \in {ctrlCursor, snap.latest}
        BY <1>15 DEF SnapshotArrives
    <2> QED
        BY <1>1, <2>1, <2>2 DEF Position
<1>16. CASE SnapshotFails
    <2>1. snap'.latest = 0 /\ UNCHANGED <<cursor, ctrlCursor, gen>>
        BY <1>2, <1>16, RequestsTyped DEF SnapshotFails
    <2> QED
        BY <1>1, <2>1 DEF Position
<1>17. CASE Recover
    <2> DEFINE c == IF ctrlCursor = NoCursor THEN cursor ELSE ctrlCursor
    <2>1. c \in Cursors /\ (c # NoCursor => Seen(c))
        BY <1>1, <1>2
    <2>2. cursor' = c /\ gen'.cursor = IF c = NoCursor THEN 0 ELSE c
        BY <1>17, <2>1, OpenFromTyped DEF Recover
    <2>3. ctrlCursor' \in {c, ctrlCursor}
        BY <1>2, <1>17, <2>1, ReportedTyped DEF Recover
    <2>4. snap'.latest = snap.latest
        BY <1>2, <1>17, RequestsTyped DEF Recover
    <2> HIDE DEF c
    <2> QED
        BY <1>1, <2>1, <2>2, <2>3, <2>4 DEF Position
<1> QED
    BY <1>3, <1>4, <1>5, <1>6, <1>7, <1>8, <1>9, <1>10, <1>12, <1>13, <1>14, <1>15, <1>16,
       <1>17 DEF Next, CoreStep

\* So every cursor stays given.
LEMMA GivenKept ==
    ASSUME StreamInv, Next
    PROVE  GivenCursors'
<1>1. \A c : Seen(c) => Given(c)'
    BY SeenGiven
<1>2. (\A i \in 1 .. Len(wire) : Given(wire[i].n))'
    <2> SUFFICES ASSUME NEW i \in 1 .. Len(wire'), NEW n, n = wire'[i].n
                 PROVE  Given(n)'
        BY DEF Given
    <2>1. CASE \E j \in 1 .. Len(wire) : wire'[i] = wire[j]
        BY <1>1, <2>1 DEF Seen
    <2>2. CASE Sendable(wire'[i])
        <3>1. Given(n)
            BY <2>2, SendableGiven
        <3>2. n \in Nat
            BY <2>2, SendableTyped DEF Frames
        <3> QED
            BY <3>1, <3>2, GivenStays
    <2> QED
        BY <2>1, <2>2, FrameOrigin
<1>3. /\ Given(Position)' /\ Given(gen.cursor)' /\ Given(snap.latest)'
      /\ (ctrlCursor # NoCursor => Given(ctrlCursor))'
    BY <1>1, CursorOrigin DEF Given
<1> QED
    BY <1>2, <1>3 DEF GivenCursors, Given

----------------------------------------------------------------------------
(* The connection, the histories and the batch of a replay *)

\* Only state and gap frames are sent with a gap.
LEMMA GapFramesKept ==
    ASSUME StreamInv, Next
    PROVE  GapFrames'
<1> SUFFICES ASSUME NEW i \in 1 .. Len(wire'), wire'[i].gap
             PROVE  wire'[i].kind \in {"connected", "gap"}
    BY DEF GapFrames
<1>1. CASE \E j \in 1 .. Len(wire) : wire'[i] = wire[j]
    BY <1>1 DEF StreamInv, GapFrames
<1>2. CASE Sendable(wire'[i])
    <2>1. ASSUME NEW n, NEW gap, wire'[i] = Frame("connected", n, gap)
          PROVE  wire'[i].kind = "connected"
        BY <2>1 DEF Frame
    <2>2. ASSUME NEW n, NEW kind, wire'[i] = Frame(kind, n, FALSE)
          PROVE  FALSE
        BY <2>2 DEF Frame
    <2>3. CASE wire'[i] = Frame("gap", 0, TRUE)
        BY <2>3 DEF Frame
    <2> QED
        BY <1>2, <2>1, <2>2, <2>3 DEF Sendable
<1> QED
    BY <1>1, <1>2, FrameOrigin

\* A connection ends with a reason, and the UI reconnects to reconcile.
LEMMA ConnectionKept ==
    ASSUME StreamInv, Next
    PROVE  Connection'
<1>1. Connection /\ Typed /\ gen \in [pc : {"none", "opening", "sending", "waiting", "woken",
                                          "timedout"}, cursor : Nat, todo : SUBSET Nat]
    BY TypesOfInv DEF StreamInv, Typed, NetTyped
<1>2. CASE UNCHANGED <<conn, wire, gen, cut, needsReconcile, tail>>
    BY <1>1, <1>2 DEF Connection
<1>3. ASSUME NEW m \in BOOLEAN, Publish(m) PROVE Connection'
    BY <1>2, <1>3 DEF Publish
<1>4. CASE CoreStarts \/ SnapshotRead \/ SnapshotArrives \/ SnapshotFails
    BY <1>2, <1>4 DEF CoreStarts, SnapshotRead, SnapshotArrives, SnapshotFails
<1>5. CASE PollFails \/ PollSucceeds \/ RecoveryFails
    BY <1>2, <1>5 DEF PollFails, PollSucceeds, RecoveryFails
<1>6. ASSUME gen.pc \notin {"none", "opening"}, gen'.pc \notin {"none", "opening"},
             UNCHANGED <<conn, cut, needsReconcile, tail>>
      PROVE  Connection'
    BY <1>1, <1>6 DEF Connection
<1>7. CASE Open
    <2>1. gen.pc = "opening" /\ gen'.pc = "sending"
        BY <1>1, <1>7 DEF Open
    <2>2. UNCHANGED <<conn, cut, needsReconcile, tail>>
        BY <1>7 DEF Open
    <2> QED
        BY <1>1, <2>1, <2>2 DEF Connection
<1>8. CASE Yield
    <2>1. gen.pc = "sending" /\ gen'.pc \in {"sending", "waiting"}
        BY <1>1, <1>8 DEF Yield
    <2>2. UNCHANGED <<conn, cut, needsReconcile, tail>>
        BY <1>8 DEF Yield
    <2> QED
        BY <1>6, <2>1, <2>2
<1>9. CASE Wake \/ TimeOut \/ Heartbeat \/ Replay
    <2>1. /\ gen.pc \in {"waiting", "timedout", "woken"}
          /\ gen'.pc \in {"waiting", "timedout", "woken", "sending"}
        BY <1>1, <1>9 DEF Wake, TimeOut, Heartbeat, Replay
    <2>2. UNCHANGED <<conn, cut, needsReconcile, tail>>
        BY <1>9 DEF Wake, TimeOut, Heartbeat, Replay
    <2> QED
        BY <1>6, <2>1, <2>2
<1>10. ASSUME gen.pc # "none", gen'.pc = "none", cut' # "no",
              UNCHANGED <<conn, needsReconcile, tail>>
       PROVE  Connection'
    BY <1>1, <1>10 DEF Connection
<1>11. Broken => gen'.pc = "none" /\ cut' # "no"
    BY <1>1, BrokenTyped DEF Typed
<1>12. CASE Cut
    BY <1>10, <1>11, <1>12 DEF Cut
<1>13. CASE Refuse
    BY <1>10, <1>13 DEF Refuse, NoGenerator
<1>14. CASE Crash
    BY <1>2, <1>10, <1>11, <1>14 DEF Crash
<1>15. CASE Read
    <2>1. UNCHANGED <<conn, gen, cut>> /\ conn = "open" /\ wire # <<>>
        BY <1>15 DEF Read, Spoilt, TakeEvent, TakeGap, TakeConnected, TakeHeartbeat
    <2>2. tail' => needsReconcile'
        BY <1>1, <1>15
        DEF Connection, Read, Spoilt, TakeEvent, TakeGap, TakeConnected, TakeHeartbeat
    <2> QED
        BY <1>1, <2>1, <2>2 DEF Connection
<1>16. CASE Finish
    BY <1>1, <1>16 DEF Connection, Finish
<1>17. CASE Reconnect
    <2>1. gen'.pc = "opening"
        BY <1>1, <1>17, OpenFromTyped DEF Reconnect, Typed, ClientTyped
    <2> QED
        BY <1>1, <1>17, <2>1 DEF Connection, Reconnect
<1>18. CASE Recover
    <2> DEFINE c == IF ctrlCursor = NoCursor THEN cursor ELSE ctrlCursor
    <2>1. c \in Cursors /\ gen' = OpenFrom(c)
        BY <1>1, <1>18 DEF Recover, Typed, ClientTyped
    <2>2. gen'.pc = "opening"
        BY <2>1, OpenFromTyped
    <2> QED
        BY <1>18, <2>2 DEF Connection, Recover
<1> QED
    BY <1>3, <1>4, <1>5, <1>7, <1>8, <1>9, <1>12, <1>13, <1>14, <1>15, <1>16, <1>17, <1>18
    DEF Next, CoreStep

\* Snapshots and the end of recovery reach no further than the buffer.
LEMMA HistoriesKept ==
    ASSUME StreamInv, Next
    PROVE  Histories'
<1>1. /\ Typed /\ next \in Nat \ {0} /\ stale \in Nat
      /\ covered < next /\ gaveUpAt < next /\ snap.horizon < next
      /\ \A n \in applied : n <= stale \/ (n \in known /\ n < next)
    BY TypesOfInv DEF StreamInv, Histories
<1>2. /\ snap \in Requests /\ covered \in Nat /\ gaveUpAt \in Nat /\ applied \subseteq Nat
      /\ Forced(snap).horizon = snap.horizon /\ Completed(snap).horizon = 0
    BY <1>1, RequestsTyped DEF Typed, HistoryTyped, BridgeTyped
<1>3. CASE UNCHANGED <<next, covered, gaveUpAt, snap, applied, stale, known>>
    BY <1>1, <1>3 DEF Histories
<1>4. ASSUME NEW m \in BOOLEAN, Publish(m) PROVE Histories'
    <2>1. next' = next + 1 /\ UNCHANGED <<covered, gaveUpAt, snap, applied, stale, known>>
        BY <1>4 DEF Publish
    <2>2. snap.horizon \in Nat
        BY <1>2 DEF Requests
    <2> QED
        BY <1>1, <1>2, <2>1, <2>2 DEF Histories
<1>5. CASE CoreStep \/ Cut \/ Refuse \/ CoreStarts
    BY <1>3, <1>5 DEF CoreStep, Open, Yield, Wake, TimeOut, Heartbeat, Replay, Cut, Refuse,
                      CoreStarts
<1>6. CASE Crash
    <2>1. /\ next' = 1 /\ covered' = 0 /\ gaveUpAt' = 0 /\ snap'.horizon = 0
          /\ applied' = applied /\ stale' = IF next - 1 > stale THEN next - 1 ELSE stale
        BY <1>2, <1>6 DEF Crash, Requests
    <2> QED
        BY <1>1, <1>2, <2>1 DEF Histories
<1>7. CASE Read
    <2>1. UNCHANGED <<next, covered, gaveUpAt, stale>> /\ snap' \in {snap, Forced(snap)}
        BY <1>7 DEF Read, Spoilt, TakeEvent, TakeGap, TakeConnected, TakeHeartbeat
    <2>2. CASE UNCHANGED <<applied, known>>
        BY <1>1, <1>2, <2>1, <2>2 DEF Histories
    <2>3. ASSUME NEW notable \in BOOLEAN, TakeEvent(Head(wire), notable)
          PROVE  Histories'
        <3> DEFINE e == Head(wire).n
        <3>1. e < next \/ e <= stale
            BY <1>7, ReadShifts DEF StreamInv, GivenCursors, Given
        <3>2. /\ applied' = applied \cup {e}
              /\ known' = IF e \in applied THEN known ELSE known \cup {e}
            BY <2>3 DEF TakeEvent
        <3>3. \A n \in applied' : n <= stale' \/ (n \in known' /\ n < next')
            BY <1>1, <2>1, <3>1, <3>2
        <3> QED
            BY <1>1, <1>2, <2>1, <3>3 DEF Histories
    <2> QED
        BY <1>7, <2>2, <2>3 DEF Read, Spoilt, TakeGap, TakeConnected, TakeHeartbeat
<1>8. CASE Finish \/ Reconnect
    BY <1>3, <1>8 DEF Finish, Reconnect
<1>9. CASE SnapshotRead
    <2>1. snap'.horizon = next - 1 /\ UNCHANGED <<next, covered, gaveUpAt, applied, stale, known>>
        BY <1>2, <1>9 DEF SnapshotRead, Requests
    <2> QED
        BY <1>1, <2>1 DEF Histories
<1>10. CASE SnapshotArrives
    BY <1>1, <1>2, <1>10 DEF SnapshotArrives, Histories
<1>11. CASE SnapshotFails
    <2>1. /\ snap'.horizon = 0 /\ gaveUpAt' \in {gaveUpAt, next - 1}
          /\ UNCHANGED <<next, covered, applied, stale, known>>
        BY <1>2, <1>11 DEF SnapshotFails
    <2> QED
        BY <1>1, <2>1 DEF Histories
<1>12. CASE PollFails \/ PollSucceeds
    BY <1>3, <1>12 DEF PollFails, PollSucceeds
<1>13. CASE RecoveryFails
    <2>1. /\ gaveUpAt' \in {gaveUpAt, next - 1}
          /\ UNCHANGED <<next, covered, snap, applied, stale, known>>
        BY <1>13 DEF RecoveryFails
    <2> QED
        BY <1>1, <2>1 DEF Histories
<1>14. CASE Recover
    <2>1. snap' = Forced(snap) /\ UNCHANGED <<next, covered, gaveUpAt, applied, stale, known>>
        BY <1>14 DEF Recover
    <2> QED
        BY <1>1, <1>2, <2>1 DEF Histories
<1> QED
    BY <1>4, <1>5, <1>6, <1>7, <1>8, <1>9, <1>10, <1>11, <1>12, <1>13, <1>14 DEF Next

\* How the batch and its cursor may change in a step.
LEMMA BatchSteps ==
    ASSUME StreamInv, Next
    PROVE  \/ gen'.todo = {}
           \/ gen'.todo = gen.todo /\ gen' = gen /\ gen.pc # "none" /\ mine \subseteq mine'
              /\ mine' \subseteq mine \cup {next}
           \/ (Open \/ Replay) /\ gen'.todo = Window(gen.cursor, next, mine)
           \/ Yield
<1>1. /\ gen \in [pc : {"none", "opening", "sending", "waiting", "woken", "timedout"},
                  cursor : Nat, todo : SUBSET Nat]
      /\ gen.todo # {} => gen.pc = "sending"
    BY TypesOfInv DEF StreamInv, Batch, Typed, NetTyped
<1>2. CASE UNCHANGED <<gen, mine>>
    BY <1>1, <1>2
<1>3. ASSUME NEW m \in BOOLEAN, Publish(m)
      PROVE  gen' = gen /\ mine' \in {mine, mine \cup {next}}
    BY <1>3 DEF Publish
<1>4. CASE Open \/ Replay
    <2>1. gen'.todo = Window(gen.cursor, next, mine)
        BY <1>1, <1>4 DEF Open, Replay
    <2> QED
        BY <1>4, <2>1
<1>5. CASE Wake \/ TimeOut \/ Heartbeat
    <2>1. gen.todo = {} /\ gen'.todo = gen.todo
        BY <1>1, <1>5 DEF Wake, TimeOut, Heartbeat
    <2> QED
        BY <2>1
<1>6. CASE Cut \/ Refuse
    BY <1>6 DEF Cut, Refuse, Broken, NoGenerator
<1>7. CASE Crash
    BY <1>1, <1>7 DEF Crash, Broken, NoGenerator
<1>8. CASE CoreStarts \/ Read \/ Finish \/ SnapshotRead \/ SnapshotArrives \/ SnapshotFails
    BY <1>2, <1>8 DEF CoreStarts, Read, Finish, SnapshotRead, SnapshotArrives, SnapshotFails
<1>9. CASE PollFails \/ PollSucceeds \/ RecoveryFails
    BY <1>2, <1>9 DEF PollFails, PollSucceeds, RecoveryFails
<1>10. CASE Reconnect \/ Recover
    BY <1>10 DEF Reconnect, Recover, OpenFrom, NoGenerator
<1> QED
    BY <1>1, <1>3, <1>4, <1>5, <1>6, <1>7, <1>8, <1>9, <1>10 DEF Next, CoreStep

\* A batch stays ahead of its cursor and without holes.
LEMMA BatchKept ==
    ASSUME StreamInv, Next
    PROVE  Batch'
<1>1. Batch /\ gen.cursor \in Nat /\ next \in Nat \ {0} /\ mine \subseteq 1 .. next - 1
      /\ gen.todo \subseteq Nat
    BY TypesOfInv DEF StreamInv
<1>2. CASE gen'.todo = {}
    BY <1>2 DEF Batch
<1>3. CASE gen' = gen /\ mine \subseteq mine' /\ mine' \subseteq mine \cup {next}
    <2>1. \A t \in gen.todo : t < next
        <3> SUFFICES ASSUME NEW t \in gen.todo PROVE t < next
            OBVIOUS
        <3>1. t \in 1 .. next - 1
            BY <1>1 DEF Batch
        <3> QED
            BY <1>1, <3>1
    <2>2. ASSUME NEW s \in gen.todo, NEW t \in gen.todo, NEW n \in mine', s < n, n < t
          PROVE  n \in gen.todo
        <3>1. n # next
            BY <1>1, <2>1, <2>2
        <3> QED
            BY <1>1, <1>3, <2>2, <3>1 DEF Batch
    <2> QED
        BY <1>1, <1>3, <2>2 DEF Batch
<1>4. CASE (Open \/ Replay) /\ gen'.todo = Window(gen.cursor, next, mine)
    <2>1. gen'.cursor = gen.cursor /\ gen'.pc = "sending" /\ mine' = mine
        BY <1>4, TypesOfInv DEF Open, Replay, Typed, NetTyped
    <2>2. \A t \in gen'.todo : t \in mine /\ t > gen.cursor /\ t \in Nat
        BY <1>1, <1>4, WindowMatches
    <2>3. ASSUME NEW s \in gen'.todo, NEW t \in gen'.todo, NEW n \in mine, s < n, n < t
          PROVE  n \in gen'.todo
        BY <1>1, <1>4, <2>3, WindowIsConvex
    <2> QED
        BY <1>1, <2>1, <2>2, <2>3 DEF Batch
<1>5. CASE Yield
    <2>1. CASE gen.todo = {} /\ gen' = [gen EXCEPT !.pc = "waiting"]
        BY <1>2, <2>1, TypesOfInv DEF Typed, NetTyped
    <2>2. CASE gen.todo # {}
        <3>1. PICK n \in gen.todo :
                  /\ \A t \in gen.todo : n <= t
                  /\ gen' = [gen EXCEPT !.cursor = n, !.todo = @ \ {n}]
            BY <1>5, <2>2, YieldSends
        <3>2. gen'.cursor = n /\ gen'.todo = gen.todo \ {n} /\ gen'.pc = gen.pc /\ mine' = mine
            BY <1>5, <3>1, TypesOfInv DEF Yield, Typed, NetTyped
        <3>3. \A t \in gen'.todo : n < t
            BY <1>1, <3>1, <3>2
        <3>4. ASSUME NEW s \in gen'.todo, NEW t \in gen'.todo, NEW m \in mine, s < m, m < t
              PROVE  m \in gen'.todo
            <4>1. m \in gen.todo
                BY <1>1, <3>2, <3>4 DEF Batch
            <4>2. m # n
                BY <1>1, <3>2, <3>3, <3>4
            <4> QED
                BY <3>2, <4>1, <4>2
        <3> QED
            BY <1>1, <3>2, <3>3, <3>4 DEF Batch
    <2> QED
        BY <1>5, <2>1, <2>2, YieldSends
<1> QED
    BY <1>2, <1>3, <1>4, <1>5, BatchSteps

----------------------------------------------------------------------------
(* No event is lost in silence *)

\* A gap was announced and the UI has not read it.
Announced == \E i \in 1 .. Len(wire) : wire[i].gap

\* Event n needs no frame any more.
Safe(n) == Reached(n) \/ SnapshotOwed(n) \/ Excused(n)

\* A request for a snapshot is on the way or will be made.
LEMMA AskedIsSafe ==
    ASSUME NEW n,
           needsReconcile \/ cut # "no" \/ armed \/ snap.phase = "asked" \/ snap.queued
    PROVE  Safe(n)
BY DEF Safe, SnapshotOwed

\* An announcement stays on the wire, unless it is read and a snapshot is asked
\* for, or the connection is over and one will be.
LEMMA AnnouncementKept ==
    ASSUME StreamInv, Next, Announced
    PROVE  \/ Announced'
           \/ (needsReconcile \/ cut # "no" \/ armed \/ snap.phase = "asked" \/ snap.queued)'
<1>1. PICK i \in 1 .. Len(wire) : wire[i].gap
    BY DEF Announced
<1>2. ASSUME wire' = wire PROVE Announced'
    BY <1>1, <1>2 DEF Announced
<1>3. CASE QuietStep
    BY <1>2, <1>3, QuietWire
<1>4. CASE Open
    <2>1. Len(wire) = 0
        BY <1>4, OpenSends
    <2> QED
        BY <1>1, <2>1
<1>5. ASSUME NEW f, Grows(f) PROVE Announced'
    <2>1. i \in 1 .. Len(wire') /\ wire'[i] = wire[i]
        BY <1>1, <1>5, GrowsAtEnd, TypesOfInv
    <2> QED
        BY <1>1, <2>1 DEF Announced
<1>6. CASE Yield \/ Heartbeat \/ Replay
    BY <1>2, <1>5, <1>6, YieldSends, HeartbeatSends, ReplaySends
<1>7. CASE Broken
    BY <1>7, BrokenTyped, TypesOfInv DEF Typed
<1>8. CASE Recover
    <2>1. snap' = Forced(snap) /\ snap \in Requests
        BY <1>8, TypesOfInv DEF Recover, Typed
    <2> QED
        BY <2>1, RequestsTyped
<1>9. CASE Read
    <2>1. /\ Head(wire) = wire[1] /\ Len(wire') = Len(wire) - 1 /\ Len(wire) \in Nat
          /\ \A j \in 1 .. Len(wire) - 1 : wire'[j] = wire[j + 1]
        BY <1>9, ReadShifts
    <2>2. CASE i = 1
        <3>1. Head(wire).gap /\ Head(wire).kind \in {"connected", "gap"}
            BY <1>1, <2>1, <2>2 DEF StreamInv, GapFrames
        <3>2. snap \in Requests /\ (tail => needsReconcile)
            BY TypesOfInv DEF Typed, StreamInv, Connection
        <3>3. CASE Spoilt
            BY <3>2, <3>3 DEF Spoilt
        <3>4. CASE TakeGap(Head(wire))
            BY <3>2, <3>4, RequestsTyped DEF TakeGap
        <3>5. CASE TakeConnected(Head(wire))
            BY <3>1, <3>2, <3>5, RequestsTyped DEF TakeConnected
        <3> QED
            BY <1>9, <3>1, <3>3, <3>4, <3>5 DEF Read, TakeEvent, TakeHeartbeat
    <2>3. CASE i # 1
        <3>1. i - 1 \in 1 .. Len(wire') /\ wire'[i - 1] = wire[i]
            BY <1>1, <2>1, <2>3
        <3> QED
            BY <1>1, <3>1 DEF Announced
    <2> QED
        BY <2>2, <2>3
<1> QED
    BY <1>2, <1>3, <1>4, <1>6, <1>7, <1>8, <1>9, WireSteps

\* What is safe stays so while the core lives.
LEMMA SafeKept ==
    ASSUME StreamInv, Next, ~Crash, NEW n \in mine, Safe(n)
    PROVE  Safe(n)'
<1>1. /\ Typed /\ snap \in Requests /\ n \in Nat /\ n < next /\ next \in Nat
      /\ covered \in Nat /\ gaveUpAt \in Nat
    <2>1. n \in 1 .. next - 1 /\ next \in Nat
        BY TypesOfInv
    <2> QED
        BY <2>1, TypesOfInv DEF Typed, HistoryTyped
<1>2. ASSUME (needsReconcile \/ cut # "no" \/ armed \/ snap.phase = "asked" \/ snap.queued)'
      PROVE  Safe(n)'
    BY <1>2 DEF Safe, SnapshotOwed
<1>3. Announced => Announced' \/ Safe(n)'
    BY <1>2, AnnouncementKept
<1>4. \/ Reached(n) \/ Excused(n) \/ Announced
      \/ needsReconcile \/ cut # "no" \/ armed \/ snap.phase = "asked" \/ snap.queued
      \/ snap.phase = "read" /\ n <= snap.horizon
    BY DEF Safe, SnapshotOwed, Announced
<1>5. CASE UNCHANGED <<needsReconcile, cut, armed, snap, known, covered, gaveUpAt>>
    BY <1>3, <1>4, <1>5 DEF Safe, SnapshotOwed, Announced, Reached, Excused
<1>6. ASSUME NEW m \in BOOLEAN, Publish(m) PROVE Safe(n)'
    BY <1>5, <1>6 DEF Publish
<1>7. CASE CoreStep \/ CoreStarts
    BY <1>5, <1>7 DEF CoreStep, Open, Yield, Wake, TimeOut, Heartbeat, Replay, CoreStarts
<1>8. CASE Reconnect \/ PollSucceeds
    BY <1>5, <1>8 DEF Reconnect, PollSucceeds
<1>9. CASE Cut \/ Refuse
    <2>1. cut' # "no"
        BY <1>1, <1>9, BrokenTyped DEF Cut, Refuse, Typed
    <2> QED
        BY <1>2, <2>1
<1>10. CASE Finish
    BY <1>2, <1>10 DEF Finish
<1>11. CASE Read
    <2>1. UNCHANGED <<cut, armed, covered, gaveUpAt>> /\ known \subseteq known'
        BY <1>11 DEF Read, Spoilt, TakeEvent, TakeGap, TakeConnected, TakeHeartbeat
    <2>2. snap' \in {snap, Forced(snap)}
        BY <1>11 DEF Read, Spoilt, TakeEvent, TakeGap, TakeConnected, TakeHeartbeat
    <2>3. needsReconcile => needsReconcile' \/ snap' = Forced(snap)
        BY <1>11 DEF Read, Spoilt, TakeEvent, TakeGap, TakeConnected, TakeHeartbeat
    <2>4. CASE snap' = Forced(snap)
        BY <1>1, <1>2, <2>4, RequestsTyped
    <2>5. CASE snap' = snap /\ (needsReconcile => needsReconcile')
        BY <1>3, <1>4, <2>1, <2>5 DEF Safe, SnapshotOwed, Announced, Reached, Excused
    <2> QED
        BY <2>2, <2>3, <2>4, <2>5
<1>12. CASE SnapshotRead
    <2>1. snap'.phase = "read" /\ snap'.horizon = next - 1
        BY <1>1, <1>12 DEF SnapshotRead, Requests
    <2> QED
        BY <1>1, <2>1 DEF Safe, SnapshotOwed
<1>13. CASE SnapshotArrives
    <2>1. /\ UNCHANGED <<needsReconcile, cut, armed, known, gaveUpAt>> /\ snap.phase = "read"
          /\ snap' = Completed(snap)
          /\ covered' = IF snap.horizon > covered THEN snap.horizon ELSE covered
        BY <1>13 DEF SnapshotArrives
    <2>2. CASE snap.queued
        BY <1>1, <1>2, <2>1, <2>2, RequestsTyped
    <2>3. snap.horizon \in Nat
        BY <1>1 DEF Requests
    <2>4. CASE n <= snap.horizon
        BY <1>1, <2>1, <2>3, <2>4 DEF Safe, Reached
    <2>5. CASE Reached(n)
        BY <1>1, <2>1, <2>3, <2>5 DEF Safe, Reached
    <2> QED
        BY <1>2, <1>3, <1>4, <2>1, <2>2, <2>4, <2>5 DEF Safe, SnapshotOwed, Announced, Excused
<1>14. CASE SnapshotFails
    <2>1. /\ snap' = Completed(snap)
          /\ gaveUpAt' = IF armed' \/ snap.queued THEN gaveUpAt ELSE next - 1
        BY <1>14 DEF SnapshotFails
    <2>2. CASE armed' \/ snap.queued
        BY <1>1, <1>2, <2>1, <2>2, RequestsTyped
    <2>3. CASE ~armed' /\ ~snap.queued
        BY <1>1, <2>1, <2>3 DEF Safe, Excused
    <2> QED
        BY <2>2, <2>3
<1>15. CASE PollFails
    <2>1. UNCHANGED <<needsReconcile, cut, snap, known, covered, gaveUpAt>> /\ (armed => armed')
        BY <1>15 DEF PollFails, ScheduleRecovery
    <2> QED
        BY <1>2, <1>3, <1>4, <2>1 DEF Safe, SnapshotOwed, Announced, Reached, Excused
<1>16. CASE RecoveryFails
    <2>1. gaveUpAt' = IF armed' THEN gaveUpAt ELSE next - 1
        BY <1>16 DEF RecoveryFails
    <2>2. CASE armed'
        BY <1>2, <2>2
    <2>3. CASE ~armed'
        BY <1>1, <2>1, <2>3 DEF Safe, Excused
    <2> QED
        BY <2>2, <2>3
<1>17. CASE Recover
    <2>1. snap' = Forced(snap)
        BY <1>17 DEF Recover
    <2> QED
        BY <1>1, <1>2, <2>1, RequestsTyped
<1> QED
    BY <1>6, <1>7, <1>8, <1>9, <1>10, <1>11, <1>12, <1>13, <1>14, <1>15, <1>16, <1>17 DEF Next

\* An event on the wire stays there or reaches the UI or becomes safe.
LEMMA SentKept ==
    ASSUME StreamInv, Next, ~Crash, NEW n \in mine, n > stale, gen.pc # "none",
           gen'.pc # "none", Sent(n)
    PROVE  Sent(n)' \/ Safe(n)'
<1>1. PICK i \in 1 .. Len(wire) : wire[i].kind = "event" /\ wire[i].n = n
    BY DEF Sent
<1>2. ASSUME wire' = wire PROVE Sent(n)'
    BY <1>1, <1>2 DEF Sent
<1>3. CASE QuietStep
    BY <1>2, <1>3, QuietWire
<1>4. CASE Open
    <2>1. Len(wire) = 0
        BY <1>4, OpenSends
    <2> QED
        BY <1>1, <2>1
<1>5. ASSUME NEW f, Grows(f) PROVE Sent(n)'
    <2>1. i \in 1 .. Len(wire') /\ wire'[i] = wire[i]
        BY <1>1, <1>5, GrowsAtEnd, TypesOfInv
    <2> QED
        BY <1>1, <2>1 DEF Sent
<1>6. CASE Yield \/ Heartbeat \/ Replay
    BY <1>2, <1>5, <1>6, YieldSends, HeartbeatSends, ReplaySends
<1>7. CASE Broken
    BY <1>7 DEF Broken, NoGenerator
<1>8. CASE Recover
    <2>1. snap' = Forced(snap) /\ snap \in Requests
        BY <1>8, TypesOfInv DEF Recover, Typed
    <2>2. (snap.phase = "asked" \/ snap.queued)'
        BY <2>1, RequestsTyped
    <2> QED
        BY <2>2 DEF Safe, SnapshotOwed
<1>9. CASE Read
    <2>1. /\ Head(wire) = wire[1] /\ Len(wire') = Len(wire) - 1 /\ Len(wire) \in Nat
          /\ \A j \in 1 .. Len(wire) - 1 : wire'[j] = wire[j + 1]
        BY <1>9, ReadShifts
    <2>2. CASE i = 1
        <3>1. Head(wire).n = n /\ Head(wire).kind = "event"
            BY <1>1, <2>1, <2>2
        <3>2. CASE Spoilt
            <4>1. needsReconcile'
                BY <3>2 DEF Spoilt, StreamInv, Connection
            <4> QED
                BY <4>1 DEF Safe, SnapshotOwed
        <3>3. ASSUME NEW notable \in BOOLEAN, TakeEvent(Head(wire), notable)
              PROVE  Safe(n)'
            <4>1. known' = IF n \in applied THEN known ELSE known \cup {n}
                BY <3>1, <3>3 DEF TakeEvent
            <4>2. n \in applied => n \in known
                <5>1. n \in Nat /\ stale \in Nat
                    BY TypesOfInv
                <5> QED
                    BY <5>1 DEF StreamInv, Histories
            <4>3. n \in known'
                BY <4>1, <4>2
            <4> QED
                BY <4>3 DEF Safe, Reached
        <3> QED
            BY <1>9, <3>1, <3>2, <3>3 DEF Read, TakeGap, TakeConnected, TakeHeartbeat
    <2>3. CASE i # 1
        <3>1. i - 1 \in 1 .. Len(wire') /\ wire'[i - 1] = wire[i]
            BY <1>1, <2>1, <2>3
        <3> QED
            BY <1>1, <3>1 DEF Sent
    <2> QED
        BY <2>2, <2>3
<1> QED
    BY <1>2, <1>3, <1>4, <1>6, <1>7, <1>8, <1>9, WireSteps

\* What the generator skips in a step was skipped before, or is announced or sent.
LEMMA SkippedKept ==
    ASSUME StreamInv, Next
    PROVE  SkippedInv'
<1>1. CASE Crash
    BY <1>1 DEF Crash, SkippedInv
<1>2. SUFFICES ASSUME ~Crash, NEW n \in mine', n > stale', gen'.pc # "none", Skipped(n)'
               PROVE  Sent(n)' \/ Safe(n)'
    BY <1>1 DEF SkippedInv, Safe
<1>3. /\ mine \subseteq 1 .. next - 1 /\ next \in Nat \ {0} /\ gen.cursor \in Nat
      /\ stale \in Nat /\ gen.todo \subseteq mine
      /\ gen \in [pc : {"none", "opening", "sending", "waiting", "woken", "timedout"},
                  cursor : Nat, todo : SUBSET Nat]
    BY TypesOfInv DEF StreamInv, Batch, Typed, NetTyped
<1>4. \A m \in mine : m \in Nat /\ m < next
    <2> SUFFICES ASSUME NEW m \in mine PROVE m \in Nat /\ m < next
        OBVIOUS
    <2>1. m \in 1 .. next - 1
        BY <1>3
    <2> QED
        BY <1>3, <2>1
<1>5. ASSUME n \in mine, n > stale, gen.pc # "none", Skipped(n) PROVE Sent(n)' \/ Safe(n)'
    <2>1. Sent(n) \/ Safe(n)
        BY <1>5 DEF StreamInv, SkippedInv, Safe
    <2> QED
        BY <1>2, <1>5, <2>1, SentKept, SafeKept
<1>6. ASSUME NEW m \in BOOLEAN, Publish(m) PROVE Sent(n)' \/ Safe(n)'
    <2>1. gen' = gen /\ stale' = stale /\ mine' \in {mine, mine \cup {next}}
        BY <1>6 DEF Publish
    <2>2. Skipped(n)
        BY <1>2, <2>1 DEF Skipped
    <2>3. n # next
        BY <1>2, <1>3, <1>4, <2>1, <2>2 DEF Skipped, StreamInv, GivenCursors, Given
    <2> QED
        BY <1>2, <1>5, <2>1, <2>2, <2>3
<1>7. CASE Open \/ Replay
    <2>1. /\ gen'.cursor = gen.cursor /\ gen'.todo = Window(gen.cursor, next, mine)
          /\ gen.pc # "none" /\ UNCHANGED <<mine, stale, next>>
        BY <1>3, <1>7 DEF Open, Replay
    <2>2. CASE n <= gen.cursor
        BY <1>2, <1>5, <2>1, <2>2 DEF Skipped
    <2>3. CASE ~(n <= gen.cursor)
        <3>1. PICK t \in Window(gen.cursor, next, mine) : n < t
            BY <1>2, <2>1, <2>3 DEF Skipped
        <3>2. n \in mine /\ n \in 1 .. next - 1 /\ gen.cursor < n
              /\ n \notin Window(gen.cursor, next, mine)
            BY <1>2, <1>3, <1>4, <2>1, <2>3 DEF Skipped
        <3>3. GapDetected(gen.cursor, next)
            BY <1>3, <3>1, <3>2, LeftOutMeansGap
        <3>4. Announced'
            <4>1. CASE Open
                <5>1. 1 \in 1 .. Len(wire')
                    BY <4>1, OpenSends
                <5>2. wire'[1].gap
                    BY <3>3, <4>1, OpenSends DEF Frame
                <5> QED
                    BY <5>1, <5>2 DEF Announced
            <4>2. CASE Replay
                <5>1. Grows(Frame("gap", 0, TRUE))
                    BY <3>3, <4>2, ReplaySends
                <5>2. Len(wire) + 1 \in 1 .. Len(wire') /\ wire'[Len(wire) + 1].gap
                    BY <5>1, GrowsAtEnd, TypesOfInv DEF Frame
                <5> QED
                    BY <5>2 DEF Announced
            <4> QED
                BY <1>7, <4>1, <4>2
        <3> QED
            BY <3>4 DEF Announced, Safe, SnapshotOwed
    <2> QED
        BY <2>2, <2>3
<1>8. CASE Yield
    <2>1. gen.pc # "none" /\ UNCHANGED <<mine, stale, next>>
        BY <1>8 DEF Yield
    <2>2. CASE gen.todo = {} /\ gen' = [gen EXCEPT !.pc = "waiting"]
        <3>1. gen'.cursor = gen.cursor /\ gen'.todo = gen.todo
            BY <1>3, <2>2
        <3> QED
            BY <1>2, <1>5, <2>1, <3>1 DEF Skipped
    <2>3. CASE gen.todo # {}
        <3>1. PICK e \in gen.todo :
                  /\ \A t \in gen.todo : e <= t
                  /\ gen' = [gen EXCEPT !.cursor = e, !.todo = @ \ {e}]
                  /\ Grows(Frame("event", e, FALSE))
            BY <1>8, <2>3, YieldSends
        <3>2. gen'.cursor = e /\ gen'.todo = gen.todo \ {e} /\ e \in Nat /\ n \in Nat
            BY <1>2, <1>3, <1>4, <2>1, <3>1
        <3>3. CASE n = e
            <4>1. /\ Len(wire) + 1 \in 1 .. Len(wire')
                  /\ wire'[Len(wire) + 1] = Frame("event", e, FALSE)
                <5>1. /\ Len(wire') = Len(wire) + 1
                      /\ wire'[Len(wire) + 1] = Frame("event", e, FALSE)
                    BY <3>1, GrowsAtEnd
                <5>2. Len(wire) \in Nat
                    BY TypesOfInv
                <5> QED
                    BY <5>1, <5>2
            <4> QED
                BY <3>3, <4>1 DEF Sent, Frame
        <3>4. CASE n < e
            <4>1. n \notin gen.todo
                BY <3>1, <3>2, <3>4
            <4> QED
                BY <1>2, <1>5, <2>1, <3>4, <4>1 DEF Skipped
        <3>5. CASE e < n
            <4>1. n \notin gen.todo /\ \E t \in gen.todo : n < t
                BY <1>2, <3>2, <3>5 DEF Skipped
            <4> QED
                BY <1>2, <1>5, <2>1, <4>1 DEF Skipped
        <3> QED
            BY <3>2, <3>3, <3>4, <3>5
    <2> QED
        BY <1>8, <2>2, <2>3, YieldSends
<1>9. CASE Wake \/ TimeOut \/ Heartbeat
    <2>1. /\ gen'.cursor = gen.cursor /\ gen'.todo = gen.todo /\ gen.pc # "none"
          /\ UNCHANGED <<mine, stale>>
        BY <1>3, <1>9 DEF Wake, TimeOut, Heartbeat
    <2> QED
        BY <1>2, <1>5, <2>1 DEF Skipped
<1>10. CASE Cut \/ Refuse
    BY <1>2, <1>10 DEF Cut, Refuse, Broken, NoGenerator
<1>11. ASSUME UNCHANGED <<gen, mine, stale>> PROVE Sent(n)' \/ Safe(n)'
    BY <1>2, <1>5, <1>11 DEF Skipped
<1>12. CASE CoreStarts \/ Read \/ Finish \/ SnapshotRead \/ SnapshotArrives \/ SnapshotFails
    BY <1>11, <1>12 DEF CoreStarts, Read, Finish, SnapshotRead, SnapshotArrives, SnapshotFails
<1>13. CASE PollFails \/ PollSucceeds \/ RecoveryFails
    BY <1>11, <1>13 DEF PollFails, PollSucceeds, RecoveryFails
<1>14. CASE Reconnect
    <2>1. needsReconcile'
        BY <1>14 DEF Reconnect, StreamInv, Connection
    <2> QED
        BY <2>1 DEF Safe, SnapshotOwed
<1>15. CASE Recover
    <2>1. snap' = Forced(snap) /\ snap \in Requests
        BY <1>15, TypesOfInv DEF Recover, Typed
    <2>2. (snap.phase = "asked" \/ snap.queued)'
        BY <2>1, RequestsTyped
    <2> QED
        BY <2>2 DEF Safe, SnapshotOwed
<1> QED
    BY <1>2, <1>6, <1>7, <1>8, <1>9, <1>10, <1>12, <1>13, <1>14, <1>15 DEF Next, CoreStep

----------------------------------------------------------------------------
(* The stream has no holes *)

\* What is sent next follows what is on the wire without a hole.
LEMMA TrailingKept ==
    ASSUME StreamInv, Next
    PROVE  TrailingInv'
<1>1. SUFFICES ASSUME Streaming', NEW i \in 1 .. Len(wire'), wire'[i].kind = "event"
               PROVE  /\ wire'[i].n <= gen'.cursor /\ gen'.cursor < next'
                      /\ Clear(i, Len(wire))' =>
                           /\ \A n \in mine' : wire'[i].n < n /\ n <= gen'.cursor
                                => \E k \in i .. Len(wire') :
                                     wire'[k].kind = "event" /\ wire'[k].n = n
                           /\ \A t \in gen'.todo : \A n \in mine' :
                                gen'.cursor < n /\ n < t => n \in gen'.todo
    BY DEF TrailingInv, Clear
<1>2. /\ mine \subseteq 1 .. next - 1 /\ next \in Nat \ {0} /\ gen.cursor \in Nat
      /\ gen.todo \subseteq mine /\ Len(wire) \in Nat
      /\ \A t \in gen.todo : gen.cursor < t
      /\ \A j \in 1 .. Len(wire) : wire[j].n \in Nat
      /\ gen \in [pc : {"none", "opening", "sending", "waiting", "woken", "timedout"},
                  cursor : Nat, todo : SUBSET Nat]
    BY TypesOfInv DEF StreamInv, Batch, Typed, NetTyped
<1>3. \A m \in mine : m \in Nat /\ m < next
    <2> SUFFICES ASSUME NEW m \in mine PROVE m \in Nat /\ m < next
        OBVIOUS
    <2>1. m \in 1 .. next - 1
        BY <1>2
    <2> QED
        BY <1>2, <2>1
<1>4. ASSUME Streaming, NEW j \in 1 .. Len(wire), wire[j].kind = "event"
      PROVE  /\ wire[j].n <= gen.cursor /\ gen.cursor < next
             /\ Clear(j, Len(wire)) =>
                  /\ \A n \in mine : wire[j].n < n /\ n <= gen.cursor
                       => \E k \in j .. Len(wire) : wire[k].kind = "event" /\ wire[k].n = n
                  /\ \A t \in gen.todo : \A n \in mine :
                       gen.cursor < n /\ n < t => n \in gen.todo
    BY <1>4 DEF StreamInv, TrailingInv
<1>5. CASE wire' = wire /\ gen'.cursor = gen.cursor /\ gen'.todo = gen.todo /\ Streaming
           /\ mine' \subseteq mine \cup {next} /\ next' >= next /\ next' \in Nat
    <2>1. /\ wire[i].n <= gen.cursor /\ gen.cursor < next
          /\ Clear(i, Len(wire)) =>
               /\ \A n \in mine : wire[i].n < n /\ n <= gen.cursor
                    => \E k \in i .. Len(wire) : wire[k].kind = "event" /\ wire[k].n = n
               /\ \A t \in gen.todo : \A n \in mine :
                    gen.cursor < n /\ n < t => n \in gen.todo
        BY <1>1, <1>4, <1>5
    <2>2. \A t \in gen.todo : t < next /\ t \in Nat
        BY <1>2, <1>3
    <2>3. Clear(i, Len(wire))' => Clear(i, Len(wire))
        BY <1>5 DEF Clear
    <2>4. gen'.cursor < next'
        BY <1>2, <1>5, <2>1
    <2>5. \A n \in mine' : n <= gen'.cursor => n \in mine
        BY <1>2, <1>5, <2>1
    <2>6. \A t \in gen'.todo : \A n \in mine' : n < t => n \in mine
        BY <1>2, <1>5, <2>2
    <2> QED
        BY <1>5, <2>1, <2>3, <2>4, <2>5, <2>6
<1>6. ASSUME NEW m \in BOOLEAN, Publish(m)
      PROVE  wire' = wire /\ gen' = gen /\ mine' \in {mine, mine \cup {next}} /\ next' = next + 1
    BY <1>6 DEF Publish
<1>7. CASE CoreStarts \/ Finish \/ SnapshotRead \/ SnapshotArrives \/ SnapshotFails
    <2>1. UNCHANGED <<wire, gen, mine, next>>
        BY <1>7 DEF CoreStarts, Finish, SnapshotRead, SnapshotArrives, SnapshotFails
    <2> QED
        BY <1>1, <1>2, <1>5, <2>1 DEF Streaming
<1>8. CASE PollFails \/ PollSucceeds \/ RecoveryFails
    <2>1. UNCHANGED <<wire, gen, mine, next>>
        BY <1>8 DEF PollFails, PollSucceeds, RecoveryFails
    <2> QED
        BY <1>1, <1>2, <1>5, <2>1 DEF Streaming
<1>9. CASE Wake \/ TimeOut
    <2>1. /\ gen'.cursor = gen.cursor /\ gen'.todo = gen.todo /\ gen.pc = "waiting"
          /\ UNCHANGED <<wire, mine, next>>
        BY <1>2, <1>9 DEF Wake, TimeOut
    <2> QED
        BY <1>2, <1>5, <2>1 DEF Streaming
<1>10. CASE Open
    <2>1. wire'[i].kind \in {"connected", "gap"}
        <3>1. i = 1 \/ (i = 2 /\ Len(wire') = 2)
            <4>1. Len(wire') \in {1, 2}
                BY <1>10, OpenSends
            <4>2. ASSUME NEW l \in {1, 2}, i \in 1 .. l PROVE i = 1 \/ (i = 2 /\ l = 2)
                BY <4>2
            <4> QED
                BY <4>1, <4>2
        <3>2. ASSUME NEW n, NEW gap PROVE Frame("connected", n, gap).kind = "connected"
            BY DEF Frame
        <3>3. Frame("gap", 0, TRUE).kind = "gap"
            BY DEF Frame
        <3> QED
            BY <1>10, <3>1, <3>2, <3>3, OpenSends
    <2> QED
        BY <1>1, <2>1
<1>11. CASE Replay
    <2>1. /\ gen'.cursor = gen.cursor /\ gen'.todo = Window(gen.cursor, next, mine)
          /\ gen.pc = "woken" /\ UNCHANGED <<mine, next>>
        BY <1>2, <1>11 DEF Replay
    <2>2. CASE GapDetected(gen.cursor, next)
        <3>1. /\ Len(wire') = Len(wire) + 1 /\ wire'[Len(wire) + 1].kind = "gap"
              /\ \A j \in 1 .. Len(wire) : wire'[j] = wire[j]
            BY <1>11, <2>2, ReplaySends, GrowsAtEnd DEF Frame
        <3>2. ~Clear(i, Len(wire))'
            <4>1. Len(wire') \in i .. Len(wire')
                BY <1>2, <3>1
            <4> QED
                BY <3>1, <4>1 DEF Clear
        <3>3. i \in 1 .. Len(wire)
            BY <1>1, <1>2, <3>1
        <3> QED
            BY <1>1, <1>4, <2>1, <3>1, <3>2, <3>3 DEF Streaming
    <2>3. CASE ~GapDetected(gen.cursor, next)
        <3>1. wire' = wire
            BY <1>11, <2>3, ReplaySends
        <3>2. \A t \in gen'.todo : \A n \in mine :
                  gen.cursor < n /\ n < t => n \in gen'.todo
            BY <1>2, <2>1, <2>3, LeftOutMeansGap
        <3>3. Clear(i, Len(wire))' => Clear(i, Len(wire))
            BY <3>1 DEF Clear
        <3> QED
            BY <1>1, <1>4, <2>1, <3>1, <3>2, <3>3 DEF Streaming
    <2> QED
        BY <2>2, <2>3
<1>12. CASE Yield
    <2>1. gen.pc = "sending" /\ UNCHANGED <<mine, next>>
        BY <1>12 DEF Yield
    <2>2. CASE gen.todo = {} /\ gen' = [gen EXCEPT !.pc = "waiting"] /\ wire' = wire
        <3>1. gen'.cursor = gen.cursor /\ gen'.todo = gen.todo
            BY <1>2, <2>2
        <3> QED
            BY <1>2, <1>5, <2>1, <2>2, <3>1 DEF Streaming
    <2>3. CASE gen.todo # {}
        <3>1. PICK e \in gen.todo :
                  /\ \A t \in gen.todo : e <= t
                  /\ gen' = [gen EXCEPT !.cursor = e, !.todo = @ \ {e}]
                  /\ Grows(Frame("event", e, FALSE))
            BY <1>12, <2>3, YieldSends
        <3>2. gen'.cursor = e /\ gen'.todo = gen.todo \ {e} /\ e \in Nat /\ gen.cursor < e
              /\ e < next
            BY <1>2, <1>3, <3>1
        <3>3. /\ Len(wire') = Len(wire) + 1
              /\ wire'[Len(wire) + 1].kind = "event" /\ wire'[Len(wire) + 1].n = e
              /\ \A j \in 1 .. Len(wire) : wire'[j] = wire[j]
            BY <3>1, GrowsAtEnd DEF Frame
        <3>4. CASE i = Len(wire) + 1
            <4>1. ASSUME NEW t \in gen'.todo, NEW n \in mine, e < n, n < t
                  PROVE  n \in gen'.todo
                <5>1. n \in gen.todo
                    BY <3>2, <4>1 DEF StreamInv, Batch
                <5>2. n # e
                    BY <3>2, <4>1
                <5> QED
                    BY <3>2, <5>1, <5>2
            <4>2. \A n \in mine : ~(e < n /\ n <= e)
                BY <1>3, <3>2
            <4> QED
                BY <2>1, <3>2, <3>3, <3>4, <4>1, <4>2
        <3>5. CASE i \in 1 .. Len(wire)
            <4>1. wire[i].kind = "event" /\ wire'[i] = wire[i] /\ wire[i].n \in Nat
                BY <1>1, <1>2, <3>3, <3>5
            <4>2. wire[i].n <= gen.cursor
                BY <1>4, <2>1, <3>5, <4>1 DEF Streaming
            <4>3. wire'[i].n <= gen'.cursor /\ gen'.cursor < next'
                BY <1>2, <2>1, <3>2, <4>1, <4>2
            <4>4. ASSUME Clear(i, Len(wire))' PROVE Clear(i, Len(wire))
                <5> SUFFICES ASSUME NEW k \in i .. Len(wire) PROVE wire[k].kind # "gap"
                    BY DEF Clear
                <5>1. k \in i .. Len(wire') /\ k \in 1 .. Len(wire)
                    BY <1>2, <3>3, <3>5
                <5> QED
                    BY <3>3, <4>4, <5>1 DEF Clear
            <4>5. ASSUME Clear(i, Len(wire)), NEW t \in gen.todo, NEW n \in mine,
                         gen.cursor < n, n < t
                  PROVE  n \in gen.todo
                BY <1>4, <2>1, <3>5, <4>1, <4>5 DEF Streaming
            <4>6. ASSUME Clear(i, Len(wire)), NEW n \in mine, wire[i].n < n, n <= gen.cursor
                  PROVE  \E k \in i .. Len(wire) : wire[k].kind = "event" /\ wire[k].n = n
                BY <1>4, <2>1, <3>5, <4>1, <4>6 DEF Streaming
            <4>7. ASSUME Clear(i, Len(wire)), NEW n \in mine, wire'[i].n < n, n <= e
                  PROVE  \E k \in i .. Len(wire') : wire'[k].kind = "event" /\ wire'[k].n = n
                <5>1. CASE n <= gen.cursor
                    <6>1. PICK k \in i .. Len(wire) : wire[k].kind = "event" /\ wire[k].n = n
                        BY <4>1, <4>6, <4>7, <5>1
                    <6>2. k \in i .. Len(wire') /\ k \in 1 .. Len(wire)
                        BY <1>2, <3>3, <3>5
                    <6> QED
                        BY <3>3, <6>1, <6>2
                <5>2. CASE gen.cursor < n /\ n < e
                    <6>1. n \in gen.todo
                        BY <4>5, <4>7, <5>2
                    <6> QED
                        BY <1>3, <3>1, <3>2, <5>2, <6>1
                <5>3. CASE n = e
                    <6>1. Len(wire) + 1 \in i .. Len(wire')
                        BY <1>2, <3>3, <3>5
                    <6> QED
                        BY <3>3, <5>3, <6>1
                <5> QED
                    BY <1>2, <1>3, <3>2, <4>7, <5>1, <5>2, <5>3
            <4>8. ASSUME Clear(i, Len(wire)), NEW t \in gen'.todo, NEW n \in mine, e < n, n < t
                  PROVE  n \in gen'.todo
                <5>1. gen.cursor < n /\ n # e /\ t \in gen.todo
                    BY <1>2, <1>3, <3>2, <4>8
                <5> QED
                    BY <3>2, <4>5, <4>8, <5>1
            <4> QED
                BY <2>1, <3>2, <4>3, <4>4, <4>7, <4>8
        <3> QED
            BY <1>1, <1>2, <3>3, <3>4, <3>5
    <2> QED
        BY <1>12, <2>2, <2>3, YieldSends
<1>13. CASE Heartbeat
    <2>1. /\ gen'.cursor = gen.cursor /\ gen'.todo = gen.todo /\ gen.pc = "timedout"
          /\ UNCHANGED <<mine, next>>
        BY <1>2, <1>13 DEF Heartbeat
    <2>2. /\ Len(wire') = Len(wire) + 1 /\ wire'[Len(wire) + 1].kind = "heartbeat"
          /\ \A j \in 1 .. Len(wire) : wire'[j] = wire[j]
        BY <1>13, HeartbeatSends, GrowsAtEnd DEF Frame
    <2>3. i \in 1 .. Len(wire)
        BY <1>1, <1>2, <2>2
    <2>4. wire[i].kind = "event" /\ wire'[i] = wire[i]
        BY <1>1, <2>2, <2>3
    <2>5. \A k \in i .. Len(wire) : k \in i .. Len(wire') /\ wire'[k] = wire[k]
        BY <1>2, <2>2, <2>3
    <2>6. Clear(i, Len(wire))' => Clear(i, Len(wire))
        BY <2>5 DEF Clear
    <2> QED
        BY <1>4, <2>1, <2>3, <2>4, <2>5, <2>6 DEF Streaming
<1>14. CASE Read
    <2>1. /\ Len(wire') = Len(wire) - 1
          /\ \A j \in 1 .. Len(wire) - 1 : wire'[j] = wire[j + 1]
        BY <1>14, ReadShifts
    <2>2. UNCHANGED <<gen, mine, next>>
        BY <1>14 DEF Read
    <2>3. i + 1 \in 1 .. Len(wire) /\ wire'[i] = wire[i + 1]
        BY <1>2, <2>1
    <2>4. \A k \in i + 1 .. Len(wire) : k - 1 \in i .. Len(wire') /\ wire'[k - 1] = wire[k]
        BY <1>2, <2>1, <2>3
    <2>5. Clear(i, Len(wire))' => Clear(i + 1, Len(wire))
        BY <2>4 DEF Clear
    <2>6. Streaming /\ wire[i + 1].kind = "event"
        BY <1>1, <2>2, <2>3 DEF Streaming
    <2> QED
        BY <1>4, <2>2, <2>3, <2>4, <2>5, <2>6
<1>15. CASE Cut \/ Refuse
    BY <1>1, <1>15 DEF Cut, Refuse, Broken, NoGenerator, Streaming
<1>16. CASE Crash
    BY <1>1, <1>16 DEF Crash, Broken, NoGenerator, Streaming
<1>17. CASE Reconnect \/ Recover
    BY <1>1, <1>17 DEF Reconnect, Recover, OpenFrom, NoGenerator, Streaming
<1>18. ASSUME NEW m \in BOOLEAN, Publish(m)
       PROVE  /\ wire' = wire /\ gen'.cursor = gen.cursor /\ gen'.todo = gen.todo /\ Streaming
              /\ mine' \subseteq mine \cup {next} /\ next' >= next /\ next' \in Nat
    BY <1>1, <1>2, <1>6, <1>18 DEF Streaming
<1> QED
    BY <1>5, <1>7, <1>8, <1>9, <1>10, <1>11, <1>12, <1>13, <1>14, <1>15, <1>16, <1>17, <1>18
    DEF Next, CoreStep

\* No step opens a hole between two frames.
LEMMA HolesKept ==
    ASSUME StreamInv, Next
    PROVE  StreamHasNoHoles'
<1>1. SUFFICES ASSUME NEW i \in 1 .. Len(wire'), NEW j \in 1 .. Len(wire'), i < j,
                      wire'[i].kind = "event", wire'[j].kind = "event", Clear(i, j)'
               PROVE  /\ wire'[i].n < wire'[j].n
                      /\ \A n \in mine' : wire'[i].n < n /\ n < wire'[j].n /\ n > stale'
                           => \E k \in i .. j : wire'[k].kind = "event" /\ wire'[k].n = n
    BY DEF StreamHasNoHoles, Clear
<1>2. /\ mine \subseteq 1 .. next - 1 /\ next \in Nat \ {0} /\ gen.cursor \in Nat
      /\ stale \in Nat /\ gen.todo \subseteq mine /\ Len(wire) \in Nat
      /\ \A t \in gen.todo : gen.cursor < t
      /\ \A m \in 1 .. Len(wire) : wire[m].n \in Nat
    BY TypesOfInv DEF StreamInv, Batch
<1>3. \A m \in mine : m \in Nat /\ m < next
    <2> SUFFICES ASSUME NEW m \in mine PROVE m \in Nat /\ m < next
        OBVIOUS
    <2>1. m \in 1 .. next - 1
        BY <1>2
    <2> QED
        BY <1>2, <2>1
<1>4. ASSUME NEW a \in 1 .. Len(wire), NEW b \in 1 .. Len(wire), a < b,
             wire[a].kind = "event", wire[b].kind = "event", Clear(a, b)
      PROVE  /\ wire[a].n < wire[b].n
             /\ \A n \in mine : wire[a].n < n /\ n < wire[b].n /\ n > stale
                  => \E k \in a .. b : wire[k].kind = "event" /\ wire[k].n = n
    BY <1>4 DEF StreamInv, StreamHasNoHoles, Clear
\* The two frames stood next to the same frames before.
<1>5. ASSUME i \in 1 .. Len(wire), j \in 1 .. Len(wire),
             \A k \in i .. j : wire'[k] = wire[k], mine' \subseteq mine, stale' = stale
      PROVE  /\ wire'[i].n < wire'[j].n
             /\ \A n \in mine' : wire'[i].n < n /\ n < wire'[j].n /\ n > stale'
                  => \E k \in i .. j : wire'[k].kind = "event" /\ wire'[k].n = n
    <2>1. wire'[i] = wire[i] /\ wire'[j] = wire[j]
        BY <1>1, <1>5
    <2>2. Clear(i, j)
        BY <1>1, <1>5 DEF Clear
    <2> QED
        BY <1>1, <1>4, <1>5, <2>1, <2>2
<1>6. ASSUME NEW m \in BOOLEAN, Publish(m)
      PROVE  /\ wire'[i].n < wire'[j].n
             /\ \A n \in mine' : wire'[i].n < n /\ n < wire'[j].n /\ n > stale'
                  => \E k \in i .. j : wire'[k].kind = "event" /\ wire'[k].n = n
    <2>1. UNCHANGED <<wire, stale>> /\ mine' \subseteq mine \cup {next}
        BY <1>6 DEF Publish
    <2>2. Clear(i, j)
        BY <1>1, <2>1 DEF Clear
    <2>3. /\ wire[i].n < wire[j].n
          /\ \A n \in mine : wire[i].n < n /\ n < wire[j].n /\ n > stale
               => \E k \in i .. j : wire[k].kind = "event" /\ wire[k].n = n
        BY <1>1, <1>4, <2>1, <2>2
    <2>4. ~(next < wire[j].n /\ next > stale)
        <3>1. wire[j].n < next \/ wire[j].n <= stale
            BY <1>1, <2>1 DEF StreamInv, GivenCursors, Given
        <3>2. wire[j].n \in Nat
            BY <1>1, <1>2, <2>1
        <3> QED
            BY <1>2, <3>1, <3>2
    <2> QED
        BY <2>1, <2>3, <2>4
<1>7. CASE CoreStarts \/ Finish \/ Reconnect \/ SnapshotRead \/ SnapshotArrives \/ SnapshotFails
    BY <1>1, <1>5, <1>7 DEF CoreStarts, Finish, Reconnect, SnapshotRead, SnapshotArrives,
                            SnapshotFails
<1>8. CASE PollFails \/ PollSucceeds \/ RecoveryFails \/ Wake \/ TimeOut \/ Refuse
    BY <1>1, <1>5, <1>8 DEF PollFails, PollSucceeds, RecoveryFails, Wake, TimeOut, Refuse
<1>9. CASE Open
    <2>1. wire'[i].kind = "connected" \/ wire'[i].kind = "gap"
        <3>1. i = 1 \/ (i = 2 /\ Len(wire') = 2)
            <4>1. Len(wire') \in {1, 2}
                BY <1>9, OpenSends
            <4>2. ASSUME NEW l \in {1, 2}, i \in 1 .. l PROVE i = 1 \/ (i = 2 /\ l = 2)
                BY <4>2
            <4> QED
                BY <4>1, <4>2
        <3>2. ASSUME NEW n, NEW gap PROVE Frame("connected", n, gap).kind = "connected"
            BY DEF Frame
        <3>3. Frame("gap", 0, TRUE).kind = "gap"
            BY DEF Frame
        <3> QED
            BY <1>9, <3>1, <3>2, <3>3, OpenSends
    <2> QED
        BY <1>1, <2>1
<1>10. ASSUME NEW f, Grows(f), f.kind # "event", UNCHANGED <<mine, stale>>
       PROVE  /\ wire'[i].n < wire'[j].n
              /\ \A n \in mine' : wire'[i].n < n /\ n < wire'[j].n /\ n > stale'
                   => \E k \in i .. j : wire'[k].kind = "event" /\ wire'[k].n = n
    <2>1. /\ Len(wire') = Len(wire) + 1 /\ wire'[Len(wire) + 1] = f
          /\ \A k \in 1 .. Len(wire) : wire'[k] = wire[k]
        BY <1>10, GrowsAtEnd
    <2>2. i \in 1 .. Len(wire) /\ j \in 1 .. Len(wire)
        BY <1>1, <1>2, <1>10, <2>1
    <2>3. \A k \in i .. j : wire'[k] = wire[k]
        BY <1>2, <2>1, <2>2
    <2> QED
        BY <1>5, <1>10, <2>2, <2>3
<1>11. CASE Replay
    <2>1. UNCHANGED <<mine, stale>>
        BY <1>11 DEF Replay
    <2>2. Frame("gap", 0, TRUE).kind # "event"
        BY DEF Frame
    <2> QED
        BY <1>1, <1>5, <1>10, <1>11, <2>1, <2>2, ReplaySends
<1>12. CASE Heartbeat
    <2>1. UNCHANGED <<mine, stale>>
        BY <1>12 DEF Heartbeat
    <2>2. Frame("heartbeat", Latest(next, 0), FALSE).kind # "event"
        BY DEF Frame
    <2> QED
        BY <1>10, <1>12, <2>1, <2>2, HeartbeatSends
<1>13. CASE Yield
    <2>1. gen.pc = "sending" /\ UNCHANGED <<mine, stale>>
        BY <1>13 DEF Yield
    <2>2. CASE wire' = wire
        BY <1>1, <1>5, <2>1, <2>2
    <2>3. ASSUME NEW e \in gen.todo, \A t \in gen.todo : e <= t, Grows(Frame("event", e, FALSE))
          PROVE  /\ wire'[i].n < wire'[j].n
                 /\ \A n \in mine' : wire'[i].n < n /\ n < wire'[j].n /\ n > stale'
                      => \E k \in i .. j : wire'[k].kind = "event" /\ wire'[k].n = n
        <3>1. /\ Len(wire') = Len(wire) + 1 /\ wire'[Len(wire) + 1].n = e
              /\ \A k \in 1 .. Len(wire) : wire'[k] = wire[k]
            BY <2>3, GrowsAtEnd DEF Frame
        <3>2. i \in 1 .. Len(wire) /\ wire'[i] = wire[i]
            BY <1>1, <1>2, <3>1
        <3>3. CASE j \in 1 .. Len(wire)
            <4>1. \A k \in i .. j : wire'[k] = wire[k]
                BY <1>2, <3>1, <3>2, <3>3
            <4> QED
                BY <1>5, <2>1, <3>2, <3>3, <4>1
        <3>4. CASE j = Len(wire) + 1
            <4>1. \A k \in i .. Len(wire) : k \in i .. j /\ wire'[k] = wire[k]
                BY <1>2, <3>1, <3>2, <3>4
            <4>2. Clear(i, Len(wire))
                BY <1>1, <4>1 DEF Clear
            <4>3. /\ wire[i].n <= gen.cursor
                  /\ \A n \in mine : wire[i].n < n /\ n <= gen.cursor
                       => \E k \in i .. Len(wire) : wire[k].kind = "event" /\ wire[k].n = n
                  /\ \A n \in mine : gen.cursor < n /\ n < e => n \in gen.todo
                BY <1>1, <2>1, <2>3, <3>2, <4>2 DEF StreamInv, TrailingInv, Streaming
            <4>4. wire'[j].n = e /\ e \in Nat /\ gen.cursor < e /\ wire[i].n \in Nat
                BY <1>2, <1>3, <3>1, <3>2, <3>4
            <4>5. \A n \in mine : n < e => n <= gen.cursor
                BY <1>2, <1>3, <2>3, <4>3, <4>4
            <4> QED
                BY <1>2, <2>1, <3>2, <4>1, <4>3, <4>4, <4>5
        <3> QED
            BY <1>1, <1>2, <3>1, <3>3, <3>4
    <2> QED
        BY <1>13, <2>2, <2>3, YieldSends
<1>14. ASSUME Broken, mine' \subseteq mine, mine' = {} \/ stale' = stale
       PROVE  /\ wire'[i].n < wire'[j].n
              /\ \A n \in mine' : wire'[i].n < n /\ n < wire'[j].n /\ n > stale'
                   => \E k \in i .. j : wire'[k].kind = "event" /\ wire'[k].n = n
    <2>1. /\ Len(wire') \in 0 .. Len(wire)
          /\ \A k \in 1 .. Len(wire') : wire'[k] = wire[k]
        BY <1>14, BrokenSends
    <2>2. i \in 1 .. Len(wire) /\ j \in 1 .. Len(wire) /\ \A k \in i .. j : wire'[k] = wire[k]
        BY <1>1, <1>2, <2>1
    <2>3. Clear(i, j) /\ wire'[i] = wire[i] /\ wire'[j] = wire[j]
        BY <1>1, <2>2 DEF Clear
    <2>4. wire'[i].n < wire'[j].n
        BY <1>1, <1>4, <2>2, <2>3
    <2> QED
        BY <1>5, <1>14, <2>2, <2>4
<1>15. CASE Cut
    BY <1>14, <1>15 DEF Cut
<1>16. CASE Crash
    <2>1. mine' = {}
        BY <1>16 DEF Crash
    <2>2. CASE Broken
        BY <1>14, <2>1, <2>2
    <2>3. CASE wire' = wire
        <3>1. Clear(i, j)
            BY <1>1, <2>3 DEF Clear
        <3> QED
            BY <1>1, <1>4, <2>1, <2>3, <3>1
    <2> QED
        BY <1>16, <2>2, <2>3 DEF Crash
<1>17. CASE Read
    <2>1. /\ Len(wire') = Len(wire) - 1
          /\ \A k \in 1 .. Len(wire) - 1 : wire'[k] = wire[k + 1]
        BY <1>17, ReadShifts
    <2>2. UNCHANGED <<mine, stale>>
        BY <1>17 DEF Read
    <2>3. /\ i + 1 \in 1 .. Len(wire) /\ wire'[i] = wire[i + 1]
          /\ j + 1 \in 1 .. Len(wire) /\ wire'[j] = wire[j + 1] /\ i + 1 < j + 1
        BY <1>1, <1>2, <2>1
    <2>4. \A k \in i + 1 .. j + 1 : k - 1 \in i .. j /\ wire'[k - 1] = wire[k]
        BY <1>1, <1>2, <2>1, <2>3
    <2>5. Clear(i + 1, j + 1)
        BY <1>1, <2>4 DEF Clear
    <2>6. /\ wire[i + 1].n < wire[j + 1].n
          /\ \A n \in mine : wire[i + 1].n < n /\ n < wire[j + 1].n /\ n > stale
               => \E k \in i + 1 .. j + 1 : wire[k].kind = "event" /\ wire[k].n = n
        <3>1. wire[i + 1].kind = "event" /\ wire[j + 1].kind = "event"
            BY <1>1, <2>3
        <3> QED
            BY <1>4, <2>3, <2>5, <3>1
    <2>7. ASSUME NEW n \in mine, wire'[i].n < n, n < wire'[j].n, n > stale
          PROVE  \E k \in i .. j : wire'[k].kind = "event" /\ wire'[k].n = n
        <3>1. PICK k \in i + 1 .. j + 1 : wire[k].kind = "event" /\ wire[k].n = n
            BY <2>3, <2>6, <2>7
        <3> QED
            BY <2>4, <3>1
    <2> QED
        BY <2>2, <2>3, <2>6, <2>7
<1>18. CASE Recover
    <2>1. Len(wire') = 0
        BY <1>18 DEF Recover
    <2> QED
        BY <1>1, <2>1
<1> QED
    BY <1>6, <1>7, <1>8, <1>9, <1>11, <1>12, <1>13, <1>15, <1>16, <1>17, <1>18
    DEF Next, CoreStep

----------------------------------------------------------------------------
(* The theorems *)

\* The invariant holds when the UI has started.
LEMMA InvInit == Init => StreamInv
<1> SUFFICES ASSUME Init PROVE StreamInv
    OBVIOUS
<1>1. TypeOK /\ AttemptsLeft
    BY TypeInit, TypedParts
<1>2. /\ gen.pc = "opening" /\ gen.cursor = 0 /\ gen.todo = {} /\ Len(wire) = 0 /\ mine = {}
      /\ wire = <<>> /\ cursor = NoCursor /\ ctrlCursor = NoCursor /\ next = 1
    BY OpenFromTyped, Bounds DEF Init
<1>3. GivenCursors /\ Connection /\ Histories
    BY <1>2 DEF Init, GivenCursors, Given, Position, Connection, Histories
<1>4. GapFrames /\ Batch /\ SkippedInv /\ TrailingInv /\ StreamHasNoHoles
    BY <1>2 DEF GapFrames, Batch, SkippedInv, TrailingInv, Streaming, StreamHasNoHoles
<1> QED
    BY <1>1, <1>3, <1>4 DEF StreamInv

\* The invariant is about the state alone.
LEMMA InvStutter ==
    ASSUME StreamInv, UNCHANGED vars
    PROVE  StreamInv'
BY DEF StreamInv, vars, TypeOK, AttemptsLeft, GivenCursors, Given, Position, Connection,
       GapFrames, Histories, Batch, SkippedInv, Skipped, Sent, Reached, SnapshotOwed, Excused,
       TrailingInv, Streaming, Clear, StreamHasNoHoles

\* The inductive invariant of the stream, for every size of the buffer, replay
\* limit and number of faults.
THEOREM StreamInvariant == Spec => []StreamInv
<1>1. ASSUME StreamInv, [Next]_vars
      PROVE  StreamInv'
    <2>1. CASE Next
        <3>1. TypeOK' /\ AttemptsLeft'
            <4>1. Typed'
                BY <1>1, <2>1, TypesOfInv, TypedKept
            <4> QED
                BY <4>1, TypedParts, PTL
        <3> QED
            BY <1>1, <2>1, <3>1, GivenKept, ConnectionKept, GapFramesKept, HistoriesKept,
               BatchKept, SkippedKept, TrailingKept, HolesKept DEF StreamInv
    <2>2. CASE UNCHANGED vars
        BY <1>1, <2>2, InvStutter
    <2> QED
        BY <1>1, <2>1, <2>2
<1> QED
    BY <1>1, InvInit, PTL DEF Spec

\* Every variable of the buffer, the generator, the connection and the UI keeps
\* its type.
THEOREM StreamTyped == Spec => []TypeOK
<1>1. StreamInv => TypeOK
    BY DEF StreamInv
<1> QED
    BY <1>1, StreamInvariant, PTL

\* The wire never has a hole: replays, waits and publishes in any order put the
\* session's events on a connection in order, and nothing is missing between two
\* of them unless a gap frame stands there (events.py:183-245, app.py:842-885).
THEOREM NoHoles == Spec => []StreamHasNoHoles
<1>1. StreamInv => StreamHasNoHoles
    BY DEF StreamInv
<1> QED
    BY <1>1, StreamInvariant, PTL

\* An event that lies behind the UI's cursor or the generator's has reached the
\* UI, is on its way, or a snapshot that shows it is owed: whatever the capacity,
\* the replay limit, the connections that break, the half frame that spoils the
\* next one, the process that dies and the requests that fail.
THEOREM NothingLostSilently == Spec => []NoSilentLoss
<1>1. ASSUME StreamInv
      PROVE  NoSilentLoss
    <2> SUFFICES ASSUME NEW n \in mine, n > stale, PassedOver(n)
                 PROVE  Reached(n) \/ Coming(n) \/ SnapshotOwed(n) \/ Excused(n)
        BY DEF NoSilentLoss
    <2>1. /\ gen.cursor \in Nat /\ n \in Nat /\ conn \in {"open", "waiting"}
          /\ gen.todo \subseteq Nat
        BY <1>1, TypesOfInv DEF Typed, ClientTyped
    \* No connection: it broke, or the UI waits to reconnect and reconcile.
    <2>2. CASE gen.pc = "none"
        BY <1>1, <2>1, <2>2 DEF StreamInv, Connection, SnapshotOwed
    \* A generator is at work: the event lies ahead of it, or was skipped.
    <2>3. CASE gen.pc # "none" /\ gen.cursor < n
        BY <2>3 DEF Coming
    <2>4. CASE gen.pc # "none" /\ n <= gen.cursor
        BY <1>1, <2>4 DEF StreamInv, SkippedInv, Skipped, Sent, Coming
    <2> QED
        BY <2>1, <2>2, <2>3, <2>4
<1> QED
    BY <1>1, StreamInvariant, PTL
=============================================================================
