----------------------------- MODULE EventStream -----------------------------
(***************************************************************************)
(* The event stream from the core's buffer to the UI: publish, the SSE     *)
(* generator of GET /events/stream, the connection, the client that        *)
(* reconnects, and the controller that asks for a snapshot when something  *)
(* was missed and restarts the core when it does not answer.               *)
(*                                                                         *)
(* A step of the core is what the generator runs between two awaits or     *)
(* what a thread does under the buffer's lock; a step of the UI is one Qt  *)
(* handler.  The wire holds whole frames in order.  A connection that      *)
(* breaks delivers a prefix of them and perhaps a part of the next one.    *)
(***************************************************************************)
EXTENDS EventBuffer, Sequences

CONSTANTS
    NoCursor,       \* None: the client has not seen a cursor yet
    MaxEvents,      \* bound: events published
    MaxHeartbeats,  \* bound: frames in flight beside which a heartbeat is sent
    MaxFaults,      \* bound: connections that break, core processes that end and
                    \* requests that fail while the core runs
    MaxAttempts,    \* lifecycle.max_core_restart_attempts
    MayTear         \* a broken connection may leave half a frame behind

ASSUME StreamAssumption ==
    /\ NoCursor \notin Nat
    /\ {MaxEvents, MaxHeartbeats, MaxFaults, MaxAttempts} \subseteq Nat
    /\ MayTear \in BOOLEAN

VARIABLES
    up,             \* the core process runs
    next,           \* EventBuffer._next_cursor
    mine,           \* cursors published for the stream's session
    gen,            \* the generator that serves the current connection
    wire,           \* frames sent and not yet read
    cut,            \* how the connection ended: "no", "clean" or "torn"
    conn,           \* _stream_reply: "open", or "waiting" for the timer
    tail,           \* _stream_buffer holds half a frame that spoils the next
    cursor,         \* CoreApiClient._stream_last_cursor
    ctrlCursor,     \* MainController._stream_last_cursor
    needsReconcile, \* _stream_reconnect_needs_reconciliation
    snap,           \* the snapshot request: _snapshot_in_flight and _queued
    online,         \* _core_online
    attempts,       \* _core_recovery_attempts
    armed,          \* core_recovery_timer runs
    applied,        \* bridge: _applied_stream_event_cursors
    shown,          \* bridge: _event_stream_connection_state
    requested,      \* bridge: _event_stream_reconciliation_requested
    known,          \* history: events of this core that the bridge applied
    covered,        \* history: newest event of this core in a snapshot applied
    gaveUpAt,       \* history: newest event when recovery was given up
    stale,          \* history: newest cursor of any earlier core
    budget          \* bound: events and faults still allowed

coreVars == <<up, next, mine>>
netVars == <<gen, wire, cut>>
clientVars == <<conn, tail, cursor>>
recoveryVars == <<online, attempts, armed, gaveUpAt>>
bridgeVars == <<applied, shown, requested, known>>
vars == <<coreVars, netVars, clientVars, ctrlCursor, needsReconcile, snap,
          recoveryVars, bridgeVars, covered, stale, budget>>

----------------------------------------------------------------------------
(* Types *)

Cursors == Nat \cup {NoCursor}

Frames == [kind : {"connected", "gap", "event", "heartbeat"}, n : Nat, gap : BOOLEAN]

Frame(kind, n, gap) == [kind |-> kind, n |-> n, gap |-> gap]

NoGenerator == [pc |-> "none", cursor |-> 0, todo |-> {}]

TypeOK ==
    /\ up \in BOOLEAN /\ online \in BOOLEAN /\ armed \in BOOLEAN
    /\ tail \in BOOLEAN /\ needsReconcile \in BOOLEAN /\ requested \in BOOLEAN
    /\ next \in Nat \ {0}
    /\ mine \subseteq 1 .. next - 1
    /\ gen \in [pc : {"none", "opening", "sending", "waiting", "woken", "timedout"},
                cursor : Nat, todo : SUBSET Nat]
    /\ wire \in Seq(Frames)
    /\ cut \in {"no", "clean", "torn"}
    /\ conn \in {"open", "waiting"}
    /\ cursor \in Cursors /\ ctrlCursor \in Cursors
    /\ snap \in [phase : {"idle", "asked", "read"}, queued : BOOLEAN,
                 horizon : Nat, latest : Nat]
    /\ attempts \in 0 .. MaxAttempts
    /\ applied \subseteq Nat /\ known \subseteq applied
    /\ shown \in {"reconnecting", "connected", "stale", "reconciled"}
    /\ {covered, gaveUpAt, stale} \subseteq Nat
    /\ budget \in [events : 0 .. MaxEvents, faults : 0 .. MaxFaults]

----------------------------------------------------------------------------
(* The core *)

\* One event is appended; `m' tells whether it is for this stream's session.
Publish(m) ==
    /\ up
    /\ budget.events > 0
    /\ budget' = [budget EXCEPT !.events = @ - 1]
    /\ next' = next + 1
    /\ mine' = IF m THEN mine \cup {next} ELSE mine
    /\ UNCHANGED <<up, netVars, clientVars, ctrlCursor, needsReconcile, snap,
                   recoveryVars, bridgeVars, covered, stale>>

\* What the UI's variables do while the core or the network moves.
UiUnchanged ==
    UNCHANGED <<clientVars, ctrlCursor, needsReconcile, snap, recoveryVars, bridgeVars,
                covered, stale, budget>>

GapFrame(c) == IF GapDetected(c, next) THEN <<Frame("gap", 0, TRUE)>> ELSE <<>>

\* The request arrives: the first replay, its state frame and its gap frame.
Open ==
    /\ up
    /\ gen.pc = "opening"
    /\ gen' = [gen EXCEPT !.pc = "sending", !.todo = Window(gen.cursor, next, mine)]
    /\ wire' = <<Frame("connected", Latest(next, gen.cursor), GapDetected(gen.cursor, next))>>
                 \o GapFrame(gen.cursor)
    /\ UNCHANGED <<coreVars, cut>> /\ UiUnchanged

\* `for event in replay.events': the cursor follows the event that is sent.
Yield ==
    /\ gen.pc = "sending"
    /\ IF gen.todo = {}
       THEN /\ gen' = [gen EXCEPT !.pc = "waiting"]
            /\ UNCHANGED wire
       ELSE \E n \in gen.todo :
              /\ \A m \in gen.todo : n <= m
              /\ gen' = [gen EXCEPT !.cursor = n, !.todo = @ \ {n}]
              /\ wire' = Append(wire, Frame("event", n, FALSE))
    /\ UNCHANGED <<coreVars, cut>> /\ UiUnchanged

\* wait_for_next_event, in a thread of its own: an event that matches, ...
Wake ==
    /\ gen.pc = "waiting"
    /\ Matching(gen.cursor, next, mine) # {}
    /\ gen' = [gen EXCEPT !.pc = "woken"]
    /\ UNCHANGED <<coreVars, wire, cut>> /\ UiUnchanged

\* ... or the time is over.
TimeOut ==
    /\ gen.pc = "waiting"
    /\ Matching(gen.cursor, next, mine) = {}
    /\ Len(wire) < MaxHeartbeats
    /\ gen' = [gen EXCEPT !.pc = "timedout"]
    /\ UNCHANGED <<coreVars, wire, cut>> /\ UiUnchanged

Heartbeat ==
    /\ gen.pc = "timedout"
    /\ gen' = [gen EXCEPT !.pc = "waiting"]
    /\ wire' = Append(wire, Frame("heartbeat", Latest(next, 0), FALSE))
    /\ UNCHANGED <<coreVars, cut>> /\ UiUnchanged

\* After the wait the buffer is read again: it may have moved on.
Replay ==
    /\ gen.pc = "woken"
    /\ gen' = [gen EXCEPT !.pc = "sending", !.todo = Window(gen.cursor, next, mine)]
    /\ wire' = wire \o GapFrame(gen.cursor)
    /\ UNCHANGED <<coreVars, cut>> /\ UiUnchanged

----------------------------------------------------------------------------
(* The connection and the core process *)

\* A prefix of the frames arrives, and perhaps a part of the next one.
Broken ==
    /\ gen' = NoGenerator
    /\ \E k \in 0 .. Len(wire) :
         /\ wire' = SubSeq(wire, 1, k)
         /\ cut' \in IF MayTear /\ k < Len(wire) THEN {"clean", "torn"} ELSE {"clean"}

Cut ==
    /\ up
    /\ gen.pc # "none"
    /\ budget.faults > 0
    /\ budget' = [budget EXCEPT !.faults = @ - 1]
    /\ Broken
    /\ UNCHANGED <<coreVars, clientVars, ctrlCursor, needsReconcile, snap, recoveryVars,
                   bridgeVars, covered, stale>>

\* Nobody listens: the request is refused.
Refuse ==
    /\ ~up
    /\ gen.pc = "opening"
    /\ gen' = NoGenerator
    /\ cut' = "clean"
    /\ UNCHANGED <<coreVars, wire>> /\ UiUnchanged

\* The buffer dies with the process; the next one counts from 1 again.
Crash ==
    /\ up
    /\ budget.faults > 0
    /\ budget' = [budget EXCEPT !.faults = @ - 1]
    /\ up' = FALSE
    /\ next' = 1
    /\ mine' = {}
    /\ IF gen.pc = "none" THEN UNCHANGED netVars ELSE Broken
    /\ stale' = IF next - 1 > stale THEN next - 1 ELSE stale
    /\ known' = {}
    /\ covered' = 0
    /\ gaveUpAt' = 0
    /\ snap' = [snap EXCEPT !.horizon = 0]
    /\ UNCHANGED <<clientVars, ctrlCursor, needsReconcile, online, attempts, armed,
                   applied, shown, requested>>

\* The user, the launcher or the tray starts the core.
CoreStarts ==
    /\ ~up
    /\ up' = TRUE
    /\ UNCHANGED <<next, mine, netVars>> /\ UiUnchanged

----------------------------------------------------------------------------
(* The UI *)

\* Mutation: a request beside one in flight is dropped, not queued.
ForcedOnce(s) ==
    IF s.phase = "idle" THEN [s EXCEPT !.phase = "asked"] ELSE s

\* _request_snapshot(force=True): one request at a time, and one more after it.
Forced(s) ==
    IF s.phase = "idle" THEN [s EXCEPT !.phase = "asked"] ELSE [s EXCEPT !.queued = TRUE]

\* _complete_snapshot_request, whether the request succeeded or failed.
Completed(s) ==
    [phase |-> IF s.queued THEN "asked" ELSE "idle", queued |-> FALSE,
     horizon |-> 0, latest |-> 0]

\* The controller's cursor never falls behind one a client state reports.
Reported(c) ==
    CASE c = NoCursor -> ctrlCursor
      [] ctrlCursor = NoCursor -> c
      [] OTHER -> IF c > ctrlCursor THEN c ELSE ctrlCursor

\* Mutation: the attempts are not counted against their limit.
ScheduleRecoveryAlways ==
    armed' = TRUE

\* _schedule_core_recovery: a timer, unless the attempts are used up.
ScheduleRecovery ==
    armed' = (armed \/ attempts < MaxAttempts)

OpenFrom(c) == [NoGenerator EXCEPT !.pc = "opening", !.cursor = IF c = NoCursor THEN 0 ELSE c]

\* What the network and the core keep while the UI handles something.
CoreUnchanged == UNCHANGED <<coreVars, stale, budget>>

\* A block of the stream is read; half a frame before it makes it unreadable.
Spoilt ==
    /\ tail
    /\ tail' = FALSE
    /\ UNCHANGED <<conn, cursor, ctrlCursor, needsReconcile, snap, bridgeVars>>

\* An event: both cursors follow it; a notable one also asks for a snapshot.
TakeEvent(f, notable) ==
    /\ f.kind = "event"
    /\ cursor' = f.n
    /\ ctrlCursor' = f.n
    /\ applied' = applied \cup {f.n}
    /\ known' = IF f.n \in applied THEN known ELSE known \cup {f.n}
    /\ snap' = IF notable THEN Forced(snap) ELSE snap
    /\ UNCHANGED <<conn, tail, needsReconcile, shown, requested>>

\* Mutation: the gap is shown and nothing is asked for.
TakeGapQuietly(f) ==
    /\ f.kind = "gap"
    /\ shown' = "stale"
    /\ requested' = TRUE
    /\ UNCHANGED <<clientVars, ctrlCursor, needsReconcile, snap, applied, known>>

TakeGap(f) ==
    /\ f.kind = "gap"
    /\ shown' = "stale"
    /\ requested' = TRUE
    /\ snap' = Forced(snap)
    /\ UNCHANGED <<clientVars, ctrlCursor, needsReconcile, applied, known>>

TakeConnected(f) ==
    /\ f.kind = "connected"
    /\ cursor' = IF cursor = NoCursor THEN f.n ELSE cursor
    /\ shown' = IF f.gap THEN "stale" ELSE "connected"
    /\ requested' = (requested \/ f.gap)
    /\ needsReconcile' = FALSE
    /\ snap' = IF needsReconcile \/ f.gap THEN Forced(snap) ELSE snap
    /\ UNCHANGED <<conn, tail, ctrlCursor, applied, known>>

TakeHeartbeat(f) ==
    /\ f.kind = "heartbeat"
    /\ cursor' = IF cursor = NoCursor THEN f.n ELSE cursor
    /\ shown' = IF shown \in {"stale", "reconnecting"} THEN shown ELSE "connected"
    /\ UNCHANGED <<conn, tail, ctrlCursor, needsReconcile, snap, applied, known, requested>>

Read ==
    /\ conn = "open"
    /\ wire # <<>>
    /\ wire' = Tail(wire)
    /\ \/ Spoilt
       \/ /\ ~tail
          /\ \/ \E notable \in BOOLEAN : TakeEvent(Head(wire), notable)
             \/ TakeGap(Head(wire))
             \/ TakeConnected(Head(wire))
             \/ TakeHeartbeat(Head(wire))
    /\ UNCHANGED <<gen, cut, recoveryVars, covered>> /\ CoreUnchanged

\* The reply has finished: reconnect later, and reconcile then.
Finish ==
    /\ conn = "open"
    /\ cut # "no"
    /\ wire = <<>>
    /\ conn' = "waiting"
    /\ cut' = "no"
    /\ tail' = (tail \/ cut = "torn")
    /\ ctrlCursor' = Reported(cursor)
    /\ needsReconcile' = TRUE
    /\ shown' = "reconnecting"
    /\ requested' = TRUE
    /\ UNCHANGED <<gen, wire, cursor, snap, recoveryVars, applied, known, covered>>
    /\ CoreUnchanged

Reconnect ==
    /\ conn = "waiting"
    /\ conn' = "open"
    /\ gen' = OpenFrom(cursor)
    /\ ctrlCursor' = Reported(cursor)
    /\ shown' = "reconnecting"
    /\ UNCHANGED <<wire, cut, tail, cursor, needsReconcile, snap, recoveryVars, applied,
                   known, requested, covered>>
    /\ CoreUnchanged

----------------------------------------------------------------------------
(* Snapshots and recovery *)

\* GET /snapshot reads the buffer; its cursor is the newest event there.
SnapshotRead ==
    /\ up
    /\ snap.phase = "asked"
    /\ snap' = [snap EXCEPT !.phase = "read", !.horizon = next - 1, !.latest = Latest(next, 0)]
    /\ UNCHANGED <<netVars, clientVars, ctrlCursor, needsReconcile, recoveryVars, bridgeVars,
                   covered>>
    /\ CoreUnchanged

SnapshotArrives ==
    /\ snap.phase = "read"
    /\ snap' = Completed(snap)
    /\ ctrlCursor' = IF snap.latest > 0 THEN snap.latest ELSE ctrlCursor
    /\ shown' = IF requested THEN "reconciled" ELSE shown
    /\ covered' = IF snap.horizon > covered THEN snap.horizon ELSE covered
    /\ UNCHANGED <<netVars, clientVars, needsReconcile, recoveryVars, applied, requested, known>>
    /\ CoreUnchanged

\* A request fails because the core is down, or (bounded) although it runs.
MayFail ==
    IF up
    THEN budget.faults > 0 /\ budget' = [budget EXCEPT !.faults = @ - 1]
    ELSE UNCHANGED budget

SnapshotFails ==
    /\ snap.phase # "idle"
    /\ MayFail
    /\ snap' = Completed(snap)
    /\ online' = FALSE
    /\ ScheduleRecovery
    /\ gaveUpAt' = IF armed' \/ snap.queued THEN gaveUpAt ELSE next - 1
    /\ UNCHANGED <<coreVars, netVars, clientVars, ctrlCursor, needsReconcile, attempts,
                   bridgeVars, covered, stale>>

PollFails ==
    /\ MayFail
    /\ online' = FALSE
    /\ ScheduleRecovery
    /\ UNCHANGED <<coreVars, netVars, clientVars, ctrlCursor, needsReconcile, snap, attempts,
                   gaveUpAt, bridgeVars, covered, stale>>

PollSucceeds ==
    /\ up
    /\ ~online
    /\ online' = TRUE
    /\ attempts' = 0
    /\ UNCHANGED <<netVars, clientVars, ctrlCursor, needsReconcile, snap, armed, gaveUpAt,
                   bridgeVars, covered>>
    /\ CoreUnchanged

\* The core does not come up: try again while attempts are left.
RecoveryFails ==
    /\ armed
    /\ ~up
    /\ attempts' = attempts + 1
    /\ armed' = (attempts' < MaxAttempts)
    /\ gaveUpAt' = IF armed' THEN gaveUpAt ELSE next - 1
    /\ UNCHANGED <<netVars, clientVars, ctrlCursor, needsReconcile, snap, online, bridgeVars,
                   covered>>
    /\ CoreUnchanged

\* start_event_stream: the old reply and what it still held are dropped.
Recover ==
    LET c == IF ctrlCursor = NoCursor THEN cursor ELSE ctrlCursor
    IN  /\ armed
        /\ armed' = FALSE
        /\ attempts' = attempts + 1
        /\ up' = TRUE
        /\ snap' = Forced(snap)
        /\ conn' = "open"
        /\ cursor' = c
        /\ tail' = FALSE
        /\ wire' = <<>>
        /\ cut' = "no"
        /\ gen' = OpenFrom(c)
        /\ ctrlCursor' = Reported(c)
        /\ shown' = "reconnecting"
        /\ UNCHANGED <<next, mine, needsReconcile, online, gaveUpAt, applied, requested, known,
                       covered, stale, budget>>

----------------------------------------------------------------------------
(* Specification *)

\* The UI has started: it opens the stream without a cursor and asks for a
\* snapshot; the core runs.
Init ==
    /\ up = TRUE /\ next = 1 /\ mine = {}
    /\ gen = OpenFrom(NoCursor) /\ wire = <<>> /\ cut = "no"
    /\ conn = "open" /\ tail = FALSE /\ cursor = NoCursor
    /\ ctrlCursor = NoCursor /\ needsReconcile = FALSE
    /\ snap = [phase |-> "asked", queued |-> FALSE, horizon |-> 0, latest |-> 0]
    /\ online = FALSE /\ attempts = 0 /\ armed = FALSE
    /\ applied = {} /\ shown = "reconnecting" /\ requested = FALSE
    /\ known = {} /\ covered = 0 /\ gaveUpAt = 0 /\ stale = 0
    /\ budget = [events |-> MaxEvents, faults |-> MaxFaults]

CoreStep == Open \/ Yield \/ Wake \/ TimeOut \/ Heartbeat \/ Replay

Next ==
    \/ \E m \in BOOLEAN : Publish(m)
    \/ CoreStep
    \/ Cut \/ Refuse \/ Crash \/ CoreStarts
    \/ Read \/ Finish \/ Reconnect
    \/ SnapshotRead \/ SnapshotArrives \/ SnapshotFails
    \/ PollFails \/ PollSucceeds \/ RecoveryFails \/ Recover

\* The event loop, the Qt loop and timers run; a snapshot that is not refused
\* is answered.  In each group one step is enabled at a time, or recovery may
\* fail or succeed.  Nothing is assumed of publishers, faults or users.
Fairness ==
    /\ WF_vars(CoreStep \/ Refuse)
    /\ WF_vars(Read \/ Finish \/ Reconnect)
    /\ WF_vars(SnapshotRead \/ SnapshotArrives)
    /\ WF_vars(RecoveryFails \/ Recover)

Spec == Init /\ [][Next]_vars

FairSpec == Spec /\ Fairness

----------------------------------------------------------------------------
(* Properties *)

Position == IF cursor = NoCursor THEN 0 ELSE cursor

Streaming == gen.pc \notin {"none", "opening"}

\* The UI will not be offered event n again by this connection or the next.
PassedOver(n) == n <= Position \/ (Streaming /\ n <= gen.cursor)

\* Event n has reached the UI, by itself or inside a snapshot.
Reached(n) == n \in known \/ n <= covered

\* Event n is on its way, or the current connection still has to look at it.
Coming(n) ==
    \/ \E i \in 1 .. Len(wire) : wire[i].kind = "event" /\ wire[i].n = n
    \/ gen.pc # "none" /\ n > gen.cursor

\* A snapshot that will show event n is owed to the UI.
SnapshotOwed(n) ==
    \/ needsReconcile \/ cut # "no" \/ armed
    \/ snap.phase = "asked" \/ snap.queued
    \/ snap.phase = "read" /\ n <= snap.horizon
    \/ \E i \in 1 .. Len(wire) : wire[i].gap

\* Recovery was given up after event n, and the UI shows the error.
Excused(n) == n <= gaveUpAt

\* No silent loss: an event for the UI's session that lies behind its cursor,
\* and so will not be sent again, has reached the UI, is on its way, or a
\* snapshot that shows it is owed.  It concerns replay limits, the buffer's
\* capacity, the cursor adopted on the first connect (client.py:539-541),
\* broken connections, and the one snapshot in flight (main_controller.py:354).
\* Events numbered below a cursor of an earlier core process are left out.
NoSilentLoss ==
    \A n \in mine :
      n > stale /\ PassedOver(n) => Reached(n) \/ Coming(n) \/ SnapshotOwed(n) \/ Excused(n)

\* The stream has no holes: between two events on the wire that follow each
\* other without a gap frame, no event of the session is missing, and order is
\* kept, although the buffer may change between the wait and the replay
\* (app.py:842-885).
StreamHasNoHoles ==
    \A i, j \in 1 .. Len(wire) :
      /\ i < j /\ wire[i].kind = "event" /\ wire[j].kind = "event"
      /\ \A k \in i .. j : wire[k].kind # "gap"
      => /\ wire[i].n < wire[j].n
         /\ \A n \in mine : wire[i].n < n /\ n < wire[j].n /\ n > stale
              => \E k \in i .. j : wire[k].kind = "event" /\ wire[k].n = n

\* What ends an obligation besides keeping it: the core died and took the event
\* along, recovery was given up, or the reconcile flag waits for a state frame
\* that a torn connection spoilt (client.py:434-443 keeps the half frame).
Released(n) == n <= stale \/ Excused(n) \/ (MayTear /\ needsReconcile)

\* An event for the session reaches the UI unless it leaves the buffer first:
\* through limits, reconnects and recovery, nobody waits for the next publish.
RetainedReachesUI ==
    \A n \in 1 .. MaxEvents :
      (n \in mine /\ n > stale)
        ~> (Reached(n) \/ n \notin Retained(next) \/ Released(n))

\* A gap that was announced is healed by a snapshot taken after it, although
\* another snapshot may be in flight or fail (main_controller.py:306-368).
GapIsHealed ==
    \A n \in 1 .. MaxEvents :
      ((\E i \in 1 .. Len(wire) : wire[i].gap) /\ next = n + 1 /\ n > stale)
        ~> (covered >= n \/ Released(n))

\* docs/features.md:26: a gap is announced when replay is not possible.  The
\* same as NoSilentLoss without leaving out the cursors of an earlier process.
LossIsAnnounced ==
    \A n \in mine : PassedOver(n) => Reached(n) \/ Coming(n) \/ SnapshotOwed(n) \/ Excused(n)
=============================================================================
