----------------------------- MODULE TrustService -----------------------------
(***************************************************************************)
(* Approval requests and permission grants, core/trust/service.py over     *)
(* core/trust/repository.py, for one session.  The service's methods are   *)
(* synchronous.  Most callers run on the event loop, so a method is one    *)
(* step of it; a caller that evaluates, acts and then marks the grant as   *)
(* used runs to the end without an await, but two things reach it in       *)
(* between: the status endpoints, whose threads expire stale records, and  *)
(* a crash.  Requests and grants are rows of a database and survive        *)
(* restarts; the runtime id each row carries does not.                     *)
(*                                                                         *)
(* A TTL is modelled by the flag `lapsed` of a record, "expires_at is in   *)
(* the past".  Time is told apart no further.                              *)
(***************************************************************************)
EXTENDS Integers, Sequences, FiniteSets

CONSTANTS
    Actions,      \* family, action_key and subject of what needs approval
    Tasks,        \* durable tasks an action may belong to
    NoTask,       \* the empty task_id
    MaxRequests,  \* bounds
    MaxGrants,
    MaxRestarts,
    MaxUses

ASSUME TrustAssumption ==
    /\ NoTask \notin Tasks
    /\ {MaxRequests, MaxGrants, MaxRestarts, MaxUses} \subseteq Nat

VARIABLES
    requests,    \* trust_approval_requests, in the order of created_at
    grants,      \* trust_permission_grants, in the order of granted_at
    denials,     \* the requests denied so far, in the order of updated_at
    runtime,     \* _runtime_session_id
    validTasks,  \* the tasks whose trust_binding_status is valid
    inHand,      \* the grant a caller acted on and has yet to mark, 0 if none
    copy,        \* that caller's copy of the row
    seen,        \* the row a status thread has read and is about to judge
    uses         \* history: the actions performed under each grant

taskVars == <<validTasks>>
handVars == <<inHand, copy>>
vars == <<requests, grants, denials, runtime, validTasks, inHand, copy, seen, uses>>

RequestStates == {"pending", "approved", "denied", "expired"}
GrantStates   == {"approved", "expired", "revoked"}
Scopes        == {"once", "session", "task"}
TaskIds       == Tasks \cup {NoTask}

Request ==
    [state: RequestStates, action: Actions, task: TaskIds, runtime: Nat, lapsed: BOOLEAN]

Grant ==
    [state: GrantStates, scope: Scopes, request: Nat, action: Actions, task: TaskIds,
     runtime: Nat, used: BOOLEAN, lapsed: BOOLEAN]

NoCopy == [scope |-> "none"]

NoRow == [table |-> "none"]

SeenRow == [table: {"requests"}, index: Nat, row: Request] \cup [table: {"grants"}, index: Nat, row: Grant]

TypeOK ==
    /\ requests \in Seq(Request)
    /\ grants \in Seq(Grant)
    /\ denials \in Seq(DOMAIN requests)
    /\ runtime \in Nat
    /\ validTasks \in SUBSET Tasks
    /\ inHand \in {0} \cup DOMAIN grants
    /\ copy \in Grant \cup {NoCopy}
    /\ seen \in SeenRow \cup {NoRow}
    /\ uses \in [1..MaxGrants -> Nat]

-------------------------------------------------------------------------------
(* Which records still count.                                              *)

\* Mutation: a prompt of an earlier runtime may still be answered.
RequestInvalidAnyRuntime(r) ==
    \/ r.state = "expired"
    \/ r.lapsed
    \/ r.task # NoTask /\ r.task \notin validTasks

\* _request_invalidation_reason is not empty.
RequestInvalid(r) ==
    \/ r.state = "expired"
    \/ r.lapsed
    \/ r.runtime # runtime
    \/ r.task # NoTask /\ r.task \notin validTasks

\* Mutation: a grant of an earlier runtime is taken for one of this runtime.
GrantInvalidAnyRuntime(g, task) ==
    \/ g.state = "revoked"
    \/ g.lapsed
    \/ g.scope = "once" /\ g.used
    \/ g.scope = "task" /\ (g.task = NoTask \/ g.task # task \/ g.task \notin validTasks)

\* Mutation: the mark of a revocation is not looked at.
GrantInvalidUnlessRevoked(g, task) ==
    \/ g.lapsed
    \/ g.scope \in {"once", "session"} /\ g.runtime # runtime
    \/ g.scope = "once" /\ g.used
    \/ g.scope = "task" /\ (g.task = NoTask \/ g.task # task \/ g.task \notin validTasks)

\* _grant_invalidation_reason is not empty, for an action of `task`.
GrantInvalid(g, task) ==
    \/ g.state = "revoked"
    \/ g.lapsed
    \/ g.scope \in {"once", "session"} /\ g.runtime # runtime
    \/ g.scope = "once" /\ g.used
    \/ g.scope = "task" /\ (g.task = NoTask \/ g.task # task \/ g.task \notin validTasks)

\* _grant_state is one of the APPROVED states.
Usable(g, task) == g.state # "expired" /\ ~GrantInvalid(g, task)

\* A grant that is over is saved as expired; a row without an expires_at, that is
\* a TASK grant, is given one.
Expired(g) == [g EXCEPT !.state = "expired", !.lapsed = @ \/ g.scope = "task"]

\* _expire_stale_state: what it leaves in the two tables.
FreshGrants ==
    [i \in DOMAIN grants |->
        IF grants[i].state = "approved" /\ GrantInvalid(grants[i], grants[i].task)
        THEN Expired(grants[i]) ELSE grants[i]]

FreshRequests ==
    [i \in DOMAIN requests |->
        IF requests[i].state = "pending" /\ RequestInvalid(requests[i])
        THEN [requests[i] EXCEPT !.state = "expired"]
        ELSE requests[i]]

-------------------------------------------------------------------------------
(* evaluate_action.                                                        *)

Rank(scope) == CASE scope = "task" -> 0 [] scope = "session" -> 1 [] scope = "once" -> 2

\* The grants _matching_grant may return, and the one it returns: a TASK grant
\* before a SESSION one before a ONCE one, the latest of its scope.
Matching(a, t) == {i \in DOMAIN grants : FreshGrants[i].action = a /\ Usable(FreshGrants[i], t)}

Preferred(S) ==
    CHOOSE i \in S : \A j \in S :
        \/ Rank(grants[i].scope) < Rank(grants[j].scope)
        \/ Rank(grants[i].scope) = Rank(grants[j].scope) /\ i >= j

\* latest_denied_request, when there is one that has not expired.
Blocked(a, t) ==
    LET denied == {k \in DOMAIN denials : /\ requests[denials[k]].state = "denied"
                                          /\ requests[denials[k]].action = a
                                          /\ requests[denials[k]].task = t}
    IN  \E k \in denied : /\ \A l \in denied : l <= k
                          /\ ~RequestInvalid(requests[denials[k]])

\* Mutation: only requests without a task are found again.
PendingWithoutTask(a, t) ==
    {i \in DOMAIN requests : /\ FreshRequests[i].state = "pending"
                             /\ requests[i].action = a
                             /\ requests[i].task = NoTask
                             /\ t = NoTask}

\* The requests latest_pending_request chooses from, after _expire_stale_state.
PendingFor(a, t) ==
    {i \in DOMAIN requests : /\ FreshRequests[i].state = "pending"
                             /\ requests[i].action = a
                             /\ requests[i].task = t}

Idle == inHand = 0

\* Not allowed: the action is blocked, or held behind a prompt.  The prompt is
\* the pending request of the same action and task, or a new one.
Ask(a, t) ==
    /\ Idle
    /\ Matching(a, t) = {}
    /\ grants' = FreshGrants
    /\ IF Blocked(a, t) \/ PendingFor(a, t) # {}
       THEN requests' = FreshRequests
       ELSE /\ Len(requests) < MaxRequests
            /\ requests' = Append(FreshRequests,
                                  [state |-> "pending", action |-> a, task |-> t,
                                   runtime |-> runtime, lapsed |-> FALSE])
    /\ UNCHANGED <<denials, runtime, taskVars, handVars, uses, seen>>

\* What a caller that is allowed under grant i of gs does: nothing, because the
\* action failed before its effect; or the action, after which the caller still
\* has the row in hand.
Acts(i, gs) ==
    \/ UNCHANGED <<handVars, uses>>
    \/ /\ uses[i] < MaxUses
       /\ uses' = [uses EXCEPT ![i] = @ + 1]
       /\ inHand' = i
       /\ copy' = gs[i]

\* Allowed under an existing grant.
Allowed(a, t) ==
    /\ Idle
    /\ Matching(a, t) # {}
    /\ grants' = FreshGrants
    /\ requests' = FreshRequests
    /\ UNCHANGED <<denials, runtime, taskVars, seen>>

ActUnderGrant(a, t) ==
    /\ Allowed(a, t)
    /\ Acts(Preferred(Matching(a, t)), FreshGrants)

\* Mutation: using a SESSION grant renews its expires_at.
MarkedCopyRenewed ==
    IF copy.scope = "once" THEN [copy EXCEPT !.used = TRUE, !.state = "expired", !.lapsed = TRUE]
                           ELSE [copy EXCEPT !.used = TRUE]

\* The row mark_action_executed writes: the caller's copy, whatever the row has
\* become.  A ONCE grant expires on the spot; expires_at of a SESSION grant
\* never changes; that of a TASK grant is empty again.
MarkedCopy ==
    CASE copy.scope = "once"    -> [copy EXCEPT !.used = TRUE, !.state = "expired", !.lapsed = TRUE]
      [] copy.scope = "session" -> [copy EXCEPT !.used = TRUE, !.lapsed = grants[inHand].lapsed]
      [] copy.scope = "task"    -> [copy EXCEPT !.used = TRUE]

\* mark_action_executed
Mark ==
    /\ ~Idle
    /\ grants' = [grants EXCEPT ![inHand] = MarkedCopy]
    /\ inHand' = 0
    /\ copy' = NoCopy
    /\ UNCHANGED <<requests, denials, runtime, taskVars, uses, seen>>

-------------------------------------------------------------------------------
(* respond_to_request.  Prompts stay on screens, so any request may be       *)
(* answered at any time; the state of the request is not looked at.          *)

\* The caller names another task, or the request no longer counts.
Refused(i, t) ==
    \/ requests[i].task # NoTask /\ t # NoTask /\ requests[i].task # t
    \/ RequestInvalid(requests[i])

RefuseAnswer(i, t) ==
    /\ Idle
    /\ Refused(i, t)
    /\ requests' = [requests EXCEPT ![i].state = "expired"]
    /\ UNCHANGED <<grants, denials, runtime, taskVars, handVars, uses, seen>>

\* A request is denied again: its earlier place in the order is gone.
Without(s, i) ==
    LET k == CHOOSE k \in DOMAIN s : s[k] = i
    IN  IF \E l \in DOMAIN s : s[l] = i THEN SubSeq(s, 1, k - 1) \o SubSeq(s, k + 1, Len(s)) ELSE s

\* Mutation: the outcome of the decision is stored as the state of the request.
DenyAsBlocked(i, t) ==
    /\ Idle
    /\ ~Refused(i, t)
    /\ requests' = [requests EXCEPT ![i].state = "blocked"]
    /\ denials' = Append(Without(denials, i), i)
    /\ UNCHANGED <<grants, runtime, taskVars, handVars, uses, seen>>

Deny(i, t) ==
    /\ Idle
    /\ ~Refused(i, t)
    /\ requests' = [requests EXCEPT ![i].state = "denied"]
    /\ denials' = Append(Without(denials, i), i)
    /\ UNCHANGED <<grants, runtime, taskVars, handVars, uses, seen>>

NewGrant(i, scope) ==
    [state |-> "approved", scope |-> scope, request |-> i, action |-> requests[i].action,
     task |-> IF scope = "task" THEN requests[i].task ELSE NoTask,
     runtime |-> runtime, used |-> FALSE, lapsed |-> FALSE]

\* The caller that passes the answer on may act on the new grant at once.
Approve(i, t, scope) ==
    /\ Idle
    /\ ~Refused(i, t)
    /\ Len(grants) < MaxGrants
    /\ requests' = [requests EXCEPT ![i].state = "approved"]
    /\ grants' = Append(grants, NewGrant(i, scope))
    /\ Acts(Len(grants'), grants')
    /\ UNCHANGED <<denials, runtime, taskVars, seen>>

\* Mutation: the grant is saved before the answer to its request.
CrashBetweenSavesSwapped(i, t, scope) ==
    /\ Idle
    /\ ~Refused(i, t)
    /\ Len(grants) < MaxGrants
    /\ runtime < MaxRestarts
    /\ runtime' = runtime + 1
    /\ grants' = Append(grants, NewGrant(i, scope))
    /\ seen' = NoRow
    /\ UNCHANGED <<requests, denials, taskVars, handVars, uses>>

\* The answer and the grant are two transactions; a crash in between keeps the
\* first alone.
CrashBetweenSaves(i, t, scope) ==
    /\ Idle
    /\ ~Refused(i, t)
    /\ Len(grants) < MaxGrants
    /\ runtime < MaxRestarts
    /\ runtime' = runtime + 1
    /\ requests' = [requests EXCEPT ![i].state = "approved"]
    /\ seen' = NoRow
    /\ UNCHANGED <<grants, denials, taskVars, handVars, uses>>

Revocable(a) == {i \in DOMAIN grants : grants[i].action = a /\ Usable(grants[i], grants[i].task)}

\* revoke_matching_grants
Revoke(a) ==
    /\ Idle
    /\ grants' = [i \in DOMAIN grants |->
                     IF i \in Revocable(a) THEN [grants[i] EXCEPT !.state = "revoked"]
                                           ELSE grants[i]]
    /\ UNCHANGED <<requests, denials, runtime, taskVars, handVars, uses, seen>>

-------------------------------------------------------------------------------
(* What reaches the service from outside the event loop.                   *)

\* status_snapshot runs in a thread of a status endpoint.  It reads a row that
\* looks live, ...
ThreadReads ==
    /\ seen = NoRow
    /\ \/ \E i \in DOMAIN grants : /\ grants[i].state = "approved"
                                   /\ seen' = [table |-> "grants", index |-> i, row |-> grants[i]]
       \/ \E i \in DOMAIN requests : /\ requests[i].state = "pending"
                                     /\ seen' = [table |-> "requests", index |-> i, row |-> requests[i]]
    /\ UNCHANGED <<requests, grants, denials, runtime, taskVars, handVars, uses>>

\* The row as the clock has it by the time it is judged.
Aged(row, now) == [row EXCEPT !.lapsed = now.lapsed]

\* Mutation: the row is saved whether or not it is found to be over.
JudgedGrantAlways(g) ==
    IF GrantInvalid(g, g.task) THEN {Expired(g)} ELSE {g}

\* ... and saves its whole copy as expired if it is over.
JudgedGrant(g) ==
    IF GrantInvalid(g, g.task) THEN {Expired(g)} ELSE {}

JudgedRequest(r) == IF RequestInvalid(r) THEN {[r EXCEPT !.state = "expired"]} ELSE {}

\* The status thread is done with its row.  A TTL may also be judged before it passed.
ThreadWrites ==
    /\ seen # NoRow
    /\ seen' = NoRow
    /\ LET i == seen.index IN
       \/ seen.table = "grants" /\ UNCHANGED requests
             /\ \E g \in JudgedGrant(Aged(seen.row, grants[i])) : grants' = [grants EXCEPT ![i] = g]
       \/ seen.table = "requests" /\ UNCHANGED grants
             /\ \E r \in JudgedRequest(Aged(seen.row, requests[i])) : requests' = [requests EXCEPT ![i] = r]
       \/ UNCHANGED <<grants, requests>>
    /\ UNCHANGED <<denials, runtime, taskVars, handVars, uses>>

\* The core is restarted, after a crash or not; a caller's copy is lost.
Restart ==
    /\ runtime < MaxRestarts
    /\ runtime' = runtime + 1
    /\ inHand' = 0
    /\ copy' = NoCopy
    /\ seen' = NoRow
    /\ UNCHANGED <<requests, grants, denials, taskVars, uses>>

\* TTLs are the same for all requests and for all grants of a scope, so they
\* pass in the order of creation.  A TASK grant has none.
LapseRequest(i) ==
    /\ ~requests[i].lapsed
    /\ \A j \in 1..(i - 1) : requests[j].lapsed
    /\ requests' = [requests EXCEPT ![i].lapsed = TRUE]
    /\ UNCHANGED <<grants, denials, runtime, taskVars, handVars, uses, seen>>

LapseGrant(i) ==
    /\ ~grants[i].lapsed
    /\ grants[i].scope # "task"
    /\ \A j \in 1..(i - 1) : grants[j].scope = grants[i].scope => grants[j].lapsed
    /\ grants' = [grants EXCEPT ![i].lapsed = TRUE]
    /\ UNCHANGED <<requests, denials, runtime, taskVars, handVars, uses, seen>>

\* A task becomes resumable or stops being so (core/tasks/service.py).
TaskChanges(t) ==
    /\ validTasks' = IF t \in validTasks THEN validTasks \ {t} ELSE validTasks \cup {t}
    /\ UNCHANGED <<requests, grants, denials, runtime, handVars, uses, seen>>

-------------------------------------------------------------------------------

Init ==
    /\ requests = <<>>
    /\ grants = <<>>
    /\ denials = <<>>
    /\ runtime = 0
    /\ validTasks \in SUBSET Tasks
    /\ inHand = 0
    /\ copy = NoCopy
    /\ seen = NoRow
    /\ uses = [i \in 1..MaxGrants |-> 0]

Answer(i, t) ==
    \/ RefuseAnswer(i, t)
    \/ Deny(i, t)
    \/ \E scope \in Scopes : Approve(i, t, scope) \/ CrashBetweenSaves(i, t, scope)

Next ==
    \/ \E a \in Actions, t \in TaskIds : Ask(a, t) \/ ActUnderGrant(a, t)
    \/ \E i \in DOMAIN requests, t \in TaskIds : Answer(i, t)
    \/ Mark
    \/ \E a \in Actions : Revoke(a)
    \/ ThreadReads
    \/ ThreadWrites
    \/ Restart
    \/ \E i \in DOMAIN requests : LapseRequest(i)
    \/ \E i \in DOMAIN grants : LapseGrant(i)
    \/ \E t \in Tasks : TaskChanges(t)

Spec == Init /\ [][Next]_vars

-------------------------------------------------------------------------------
(* Safety.                                                                 *)

\* The operator never faces two prompts that both count for the same action of
\* the same task, whatever expires, is denied or is asked again in between.
OnePrompt ==
    \A i, j \in DOMAIN requests :
        (/\ requests[i].state = "pending" /\ ~RequestInvalid(requests[i])
         /\ requests[j].state = "pending" /\ ~RequestInvalid(requests[j])
         /\ requests[i].action = requests[j].action
         /\ requests[i].task = requests[j].task) => i = j

\* No grant outlives a crash without the answer it stands on: a grant on record
\* means that the operator's answer to its request is on record too.
GrantHasAnswer == \A i \in DOMAIN grants : requests[grants[i].request].state # "pending"

\* At most one action is performed under a ONCE grant by callers that mark what they
\* did, even when the process dies between the action and its mark, or a status
\* thread saves an older row.  This is less than docs/security-and-trust.md:46, "Permit
\* one action attempt.": an attempt that fails before its effect does not count here,
\* and the code lets a grant cover any number of those.
OnceUsedOnce == \A i \in DOMAIN grants : grants[i].scope = "once" => uses[i] <= 1

\* A grant the database shows as expired or revoked is never live again, although
\* status threads save whole rows they read earlier, unless a caller had it in
\* hand when it ended.
EndedStaysEnded ==
    [][\A i \in DOMAIN grants :
           (grants[i].state # "approved" /\ i # inHand) => grants'[i].state # "approved"]_vars

\* No action is performed under a grant that has been revoked.
RevocationSticks ==
    [][\A i \in DOMAIN grants : grants[i].state = "revoked" => uses'[i] = uses[i]]_vars

\* When a ONCE or SESSION grant is over as its owner sees it.
Over(i) ==
    \/ grants[i].state # "approved"
    \/ grants[i].lapsed
    \/ grants[i].runtime # runtime
    \/ grants[i].scope = "once" /\ uses[i] > 0

\* What is left of the consent that grant i recorded.
ConsentOf(i) ==
    IF i \notin DOMAIN grants THEN "none"
    ELSE IF grants[i].scope # "task" /\ Over(i) THEN "over"
    ELSE IF grants[i].scope = "once" THEN "once" ELSE "standing"

Consent == INSTANCE TrustConsent WITH
    Consents <- 1..MaxGrants,
    consent  <- [i \in 1..MaxGrants |-> ConsentOf(i)]

\* The two tables, their TTLs and runtime ids implement consent as it was meant,
\* for callers that mark what they did.  A TASK grant follows its task and may come back.
ImplementsConsent == Consent!Spec
===============================================================================
