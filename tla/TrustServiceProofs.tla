-------------------------- MODULE TrustServiceProofs --------------------------
(***************************************************************************)
(* Theorems about approvals and grants, for every set of actions and tasks *)
(* and every bound.  Rows are appended and rewritten but never removed,    *)
(* and two actors hold copies of rows while others rewrite them: the       *)
(* invariant says how a copy and the row it was read from are related.     *)
(***************************************************************************)
EXTENDS TrustService, NaturalsLemmas, SequenceTheorems, TLAPS

-------------------------------------------------------------------------------
(* The inductive invariant.                                                *)

\* Two versions of one grant: what a grant is for never changes.
SameGrant(g, h) ==
    /\ g.scope = h.scope
    /\ g.request = h.request
    /\ g.action = h.action
    /\ g.task = h.task
    /\ g.runtime = h.runtime

SameRequest(r, q) ==
    /\ r.action = q.action
    /\ r.task = q.task
    /\ r.runtime = q.runtime

\* The caller's copy is a live version of the row it will replace, made in this
\* runtime unless it is a TASK grant, and its use is on record.  A status thread
\* may have expired the row since; a SESSION grant then had lapsed.
HandInv ==
    inHand # 0 =>
        /\ copy \in Grant
        /\ copy.state = "approved"
        /\ SameGrant(copy, grants[inHand])
        /\ copy.scope # "task" => copy.runtime = runtime
        /\ copy.scope = "session" /\ grants[inHand].state # "approved" => grants[inHand].lapsed
        /\ inHand \in 1..MaxGrants
        /\ uses[inHand] > 0

\* The row a status thread judges is an earlier, live version of the row it saves.
SeenGrantInv ==
    seen.table = "grants" =>
        /\ seen.index \in DOMAIN grants
        /\ seen.row \in Grant
        /\ seen.row.state = "approved"
        /\ SameGrant(seen.row, grants[seen.index])

SeenRequestInv ==
    seen.table = "requests" =>
        /\ seen.index \in DOMAIN requests
        /\ seen.row \in Request
        /\ seen.row.state = "pending"
        /\ SameRequest(seen.row, requests[seen.index])

\* The request of a grant is on record, and answered.
AnswerInv ==
    \A i \in DOMAIN grants :
        /\ grants[i].request \in DOMAIN requests
        /\ requests[grants[i].request].state # "pending"

\* A ONCE grant that was used is in hand, or marked, or over.
Spent(i) ==
    \/ inHand = i
    \/ grants[i].used
    \/ grants[i].state # "approved"
    \/ grants[i].runtime # runtime

UseInv ==
    /\ Len(grants) <= MaxGrants
    /\ \A i \in 1..MaxGrants : i \notin DOMAIN grants => uses[i] = 0
    /\ \A i \in DOMAIN grants : grants[i].runtime <= runtime
    /\ \A i \in DOMAIN grants :
           grants[i].scope = "once" => uses[i] = 0 \/ (uses[i] = 1 /\ Spent(i))

\* One prompt at most for an action of a task, whether or not it still counts.
PromptInv ==
    \A i, j \in DOMAIN requests :
        (/\ requests[i].state = "pending" /\ requests[j].state = "pending"
         /\ requests[i].action = requests[j].action
         /\ requests[i].task = requests[j].task) => i = j

TrustInv ==
    /\ TypeOK
    /\ HandInv /\ SeenGrantInv /\ SeenRequestInv
    /\ AnswerInv /\ UseInv /\ PromptInv

-------------------------------------------------------------------------------
(* The operators of the model.                                             *)

\* A table rewritten row by row keeps its length.
LEMMA SameLength ==
    ASSUME NEW S, NEW T, NEW s \in Seq(S), NEW f \in [DOMAIN s -> T]
    PROVE  f \in Seq(T) /\ Len(f) = Len(s)
    OBVIOUS

\* Rewriting one row of a table, if it is there.
LEMMA OneRow ==
    ASSUME NEW S, NEW s \in Seq(S), NEW i, NEW row, i \in DOMAIN s => row \in S
    PROVE  /\ [s EXCEPT ![i] = row] \in Seq(S)
           /\ Len([s EXCEPT ![i] = row]) = Len(s)
           /\ \A j \in DOMAIN s : [s EXCEPT ![i] = row][j] = IF j = i THEN row ELSE s[j]
<1>1. s \in [DOMAIN s -> S]
    OBVIOUS
<1>2. [s EXCEPT ![i] = row] \in [DOMAIN s -> S]
    BY <1>1
<1> QED
    BY <1>1, <1>2, SameLength

\* What expiring a grant does to its row.
LEMMA ExpiredTyped ==
    ASSUME NEW g \in Grant
    PROVE  /\ Expired(g) \in Grant
           /\ Expired(g).state = "expired"
           /\ g.lapsed => Expired(g).lapsed
           /\ g.scope # "task" => Expired(g).lapsed = g.lapsed
           /\ Expired(g).used = g.used
           /\ SameGrant(Expired(g), g)
<1>1. (g.lapsed \/ g.scope = "task") \in BOOLEAN
    OBVIOUS
<1> QED
    BY <1>1 DEF Expired, Grant, GrantStates, SameGrant

\* _expire_stale_state keeps the rows it does not expire.
LEMMA FreshGrantsTyped ==
    ASSUME TypeOK
    PROVE  /\ FreshGrants \in Seq(Grant)
           /\ Len(FreshGrants) = Len(grants)
           /\ \A i \in DOMAIN grants :
                  /\ SameGrant(FreshGrants[i], grants[i])
                  /\ FreshGrants[i].used = grants[i].used
                  /\ grants[i].lapsed => FreshGrants[i].lapsed
                  /\ FreshGrants[i] = grants[i] \/ FreshGrants[i].state = "expired"
                  /\ grants[i].state # "approved" => FreshGrants[i] = grants[i]
<1>1. FreshGrants \in [DOMAIN grants -> Grant]
    BY ExpiredTyped DEF FreshGrants, TypeOK
<1>2. FreshGrants \in Seq(Grant) /\ Len(FreshGrants) = Len(grants)
    BY <1>1, SameLength DEF TypeOK
<1>3. ASSUME NEW i \in DOMAIN grants
      PROVE  /\ SameGrant(FreshGrants[i], grants[i])
             /\ FreshGrants[i].used = grants[i].used
             /\ grants[i].lapsed => FreshGrants[i].lapsed
             /\ FreshGrants[i] = grants[i] \/ FreshGrants[i].state = "expired"
             /\ grants[i].state # "approved" => FreshGrants[i] = grants[i]
    <2>1. grants[i] \in Grant
        BY DEF TypeOK
    <2> QED
        BY <2>1, ExpiredTyped DEF FreshGrants, SameGrant
<1> QED
    BY <1>2, <1>3

\* Expiring the stale requests rewrites rows and adds none.
LEMMA FreshRequestsTyped ==
    ASSUME TypeOK
    PROVE  /\ FreshRequests \in Seq(Request)
           /\ Len(FreshRequests) = Len(requests)
           /\ \A i \in DOMAIN requests :
                  /\ SameRequest(FreshRequests[i], requests[i])
                  /\ FreshRequests[i].state = "pending" => requests[i].state = "pending"
                  /\ FreshRequests[i] = requests[i] \/ FreshRequests[i].state = "expired"
<1>1. FreshRequests \in [DOMAIN requests -> Request]
    <2>1. \A r \in Request : [r EXCEPT !.state = "expired"] \in Request
        BY DEF Request, RequestStates
    <2> QED
        BY <2>1 DEF FreshRequests, TypeOK
<1>2. FreshRequests \in Seq(Request) /\ Len(FreshRequests) = Len(requests)
    BY <1>1, SameLength DEF TypeOK
<1>3. ASSUME NEW i \in DOMAIN requests
      PROVE  /\ SameRequest(FreshRequests[i], requests[i])
             /\ FreshRequests[i].state = "pending" => requests[i].state = "pending"
             /\ FreshRequests[i] = requests[i] \/ FreshRequests[i].state = "expired"
    <2>1. requests[i] \in Request
        BY DEF TypeOK
    <2> QED
        BY <2>1 DEF FreshRequests, SameRequest, Request
<1> QED
    BY <1>2, <1>3

\* Among any live grants there is one that is preferred.
LEMMA PreferredExists ==
    ASSUME TypeOK, NEW S \in SUBSET DOMAIN grants, S # {}
    PROVE  Preferred(S) \in S
<1> DEFINE rank(i) == Rank(grants[i].scope)
           R == {rank(i) : i \in S}
<1>1. \A i \in S : rank(i) \in Nat /\ i \in Nat /\ i <= Len(grants)
    <2> SUFFICES ASSUME NEW i \in S PROVE rank(i) \in Nat /\ i \in Nat /\ i <= Len(grants)
        OBVIOUS
    <2>1. i \in DOMAIN grants /\ grants[i] \in Grant
        BY DEF TypeOK
    <2>2. grants[i].scope \in Scopes
        BY <2>1 DEF Grant
    <2> QED
        BY <2>1, <2>2 DEF Rank, Scopes, TypeOK
<1> HIDE DEF rank
<1>2. PICK r \in R : \A q \in R : r <= q
    <2>1. R \subseteq Nat /\ R # {}
        BY <1>1
    <2> QED
        BY <2>1, LeastNat
<1>3. PICK i \in {j \in S : rank(j) = r} : \A j \in {k \in S : rank(k) = r} : j <= i
    <2>1. {j \in S : rank(j) = r} \subseteq Nat /\ {j \in S : rank(j) = r} # {}
        BY <1>1
    <2>2. Len(grants) \in Nat
        BY DEF TypeOK
    <2> QED
        BY <2>1, <2>2, <1>1, GreatestNat
<1>4. \A j \in S : rank(i) < rank(j) \/ (rank(i) = rank(j) /\ i >= j)
    <2> SUFFICES ASSUME NEW j \in S
                 PROVE  rank(i) < rank(j) \/ (rank(i) = rank(j) /\ i >= j)
        OBVIOUS
    <2>1. r <= rank(j) /\ rank(i) = r
        BY <1>2, <1>3
    <2>2. rank(j) = r => j <= i
        BY <1>3
    <2> QED
        BY <1>1, <2>1, <2>2
<1> QED
    BY <1>3, <1>4 DEF Preferred, rank

\* A request denied again leaves its earlier place in the order of the denials.
LEMMA WithoutTyped ==
    ASSUME NEW S, NEW s \in Seq(S), NEW i
    PROVE  Without(s, i) \in Seq(S)
<1>1. CASE \A l \in DOMAIN s : s[l] # i
    BY <1>1 DEF Without
<1>2. ASSUME NEW k \in DOMAIN s
      PROVE  SubSeq(s, 1, k - 1) \o SubSeq(s, k + 1, Len(s)) \in Seq(S)
    <2>1. k \in 1..Len(s) /\ Len(s) \in Nat
        OBVIOUS
    <2>2. \A l \in 1..Len(s) : s[l] \in S
        OBVIOUS
    <2>3. SubSeq(s, 1, k - 1) \in Seq(S)
        BY <2>1, <2>2, SubSeqProperties
    <2>4. SubSeq(s, k + 1, Len(s)) \in Seq(S)
        BY <2>1, <2>2, SubSeqProperties
    <2> QED
        BY <2>3, <2>4, ConcatProperties
<1> QED
    BY <1>1, <1>2 DEF Without

-------------------------------------------------------------------------------
(* What a step does to the rows of the two tables.                         *)

\* No request is removed, none changes what it asks for, and none that was
\* answered or has expired is pending again.
RequestsKept ==
    /\ requests' \in Seq(Request)
    /\ Len(requests) <= Len(requests')
    /\ \A i \in DOMAIN requests :
           /\ SameRequest(requests'[i], requests[i])
           /\ requests'[i].state = "pending" => requests[i].state = "pending"

\* Each way in which a step may change the requests keeps what is claimed of
\* them: no change,
LEMMA RequestsUnchanged ==
    ASSUME TypeOK, UNCHANGED requests
    PROVE  RequestsKept
    BY DEF TypeOK, RequestsKept, SameRequest

\* expiry on the event loop,
LEMMA RequestsFresh ==
    ASSUME TypeOK, requests' = FreshRequests
    PROVE  RequestsKept
    BY FreshRequestsTyped DEF TypeOK, RequestsKept

\* one row that ends or lapses,
LEMMA RequestRewritten ==
    ASSUME TypeOK, NEW i \in DOMAIN requests, NEW r \in Request, SameRequest(r, requests[i]),
           r.state = "pending" => requests[i].state = "pending",
           requests' = [requests EXCEPT ![i] = r]
    PROVE  RequestsKept
<1>1. requests' \in Seq(Request) /\ Len(requests') = Len(requests)
    BY OneRow DEF TypeOK
<1>2. \A j \in DOMAIN requests : requests'[j] = IF j = i THEN r ELSE requests[j]
    BY OneRow DEF TypeOK
<1>3. Len(requests) \in Nat
    BY DEF TypeOK
<1> QED
    BY <1>1, <1>2, <1>3 DEF RequestsKept, SameRequest

\* one row that is answered.
LEMMA RequestAnswered ==
    ASSUME TypeOK, NEW i \in DOMAIN requests, NEW st \in RequestStates \ {"pending"},
           requests' = [requests EXCEPT ![i].state = st]
    PROVE  RequestsKept
<1> DEFINE r == [requests[i] EXCEPT !.state = st]
<1>1. requests[i] \in Request
    BY DEF TypeOK
<1>2. r \in Request /\ SameRequest(r, requests[i]) /\ r.state # "pending"
    BY <1>1 DEF Request, SameRequest
<1>3. requests' = [requests EXCEPT ![i] = r]
    OBVIOUS
<1> HIDE DEF r
<1> QED
    BY <1>2, <1>3, RequestRewritten

\* Every step keeps the requests.
LEMMA RequestRows ==
    ASSUME TypeOK, SeenRequestInv, [Next]_vars
    PROVE  RequestsKept
<1>1. ASSUME NEW a \in Actions, NEW t \in TaskIds, Ask(a, t)
      PROVE  RequestsKept
    <2>1. CASE requests' = FreshRequests
        BY <2>1, RequestsFresh
    <2>2. CASE requests' # FreshRequests
        <3> DEFINE new == [state |-> "pending", action |-> a, task |-> t,
                           runtime |-> runtime, lapsed |-> FALSE]
        <3>1. requests' = Append(FreshRequests, new)
            BY <1>1, <2>2 DEF Ask
        <3>2. new \in Request
            BY DEF Request, RequestStates, TypeOK
        <3> HIDE DEF new
        <3>3. /\ requests' \in Seq(Request)
              /\ Len(requests') = Len(requests) + 1
              /\ \A i \in DOMAIN requests : requests'[i] = FreshRequests[i]
            BY <3>1, <3>2, FreshRequestsTyped, AppendProperties DEF TypeOK
        <3> QED
            BY <3>3, FreshRequestsTyped DEF RequestsKept, TypeOK
    <2> QED
        BY <2>1, <2>2
<1>2. ASSUME NEW a \in Actions, NEW t \in TaskIds, ActUnderGrant(a, t)
      PROVE  RequestsKept
    BY <1>2, RequestsFresh DEF ActUnderGrant, Allowed
<1>3. ASSUME NEW i \in DOMAIN requests, NEW t \in TaskIds, Answer(i, t)
      PROVE  RequestsKept
    BY <1>3, RequestAnswered
    DEF Answer, RefuseAnswer, Deny, Approve, CrashBetweenSaves, RequestStates
<1>4. CASE ThreadWrites
    <2>1. CASE UNCHANGED requests
        BY <2>1, RequestsUnchanged
    <2>2. CASE ~ UNCHANGED requests
        <3> DEFINE i == seen.index
        <3>1. /\ seen.table = "requests"
              /\ \E r \in JudgedRequest(Aged(seen.row, requests[i])) :
                     requests' = [requests EXCEPT ![i] = r]
            BY <1>4, <2>2 DEF ThreadWrites
        <3>2. i \in DOMAIN requests /\ seen.row \in Request /\ SameRequest(seen.row, requests[i])
            BY <3>1 DEF SeenRequestInv
        <3>3. requests[i] \in Request
            BY <3>2 DEF TypeOK
        <3>4. \A r \in JudgedRequest(Aged(seen.row, requests[i])) :
                  r \in Request /\ SameRequest(r, requests[i]) /\ r.state # "pending"
            BY <3>2, <3>3 DEF JudgedRequest, Aged, Request, RequestStates, SameRequest
        <3> QED
            BY <3>1, <3>2, <3>4, RequestRewritten
    <2> QED
        BY <2>1, <2>2
<1>5. ASSUME NEW i \in DOMAIN requests, LapseRequest(i)
      PROVE  RequestsKept
    <2> DEFINE r == [requests[i] EXCEPT !.lapsed = TRUE]
    <2>1. requests[i] \in Request
        BY DEF TypeOK
    <2>2. r \in Request /\ SameRequest(r, requests[i]) /\ r.state = requests[i].state
        BY <2>1 DEF Request, SameRequest
    <2>3. requests' = [requests EXCEPT ![i] = r]
        BY <1>5 DEF LapseRequest
    <2> HIDE DEF r
    <2> QED
        BY <2>2, <2>3, RequestRewritten
<1>6. CASE UNCHANGED requests
    BY <1>6, RequestsUnchanged
<1> QED
    BY <1>1, <1>2, <1>3, <1>4, <1>5, <1>6
    DEF Next, Mark, Revoke, ThreadReads, Restart, LapseGrant, TaskChanges, vars

\* No grant is removed, none changes what it is for, a TTL that has passed has
\* passed for good, and a grant that nobody has in hand and that has ended stays so.
GrantsKept ==
    /\ grants' \in Seq(Grant)
    /\ Len(grants) <= Len(grants')
    /\ \A i \in DOMAIN grants :
           /\ SameGrant(grants'[i], grants[i])
           /\ grants[i].scope # "task" /\ grants[i].lapsed => grants'[i].lapsed
           /\ i # inHand /\ grants[i].state # "approved" => grants'[i].state # "approved"
           /\ grants'[i].state # "approved" \/ grants'[i].used = grants[i].used \/ i = inHand

\* Likewise the grants: no change,
LEMMA GrantsUnchanged ==
    ASSUME TypeOK, UNCHANGED grants
    PROVE  GrantsKept
    BY DEF TypeOK, GrantsKept, SameGrant

\* expiry on the event loop,
LEMMA GrantsFresh ==
    ASSUME TypeOK, grants' = FreshGrants
    PROVE  GrantsKept
    BY FreshGrantsTyped DEF TypeOK, GrantsKept

\* one row that is rewritten.
LEMMA GrantRewritten ==
    ASSUME TypeOK, NEW i \in DOMAIN grants, NEW g \in Grant, SameGrant(g, grants[i]),
           g.scope # "task" /\ grants[i].lapsed => g.lapsed,
           i = inHand \/ g.state # "approved" \/ (grants[i].state = "approved" /\ g.used = grants[i].used),
           grants' = [grants EXCEPT ![i] = g]
    PROVE  GrantsKept
<1>1. grants' \in Seq(Grant) /\ Len(grants') = Len(grants)
    BY OneRow DEF TypeOK
<1>2. \A j \in DOMAIN grants : grants'[j] = IF j = i THEN g ELSE grants[j]
    BY OneRow DEF TypeOK
<1>3. Len(grants) \in Nat
    BY DEF TypeOK
<1> QED
    BY <1>1, <1>2, <1>3 DEF GrantsKept, SameGrant

\* Approve adds a row to the others.
LEMMA GrantAdded ==
    ASSUME TypeOK, NEW g \in Grant, grants' = Append(grants, g)
    PROVE  /\ GrantsKept
           /\ Len(grants') = Len(grants) + 1
           /\ grants'[Len(grants')] = g
           /\ \A i \in DOMAIN grants : grants'[i] = grants[i]
<1>1. /\ grants' \in Seq(Grant)
      /\ Len(grants') = Len(grants) + 1
      /\ grants'[Len(grants')] = g
      /\ \A i \in DOMAIN grants : grants'[i] = grants[i]
    BY AppendProperties DEF TypeOK
<1>2. Len(grants) \in Nat
    BY DEF TypeOK
<1> QED
    BY <1>1, <1>2 DEF GrantsKept, SameGrant

\* An approval makes a grant of this runtime that nobody has used.
LEMMA NewGrantTyped ==
    ASSUME TypeOK, NEW i \in DOMAIN requests, NEW scope \in Scopes
    PROVE  /\ NewGrant(i, scope) \in Grant
           /\ NewGrant(i, scope).request = i
           /\ NewGrant(i, scope).scope = scope
           /\ NewGrant(i, scope).runtime = runtime
           /\ NewGrant(i, scope).state = "approved"
           /\ ~NewGrant(i, scope).lapsed
<1>1. i \in Nat /\ requests[i] \in Request
    BY DEF TypeOK
<1>2. (IF scope = "task" THEN requests[i].task ELSE NoTask) \in TaskIds
    BY <1>1 DEF Request, TaskIds
<1> QED
    BY <1>1, <1>2 DEF NewGrant, Grant, GrantStates, TypeOK, Request

\* The row a caller writes back over what it was read from.
LEMMA MarkedTyped ==
    ASSUME TypeOK, HandInv, ~Idle
    PROVE  /\ inHand \in DOMAIN grants
           /\ MarkedCopy \in Grant
           /\ SameGrant(MarkedCopy, grants[inHand])
           /\ copy.scope # "task" /\ grants[inHand].lapsed => MarkedCopy.lapsed
           /\ copy.scope = "once" => MarkedCopy.used /\ MarkedCopy.state # "approved"
<1>1. inHand \in DOMAIN grants /\ copy \in Grant /\ SameGrant(copy, grants[inHand])
    BY DEF Idle, HandInv, TypeOK
<1>2. grants[inHand] \in Grant
    BY <1>1 DEF TypeOK
<1>3. CASE copy.scope = "once"
    BY <1>1, <1>2, <1>3 DEF MarkedCopy, Grant, GrantStates, SameGrant
<1>4. CASE copy.scope = "session"
    BY <1>1, <1>2, <1>4 DEF MarkedCopy, Grant, GrantStates, SameGrant
<1>5. CASE copy.scope = "task"
    BY <1>1, <1>2, <1>5 DEF MarkedCopy, Grant, GrantStates, SameGrant
<1>6. copy.scope = "once" \/ copy.scope = "session" \/ copy.scope = "task"
    BY <1>1 DEF Grant, Scopes
<1> QED
    BY <1>3, <1>4, <1>5, <1>6

\* What a status thread may save over a grant.
LEMMA JudgedTyped ==
    ASSUME TypeOK, SeenGrantInv, seen.table = "grants",
           NEW g \in JudgedGrant(Aged(seen.row, grants[seen.index]))
    PROVE  /\ seen.index \in DOMAIN grants
           /\ g \in Grant
           /\ g.state = "expired"
           /\ SameGrant(g, grants[seen.index])
           /\ grants[seen.index].lapsed => g.lapsed
           /\ g.scope = "session" => g.lapsed \/ g.runtime # runtime
<1> DEFINE aged == Aged(seen.row, grants[seen.index])
<1>1. /\ seen.index \in DOMAIN grants
      /\ grants[seen.index] \in Grant
      /\ seen.row \in Grant
      /\ seen.row.state = "approved"
      /\ SameGrant(seen.row, grants[seen.index])
    BY DEF SeenGrantInv, TypeOK
<1>2. /\ aged \in Grant
      /\ aged.state = "approved"
      /\ SameGrant(aged, grants[seen.index])
      /\ aged.lapsed = grants[seen.index].lapsed
    BY <1>1 DEF Aged, Grant, SameGrant
<1> HIDE DEF aged
<1>3. g = Expired(aged) /\ GrantInvalid(aged, aged.task)
    BY DEF JudgedGrant, aged
<1>4. aged.scope = "session" => aged.lapsed \/ aged.runtime # runtime
    BY <1>2, <1>3 DEF GrantInvalid
<1> QED
    BY <1>1, <1>2, <1>3, <1>4, ExpiredTyped DEF SameGrant

\* Every step keeps the grants.
LEMMA GrantRows ==
    ASSUME TypeOK, HandInv, SeenGrantInv, [Next]_vars
    PROVE  GrantsKept
<1>1. ASSUME NEW a \in Actions, NEW t \in TaskIds, Ask(a, t) \/ ActUnderGrant(a, t)
      PROVE  GrantsKept
    BY <1>1, GrantsFresh DEF Ask, ActUnderGrant, Allowed
<1>2. ASSUME NEW i \in DOMAIN requests, NEW t \in TaskIds, NEW scope \in Scopes,
             Approve(i, t, scope)
      PROVE  GrantsKept
    BY <1>2, GrantAdded, NewGrantTyped DEF Approve
<1>3. CASE Mark
    <2>1. grants' = [grants EXCEPT ![inHand] = MarkedCopy]
        BY <1>3 DEF Mark
    <2>2. ~Idle
        BY <1>3 DEF Mark
    <2> QED
        BY <2>1, <2>2, MarkedTyped, GrantRewritten DEF HandInv, SameGrant, Idle
<1>4. ASSUME NEW a \in Actions, Revoke(a)
      PROVE  GrantsKept
    <2>1. \A g \in Grant : [g EXCEPT !.state = "revoked"] \in Grant
        BY DEF Grant, GrantStates
    <2>2. \A i \in DOMAIN grants : grants[i] \in Grant
        BY DEF TypeOK
    <2>3. grants' \in [DOMAIN grants -> Grant]
        BY <1>4, <2>1, <2>2 DEF Revoke
    <2>4. grants' \in Seq(Grant) /\ Len(grants') = Len(grants)
        BY <2>3, SameLength DEF TypeOK
    <2>5. \A i \in DOMAIN grants :
              grants'[i] = grants[i] \/ grants'[i] = [grants[i] EXCEPT !.state = "revoked"]
        BY <1>4 DEF Revoke
    <2>6. ASSUME NEW i \in DOMAIN grants
          PROVE  /\ SameGrant(grants'[i], grants[i])
                 /\ grants'[i].lapsed = grants[i].lapsed
                 /\ grants'[i] = grants[i] \/ grants'[i].state = "revoked"
        <3>1. CASE grants'[i] = grants[i]
            BY <3>1 DEF SameGrant
        <3>2. CASE grants'[i] = [grants[i] EXCEPT !.state = "revoked"]
            <4>1. grants[i] \in Grant
                BY <2>2
            <4> QED
                BY <3>2, <4>1 DEF Grant, SameGrant
        <3> QED
            BY <2>5, <3>1, <3>2
    <2>7. Len(grants) \in Nat
        BY DEF TypeOK
    <2> QED
        BY <2>4, <2>6, <2>7 DEF GrantsKept
<1>5. CASE ThreadWrites
    <2>1. CASE UNCHANGED grants
        BY <2>1, GrantsUnchanged
    <2>2. CASE ~ UNCHANGED grants
        <3>1. /\ seen.table = "grants"
              /\ \E g \in JudgedGrant(Aged(seen.row, grants[seen.index])) :
                     grants' = [grants EXCEPT ![seen.index] = g]
            BY <1>5, <2>2 DEF ThreadWrites
        <3> QED
            BY <3>1, JudgedTyped, GrantRewritten
    <2> QED
        BY <2>1, <2>2
<1>6. ASSUME NEW i \in DOMAIN grants, LapseGrant(i)
      PROVE  GrantsKept
    <2> DEFINE g == [grants[i] EXCEPT !.lapsed = TRUE]
    <2>1. grants[i] \in Grant
        BY DEF TypeOK
    <2>2. /\ g \in Grant /\ SameGrant(g, grants[i]) /\ g.state = grants[i].state
          /\ g.lapsed /\ g.used = grants[i].used
        BY <2>1 DEF Grant, SameGrant
    <2>3. grants' = [grants EXCEPT ![i] = g]
        BY <1>6 DEF LapseGrant
    <2> HIDE DEF g
    <2>4. g.state # "approved" \/ (grants[i].state = "approved" /\ g.used = grants[i].used)
        BY <2>2
    <2> QED
        BY <2>2, <2>3, <2>4, GrantRewritten
<1>7. CASE UNCHANGED grants
    BY <1>7, GrantsUnchanged
<1> QED
    BY <1>1, <1>2, <1>3, <1>4, <1>5, <1>6, <1>7
    DEF Next, Answer, RefuseAnswer, Deny, CrashBetweenSaves, ThreadReads, Restart, LapseRequest,
        TaskChanges, vars
-------------------------------------------------------------------------------
(* Preservation of the invariant, one conjunct after the other.            *)

\* A grant that allows an action is live, and no step has rewritten it.
LEMMA MatchingLive ==
    ASSUME TypeOK, NEW a, NEW t, NEW i \in Matching(a, t)
    PROVE  /\ i \in DOMAIN grants
           /\ FreshGrants[i] = grants[i]
           /\ grants[i] \in Grant
           /\ grants[i].state = "approved"
           /\ grants[i].action = a
           /\ ~grants[i].lapsed
           /\ grants[i].scope # "task" => grants[i].runtime = runtime
           /\ grants[i].scope = "once" => ~grants[i].used
<1>1. i \in DOMAIN grants /\ FreshGrants[i].action = a /\ Usable(FreshGrants[i], t)
    BY DEF Matching
<1>2. FreshGrants[i].state # "expired"
    BY <1>1 DEF Usable
<1>3. FreshGrants[i] = grants[i] /\ grants[i] \in Grant
    BY <1>1, <1>2, FreshGrantsTyped DEF TypeOK
<1>4. grants[i].scope \in Scopes /\ grants[i].state \in GrantStates
    BY <1>3 DEF Grant
<1>5. ~GrantInvalid(grants[i], t)
    BY <1>1, <1>3 DEF Usable
<1> QED
    BY <1>1, <1>2, <1>3, <1>4, <1>5 DEF GrantInvalid, Scopes, GrantStates

\* The grant a caller acts under.
LEMMA ActedUnder ==
    ASSUME TypeOK, NEW a, NEW t, Matching(a, t) # {}
    PROVE  Preferred(Matching(a, t)) \in Matching(a, t)
<1>1. Matching(a, t) \in SUBSET DOMAIN grants
    BY DEF Matching
<1> QED
    BY <1>1, PreferredExists

\* One more action under grant i.
LEMMA OneMoreUse ==
    ASSUME TypeOK, NEW i, uses' = [uses EXCEPT ![i] = @ + 1]
    PROVE  /\ uses' \in [1..MaxGrants -> Nat]
           /\ \A j \in 1..MaxGrants : uses'[j] = IF j = i THEN uses[j] + 1 ELSE uses[j]
<1>1. uses \in [1..MaxGrants -> Nat]
    BY DEF TypeOK
<1>2. ASSUME NEW j \in 1..MaxGrants
      PROVE  uses'[j] \in Nat /\ uses'[j] = IF j = i THEN uses[j] + 1 ELSE uses[j]
    BY <1>1
<1> QED
    BY <1>1, <1>2

\* Every step keeps the types.
LEMMA TypeKept ==
    ASSUME TypeOK, HandInv, SeenGrantInv, SeenRequestInv, [Next]_vars
    PROVE  TypeOK'
<1>1. RequestsKept /\ GrantsKept
    BY RequestRows, GrantRows
<1>2. requests' \in Seq(Request) /\ grants' \in Seq(Grant)
    BY <1>1 DEF RequestsKept, GrantsKept
<1>3. DOMAIN requests \subseteq DOMAIN requests' /\ DOMAIN grants \subseteq DOMAIN grants'
    <2>1. Len(requests) \in Nat /\ Len(grants) \in Nat
        BY DEF TypeOK
    <2> QED
        BY <1>1, <2>1 DEF RequestsKept, GrantsKept, TypeOK
<1>4. ASSUME UNCHANGED denials
      PROVE  denials' \in Seq(DOMAIN requests')
    BY <1>3, <1>4, SeqMonotonic DEF TypeOK
<1>5. ASSUME UNCHANGED <<inHand, copy>>
      PROVE  inHand' \in {0} \cup DOMAIN grants' /\ copy' \in Grant \cup {NoCopy}
    BY <1>3, <1>5 DEF TypeOK
<1>6. ASSUME NEW i \in DOMAIN grants', grants'[i] \in Grant, Acts(i, grants')
      PROVE  /\ inHand' \in {0} \cup DOMAIN grants'
             /\ copy' \in Grant \cup {NoCopy}
             /\ uses' \in [1..MaxGrants -> Nat]
    <2>1. CASE UNCHANGED <<handVars, uses>>
        BY <2>1, <1>5 DEF handVars, TypeOK
    <2>2. CASE uses' = [uses EXCEPT ![i] = @ + 1] /\ inHand' = i /\ copy' = grants'[i]
        BY <2>2, <1>6, OneMoreUse DEF TypeOK
    <2> QED
        BY <1>6, <2>1, <2>2 DEF Acts
<1>7. ASSUME NEW a \in Actions, NEW t \in TaskIds, Ask(a, t)
      PROVE  TypeOK'
    BY <1>7, <1>2, <1>4, <1>5 DEF Ask, TypeOK, handVars, taskVars
<1>8. ASSUME NEW a \in Actions, NEW t \in TaskIds, ActUnderGrant(a, t)
      PROVE  TypeOK'
    <2> DEFINE i == Preferred(Matching(a, t))
    <2>1. i \in DOMAIN grants' /\ grants'[i] \in Grant
        BY <1>8, <1>3, ActedUnder, MatchingLive DEF ActUnderGrant, Allowed
    <2>2. Acts(i, grants')
        BY <1>8 DEF ActUnderGrant, Allowed
    <2> HIDE DEF i
    <2> QED
        BY <1>8, <1>2, <1>4, <1>6, <2>1, <2>2 DEF ActUnderGrant, Allowed, TypeOK, taskVars
<1>9. ASSUME NEW i \in DOMAIN requests, NEW t \in TaskIds, RefuseAnswer(i, t)
      PROVE  TypeOK'
    BY <1>9, <1>2, <1>4, <1>5 DEF RefuseAnswer, TypeOK, handVars, taskVars
<1>10. ASSUME NEW i \in DOMAIN requests, NEW t \in TaskIds, Deny(i, t)
       PROVE  TypeOK'
    <2>1. denials' \in Seq(DOMAIN requests)
        <3>1. Without(denials, i) \in Seq(DOMAIN requests)
            BY WithoutTyped DEF TypeOK
        <3> QED
            BY <1>10, <3>1, AppendProperties DEF Deny
    <2>2. denials' \in Seq(DOMAIN requests')
        BY <2>1, <1>3, SeqMonotonic
    <2> QED
        BY <1>10, <1>2, <1>5, <2>2 DEF Deny, TypeOK, handVars, taskVars
<1>11. ASSUME NEW i \in DOMAIN requests, NEW t \in TaskIds, NEW scope \in Scopes,
              Approve(i, t, scope)
       PROVE  TypeOK'
    <2>1. Len(grants') \in DOMAIN grants' /\ grants'[Len(grants')] \in Grant
        <3>1. Len(grants') = Len(grants) + 1 /\ grants'[Len(grants')] \in Grant
            BY <1>11, GrantAdded, NewGrantTyped DEF Approve
        <3>2. Len(grants) \in Nat
            BY DEF TypeOK
        <3> QED
            BY <1>2, <3>1, <3>2
    <2>2. Acts(Len(grants'), grants')
        BY <1>11 DEF Approve
    <2> QED
        BY <1>11, <1>2, <1>4, <1>6, <2>1, <2>2 DEF Approve, TypeOK, taskVars
<1>12. ASSUME NEW i \in DOMAIN requests, NEW t \in TaskIds, NEW scope \in Scopes,
              CrashBetweenSaves(i, t, scope)
       PROVE  TypeOK'
    BY <1>12, <1>2, <1>4, <1>5 DEF CrashBetweenSaves, TypeOK, handVars, taskVars
<1>13. CASE Mark
    BY <1>13, <1>2, <1>4 DEF Mark, TypeOK, taskVars
<1>14. ASSUME NEW a \in Actions, Revoke(a)
       PROVE  TypeOK'
    BY <1>14, <1>2, <1>4, <1>5 DEF Revoke, TypeOK, handVars, taskVars
<1>15. CASE ThreadReads
    <2>1. seen' \in SeenRow
        <3>1. ASSUME NEW i \in DOMAIN grants,
                     seen' = [table |-> "grants", index |-> i, row |-> grants[i]]
              PROVE  seen' \in SeenRow
            <4>1. i \in Nat /\ grants[i] \in Grant
                BY DEF TypeOK
            <4> QED
                BY <3>1, <4>1 DEF SeenRow
        <3>2. ASSUME NEW i \in DOMAIN requests,
                     seen' = [table |-> "requests", index |-> i, row |-> requests[i]]
              PROVE  seen' \in SeenRow
            <4>1. i \in Nat /\ requests[i] \in Request
                BY DEF TypeOK
            <4> QED
                BY <3>2, <4>1 DEF SeenRow
        <3> QED
            BY <1>15, <3>1, <3>2 DEF ThreadReads
    <2> QED
        BY <1>15, <1>2, <1>4, <1>5, <2>1 DEF ThreadReads, TypeOK, handVars, taskVars
<1>16. CASE ThreadWrites
    BY <1>16, <1>2, <1>4, <1>5 DEF ThreadWrites, TypeOK, handVars, taskVars
<1>17. CASE Restart
    BY <1>17, <1>2, <1>4 DEF Restart, TypeOK, taskVars
<1>18. ASSUME NEW i \in DOMAIN requests, LapseRequest(i)
       PROVE  TypeOK'
    BY <1>18, <1>2, <1>4, <1>5 DEF LapseRequest, TypeOK, handVars, taskVars
<1>19. ASSUME NEW i \in DOMAIN grants, LapseGrant(i)
       PROVE  TypeOK'
    BY <1>19, <1>2, <1>4, <1>5 DEF LapseGrant, TypeOK, handVars, taskVars
<1>20. ASSUME NEW t \in Tasks, TaskChanges(t)
       PROVE  TypeOK'
    BY <1>20, <1>2, <1>4, <1>5 DEF TaskChanges, TypeOK, handVars
<1>21. CASE UNCHANGED vars
    BY <1>21, <1>2, <1>4, <1>5 DEF vars, TypeOK, handVars, taskVars
<1> QED
    BY <1>7, <1>8, <1>9, <1>10, <1>11, <1>12, <1>13, <1>14, <1>15, <1>16, <1>17, <1>18, <1>19,
       <1>20, <1>21
    DEF Next, Answer

\* A caller's copy stays a version of its row, and the row's use on record.
LEMMA HandKept ==
    ASSUME TrustInv, [Next]_vars
    PROVE  HandInv'
<1> USE DEF TrustInv
<1>1. GrantsKept /\ TypeOK'
    BY GrantRows, TypeKept
<1>2. CASE inHand' = 0
    BY <1>2 DEF HandInv
<1>3. ASSUME NEW i \in DOMAIN grants', grants'[i] \in Grant, grants'[i].state = "approved",
             grants'[i].scope # "task" => grants'[i].runtime = runtime,
             i \in 1..MaxGrants, UNCHANGED runtime, inHand = 0, Acts(i, grants')
      PROVE  HandInv'
    <2>1. CASE UNCHANGED <<handVars, uses>>
        BY <2>1, <1>2, <1>3 DEF handVars
    <2>2. CASE uses' = [uses EXCEPT ![i] = @ + 1] /\ inHand' = i /\ copy' = grants'[i]
        <3>1. uses'[i] > 0
            BY <2>2, <1>3, OneMoreUse DEF TypeOK
        <3> QED
            BY <2>2, <1>3, <3>1 DEF HandInv, SameGrant
    <2> QED
        BY <1>3, <2>1, <2>2 DEF Acts
<1>4. ASSUME UNCHANGED <<inHand, copy, runtime, uses>>, inHand # 0,
             \/ grants'[inHand].state = grants[inHand].state
             \/ copy.scope = "session" => grants'[inHand].lapsed
      PROVE  HandInv'
    <2>1. inHand \in DOMAIN grants
        BY <1>4 DEF TypeOK
    <2>2. /\ SameGrant(grants'[inHand], grants[inHand])
          /\ grants[inHand].scope # "task" /\ grants[inHand].lapsed => grants'[inHand].lapsed
        BY <1>1, <2>1 DEF GrantsKept
    <2> QED
        BY <1>4, <2>2 DEF HandInv, SameGrant
<1>5. ASSUME UNCHANGED <<inHand, copy, runtime, uses, grants>>
      PROVE  HandInv'
    BY <1>2, <1>4, <1>5
<1>6. ASSUME NEW a \in Actions, NEW t \in TaskIds, ActUnderGrant(a, t)
      PROVE  HandInv'
    <2> DEFINE i == Preferred(Matching(a, t))
    <2>1. /\ i \in DOMAIN grants /\ grants'[i] \in Grant /\ grants'[i].state = "approved"
          /\ grants'[i].scope # "task" => grants'[i].runtime = runtime
        BY <1>6, ActedUnder, MatchingLive DEF ActUnderGrant, Allowed
    <2>2. i \in DOMAIN grants' /\ i \in 1..MaxGrants
        <3>1. Len(grants) \in Nat /\ Len(grants) <= MaxGrants /\ MaxGrants \in Nat
            BY TrustAssumption DEF TypeOK, UseInv
        <3>2. Len(grants') \in Nat /\ Len(grants) <= Len(grants') /\ DOMAIN grants' = 1..Len(grants')
            BY <1>1 DEF GrantsKept
        <3>3. i \in 1..Len(grants)
            BY <2>1 DEF TypeOK
        <3> HIDE DEF i
        <3> QED
            BY <3>1, <3>2, <3>3
    <2>3. Acts(i, grants') /\ UNCHANGED runtime /\ inHand = 0
        BY <1>6 DEF ActUnderGrant, Allowed, Idle
    <2> HIDE DEF i
    <2> QED
        BY <1>3, <2>1, <2>2, <2>3
<1>7. ASSUME NEW i \in DOMAIN requests, NEW t \in TaskIds, NEW scope \in Scopes,
             Approve(i, t, scope)
      PROVE  HandInv'
    <2> DEFINE k == Len(grants')
    <2>1. k = Len(grants) + 1 /\ grants'[k] = NewGrant(i, scope)
        BY <1>7, GrantAdded, NewGrantTyped DEF Approve
    <2>2. Len(grants) \in Nat /\ Len(grants) < MaxGrants
        BY <1>7 DEF TypeOK, Approve
    <2>3. k \in DOMAIN grants' /\ k \in 1..MaxGrants
        BY <1>1, <2>1, <2>2, TrustAssumption DEF GrantsKept
    <2>4. Acts(k, grants') /\ UNCHANGED runtime /\ inHand = 0
        BY <1>7 DEF Approve, Idle
    <2> HIDE DEF k
    <2> QED
        BY <1>3, <2>1, <2>3, <2>4, NewGrantTyped
<1>8. CASE ThreadWrites
    <2>1. CASE UNCHANGED grants
        BY <1>5, <1>8, <2>1 DEF ThreadWrites, handVars
    <2>2. CASE ~UNCHANGED grants /\ inHand # 0
        <3>1. PICK g \in JudgedGrant(Aged(seen.row, grants[seen.index])) :
                  seen.table = "grants" /\ grants' = [grants EXCEPT ![seen.index] = g]
            BY <1>8, <2>2 DEF ThreadWrites
        <3>2. /\ seen.index \in DOMAIN grants
              /\ SameGrant(g, grants[seen.index])
              /\ g.scope = "session" => g.lapsed \/ g.runtime # runtime
            BY <3>1, JudgedTyped
        <3>3. inHand \in DOMAIN grants
            BY <2>2 DEF TypeOK
        <3>4. CASE inHand # seen.index
            <4>1. grants'[inHand] = grants[inHand]
                BY <3>1, <3>3, <3>4
            <4> QED
                BY <1>4, <1>8, <2>2, <4>1 DEF ThreadWrites, handVars
        <3>5. CASE inHand = seen.index
            <4>1. grants'[inHand] = g
                BY <3>1, <3>3, <3>5
            <4>2. copy.scope = "session" => g.lapsed
                BY <2>2, <3>2, <3>5 DEF HandInv, SameGrant
            <4> QED
                BY <1>4, <1>8, <2>2, <4>1, <4>2 DEF ThreadWrites, handVars
        <3> QED
            BY <3>4, <3>5
    <2> QED
        BY <1>2, <1>8, <2>1, <2>2 DEF ThreadWrites, handVars
<1>9. ASSUME NEW i \in DOMAIN grants, LapseGrant(i)
      PROVE  HandInv'
    <2>1. CASE inHand # 0
        <3>1. inHand \in DOMAIN grants /\ \A j \in DOMAIN grants : grants[j] \in Grant
            BY <2>1 DEF TypeOK
        <3>2. grants'[inHand].state = grants[inHand].state
            BY <1>9, <3>1 DEF LapseGrant, Grant
        <3> QED
            BY <1>4, <1>9, <2>1, <3>2 DEF LapseGrant, handVars
    <2> QED
        BY <1>2, <1>9, <2>1 DEF LapseGrant, handVars
<1>10. CASE Mark \/ Restart
    BY <1>2, <1>10 DEF Mark, Restart
<1>11. ASSUME Idle, UNCHANGED inHand
       PROVE  HandInv'
    BY <1>2, <1>11 DEF Idle
<1> QED
    BY <1>5, <1>6, <1>7, <1>8, <1>9, <1>10, <1>11
    DEF Next, Answer, Ask, RefuseAnswer, Deny, CrashBetweenSaves, Revoke, ThreadReads,
        LapseRequest, TaskChanges, vars, handVars

\* What a status thread has read stays an earlier version of its row.
LEMMA SeenKept ==
    ASSUME TrustInv, [Next]_vars
    PROVE  SeenGrantInv' /\ SeenRequestInv'
<1> USE DEF TrustInv
<1>1. GrantsKept /\ RequestsKept
    BY GrantRows, RequestRows
<1>2. CASE seen' = NoRow
    BY <1>2 DEF NoRow, SeenGrantInv, SeenRequestInv
<1>3. CASE ThreadReads
    <2>1. UNCHANGED <<grants, requests>>
        BY <1>3 DEF ThreadReads
    <2>2. ASSUME NEW i \in DOMAIN grants, grants[i].state = "approved",
                 seen' = [table |-> "grants", index |-> i, row |-> grants[i]]
          PROVE  SeenGrantInv' /\ SeenRequestInv'
        BY <2>1, <2>2 DEF TypeOK, SeenGrantInv, SeenRequestInv, SameGrant
    <2>3. ASSUME NEW i \in DOMAIN requests, requests[i].state = "pending",
                 seen' = [table |-> "requests", index |-> i, row |-> requests[i]]
          PROVE  SeenGrantInv' /\ SeenRequestInv'
        BY <2>1, <2>3 DEF TypeOK, SeenGrantInv, SeenRequestInv, SameRequest
    <2> QED
        BY <1>3, <2>2, <2>3 DEF ThreadReads
<1>4. CASE UNCHANGED seen
    <2>1. Len(requests) \in Nat /\ Len(grants) \in Nat
        BY DEF TypeOK
    <2>2. DOMAIN requests \subseteq DOMAIN requests' /\ DOMAIN grants \subseteq DOMAIN grants'
        BY <1>1, <2>1 DEF RequestsKept, GrantsKept, TypeOK
    <2>3. SeenGrantInv'
        BY <1>1, <1>4, <2>2 DEF SeenGrantInv, GrantsKept, SameGrant
    <2>4. SeenRequestInv'
        BY <1>1, <1>4, <2>2 DEF SeenRequestInv, RequestsKept, SameRequest
    <2> QED
        BY <2>3, <2>4
<1> QED
    BY <1>2, <1>3, <1>4
    DEF Next, Answer, Ask, ActUnderGrant, Allowed, RefuseAnswer, Deny, Approve, CrashBetweenSaves,
        Mark, Revoke, ThreadWrites, Restart, LapseRequest, LapseGrant, TaskChanges, vars

\* Only an answer adds a grant.
LEMMA TableLength ==
    ASSUME TrustInv, [Next]_vars
    PROVE  \/ Len(grants') = Len(grants)
           \/ \E k \in DOMAIN requests, t \in TaskIds, scope \in Scopes : Approve(k, t, scope)
<1> USE DEF TrustInv
<1>1. CASE grants' = FreshGrants
    BY <1>1, FreshGrantsTyped
<1>2. CASE Mark
    BY <1>2, MarkedTyped, OneRow DEF Mark, TypeOK
<1>3. ASSUME NEW a \in Actions, Revoke(a)
      PROVE  Len(grants') = Len(grants)
    <2>1. grants' \in [DOMAIN grants -> {grants'[i] : i \in DOMAIN grants}]
        BY <1>3 DEF Revoke
    <2> QED
        BY <2>1, SameLength DEF TypeOK
<1>4. CASE ThreadWrites
    <2>1. CASE UNCHANGED grants
        BY <2>1
    <2>2. CASE ~UNCHANGED grants
        <3>1. PICK g \in JudgedGrant(Aged(seen.row, grants[seen.index])) :
                  seen.table = "grants" /\ grants' = [grants EXCEPT ![seen.index] = g]
            BY <1>4, <2>2 DEF ThreadWrites
        <3> QED
            BY <3>1, JudgedTyped, OneRow DEF TypeOK
    <2> QED
        BY <2>1, <2>2
<1>5. ASSUME NEW i \in DOMAIN grants, LapseGrant(i)
      PROVE  Len(grants') = Len(grants)
    <2>1. grants[i] \in Grant
        BY DEF TypeOK
    <2>2. [grants[i] EXCEPT !.lapsed = TRUE] \in Grant
        BY <2>1 DEF Grant
    <2>3. grants' = [grants EXCEPT ![i] = [grants[i] EXCEPT !.lapsed = TRUE]]
        BY <1>5 DEF LapseGrant
    <2> QED
        BY <2>2, <2>3, OneRow DEF TypeOK
<1> QED
    BY <1>1, <1>2, <1>3, <1>4, <1>5
    DEF Next, Answer, Ask, ActUnderGrant, Allowed, RefuseAnswer, Deny, CrashBetweenSaves,
        ThreadReads, Restart, LapseRequest, TaskChanges, vars

\* The request a grant stands on stays on record, and answered.
LEMMA AnswerKept ==
    ASSUME TrustInv, [Next]_vars
    PROVE  AnswerInv'
<1> USE DEF TrustInv
<1>1. GrantsKept /\ RequestsKept
    BY GrantRows, RequestRows
<1>2. Len(requests) \in Nat /\ Len(grants) \in Nat
    BY DEF TypeOK
<1>3. DOMAIN requests \subseteq DOMAIN requests'
    BY <1>1, <1>2 DEF RequestsKept, TypeOK
<1>4. ASSUME NEW i \in DOMAIN grants
      PROVE  /\ grants'[i].request \in DOMAIN requests'
             /\ requests'[grants'[i].request].state # "pending"
    BY <1>1, <1>3, <1>4 DEF AnswerInv, GrantsKept, RequestsKept, SameGrant
<1>5. CASE Len(grants') = Len(grants)
    <2>1. DOMAIN grants' = DOMAIN grants
        BY <1>1, <1>5 DEF TypeOK, GrantsKept
    <2> QED
        BY <1>4, <2>1 DEF AnswerInv
<1>6. ASSUME NEW k \in DOMAIN requests, NEW t \in TaskIds, NEW scope \in Scopes,
             Approve(k, t, scope)
      PROVE  AnswerInv'
    <2>1. grants'[Len(grants')] = NewGrant(k, scope) /\ Len(grants') = Len(grants) + 1
        BY <1>6, GrantAdded, NewGrantTyped DEF Approve
    <2>2. requests'[k].state = "approved"
        <3>1. requests[k] \in Request
            BY DEF TypeOK
        <3> QED
            BY <1>6, <3>1 DEF Approve, Request
    <2>3. DOMAIN grants' = DOMAIN grants \cup {Len(grants')}
        BY <1>1, <1>2, <2>1 DEF GrantsKept, TypeOK
    <2>4. NewGrant(k, scope).request = k
        BY NewGrantTyped
    <2> QED
        BY <1>3, <1>4, <2>1, <2>2, <2>3, <2>4 DEF AnswerInv
<1>7. \/ Len(grants') = Len(grants)
      \/ \E k \in DOMAIN requests, t \in TaskIds, scope \in Scopes : Approve(k, t, scope)
    BY TableLength
<1> QED
    BY <1>5, <1>6, <1>7

\* A ONCE grant is acted on while it has not been, and is spent from then on.
LEMMA UseKept ==
    ASSUME TrustInv, [Next]_vars
    PROVE  UseInv'
<1> USE DEF TrustInv
<1>1. GrantsKept /\ HandInv' /\ TypeOK'
    BY GrantRows, HandKept, TypeKept
<1>2. Len(grants) \in Nat /\ Len(grants') \in Nat /\ Len(grants) <= Len(grants') /\ MaxGrants \in Nat
    BY <1>1, TrustAssumption DEF TypeOK, GrantsKept
<1>3. DOMAIN grants = 1..Len(grants) /\ DOMAIN grants' = 1..Len(grants')
    BY <1>1 DEF TypeOK, GrantsKept
<1>4. runtime \in Nat /\ runtime' \in Nat /\ runtime <= runtime'
    <2>1. runtime' = runtime \/ runtime' = runtime + 1
        BY DEF Next, Answer, Ask, ActUnderGrant, Allowed, RefuseAnswer, Deny, Approve,
               CrashBetweenSaves, Mark, Revoke, ThreadReads, ThreadWrites, Restart, LapseRequest,
               LapseGrant, TaskChanges, vars
    <2> QED
        BY <2>1 DEF TypeOK
<1>5. ASSUME NEW i \in DOMAIN grants
      PROVE  grants'[i].runtime <= runtime'
    <2>1. grants'[i].runtime = grants[i].runtime /\ grants[i] \in Grant
        BY <1>1, <1>5 DEF GrantsKept, SameGrant, TypeOK
    <2>2. grants[i].runtime \in Nat /\ grants[i].runtime <= runtime
        BY <2>1 DEF UseInv, Grant
    <2> QED
        BY <1>4, <2>1, <2>2
\* A row whose uses stay the same.
<1>6. ASSUME NEW i \in DOMAIN grants, uses'[i] = uses[i],
             inHand = i => inHand' = i \/ grants'[i].state # "approved" \/ runtime' # runtime
      PROVE  grants'[i].scope = "once" => uses'[i] = 0 \/ (uses'[i] = 1 /\ Spent(i)')
    <2>1. SUFFICES ASSUME grants[i].scope = "once", uses[i] = 1, Spent(i)
                   PROVE  Spent(i)'
        BY <1>1, <1>6 DEF UseInv, GrantsKept, SameGrant
    <2>2. grants'[i].runtime = grants[i].runtime /\ grants[i] \in Grant
        BY <1>1 DEF GrantsKept, SameGrant, TypeOK
    <2>3. grants[i].runtime \in Nat /\ grants[i].runtime <= runtime
        BY <2>2 DEF Grant, UseInv
    <2>4. CASE runtime' # runtime
        BY <1>4, <2>2, <2>3, <2>4 DEF Spent
    <2>5. CASE runtime' = runtime /\ inHand = i
        BY <1>6, <2>5 DEF Spent
    <2>6. CASE runtime' = runtime /\ inHand # i
        BY <1>1, <2>1, <2>2, <2>6 DEF Spent, GrantsKept
    <2> QED
        BY <2>4, <2>5, <2>6
<1>7. ASSUME UNCHANGED uses, Len(grants') = Len(grants),
             \A i \in DOMAIN grants :
                 inHand = i => inHand' = i \/ grants'[i].state # "approved"
                                           \/ runtime' # runtime \/ grants'[i].scope # "once"
      PROVE  UseInv'
    <2>1. \A i \in DOMAIN grants :
              grants'[i].scope = "once" => uses'[i] = 0 \/ (uses'[i] = 1 /\ Spent(i)')
        BY <1>6, <1>7
    <2> QED
        BY <1>2, <1>3, <1>5, <1>7, <2>1 DEF UseInv
<1>8. ASSUME NEW a \in Actions, NEW t \in TaskIds, ActUnderGrant(a, t)
      PROVE  UseInv'
    <2> DEFINE i == Preferred(Matching(a, t))
    <2>1. inHand = 0 /\ grants' = FreshGrants /\ Acts(i, FreshGrants)
        BY <1>8 DEF ActUnderGrant, Allowed, Idle
    <2>2. /\ i \in DOMAIN grants /\ grants[i].state = "approved"
          /\ grants[i].scope # "task" => grants[i].runtime = runtime
          /\ grants[i].scope = "once" => ~grants[i].used
        BY <1>8, ActedUnder, MatchingLive DEF ActUnderGrant, Allowed
    <2> HIDE DEF i
    <2>3. Len(grants') = Len(grants)
        BY <2>1, FreshGrantsTyped
    <2>4. CASE UNCHANGED uses
        BY <1>3, <1>7, <2>1, <2>3, <2>4
    <2>5. CASE uses' = [uses EXCEPT ![i] = @ + 1] /\ inHand' = i
        <3>1. \A j \in 1..MaxGrants : uses'[j] = IF j = i THEN uses[j] + 1 ELSE uses[j]
            BY <2>5, OneMoreUse
        <3>2. i \in 1..MaxGrants /\ uses[i] \in Nat
            BY <1>2, <1>3, <2>2 DEF UseInv, TypeOK
        <3>3. grants[i].scope = "once" => uses[i] = 0
            BY <1>3, <2>1, <2>2 DEF UseInv, Spent
        <3>4. ASSUME NEW j \in DOMAIN grants
              PROVE  grants'[j].scope = "once" => uses'[j] = 0 \/ (uses'[j] = 1 /\ Spent(j)')
            <4>1. j \in 1..MaxGrants
                BY <1>2, <1>3 DEF UseInv
            <4>2. CASE j = i
                BY <1>1, <2>5, <3>1, <3>2, <3>3, <4>2 DEF GrantsKept, SameGrant, Spent
            <4>3. CASE j # i
                BY <1>3, <1>6, <2>1, <3>1, <4>1, <4>3
            <4> QED
                BY <4>2, <4>3
        <3> QED
            BY <1>2, <1>3, <1>5, <2>2, <2>3, <3>1, <3>4 DEF UseInv
    <2> QED
        BY <2>1, <2>4, <2>5 DEF Acts
<1>9. ASSUME NEW k \in DOMAIN requests, NEW t \in TaskIds, NEW scope \in Scopes,
             Approve(k, t, scope)
      PROVE  UseInv'
    <2> PICK i \in Nat : i = Len(grants')
        BY <1>2
    <2>1. i = Len(grants) + 1 /\ grants'[i] = NewGrant(k, scope)
        BY <1>9, GrantAdded, NewGrantTyped DEF Approve
    <2>2. Len(grants) < MaxGrants /\ inHand = 0 /\ Acts(i, grants') /\ runtime' = runtime
        BY <1>9 DEF Approve, Idle
    <2>3. grants'[i].runtime = runtime
        BY <2>1, NewGrantTyped
    <2>4. i \in 1..MaxGrants /\ i \notin DOMAIN grants
        BY <1>2, <1>3, <2>1, <2>2
    <2>5. uses[i] = 0
        BY <2>4 DEF UseInv
    <2>6. \/ UNCHANGED uses
          \/ inHand' = i /\ uses'[i] = 1 /\ \A j \in 1..MaxGrants : j # i => uses'[j] = uses[j]
        <3>1. CASE UNCHANGED uses
            BY <3>1
        <3>2. CASE uses' = [uses EXCEPT ![i] = @ + 1] /\ inHand' = i
            <4>1. \A j \in 1..MaxGrants : uses'[j] = IF j = i THEN uses[j] + 1 ELSE uses[j]
                BY <3>2, OneMoreUse
            <4>2. uses'[i] = 1
                BY <2>4, <2>5, <4>1
            <4> QED
                BY <3>2, <4>1, <4>2
        <3> QED
            BY <2>2, <3>1, <3>2 DEF Acts
    <2>7. \A j \in 1..MaxGrants : j # i => uses'[j] = uses[j]
        BY <2>6
    <2>8. ASSUME NEW j \in DOMAIN grants
          PROVE  grants'[j].scope = "once" => uses'[j] = 0 \/ (uses'[j] = 1 /\ Spent(j)')
        <3>1. j # i /\ j \in 1..MaxGrants /\ j # 0
            BY <1>2, <1>3, <2>1, <2>2
        <3> QED
            BY <1>6, <2>2, <2>7, <3>1
    <2>9. uses'[i] = 0 \/ (uses'[i] = 1 /\ Spent(i)')
        BY <2>5, <2>6 DEF Spent
    <2>10. DOMAIN grants' = DOMAIN grants \cup {i} /\ Len(grants') <= MaxGrants
        BY <1>2, <1>3, <2>1, <2>2
    <2>11. runtime' \in Nat
        BY <1>4
    <2> QED
        BY <1>5, <2>2, <2>3, <2>7, <2>8, <2>9, <2>10, <2>11 DEF UseInv
<1>10. CASE Mark
    <2>1. /\ inHand \in DOMAIN grants
          /\ copy.scope = grants[inHand].scope
          /\ copy.scope = "once" => MarkedCopy.state # "approved"
        BY <1>10, MarkedTyped DEF Mark, HandInv, SameGrant, Idle
    <2>2. grants' = [grants EXCEPT ![inHand] = MarkedCopy] /\ UNCHANGED uses
        BY <1>10 DEF Mark
    <2>3. Len(grants') = Len(grants)
        BY <1>10, MarkedTyped, <2>2, OneRow DEF TypeOK, Mark
    <2>4. grants'[inHand].state # "approved" \/ grants'[inHand].scope # "once"
        BY <1>1, <2>1, <2>2 DEF GrantsKept, SameGrant
    <2> QED
        BY <1>7, <2>2, <2>3, <2>4
<1>11. CASE Restart
    <2>1. UNCHANGED <<grants, uses>> /\ runtime' # runtime
        BY <1>11 DEF Restart, TypeOK
    <2> QED
        BY <1>7, <2>1
<1>12. ASSUME UNCHANGED <<uses, inHand>>, Len(grants') = Len(grants)
       PROVE  UseInv'
    BY <1>7, <1>12
<1>13. \/ Len(grants') = Len(grants)
       \/ \E k \in DOMAIN requests, t \in TaskIds, scope \in Scopes : Approve(k, t, scope)
    BY TableLength
<1> QED
    BY <1>8, <1>9, <1>10, <1>11, <1>12, <1>13
    DEF Next, Answer, Ask, RefuseAnswer, Deny, CrashBetweenSaves, Revoke, ThreadReads,
        ThreadWrites, LapseRequest, LapseGrant, TaskChanges, vars, handVars

\* A new prompt is made only where none is pending after the stale ones expired.
LEMMA PromptKept ==
    ASSUME TrustInv, [Next]_vars
    PROVE  PromptInv'
<1> USE DEF TrustInv
<1>1. RequestsKept
    BY RequestRows
<1>2. Len(requests) \in Nat /\ DOMAIN requests = 1..Len(requests)
    BY DEF TypeOK
<1>3. ASSUME Len(requests') = Len(requests)
      PROVE  PromptInv'
    <2>1. DOMAIN requests' = DOMAIN requests
        BY <1>1, <1>3 DEF TypeOK, RequestsKept
    <2> QED
        BY <1>1, <2>1 DEF PromptInv, RequestsKept, SameRequest
<1>4. ASSUME NEW a \in Actions, NEW t \in TaskIds, Ask(a, t), PendingFor(a, t) = {},
             requests' = Append(FreshRequests, [state |-> "pending", action |-> a, task |-> t,
                                                runtime |-> runtime, lapsed |-> FALSE])
      PROVE  PromptInv'
    <2> DEFINE new == [state |-> "pending", action |-> a, task |-> t,
                       runtime |-> runtime, lapsed |-> FALSE]
    <2> PICK k \in Nat : k = Len(requests) + 1
        BY <1>2
    <2>1. new \in Request /\ new.action = a /\ new.task = t
        BY DEF Request, RequestStates, TypeOK
    <2>2. requests' = Append(FreshRequests, new)
        BY <1>4
    <2> HIDE DEF new
    <2>3. /\ requests' \in Seq(Request)
          /\ Len(requests') = k
          /\ requests'[k] = new
          /\ \A i \in DOMAIN requests : requests'[i] = FreshRequests[i]
        BY <2>1, <2>2, FreshRequestsTyped, AppendProperties DEF TypeOK
    <2>4. DOMAIN requests' = DOMAIN requests \cup {k}
        BY <1>2, <2>3
    <2>5. ASSUME NEW i \in DOMAIN requests, requests'[i].state = "pending"
          PROVE  ~ (requests'[i].action = a /\ requests'[i].task = t)
        <3>1. FreshRequests[i].state = "pending" /\ requests'[i] = FreshRequests[i]
            BY <2>3, <2>5
        <3>2. requests'[i].action = requests[i].action /\ requests'[i].task = requests[i].task
            BY <1>1 DEF RequestsKept, SameRequest
        <3> QED
            BY <1>4, <3>1, <3>2 DEF PendingFor
    <2>6. ASSUME NEW i \in DOMAIN requests, NEW j \in DOMAIN requests,
                 requests'[i].state = "pending", requests'[j].state = "pending",
                 requests'[i].action = requests'[j].action, requests'[i].task = requests'[j].task
          PROVE  i = j
        BY <1>1, <2>6 DEF PromptInv, RequestsKept, SameRequest
    <2> QED
        BY <2>1, <2>3, <2>4, <2>5, <2>6 DEF PromptInv
<1>5. ASSUME NEW a \in Actions, NEW t \in TaskIds, Ask(a, t)
      PROVE  PromptInv'
    BY <1>3, <1>4, <1>5, FreshRequestsTyped DEF Ask
<1>6. ASSUME NEW a \in Actions, NEW t \in TaskIds, ActUnderGrant(a, t)
      PROVE  PromptInv'
    BY <1>3, <1>6, FreshRequestsTyped DEF ActUnderGrant, Allowed
<1>7. ASSUME NEW i \in DOMAIN requests, NEW st \in RequestStates,
             requests' = [requests EXCEPT ![i].state = st]
      PROVE  PromptInv'
    <2>1. requests[i] \in Request
        BY DEF TypeOK
    <2>2. [requests[i] EXCEPT !.state = st] \in Request
        BY <2>1 DEF Request
    <2>3. requests' = [requests EXCEPT ![i] = [requests[i] EXCEPT !.state = st]]
        BY <1>7
    <2>4. Len(requests') = Len(requests)
        BY <2>2, <2>3, OneRow DEF TypeOK
    <2> QED
        BY <1>3, <2>4
<1>8. ASSUME NEW i \in DOMAIN requests, NEW t \in TaskIds, Answer(i, t)
      PROVE  PromptInv'
    BY <1>7, <1>8 DEF Answer, RefuseAnswer, Deny, Approve, CrashBetweenSaves, RequestStates
<1>9. CASE ThreadWrites
    <2>1. CASE UNCHANGED requests
        BY <1>3, <2>1
    <2>2. CASE ~UNCHANGED requests
        <3>1. PICK r \in JudgedRequest(Aged(seen.row, requests[seen.index])) :
                  seen.table = "requests" /\ requests' = [requests EXCEPT ![seen.index] = r]
            BY <1>9, <2>2 DEF ThreadWrites
        <3>2. seen.index \in DOMAIN requests /\ seen.row \in Request
            BY <3>1 DEF SeenRequestInv
        <3>3. requests[seen.index] \in Request
            BY <3>2 DEF TypeOK
        <3>4. r \in Request
            BY <3>2, <3>3 DEF JudgedRequest, Aged, Request, RequestStates
        <3> QED
            BY <1>3, <3>1, <3>4, OneRow DEF TypeOK
    <2> QED
        BY <2>1, <2>2
<1>10. ASSUME NEW i \in DOMAIN requests, LapseRequest(i)
       PROVE  PromptInv'
    <2>1. requests[i] \in Request
        BY DEF TypeOK
    <2>2. [requests[i] EXCEPT !.lapsed = TRUE] \in Request
        BY <2>1 DEF Request
    <2>3. requests' = [requests EXCEPT ![i] = [requests[i] EXCEPT !.lapsed = TRUE]]
        BY <1>10 DEF LapseRequest
    <2> QED
        BY <1>3, <2>2, <2>3, OneRow DEF TypeOK
<1>11. CASE UNCHANGED requests
    BY <1>3, <1>11
<1> QED
    BY <1>5, <1>6, <1>8, <1>9, <1>10, <1>11
    DEF Next, Mark, Revoke, ThreadReads, Restart, LapseGrant, TaskChanges, vars

\* The invariant holds of empty tables.
LEMMA TrustInvInit == Init => TrustInv
<1> SUFFICES ASSUME Init PROVE TrustInv
    OBVIOUS
<1>1. requests = <<>> /\ grants = <<>> /\ denials = <<>>
    BY DEF Init
<1>2. DOMAIN requests = {} /\ DOMAIN grants = {}
    BY <1>1
<1>3. TypeOK
    BY <1>1, TrustAssumption DEF Init, TypeOK, NoRow
<1>4. HandInv /\ SeenGrantInv /\ SeenRequestInv
    BY DEF Init, HandInv, SeenGrantInv, SeenRequestInv, NoRow
<1>5. AnswerInv /\ UseInv /\ PromptInv
    BY <1>1, <1>2, TrustAssumption DEF Init, AnswerInv, UseInv, PromptInv
<1> QED
    BY <1>3, <1>4, <1>5 DEF TrustInv

\* Every step keeps the invariant.
LEMMA TrustInvKept == TrustInv /\ [Next]_vars => TrustInv'
<1> SUFFICES ASSUME TrustInv, [Next]_vars PROVE TrustInv'
    OBVIOUS
<1>1. TypeOK'
    BY TypeKept DEF TrustInv
<1> QED
    BY <1>1, HandKept, SeenKept, AnswerKept, UseKept, PromptKept DEF TrustInv

\* The invariant holds in every behaviour of the trust service.
THEOREM TrustInvariant == Spec => []TrustInv
<1> QED
    BY TrustInvInit, TrustInvKept, PTL DEF Spec

-------------------------------------------------------------------------------
(* The theorems.                                                           *)

\* Every variable of the trust service keeps its type.
THEOREM TypeCorrect == Spec => []TypeOK
<1>1. TrustInv => TypeOK
    BY DEF TrustInv
<1> QED
    BY <1>1, TrustInvariant, PTL

\* The operator never faces two prompts for the same action of the same task
\* (evaluate_action looks for a pending request after expiring the stale ones).
THEOREM OnePromptAtATime == Spec => []OnePrompt
<1>1. TrustInv => OnePrompt
    BY DEF TrustInv, PromptInv, OnePrompt
<1> QED
    BY <1>1, TrustInvariant, PTL

\* A grant on record stands on an answer on record, whatever crashed in between
\* (respond_to_request saves the answer first).
THEOREM AnswerOnRecord == Spec => []GrantHasAnswer
<1>1. TrustInv => GrantHasAnswer
    BY DEF TrustInv, AnswerInv, GrantHasAnswer
<1> QED
    BY <1>1, TrustInvariant, PTL

\* At most one action is performed under a ONCE grant, even when the process dies before it is
\* marked, or a status thread saves an older version of the row.
THEOREM OneUsePerOnce == Spec => []OnceUsedOnce
<1>1. TrustInv => OnceUsedOnce
    BY DEF TrustInv, UseInv, OnceUsedOnce
<1> QED
    BY <1>1, TrustInvariant, PTL

\* A grant that has ended, and that nobody has in hand, is never live again.
THEOREM EndedGrantsStayEnded == Spec => EndedStaysEnded
<1>1. TrustInv /\ [Next]_vars =>
          [\A i \in DOMAIN grants :
              (grants[i].state # "approved" /\ i # inHand) => grants'[i].state # "approved"]_vars
    BY GrantRows DEF TrustInv, GrantsKept
<1> QED
    BY <1>1, TrustInvariant, PTL DEF Spec, EndedStaysEnded

\* The steps that count an action.
LEMMA UsesStep ==
    ASSUME TrustInv, [Next]_vars
    PROVE  \/ UNCHANGED uses
           \/ \E i \in 1..MaxGrants :
                  /\ uses' = [uses EXCEPT ![i] = @ + 1]
                  /\ \/ /\ \E a \in Actions, t \in TaskIds : i \in Matching(a, t)
                        /\ inHand = 0
                        /\ grants' = FreshGrants
                     \/ /\ i = Len(grants) + 1
                        /\ \E k \in DOMAIN requests, scope \in Scopes :
                               grants' = Append(grants, NewGrant(k, scope))
<1> USE DEF TrustInv
<1>1. ASSUME NEW a \in Actions, NEW t \in TaskIds, ActUnderGrant(a, t), ~UNCHANGED uses
      PROVE  \E i \in 1..MaxGrants :
                  /\ uses' = [uses EXCEPT ![i] = @ + 1]
                  /\ i \in Matching(a, t)
                  /\ inHand = 0
                  /\ grants' = FreshGrants
    <2> DEFINE i == Preferred(Matching(a, t))
    <2>1. i \in Matching(a, t) /\ i \in DOMAIN grants
        BY <1>1, ActedUnder, MatchingLive DEF ActUnderGrant, Allowed
    <2>2. uses' = [uses EXCEPT ![i] = @ + 1] /\ inHand = 0 /\ grants' = FreshGrants
        BY <1>1 DEF ActUnderGrant, Allowed, Acts, Idle
    <2> HIDE DEF i
    <2>3. i \in 1..MaxGrants
        BY <2>1, TrustAssumption DEF UseInv, TypeOK
    <2> QED
        BY <2>1, <2>2, <2>3
<1>2. ASSUME NEW k \in DOMAIN requests, NEW t \in TaskIds, NEW scope \in Scopes,
             Approve(k, t, scope), ~UNCHANGED uses
      PROVE  /\ Len(grants) + 1 \in 1..MaxGrants
             /\ uses' = [uses EXCEPT ![Len(grants) + 1] = @ + 1]
             /\ grants' = Append(grants, NewGrant(k, scope))
    <2>1. Len(grants') = Len(grants) + 1
        BY <1>2, GrantAdded, NewGrantTyped DEF Approve
    <2>2. Len(grants) \in Nat /\ Len(grants) < MaxGrants
        BY <1>2 DEF Approve, TypeOK
    <2> QED
        BY <1>2, <2>1, <2>2, TrustAssumption DEF Approve, Acts
<1> QED
    BY <1>1, <1>2
    DEF Next, Answer, Ask, RefuseAnswer, Deny, CrashBetweenSaves, Mark, Revoke, ThreadReads,
        ThreadWrites, Restart, LapseRequest, LapseGrant, TaskChanges, vars

\* No action is performed under a grant the database shows as revoked.
THEOREM NoUseAfterRevocation == Spec => RevocationSticks
<1>1. ASSUME TrustInv, [Next]_vars, NEW i \in DOMAIN grants, grants[i].state = "revoked"
      PROVE  uses'[i] = uses[i]
    <2>1. i # Len(grants) + 1 /\ i \in 1..MaxGrants
        BY <1>1, TrustAssumption DEF TrustInv, TypeOK, UseInv
    <2>2. \A a, t : i \notin Matching(a, t)
        BY <1>1, MatchingLive DEF TrustInv
    <2>3. \A k : uses' = [uses EXCEPT ![k] = @ + 1] /\ k # i => uses'[i] = uses[i]
        BY <1>1 DEF TrustInv, TypeOK
    <2> QED
        BY <1>1, <2>1, <2>2, <2>3, UsesStep
<1>2. TrustInv /\ [Next]_vars =>
          [\A i \in DOMAIN grants : grants[i].state = "revoked" => uses'[i] = uses[i]]_vars
    BY <1>1
<1> QED
    BY <1>2, TrustInvariant, PTL DEF Spec, RevocationSticks

-------------------------------------------------------------------------------
(* The refinement of TrustConsent.                                         *)

Consented == [i \in 1..MaxGrants |-> ConsentOf(i)]

\* Uses are only ever added to, and so is the runtime.
LEMMA CountersGrow ==
    ASSUME TrustInv, [Next]_vars
    PROVE  /\ runtime \in Nat /\ runtime' \in Nat /\ runtime <= runtime'
           /\ \A i \in 1..MaxGrants : uses[i] \in Nat /\ uses'[i] \in Nat /\ uses[i] <= uses'[i]
<1>1. runtime' = runtime \/ runtime' = runtime + 1
    BY DEF Next, Answer, Ask, ActUnderGrant, Allowed, RefuseAnswer, Deny, Approve,
           CrashBetweenSaves, Mark, Revoke, ThreadReads, ThreadWrites, Restart, LapseRequest,
           LapseGrant, TaskChanges, vars
<1>2. ASSUME NEW i \in 1..MaxGrants
      PROVE  uses[i] \in Nat /\ uses'[i] \in Nat /\ uses[i] <= uses'[i]
    <2>1. uses[i] \in Nat
        BY DEF TrustInv, TypeOK
    <2>2. CASE UNCHANGED uses
        BY <2>1, <2>2
    <2>3. ASSUME NEW k \in 1..MaxGrants, uses' = [uses EXCEPT ![k] = @ + 1]
          PROVE  uses'[i] \in Nat /\ uses[i] <= uses'[i]
        <3>1. uses'[i] = IF i = k THEN uses[i] + 1 ELSE uses[i]
            BY <2>3, OneMoreUse DEF TrustInv
        <3> QED
            BY <2>1, <3>1
    <2> QED
        BY <2>1, <2>2, <2>3, UsesStep
<1> QED
    BY <1>1, <1>2 DEF TrustInv, TypeOK

\* The rows of grants by position.
LEMMA Positions ==
    ASSUME TrustInv
    PROVE  /\ Len(grants) \in Nat /\ MaxGrants \in Nat /\ Len(grants) <= MaxGrants
           /\ DOMAIN grants = 1..Len(grants)
           /\ DOMAIN grants \subseteq 1..MaxGrants
<1>1. Len(grants) \in Nat /\ MaxGrants \in Nat /\ Len(grants) <= MaxGrants
    BY TrustAssumption DEF TrustInv, TypeOK, UseInv
<1>2. DOMAIN grants = 1..Len(grants)
    BY DEF TrustInv, TypeOK
<1> QED
    BY <1>1, <1>2

\* A ONCE or SESSION grant that is over stays over, even when a caller writes its
\* copy back over a row that a status thread has expired.
LEMMA OverStays ==
    ASSUME TrustInv, [Next]_vars, NEW i \in DOMAIN grants, grants[i].scope # "task", Over(i)
    PROVE  Over(i)'
<1>1. GrantsKept
    BY GrantRows DEF TrustInv
<1>2. /\ grants'[i].scope = grants[i].scope
      /\ grants'[i].runtime = grants[i].runtime
      /\ grants[i].lapsed => grants'[i].lapsed
      /\ i # inHand /\ grants[i].state # "approved" => grants'[i].state # "approved"
    BY <1>1 DEF GrantsKept, SameGrant
<1>3. i \in 1..MaxGrants
    BY Positions
<1>4. grants[i] \in Grant
    BY DEF TrustInv, TypeOK
<1>5. CASE grants[i].lapsed
    BY <1>2, <1>5 DEF Over
<1>6. CASE grants[i].runtime # runtime
    <2>1. grants[i].runtime \in Nat /\ grants[i].runtime <= runtime
        BY <1>4 DEF Grant, TrustInv, UseInv
    <2>2. grants'[i].runtime # runtime'
        BY <1>2, <1>6, <2>1, CountersGrow
    <2> QED
        BY <2>2 DEF Over
<1>7. CASE grants[i].scope = "once" /\ uses[i] > 0
    <2>1. uses'[i] > 0
        BY <1>3, <1>7, CountersGrow
    <2> QED
        BY <1>2, <1>7, <2>1 DEF Over
<1>8. CASE grants[i].state # "approved" /\ i # inHand
    BY <1>2, <1>8 DEF Over
<1>9. CASE grants[i].state # "approved" /\ i = inHand
    <2>1. /\ copy.scope = grants[i].scope
          /\ copy.scope = "session" => grants[i].lapsed
          /\ uses[i] > 0
        <3>1. inHand # 0
            BY <1>3, <1>9
        <3> QED
            BY <1>9, <3>1 DEF TrustInv, HandInv, SameGrant
    <2>2. grants[i].scope = "once" \/ grants[i].scope = "session"
        BY <1>4 DEF Grant, Scopes
    <2> QED
        BY <1>5, <1>7, <2>1, <2>2
<1> QED
    BY <1>5, <1>6, <1>7, <1>8, <1>9 DEF Over

\* A step that adds no grant can only end consents.
LEMMA ConsentsEnd ==
    ASSUME TrustInv, [Next]_vars, Len(grants') = Len(grants)
    PROVE  Consented' = Consent!End({c \in 1..MaxGrants : Consented'[c] = "over"}, Consented)
<1>1. DOMAIN grants' = DOMAIN grants
    <2>1. grants' \in Seq(Grant)
        BY GrantRows DEF TrustInv, GrantsKept
    <2> QED
        BY <2>1, Positions
<1>2. ASSUME NEW c \in 1..MaxGrants
      PROVE  ConsentOf(c)' = IF ConsentOf(c)' = "over" /\ ConsentOf(c) # "none"
                             THEN "over" ELSE ConsentOf(c)
    <2>1. CASE c \notin DOMAIN grants
        BY <1>1, <2>1 DEF ConsentOf
    <2>2. CASE c \in DOMAIN grants /\ grants[c].scope = "task"
        <3>1. grants'[c].scope = "task"
            BY <2>2, GrantRows DEF TrustInv, GrantsKept, SameGrant
        <3> QED
            BY <1>1, <2>2, <3>1 DEF ConsentOf
    <2>3. CASE c \in DOMAIN grants /\ grants[c].scope # "task"
        <3>1. grants'[c].scope = grants[c].scope
            BY <2>3, GrantRows DEF TrustInv, GrantsKept, SameGrant
        <3>2. Over(c) => Over(c)'
            BY <2>3, OverStays
        <3> QED
            BY <1>1, <2>3, <3>1, <3>2 DEF ConsentOf
    <2> QED
        BY <2>1, <2>2, <2>3
<1> QED
    BY <1>2 DEF Consented, Consent!End

\* An action under a grant uses a consent that stands.
LEMMA ConsentUsed ==
    ASSUME TrustInv, [Next]_vars, NEW i \in 1..MaxGrants, inHand = 0, grants' = FreshGrants,
           uses' = [uses EXCEPT ![i] = @ + 1],
           NEW a \in Actions, NEW t \in TaskIds, i \in Matching(a, t)
    PROVE  Consent!Use(i, {c \in 1..MaxGrants : Consented'[c] = "over"})
<1> DEFINE S == {c \in 1..MaxGrants : Consented'[c] = "over"}
<1>1. /\ i \in DOMAIN grants
      /\ grants[i].state = "approved"
      /\ ~grants[i].lapsed
      /\ grants[i].scope # "task" => grants[i].runtime = runtime
      /\ grants[i].scope = "once" => ~grants[i].used
    BY MatchingLive DEF TrustInv
<1>2. Len(grants') = Len(grants)
    BY FreshGrantsTyped DEF TrustInv
<1>3. Consented' = Consent!End(S, Consented)
    BY <1>2, ConsentsEnd
<1>4. i # 0 /\ uses[i] \in Nat
    BY DEF TrustInv, TypeOK
<1>5. grants[i].scope = "once" => uses[i] = 0
    BY <1>1, <1>4 DEF TrustInv, UseInv, Spent
<1>6. Consented[i] = IF grants[i].scope = "once" THEN "once" ELSE "standing"
    BY <1>1, <1>5 DEF Consented, ConsentOf, Over
<1>7. Consented[i] = "once" => i \in S
    <2> SUFFICES ASSUME grants[i].scope = "once" PROVE Consented'[i] = "over"
        BY <1>6
    <2>1. uses'[i] = uses[i] + 1
        BY OneMoreUse DEF TrustInv
    <2>2. i \in DOMAIN grants' /\ grants'[i].scope = "once"
        BY <1>1, FreshGrantsTyped DEF TrustInv, TypeOK, SameGrant
    <2> QED
        BY <1>4, <2>1, <2>2 DEF Consented, ConsentOf, Over
<1>8. (IF Consented[i] = "once" THEN S \cup {i} ELSE S) = S
    BY <1>7
<1> HIDE DEF S
<1>9. Consented[i] \in {"once", "standing"}
    BY <1>6
<1>10. Consented' = Consent!End(IF Consented[i] = "once" THEN S \cup {i} ELSE S, Consented)
    BY <1>3, <1>8
<1> QED
    BY <1>9, <1>10 DEF Consent!Use, Consented, S

Kind(scope) == IF scope = "once" THEN "once" ELSE "standing"

\* An answer gives a consent, and may use it at once.
LEMMA ConsentGiven ==
    ASSUME TrustInv, [Next]_vars, NEW k \in DOMAIN requests, NEW t \in TaskIds,
           NEW scope \in Scopes, Approve(k, t, scope)
    PROVE  \E c \in 1..MaxGrants :
               Consent!Give(c, Kind(scope)) \/ Consent!GiveAndUse(c, Kind(scope))
<1> PICK c \in Nat : c = Len(grants) + 1
    BY Positions
<1>1. /\ Len(grants') = c
      /\ grants'[c] = NewGrant(k, scope)
      /\ \A i \in DOMAIN grants : grants'[i] = grants[i]
    BY GrantAdded, NewGrantTyped DEF Approve, TrustInv
<1>2. c \in 1..MaxGrants /\ c \notin DOMAIN grants
    BY Positions DEF Approve
<1>3. DOMAIN grants' = DOMAIN grants \cup {c}
    <2>1. grants' \in Seq(Grant)
        BY GrantRows DEF TrustInv, GrantsKept
    <2> QED
        BY <1>1, <2>1, Positions
<1>4. runtime' = runtime
    BY DEF Approve
<1>5. /\ grants'[c].scope = scope /\ grants'[c].state = "approved"
      /\ ~grants'[c].lapsed /\ grants'[c].runtime = runtime
    BY <1>1, NewGrantTyped DEF TrustInv
<1>6. uses[c] = 0 /\ \A i \in 1..MaxGrants : uses[i] \in Nat
    BY <1>2 DEF TrustInv, UseInv, TypeOK
<1>7. Consented[c] = "none"
    <2>1. ConsentOf(c) = "none"
        BY <1>2 DEF ConsentOf
    <2> QED
        BY <1>2, <2>1 DEF Consented
<1>8. ASSUME NEW i \in 1..MaxGrants, i # c, uses'[i] = uses[i]
      PROVE  Consented'[i] = Consented[i]
    <2>1. CASE i \notin DOMAIN grants
        <3>1. ConsentOf(i) = "none" /\ ConsentOf(i)' = "none"
            BY <1>3, <1>8, <2>1 DEF ConsentOf
        <3> QED
            BY <3>1 DEF Consented
    <2>2. CASE i \in DOMAIN grants
        <3>1. grants'[i] = grants[i] /\ i \in DOMAIN grants'
            BY <1>1, <1>3, <2>2
        <3>2. Over(i)' <=> Over(i)
            BY <1>4, <1>8, <3>1 DEF Over
        <3>3. ConsentOf(i)' = ConsentOf(i)
            BY <2>2, <3>1, <3>2 DEF ConsentOf
        <3> QED
            BY <3>3 DEF Consented
    <2> QED
        BY <2>1, <2>2
<1>9. CASE UNCHANGED uses
    <2>1. Consented'[c] = Kind(scope)
        BY <1>2, <1>3, <1>4, <1>5, <1>6, <1>9 DEF Consented, ConsentOf, Over, Kind
    <2>2. Consented' = [Consented EXCEPT ![c] = Kind(scope)]
        BY <1>2, <1>8, <1>9, <2>1 DEF Consented
    <2>3. Consent!Give(c, Kind(scope))
        BY <1>7, <1>9, <2>2 DEF Consent!Give, Consented
    <2> QED
        BY <1>2, <2>3
<1>10. CASE uses' = [uses EXCEPT ![c] = @ + 1]
    <2>1. \A i \in 1..MaxGrants : uses'[i] = IF i = c THEN uses[i] + 1 ELSE uses[i]
        BY <1>10, OneMoreUse DEF TrustInv
    <2>2. uses'[c] = 1
        BY <1>2, <1>6, <2>1
    <2>3. Consented'[c] = IF Kind(scope) = "once" THEN "over" ELSE Kind(scope)
        BY <1>2, <1>3, <1>4, <1>5, <2>2 DEF Consented, ConsentOf, Over, Kind
    <2>4. Consented' = [Consented EXCEPT ![c] =
                           IF Kind(scope) = "once" THEN "over" ELSE Kind(scope)]
        BY <1>2, <1>8, <2>1, <2>3 DEF Consented
    <2>5. Consent!GiveAndUse(c, Kind(scope))
        BY <1>7, <1>10, <2>4 DEF Consent!GiveAndUse, Consented
    <2> QED
        BY <1>2, <2>5
<1> QED
    <2>1. Acts(c, grants')
        BY <1>1 DEF Approve
    <2> QED
        BY <1>9, <1>10, <2>1 DEF Acts

\* Every step of the service is a step of TrustConsent.
LEMMA ConsentStep ==
    ASSUME TrustInv, [Next]_vars
    PROVE  Consent!Next
<1>1. ASSUME NEW k \in DOMAIN requests, NEW t \in TaskIds, NEW scope \in Scopes,
             Approve(k, t, scope)
      PROVE  Consent!Next
    BY <1>1, ConsentGiven DEF Consent!Next, Kind
<1>2. CASE Len(grants') = Len(grants) /\ UNCHANGED uses
    <2>1. Consent!Lapse({c \in 1..MaxGrants : Consented'[c] = "over"})
        BY <1>2, ConsentsEnd DEF Consent!Lapse, Consented
    <2> QED
        BY <2>1 DEF Consent!Next
<1>3. CASE Len(grants') = Len(grants) /\ ~UNCHANGED uses
    <2>1. \A k, scope : grants' # Append(grants, NewGrant(k, scope))
                          \/ k \notin DOMAIN requests \/ scope \notin Scopes
        BY <1>3, Positions, GrantAdded, NewGrantTyped DEF TrustInv
    <2>2. PICK i \in 1..MaxGrants :
              /\ uses' = [uses EXCEPT ![i] = @ + 1]
              /\ inHand = 0 /\ grants' = FreshGrants
              /\ \E a \in Actions, t \in TaskIds : i \in Matching(a, t)
        BY <1>3, <2>1, UsesStep
    <2>3. Consent!Use(i, {c \in 1..MaxGrants : Consented'[c] = "over"})
        BY <2>2, ConsentUsed
    <2> QED
        BY <2>3 DEF Consent!Next
<1> QED
    BY <1>1, <1>2, <1>3, TableLength

\* The trust service implements consent as it was meant: an answer gives it, a
\* "once" covers one action, and what is over stays over.
THEOREM ConsentImplemented == Spec => ImplementsConsent
<1>1. Init => Consent!Init
    BY DEF Init, Consent!Init, ConsentOf
<1>2. TrustInv /\ [Next]_vars => [Consent!Next]_(Consent!vars)
    BY ConsentStep
<1> QED
    BY <1>1, <1>2, TrustInvariant, PTL DEF Spec, ImplementsConsent, Consent!Spec
===============================================================================
