-------------------------- MODULE DiscordRelayProofs --------------------------
(***************************************************************************)
(* Theorems about the relay of messages, for every set of destinations and *)
(* payloads and every bound.  The relay is one caller of the trust         *)
(* service: each of its steps is a step of TrustService or leaves the      *)
(* tables alone, so all that is proved of TrustService holds here.  What   *)
(* is proved below is what the relay adds by how it calls.                 *)
(***************************************************************************)
EXTENDS DiscordRelay, TrustServiceProofs

-------------------------------------------------------------------------------
(* The inductive invariant.                                                *)

\* A request that an answer may still decide: pending, or denied and counting.
Open(r) ==
    /\ requests[r].state \in {"pending", "denied"}
    /\ ~requests[r].lapsed
    /\ requests[r].runtime = runtime

\* A ONCE grant that still allows an action.
Live(i) ==
    /\ grants[i].state = "approved"
    /\ ~grants[i].lapsed
    /\ ~grants[i].used
    /\ grants[i].runtime = runtime

\* The relay grants ONCE, and asks for no task.
RelayRows ==
    /\ \A i \in DOMAIN grants : grants[i].scope = "once"
    /\ \A r \in DOMAIN requests : requests[r].task = NoTask /\ requests[r].runtime <= runtime

\* A grant came from one approval, and its request was not decided again since.
GrantsAnswered ==
    /\ \A i \in DOMAIN grants : requests[grants[i].request].state \notin {"pending", "denied"}
    /\ \A i, j \in DOMAIN grants : grants[i].request = grants[j].request => i = j

\* One request for a destination is open at most, and no grant for it is live then.
OpenInv ==
    /\ \A r, q \in DOMAIN requests :
           Open(r) /\ Open(q) /\ requests[r].action = requests[q].action => r = q
    /\ \A r \in DOMAIN requests, i \in DOMAIN grants :
           Open(r) /\ Live(i) => grants[i].action # requests[r].action

\* Each denial has one place in the order, and only the last for a destination is open.
DenialsInv ==
    /\ \A k, l \in DOMAIN denials : denials[k] = denials[l] => k = l
    /\ \A r \in DOMAIN requests :
           requests[r].state = "denied" => \E k \in DOMAIN denials : denials[k] = r
    /\ \A k, l \in DOMAIN denials :
           (/\ k < l
            /\ requests[denials[k]].action = requests[denials[l]].action
            /\ requests[denials[k]].state = "denied"
            /\ requests[denials[l]].state = "denied") => ~Open(denials[k])

RowsInv == RelayRows /\ GrantsAnswered /\ OpenInv /\ DenialsInv

\* A request that no answer decides any more.
Stale(r) ==
    \/ requests[r].state = "expired"
    \/ requests[r].lapsed
    \/ requests[r].runtime # runtime

\* The request a preview carries is on record; it was not approved, or is stale.
Named(p) == p.request # 0 => p.request \in DOMAIN requests

Carried(p) ==
    p.request # 0 =>
        /\ p.request \in DOMAIN requests
        /\ requests[p.request].state \in {"pending", "denied"} \/ Stale(p.request)

\* While a turn is in progress the stored preview is not read: what the turn
\* hands back replaces it, or a crash makes its request one of an earlier runtime.
TurnInv ==
    /\ reply \notin {NoReply, NoPreview} => Carried(reply)
    /\ pending # NoPreview => Named(pending)
    /\ reply = NoReply /\ pending # NoPreview => Carried(pending)

RelayInv == TrustInv /\ RelayTypeOK /\ RowsInv /\ TurnInv /\ NoDuplicate

-------------------------------------------------------------------------------
(* What the predicates say, and of which rows.                             *)

\* For a request of no task, not invalid means that it counts.
LEMMA OpenIsValid ==
    ASSUME TypeOK, RelayRows, NEW r \in DOMAIN requests
    PROVE  /\ RequestInvalid(requests[r]) <=> Stale(r)
           /\ Open(r) <=> requests[r].state \in {"pending", "denied"} /\ ~Stale(r)
<1>1. requests[r] \in Request /\ requests[r].task = NoTask
    BY DEF TypeOK, RelayRows
<1> QED
    BY <1>1 DEF Open, Stale, RequestInvalid

\* Among ONCE grants, the live ones of a destination are those that match.
LEMMA LiveIsMatching ==
    ASSUME TypeOK, RelayRows, NEW d, NEW i \in DOMAIN grants
    PROVE  i \in Matching(d, NoTask) <=> Live(i) /\ grants[i].action = d
<1>1. grants[i] \in Grant /\ grants[i].scope = "once"
    BY DEF TypeOK, RelayRows
<1>2. ASSUME i \in Matching(d, NoTask)
      PROVE  Live(i) /\ grants[i].action = d
    BY <1>1, <1>2, MatchingLive DEF Live
<1>3. ASSUME Live(i), grants[i].action = d
      PROVE  i \in Matching(d, NoTask)
    <2>1. \A t : ~GrantInvalid(grants[i], t)
        BY <1>1, <1>3 DEF Live, GrantInvalid
    <2>2. FreshGrants[i] = grants[i]
        BY <2>1 DEF FreshGrants
    <2> QED
        BY <1>3, <2>1, <2>2 DEF Matching, Usable, Live
<1> QED
    BY <1>2, <1>3

-------------------------------------------------------------------------------
(* What the relay asks of the trust service.                               *)

\* The steps of TrustService that the relay takes: what it decides is open.
RelayTrust ==
    \/ \E d \in Actions : Ask(d, NoTask) \/ ActUnderGrant(d, NoTask)
    \/ \E r \in DOMAIN requests :
           \/ RefuseAnswer(r, NoTask)
           \/ Open(r) /\ (\/ Deny(r, NoTask)
                          \/ Approve(r, NoTask, "once")
                          \/ CrashBetweenSaves(r, NoTask, "once"))
    \/ Mark \/ ThreadReads \/ ThreadWrites \/ Restart
    \/ \E r \in DOMAIN requests : LapseRequest(r)
    \/ \E i \in DOMAIN grants : LapseGrant(i)
    \/ UNCHANGED vars

\* Every one of them is a step of TrustService.
LEMMA RelayTrustIsNext ==
    ASSUME RelayTrust
    PROVE  [Next]_vars
<1>1. NoTask \in TaskIds /\ "once" \in Scopes
    BY DEF TaskIds, Scopes
<1> QED
    BY <1>1 DEF RelayTrust, Next, Answer

\* What is answered in a turn is open, unless the answer is refused.
LEMMA AnsweredIsOpen ==
    ASSUME TypeOK, RelayRows, TurnInv, reply = NoReply, pending # NoPreview, pending.request # 0
    PROVE  /\ pending.request \in DOMAIN requests
           /\ ~Refused(pending.request, NoTask) => Open(pending.request)
<1>1. /\ pending.request \in DOMAIN requests
      /\ requests[pending.request].state \in {"pending", "denied"} \/ Stale(pending.request)
    BY DEF TurnInv, Carried
<1> QED
    BY <1>1, OpenIsValid DEF Refused

\* Every step of the relay is one of these.
LEMMA RelayStepsTrust ==
    ASSUME RelayTypeOK, RelayRows, TurnInv, [RelayNext]_relayVars
    PROVE  RelayTrust
<1>1. ASSUME NEW d \in Actions, MakePreview(d)
      PROVE  RelayTrust
    <2>1. Ask(d, NoTask) \/ (Allowed(d, NoTask) /\ UNCHANGED <<handVars, uses>>)
        BY <1>1 DEF MakePreview
    <2> QED
        BY <2>1 DEF RelayTrust, ActUnderGrant, Acts
<1>2. ASSUME NEW word \in {"yes", "no"}, Answered(word)
      PROVE  RelayTrust
    <2>1. reply = NoReply /\ pending # NoPreview
        BY <1>2 DEF Answered, Free
    <2>2. CASE OfferAgain \/ Drop \/ CapabilityBlock
        BY <2>2 DEF OfferAgain, Drop, CapabilityBlock, RelayTrust
    <2>3. CASE AnswerRequest(word)
        <3>1. /\ pending.request # 0
              /\ \/ RefuseAnswer(pending.request, NoTask)
                 \/ Deny(pending.request, NoTask)
                 \/ Approve(pending.request, NoTask, "once")
            BY <2>3 DEF AnswerRequest
        <3>2. /\ pending.request \in DOMAIN requests
              /\ ~Refused(pending.request, NoTask) => Open(pending.request)
            BY <2>1, <3>1, AnsweredIsOpen DEF RelayTypeOK
        <3> QED
            BY <3>1, <3>2 DEF RelayTrust, Deny, Approve
    <2>4. CASE EvaluateDispatch
        <3>1. Ask(pending.to, NoTask) \/ ActUnderGrant(pending.to, NoTask)
            BY <2>4 DEF EvaluateDispatch
        <3>2. pending.to \in Actions
            BY <2>1 DEF RelayTypeOK, Preview
        <3> QED
            BY <3>1, <3>2 DEF RelayTrust
    <2> QED
        BY <1>2, <2>2, <2>3, <2>4 DEF Answered
<1>3. CASE Crash
    <2>1. CASE Restart
        BY <2>1 DEF RelayTrust
    <2>2. CASE /\ Free /\ pending # NoPreview /\ pending.request # 0
               /\ CrashBetweenSaves(pending.request, NoTask, "once")
        <3>1. /\ pending.request \in DOMAIN requests
              /\ ~Refused(pending.request, NoTask) => Open(pending.request)
            BY <2>2, AnsweredIsOpen DEF Free, RelayTypeOK
        <3> QED
            BY <2>2, <3>1 DEF RelayTrust, CrashBetweenSaves
    <2> QED
        BY <1>3, <2>1, <2>2 DEF Crash
<1>4. CASE Outside
    BY <1>4 DEF Outside, RelayTrust
<1>5. CASE MarkSent
    BY <1>5 DEF MarkSent, RelayTrust
<1>6. CASE Store \/ Forget \/ SourceChanges \/ PreviewLapses \/ WindowPasses \/ UNCHANGED relayVars
    <2>1. UNCHANGED vars
        BY <1>6 DEF Store, Forget, SourceChanges, PreviewLapses, WindowPasses, relayVars
    <2> QED
        BY <2>1 DEF RelayTrust
<1> QED
    BY <1>1, <1>2, <1>3, <1>4, <1>5, <1>6 DEF RelayNext

-------------------------------------------------------------------------------
(* What its steps do to the rows.                                          *)


\* No grant changes what it is for, and none comes to life again.
OldGrants ==
    /\ Len(grants) <= Len(grants')
    /\ \A i \in DOMAIN grants :
           /\ SameGrant(grants'[i], grants[i])
           /\ Live(i)' => Live(i)

\* The runtime is the same, or the next one.
LEMMA RuntimeGrows ==
    ASSUME RelayTrust
    PROVE  runtime' = runtime \/ runtime' = runtime + 1
    BY DEF RelayTrust, Ask, ActUnderGrant, Allowed, RefuseAnswer, Deny, Approve, CrashBetweenSaves,
           Mark, ThreadReads, ThreadWrites, Restart, LapseRequest, LapseGrant, vars

\* A grant never comes back to life under the relay: none is for a task.
LEMMA GrantsWane ==
    ASSUME TrustInv, RelayRows, RelayTrust
    PROVE  OldGrants
<1>1. GrantsKept
    BY RelayTrustIsNext, GrantRows DEF TrustInv
<1>2. TypeOK /\ HandInv /\ SeenGrantInv
    BY DEF TrustInv
<1>3. \A i \in DOMAIN grants :
          /\ grants[i] \in Grant /\ grants[i].scope = "once"
          /\ grants[i].runtime \in Nat /\ grants[i].runtime <= runtime /\ runtime \in Nat
    <2>1. \A i \in DOMAIN grants : grants[i] \in Grant /\ runtime \in Nat
        BY <1>2 DEF TypeOK
    <2>2. \A i \in DOMAIN grants : grants[i].runtime \in Nat
        BY <2>1 DEF Grant
    <2> QED
        BY <2>1, <2>2 DEF RelayRows, TrustInv, UseInv
<1> SUFFICES ASSUME NEW i \in DOMAIN grants, Live(i)'
             PROVE  Live(i)
    BY <1>1 DEF GrantsKept, OldGrants
<1>4. /\ grants'[i].state = "approved" /\ ~grants'[i].lapsed /\ ~grants'[i].used
      /\ grants'[i].runtime = runtime'
    BY DEF Live
<1>5. grants[i].runtime = runtime /\ ~grants[i].lapsed
    <2>1. SameGrant(grants'[i], grants[i]) /\ (grants[i].lapsed => grants'[i].lapsed)
        BY <1>1, <1>3 DEF GrantsKept
    <2>2. grants[i].runtime = runtime'
        BY <1>4, <2>1 DEF SameGrant
    <2> QED
        BY <1>3, <1>4, <2>1, <2>2, RuntimeGrows
<1>6. CASE i # inHand
    <2>1. grants[i].state = "approved" /\ ~grants[i].used
        BY <1>1, <1>4, <1>6 DEF GrantsKept
    <2> QED
        BY <1>5, <2>1 DEF Live
<1>7. CASE i = inHand
    <2>1. ~Idle
        BY <1>2, <1>7 DEF Idle, TypeOK
    <2>2. CASE Mark
        <3>1. grants' = [grants EXCEPT ![inHand] = MarkedCopy]
            BY <2>2 DEF Mark
        <3>2. grants'[i] = MarkedCopy
            BY <1>2, <1>7, <3>1 DEF TypeOK
        <3>3. copy.scope = "once"
            BY <1>2, <1>3, <1>7, <2>1 DEF HandInv, SameGrant, Idle
        <3> QED
            BY <1>2, <1>4, <2>1, <3>2, <3>3, MarkedTyped
    <2>3. CASE ThreadWrites
        <3>1. CASE UNCHANGED grants
            BY <1>4, <1>5, <3>1 DEF Live
        <3>2. CASE ~UNCHANGED grants
            <4>1. PICK g \in JudgedGrant(Aged(seen.row, grants[seen.index])) :
                      seen.table = "grants" /\ grants' = [grants EXCEPT ![seen.index] = g]
                BY <2>3, <3>2 DEF ThreadWrites
            <4>2. g.state = "expired"
                BY <1>2, <4>1, JudgedTyped
            <4>3. grants'[i] = g \/ grants'[i] = grants[i]
                BY <1>2, <4>1 DEF TypeOK
            <4> QED
                BY <1>4, <1>5, <4>2, <4>3 DEF Live
        <3> QED
            BY <3>1, <3>2
    <2>4. ASSUME NEW j \in DOMAIN grants, LapseGrant(j)
          PROVE  Live(i)
        <3>1. grants' = [grants EXCEPT ![j].lapsed = TRUE]
            BY <2>4 DEF LapseGrant
        <3>2. grants'[i].state = grants[i].state /\ grants'[i].used = grants[i].used
            BY <1>2, <1>3, <3>1 DEF TypeOK, Grant
        <3> QED
            BY <1>4, <1>5, <3>2 DEF Live
    <2>5. CASE UNCHANGED grants
        BY <1>4, <1>5, <2>5 DEF Live
    <2> QED
        BY <2>1, <2>2, <2>3, <2>4, <2>5
        DEF RelayTrust, Ask, ActUnderGrant, Allowed, RefuseAnswer, Deny, Approve, CrashBetweenSaves,
            ThreadReads, Restart, LapseRequest, vars
<1> QED
    BY <1>6, <1>7

\* No request changes what it asks for; none that was decided or has stopped to
\* count is open again, and none that is stale counts again.
OldRequests ==
    /\ Len(requests) <= Len(requests')
    /\ \A r \in DOMAIN requests :
           /\ SameRequest(requests'[r], requests[r])
           /\ Open(r)' => Open(r)
           /\ Stale(r) => Stale(r)'
           /\ requests'[r].state \in {"pending", "denied"} =>
                  requests[r].state \in {"pending", "denied"}

\* A row that keeps its state, its TTL at most passing, or that expires.
Worn(q, r) ==
    /\ SameRequest(q, r)
    /\ r.lapsed => q.lapsed
    /\ q.state = r.state \/ q.state = "expired"

\* The row of a request that is decided.
Decided(r) ==
    /\ Open(r)
    /\ \/ requests'[r] = [requests[r] EXCEPT !.state = "approved"]
       \/ Deny(r, NoTask) /\ requests'[r] = [requests[r] EXCEPT !.state = "denied"]

\* Status threads and the clock only wear the requests.
LEMMA OutsideWears ==
    ASSUME TrustInv, NEW r \in DOMAIN requests,
           ThreadWrites \/ (\E q \in DOMAIN requests : LapseRequest(q)) \/ UNCHANGED requests
    PROVE  Worn(requests'[r], requests[r])
<1>1. /\ TypeOK /\ SeenRequestInv /\ requests[r] \in Request
      /\ \A q \in DOMAIN requests : requests[q] \in Request
    BY DEF TrustInv, TypeOK
<1>2. CASE requests'[r] = requests[r]
    BY <1>1, <1>2 DEF Worn, SameRequest, Request
<1>3. CASE ThreadWrites
    <2>1. CASE UNCHANGED requests
        BY <1>2, <2>1
    <2>2. CASE ~UNCHANGED requests
        <3>1. PICK g \in JudgedRequest(Aged(seen.row, requests[seen.index])) :
                  seen.table = "requests" /\ requests' = [requests EXCEPT ![seen.index] = g]
            BY <1>3, <2>2 DEF ThreadWrites
        <3>2. requests'[r] = IF r = seen.index THEN g ELSE requests[r]
            BY <1>1, <3>1 DEF TypeOK
        <3>3. /\ seen.row \in Request /\ SameRequest(seen.row, requests[seen.index])
              /\ requests[seen.index] \in Request
            BY <1>1, <3>1 DEF SeenRequestInv
        <3>4. g = [Aged(seen.row, requests[seen.index]) EXCEPT !.state = "expired"]
            BY <3>1 DEF JudgedRequest
        <3>5. Worn(g, requests[seen.index])
            BY <3>3, <3>4 DEF Aged, Worn, SameRequest, Request
        <3> QED
            BY <1>2, <3>2, <3>5
    <2> QED
        BY <2>1, <2>2
<1>4. ASSUME NEW q \in DOMAIN requests, LapseRequest(q)
      PROVE  Worn(requests'[r], requests[r])
    <2>1. requests'[r] = IF r = q THEN [requests[r] EXCEPT !.lapsed = TRUE] ELSE requests[r]
        BY <1>1, <1>4 DEF LapseRequest, TypeOK
    <2> QED
        BY <1>1, <2>1 DEF Worn, SameRequest, Request
<1>5. CASE UNCHANGED requests
    BY <1>2, <1>5
<1> QED
    BY <1>3, <1>4, <1>5

\* A request only ends or lapses, unless this step decides it.
LEMMA RowsWear ==
    ASSUME TrustInv, RelayTrust, NEW r \in DOMAIN requests
    PROVE  Worn(requests'[r], requests[r]) \/ Decided(r)
<1>1. /\ TypeOK /\ SeenRequestInv /\ requests[r] \in Request
      /\ \A q \in DOMAIN requests : requests[q] \in Request
    BY DEF TrustInv, TypeOK
<1>2. CASE requests'[r] = requests[r]
    BY <1>1, <1>2 DEF Worn, SameRequest, Request
<1>3. ASSUME requests'[r] = FreshRequests[r]
      PROVE  Worn(requests'[r], requests[r])
    <2>1. FreshRequests[r] \in {requests[r], [requests[r] EXCEPT !.state = "expired"]}
        BY DEF FreshRequests
    <2> QED
        BY <1>1, <1>3, <2>1 DEF Worn, SameRequest, Request
<1>4. ASSUME NEW d \in Actions, Ask(d, NoTask)
      PROVE  Worn(requests'[r], requests[r])
    <2>1. requests' = FreshRequests \/ \E new : requests' = Append(FreshRequests, new)
        BY <1>4 DEF Ask
    <2>2. FreshRequests \in Seq(Request) /\ Len(FreshRequests) = Len(requests)
        BY <1>1, FreshRequestsTyped
    <2>3. \A new : Append(FreshRequests, new)[r] = FreshRequests[r]
        BY <1>1, <2>2 DEF TypeOK
    <2>4. requests'[r] = FreshRequests[r]
        BY <2>1, <2>3
    <2> QED
        BY <1>3, <2>4
<1>5. ASSUME NEW q \in DOMAIN requests, NEW st \in {"expired", "denied", "approved"},
             requests' = [requests EXCEPT ![q].state = st], st # "expired" => Open(q),
             st = "denied" => Deny(q, NoTask)
      PROVE  Worn(requests'[r], requests[r]) \/ Decided(r)
    <2>1. requests'[r] = IF r = q THEN [requests[r] EXCEPT !.state = st] ELSE requests[r]
        BY <1>1, <1>5 DEF TypeOK
    <2> QED
        BY <1>1, <1>5, <2>1 DEF Worn, Decided, SameRequest, Request
<1>6. ASSUME NEW q \in DOMAIN requests,
             \/ RefuseAnswer(q, NoTask)
             \/ Open(q) /\ (\/ Deny(q, NoTask)
                            \/ Approve(q, NoTask, "once")
                            \/ CrashBetweenSaves(q, NoTask, "once"))
      PROVE  Worn(requests'[r], requests[r]) \/ Decided(r)
    BY <1>5, <1>6 DEF RefuseAnswer, Deny, Approve, CrashBetweenSaves
<1>7. CASE ThreadWrites \/ \E q \in DOMAIN requests : LapseRequest(q)
    BY <1>7, OutsideWears
<1>9. CASE UNCHANGED requests
    BY <1>2, <1>9
<1> QED
    BY <1>3, <1>4, <1>6, <1>7, <1>9
    DEF RelayTrust, ActUnderGrant, Allowed, Mark, ThreadReads, Restart, LapseGrant, vars

\* A request that is over stays over, and its action stays.
LEMMA RequestsWane ==
    ASSUME TrustInv, RelayRows, RelayTrust
    PROVE  OldRequests
<1>1. Len(requests) <= Len(requests') /\ requests \in Seq(Request) /\ runtime \in Nat
    BY RelayTrustIsNext, RequestRows DEF TrustInv, RequestsKept, TypeOK
<1> SUFFICES ASSUME NEW r \in DOMAIN requests
             PROVE  /\ SameRequest(requests'[r], requests[r])
                    /\ Open(r)' => Open(r)
                    /\ Stale(r) => Stale(r)'
                    /\ requests'[r].state \in {"pending", "denied"} =>
                           requests[r].state \in {"pending", "denied"}
    BY <1>1 DEF OldRequests
<1>2. requests[r] \in Request /\ requests[r].runtime \in Nat /\ requests[r].runtime <= runtime
    <2>1. requests[r] \in Request
        BY <1>1
    <2> QED
        BY <2>1 DEF Request, RelayRows
<1>3. runtime' = runtime \/ runtime' = runtime + 1
    BY RuntimeGrows
<1>4. CASE Worn(requests'[r], requests[r])
    <2>1. /\ requests'[r].runtime = requests[r].runtime
          /\ requests[r].lapsed => requests'[r].lapsed
          /\ requests'[r].state = requests[r].state \/ requests'[r].state = "expired"
          /\ SameRequest(requests'[r], requests[r])
        BY <1>4 DEF Worn, SameRequest
    <2>2. requests[r].runtime # runtime => requests[r].runtime # runtime'
        BY <1>1, <1>2, <1>3
    <2>3. "expired" \notin {"pending", "denied"}
        OBVIOUS
    <2> QED
        BY <2>1, <2>2, <2>3 DEF Open, Stale
<1>5. CASE Decided(r)
    BY <1>2, <1>5 DEF Decided, Open, Stale, SameRequest, Request
<1> QED
    BY <1>4, <1>5, RowsWear

\* The row a new prompt gets.
Prompt(d) ==
    [state |-> "pending", action |-> d, task |-> NoTask, runtime |-> runtime, lapsed |-> FALSE]

\* A new request is a prompt for a destination that is neither blocked, nor waits
\* for an answer, nor is covered by a grant.
Prompted(d) ==
    /\ ~Blocked(d, NoTask) /\ PendingFor(d, NoTask) = {} /\ Matching(d, NoTask) = {}
    /\ Len(requests') = Len(requests) + 1
    /\ requests'[Len(requests) + 1] = Prompt(d)
    /\ Len(grants') = Len(grants) /\ runtime' = runtime

\* A new request stands behind the old ones.
LEMMA RequestsAdded ==
    ASSUME TrustInv, RelayTrust
    PROVE  Len(requests') = Len(requests) \/ \E d \in Actions : Prompted(d)
<1>1. TypeOK /\ SeenRequestInv
    BY DEF TrustInv
<1>2. ASSUME NEW d \in Actions, Ask(d, NoTask), requests' # FreshRequests
      PROVE  Prompted(d)
    <2>1. /\ ~Blocked(d, NoTask) /\ PendingFor(d, NoTask) = {} /\ Matching(d, NoTask) = {}
          /\ requests' = Append(FreshRequests, Prompt(d))
          /\ grants' = FreshGrants /\ runtime' = runtime
        BY <1>2 DEF Ask, Prompt
    <2>2. /\ FreshRequests \in Seq(Request) /\ Len(FreshRequests) = Len(requests)
          /\ Len(FreshGrants) = Len(grants)
        BY <1>1, FreshRequestsTyped, FreshGrantsTyped
    <2>3. Prompt(d) \in Request
        BY <1>1 DEF Prompt, Request, RequestStates, TypeOK, TaskIds
    <2>4. Len(requests') = Len(requests) + 1 /\ requests'[Len(requests) + 1] = Prompt(d)
        BY <2>1, <2>2, <2>3, AppendProperties
    <2> QED
        BY <2>1, <2>2, <2>4 DEF Prompted
<1>3. CASE requests' = FreshRequests
    BY <1>1, <1>3, FreshRequestsTyped
<1>4. ASSUME NEW q, NEW row, requests' = [requests EXCEPT ![q] = row]
      PROVE  Len(requests') = Len(requests)
    <2>1. DOMAIN requests' = DOMAIN requests /\ requests \in Seq(Request)
        BY <1>1, <1>4 DEF TypeOK
    <2>2. Len(requests') = Len(requests)
        BY <1>4, <2>1
    <2> QED
        BY <2>2
<1>5. CASE UNCHANGED requests
    BY <1>5
<1> QED
    BY <1>2, <1>3, <1>4, <1>5
    DEF RelayTrust, Ask, ActUnderGrant, Allowed, RefuseAnswer, Deny, Approve, CrashBetweenSaves,
        Mark, ThreadReads, ThreadWrites, Restart, LapseRequest, LapseGrant, vars

\* A new grant is that of an approval.
LEMMA GrantsAdded ==
    ASSUME TrustInv, RelayTrust
    PROVE  \/ Len(grants') = Len(grants)
           \/ \E r \in DOMAIN requests :
                  /\ Open(r)
                  /\ grants' = Append(grants, NewGrant(r, "once"))
                  /\ requests' = [requests EXCEPT ![r].state = "approved"]
                  /\ runtime' = runtime /\ denials' = denials
<1>1. TypeOK
    BY DEF TrustInv
<1>2. CASE grants' = FreshGrants
    BY <1>1, <1>2, FreshGrantsTyped
<1>3. ASSUME NEW i, NEW row, grants' = [grants EXCEPT ![i] = row]
      PROVE  Len(grants') = Len(grants)
    <2>1. DOMAIN grants' = DOMAIN grants /\ grants \in Seq(Grant)
        BY <1>1, <1>3 DEF TypeOK
    <2> QED
        BY <1>3, <2>1
<1>4. CASE UNCHANGED grants
    BY <1>4
<1> QED
    BY <1>2, <1>3, <1>4
    DEF RelayTrust, Ask, ActUnderGrant, Allowed, RefuseAnswer, Deny, Approve, CrashBetweenSaves,
        Mark, ThreadReads, ThreadWrites, Restart, LapseRequest, LapseGrant, vars

-------------------------------------------------------------------------------
(* The invariants of the rows.                                             *)

\* Which rows there are after a step: those of before, and at most one more.
LEMMA RowsAfter ==
    ASSUME TrustInv, RelayRows, RelayTrust
    PROVE  /\ \A r \in DOMAIN requests' :
                  \/ r \in DOMAIN requests
                  \/ \E d \in Actions : Prompted(d) /\ r = Len(requests) + 1
           /\ \A i \in DOMAIN grants' :
                  \/ i \in DOMAIN grants
                  \/ \E q \in DOMAIN requests :
                         /\ Open(q) /\ i = Len(grants) + 1
                         /\ grants' = Append(grants, NewGrant(q, "once"))
                         /\ requests' = [requests EXCEPT ![q].state = "approved"]
                         /\ runtime' = runtime /\ denials' = denials
           /\ DOMAIN requests \subseteq DOMAIN requests'
           /\ DOMAIN grants \subseteq DOMAIN grants'
<1>1. /\ requests \in Seq(Request) /\ grants \in Seq(Grant)
      /\ requests' \in Seq(Request) /\ grants' \in Seq(Grant)
    BY RelayTrustIsNext, RequestRows, GrantRows DEF TrustInv, TypeOK, RequestsKept, GrantsKept
<1>2. /\ DOMAIN requests = 1..Len(requests) /\ DOMAIN grants = 1..Len(grants)
      /\ DOMAIN requests' = 1..Len(requests') /\ DOMAIN grants' = 1..Len(grants')
      /\ Len(requests) \in Nat /\ Len(grants) \in Nat
      /\ Len(requests') \in Nat /\ Len(grants') \in Nat
    BY <1>1
<1>3. Len(requests') = Len(requests) \/
          (Len(requests') = Len(requests) + 1 /\ \E d \in Actions : Prompted(d))
    BY RequestsAdded DEF Prompted
<1>4. \/ Len(grants') = Len(grants)
      \/ \E q \in DOMAIN requests :
             /\ Open(q) /\ Len(grants') = Len(grants) + 1
             /\ grants' = Append(grants, NewGrant(q, "once"))
             /\ requests' = [requests EXCEPT ![q].state = "approved"]
             /\ runtime' = runtime /\ denials' = denials
    <2>1. \A g : Len(Append(grants, g)) = Len(grants) + 1
        BY <1>1
    <2> QED
        BY <2>1, GrantsAdded
<1>5. ASSUME NEW n \in Nat, NEW m \in Nat, m = n \/ m = n + 1
      PROVE  1..n \subseteq 1..m /\ \A k \in 1..m : k \in 1..n \/ (k = n + 1 /\ m # n)
    BY <1>5
<1>6. /\ DOMAIN requests \subseteq DOMAIN requests'
      /\ \A r \in DOMAIN requests' :
             r \in DOMAIN requests \/ (r = Len(requests) + 1 /\ Len(requests') # Len(requests))
    <2> DEFINE n == Len(requests)
               m == Len(requests')
    <2>1. n \in Nat /\ m \in Nat /\ (m = n \/ m = n + 1)
        BY <1>2, <1>3
    <2>2. DOMAIN requests = 1..n /\ DOMAIN requests' = 1..m
        BY <1>2
    <2> HIDE DEF n, m
    <2>3. 1..n \subseteq 1..m /\ \A k \in 1..m : k \in 1..n \/ (k = n + 1 /\ m # n)
        BY <1>5, <2>1
    <2> QED
        BY <2>2, <2>3 DEF n, m
<1>7. /\ DOMAIN grants \subseteq DOMAIN grants'
      /\ \A i \in DOMAIN grants' :
             i \in DOMAIN grants \/ (i = Len(grants) + 1 /\ Len(grants') # Len(grants))
    <2> DEFINE n == Len(grants)
               m == Len(grants')
    <2>1. n \in Nat /\ m \in Nat /\ (m = n \/ m = n + 1)
        BY <1>2, <1>4
    <2>2. DOMAIN grants = 1..n /\ DOMAIN grants' = 1..m
        BY <1>2
    <2> HIDE DEF n, m
    <2>3. 1..n \subseteq 1..m /\ \A k \in 1..m : k \in 1..n \/ (k = n + 1 /\ m # n)
        BY <1>5, <2>1
    <2> QED
        BY <2>2, <2>3 DEF n, m
<1> QED
    BY <1>3, <1>4, <1>6, <1>7

\* The new grant.
LEMMA Added ==
    ASSUME TypeOK, NEW r \in DOMAIN requests, grants' = Append(grants, NewGrant(r, "once"))
    PROVE  /\ grants'[Len(grants) + 1].request = r
           /\ grants'[Len(grants) + 1].scope = "once"
           /\ grants'[Len(grants) + 1].action = requests[r].action
           /\ \A i \in DOMAIN grants : grants'[i] = grants[i]
<1>1. "once" \in Scopes
    BY DEF Scopes
<1>2. NewGrant(r, "once") \in Grant
    BY <1>1, NewGrantTyped
<1>3. /\ grants'[Len(grants) + 1] = NewGrant(r, "once")
      /\ \A i \in DOMAIN grants : grants'[i] = grants[i]
    BY <1>2, AppendProperties DEF TypeOK
<1> QED
    BY <1>3 DEF NewGrant

\* The relay asks without a task and approves once.
LEMMA RelayRowsKept ==
    ASSUME TrustInv, RelayRows, RelayTrust
    PROVE  RelayRows'
<1>1. TypeOK /\ runtime \in Nat /\ (runtime' = runtime \/ runtime' = runtime + 1)
    BY RuntimeGrows DEF TrustInv, TypeOK
<1>2. ASSUME NEW i \in DOMAIN grants'
      PROVE  grants'[i].scope = "once"
    <2>1. CASE i \in DOMAIN grants
        BY <2>1, GrantsWane DEF OldGrants, SameGrant, RelayRows
    <2>2. CASE i \notin DOMAIN grants
        BY <1>1, <1>2, <2>2, RowsAfter, Added
    <2> QED
        BY <2>1, <2>2
<1>3. ASSUME NEW r \in DOMAIN requests'
      PROVE  requests'[r].task = NoTask /\ requests'[r].runtime <= runtime'
    <2>1. CASE r \in DOMAIN requests
        <3>1. requests[r] \in Request /\ SameRequest(requests'[r], requests[r])
            BY <1>1, <2>1, RequestsWane DEF TypeOK, OldRequests
        <3>2. requests[r].runtime \in Nat /\ requests[r].runtime <= runtime /\ requests[r].task = NoTask
            BY <2>1, <3>1 DEF Request, RelayRows
        <3> QED
            BY <1>1, <3>1, <3>2 DEF SameRequest
    <2>2. CASE r \notin DOMAIN requests
        <3>1. PICK d \in Actions : Prompted(d) /\ r = Len(requests) + 1
            BY <1>3, <2>2, RowsAfter
        <3>2. requests'[r] = Prompt(d) /\ runtime' = runtime
            BY <3>1 DEF Prompted
        <3> QED
            BY <1>1, <3>2 DEF Prompt
    <2> QED
        BY <2>1, <2>2
<1> QED
    BY <1>2, <1>3 DEF RelayRows

\* Only an open request is approved, and then it is closed.
LEMMA GrantsAnsweredKept ==
    ASSUME TrustInv, RelayRows, GrantsAnswered, RelayTrust
    PROVE  GrantsAnswered'
<1>1. TypeOK /\ AnswerInv
    BY DEF TrustInv
<1>2. \A i \in DOMAIN grants : /\ grants'[i].request = grants[i].request
                               /\ grants[i].request \in DOMAIN requests
    BY <1>1, GrantsWane DEF OldGrants, SameGrant, AnswerInv
<1>3. ASSUME NEW i \in DOMAIN grants', i \notin DOMAIN grants
      PROVE  /\ i = Len(grants) + 1
             /\ grants'[i].request \in DOMAIN requests
             /\ Open(grants'[i].request)
             /\ requests'[grants'[i].request].state = "approved"
    <2>1. PICK q \in DOMAIN requests :
              /\ Open(q) /\ i = Len(grants) + 1
              /\ grants' = Append(grants, NewGrant(q, "once"))
              /\ requests' = [requests EXCEPT ![q].state = "approved"]
        BY <1>3, RowsAfter
    <2>2. requests[q] \in Request /\ requests \in Seq(Request)
        BY <1>1 DEF TypeOK
    <2>3. requests'[q].state = "approved"
        BY <2>1, <2>2 DEF Request
    <2> QED
        BY <1>1, <2>1, <2>3, Added
<1>4. ASSUME NEW i \in DOMAIN grants'
      PROVE  requests'[grants'[i].request].state \notin {"pending", "denied"}
    <2>1. CASE i \in DOMAIN grants
        <3>1. requests[grants[i].request].state \notin {"pending", "denied"}
            BY <2>1 DEF GrantsAnswered
        <3> QED
            BY <1>2, <2>1, <3>1, RequestsWane DEF OldRequests
    <2> QED
        BY <1>3, <1>4, <2>1
<1>5. \A i \in DOMAIN grants : ~Open(grants[i].request)
    BY DEF GrantsAnswered, Open
<1>6. ASSUME NEW i \in DOMAIN grants', NEW j \in DOMAIN grants', grants'[i].request = grants'[j].request
      PROVE  i = j
    <2>1. CASE i \in DOMAIN grants /\ j \in DOMAIN grants
        BY <1>2, <1>6, <2>1 DEF GrantsAnswered
    <2>2. CASE i \notin DOMAIN grants /\ j \notin DOMAIN grants
        BY <1>3, <2>2
    <2>3. CASE i \in DOMAIN grants /\ j \notin DOMAIN grants
        BY <1>2, <1>3, <1>5, <1>6, <2>3
    <2>4. CASE i \notin DOMAIN grants /\ j \in DOMAIN grants
        BY <1>2, <1>3, <1>5, <1>6, <2>4
    <2> QED
        BY <2>1, <2>2, <2>3, <2>4
<1> QED
    BY <1>4, <1>6 DEF GrantsAnswered

\* When a destination is neither blocked nor waiting, no request for it is open.
LEMMA PromptedAlone ==
    ASSUME TypeOK, RelayRows, DenialsInv, NEW d, ~Blocked(d, NoTask), PendingFor(d, NoTask) = {},
           NEW r \in DOMAIN requests, requests[r].action = d
    PROVE  ~Open(r)
<1> SUFFICES ASSUME Open(r) PROVE FALSE
    OBVIOUS
<1>1. /\ requests[r].task = NoTask /\ ~RequestInvalid(requests[r])
      /\ requests[r].state = "pending" \/ requests[r].state = "denied"
    BY OpenIsValid DEF RelayRows, Open
<1>2. CASE requests[r].state = "pending"
    <2>1. FreshRequests[r] = requests[r]
        BY <1>1 DEF FreshRequests
    <2> QED
        BY <1>1, <1>2, <2>1 DEF PendingFor
<1>3. CASE requests[r].state = "denied"
    <2> DEFINE denied == {k \in DOMAIN denials : /\ requests[denials[k]].state = "denied"
                                                 /\ requests[denials[k]].action = d
                                                 /\ requests[denials[k]].task = NoTask}
    <2>1. PICK k \in DOMAIN denials : denials[k] = r
        BY <1>3 DEF DenialsInv
    <2>2. k \in denied
        BY <1>1, <1>3, <2>1
    <2>3. PICK l \in denied : ~(l <= k)
        BY <1>1, <2>1, <2>2 DEF Blocked
    <2>4. k < l
        BY <2>1, <2>3 DEF TypeOK
    <2> QED
        BY <1>3, <2>1, <2>2, <2>3, <2>4 DEF DenialsInv
<1> QED
    BY <1>1, <1>2, <1>3

\* A prompt opens when no grant is live and no other request is open.
LEMMA OpenInvKept ==
    ASSUME TrustInv, RelayRows, OpenInv, DenialsInv, RelayTrust
    PROVE  OpenInv'
<1>1. TypeOK
    BY DEF TrustInv
<1>2. \A r \in DOMAIN requests : /\ requests'[r].action = requests[r].action
                                 /\ Open(r)' => Open(r)
    BY RequestsWane DEF OldRequests, SameRequest
<1>3. \A i \in DOMAIN grants : /\ grants'[i].action = grants[i].action
                               /\ Live(i)' => Live(i)
    BY GrantsWane DEF OldGrants, SameGrant
<1>4. ASSUME NEW r \in DOMAIN requests', r \notin DOMAIN requests
      PROVE  /\ r = Len(requests) + 1
             /\ \A q \in DOMAIN requests : requests[q].action = requests'[r].action => ~Open(q)
             /\ \A i \in DOMAIN grants : grants[i].action = requests'[r].action => ~Live(i)
             /\ DOMAIN grants' = DOMAIN grants
    <2>1. PICK d \in Actions : Prompted(d) /\ r = Len(requests) + 1
        BY <1>4, RowsAfter
    <2>2. requests'[r].action = d
        BY <2>1 DEF Prompted, Prompt
    <2>3. \A i \in DOMAIN grants : grants[i].action = d => ~Live(i)
        BY <1>1, <2>1, LiveIsMatching DEF Prompted
    <2>4. \A q \in DOMAIN requests : requests[q].action = d => ~Open(q)
        BY <1>1, <2>1, PromptedAlone DEF Prompted
    <2>5. DOMAIN grants' = DOMAIN grants
        <3>1. grants \in Seq(Grant) /\ grants' \in Seq(Grant)
            BY RelayTrustIsNext, GrantRows DEF TrustInv, TypeOK, GrantsKept
        <3> QED
            BY <2>1, <3>1 DEF Prompted
    <2> QED
        BY <2>1, <2>2, <2>3, <2>4, <2>5
<1>5. ASSUME NEW r \in DOMAIN requests', NEW q \in DOMAIN requests', Open(r)', Open(q)',
             requests'[r].action = requests'[q].action
      PROVE  r = q
    <2>1. CASE r \in DOMAIN requests /\ q \in DOMAIN requests
        BY <1>2, <1>5, <2>1 DEF OpenInv
    <2> QED
        BY <1>2, <1>4, <1>5, <2>1
<1>6. ASSUME NEW r \in DOMAIN requests', NEW i \in DOMAIN grants', Open(r)', Live(i)'
      PROVE  grants'[i].action # requests'[r].action
    <2>1. CASE r \in DOMAIN requests /\ i \in DOMAIN grants
        BY <1>2, <1>3, <1>6, <2>1 DEF OpenInv
    <2>2. CASE r \notin DOMAIN requests
        BY <1>3, <1>4, <1>6, <2>2
    <2>3. CASE r \in DOMAIN requests /\ i \notin DOMAIN grants
        <3>1. PICK q \in DOMAIN requests :
                  /\ Open(q) /\ i = Len(grants) + 1
                  /\ grants' = Append(grants, NewGrant(q, "once"))
                  /\ requests' = [requests EXCEPT ![q].state = "approved"]
            BY <2>3, RowsAfter
        <3>2. grants'[i].action = requests[q].action
            BY <1>1, <3>1, Added
        <3>3. requests'[q].state = "approved"
            <4>1. requests[q] \in Request /\ requests \in Seq(Request)
                BY <1>1 DEF TypeOK
            <4> QED
                BY <3>1, <4>1 DEF Request
        <3>4. r # q
            BY <1>6, <3>3 DEF Open
        <3> QED
            BY <1>2, <1>6, <2>3, <3>1, <3>2, <3>4 DEF OpenInv
    <2> QED
        BY <2>1, <2>2, <2>3
<1> QED
    BY <1>5, <1>6 DEF OpenInv

\* What Without leaves of a sequence without repetitions, and in which order.
LEMMA WithoutDoes ==
    ASSUME NEW S, NEW s \in Seq(S), NEW i,
           \A k, l \in DOMAIN s : s[k] = s[l] => k = l
    PROVE  LET w == Without(s, i)
           IN  /\ \A m \in DOMAIN w : w[m] # i
               /\ \A l \in DOMAIN s : s[l] # i => \E m \in DOMAIN w : w[m] = s[l]
               /\ \A m, n \in DOMAIN w : m < n =>
                      \E k, l \in DOMAIN s : k < l /\ s[k] = w[m] /\ s[l] = w[n]
<1> DEFINE w == Without(s, i)
<1>1. CASE \A l \in DOMAIN s : s[l] # i
    <2>1. w = s
        BY <1>1 DEF Without
    <2> QED
        BY <1>1, <2>1
<1>2. ASSUME NEW l \in DOMAIN s, s[l] = i
      PROVE  /\ \A m \in DOMAIN w : w[m] # i
             /\ \A k \in DOMAIN s : s[k] # i => \E m \in DOMAIN w : w[m] = s[k]
             /\ \A m, n \in DOMAIN w : m < n =>
                    \E k, p \in DOMAIN s : k < p /\ s[k] = w[m] /\ s[p] = w[n]
    <2>1. (CHOOSE k \in DOMAIN s : s[k] = i) = l
        BY <1>2
    <2> DEFINE before == SubSeq(s, 1, l - 1)
               after == SubSeq(s, l + 1, Len(s))
    <2>2. w = before \o after
        BY <1>2, <2>1 DEF Without
    <2>3. l \in 1..Len(s) /\ Len(s) \in Nat /\ \A m \in 1..Len(s) : s[m] \in S
        OBVIOUS
    <2>4. /\ before \in Seq(S) /\ Len(before) = l - 1
          /\ \A m \in 1..(l - 1) : before[m] = s[m]
        BY <2>3, SubSeqProperties
    <2>5. /\ after \in Seq(S) /\ Len(after) = Len(s) - l
          /\ \A m \in 1..(Len(s) - l) : after[m] = s[m + l]
        BY <2>3, SubSeqProperties
    <2> HIDE DEF before, after
    <2>6. /\ DOMAIN w = 1..(Len(s) - 1)
          /\ \A m \in 1..(Len(s) - 1) : w[m] = IF m < l THEN s[m] ELSE s[m + 1]
        <3>1. /\ before \o after \in Seq(S)
              /\ Len(before \o after) = Len(s) - 1
              /\ \A m \in 1..(Len(s) - 1) :
                     (before \o after)[m] = IF m <= l - 1 THEN before[m] ELSE after[m - (l - 1)]
            <4>1. Len(before) + Len(after) = Len(s) - 1
                BY <2>3, <2>4, <2>5
            <4>2. /\ before \o after \in Seq(S)
                  /\ Len(before \o after) = Len(before) + Len(after)
                  /\ \A m \in 1..(Len(before) + Len(after)) :
                         (before \o after)[m] =
                             IF m <= Len(before) THEN before[m] ELSE after[m - Len(before)]
                BY <2>4, <2>5, ConcatProperties
            <4>3. Len(before) = l - 1
                BY <2>4
            <4> QED
                BY <4>1, <4>2, <4>3
        <3>2. ASSUME NEW m \in 1..(Len(s) - 1)
              PROVE  (before \o after)[m] = IF m < l THEN s[m] ELSE s[m + 1]
            <4>1. CASE m < l
                BY <2>3, <2>4, <3>1, <4>1
            <4>2. CASE ~(m < l)
                <5>1. m - (l - 1) \in 1..(Len(s) - l) /\ (m - (l - 1)) + l = m + 1 /\ ~(m <= l - 1)
                    BY <2>3, <4>2
                <5> QED
                    BY <2>5, <3>1, <4>2, <5>1
            <4> QED
                BY <4>1, <4>2
        <3> QED
            BY <2>2, <2>3, <3>1, <3>2
    <2> HIDE DEF w
    <2>7. DOMAIN s = 1..Len(s)
        OBVIOUS
    <2>8. \A m \in DOMAIN w : w[m] # i
        BY <1>2, <2>3, <2>6, <2>7
    <2>9. ASSUME NEW k \in DOMAIN s, s[k] # i
          PROVE  \E m \in DOMAIN w : w[m] = s[k]
        <3>1. CASE k < l
            BY <2>3, <2>6, <2>7, <3>1
        <3>2. CASE k > l
            <4>1. k - 1 \in DOMAIN w /\ ~(k - 1 < l) /\ (k - 1) + 1 = k
                BY <2>3, <2>6, <2>7, <3>2
            <4> QED
                BY <2>6, <4>1
        <3> QED
            BY <1>2, <2>3, <2>7, <2>9, <3>1, <3>2
    <2>10. ASSUME NEW m \in DOMAIN w, NEW n \in DOMAIN w, m < n
           PROVE  \E k, p \in DOMAIN s : k < p /\ s[k] = w[m] /\ s[p] = w[n]
        <3> DEFINE place(q) == IF q < l THEN q ELSE q + 1
        <3>1. place(m) \in DOMAIN s /\ place(n) \in DOMAIN s /\ place(m) < place(n)
            BY <2>3, <2>6, <2>7, <2>10
        <3>2. w[m] = s[place(m)] /\ w[n] = s[place(n)]
            BY <2>6
        <3> QED
            BY <3>1, <3>2
    <2> QED
        BY <2>8, <2>9, <2>10
<1> QED
    BY <1>1, <1>2

\* A denial takes a place of its own in the order.
LEMMA DenialsInvKept ==
    ASSUME TrustInv, RelayRows, OpenInv, DenialsInv, RelayTrust
    PROVE  DenialsInv'
<1>1. /\ TypeOK /\ requests \in Seq(Request) /\ denials \in Seq(DOMAIN requests)
      /\ \A r \in DOMAIN requests : requests[r] \in Request
    BY DEF TrustInv, TypeOK
<1>2. /\ \A k \in DOMAIN denials : denials[k] \in DOMAIN requests
      /\ DOMAIN denials \subseteq Nat
    BY <1>1
<1>3. \A r \in DOMAIN requests : /\ requests'[r].action = requests[r].action
                                 /\ Open(r)' => Open(r)
    BY RequestsWane DEF OldRequests, SameRequest
<1>4. ASSUME NEW r \in DOMAIN requests', r \notin DOMAIN requests
      PROVE  requests'[r].state # "denied"
    <2>1. PICK d \in Actions : Prompted(d) /\ r = Len(requests) + 1
        BY <1>4, RowsAfter
    <2> QED
        BY <2>1 DEF Prompted, Prompt
<1>5. ASSUME NEW r \in DOMAIN requests, Open(r), Deny(r, NoTask)
      PROVE  DenialsInv'
    <2>1. PICK w : w = Without(denials, r)
        OBVIOUS
    <2>2. /\ requests' = [requests EXCEPT ![r].state = "denied"] /\ denials' = Append(w, r)
          /\ runtime' = runtime
        BY <1>5, <2>1 DEF Deny
    <2>3. /\ w \in Seq(DOMAIN requests)
          /\ \A m \in DOMAIN w : w[m] # r
          /\ \A l \in DOMAIN denials : denials[l] # r => \E m \in DOMAIN w : w[m] = denials[l]
          /\ \A m, n \in DOMAIN w : m < n =>
                 \E k, l \in DOMAIN denials : k < l /\ denials[k] = w[m] /\ denials[l] = w[n]
        BY <1>1, <2>1, WithoutTyped, WithoutDoes DEF DenialsInv
    <2>4. /\ DOMAIN denials' = DOMAIN w \cup {Len(w) + 1}
          /\ DOMAIN w = 1..Len(w) /\ Len(w) \in Nat
          /\ \A m \in DOMAIN w : denials'[m] = w[m] /\ w[m] \in DOMAIN requests
          /\ denials'[Len(w) + 1] = r
        BY <2>2, <2>3, AppendProperties
    <2>5. /\ DOMAIN requests' = DOMAIN requests
          /\ \A q \in DOMAIN requests : q # r => requests'[q] = requests[q]
        BY <1>1, <2>2
    \* A denial has one place, and those before it do not count any more.
    <2>6. ASSUME NEW k \in DOMAIN denials', NEW l \in DOMAIN denials', k < l
          PROVE  /\ denials'[k] # denials'[l]
                 /\ (/\ requests'[denials'[k]].action = requests'[denials'[l]].action
                     /\ requests'[denials'[k]].state = "denied"
                     /\ requests'[denials'[l]].state = "denied") => ~Open(denials[k])'
        <3>1. k \in DOMAIN w
            BY <2>4, <2>6
        <3>2. PICK q \in DOMAIN requests : q = w[k] /\ q = denials'[k] /\ q # r
            BY <2>3, <2>4, <3>1
        <3>3. Open(denials[k])' <=> Open(q)
            BY <2>2, <2>5, <3>2 DEF Open
        <3>4. requests'[q] = requests[q]
            BY <2>5, <3>2
        <3>5. CASE l \in DOMAIN w
            <4>1. PICK p \in DOMAIN requests : p = w[l] /\ p = denials'[l] /\ p # r
                BY <2>3, <2>4, <3>5
            <4>2. PICK k0 \in DOMAIN denials, l0 \in DOMAIN denials :
                      k0 < l0 /\ denials[k0] = q /\ denials[l0] = p
                <5>1. \E m, n \in DOMAIN denials : m < n /\ denials[m] = w[k] /\ denials[n] = w[l]
                    BY <2>3, <2>6, <3>1, <3>5
                <5> QED
                    BY <3>2, <4>1, <5>1
            <4>3. q # p
                <5>1. k0 # l0
                    BY <1>2, <4>2
                <5> QED
                    BY <4>2, <5>1 DEF DenialsInv
            <4>4. (/\ requests[q].action = requests[p].action
                   /\ requests[q].state = "denied" /\ requests[p].state = "denied") => ~Open(q)
                BY <4>2 DEF DenialsInv
            <4>5. requests'[p] = requests[p]
                BY <2>5, <4>1
            <4> QED
                BY <3>2, <3>3, <3>4, <4>1, <4>3, <4>4, <4>5
        <3>6. CASE l = Len(w) + 1
            <4>1. denials'[l] = r /\ requests'[r].action = requests[r].action
                BY <1>3, <2>4, <3>6
            <4>2. Open(q) => requests[q].action # requests[r].action
                BY <1>5, <3>2 DEF OpenInv
            <4> QED
                BY <3>2, <3>3, <3>4, <4>1, <4>2
        <3> QED
            BY <2>4, <3>5, <3>6
    <2>7. ASSUME NEW k \in DOMAIN denials', NEW l \in DOMAIN denials', denials'[k] = denials'[l]
          PROVE  k = l
        <3>1. ~(k < l) /\ ~(l < k)
            BY <2>6, <2>7
        <3> QED
            BY <2>4, <3>1
    <2>8. ASSUME NEW q \in DOMAIN requests', requests'[q].state = "denied"
          PROVE  \E k \in DOMAIN denials' : denials'[k] = q
        <3>1. CASE q = r
            BY <2>4, <3>1
        <3>2. CASE q # r
            <4>1. q \in DOMAIN requests /\ requests[q].state = "denied"
                BY <2>5, <2>8, <3>2
            <4>2. PICK l \in DOMAIN denials : denials[l] = q
                BY <4>1 DEF DenialsInv
            <4>3. PICK m \in DOMAIN w : w[m] = q
                BY <2>3, <3>2, <4>2
            <4> QED
                BY <2>4, <4>3
        <3> QED
            BY <3>1, <3>2
    <2> QED
        BY <2>6, <2>7, <2>8 DEF DenialsInv
<1>6. ASSUME \A r \in DOMAIN requests : requests'[r].state = "denied" => requests[r].state = "denied",
             denials' = denials
      PROVE  DenialsInv'
    <2>1. \A r \in DOMAIN requests' :
              requests'[r].state = "denied" => r \in DOMAIN requests /\ requests[r].state = "denied"
        BY <1>4, <1>6
    <2>2. ASSUME NEW k \in DOMAIN denials, NEW l \in DOMAIN denials, k < l,
                 requests'[denials[k]].action = requests'[denials[l]].action,
                 requests'[denials[k]].state = "denied", requests'[denials[l]].state = "denied"
          PROVE  ~Open(denials[k])'
        <3>1. PICK q \in DOMAIN requests, p \in DOMAIN requests : q = denials[k] /\ p = denials[l]
            BY <1>2
        <3>2. ~Open(q)
            BY <1>3, <1>6, <2>2, <3>1 DEF DenialsInv
        <3>3. ~Open(q)'
            BY <1>3, <3>2
        <3> QED
            BY <1>6, <3>1, <3>3 DEF Open
    <2> QED
        BY <1>6, <2>1, <2>2 DEF DenialsInv
<1>7. CASE \E r \in DOMAIN requests : Open(r) /\ Deny(r, NoTask)
    BY <1>5, <1>7
<1>8. CASE ~\E r \in DOMAIN requests : Open(r) /\ Deny(r, NoTask)
    <2>1. denials' = denials
        BY <1>8 DEF RelayTrust, Ask, ActUnderGrant, Allowed, RefuseAnswer, Approve, CrashBetweenSaves,
                    Mark, ThreadReads, ThreadWrites, Restart, LapseRequest, LapseGrant, vars
    <2>2. ASSUME NEW r \in DOMAIN requests, requests'[r].state = "denied"
          PROVE  requests[r].state = "denied"
        <3>1. CASE Worn(requests'[r], requests[r])
            BY <2>2, <3>1 DEF Worn
        <3>2. CASE Decided(r)
            <4>1. requests'[r] = [requests[r] EXCEPT !.state = "approved"]
                BY <1>8, <3>2 DEF Decided
            <4> QED
                BY <1>1, <2>2, <4>1 DEF Request
        <3> QED
            BY <3>1, <3>2, RowsWear
    <2> QED
        BY <1>6, <2>1, <2>2
<1> QED
    BY <1>7, <1>8

-------------------------------------------------------------------------------
(* The turns.                                                              *)

\* The greatest of some rows is one of them.
LEMMA MaxExists ==
    ASSUME NEW n \in Nat, NEW S \in SUBSET (1..n), S # {}
    PROVE  Max(S) \in S
<1>1. S \subseteq Nat /\ \A k \in S : k <= n
    OBVIOUS
<1>2. PICK x \in S : \A y \in S : y <= x
    BY <1>1, GreatestNat
<1>3. \A y \in S : x >= y
    BY <1>1, <1>2
<1> QED
    BY <1>3 DEF Max

\* What a decision names that is not allowed: a request that is undecided.
LEMMA PromptForNames ==
    ASSUME TrustInv, NEW d \in Actions, Ask(d, NoTask)
    PROVE  /\ PromptFor(d) \in DOMAIN requests'
           /\ PromptFor(d) \in Nat
           /\ requests'[PromptFor(d)].state \in {"pending", "denied"}
<1>1. /\ TypeOK /\ requests \in Seq(Request) /\ denials \in Seq(DOMAIN requests)
      /\ FreshRequests \in Seq(Request) /\ Len(FreshRequests) = Len(requests)
    BY FreshRequestsTyped DEF TrustInv, TypeOK
<1>2. CASE Blocked(d, NoTask)
    <2>1. DeniedFor(d) # {}
        BY <1>2 DEF Blocked, DeniedFor
    <2>2. Len(denials) \in Nat /\ DeniedFor(d) \in SUBSET (1..Len(denials))
        BY <1>1 DEF DeniedFor
    <2>3. Max(DeniedFor(d)) \in DeniedFor(d)
        BY <2>1, <2>2, MaxExists
    <2>4. PICK k \in DOMAIN denials : k = Max(DeniedFor(d)) /\ requests[denials[k]].state = "denied"
        BY <2>3 DEF DeniedFor
    <2>5. PromptFor(d) = denials[k]
        BY <1>2, <2>4 DEF PromptFor
    <2>6. denials[k] \in DOMAIN requests
        BY <1>1
    <2>7. requests' = FreshRequests /\ FreshRequests[denials[k]] = requests[denials[k]]
        BY <1>2, <2>4, <2>6 DEF Ask, FreshRequests
    <2> QED
        BY <1>1, <2>4, <2>5, <2>6, <2>7
<1>3. CASE ~Blocked(d, NoTask) /\ PendingFor(d, NoTask) # {}
    <2>1. Len(requests) \in Nat /\ PendingFor(d, NoTask) \in SUBSET (1..Len(requests))
        BY <1>1 DEF PendingFor
    <2>2. PromptFor(d) \in PendingFor(d, NoTask)
        BY <1>3, <2>1, MaxExists DEF PromptFor
    <2>3. requests' = FreshRequests
        BY <1>3 DEF Ask
    <2> QED
        BY <1>1, <2>1, <2>2, <2>3 DEF PendingFor
<1>4. CASE ~Blocked(d, NoTask) /\ PendingFor(d, NoTask) = {}
    <2>1. requests' = Append(FreshRequests, Prompt(d))
        BY <1>4 DEF Ask, Prompt
    <2>2. Prompt(d) \in Request
        BY <1>1 DEF Prompt, Request, RequestStates, TypeOK, TaskIds
    <2>3. PromptFor(d) = Len(requests) + 1
        BY <1>4 DEF PromptFor
    <2>4. /\ requests' \in Seq(Request) /\ Len(requests') = Len(requests) + 1
          /\ requests'[Len(requests) + 1] = Prompt(d)
        BY <1>1, <2>1, <2>2, AppendProperties
    <2>5. Len(requests) \in Nat /\ DOMAIN requests' = 1..(Len(requests) + 1)
        BY <1>1, <2>4
    <2> QED
        BY <2>3, <2>4, <2>5 DEF Prompt
<1> QED
    BY <1>2, <1>3, <1>4

\* What is carried stays so while its request is worn.
LEMMA CarriedLater ==
    ASSUME TrustInv, RelayRows, RelayTrust, NEW p, Carried(p),
           \A r \in DOMAIN requests : Worn(requests'[r], requests[r])
    PROVE  Carried(p)'
<1> SUFFICES ASSUME p.request # 0
             PROVE  /\ p.request \in DOMAIN requests'
                    /\ requests'[p.request].state \in {"pending", "denied"} \/ Stale(p.request)'
    BY DEF Carried
<1>1. /\ p.request \in DOMAIN requests
      /\ requests[p.request].state \in {"pending", "denied"} \/ Stale(p.request)
    BY DEF Carried
<1>2. p.request \in DOMAIN requests'
    BY <1>1, RowsAfter
<1>3. Stale(p.request) => Stale(p.request)'
    BY <1>1, RequestsWane DEF OldRequests
<1>4. \/ requests'[p.request].state = requests[p.request].state
      \/ requests'[p.request].state = "expired"
    BY <1>1 DEF Worn
<1> QED
    BY <1>1, <1>2, <1>3, <1>4 DEF Stale

\* What an attempt hands back names no request.
LEMMA AttemptForgets ==
    ASSUME Attempt, pending \in Preview
    PROVE  /\ reply' = NoPreview \/ (reply' \in Preview /\ reply'.request = 0)
           /\ sends' = sends \/ sends' = Append(sends, pending.payload)
<1>1. PreviewAsStored \in Preview /\ PreviewAsStored.request = 0
    BY DEF PreviewAsStored, Preview
<1> QED
    BY <1>1 DEF Attempt

\* What a turn does with the answer: it hands back nothing, or a preview that
\* carries a request that is undecided or stale; it sends what was not sent.
LEMMA AnsweredHandsBack ==
    ASSUME TrustInv, RelayTypeOK, RelayRows, TurnInv, NEW word \in {"yes", "no"}, Answered(word)
    PROVE  /\ \/ reply' = NoPreview
              \/ reply' \in Preview /\ \E p : p = reply' /\ Carried(p)'
           /\ \/ sends' = sends
              \/ sends' = Append(sends, pending.payload) /\ ~Duplicate(pending.payload)
<1>1. pending \in Preview /\ reply = NoReply /\ pending # NoPreview
    BY DEF Answered, Free, RelayTypeOK
<1>2. ASSUME reply' \in Preview, reply'.request = 0
      PROVE  \E p : p = reply' /\ Carried(p)'
    BY <1>2 DEF Carried
<1>3. /\ PreviewAsStored \in Preview /\ PreviewAsStored.request = 0
      /\ [PreviewAsStored EXCEPT !.lapsed = FALSE] \in Preview
      /\ [PreviewAsStored EXCEPT !.lapsed = FALSE].request = 0
    BY <1>1 DEF PreviewAsStored, Preview
<1>4. CASE OfferAgain \/ Drop \/ CapabilityBlock
    BY <1>2, <1>3, <1>4 DEF OfferAgain, Drop, CapabilityBlock
<1>5. CASE AnswerRequest(word)
    <2>1. ~Duplicate(pending.payload) /\ pending.request # 0
        BY <1>5 DEF AnswerRequest, Ready
    <2>2. CASE RefuseAnswer(pending.request, NoTask) /\ reply' = pending /\ UNCHANGED sends
        <3>1. PICK p : p = pending
            OBVIOUS
        <3>2. p.request \in DOMAIN requests /\ requests \in Seq(Request)
            BY <1>1, <2>1, <3>1, AnsweredIsOpen DEF RelayTypeOK, TypeOK
        <3>3. requests' = [requests EXCEPT ![p.request].state = "expired"]
            BY <2>2, <3>1 DEF RefuseAnswer
        <3>4. p.request \in DOMAIN requests' /\ requests'[p.request].state = "expired"
            <4>1. requests[p.request] \in Request
                BY <3>2
            <4> QED
                BY <3>2, <3>3, <4>1 DEF Request
        <3>5. Carried(p)'
            BY <3>4 DEF Carried, Stale
        <3> QED
            BY <1>1, <2>2, <3>1, <3>5
    <2>3. CASE reply' = NoPreview /\ UNCHANGED sends
        BY <2>3
    <2>4. CASE Attempt
        BY <1>1, <1>2, <2>1, <2>4, AttemptForgets
    <2> QED
        BY <1>5, <2>2, <2>3, <2>4 DEF AnswerRequest
<1>6. CASE EvaluateDispatch
    <2>1. ~Duplicate(pending.payload)
        BY <1>6 DEF EvaluateDispatch, Ready
    <2>2. CASE /\ Ask(pending.to, NoTask)
               /\ reply' = IF Blocked(pending.to, NoTask) THEN NoPreview
                           ELSE [pending EXCEPT !.request = PromptFor(pending.to)]
               /\ UNCHANGED sends
        <3>1. PICK r : r = PromptFor(pending.to)
            OBVIOUS
        <3>2. pending.to \in Actions
            BY <1>1 DEF Preview
        <3>3. r \in DOMAIN requests' /\ r \in Nat /\ requests'[r].state \in {"pending", "denied"}
            BY <2>2, <3>1, <3>2, PromptForNames
        <3>4. CASE reply' = [pending EXCEPT !.request = r]
            <4>1. PICK p : p = [pending EXCEPT !.request = r]
                OBVIOUS
            <4>2. p \in Preview /\ p.request = r
                BY <1>1, <3>3, <4>1 DEF Preview
            <4>3. Carried(p)'
                BY <3>3, <4>2 DEF Carried
            <4> QED
                BY <2>2, <3>4, <4>1, <4>2, <4>3
        <3> QED
            BY <2>2, <3>1, <3>4
    <2>3. CASE Attempt
        BY <1>1, <1>2, <2>1, <2>3, AttemptForgets
    <2> QED
        BY <1>6, <2>2, <2>3 DEF EvaluateDispatch
<1> QED
    BY <1>4, <1>5, <1>6 DEF Answered

\* What a preview that is made carries.
LEMMA PreviewMade ==
    ASSUME TrustInv, RelayTypeOK, NEW d \in Actions, MakePreview(d)
    PROVE  reply' \in Preview /\ \E p : p = reply' /\ Carried(p)'
<1>1. source \in Payloads
    BY DEF RelayTypeOK
<1>2. PICK r \in 0..MaxRequests :
          /\ \/ Ask(d, NoTask) /\ r = PromptFor(d)
             \/ Allowed(d, NoTask) /\ r = 0
          /\ reply' = [to |-> d, payload |-> source, lapsed |-> FALSE, request |-> r]
    BY DEF MakePreview
<1>3. PICK p : p = [to |-> d, payload |-> source, lapsed |-> FALSE, request |-> r]
    OBVIOUS
<1>4. p \in Preview /\ p.request = r
    BY <1>1, <1>2, <1>3, TrustAssumption DEF Preview
<1>5. Carried(p)'
    <2>1. CASE r = 0
        BY <1>4, <2>1 DEF Carried
    <2>2. CASE Ask(d, NoTask) /\ r = PromptFor(d)
        BY <1>4, <2>2, PromptForNames DEF Carried
    <2> QED
        BY <1>2, <2>1, <2>2
<1> QED
    BY <1>2, <1>3, <1>4, <1>5

\* The variables of the relay keep their types.
LEMMA RelayTypeKept ==
    ASSUME TrustInv, RelayTypeOK, RelayRows, TurnInv, [RelayNext]_relayVars, TypeOK'
    PROVE  RelayTypeOK'
<1>1. /\ pending \in Preview \cup {NoPreview} /\ source \in Payloads /\ sends \in Seq(Payloads)
      /\ reply \in Preview \cup {NoPreview, NoReply} /\ said \in {"nothing", "yes", "no"}
    BY DEF RelayTypeOK
<1>2. ASSUME NEW d \in Actions, MakePreview(d)
      PROVE  RelayTypeOK'
    <2>1. UNCHANGED <<pending, source, sends, said>>
        BY <1>2 DEF MakePreview
    <2> QED
        BY <1>1, <1>2, <2>1, PreviewMade DEF RelayTypeOK
<1>3. ASSUME NEW word \in {"yes", "no"}, Answered(word)
      PROVE  RelayTypeOK'
    <2>1. said' = word /\ UNCHANGED <<pending, source>> /\ pending \in Preview
        BY <1>1, <1>3 DEF Answered
    <2>2. pending.payload \in Payloads
        BY <2>1 DEF Preview
    <2>3. sends' \in Seq(Payloads) /\ reply' \in Preview \cup {NoPreview}
        BY <1>1, <1>3, <2>2, AnsweredHandsBack
    <2> QED
        BY <1>1, <2>1, <2>3 DEF RelayTypeOK
<1>4. CASE MarkSent \/ Outside \/ UNCHANGED relayVars
    <2>1. UNCHANGED <<pending, source, sends, reply, said>>
        BY <1>4 DEF MarkSent, Outside, relayVars
    <2> QED
        BY <1>1, <2>1 DEF RelayTypeOK
<1>7. CASE Store \/ Forget
    BY <1>1, <1>7 DEF Store, Forget, RelayTypeOK
<1>8. CASE SourceChanges
    BY <1>1, <1>8 DEF SourceChanges, RelayTypeOK
<1>9. CASE Crash
    <2>1. sends' = <<>> /\ reply' = NoReply /\ said' = "nothing" /\ UNCHANGED <<pending, source>>
        BY <1>9 DEF Crash
    <2> QED
        BY <1>1, <2>1 DEF RelayTypeOK
<1>5. CASE PreviewLapses
    <2>1. [pending EXCEPT !.lapsed = TRUE] \in Preview
        BY <1>1, <1>5 DEF PreviewLapses, Preview
    <2> QED
        BY <1>1, <1>5, <2>1 DEF PreviewLapses, RelayTypeOK
<1>6. CASE WindowPasses
    <2>1. Tail(sends) \in Seq(Payloads)
        BY <1>1, <1>6 DEF WindowPasses
    <2> QED
        BY <1>1, <1>6, <2>1 DEF WindowPasses, RelayTypeOK
<1> QED
    BY <1>2, <1>3, <1>4, <1>5, <1>6, <1>7, <1>8, <1>9 DEF RelayNext

\* A send is not in the window yet: the turn has looked.
LEMMA NoDuplicateKept ==
    ASSUME TrustInv, RelayTypeOK, RelayRows, TurnInv, NoDuplicate, [RelayNext]_relayVars
    PROVE  NoDuplicate'
<1>1. sends \in Seq(Payloads) /\ \A k, l \in DOMAIN sends : sends[k] = sends[l] => k = l
    BY DEF RelayTypeOK, NoDuplicate
<1>2. CASE sends' = sends
    BY <1>1, <1>2 DEF NoDuplicate
<1>3. CASE sends' = <<>>
    BY <1>3 DEF NoDuplicate
<1>4. CASE WindowPasses
    <2>1. sends' = Tail(sends) /\ sends # <<>>
        BY <1>4 DEF WindowPasses
    <2>2. /\ DOMAIN sends' = 1..(Len(sends) - 1) /\ Len(sends) \in Nat
          /\ \A k \in DOMAIN sends' : sends'[k] = sends[k + 1] /\ k + 1 \in DOMAIN sends
        BY <1>1, <2>1
    <2> QED
        BY <1>1, <2>2 DEF NoDuplicate
<1>5. ASSUME NEW word \in {"yes", "no"}, Answered(word), sends' # sends
      PROVE  NoDuplicate'
    <2>1. pending \in Preview
        BY <1>5 DEF Answered, RelayTypeOK
    <2>2. pending.payload \in Payloads
        BY <2>1 DEF Preview
    <2>3. sends' = Append(sends, pending.payload) /\ \A k \in DOMAIN sends : sends[k] # pending.payload
        BY <1>5, AnsweredHandsBack DEF Duplicate
    <2>4. /\ DOMAIN sends' = 1..(Len(sends) + 1) /\ Len(sends) \in Nat /\ DOMAIN sends = 1..Len(sends)
          /\ \A k \in DOMAIN sends : sends'[k] = sends[k]
          /\ sends'[Len(sends) + 1] = pending.payload
        BY <1>1, <2>2, <2>3, AppendProperties
    <2>5. \A k \in DOMAIN sends' : k \in DOMAIN sends \/ k = Len(sends) + 1
        BY <2>4
    <2> QED
        BY <1>1, <2>3, <2>4, <2>5 DEF NoDuplicate
<1> QED
    BY <1>2, <1>3, <1>4, <1>5
    DEF RelayNext, MakePreview, MarkSent, Store, Forget, Outside, SourceChanges, PreviewLapses, Crash,
        relayVars

\* What a turn hands back never carries a request that was approved and
\* counts.
LEMMA TurnInvKept ==
    ASSUME TrustInv, RelayTypeOK, RelayRows, TurnInv, [RelayNext]_relayVars
    PROVE  TurnInv'
<1>1. RelayTrust
    BY RelayStepsTrust
<1>2. /\ pending \in Preview \cup {NoPreview} /\ reply \in Preview \cup {NoPreview, NoReply}
      /\ NoReply \notin Preview /\ NoReply # NoPreview /\ NoPreview \notin Preview
    BY RelayAssumption DEF RelayTypeOK
<1>3. PICK p, q : p = pending /\ q = reply
    OBVIOUS
<1>4. /\ q \notin {NoReply, NoPreview} => Carried(q)
      /\ p # NoPreview => Named(p)
      /\ q = NoReply /\ p # NoPreview => Carried(p)
    BY <1>3 DEF TurnInv
<1>5. Named(p) => Named(p)'
    BY <1>1, RowsAfter DEF Named
<1>6. ASSUME pending' = p, reply' # NoReply,
             reply' \in {NoPreview} \/ \E c : c = reply' /\ Carried(c)'
      PROVE  TurnInv'
    BY <1>4, <1>5, <1>6 DEF TurnInv, Named, Carried, Stale
<1>7. ASSUME NEW d \in Actions, MakePreview(d)
      PROVE  TurnInv'
    <2>1. pending' = p
        BY <1>3, <1>7 DEF MakePreview
    <2> QED
        BY <1>2, <1>6, <1>7, <2>1, PreviewMade
<1>8. ASSUME NEW word \in {"yes", "no"}, Answered(word)
      PROVE  TurnInv'
    <2>1. pending' = p
        BY <1>3, <1>8 DEF Answered
    <2> QED
        BY <1>2, <1>6, <1>8, <2>1, AnsweredHandsBack
<1>9. ASSUME (\A c : Carried(c) => Carried(c)'), pending' = p, reply' = q
      PROVE  TurnInv'
    BY <1>4, <1>5, <1>9 DEF TurnInv, Named, Carried, Stale
<1>10. CASE MarkSent \/ Outside \/ Store \/ Forget \/ SourceChanges \/ PreviewLapses
            \/ WindowPasses \/ UNCHANGED relayVars
    <2>1. ThreadWrites \/ (\E r \in DOMAIN requests : LapseRequest(r)) \/ UNCHANGED requests
        BY <1>10 DEF MarkSent, Mark, Outside, ThreadReads, LapseGrant, Store, Forget, SourceChanges,
                     PreviewLapses, WindowPasses, relayVars, vars
    <2>2. \A r \in DOMAIN requests : Worn(requests'[r], requests[r])
        BY <2>1, OutsideWears
    <2>3. \A c : Carried(c) => Carried(c)'
        BY <1>1, <2>2, CarriedLater
    <2>4. CASE MarkSent \/ Outside \/ SourceChanges \/ WindowPasses \/ UNCHANGED relayVars
        <3>1. pending' = p /\ reply' = q
            BY <1>3, <2>4 DEF MarkSent, Outside, SourceChanges, WindowPasses, relayVars
        <3> QED
            BY <1>9, <2>3, <3>1
    <2>5. CASE Store
        <3>1. pending' = q /\ reply' = NoReply /\ q # NoReply
            BY <1>3, <2>5 DEF Store
        <3>2. q # NoPreview => Carried(q)'
            BY <1>4, <2>3, <3>1
        <3> QED
            BY <3>1, <3>2 DEF TurnInv, Named, Carried, Stale
    <2>6. CASE Forget
        <3>1. pending' = NoPreview /\ reply' = q /\ q = NoReply
            BY <1>3, <2>6 DEF Forget, Free
        <3> QED
            BY <3>1 DEF TurnInv
    <2>7. CASE PreviewLapses
        <3>1. pending' = [p EXCEPT !.lapsed = TRUE] /\ reply' = q /\ q = NoReply /\ p # NoPreview
            BY <1>3, <2>7 DEF PreviewLapses, Free
        <3>2. p \in Preview /\ Carried(p)'
            BY <1>2, <1>3, <1>4, <2>3, <3>1
        <3>3. pending'.request = p.request
            BY <3>1, <3>2 DEF Preview
        <3> QED
            BY <3>1, <3>2, <3>3 DEF TurnInv, Named, Carried, Stale
    <2> QED
        BY <1>10, <2>4, <2>5, <2>6, <2>7
<1>11. CASE Crash
    <2>1. pending' = p /\ reply' = NoReply /\ runtime' = runtime + 1
        BY <1>3, <1>11 DEF Crash, Restart, CrashBetweenSaves
    <2>2. ASSUME p # NoPreview, p.request # 0
          PROVE  p.request \in DOMAIN requests' /\ Stale(p.request)'
        <3>1. p.request \in DOMAIN requests
            BY <1>4, <2>2 DEF Named
        <3>2. requests[p.request] \in Request /\ runtime \in Nat
            BY <3>1 DEF TrustInv, TypeOK
        <3>3. requests[p.request].runtime \in Nat /\ requests[p.request].runtime <= runtime
            BY <3>1, <3>2 DEF Request, RelayRows
        <3>4. requests'[p.request].runtime = requests[p.request].runtime
            BY <1>1, <3>1, RequestsWane DEF OldRequests, SameRequest
        <3>5. requests'[p.request].runtime # runtime'
            BY <2>1, <3>2, <3>3, <3>4
        <3> QED
            BY <1>1, <3>1, <3>5, RowsAfter DEF Stale
    <2> QED
        BY <2>1, <2>2 DEF TurnInv, Named, Carried, Stale
<1> QED
    BY <1>7, <1>8, <1>10, <1>11 DEF RelayNext

-------------------------------------------------------------------------------
(* The theorems.                                                           *)

\* The invariant holds before the first turn.
LEMMA RelayInvInit ==
    ASSUME RelayInit
    PROVE  RelayInv
<1>1. /\ Init /\ pending = NoPreview /\ source \in Payloads /\ sends = <<>> /\ reply = NoReply
      /\ said = "nothing"
    BY DEF RelayInit
<1>2. TrustInv
    BY <1>1, TrustInvInit
<1>3. DOMAIN requests = {} /\ DOMAIN grants = {} /\ DOMAIN denials = {} /\ DOMAIN sends = {}
    BY <1>1 DEF Init
<1>4. RelayTypeOK
    BY <1>1, <1>2 DEF RelayTypeOK, TrustInv
<1>5. RowsInv
    BY <1>3 DEF RowsInv, RelayRows, GrantsAnswered, OpenInv, DenialsInv
<1>6. TurnInv /\ NoDuplicate
    BY <1>1, <1>3 DEF TurnInv, NoDuplicate
<1> QED
    BY <1>2, <1>4, <1>5, <1>6 DEF RelayInv

\* A step of the relay keeps the invariant and is a step of the trust
\* service.
LEMMA RelayInvKept ==
    ASSUME RelayInv, [RelayNext]_relayVars
    PROVE  RelayInv' /\ [Next]_vars
<1>1. /\ TrustInv /\ RelayTypeOK /\ RelayRows /\ GrantsAnswered /\ OpenInv /\ DenialsInv
      /\ TurnInv /\ NoDuplicate
    BY DEF RelayInv, RowsInv
<1>2. RelayTrust
    BY <1>1, RelayStepsTrust
<1>3. [Next]_vars
    BY <1>2, RelayTrustIsNext
<1>4. TrustInv'
    BY <1>1, <1>3, TrustInvKept
<1>5. RowsInv'
    BY <1>1, <1>2, RelayRowsKept, GrantsAnsweredKept, OpenInvKept, DenialsInvKept DEF RowsInv
<1>6. RelayTypeOK'
    BY <1>1, <1>4, RelayTypeKept DEF TrustInv
<1>7. TurnInv' /\ NoDuplicate'
    BY <1>1, TurnInvKept, NoDuplicateKept
<1> QED
    BY <1>3, <1>4, <1>5, <1>6, <1>7 DEF RelayInv

\* The tables, what previews carry and what was sent fit together, always.
THEOREM RelayInvariant == RelaySpec => []RelayInv
<1>1. RelayInit => RelayInv
    BY RelayInvInit
<1>2. RelayInv /\ [RelayNext]_relayVars => RelayInv'
    BY RelayInvKept
<1> QED
    BY <1>1, <1>2, PTL DEF RelaySpec

\* The relay uses the trust service as TrustService lets a caller: it answers only
\* requests that are on record, and marks what it used in hand.
THEOREM RelayUsesTrust == RelaySpec => Spec
<1>1. RelayInit => Init
    BY DEF RelayInit
<1>2. RelayInv /\ [RelayNext]_relayVars => [Next]_vars
    BY RelayInvKept
<1> QED
    BY <1>1, <1>2, RelayInvariant, PTL DEF RelaySpec, Spec

\* So what is proved of the trust service holds while messages are relayed.
THEOREM RelayKeepsConsent ==
    RelaySpec => [](OnePrompt /\ GrantHasAnswer /\ OnceUsedOnce)
                     /\ EndedStaysEnded /\ RevocationSticks /\ ImplementsConsent
<1> QED
    BY RelayUsesTrust, OnePromptAtATime, AnswerOnRecord, OneUsePerOnce, EndedGrantsStayEnded,
       NoUseAfterRevocation, ConsentImplemented, PTL

\* The variables of the relay keep their types.
THEOREM RelayTyped == RelaySpec => []RelayTypeOK
<1>1. RelayInv => RelayTypeOK
    BY DEF RelayInv
<1> QED
    BY <1>1, RelayInvariant, PTL

\* One answer of the operator sends one message at most, through refusals, failed
\* attempts, lapsed previews and crashes between the writes of a turn.
THEOREM OneAnswerOneSend == RelaySpec => []OneSendPerAnswer
<1>1. RelayInv => OneSendPerAnswer
    <2> SUFFICES ASSUME RelayInv, NEW i \in DOMAIN grants, NEW j \in DOMAIN grants
                 PROVE  /\ uses[i] <= 1
                        /\ grants[i].request = grants[j].request => i = j
        BY DEF OneSendPerAnswer
    <2>1. grants[i].request = grants[j].request => i = j
        BY DEF RelayInv, RowsInv, GrantsAnswered
    <2>2. uses[i] = 0 \/ uses[i] = 1
        BY DEF RelayInv, RowsInv, RelayRows, TrustInv, UseInv
    <2> QED
        BY <2>1, <2>2
<1> QED
    BY <1>1, RelayInvariant, PTL

\* While the window is open and the process lives, nothing is sent twice.
THEOREM NothingSentTwice == RelaySpec => []NoDuplicate
<1>1. RelayInv => NoDuplicate
    BY DEF RelayInv
<1> QED
    BY <1>1, RelayInvariant, PTL

\* A denial that counts and a grant that allows the dispatch never meet, though
\* evaluate_action looks for the grant first: only the one open request of a
\* destination can be approved, and none is opened while a grant is live.
THEOREM DenialStands == RelaySpec => []NoGrantUnderDenial
<1>1. RelayInv => NoGrantUnderDenial
    <2> SUFFICES ASSUME RelayInv, NEW d \in Actions, Blocked(d, NoTask),
                        NEW i \in Matching(d, NoTask)
                 PROVE  FALSE
        BY DEF NoGrantUnderDenial
    <2>1. TypeOK /\ RelayRows /\ OpenInv /\ denials \in Seq(DOMAIN requests)
        BY DEF RelayInv, RowsInv, TrustInv, TypeOK
    <2>2. PICK k \in DOMAIN denials : /\ requests[denials[k]].state = "denied"
                                      /\ requests[denials[k]].action = d
                                      /\ ~RequestInvalid(requests[denials[k]])
        BY DEF Blocked
    <2>3. denials[k] \in DOMAIN requests
        BY <2>1
    <2>4. Open(denials[k])
        BY <2>1, <2>2, <2>3, OpenIsValid
    <2>5. i \in DOMAIN grants /\ Live(i) /\ grants[i].action = d
        <3>1. i \in DOMAIN grants
            BY DEF Matching
        <3> QED
            BY <2>1, <3>1, LiveIsMatching
    <2> QED
        BY <2>1, <2>2, <2>3, <2>4, <2>5 DEF OpenInv
<1> QED
    BY <1>1, RelayInvariant, PTL

===============================================================================
