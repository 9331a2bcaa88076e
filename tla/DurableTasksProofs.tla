-------------------------- MODULE DurableTasksProofs --------------------------
(***************************************************************************)
(* Theorems about a durable task, for every number of steps and jobs.      *)
(* Whole rows are written back from copies that may be older than what     *)
(* they replace; so what is proved of the rows is proved of every copy     *)
(* that a server thread may still write.                                   *)
(***************************************************************************)
EXTENDS DurableTasks, NaturalsLemmas, TLAPS

-------------------------------------------------------------------------------
(* The inductive invariant.                                                *)

\* What is claimed of a version t of the task, given the steps of the jobs, the jobs
\* that have succeeded and the steps that were reported: what the safety properties
\* say of the rows, said of a copy.
Healthy(t, of, won, rep) ==
    /\ \A s \in Steps : t.steps[s] = "completed" =>
           s \in rep \/ \E j \in Jobs : j \in won /\ of[j] = s /\ t.links[j] = "completed"
    /\ \A s \in Steps : t.steps[s] \in LiveStates =>
           \E j \in Jobs : of[j] = s /\ t.links[j] \in LiveStates
    /\ \A s \in Steps : t.steps[s] \in {"failed", "blocked"} => Recovery(s) \in t.blockers
    /\ \A s \in Steps : t.steps[s] = "completed" => \A b \in t.blockers : b.step # s

\* What version u records of the jobs is no less than what version t does.
Forward(t, u) ==
    \A j \in Jobs :
        /\ Rank(u.links[j]) >= Rank(t.links[j])
        /\ t.links[j] \in EndStatuses => u.links[j] = t.links[j]

\* A job has a step from its submission on.
JobsInv ==
    \A j \in Jobs :
        /\ job[j] = "new" => stepOf[j] = 0
        /\ job[j] # "new" => stepOf[j] \in Steps

\* What a server thread will write is healthy now, however late it writes it.
ThreadInv ==
    thread # NoCopy =>
        /\ Healthy(thread.write, stepOf, succeeded, reported)
        /\ Forward(thread.read, thread.write)

\* The end of every job that was submitted is on record, still to come, or lost.
EndsKnown == \A j \in Jobs : job[j] # "new" => Ended(task, j) \/ EndToCome(j) \/ j \in lost

TaskInv ==
    /\ TypeOK
    /\ JobsInv
    /\ EndsKnown
    /\ Healthy(task, stepOf, succeeded, reported)
    /\ ThreadInv

-------------------------------------------------------------------------------
(* What the operations do to a copy.                                       *)

\* Among some steps there is a first.
LEMMA FirstExists ==
    ASSUME NEW S \in SUBSET Steps, S # {}
    PROVE  First(S) \in S
<1>1. S \subseteq Nat
    BY TasksAssumption DEF Steps
<1>2. \E s \in S : \A r \in S : s <= r
    BY <1>1, LeastNat
<1> QED
    BY <1>2 DEF First

\* The active step is a step, or none.
LEMMA CurrentTyped ==
    ASSUME NEW t \in Task
    PROVE  Current(t) \in Steps
<1>1. t.active \in 0..N /\ N \in Steps
    BY TasksAssumption DEF Task, Steps
<1> DEFINE open == {s \in Steps : t.steps[s] \in ActiveStates}
<1>2. open \in SUBSET Steps
    OBVIOUS
<1>3. open # {} => First(open) \in Steps
    BY <1>2, FirstExists
<1> QED
    BY <1>1, <1>3, TasksAssumption DEF Current, Steps

\* A refresh changes the active step alone, and leaves it at one that is not over.
LEMMA RefreshDoes ==
    ASSUME NEW t \in Task
    PROVE  /\ Refresh(t) \in Task
           /\ Refresh(t).steps = t.steps
           /\ Refresh(t).blockers = t.blockers
           /\ Refresh(t).links = t.links
           /\ Refresh(t).active = 0 \/ t.steps[Refresh(t).active] \in ActiveStates
<1>1. Current(t) \in Steps /\ Current(t) \in 0..N /\ 0 \in 0..N
    BY CurrentTyped, TasksAssumption DEF Steps
<1> QED
    BY <1>1 DEF Refresh, Task

\* What an update from a job writes, variable by variable.
LEMMA MovedDoes ==
    ASSUME NEW t \in Task, NEW j \in Jobs, NEW s \in Steps, NEW incoming \in LiveStates,
           NEW repeats \in BOOLEAN
    PROVE  /\ Moved(t, j, s, incoming, repeats) \in Task
           /\ \/ Moved(t, j, s, incoming, repeats) = t
              \/ /\ Moved(t, j, s, incoming, repeats).steps = [t.steps EXCEPT ![s] = incoming]
                 /\ Moved(t, j, s, incoming, repeats).links = [t.links EXCEPT ![j] = incoming]
                 /\ Moved(t, j, s, incoming, repeats).blockers = t.blockers
                 /\ t.links[j] \notin EndStatuses
                 /\ Rank(incoming) >= Rank(t.links[j])
<1> DEFINE u == [t EXCEPT !.steps[s] = incoming, !.links[j] = incoming]
<1>1. t.steps \in [Steps -> StepStates] /\ t.links \in [Jobs -> LinkStatuses]
    BY DEF Task
<1>2. [t.steps EXCEPT ![s] = incoming] \in [Steps -> StepStates]
    BY <1>1 DEF LiveStates, StepStates, ActiveStates
<1>3. [t.links EXCEPT ![j] = incoming] \in [Jobs -> LinkStatuses]
    BY <1>1 DEF LinkStatuses
<1>4. /\ u \in Task
      /\ u.steps = [t.steps EXCEPT ![s] = incoming]
      /\ u.links = [t.links EXCEPT ![j] = incoming]
      /\ u.blockers = t.blockers
    BY <1>2, <1>3 DEF Task
<1>5. Moved(t, j, s, incoming, repeats) =
          IF ShouldApply(t, j, incoming, repeats) THEN Refresh(u) ELSE t
    BY DEF Moved
<1> HIDE DEF u
<1>6. ShouldApply(t, j, incoming, repeats) =>
          t.links[j] \notin EndStatuses /\ Rank(incoming) >= Rank(t.links[j])
    <2>1. Rank(incoming) \in Nat /\ Rank(t.links[j]) \in Nat
        BY <1>1 DEF Rank, LiveStates, LinkStatuses, EndStatuses
    <2> QED
        BY <2>1 DEF ShouldApply
<1> QED
    BY <1>4, <1>5, <1>6, RefreshDoes

\* What the end of a job writes, variable by variable.
LEMMA FinishedDoes ==
    ASSUME NEW t \in Task, NEW j \in Jobs, NEW s \in Steps, NEW outcome \in EndStatuses
    PROVE  /\ Finished(t, j, s, outcome) \in Task
           /\ Finished(t, j, s, outcome).links[j] \in EndStatuses
           /\ \/ Finished(t, j, s, outcome) = t
              \/ /\ Finished(t, j, s, outcome).steps = [t.steps EXCEPT ![s] = StepAfter(outcome)]
                 /\ Finished(t, j, s, outcome).links = [t.links EXCEPT ![j] = outcome]
                 /\ Finished(t, j, s, outcome).blockers =
                        {b \in t.blockers : b.step # s}
                            \cup (IF outcome = "completed" THEN {} ELSE {Recovery(s)})
                 /\ t.links[j] \notin EndStatuses
                 /\ Rank(outcome) >= Rank(t.links[j])
<1> DEFINE left == {b \in t.blockers : b.step # s}
                       \cup (IF outcome = "completed" THEN {} ELSE {Recovery(s)})
           u == [t EXCEPT !.steps[s] = StepAfter(outcome), !.links[j] = outcome, !.blockers = left]
<1>1. /\ t.steps \in [Steps -> StepStates] /\ t.links \in [Jobs -> LinkStatuses]
      /\ t.blockers \in SUBSET Blocker
    BY DEF Task
<1>2. [t.steps EXCEPT ![s] = StepAfter(outcome)] \in [Steps -> StepStates]
    <2>1. StepAfter(outcome) \in StepStates
        BY DEF StepAfter, EndStatuses, StepStates, ActiveStates
    <2> QED
        BY <1>1, <2>1
<1>3. [t.links EXCEPT ![j] = outcome] \in [Jobs -> LinkStatuses]
    BY <1>1 DEF LinkStatuses
<1>4. left \in SUBSET Blocker
    <2>1. Recovery(s) \in Blocker
        BY TasksAssumption DEF Recovery, Blocker, Steps
    <2> QED
        BY <1>1, <2>1
<1> HIDE DEF left
<1>5. /\ u \in Task
      /\ u.steps = [t.steps EXCEPT ![s] = StepAfter(outcome)]
      /\ u.links = [t.links EXCEPT ![j] = outcome]
      /\ u.blockers = left
    BY <1>2, <1>3, <1>4 DEF Task
<1>6. Finished(t, j, s, outcome) =
          IF ShouldApply(t, j, outcome, FALSE) THEN Refresh(u) ELSE t
    BY DEF Finished, OpenFor, left
<1> HIDE DEF u
<1>7. ShouldApply(t, j, outcome, FALSE) =>
          t.links[j] \notin EndStatuses /\ Rank(outcome) >= Rank(t.links[j])
    <2>1. Rank(outcome) \in Nat /\ Rank(t.links[j]) \in Nat
        BY <1>1 DEF Rank, LiveStates, LinkStatuses, EndStatuses
    <2> QED
        BY <2>1 DEF ShouldApply
<1>8. CASE ShouldApply(t, j, outcome, FALSE)
    <2>1. u.links[j] = outcome
        BY <1>1, <1>5
    <2> QED
        BY <1>5, <1>6, <1>7, <1>8, <2>1, RefreshDoes DEF left
<1>9. CASE ~ShouldApply(t, j, outcome, FALSE)
    <2>1. t.links[j] \in EndStatuses
        <3>1. t.links[j] \in LinkStatuses
            BY <1>1
        <3> QED
            BY <1>9, <3>1 DEF ShouldApply, Rank, LinkStatuses, LiveStates, EndStatuses
    <2> QED
        BY <1>6, <1>9, <2>1
<1> QED
    BY <1>8, <1>9

\* What a direct result writes, variable by variable.
LEMMA RecordedDoes ==
    ASSUME NEW t \in Task, NEW s \in Steps
    PROVE  /\ Recorded(t, s) \in Task
           /\ Recorded(t, s).steps = [t.steps EXCEPT ![s] = "completed"]
           /\ Recorded(t, s).links = t.links
           /\ Recorded(t, s).blockers = {b \in t.blockers : b.step # s}
<1> DEFINE left == {b \in t.blockers : b.step # s}
           u == [t EXCEPT !.steps[s] = "completed", !.blockers = left]
<1>1. t.steps \in [Steps -> StepStates] /\ t.blockers \in SUBSET Blocker
    BY DEF Task
<1>2. [t.steps EXCEPT ![s] = "completed"] \in [Steps -> StepStates] /\ left \in SUBSET Blocker
    BY <1>1 DEF StepStates
<1> HIDE DEF left
<1>3. /\ u \in Task
      /\ u.steps = [t.steps EXCEPT ![s] = "completed"]
      /\ u.links = t.links
      /\ u.blockers = left
    BY <1>2 DEF Task
<1>4. Recorded(t, s) = Refresh(u)
    BY DEF Recorded, OpenFor, left
<1> HIDE DEF u
<1> QED
    BY <1>3, <1>4, RefreshDoes DEF left

\* An approval blocker never names a step that is over.
LEMMA WaitingDoes ==
    ASSUME NEW t \in Task, t.active = 0 \/ t.steps[t.active] \in ActiveStates
    PROVE  /\ Waiting(t) \in Task
           /\ Waiting(t).steps = t.steps
           /\ Waiting(t).links = t.links
           /\ t.blockers \subseteq Waiting(t).blockers
           /\ \A b \in Waiting(t).blockers \ t.blockers :
                  b.step = 0 \/ t.steps[b.step] \in ActiveStates
<1> DEFINE new == [step |-> t.active, kind |-> "approval"]
           left == IF \E b \in t.blockers : b.kind = "approval" THEN t.blockers
                   ELSE t.blockers \cup {new}
           u == [t EXCEPT !.blockers = left]
<1>1. t.blockers \in SUBSET Blocker /\ t.active \in 0..N
    BY DEF Task
<1>2. new \in Blocker /\ new.step = t.active
    BY <1>1 DEF Blocker
<1>3. left \in SUBSET Blocker /\ t.blockers \subseteq left /\ left \subseteq t.blockers \cup {new}
    BY <1>1, <1>2
<1>4. Waiting(t) = Refresh(u)
    BY DEF Waiting
<1> HIDE DEF left, new
<1>5. u \in Task /\ u.steps = t.steps /\ u.links = t.links /\ u.blockers = left
    BY <1>3 DEF Task
<1> HIDE DEF u
<1> QED
    BY <1>2, <1>3, <1>4, <1>5, RefreshDoes

\* What an approval writes, variable by variable.
LEMMA GrantedDoes ==
    ASSUME NEW t \in Task
    PROVE  /\ Granted(t) \in Task
           /\ Granted(t).steps = t.steps
           /\ Granted(t).links = t.links
           /\ Granted(t).blockers = {b \in t.blockers : b.kind # "approval"}
<1> DEFINE left == {b \in t.blockers : b.kind # "approval"}
           u == [t EXCEPT !.blockers = left]
<1>1. left \in SUBSET Blocker
    BY DEF Task
<1>2. Granted(t) = Refresh(u)
    BY DEF Granted
<1> HIDE DEF left
<1>3. u \in Task /\ u.steps = t.steps /\ u.links = t.links /\ u.blockers = left
    BY <1>1 DEF Task
<1> HIDE DEF u
<1> QED
    BY <1>2, <1>3, RefreshDoes DEF left

-------------------------------------------------------------------------------
(* The operations keep a copy healthy, and its record moving forward.      *)

\* A copy stays healthy while jobs get their steps, succeed, and steps are reported.
LEMMA HealthyLater ==
    ASSUME NEW t, NEW of, NEW of2, NEW won, NEW won2, NEW rep, NEW rep2,
           Healthy(t, of, won, rep), won \subseteq won2, rep \subseteq rep2,
           \A j \in Jobs : of[j] \in Steps => of2[j] = of[j]
    PROVE  Healthy(t, of2, won2, rep2)
    BY DEF Healthy

\* Ranks are comparable.
LEMMA RankTyped ==
    ASSUME NEW t \in Task, NEW j \in Jobs
    PROVE  Rank(t.links[j]) \in Nat
<1>1. t.links[j] \in LinkStatuses
    BY DEF Task
<1> QED
    BY <1>1 DEF Rank, LinkStatuses, LiveStates, EndStatuses

\* A version that records the same jobs is no step back.
LEMMA ForwardSame ==
    ASSUME NEW t \in Task, NEW u, u.links = t.links
    PROVE  Forward(t, u)
    BY RankTyped DEF Forward

\* Steps forward add up to one.
LEMMA ForwardMore ==
    ASSUME NEW t \in Task, NEW u \in Task, NEW v \in Task, Forward(t, u), Forward(u, v)
    PROVE  Forward(t, v)
    BY RankTyped DEF Forward

\* One job's record moves up, from a status that is not an end.
LEMMA ForwardOne ==
    ASSUME NEW t \in Task, NEW u, NEW j \in Jobs, NEW status, u.links = [t.links EXCEPT ![j] = status],
           t.links[j] \notin EndStatuses, Rank(status) >= Rank(t.links[j])
    PROVE  Forward(t, u)
<1> SUFFICES ASSUME NEW k \in Jobs
             PROVE  /\ Rank(u.links[k]) >= Rank(t.links[k])
                    /\ t.links[k] \in EndStatuses => u.links[k] = t.links[k]
    BY DEF Forward
<1>1. t.links \in [Jobs -> LinkStatuses]
    BY DEF Task
<1>2. u.links[k] = IF k = j THEN status ELSE t.links[k]
    BY <1>1
<1> QED
    BY <1>2, RankTyped

\* The refresh touches neither steps nor links.
LEMMA RefreshKeeps ==
    ASSUME NEW t \in Task, NEW of, NEW won, NEW rep, Healthy(t, of, won, rep)
    PROVE  Healthy(Refresh(t), of, won, rep) /\ Forward(t, Refresh(t))
    BY RefreshDoes, ForwardSame DEF Healthy

\* An update from a job keeps a version healthy.
LEMMA MovedKeeps ==
    ASSUME NEW t \in Task, NEW j \in Jobs, NEW s \in Steps, NEW incoming \in LiveStates,
           NEW repeats \in BOOLEAN, NEW of, NEW won, NEW rep, of[j] = s, Healthy(t, of, won, rep)
    PROVE  /\ Healthy(Moved(t, j, s, incoming, repeats), of, won, rep)
           /\ Forward(t, Moved(t, j, s, incoming, repeats))
<1> DEFINE u == Moved(t, j, s, incoming, repeats)
<1>1. t.steps \in [Steps -> StepStates] /\ t.links \in [Jobs -> LinkStatuses]
    BY DEF Task
<1>2. CASE u = t
    BY <1>2, ForwardSame
<1>3. CASE /\ u.steps = [t.steps EXCEPT ![s] = incoming]
           /\ u.links = [t.links EXCEPT ![j] = incoming]
           /\ u.blockers = t.blockers
           /\ t.links[j] \notin EndStatuses
           /\ Rank(incoming) >= Rank(t.links[j])
    <2> HIDE DEF u
    <2>1. \A r \in Steps : u.steps[r] = IF r = s THEN incoming ELSE t.steps[r]
        BY <1>1, <1>3
    <2>2. \A k \in Jobs : u.links[k] = IF k = j THEN incoming ELSE t.links[k]
        BY <1>1, <1>3
    <2>3. Healthy(u, of, won, rep)
        BY <1>3, <2>1, <2>2 DEF Healthy, LiveStates, EndStatuses
    <2>4. Forward(t, u)
        BY <1>3, ForwardOne
    <2> QED
        BY <2>3, <2>4 DEF u
<1> QED
    BY <1>2, <1>3, MovedDoes

\* A job ends, a success among those that are known.
LEMMA FinishedKeeps ==
    ASSUME NEW t \in Task, NEW j \in Jobs, NEW s \in Steps, NEW outcome \in EndStatuses,
           NEW of, NEW won, NEW rep, of[j] = s, Healthy(t, of, won, rep),
           outcome = "completed" => j \in won
    PROVE  /\ Healthy(Finished(t, j, s, outcome), of, won, rep)
           /\ Forward(t, Finished(t, j, s, outcome))
<1> DEFINE u == Finished(t, j, s, outcome)
<1>1. t.steps \in [Steps -> StepStates] /\ t.links \in [Jobs -> LinkStatuses]
    BY DEF Task
<1>2. CASE u = t
    BY <1>2, ForwardSame
<1>3. CASE /\ u.steps = [t.steps EXCEPT ![s] = StepAfter(outcome)]
           /\ u.links = [t.links EXCEPT ![j] = outcome]
           /\ u.blockers = {b \in t.blockers : b.step # s}
                                \cup (IF outcome = "completed" THEN {} ELSE {Recovery(s)})
           /\ t.links[j] \notin EndStatuses
           /\ Rank(outcome) >= Rank(t.links[j])
    <2> HIDE DEF u
    <2>1. \A r \in Steps : u.steps[r] = IF r = s THEN StepAfter(outcome) ELSE t.steps[r]
        BY <1>1, <1>3
    <2>2. \A k \in Jobs : u.links[k] = IF k = j THEN outcome ELSE t.links[k]
        BY <1>1, <1>3
    <2>3. /\ StepAfter(outcome) \notin LiveStates
          /\ StepAfter(outcome) = "completed" <=> outcome = "completed"
        BY DEF StepAfter, EndStatuses, LiveStates
    <2>4. \A r : Recovery(r).step = r
        BY DEF Recovery
    <2>5. \A r \in Steps : u.steps[r] = "completed" =>
              r \in rep \/ \E k \in Jobs : k \in won /\ of[k] = r /\ u.links[k] = "completed"
        BY <1>3, <2>1, <2>2, <2>3 DEF Healthy, EndStatuses
    <2>6. \A r \in Steps : u.steps[r] \in LiveStates =>
              \E k \in Jobs : of[k] = r /\ u.links[k] \in LiveStates
        BY <2>1, <2>2, <2>3 DEF Healthy
    <2>7. \A r \in Steps : u.steps[r] \in {"failed", "blocked"} => Recovery(r) \in u.blockers
        BY <1>3, <2>1, <2>3, <2>4 DEF Healthy
    <2>8. \A r \in Steps : u.steps[r] = "completed" => \A b \in u.blockers : b.step # r
        BY <1>3, <2>1, <2>3, <2>4 DEF Healthy
    <2>9. Healthy(u, of, won, rep)
        BY <2>5, <2>6, <2>7, <2>8 DEF Healthy
    <2>10. Forward(t, u)
        BY <1>3, ForwardOne
    <2> QED
        BY <2>9, <2>10 DEF u
<1> QED
    BY <1>2, <1>3, FinishedDoes

\* A direct result keeps a version healthy.
LEMMA RecordedKeeps ==
    ASSUME NEW t \in Task, NEW s \in Steps, NEW of, NEW won, NEW rep, Healthy(t, of, won, rep)
    PROVE  Healthy(Recorded(t, s), of, won, rep \cup {s}) /\ Forward(t, Recorded(t, s))
<1> DEFINE u == Recorded(t, s)
<1>1. t.steps \in [Steps -> StepStates]
    BY DEF Task
<1>2. /\ u.steps = [t.steps EXCEPT ![s] = "completed"]
      /\ u.links = t.links
      /\ u.blockers = {b \in t.blockers : b.step # s}
    BY RecordedDoes
<1> HIDE DEF u
<1>3. \A r \in Steps : u.steps[r] = IF r = s THEN "completed" ELSE t.steps[r]
    BY <1>1, <1>2
<1>4. \A r : Recovery(r).step = r
    BY DEF Recovery
<1>5. Healthy(u, of, won, rep \cup {s})
    BY <1>2, <1>3, <1>4 DEF Healthy, LiveStates
<1> QED
    BY <1>2, <1>5, ForwardSame DEF u

\* A prompt keeps a version healthy.
LEMMA WaitingKeeps ==
    ASSUME NEW t \in Task, NEW of, NEW won, NEW rep, Healthy(t, of, won, rep),
           t.active = 0 \/ t.steps[t.active] \in ActiveStates
    PROVE  Healthy(Waiting(t), of, won, rep) /\ Forward(t, Waiting(t))
<1>1. "completed" \notin ActiveStates /\ 0 \notin Steps
    BY TasksAssumption DEF ActiveStates, Steps
<1> QED
    BY <1>1, WaitingDoes, ForwardSame DEF Healthy

\* An approval keeps a version healthy: its blocker is not the step's own.
LEMMA GrantedKeeps ==
    ASSUME NEW t \in Task, NEW of, NEW won, NEW rep, Healthy(t, of, won, rep)
    PROVE  Healthy(Granted(t), of, won, rep) /\ Forward(t, Granted(t))
<1>1. \A s : Recovery(s).kind = "recovery"
    BY DEF Recovery
<1> QED
    BY <1>1, GrantedDoes, ForwardSame DEF Healthy

-------------------------------------------------------------------------------
(* A prompt the assistant answers itself: one result after the other.      *)

\* The versions of the task after each of the first n results.
Results(n) ==
    {g \in [0..n -> Task] :
        \A i \in 0..n : g[i] = IF i = 0 THEN Refresh(task) ELSE Recorded(g[i - 1], i)}

\* There are such versions, for any number of results.
LEMMA ResultsExist ==
    ASSUME task \in Task, NEW k \in Steps
    PROVE  Results(k) # {}
<1> DEFINE S == {n \in Nat : n <= N => Results(n) # {}}
<1>1. 0 \in S
    <2> DEFINE g == [i \in 0..0 |-> Refresh(task)]
    <2>1. g \in Results(0)
        BY RefreshDoes DEF Results
    <2> QED
        BY <2>1
<1>2. ASSUME NEW n \in Nat, n \in S
      PROVE  n + 1 \in S
    <2> SUFFICES ASSUME n + 1 <= N PROVE Results(n + 1) # {}
        OBVIOUS
    <2>1. n <= N /\ n + 1 \in Steps
        BY TasksAssumption DEF Steps
    <2>2. PICK g \in Results(n) : TRUE
        BY <1>2, <2>1
    <2>3. /\ g \in [0..n -> Task]
          /\ \A i \in 0..n : g[i] = IF i = 0 THEN Refresh(task) ELSE Recorded(g[i - 1], i)
        BY <2>2 DEF Results
    <2> DEFINE h == [i \in 0..(n + 1) |-> IF i = n + 1 THEN Recorded(g[n], n + 1) ELSE g[i]]
    <2>4. g[n] \in Task
        BY <2>3
    <2>5. Recorded(g[n], n + 1) \in Task
        BY <2>1, <2>4, RecordedDoes
    <2>6. h \in [0..(n + 1) -> Task]
        BY <2>3, <2>5
    <2>7. ASSUME NEW i \in 0..(n + 1)
          PROVE  h[i] = IF i = 0 THEN Refresh(task) ELSE Recorded(h[i - 1], i)
        <3>1. CASE i = n + 1
            <4>1. h[i] = Recorded(g[n], i) /\ h[i - 1] = g[n] /\ i # 0
                BY <3>1
            <4> QED
                BY <4>1
        <3>2. CASE i \in 0..n
            <4>1. h[i] = g[i] /\ (i # 0 => h[i - 1] = g[i - 1])
                BY <3>2
            <4> HIDE DEF h
            <4> QED
                BY <2>3, <3>2, <4>1
        <3> QED
            BY <3>1, <3>2
    <2> HIDE DEF h
    <2>8. h \in Results(n + 1)
        BY <2>6, <2>7 DEF Results
    <2> QED
        BY <2>8
<1> HIDE DEF S
<1>3. Nat \subseteq S
    BY <1>1, <1>2, SetInduction
<1>4. k \in S /\ k <= N
    BY <1>3, TasksAssumption DEF Steps
<1> QED
    BY <1>4 DEF S

\* The last version is healthy, and has the links the task had.
LEMMA AnswerItselfKeeps ==
    ASSUME TaskInv, NEW k \in Steps, AnswerItself(k)
    PROVE  /\ task' \in Task
           /\ task'.links = task.links
           /\ Healthy(task', stepOf, succeeded, reported \cup 1..k)
<1>1. k \in Nat /\ k >= 1 /\ k <= N
    BY TasksAssumption DEF Steps
<1>2. task \in Task
    BY DEF TaskInv, TypeOK
<1> DEFINE F(g) == [i \in 0..k |-> IF i = 0 THEN Refresh(task) ELSE Recorded(g[i - 1], i)]
<1>3. PICK after : after[k] = task' /\ after = CHOOSE g : g = F(g)
    BY DEF AnswerItself
<1>4. \E g : g = F(g)
    <2>1. PICK g \in Results(k) : TRUE
        BY <1>2, ResultsExist
    <2>2. /\ g \in [0..k -> Task]
          /\ \A i \in 0..k : g[i] = IF i = 0 THEN Refresh(task) ELSE Recorded(g[i - 1], i)
        BY <2>1 DEF Results
    <2> QED
        BY <2>2
<1>5. after = F(after)
    BY <1>3, <1>4
<1>6. /\ after[0] = Refresh(task)
      /\ \A i \in 1..k : after[i] = Recorded(after[i - 1], i)
    BY <1>1, <1>5
<1> HIDE DEF F
<1> DEFINE S == {n \in Nat : n <= k => /\ after[n] \in Task
                                       /\ after[n].links = task.links
                                       /\ Healthy(after[n], stepOf, succeeded, reported \cup 1..n)}
<1>7. 0 \in S
    <2>1. Healthy(task, stepOf, succeeded, reported \cup 1..0)
        BY HealthyLater DEF TaskInv
    <2> QED
        BY <1>2, <1>6, <2>1, RefreshDoes, RefreshKeeps
<1>8. ASSUME NEW n \in Nat, n \in S
      PROVE  n + 1 \in S
    <2> SUFFICES ASSUME n + 1 <= k
                 PROVE  /\ after[n + 1] \in Task
                        /\ after[n + 1].links = task.links
                        /\ Healthy(after[n + 1], stepOf, succeeded, reported \cup 1..(n + 1))
        OBVIOUS
    <2>1. /\ after[n] \in Task
          /\ after[n].links = task.links
          /\ Healthy(after[n], stepOf, succeeded, reported \cup 1..n)
        BY <1>1, <1>8
    <2>2. after[n + 1] = Recorded(after[n], n + 1)
        <3>1. n + 1 \in 1..k /\ (n + 1) - 1 = n
            BY <1>1
        <3> QED
            BY <1>6, <3>1
    <2>3. n + 1 \in Steps
        BY <1>1, TasksAssumption DEF Steps
    <2>4. (reported \cup 1..n) \cup {n + 1} = reported \cup 1..(n + 1)
        OBVIOUS
    <2>5. /\ Recorded(after[n], n + 1) \in Task
          /\ Recorded(after[n], n + 1).links = task.links
        BY <2>1, <2>3, RecordedDoes
    <2>6. Healthy(Recorded(after[n], n + 1), stepOf, succeeded, (reported \cup 1..n) \cup {n + 1})
        BY <2>1, <2>3, RecordedKeeps
    <2>7. Healthy(Recorded(after[n], n + 1), stepOf, succeeded, reported \cup 1..(n + 1))
        BY <2>4, <2>6
    <2> QED
        BY <2>2, <2>5, <2>7
<1> HIDE DEF S
<1>9. k \in S
    BY <1>1, <1>7, <1>8, SetInduction
<1> QED
    BY <1>1, <1>3, <1>9 DEF S

-------------------------------------------------------------------------------
(* The steps.                                                              *)

\* What the record of the jobs may do in one step.
MovesForward == Forward(task, task') \/ (Overtaken /\ task' = thread.write)

\* The histories only grow.
HistoryGrows ==
    /\ succeeded' \in SUBSET Jobs /\ succeeded \subseteq succeeded'
    /\ reported' \in SUBSET Steps /\ reported \subseteq reported'
    /\ lost' \in SUBSET Jobs /\ lost \subseteq lost'

\* Most steps leave them alone.
LEMMA HistorySame ==
    ASSUME TaskInv, UNCHANGED history
    PROVE  /\ HistoryGrows
           /\ succeeded' = succeeded /\ reported' = reported /\ lost' = lost
    BY DEF history, HistoryGrows, TaskInv, TypeOK

\* A job whose status changes goes on, or its end is recorded or lost.
EndsTold ==
    \A j \in Jobs : \/ job'[j] \in {job[j], "new", "queued", "running"}
                   \/ Ended(task', j)
                   \/ j \in lost'

\* No end goes unknown while the record moves forward.
LEMMA EndsStayKnown ==
    ASSUME TaskInv, thread' = thread, Forward(task, task'), HistoryGrows, EndsTold
    PROVE  EndsKnown'
<1> SUFFICES ASSUME NEW j \in Jobs, job'[j] # "new"
             PROVE  (Ended(task, j) \/ EndToCome(j) \/ j \in lost)'
    BY DEF EndsKnown
<1>1. CASE job'[j] \in {"queued", "running"}
    BY <1>1 DEF EndToCome
<1>2. CASE Ended(task', j) \/ j \in lost'
    BY <1>2 DEF Ended
<1>3. CASE job'[j] = job[j]
    <2>1. Ended(task, j) \/ EndToCome(j) \/ j \in lost
        BY <1>3 DEF TaskInv, EndsKnown
    <2>2. CASE Ended(task, j)
        BY <2>2 DEF Ended, Forward
    <2>3. CASE EndToCome(j)
        BY <1>3, <2>3 DEF EndToCome, Ended
    <2>4. CASE j \in lost
        BY <2>4 DEF HistoryGrows
    <2> QED
        BY <2>1, <2>2, <2>3, <2>4
<1> QED
    BY <1>1, <1>2, <1>3 DEF EndsTold

\* The thread's copy and the types, while the event loop goes on.
LEMMA LoopKeeps ==
    ASSUME TaskInv,
           task' \in Task, Healthy(task', stepOf', succeeded', reported'), Forward(task, task'),
           todo' \in SUBSET Steps, thread' = thread, faults' \in 0..MaxFaults,
           job' \in [Jobs -> JobStatuses], answered' \in SUBSET Jobs, stepOf' \in [Jobs -> 0..N],
           JobsInv', \A j \in Jobs : stepOf[j] \in Steps => stepOf'[j] = stepOf[j],
           HistoryGrows, EndsTold
    PROVE  TaskInv'
<1>1. TypeOK'
    BY DEF TaskInv, TypeOK, HistoryGrows
<1>2. ThreadInv'
    <2> SUFFICES ASSUME thread' # NoCopy
                 PROVE  /\ Healthy(thread'.write, stepOf', succeeded', reported')
                        /\ Forward(thread'.read, thread'.write)
        BY DEF ThreadInv
    <2>1. Healthy(thread.write, stepOf, succeeded, reported) /\ Forward(thread.read, thread.write)
        BY DEF TaskInv, ThreadInv
    <2>2. Healthy(thread.write, stepOf', succeeded', reported')
        BY <2>1, HealthyLater DEF HistoryGrows
    <2> QED
        BY <2>1, <2>2
<1> QED
    BY <1>1, <1>2, EndsStayKnown DEF TaskInv

\* The same for a step that leaves the jobs alone.
LEMMA TaskOnlyKeeps ==
    ASSUME TaskInv, UNCHANGED <<jobVars, thread>>,
           task' \in Task, Healthy(task', stepOf, succeeded', reported'), Forward(task, task'),
           todo' \in SUBSET Steps, faults' \in 0..MaxFaults,
           HistoryGrows
    PROVE  TaskInv' /\ MovesForward
<1>1. job' = job /\ answered' = answered /\ stepOf' = stepOf /\ thread' = thread
    BY DEF jobVars
<1>2. JobsInv'
    BY <1>1 DEF TaskInv, JobsInv
<1>3. job \in [Jobs -> JobStatuses] /\ answered \in SUBSET Jobs /\ stepOf \in [Jobs -> 0..N]
    BY DEF TaskInv, TypeOK
<1>4. EndsTold
    BY <1>1 DEF EndsTold
<1> QED
    BY <1>1, <1>2, <1>3, <1>4, LoopKeeps DEF MovesForward

\* A notification is delivered or lost; either way the task stays healthy.
LEMMA ToldKeeps ==
    ASSUME TaskInv, NEW now, Told(now), now \in Task, NEW of, NEW won, NEW rep,
           Healthy(task, of, won, rep), Healthy(now, of, won, rep), Forward(task, now)
    PROVE  /\ task' \in Task
           /\ Healthy(task', of, won, rep)
           /\ Forward(task, task')
           /\ faults' \in 0..MaxFaults
<1>1. task \in Task /\ faults \in 0..MaxFaults /\ MaxFaults \in Nat
    BY TasksAssumption DEF TaskInv, TypeOK
<1>2. CASE task' = now /\ UNCHANGED faults
    BY <1>1, <1>2
<1>3. CASE task' = task /\ faults < MaxFaults /\ faults' = faults + 1
    BY <1>1, <1>3, ForwardSame
<1> QED
    BY <1>2, <1>3 DEF Told

\* Submission gives a job that has no step its step.
LEMMA SubmissionGives ==
    ASSUME TaskInv, NEW j \in Jobs, NEW s \in Steps, job[j] = "new",
           NEW status \in JobStatuses \ {"new"}, job' = [job EXCEPT ![j] = status],
           stepOf' = [stepOf EXCEPT ![j] = s]
    PROVE  /\ job' \in [Jobs -> JobStatuses]
           /\ stepOf' \in [Jobs -> 0..N]
           /\ stepOf'[j] = s
           /\ JobsInv'
           /\ \A k \in Jobs : stepOf[k] \in Steps => stepOf'[k] = stepOf[k]
<1>1. job \in [Jobs -> JobStatuses] /\ stepOf \in [Jobs -> 0..N]
    BY DEF TaskInv, TypeOK
<1>2. s \in 0..N /\ 0 \notin Steps
    BY TasksAssumption DEF Steps
<1>3. stepOf[j] = 0
    BY DEF TaskInv, JobsInv
<1>4. \A k \in Jobs : /\ job'[k] = IF k = j THEN status ELSE job[k]
                      /\ stepOf'[k] = IF k = j THEN s ELSE stepOf[k]
    BY <1>1
<1>5. JobsInv'
    BY <1>4 DEF TaskInv, JobsInv
<1> QED
    BY <1>1, <1>2, <1>3, <1>4, <1>5

\* A job in the scheduler, queued or after, has a step.
LEMMA JobHasStep ==
    ASSUME TaskInv, NEW j \in Jobs, job[j] # "new"
    PROVE  stepOf[j] \in Steps
    BY DEF TaskInv, JobsInv

\* Only the status of a job that was submitted changes.
LEMMA StatusChanges ==
    ASSUME TaskInv, NEW j \in Jobs, job[j] # "new",
           NEW status \in JobStatuses \ {"new"}, job' = [job EXCEPT ![j] = status],
           stepOf' = stepOf
    PROVE  job' \in [Jobs -> JobStatuses] /\ JobsInv'
<1>1. job \in [Jobs -> JobStatuses]
    BY DEF TaskInv, TypeOK
<1>2. \A k \in Jobs : job'[k] = IF k = j THEN status ELSE job[k]
    BY <1>1
<1> QED
    BY <1>1, <1>2 DEF TaskInv, JobsInv

\* The submission of a job keeps the invariant.
LEMMA SubmitKeeps ==
    ASSUME TaskInv, NEW j \in Jobs, NEW s \in Steps, Submit(j, s)
    PROVE  TaskInv' /\ MovesForward
<1> DEFINE now == Moved(task, j, s, "queued", FALSE)
<1>1. /\ job[j] = "new" /\ job' = [job EXCEPT ![j] = "queued"] /\ answered' = answered
      /\ todo' = todo \ {s} /\ stepOf' = [stepOf EXCEPT ![j] = s]
      /\ Told(now)
      /\ thread' = thread /\ UNCHANGED history
    BY DEF Submit, Scheduler!Accept
<1>2. "queued" \in JobStatuses \ {"new"} /\ "queued" \in LiveStates
    BY DEF JobStatuses, LiveStates
<1>3. /\ job' \in [Jobs -> JobStatuses] /\ stepOf' \in [Jobs -> 0..N]
      /\ stepOf'[j] = s /\ JobsInv'
      /\ \A k \in Jobs : stepOf[k] \in Steps => stepOf'[k] = stepOf[k]
    BY <1>1, <1>2, SubmissionGives
<1>4. /\ task \in Task /\ todo \in SUBSET Steps /\ answered \in SUBSET Jobs
      /\ job \in [Jobs -> JobStatuses]
    BY DEF TaskInv, TypeOK
<1>5. Healthy(task, stepOf', succeeded, reported)
    BY <1>3, HealthyLater DEF TaskInv
<1>6. now \in Task /\ Healthy(now, stepOf', succeeded, reported) /\ Forward(task, now)
    BY <1>2, <1>3, <1>4, <1>5, MovedDoes, MovedKeeps
<1> HIDE DEF now
<1>7. /\ task' \in Task /\ Healthy(task', stepOf', succeeded, reported) /\ Forward(task, task')
      /\ faults' \in 0..MaxFaults
    BY <1>1, <1>5, <1>6, ToldKeeps
<1>8. EndsTold
    BY <1>1, <1>4 DEF EndsTold
<1>9. /\ HistoryGrows /\ Healthy(task', stepOf', succeeded', reported')
    BY <1>1, <1>7, HistorySame
<1> QED
    BY <1>1, <1>3, <1>4, <1>7, <1>8, <1>9, LoopKeeps DEF MovesForward

\* So does a submission that is refused,
LEMMA SubmitRefusedKeeps ==
    ASSUME TaskInv, NEW j \in Jobs, NEW s \in Steps, SubmitRefused(j, s)
    PROVE  TaskInv' /\ MovesForward
<1> DEFINE queued == Moved(task, j, s, "queued", FALSE)
           failed == Finished(queued, j, s, "failed")
<1>1. /\ job[j] = "new" /\ job' = [job EXCEPT ![j] = "failed"] /\ answered' = answered \cup {j}
      /\ todo' = todo \ {s} /\ stepOf' = [stepOf EXCEPT ![j] = s]
      /\ task' = failed
      /\ thread' = thread /\ faults' = faults /\ UNCHANGED history
    BY DEF SubmitRefused, Scheduler!Refuse
<1>2. "failed" \in JobStatuses \ {"new"} /\ "queued" \in LiveStates /\ "failed" \in EndStatuses
    BY DEF JobStatuses, LiveStates, EndStatuses
<1>3. /\ job' \in [Jobs -> JobStatuses] /\ stepOf' \in [Jobs -> 0..N]
      /\ stepOf'[j] = s /\ JobsInv'
      /\ \A k \in Jobs : stepOf[k] \in Steps => stepOf'[k] = stepOf[k]
    BY <1>1, <1>2, SubmissionGives
<1>4. /\ task \in Task /\ todo \in SUBSET Steps /\ answered \in SUBSET Jobs
      /\ job \in [Jobs -> JobStatuses] /\ faults \in 0..MaxFaults
    BY DEF TaskInv, TypeOK
<1>5. Healthy(task, stepOf', succeeded, reported)
    BY <1>3, HealthyLater DEF TaskInv
<1>6. queued \in Task /\ Healthy(queued, stepOf', succeeded, reported) /\ Forward(task, queued)
    BY <1>2, <1>3, <1>4, <1>5, MovedDoes, MovedKeeps
<1> HIDE DEF queued
<1>7. /\ failed \in Task /\ Healthy(failed, stepOf', succeeded, reported)
      /\ Forward(queued, failed) /\ Ended(failed, j)
    <2>1. "failed" # "completed"
        OBVIOUS
    <2> QED
        BY <1>2, <1>3, <1>6, <2>1, FinishedDoes, FinishedKeeps DEF Ended
<1> HIDE DEF failed
<1>8. Forward(task, failed)
    BY <1>4, <1>6, <1>7, ForwardMore
<1>9. EndsTold
    <2>1. \A k \in Jobs : job'[k] = IF k = j THEN "failed" ELSE job[k]
        BY <1>1, <1>4
    <2> QED
        BY <1>1, <1>7, <2>1 DEF EndsTold
<1>10. HistoryGrows /\ Healthy(task', stepOf', succeeded', reported')
    BY <1>1, <1>7, HistorySame
<1> QED
    BY <1>1, <1>3, <1>4, <1>7, <1>8, <1>9, <1>10, LoopKeeps DEF MovesForward

\* the start of a job, noticed or not,
LEMMA StartKeeps ==
    ASSUME TaskInv, NEW j \in Jobs, Start(j)
    PROVE  TaskInv' /\ MovesForward
<1> DEFINE now == Moved(task, j, stepOf[j], "in_progress", FALSE)
<1>1. /\ job[j] = "queued" /\ job' = [job EXCEPT ![j] = "running"] /\ answered' = answered
      /\ Told(now)
      /\ todo' = todo /\ stepOf' = stepOf /\ thread' = thread /\ UNCHANGED history
    BY DEF Start, Scheduler!Begin
<1>2. "running" \in JobStatuses \ {"new"} /\ "in_progress" \in LiveStates
    BY DEF JobStatuses, LiveStates
<1>3. job' \in [Jobs -> JobStatuses] /\ JobsInv' /\ stepOf[j] \in Steps
    BY <1>1, <1>2, StatusChanges, JobHasStep
<1>4. /\ task \in Task /\ todo \in SUBSET Steps /\ answered \in SUBSET Jobs
      /\ job \in [Jobs -> JobStatuses] /\ stepOf \in [Jobs -> 0..N]
      /\ Healthy(task, stepOf, succeeded, reported)
    BY DEF TaskInv, TypeOK
<1>5. now \in Task /\ Healthy(now, stepOf, succeeded, reported) /\ Forward(task, now)
    BY <1>2, <1>3, <1>4, MovedDoes, MovedKeeps
<1> HIDE DEF now
<1>6. /\ task' \in Task /\ Healthy(task', stepOf, succeeded, reported) /\ Forward(task, task')
      /\ faults' \in 0..MaxFaults
    BY <1>1, <1>4, <1>5, ToldKeeps
<1>7. EndsTold
    BY <1>1, <1>4 DEF EndsTold
<1>8. HistoryGrows /\ Healthy(task', stepOf', succeeded', reported')
    BY <1>1, <1>6, HistorySame
<1> QED
    BY <1>1, <1>3, <1>4, <1>6, <1>7, <1>8, LoopKeeps DEF MovesForward

\* A job ends, and its success is known.
LEMMA SucceedsKeeps ==
    ASSUME TaskInv, NEW j \in Jobs, NEW outcome, Succeeds(j, outcome)
    PROVE  /\ succeeded' \in SUBSET Jobs
           /\ succeeded \subseteq succeeded'
           /\ outcome = "completed" => j \in succeeded'
    BY DEF Succeeds, TaskInv, TypeOK

\* the end of a job, noticed or not,
LEMMA FinishKeeps ==
    ASSUME TaskInv, NEW j \in Jobs, NEW outcome \in Outcomes, Finish(j, outcome)
    PROVE  TaskInv' /\ MovesForward
<1> DEFINE now == Finished(task, j, stepOf[j], outcome)
<1>1. /\ job[j] = "running" /\ job' = [job EXCEPT ![j] = outcome] /\ answered' = answered \cup {j}
      /\ Told(now) /\ Succeeds(j, outcome)
      /\ lost' = IF faults' = faults THEN lost ELSE lost \cup {j}
      /\ todo' = todo /\ stepOf' = stepOf /\ thread' = thread /\ reported' = reported
    BY DEF Finish, Scheduler!End
<1>2. outcome \in JobStatuses \ {"new"} /\ outcome \in EndStatuses
    BY TasksAssumption DEF JobStatuses, EndStatuses
<1>3. job' \in [Jobs -> JobStatuses] /\ JobsInv' /\ stepOf[j] \in Steps
    BY <1>1, <1>2, StatusChanges, JobHasStep
<1>4. /\ task \in Task /\ todo \in SUBSET Steps /\ answered \in SUBSET Jobs
      /\ job \in [Jobs -> JobStatuses] /\ stepOf \in [Jobs -> 0..N] /\ faults \in Nat
      /\ reported \in SUBSET Steps /\ lost \in SUBSET Jobs
    BY TasksAssumption DEF TaskInv, TypeOK
<1>5. /\ succeeded' \in SUBSET Jobs /\ succeeded \subseteq succeeded'
      /\ outcome = "completed" => j \in succeeded'
    BY <1>1, SucceedsKeeps
<1>6. Healthy(task, stepOf, succeeded', reported)
    BY <1>5, HealthyLater DEF TaskInv
<1>7. /\ now \in Task /\ Healthy(now, stepOf, succeeded', reported)
      /\ Forward(task, now) /\ Ended(now, j)
    BY <1>2, <1>3, <1>4, <1>5, <1>6, FinishedDoes, FinishedKeeps DEF Ended
<1> HIDE DEF now
<1>8. /\ task' \in Task /\ Healthy(task', stepOf, succeeded', reported) /\ Forward(task, task')
      /\ faults' \in 0..MaxFaults
    BY <1>1, <1>6, <1>7, ToldKeeps
<1>9. Ended(task', j) \/ j \in lost'
    BY <1>1, <1>4, <1>7 DEF Told
<1>10. EndsTold
    <2>1. \A k \in Jobs : job'[k] = IF k = j THEN outcome ELSE job[k]
        BY <1>1, <1>4
    <2> QED
        BY <1>9, <2>1 DEF EndsTold
<1>11. HistoryGrows
    BY <1>1, <1>4, <1>5 DEF HistoryGrows
<1> QED
    BY <1>1, <1>3, <1>4, <1>8, <1>10, <1>11, LoopKeeps DEF MovesForward

\* a notification that is repeated,
LEMMA ReplayKeeps ==
    ASSUME TaskInv, NEW j \in Jobs,
           ReplayStart(j) \/ \E outcome \in Outcomes : ReplayFinish(j, outcome)
    PROVE  TaskInv' /\ MovesForward
<1>1. /\ task \in Task /\ todo \in SUBSET Steps /\ faults \in 0..MaxFaults /\ MaxFaults \in Nat
      /\ Healthy(task, stepOf, succeeded, reported)
    BY TasksAssumption DEF TaskInv, TypeOK
<1>2. job[j] = "cancelled" /\ faults' \in 0..MaxFaults
    <2>1. job[j] = "cancelled" /\ faults < MaxFaults /\ faults' = faults + 1
        BY DEF ReplayStart, ReplayFinish
    <2> QED
        BY <1>1, <2>1
<1>3. stepOf[j] \in Steps
    BY <1>2, JobHasStep
<1>4. CASE ReplayStart(j)
    <2> DEFINE now == Moved(task, j, stepOf[j], "in_progress", FALSE)
    <2>1. "in_progress" \in LiveStates
        BY DEF LiveStates
    <2>2. now \in Task /\ Healthy(now, stepOf, succeeded, reported) /\ Forward(task, now)
        BY <1>1, <1>3, <2>1, MovedDoes, MovedKeeps
    <2>3. /\ task' = now /\ UNCHANGED <<jobVars, thread>> /\ todo' = todo /\ UNCHANGED history
        BY <1>4 DEF ReplayStart
    <2> HIDE DEF now
    <2> QED
        BY <1>1, <1>2, <2>2, <2>3, HistorySame, TaskOnlyKeeps
<1>5. ASSUME NEW outcome \in Outcomes, ReplayFinish(j, outcome)
      PROVE  TaskInv' /\ MovesForward
    <2> DEFINE now == Finished(task, j, stepOf[j], outcome)
    <2>1. outcome \in EndStatuses
        BY TasksAssumption DEF EndStatuses
    <2>2. /\ task' = now /\ UNCHANGED <<jobVars, thread, reported, lost>> /\ todo' = todo
          /\ Succeeds(j, outcome)
        BY <1>5 DEF ReplayFinish
    <2>3. /\ succeeded' \in SUBSET Jobs /\ succeeded \subseteq succeeded'
          /\ outcome = "completed" => j \in succeeded'
        BY <2>2, SucceedsKeeps
    <2>4. Healthy(task, stepOf, succeeded', reported)
        BY <2>3, HealthyLater DEF TaskInv
    <2>5. now \in Task /\ Healthy(now, stepOf, succeeded', reported) /\ Forward(task, now)
        BY <1>1, <1>3, <2>1, <2>3, <2>4, FinishedDoes, FinishedKeeps
    <2> HIDE DEF now
    <2>6. HistoryGrows
        BY <2>2, <2>3 DEF HistoryGrows, TaskInv, TypeOK
    <2> QED
        BY <1>1, <1>2, <2>2, <2>5, <2>6, TaskOnlyKeeps
<1> QED
    BY <1>4, <1>5

\* a request that begins or goes on, prompts and answers,
LEMMA ProgressKeeps ==
    ASSUME TaskInv, NEW j \in Jobs, Progress(j)
    PROVE  TaskInv' /\ MovesForward
<1> DEFINE now == Moved(task, j, stepOf[j], "in_progress", TRUE)
<1>1. /\ job[j] # "new" /\ task' = now
      /\ UNCHANGED <<jobVars, thread>> /\ todo' = todo /\ faults' = faults /\ UNCHANGED history
    BY DEF Progress
<1>2. /\ task \in Task /\ todo \in SUBSET Steps /\ faults \in 0..MaxFaults
      /\ Healthy(task, stepOf, succeeded, reported)
    BY DEF TaskInv, TypeOK
<1>3. stepOf[j] \in Steps /\ "in_progress" \in LiveStates
    BY <1>1, JobHasStep DEF LiveStates
<1>4. now \in Task /\ Healthy(now, stepOf, succeeded, reported) /\ Forward(task, now)
    BY <1>2, <1>3, MovedDoes, MovedKeeps
<1> HIDE DEF now
<1> QED
    BY <1>1, <1>2, <1>4, HistorySame, TaskOnlyKeeps

\* Prompts, and the requests for trust: no job is touched.
LEMMA PromptKeeps ==
    ASSUME TaskInv,
           \/ \E k \in Steps : BeginAgain(k) \/ AnswerItself(k)
           \/ \E s \in Steps : SubmitRaises(s)
           \/ AskOrDeny \/ Approve \/ Summarise
    PROVE  TaskInv' /\ MovesForward
<1> DEFINE fresh == Refresh(task)
<1>1. /\ task \in Task /\ todo \in SUBSET Steps /\ faults \in 0..MaxFaults
      /\ Healthy(task, stepOf, succeeded, reported)
    BY DEF TaskInv, TypeOK
<1>2. /\ fresh \in Task /\ Healthy(fresh, stepOf, succeeded, reported) /\ Forward(task, fresh)
      /\ fresh.active = 0 \/ fresh.steps[fresh.active] \in ActiveStates
    BY <1>1, RefreshDoes, RefreshKeeps
<1>3. \A k \in Steps : 1..k \subseteq Steps
    BY TasksAssumption DEF Steps
<1>4. CASE \E k \in Steps : BeginAgain(k)
    <2>1. /\ task' = fresh /\ todo' \in SUBSET Steps
          /\ UNCHANGED <<jobVars, thread>> /\ faults' = faults /\ UNCHANGED history
        BY <1>3, <1>4 DEF BeginAgain
    <2> QED
        BY <1>1, <1>2, <2>1, HistorySame, TaskOnlyKeeps
<1>5. ASSUME NEW k \in Steps, AnswerItself(k)
      PROVE  TaskInv' /\ MovesForward
    <2>1. /\ reported' = reported \cup 1..k /\ todo' = todo
          /\ UNCHANGED <<jobVars, thread, succeeded, lost>> /\ faults' = faults
        BY <1>5 DEF AnswerItself
    <2>2. /\ task' \in Task /\ task'.links = task.links
          /\ Healthy(task', stepOf, succeeded, reported \cup 1..k)
        BY <1>5, AnswerItselfKeeps
    <2>3. Forward(task, task')
        BY <1>1, <2>2, ForwardSame
    <2>4. HistoryGrows
        BY <1>3, <2>1 DEF HistoryGrows, TaskInv, TypeOK
    <2> QED
        BY <1>1, <2>1, <2>2, <2>3, <2>4, TaskOnlyKeeps
<1>6. CASE \E s \in Steps : SubmitRaises(s)
    <2>1. /\ task' = task /\ todo' \in SUBSET Steps
          /\ UNCHANGED <<jobVars, thread>> /\ faults' = faults /\ UNCHANGED history
        BY <1>1, <1>6 DEF SubmitRaises
    <2> QED
        BY <1>1, <2>1, ForwardSame, HistorySame, TaskOnlyKeeps
<1>7. CASE AskOrDeny
    <2>1. /\ task' = Waiting(fresh) /\ todo' = todo
          /\ UNCHANGED <<jobVars, thread>> /\ faults' = faults /\ UNCHANGED history
        BY <1>7 DEF AskOrDeny
    <2> HIDE DEF fresh
    <2>2. /\ Waiting(fresh) \in Task /\ Healthy(Waiting(fresh), stepOf, succeeded, reported)
          /\ Forward(fresh, Waiting(fresh))
        BY <1>2, WaitingDoes, WaitingKeeps
    <2>3. Forward(task, Waiting(fresh))
        BY <1>1, <1>2, <2>2, ForwardMore
    <2> QED
        BY <1>1, <2>1, <2>2, <2>3, HistorySame, TaskOnlyKeeps
<1>8. CASE Approve
    <2>1. /\ task' = Granted(fresh) /\ todo' = todo
          /\ UNCHANGED <<jobVars, thread>> /\ faults' = faults /\ UNCHANGED history
        BY <1>8 DEF Approve
    <2> HIDE DEF fresh
    <2>2. /\ Granted(fresh) \in Task /\ Healthy(Granted(fresh), stepOf, succeeded, reported)
          /\ Forward(fresh, Granted(fresh))
        BY <1>2, GrantedDoes, GrantedKeeps
    <2>3. Forward(task, Granted(fresh))
        BY <1>1, <1>2, <2>2, ForwardMore
    <2> QED
        BY <1>1, <2>1, <2>2, <2>3, HistorySame, TaskOnlyKeeps
<1>9. CASE Summarise
    <2>1. /\ task' = fresh /\ todo' = todo
          /\ UNCHANGED <<jobVars, thread>> /\ faults' = faults /\ UNCHANGED history
        BY <1>9 DEF Summarise
    <2> QED
        BY <1>1, <1>2, <2>1, HistorySame, TaskOnlyKeeps
<1> QED
    BY <1>4, <1>5, <1>6, <1>7, <1>8, <1>9

\* A server thread takes a healthy copy, and means to write a healthy one.
LEMMA ThreadTakes ==
    ASSUME TaskInv, NEW op \in {"refresh", "cancel"}, NEW now \in Task,
           Healthy(now, stepOf, succeeded, reported), Forward(task, now),
           thread = NoCopy, thread' = [op |-> op, read |-> task, write |-> now],
           UNCHANGED <<task, stepOf, history>>, todo' = todo,
           \A j \in Jobs : job'[j] = job[j] \/ Ended(now, j),
           job' \in [Jobs -> JobStatuses], JobsInv', answered' \in SUBSET Jobs,
           faults' \in 0..MaxFaults
    PROVE  TaskInv' /\ MovesForward
<1>1. /\ task \in Task /\ todo \in SUBSET Steps /\ stepOf \in [Jobs -> 0..N]
      /\ Healthy(task, stepOf, succeeded, reported)
      /\ HistoryGrows /\ succeeded' = succeeded /\ reported' = reported /\ lost' = lost
    BY HistorySame DEF TaskInv, TypeOK
<1>2. /\ thread' \in [op : {"refresh", "cancel"}, read : Task, write : Task]
      /\ thread'.read = task /\ thread'.write = now /\ thread' # NoCopy
    BY <1>1 DEF NoCopy
<1>3. TypeOK'
    BY <1>1, <1>2 DEF TypeOK, HistoryGrows
<1>4. ThreadInv'
    BY <1>1, <1>2 DEF ThreadInv
<1>5. MovesForward
    BY <1>1, ForwardSame DEF MovesForward
<1>6. EndsKnown'
    <2> SUFFICES ASSUME NEW j \in Jobs, job'[j] # "new"
                 PROVE  (Ended(task, j) \/ EndToCome(j) \/ j \in lost)'
        BY DEF EndsKnown
    <2>1. CASE Ended(now, j)
        BY <1>2, <2>1 DEF EndToCome
    <2>2. CASE job'[j] = job[j]
        <3>1. Ended(task, j) \/ EndToCome(j) \/ j \in lost
            BY <2>2 DEF TaskInv, EndsKnown
        <3> QED
            BY <1>1, <2>2, <3>1 DEF EndToCome, Ended
    <2> QED
        BY <2>1, <2>2
<1> QED
    BY <1>1, <1>3, <1>4, <1>5, <1>6 DEF TaskInv

\* a thread that reads the task,
LEMMA ThreadReadsKeeps ==
    ASSUME TaskInv, ThreadReads
    PROVE  TaskInv' /\ MovesForward
<1>1. /\ thread' = [op |-> "refresh", read |-> task, write |-> Refresh(task)]
      /\ task' = task /\ todo' = todo /\ job' = job /\ answered' = answered
      /\ stepOf' = stepOf /\ thread = NoCopy /\ UNCHANGED history
      /\ faults < MaxFaults /\ faults' = faults + 1
    BY DEF ThreadReads, jobVars
<1>2. /\ task \in Task /\ job \in [Jobs -> JobStatuses] /\ answered \in SUBSET Jobs
      /\ faults \in 0..MaxFaults /\ MaxFaults \in Nat
    BY TasksAssumption DEF TaskInv, TypeOK
<1>3. JobsInv'
    BY <1>1 DEF TaskInv, JobsInv
<1>4. Refresh(task) \in Task /\ Healthy(Refresh(task), stepOf, succeeded, reported) /\ Forward(task, Refresh(task))
    BY <1>2, RefreshDoes, RefreshKeeps DEF TaskInv
<1>5. faults' \in 0..MaxFaults
    BY <1>1, <1>2
<1> QED
    BY <1>1, <1>2, <1>3, <1>4, <1>5, ThreadTakes

\* a thread that cancels a queued job,
LEMMA ThreadCancelsKeeps ==
    ASSUME TaskInv, NEW j \in Jobs, ThreadCancels(j)
    PROVE  TaskInv' /\ MovesForward
<1> DEFINE now == Finished(task, j, stepOf[j], "cancelled")
<1>1. /\ thread' = [op |-> "cancel", read |-> task, write |-> now]
      /\ task' = task /\ todo' = todo /\ answered' = answered \cup {j}
      /\ stepOf' = stepOf /\ faults' = faults /\ thread = NoCopy /\ UNCHANGED history
      /\ job[j] = "queued"
      /\ job' = [k \in Jobs |-> IF k \in {j} THEN "cancelled" ELSE job[k]]
    BY DEF ThreadCancels, Scheduler!Withdraw
<1>2. /\ task \in Task /\ job \in [Jobs -> JobStatuses] /\ answered \in SUBSET Jobs
      /\ faults \in 0..MaxFaults
    BY DEF TaskInv, TypeOK
<1>3. /\ "cancelled" \in JobStatuses \ {"new"} /\ "cancelled" \in EndStatuses
      /\ "cancelled" # "completed"
    BY DEF JobStatuses, EndStatuses
<1>4. job' = [job EXCEPT ![j] = "cancelled"]
    BY <1>1, <1>2
<1>5. job' \in [Jobs -> JobStatuses] /\ JobsInv' /\ stepOf[j] \in Steps
    BY <1>1, <1>3, <1>4, StatusChanges, JobHasStep
<1>6. /\ now \in Task /\ Healthy(now, stepOf, succeeded, reported)
      /\ Forward(task, now) /\ Ended(now, j)
    BY <1>2, <1>3, <1>5, FinishedDoes, FinishedKeeps DEF TaskInv, Ended
<1> HIDE DEF now
<1>7. \A k \in Jobs : job'[k] = job[k] \/ Ended(now, k)
    BY <1>1, <1>6
<1> QED
    BY <1>1, <1>2, <1>5, <1>6, <1>7, ThreadTakes

\* What the thread writes may be old, but it is healthy.
LEMMA ThreadWritesKeeps ==
    ASSUME TaskInv, ThreadWrites
    PROVE  TaskInv' /\ MovesForward
<1>1. /\ thread # NoCopy /\ task' = thread.write /\ thread' = NoCopy
      /\ todo' = todo /\ job' = job /\ answered' = answered /\ stepOf' = stepOf
      /\ succeeded' = succeeded /\ reported' = reported
      /\ lost' = lost \cup {j \in Jobs : Ended(task, j) /\ ~Ended(thread.write, j)}
    BY DEF ThreadWrites, jobVars
<1>2. /\ todo \in SUBSET Steps /\ job \in [Jobs -> JobStatuses] /\ answered \in SUBSET Jobs
      /\ stepOf \in [Jobs -> 0..N] /\ succeeded \in SUBSET Jobs
      /\ reported \in SUBSET Steps /\ lost \in SUBSET Jobs
      /\ thread \in [op : {"refresh", "cancel"}, read : Task, write : Task]
      /\ faults \in 0..MaxFaults /\ MaxFaults \in Nat
    BY <1>1, TasksAssumption DEF TaskInv, TypeOK
<1>3. faults' \in 0..MaxFaults
    <2>1. faults' = faults \/ (faults < MaxFaults /\ faults' = faults + 1)
        BY DEF ThreadWrites
    <2> QED
        BY <1>2, <2>1
<1>4. Healthy(thread.write, stepOf, succeeded, reported) /\ Forward(thread.read, thread.write)
    BY <1>1 DEF TaskInv, ThreadInv
<1>5. TypeOK'
    BY <1>1, <1>2, <1>3 DEF TypeOK
<1>6. JobsInv'
    BY <1>1 DEF TaskInv, JobsInv
<1>7. ThreadInv'
    BY <1>1 DEF ThreadInv
<1>8. Healthy(task', stepOf', succeeded', reported')
    BY <1>1, <1>4
<1>9. MovesForward
    <2>1. CASE Overtaken
        BY <1>1, <2>1 DEF MovesForward
    <2>2. CASE ~Overtaken
        BY <1>1, <1>4, <2>2 DEF MovesForward, Overtaken
    <2> QED
        BY <2>1, <2>2
<1>10. EndsKnown'
    <2> SUFFICES ASSUME NEW j \in Jobs, job'[j] # "new"
                 PROVE  (Ended(task, j) \/ EndToCome(j) \/ j \in lost)'
        BY DEF EndsKnown
    <2>1. Ended(task, j) \/ EndToCome(j) \/ j \in lost
        BY <1>1 DEF TaskInv, EndsKnown
    <2>2. Ended(thread.write, j) => Ended(task', j)
        BY <1>1
    <2>3. Ended(task, j) /\ ~Ended(thread.write, j) => j \in lost'
        BY <1>1
    <2>4. job[j] \in {"queued", "running"} => EndToCome(j)'
        BY <1>1 DEF EndToCome
    <2>5. j \in lost => j \in lost'
        BY <1>1
    <2> QED
        BY <2>1, <2>2, <2>3, <2>4, <2>5 DEF EndToCome, Ended
<1> QED
    BY <1>5, <1>6, <1>7, <1>8, <1>9, <1>10 DEF TaskInv

\* and the end of the process.
LEMMA RestartKeeps ==
    ASSUME TaskInv, Restart
    PROVE  TaskInv' /\ MovesForward
<1>1. /\ task' = task /\ todo' = {} /\ thread' = NoCopy
      /\ job' = [j \in Jobs |-> IF job[j] \in {"queued", "running"} THEN "gone" ELSE job[j]]
      /\ answered' = answered /\ stepOf' = stepOf
      /\ succeeded' = succeeded /\ reported' = reported
      /\ lost' = lost \cup {j \in Jobs : stepOf[j] # 0 /\ ~Ended(task, j)}
      /\ faults < MaxFaults /\ faults' = faults + 1
    BY DEF Restart
<1>2. /\ task \in Task /\ job \in [Jobs -> JobStatuses] /\ answered \in SUBSET Jobs
      /\ stepOf \in [Jobs -> 0..N] /\ succeeded \in SUBSET Jobs
      /\ reported \in SUBSET Steps /\ lost \in SUBSET Jobs
      /\ faults \in 0..MaxFaults /\ MaxFaults \in Nat
    BY TasksAssumption DEF TaskInv, TypeOK
<1>3. job' \in [Jobs -> JobStatuses]
    BY <1>1, <1>2 DEF JobStatuses
<1>4. faults' \in 0..MaxFaults
    BY <1>1, <1>2
<1>5. TypeOK'
    BY <1>1, <1>2, <1>3, <1>4 DEF TypeOK
<1>6. JobsInv'
    <2>1. \A j \in Jobs : job'[j] = "new" <=> job[j] = "new"
        BY <1>1
    <2> QED
        BY <1>1, <2>1 DEF TaskInv, JobsInv
<1>7. ThreadInv'
    BY <1>1 DEF ThreadInv
<1>8. Healthy(task', stepOf', succeeded', reported')
    BY <1>1 DEF TaskInv
<1>9. EndsKnown'
    <2> SUFFICES ASSUME NEW j \in Jobs, job'[j] # "new"
                 PROVE  Ended(task', j) \/ j \in lost'
        BY DEF EndsKnown, Ended
    <2>1. stepOf[j] # 0
        <3>1. job[j] # "new"
            BY <1>1
        <3>2. stepOf[j] \in Steps /\ 0 \notin Steps
            BY <3>1, JobHasStep, TasksAssumption DEF Steps
        <3> QED
            BY <3>2
    <2> QED
        BY <1>1, <2>1
<1> QED
    BY <1>1, <1>2, <1>5, <1>6, <1>7, <1>8, <1>9, ForwardSame DEF TaskInv, MovesForward

-------------------------------------------------------------------------------
(* The theorems.                                                           *)

\* The invariant holds of the task that was just planned.
LEMMA TaskInvInit ==
    ASSUME Init
    PROVE  TaskInv
<1> DEFINE stored == [steps    |-> [s \in Steps |-> IF s = 1 THEN "ready" ELSE "pending"],
                      active   |-> 0,
                      blockers |-> {},
                      links    |-> [j \in Jobs |-> "none"]]
<1>1. /\ task = Refresh(stored) /\ todo \in {Steps, {}}
      /\ job = [j \in Jobs |-> "new"] /\ answered = {} /\ stepOf = [j \in Jobs |-> 0]
      /\ thread = NoCopy /\ faults = 0
      /\ succeeded = {} /\ reported = {} /\ lost = {}
    BY DEF Init
<1>2. stored \in Task
    BY TasksAssumption DEF Task, StepStates, ActiveStates, LinkStatuses
<1>3. Healthy(stored, stepOf, succeeded, reported)
    BY DEF Healthy, LiveStates
<1> HIDE DEF stored
<1>4. task \in Task /\ Healthy(task, stepOf, succeeded, reported)
    BY <1>1, <1>2, <1>3, RefreshDoes, RefreshKeeps
<1>5. TypeOK
    BY <1>1, <1>4, TasksAssumption DEF TypeOK, JobStatuses
<1>6. JobsInv
    BY <1>1 DEF JobsInv
<1>7. ThreadInv
    BY <1>1 DEF ThreadInv
<1>8. EndsKnown
    BY <1>1 DEF EndsKnown
<1> QED
    BY <1>4, <1>5, <1>6, <1>7, <1>8 DEF TaskInv

\* Every step keeps the invariant and the record moves forward in it.
LEMMA TaskStep ==
    ASSUME TaskInv, [Next]_vars
    PROVE  TaskInv' /\ MovesForward
<1>1. CASE \/ \E k \in Steps : BeginAgain(k) \/ AnswerItself(k)
           \/ \E s \in Steps : SubmitRaises(s)
           \/ AskOrDeny \/ Approve \/ Summarise
    BY <1>1, PromptKeeps
<1>2. CASE \E j \in Jobs, s \in Steps : Submit(j, s) \/ SubmitRefused(j, s)
    BY <1>2, SubmitKeeps, SubmitRefusedKeeps
<1>3. CASE \E j \in Jobs : JobStep(j)
    <2>1. PICK j \in Jobs : JobStep(j)
        BY <1>3
    <2>2. CASE Start(j)
        BY <2>2, StartKeeps
    <2>3. CASE Progress(j)
        BY <2>3, ProgressKeeps
    <2>4. CASE \E outcome \in Outcomes : Finish(j, outcome)
        BY <2>4, FinishKeeps
    <2>5. CASE ReplayStart(j) \/ \E outcome \in Outcomes : ReplayFinish(j, outcome)
        BY <2>5, ReplayKeeps
    <2>6. CASE ThreadCancels(j)
        BY <2>6, ThreadCancelsKeeps
    <2> QED
        BY <2>1, <2>2, <2>3, <2>4, <2>5, <2>6 DEF JobStep
<1>4. CASE ThreadReads \/ ThreadWrites
    BY <1>4, ThreadReadsKeeps, ThreadWritesKeeps
<1>5. CASE Restart
    BY <1>5, RestartKeeps
<1>6. CASE UNCHANGED vars
    <2>1. /\ UNCHANGED <<jobVars, thread>> /\ task' = task /\ todo' = todo /\ faults' = faults
          /\ UNCHANGED history
        BY <1>6 DEF vars
    <2>2. /\ task \in Task /\ todo \in SUBSET Steps /\ faults \in 0..MaxFaults
          /\ Healthy(task, stepOf, succeeded, reported)
        BY DEF TaskInv, TypeOK
    <2> QED
        BY <2>1, <2>2, ForwardSame, HistorySame, TaskOnlyKeeps
<1> QED
    BY <1>1, <1>2, <1>3, <1>4, <1>5, <1>6 DEF Next

\* The rows and every copy that may still replace them are healthy, always.
THEOREM TaskInvariant == Spec => []TaskInv
<1>1. Init => TaskInv
    BY TaskInvInit
<1>2. TaskInv /\ [Next]_vars => TaskInv'
    BY TaskStep
<1> QED
    BY <1>1, <1>2, PTL DEF Spec

\* The rows, the jobs and the copy of a server thread keep their types.
THEOREM TaskTyped == Spec => []TypeOK
<1>1. TaskInv => TypeOK
    BY DEF TaskInv
<1> QED
    BY <1>1, TaskInvariant, PTL

\* Whatever is repeated, lost, cancelled or overwritten, a step is shown as
\* completed only with the success of a job of its own on record beside it, or a
\* report of the assistant behind it.
THEOREM CompletionsBacked == Spec => []SuccessIsBacked
<1>1. TaskInv => SuccessIsBacked
    BY DEF TaskInv, Healthy, SuccessIsBacked
<1> QED
    BY <1>1, TaskInvariant, PTL

\* A step shown as queued or running has a job whose end is still to come, or whose own
\* end was swallowed with its notification, with the process, or under an old version.
THEOREM LiveStepsLive == Spec => []LiveStepHasLiveJob
<1>1. TaskInv => LiveStepHasLiveJob
    <2> SUFFICES ASSUME TaskInv, NEW s \in Steps, task.steps[s] \in LiveStates
                 PROVE  \E j \in Jobs : /\ stepOf[j] = s
                                        /\ task.links[j] \in LiveStates
                                        /\ (EndToCome(j) \/ j \in lost)
        BY DEF LiveStepHasLiveJob
    <2>1. PICK j \in Jobs : stepOf[j] = s /\ task.links[j] \in LiveStates
        BY DEF TaskInv, Healthy
    <2>2. job[j] # "new"
        BY <2>1, TasksAssumption DEF TaskInv, JobsInv, Steps
    <2>3. ~Ended(task, j)
        BY <2>1 DEF Ended, LiveStates, EndStatuses
    <2>4. EndToCome(j) \/ j \in lost
        BY <2>2, <2>3 DEF TaskInv, EndsKnown
    <2> QED
        BY <2>1, <2>4
<1> QED
    BY <1>1, TaskInvariant, PTL

\* The reason why a step failed or was interrupted is on record with it, and goes
\* with its completion, in every version that is ever written.
THEOREM ReasonsOnRecord == Spec => []BlockersMatchSteps
<1>1. TaskInv => BlockersMatchSteps
    BY DEF TaskInv, Healthy, BlockersMatchSteps
<1> QED
    BY <1>1, TaskInvariant, PTL

\* Replayed, repeated and late job events never take the record of a job back:
\* only a server thread that writes an older version can.
THEOREM RecordForward == Spec => RecordMovesForward
<1>1. TaskInv /\ [Next]_vars =>
          [\A j \in Jobs :
               \/ Rank(task'.links[j]) >= Rank(task.links[j])
                      /\ (task.links[j] \in EndStatuses => task'.links[j] = task.links[j])
               \/ Overtaken /\ task' = thread.write]_vars
    <2> SUFFICES ASSUME TaskInv, [Next]_vars, NEW j \in Jobs
                 PROVE  \/ Rank(task'.links[j]) >= Rank(task.links[j])
                               /\ (task.links[j] \in EndStatuses => task'.links[j] = task.links[j])
                        \/ Overtaken /\ task' = thread.write
        OBVIOUS
    <2>1. MovesForward
        BY TaskStep
    <2> QED
        BY <2>1 DEF MovesForward, Forward
<1> QED
    BY <1>1, TaskInvariant, PTL DEF Spec, RecordMovesForward
===============================================================================
