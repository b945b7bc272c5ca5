----------------------- MODULE BufferedCommitterProofs -----------------------
(***************************************************************************)
(* Proofs about BufferedCommitter for every number of messages, calls,     *)
(* batch size and interval, with or without a pre-commit hook.             *)
(***************************************************************************)
EXTENDS BufferedCommitter, FiniteSetTheorems, TLAPS

\* The acknowledged messages that are not marked.
Exposed == {m \in acked : m > marked}

\* The request being served is no later than the message that is about to be
\* committed, and is covered when it is answered.
RequestCovered ==
  /\ pc = "commit" => req <= lastSeen
  /\ pc = "complete" => req <= marked \/ req <= lastSeen

\* numberOfMessagesObserved counts at least the exposed messages, the request
\* being served not included; a request is answered with success before it is
\* marked only while the batch is not full.
ObservedCounts ==
  /\ Cardinality(Exposed) <= observed
  /\ pc = "commit" /\ req # Nil => Cardinality(Exposed) + 1 <= observed
  /\ pc = "complete" =>
       \/ req <= marked
       \/ /\ Cardinality(Exposed) + 1 <= observed
          /\ reqOk => observed < CommitBatchSize

IInv == TypeOK /\ AckedIsCovered /\ RequestCovered /\ ObservedCounts /\ ExposureBound

(***************************************************************************)
(* Messages and sets of messages.                                          *)
(***************************************************************************)

\* Offsets, marks and nil of buffered_committer.go are numbers.
LEMMA Offsets ==
  ASSUME TypeOK
  PROVE  /\ Messages \subseteq Nat /\ 0 \notin Messages
         /\ req \in Nat /\ lastSeen \in Nat /\ marked \in Nat /\ observed \in Nat
         /\ acked \subseteq Messages
BY CommitterAssumption DEF TypeOK, Messages, Nil

\* getLatestMessage returns one of its arguments, and the later one.
LEMMA LatestProperties ==
  ASSUME NEW a \in Nat, NEW b \in Nat
  PROVE  /\ Latest(a, b) \in {a, b} /\ Latest(a, b) \in Nat
         /\ a <= Latest(a, b) /\ b <= Latest(a, b)
BY DEF Latest

\* The exposed messages can be counted, before and after a step.
LEMMA ExposedFinite ==
  ASSUME TypeOK, TypeOK'
  PROVE  /\ IsFiniteSet(Exposed) /\ Cardinality(Exposed) \in Nat
         /\ IsFiniteSet(Exposed') /\ Cardinality(Exposed') \in Nat
<1>1. IsFiniteSet(Messages)
  BY FS_Interval, CommitterAssumption DEF Messages
<1>2. Exposed \in SUBSET Messages /\ Exposed' \in SUBSET Messages
  BY DEF Exposed, TypeOK
<1>3. QED
  BY <1>1, <1>2, FS_Subset, FS_CardinalityType

(***************************************************************************)
(* Types.                                                                  *)
(***************************************************************************)

\* The steps of callers, Stop and time in buffered_committer.go.
LEMMA EnvironmentType ==
  ASSUME TypeOK,
         \/ \E m \in Messages : Commit(m) \/ SendOnClosed(m)
         \/ Stop \/ TimePasses \/ Terminated \/ UNCHANGED vars
  PROVE  TypeOK'
<1> USE DEF TypeOK, goVars, callerVars, vars
<1>1. ASSUME NEW m \in Messages, Commit(m)
      PROVE  TypeOK'
  BY <1>1, CommitterAssumption DEF Commit
<1>2. CASE TimePasses
  BY <1>2, CommitterAssumption DEF TimePasses, Nil
<1>3. CASE \E m \in Messages : SendOnClosed(m)
  BY <1>3 DEF SendOnClosed
<1>4. CASE Stop \/ Terminated \/ UNCHANGED vars
  BY <1>4 DEF Stop, Terminated
<1>5. QED
  BY <1>1, <1>2, <1>3, <1>4

\* The steps of the goroutine of buffered_committer.go: it commits only when there
\* is a message and answers only when there is a caller.
LEMMA GoroutineType ==
  ASSUME TypeOK, Goroutine
  PROVE  TypeOK'
<1> USE DEF TypeOK, goVars, callerVars
<1>1. ASSUME NEW m \in Messages, Receive(m)
      PROVE  TypeOK'
  <2>1. Latest(m, lastSeen) \in {m, lastSeen} /\ m <= Latest(m, lastSeen)
        /\ Latest(m, lastSeen) \in Nat /\ m \in Nat /\ m # 0
    BY Offsets, LatestProperties
  <2>2. Latest(m, lastSeen) \in Messages
    BY <2>1 DEF Nil
  <2>3. caller' \in [Messages -> {"idle", "sending", "waiting"}]
    BY <1>1 DEF Receive
  <2>4. QED
    BY <1>1, <2>1, <2>2, <2>3 DEF Receive, Nil
<1>2. CASE Complete
  BY <1>2 DEF Complete
<1>3. CASE TickIgnored \/ Exit
  BY <1>3, CommitterAssumption DEF TickIgnored, Exit, Nil
<1>4. CASE TickCommits
  BY <1>4, CommitterAssumption DEF TickCommits, HasMessage, Nil
<1>5. CASE HookFails
  BY <1>5 DEF HookFails, AfterCommit
<1>6. CASE CommitAndReset
  <2>1. Mark(lastSeen) \in {marked, lastSeen}
    BY Offsets, LatestProperties DEF Mark
  <2>2. QED
    BY <1>6, <2>1 DEF CommitAndReset, AfterCommit
<1>7. QED
  BY <1>1, <1>2, <1>3, <1>4, <1>5, <1>6 DEF Goroutine

(***************************************************************************)
(* The inductive invariant.                                                *)
(***************************************************************************)

\* A new committer satisfies the invariant.
LEMMA InitIInv ==
  ASSUME Init
  PROVE  IInv
<1>1. TypeOK
  <2>1. 0 \in 0 .. MaxTime /\ 0 \in 0 .. MaxCalls /\ 0 \in Nat
    BY CommitterAssumption
  <2>2. caller \in [Messages -> {"idle", "sending", "waiting"}] /\ calls \in [Messages -> 0 .. MaxCalls]
    BY <2>1 DEF Init
  <2>3. reqOk \in BOOLEAN /\ closed \in BOOLEAN /\ crashed \in BOOLEAN
    BY DEF Init
  <2>4. QED
    BY <2>1, <2>2, <2>3 DEF Init, TypeOK, Nil
<1>2. AckedIsCovered /\ RequestCovered
  BY DEF Init, AckedIsCovered, RequestCovered
<1>3. Exposed = {} /\ Cardinality(Exposed) = 0
  BY FS_EmptySet DEF Init, Exposed
<1>4. ObservedCounts
  BY <1>3 DEF Init, ObservedCounts
<1>5. ExposureBound
  BY <1>3, CommitterAssumption DEF ExposureBound, Exposed
<1>6. QED
  BY <1>1, <1>2, <1>4, <1>5 DEF IInv

\* What the invariant says besides types depends on a few variables only: steps of
\* buffered_committer.go that leave those alone preserve it.
LEMMA UntouchedIInv ==
  ASSUME IInv, TypeOK',
         UNCHANGED <<observed, lastSeen, acked, marked>>,
         \/ UNCHANGED <<pc, req, reqOk>>
         \/ pc' \in {"select", "exited"}
         \/ pc' = "commit" /\ req' = Nil
  PROVE  IInv'
<1>1. Exposed' = Exposed
  BY DEF Exposed
<1>2. AckedIsCovered'
  BY DEF IInv, AckedIsCovered
<1>3. RequestCovered'
  BY Offsets DEF IInv, RequestCovered, Nil
<1>4. ObservedCounts'
  BY <1>1 DEF IInv, ObservedCounts
<1>5. ExposureBound'
  BY DEF IInv, ExposureBound
<1>6. QED
  BY <1>2, <1>3, <1>4, <1>5 DEF IInv

\* A request is received: it is the last message seen or an earlier one, and the
\* counter now includes it.
LEMMA ReceiveIInv ==
  ASSUME IInv, TypeOK', NEW m \in Messages, Receive(m)
  PROVE  IInv'
<1>1. TypeOK
  BY DEF IInv
<1>2. /\ lastSeen' = Latest(m, lastSeen) /\ req' = m /\ reqOk' = TRUE
      /\ observed' = observed + 1 /\ acked' = acked /\ marked' = marked
      /\ pc' = IF observed' >= CommitBatchSize THEN "commit" ELSE "complete"
  BY DEF Receive, BatchFull
<1>3. m \in Nat /\ lastSeen \in Nat /\ observed \in Nat /\ marked \in Nat
      /\ \A k \in acked : k \in Nat
  BY <1>1, Offsets
<1>4. m <= lastSeen' /\ lastSeen <= lastSeen' /\ lastSeen' \in Nat
  BY <1>2, <1>3, LatestProperties
<1>5. Exposed' = Exposed /\ Cardinality(Exposed) \in Nat
  BY <1>1, <1>2, ExposedFinite DEF Exposed
<1>6. AckedIsCovered'
  BY <1>2, <1>3, <1>4 DEF IInv, AckedIsCovered
<1>7. RequestCovered'
  BY <1>2, <1>4 DEF RequestCovered
<1>8. ObservedCounts'
  <2>1. Cardinality(Exposed) <= observed
    BY DEF IInv, ObservedCounts
  <2>2. Cardinality(Exposed') + 1 <= observed'
    BY <1>2, <1>3, <1>5, <2>1
  <2>3. pc' = "complete" => observed' < CommitBatchSize
    BY <1>2, <1>3, CommitterAssumption
  <2>4. Cardinality(Exposed') <= observed'
    BY <1>2, <1>3, <1>5, <2>1
  <2>5. QED
    BY <2>2, <2>3, <2>4 DEF ObservedCounts
<1>9. ExposureBound'
  BY <1>2 DEF IInv, ExposureBound
<1>10. QED
  BY <1>6, <1>7, <1>8, <1>9 DEF IInv

\* A request is answered: what was exposed grows by the request at most, and only
\* when it is answered with success and not marked.
LEMMA CompleteIInv ==
  ASSUME IInv, TypeOK', Complete
  PROVE  IInv'
<1>1. TypeOK
  BY DEF IInv
<1>2. /\ acked' = IF reqOk THEN acked \cup {req} ELSE acked
      /\ pc = "complete" /\ pc' = "select"
      /\ UNCHANGED <<observed, lastSeen, marked>>
  BY DEF Complete
<1>3. AckedIsCovered'
  BY <1>2 DEF IInv, AckedIsCovered, RequestCovered
<1>4. RequestCovered'
  BY <1>2 DEF RequestCovered
<1>5. /\ Cardinality(Exposed) \in Nat /\ Cardinality(Exposed') \in Nat
      /\ IsFiniteSet(Exposed) /\ observed \in Nat /\ marked \in Nat /\ req \in Nat
  BY <1>1, ExposedFinite, Offsets
<1>6. /\ Cardinality(Exposed) <= observed
      /\ Cardinality(Exposed) < CommitBatchSize
  BY DEF IInv, ObservedCounts, ExposureBound, Exposed
<1>7. Cardinality(Exposed') <= observed /\ Cardinality(Exposed') < CommitBatchSize
  <2>1. CASE req <= marked \/ ~reqOk
    <3>1. Exposed' = Exposed
      BY <1>2, <1>5, <2>1 DEF Exposed
    <3>2. QED
      BY <1>6, <3>1
  <2>2. CASE ~(req <= marked) /\ reqOk
    <3>1. Exposed' = Exposed \cup {req}
      BY <1>2, <1>5, <2>2 DEF Exposed
    <3>2. Cardinality(Exposed') <= Cardinality(Exposed) + 1
      BY <1>5, <3>1, FS_AddElement
    <3>3. Cardinality(Exposed) + 1 <= observed /\ observed < CommitBatchSize
      BY <1>2, <2>2 DEF IInv, ObservedCounts
    <3>4. QED
      BY <1>5, <3>2, <3>3, CommitterAssumption
  <2>3. QED
    BY <2>1, <2>2
<1>8. ObservedCounts' /\ ExposureBound'
  BY <1>2, <1>7 DEF ObservedCounts, ExposureBound, Exposed
<1>9. QED
  BY <1>3, <1>4, <1>8 DEF IInv

\* The hook fails: the caller, if there is one, is answered with an error.
LEMMA HookFailsIInv ==
  ASSUME IInv, TypeOK', HookFails
  PROVE  IInv'
<1>1. /\ pc = "commit" /\ reqOk' = FALSE /\ pc' = AfterCommit
      /\ UNCHANGED <<req, observed, lastSeen, acked, marked>>
  BY DEF HookFails, callerVars
<1>2. Exposed' = Exposed
  BY <1>1 DEF Exposed
<1>3. AckedIsCovered' /\ ExposureBound'
  BY <1>1 DEF IInv, AckedIsCovered, ExposureBound
<1>4. RequestCovered'
  BY <1>1 DEF IInv, RequestCovered, AfterCommit
<1>5. ObservedCounts'
  BY <1>1, <1>2 DEF IInv, ObservedCounts, AfterCommit
<1>6. QED
  BY <1>3, <1>4, <1>5 DEF IInv

\* A commit marks everything acknowledged so far: nothing is exposed after it.
LEMMA CommitIInv ==
  ASSUME IInv, TypeOK', CommitAndReset
  PROVE  IInv'
<1>1. TypeOK
  BY DEF IInv
<1>2. /\ pc = "commit" /\ pc' = AfterCommit /\ observed' = 0
      /\ marked' = Latest(marked, lastSeen)
      /\ UNCHANGED <<req, acked>>
  BY DEF CommitAndReset, Mark, callerVars
<1>3. /\ marked \in Nat /\ lastSeen \in Nat /\ req \in Nat
      /\ \A k \in acked : k \in Nat
  BY <1>1, Offsets
<1>4. marked <= marked' /\ lastSeen <= marked' /\ marked' \in Nat
  BY <1>2, <1>3, LatestProperties
<1>5. \A k \in acked : k <= marked'
  BY <1>3, <1>4 DEF IInv, AckedIsCovered
<1>6. req <= marked'
  BY <1>2, <1>3, <1>4 DEF IInv, RequestCovered
<1>7. Exposed' = {} /\ Cardinality(Exposed') = 0
  <2>1. Exposed' = {}
    BY <1>2, <1>3, <1>4, <1>5 DEF Exposed
  <2>2. QED
    BY <2>1, FS_EmptySet
<1>8. AckedIsCovered'
  BY <1>2, <1>5 DEF AckedIsCovered
<1>9. RequestCovered'
  BY <1>2, <1>6 DEF RequestCovered, AfterCommit
<1>10. ObservedCounts'
  BY <1>2, <1>6, <1>7 DEF ObservedCounts, AfterCommit
<1>11. ExposureBound'
  BY <1>7, CommitterAssumption DEF ExposureBound, Exposed
<1>12. QED
  BY <1>8, <1>9, <1>10, <1>11 DEF IInv

\* Every step of buffered_committer.go preserves the invariant.
LEMMA NextIInv ==
  ASSUME IInv, [Next]_vars
  PROVE  IInv'
<1>1. TypeOK'
  BY EnvironmentType, GoroutineType DEF IInv, Next
<1>2. CASE \/ \E m \in Messages : Commit(m) \/ SendOnClosed(m)
           \/ Stop \/ TimePasses \/ Terminated \/ UNCHANGED vars
           \/ TickIgnored \/ TickCommits \/ Exit
  <2>1. /\ UNCHANGED <<observed, lastSeen, acked, marked>>
        /\ \/ UNCHANGED <<pc, req, reqOk>>
           \/ pc' \in {"select", "exited"}
           \/ pc' = "commit" /\ req' = Nil
    BY <1>2 DEF Commit, SendOnClosed, Stop, TimePasses, Terminated, TickIgnored,
                TickCommits, Exit, goVars, callerVars, vars
  <2>2. QED
    BY <1>1, <2>1, UntouchedIInv
<1>3. QED
  BY <1>1, <1>2, ReceiveIInv, CompleteIInv, HookFailsIInv, CommitIInv DEF Next, Goroutine

\* The invariant of buffered_committer.go.
THEOREM CommitterInvariance == Spec => []IInv
BY InitIInv, NextIInv, PTL DEF Spec

\* buffered_committer.go is type correct: in particular it never commits the nil
\* message and never answers a request that is not there.
THEOREM CommitterTypeCorrect == Spec => []TypeOK
<1>1. IInv => TypeOK
  BY DEF IInv
<1>2. QED
  BY <1>1, CommitterInvariance, PTL

\* What Commit has acknowledged is marked or will be committed next, whatever the
\* order of the requests and the outcome of the hooks.
THEOREM AckedCovered == Spec => []AckedIsCovered
<1>1. IInv => AckedIsCovered
  BY DEF IInv
<1>2. QED
  BY <1>1, CommitterInvariance, PTL

\* Fewer than CommitBatchSize acknowledged messages are unmarked, and dropped by a Stop.
THEOREM ExposureBounded == Spec => []ExposureBound
<1>1. IInv => ExposureBound
  BY DEF IInv
<1>2. QED
  BY <1>1, CommitterInvariance, PTL

(***************************************************************************)
(* The refinement.                                                         *)
(***************************************************************************)

\* The only caller that waits for an answer is the one being served.
OnlyReqWaits ==
  \A m \in Messages : caller[m] = "waiting" => pc \in {"commit", "complete"} /\ req = m

\* Every step of buffered_committer.go serves one request at a time.
LEMMA NextOnlyReqWaits ==
  ASSUME TypeOK, OnlyReqWaits, [Next]_vars
  PROVE  OnlyReqWaits'
<1> USE DEF OnlyReqWaits, goVars, callerVars
<1>1. ASSUME NEW m \in Messages, Commit(m) \/ SendOnClosed(m)
      PROVE  OnlyReqWaits'
  BY <1>1 DEF Commit, SendOnClosed, TypeOK
<1>2. ASSUME NEW m \in Messages, Receive(m)
      PROVE  OnlyReqWaits'
  BY <1>2 DEF Receive, TypeOK
<1>3. CASE Complete
  BY <1>3 DEF Complete, TypeOK
<1>4. CASE Stop \/ TimePasses \/ Terminated \/ TickIgnored \/ UNCHANGED vars
  BY <1>4 DEF Stop, TimePasses, Terminated, TickIgnored, vars
<1>5. CASE TickCommits \/ Exit
  BY <1>5 DEF TickCommits, Exit
<1>6. CASE HookFails \/ CommitAndReset
  <2>1. 0 \notin Messages
    BY Offsets
  <2>2. QED
    BY <1>6, <2>1 DEF HookFails, CommitAndReset, AfterCommit, Nil
<1>7. QED
  BY <1>1, <1>2, <1>3, <1>4, <1>5, <1>6 DEF Next, Goroutine

\* The contract counts as the committer does.
LEMMA ContractCardinality == \A S : Contract!Cardinality(S) = Cardinality(S)
BY DEF Cardinality, Contract!Cardinality, IsFiniteSet, Contract!IsFiniteSet

\* The callers' steps in buffered_committer.go are those of the contract.
LEMMA CallersKeepContract ==
  ASSUME NEW m \in Messages, Commit(m) \/ SendOnClosed(m)
  PROVE  [Contract!Next]_(Contract!vars)
<1> USE DEF Contract!Messages, Messages
<1>1. CASE Commit(m)
  <2>1. Contract!Submit(m)
    BY <1>1 DEF Commit, goVars, Contract!Submit
  <2>2. QED
    BY <2>1 DEF Contract!Next
<1>2. CASE SendOnClosed(m)
  <2>1. Contract!Crash
    BY <1>2 DEF SendOnClosed, goVars, callerVars, Contract!Crash
  <2>2. QED
    BY <2>1 DEF Contract!Next
<1>3. QED
  BY <1>1, <1>2

\* What the goroutine of buffered_committer.go does to its callers and to the
\* session is allowed by the contract.
LEMMA GoroutineKeepsContract ==
  ASSUME IInv, IInv', OnlyReqWaits, Goroutine
  PROVE  [Contract!Next]_(Contract!vars)
<1> USE DEF Contract!Messages, Messages
<1>1. TypeOK
  BY DEF IInv
<1>2. /\ req \in Nat /\ lastSeen \in Nat /\ marked \in Nat /\ Messages \subseteq Nat
  BY <1>1, Offsets
<1>3. pc = "select" => ~Contract!Serving
  BY DEF OnlyReqWaits, Contract!Serving
<1>4. ASSUME NEW m \in Messages, Receive(m)
      PROVE  [Contract!Next]_(Contract!vars)
  <2>1. Latest(m, lastSeen) = Contract!Later(lastSeen, m)
    BY <1>2 DEF Latest, Contract!Later
  <2>2. Contract!Take(m)
    BY <1>3, <1>4, <2>1 DEF Receive, Contract!Take
  <2>3. QED
    BY <2>2 DEF Contract!Next
<1>5. CASE Complete
  <2>1. req \in Messages /\ reqOk \in BOOLEAN
    BY <1>1, <1>5 DEF Complete, TypeOK
  <2>2. req <= marked \/ req <= lastSeen
    BY <1>5 DEF Complete, IInv, RequestCovered
  <2>3. Cardinality({k \in acked' : k > marked}) < CommitBatchSize
    <3>1. marked' = marked
      BY <1>5 DEF Complete
    <3>2. QED
      BY <3>1 DEF IInv, ExposureBound
  <2>4. Contract!Cardinality({k \in acked' : k > marked}) < CommitBatchSize
    BY <2>3, ContractCardinality
  <2>5. Contract!Answer(req, reqOk)
    BY <1>5, <2>2, <2>4 DEF Complete, Contract!Answer
  <2>6. QED
    BY <2>1, <2>5 DEF Contract!Next
<1>6. CASE TickIgnored \/ TickCommits \/ HookFails
  BY <1>6 DEF TickIgnored, TickCommits, HookFails, AfterCommit, goVars, callerVars, Contract!vars
<1>7. CASE CommitAndReset
  <2>1. lastSeen # 0
    BY <1>1, <1>7 DEF CommitAndReset, TypeOK, Nil
  <2>2. Latest(marked, lastSeen) = Contract!Later(marked, lastSeen)
    BY DEF Latest, Contract!Later
  <2>3. Contract!MarkSeen
    BY <1>7, <2>1, <2>2 DEF CommitAndReset, Mark, AfterCommit, Nil, callerVars, Contract!MarkSeen
  <2>4. QED
    BY <2>3 DEF Contract!Next
<1>8. CASE Exit
  <2>1. Contract!End
    BY <1>3, <1>8 DEF Exit, callerVars, Contract!End
  <2>2. QED
    BY <2>1 DEF Contract!Next
<1>9. QED
  BY <1>4, <1>5, <1>6, <1>7, <1>8 DEF Goroutine

\* Every step of buffered_committer.go is one that the contract allows.
LEMMA NextKeepsContract ==
  ASSUME IInv, IInv', OnlyReqWaits, [Next]_vars
  PROVE  [Contract!Next]_(Contract!vars)
<1>1. CASE Stop
  <2>1. Contract!Stop
    BY <1>1 DEF Stop, goVars, callerVars, Contract!Stop
  <2>2. QED
    BY <2>1 DEF Contract!Next
<1>2. CASE TimePasses \/ Terminated \/ UNCHANGED vars
  BY <1>2 DEF TimePasses, Terminated, vars, goVars, callerVars, Contract!vars
<1>3. QED
  BY <1>1, <1>2, CallersKeepContract, GoroutineKeepsContract DEF Next

\* buffered_committer.go does what its sessions rely on.
THEOREM CommitterRefinement == Spec => CommitterContract
<1>1. Init => Contract!Init
  BY DEF Init, Nil, Messages, Contract!Init, Contract!Messages
<1>2. Init => OnlyReqWaits
  BY DEF Init, OnlyReqWaits
<1>3. IInv /\ OnlyReqWaits /\ [Next]_vars => OnlyReqWaits'
  BY NextOnlyReqWaits DEF IInv
<1>4. IInv /\ IInv' /\ OnlyReqWaits /\ [Next]_vars => [Contract!Next]_(Contract!vars)
  BY NextKeepsContract
<1>5. QED
  BY <1>1, <1>2, <1>3, <1>4, CommitterInvariance, PTL DEF Spec, CommitterContract, Contract!Spec

------------------------------------------------------------------------------
(***************************************************************************)
(* The commit on idle timeout.                                             *)
(***************************************************************************)

\* The goroutine is running and has a message to commit.
Idle == lastSeen # Nil /\ pc # "exited"

\* The ticker fires at this time, and lastSeenMessage has waited for more than an interval.
Overdue(k) == k % CommitInterval = 0 /\ seenAt + CommitInterval < k /\ k <= clock

\* A message has been seen since the last commit.  A tick that finds it overdue is the
\* present one, and is waiting to be received or has led to a commit.
TicksSeen ==
  /\ lastCommitTime <= clock
  /\ Idle => lastCommitTime <= seenAt /\ seenAt <= clock
  /\ tick # Nil /\ pc # "exited" => tick = clock
  /\ Idle => \A k \in Nat : Overdue(k) => k = clock /\ (tick = k \/ pc = "commit")

\* Times of buffered_committer.go, in units, are numbers.
LEMMA Times ==
  ASSUME TypeOK
  PROVE  /\ clock \in Nat /\ tick \in Nat /\ seenAt \in Nat /\ lastCommitTime \in Nat
         /\ CommitInterval \in Nat /\ CommitInterval > 0
BY CommitterAssumption DEF TypeOK

\* The ticker fires once in every interval.
LEMMA OneTickPerInterval ==
  ASSUME NEW n \in Nat, NEW d \in Nat \ {0}
  PROVE  \E k \in n + 1 .. n + d : k % d = 0
<1>1. n % d \in 0 .. d - 1
  OBVIOUS
<1>2. (n + d - (n % d)) % d = 0
  OBVIOUS
<1>3. n + d - (n % d) \in n + 1 .. n + d
  BY <1>1
<1>4. QED
  BY <1>2, <1>3

\* Without a pre-commit hook, every step of the committer keeps up with its ticker.
LEMMA NextTicksSeen ==
  ASSUME ~HookEnabled, TypeOK, TypeOK', TicksSeen, [Next]_vars
  PROVE  TicksSeen'
<1>1. /\ clock \in Nat /\ tick \in Nat /\ seenAt \in Nat /\ lastCommitTime \in Nat
      /\ CommitInterval \in Nat /\ CommitInterval > 0
  BY Times
<1>2. ASSUME NEW m \in Messages, Receive(m)
      PROVE  TicksSeen'
  <2>1. UNCHANGED <<clock, tick, lastCommitTime>> /\ pc = "select" /\ pc' \in {"commit", "complete"}
    BY <1>2 DEF Receive
  <2>2. CASE lastSeen = Nil
    <3>1. seenAt' = clock
      BY <1>2, <2>2 DEF Receive
    <3>2. \A k \in Nat : ~Overdue(k)'
      BY <1>1, <2>1, <3>1 DEF Overdue
    <3>3. QED
      BY <1>1, <2>1, <3>1, <3>2 DEF TicksSeen, Idle
  <2>3. CASE lastSeen # Nil
    BY <1>2, <2>1, <2>3 DEF Receive, TicksSeen, Idle, Overdue
  <2>4. QED
    BY <2>2, <2>3
<1>3. CASE TickIgnored
  <2>1. Idle => tick - lastCommitTime <= CommitInterval /\ tick = clock
    BY <1>3 DEF TickIgnored, TooSoon, HasMessage, SinceLastCommit, TicksSeen, Idle
  <2>2. Idle => \A k \in Nat : ~Overdue(k)
    BY <1>1, <2>1 DEF TicksSeen, Overdue
  <2>3. UNCHANGED <<clock, seenAt, lastCommitTime, lastSeen, pc>> /\ tick' = Nil
    BY <1>3 DEF TickIgnored, goVars
  <2>4. QED
    BY <2>2, <2>3 DEF TicksSeen, Idle, Overdue
<1>4. CASE TickCommits
  BY <1>4 DEF TickCommits, TicksSeen, Idle, Overdue
<1>5. CASE CommitAndReset
  BY <1>1, <1>5 DEF CommitAndReset, AfterCommit, TicksSeen, Idle
<1>6. CASE TimePasses
  <2>1. /\ clock' = clock + 1
        /\ UNCHANGED <<seenAt, lastCommitTime, lastSeen, pc>>
        /\ pc # "exited" => pc = "select" /\ tick = Nil
    BY <1>6 DEF TimePasses, Waiting, goVars
  <2>2. CASE pc = "exited"
    BY <1>1, <2>1, <2>2 DEF TicksSeen, Idle
  <2>3. CASE pc # "exited"
    <3>1. tick' = IF clock' % CommitInterval = 0 THEN clock' ELSE Nil
      BY <1>6, <2>1, <2>3 DEF TimePasses
    <3>2. ASSUME Idle, NEW k \in Nat, Overdue(k)'
          PROVE  k = clock' /\ tick' = k
      <4>1. ~Overdue(k)
        BY <1>1, <2>1, <2>3, <3>2 DEF TicksSeen, Overdue, Nil
      <4>2. k = clock'
        BY <1>1, <2>1, <3>2, <4>1 DEF Overdue
      <4>3. QED
        BY <3>1, <3>2, <4>2 DEF Overdue
    <3>3. QED
      BY <1>1, <2>1, <3>1, <3>2 DEF TicksSeen, Idle, Nil
  <2>4. QED
    BY <2>2, <2>3
<1>7. CASE Exit
  BY <1>7 DEF Exit, TicksSeen, Idle
<1>8. CASE Complete
  BY <1>8 DEF Complete, TicksSeen, Idle, Overdue
<1>9. CASE Stop \/ Terminated \/ UNCHANGED vars \/ \E m \in Messages : Commit(m) \/ SendOnClosed(m)
  BY <1>9 DEF Stop, Terminated, Commit, SendOnClosed, vars, goVars, callerVars, TicksSeen, Idle, Overdue
<1>10. QED
  BY <1>2, <1>3, <1>4, <1>5, <1>6, <1>7, <1>8, <1>9 DEF Next, Goroutine, HookFails

\* Without a pre-commit hook, the last message is committed within two intervals, at
\* whatever times messages arrive and ticks are dropped.
THEOREM IdleCommitted ==
  ASSUME ~HookEnabled
  PROVE  Spec => []CommittedWithinTwoIntervals
<1>1. Init => TicksSeen
  BY DEF Init, TicksSeen, Idle
<1>2. TypeOK /\ TypeOK' /\ TicksSeen /\ [Next]_vars => TicksSeen'
  BY NextTicksSeen
<1>3. ASSUME TypeOK, TicksSeen
      PROVE  CommittedWithinTwoIntervals
  <2> SUFFICES ASSUME Idle, clock - seenAt > 2 * CommitInterval
               PROVE  FALSE
    BY <1>3, Times DEF CommittedWithinTwoIntervals, Idle
  <2>1. PICK k \in seenAt + CommitInterval + 1 .. seenAt + CommitInterval + CommitInterval :
          k % CommitInterval = 0
    <3>1. seenAt + CommitInterval \in Nat /\ CommitInterval \in Nat \ {0}
      BY <1>3, Times
    <3>2. QED
      BY <3>1, OneTickPerInterval
  <2>2. k \in Nat /\ Overdue(k) /\ k # clock
    BY <1>3, <2>1, Times DEF Overdue
  <2>3. QED
    BY <1>3, <2>2 DEF TicksSeen
<1>4. QED
  BY <1>1, <1>2, <1>3, CommitterTypeCorrect, PTL DEF Spec

------------------------------------------------------------------------------
(***************************************************************************)
(* Progress: of a caller and the goroutine, neither waits for the other in *)
(* vain.                                                                   *)
(***************************************************************************)

\* A caller on done is the one whose request is being served, and the goroutine that has
\* an answer finds its caller there; one that has returned leaves nobody on done, and
\* whoever still comes finds commitRequests closed.
NobodyForgotten ==
  /\ OnlyReqWaits
  /\ IF pc \in {"commit", "complete"} THEN req # Nil => caller[req] = "waiting" ELSE req = Nil
  /\ pc = "exited" => closed

\* Every step of buffered_committer.go remembers its caller.
LEMMA NextNobodyForgotten ==
  ASSUME TypeOK, NobodyForgotten, [Next]_vars
  PROVE  NobodyForgotten'
<1> USE DEF NobodyForgotten, goVars, callerVars
<1>1. OnlyReqWaits'
  BY NextOnlyReqWaits
<1>2. ASSUME NEW m \in Messages, Commit(m) \/ SendOnClosed(m)
      PROVE  NobodyForgotten'
  BY <1>1, <1>2 DEF Commit, SendOnClosed, TypeOK
<1>3. ASSUME NEW m \in Messages, Receive(m)
      PROVE  NobodyForgotten'
  BY <1>1, <1>3 DEF Receive, TypeOK
<1>4. CASE Complete \/ Exit \/ TickCommits
  BY <1>1, <1>4 DEF Complete, Exit, TickCommits
<1>5. CASE HookFails \/ CommitAndReset
  BY <1>1, <1>5 DEF HookFails, CommitAndReset, AfterCommit
<1>6. CASE Stop \/ TimePasses \/ Terminated \/ TickIgnored \/ UNCHANGED vars
  BY <1>1, <1>6 DEF Stop, TimePasses, Terminated, TickIgnored, vars
<1>7. QED
  BY <1>2, <1>3, <1>4, <1>5, <1>6 DEF Next, Goroutine

\* Nobody hangs on done: what CommitReturns needs besides a hook that answers.
THEOREM CallersRemembered == Spec => []NobodyForgotten
<1>1. Init => NobodyForgotten
  BY DEF Init, NobodyForgotten, OnlyReqWaits
<1>2. IInv /\ NobodyForgotten /\ [Next]_vars => NobodyForgotten'
  BY NextNobodyForgotten DEF IInv
<1>3. QED
  BY <1>1, <1>2, CommitterInvariance, PTL DEF Spec
==============================================================================
