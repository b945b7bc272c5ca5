-------------------------- MODULE KafkaSessionsProofs --------------------------
(***************************************************************************)
(* Proofs about KafkaSessions, for every number of sessions and any sets   *)
(* of partitions and ports: sessions do not overlap, and the program ends  *)
(* only when every handler process that it launched is gone.               *)
(***************************************************************************)
EXTENDS KafkaSessions, FiniteSetTheorems, TLAPS

------------------------------------------------------------------------------
(***************************************************************************)
(* The inductive invariant.                                                *)
(***************************************************************************)

\* A part that has been taken down.
Down(i) ==
  /\ life[i] = [handler |-> "gone", runner |-> "ended"]
  /\ i \in closed
  /\ committer[i] = "ended"

\* The parts that have been set up are those of earlier sessions and, of the current
\* one, those that the handler knows.
Book ==
  /\ \A i \in Parts : life[i] # NotYet => i[1] <= session
  /\ \A i \in Parts : i[1] = session => (life[i] # NotYet <=> i \in handlers)
  /\ \A i \in Parts : committer[i] # "none" <=> life[i] # NotYet

\* The order in which Cleanup takes a part down: transporter, handler, runner,
\* committer.
Teardown ==
  /\ \A i \in Parts : committer[i] \in {"stopped", "ended"} => life[i].runner = "ended"
  /\ \A i \in Parts : life[i].runner = "ended" => life[i].handler = "gone"
  /\ \A i \in Parts : committer[i] \in {"stopped", "ended"} \/ i \in cleaning => i \in closed

\* What each phase of the binder leaves behind.  Sessions before the current one are
\* down, and between sessions all are.
Phases ==
  /\ \A i \in Parts : i[1] < session /\ life[i] # NotYet => Down(i)
  /\ binder \notin {"setup", "claims", "cleanup"} =>
       \A i \in Parts : life[i] # NotYet => Down(i)
  /\ cleaning # {} => binder = "cleanup"
  /\ binder = "cleanup" => Over(session)
  /\ session = 0 => binder \in {"consume", "notified", "exited"}
  /\ ~Running => BinderDone

\* The goroutines of the current session's claims.
Claims ==
  /\ \A p \in Partitions :
       claim[p] \in {"consuming", "returning"} => binder = "claims" /\ p \in assigned
  /\ \A p \in Partitions : claim[p] \in {"returning", "returned"} => <<session, p>> \in closed
  /\ binder = "cleanup" => \A p \in assigned : claim[p] \in {"returned", "skipped"}

IInv == SessionsTypeOK /\ Book /\ Teardown /\ Phases /\ Claims

------------------------------------------------------------------------------
\* Sessions are numbered from 1, and a part names its session and its partition
\* (types.go, PartionHandler).
LEMMA PartFields ==
  ASSUME SessionsTypeOK
  PROVE  /\ MaxSessions \in Nat /\ session \in Nat
         /\ \A i \in Parts : i[1] \in Nat /\ i[1] >= 1 /\ i[1] <= MaxSessions
                             /\ i[2] \in Partitions /\ i = <<i[1], i[2]>>
         /\ Current \subseteq Parts \/ session = 0
         /\ \A i \in Current : i[1] = session /\ i[2] \in assigned /\ i = <<session, i[2]>>
         /\ \A p \in Partitions : session > 0 => <<session, p>> \in Parts
BY SessionsAssumption DEF SessionsTypeOK, Parts, Sessions, Current

\* Binder.Start begins with no session.
LEMMA InitIInv == SessionsInit => IInv
<1> SUFFICES ASSUME SessionsInit PROVE IInv
  OBVIOUS
<1>1. SessionsTypeOK
  <2>1. Cardinality(cleaning) <= 1
    BY FS_EmptySet DEF SessionsInit
  <2>2. session \in 0 .. MaxSessions /\ over \subseteq 1 .. session
    BY SessionsAssumption DEF SessionsInit
  <2>3. QED
    BY <2>1, <2>2 DEF SessionsInit, SessionsTypeOK
<1>2. Book /\ Teardown
  BY <1>1, PartFields DEF SessionsInit, Book, Teardown, NotYet
<1>3. Phases /\ Claims
  BY <1>1, PartFields DEF SessionsInit, Phases, Claims, Running
<1>4. QED
  BY <1>1, <1>2, <1>3 DEF IInv

\* Consume of kafka/binder.go begins a session when nothing is left of the last one.
LEMMA JoinIInv ==
  ASSUME IInv, Join
  PROVE  IInv'
<1>1. SessionsTypeOK
  BY DEF IInv
<1>2. /\ binder = "consume" /\ binder' = "setup" /\ session' = session + 1 /\ session < MaxSessions
      /\ claim' = [p \in Partitions |-> "none"] /\ handlers' = {} /\ assigned' \subseteq Partitions
      /\ cleaning = {} /\ Running
      /\ UNCHANGED <<over, cleaning, port, life, closed, committer, cli, interrupted, cancelled>>
  BY DEF Join, NewHandlers, partVars, cliVars, IInv, Phases
<1>3. SessionsTypeOK'
  <2>1. session' \in 0 .. MaxSessions /\ over' \subseteq 1 .. session'
    BY <1>1, <1>2, SessionsAssumption DEF SessionsTypeOK
  <2>2. QED
    BY <1>1, <1>2, <2>1, FS_EmptySet DEF SessionsTypeOK
<1>4. Book' /\ Teardown'
  BY <1>1, <1>2, PartFields DEF IInv, Book, Teardown
<1>5. Phases' /\ Claims'
  BY <1>1, <1>2, PartFields DEF IInv, Book, Phases, Claims, Down, Running, Over
<1>6. QED
  BY <1>3, <1>4, <1>5 DEF IInv

\* The binder goes on without touching the parts.
LEMMA BinderIInv ==
  ASSUME IInv, ConsumeFails \/ SetupReturns \/ CloseGroup \/ \E ok \in BOOLEAN : ConsumeReturns(ok)
  PROVE  IInv'
<1>1. /\ UNCHANGED <<session, over, assigned, claim, groupVars, partVars, cliVars>> /\ Running
      /\ \/ binder = "setup" /\ binder' = "claims"
         \/ binder \in {"consume", "returned", "notified"}
            /\ binder' \in {"consume", "notified", "exited"}
  BY DEF ConsumeFails, SetupReturns, CloseGroup, ConsumeReturns
<1>2. SessionsTypeOK'
  BY <1>1 DEF IInv, SessionsTypeOK, Current, groupVars, partVars, cliVars
<1>3. Book' /\ Teardown'
  BY <1>1 DEF IInv, Book, Teardown, groupVars, partVars
<1>4. Phases' /\ Claims'
  BY <1>1 DEF IInv, Phases, Claims, Down, Running, Over, groupVars, partVars, cliVars
<1>5. QED
  BY <1>2, <1>3, <1>4 DEF IInv

\* Setup brings up the parts of a partition.
LEMMA SetupIInv ==
  ASSUME IInv, NEW p \in Partitions, SetupPartition(p)
  PROVE  IInv'
<1> DEFINE i == <<session, p>>
<1>1. SessionsTypeOK
  BY DEF IInv
<1>2. /\ binder = "setup" /\ i \in Current \ handlers /\ handlers' = handlers \cup {i} /\ Running
      /\ committer' = [committer EXCEPT ![i] = "running"] /\ life' = [life EXCEPT ![i] = Start]
      /\ \E q \in Ports : port' = [port EXCEPT ![i] = q]
      /\ UNCHANGED <<binder, session, over, assigned, claim, cleaning, closed, cli, interrupted,
                     cancelled>>
  BY DEF SetupPartition, binderVars, cliVars
<1>3. session # 0 /\ i \in Parts /\ i[1] = session
  BY <1>1, <1>2, PartFields DEF IInv, Phases
<1>4. SessionsTypeOK'
  BY <1>1, <1>2, <1>3 DEF SessionsTypeOK, Current, Start, Lives, HandlerStates, RunnerStates
<1>5. life[i] = NotYet /\ Start # NotYet /\ committer[i] = "none"
  BY <1>2, <1>3 DEF IInv, Book, Start, NotYet
<1>6. Book' /\ Teardown'
  BY <1>1, <1>2, <1>3, <1>5, PartFields DEF IInv, SessionsTypeOK, Book, Teardown, Start
<1>7. Phases' /\ Claims'
  BY <1>1, <1>2, <1>3, <1>5, PartFields DEF IInv, SessionsTypeOK, Phases, Claims, Down, Running, Over
<1>8. QED
  BY <1>4, <1>6, <1>7 DEF IInv

\* A life that has ended does not go on, and every step of one is a life.
LEMMA LifeSteps ==
  ASSUME NEW r \in Lives, NEW s \in Lives, NEW c \in BOOLEAN, NEW o \in BOOLEAN, Step(r, s, c, o),
         r.runner = "ended" => r.handler = "gone"
  PROVE  /\ r.runner # "ended"
         /\ s.runner = "ended" => s.handler = "gone"
         /\ s # NotYet
BY DEF Lives, HandlerStates, RunnerStates, Step, HandlerStep, RunnerStep, MayEnd, NotYet

\* A handler process or its runner goes on, in a part that is not down.
LEMMA LiveIInv ==
  ASSUME IInv, NEW i \in Parts, Live(i)
  PROVE  IInv'
<1>1. SessionsTypeOK
  BY DEF IInv
<1>2. PICK s \in Lives :
        /\ Step(life[i], s, i \in closed, Over(i[1]))
        /\ life' = [life EXCEPT ![i] = s]
        /\ port' = IF s.runner = "ended" THEN [port EXCEPT ![i] = NoPort] ELSE port
  BY DEF Live
<1>3. /\ Running /\ life[i] # NotYet
      /\ UNCHANGED <<binder, session, over, assigned, claim, handlers, cleaning, closed, committer,
                     cli, interrupted, cancelled>>
  BY DEF Live, binderVars, groupVars, cliVars
<1>4. /\ life[i].runner # "ended"
      /\ s.runner = "ended" => s.handler = "gone"
      /\ s # NotYet
  <2>1. life[i] \in Lives /\ (life[i].runner = "ended" => life[i].handler = "gone")
    BY <1>1, <1>3 DEF SessionsTypeOK, IInv, Teardown
  <2>2. (i \in closed) \in BOOLEAN /\ Over(i[1]) \in BOOLEAN
    BY <1>1 DEF Over, SessionsTypeOK
  <2>3. QED
    BY <1>2, <2>1, <2>2, LifeSteps
<1>5. SessionsTypeOK'
  BY <1>1, <1>2, <1>3 DEF SessionsTypeOK, Current
<1>6. Book' /\ Teardown'
  BY <1>1, <1>2, <1>3, <1>4 DEF IInv, SessionsTypeOK, Book, Teardown
<1>7. ~Down(i)
  BY <1>4 DEF Down
<1>8. \A j \in Parts : Down(j) => Down(j)'
  BY <1>1, <1>2, <1>3, <1>7 DEF Down, SessionsTypeOK
<1>9. \A j \in Parts : life[j] # NotYet <=> life'[j] # NotYet
  BY <1>1, <1>2, <1>3, <1>4 DEF SessionsTypeOK
<1>10. Phases' /\ Claims'
  BY <1>3, <1>8, <1>9 DEF IInv, Phases, Claims, Running, Over
<1>11. QED
  BY <1>5, <1>6, <1>10 DEF IInv

\* The session is revoked, and its claims come and go.
LEMMA ClaimsIInv ==
  ASSUME IInv,
         \/ Revoke
         \/ \E p \in Partitions :
              ConsumeClaim(p) \/ SkipClaim(p) \/ LeaveLoop(p) \/ ClaimReturns(p)
  PROVE  IInv'
<1>1. SessionsTypeOK
  BY DEF IInv
<1>2. /\ Running /\ binder \in {"setup", "claims"} /\ session > 0
      /\ UNCHANGED <<binder, session, assigned, handlers, cleaning, port, life, committer, cli,
                     interrupted, cancelled>>
      /\ over' = over \/ over' = over \cup {session}
  <2>1. binder \in {"setup", "claims"}
    BY DEF Revoke, ConsumeClaim, SkipClaim, LeaveLoop, ClaimReturns, IInv, Claims
  <2>2. session > 0
    BY <1>1, <2>1 DEF IInv, Phases, SessionsTypeOK
  <2>3. QED
    BY <2>1, <2>2 DEF Revoke, ConsumeClaim, SkipClaim, LeaveLoop, ClaimReturns, groupVars, partVars,
       cliVars
<1>3. CASE UNCHANGED <<claim, closed>>
  <2>1. SessionsTypeOK'
    BY <1>1, <1>2, <1>3, PartFields DEF SessionsTypeOK, Current
  <2>2. QED
    BY <1>2, <1>3, <2>1 DEF IInv, Book, Teardown, Phases, Claims, Down, Running, Over
<1>4. ASSUME NEW p \in Partitions, NEW c \in {"consuming", "skipped", "returning", "returned"},
             claim' = [claim EXCEPT ![p] = c],
             c \in {"consuming", "returning"} => binder = "claims" /\ p \in assigned,
             c \in {"returning", "returned"} => <<session, p>> \in closed',
             closed' \in {closed, closed \cup {<<session, p>>}}
      PROVE  IInv'
  <2>1. <<session, p>> \in Parts
    BY <1>1, <1>2, PartFields
  <2>2. SessionsTypeOK'
    BY <1>1, <1>2, <1>4, <2>1, PartFields DEF SessionsTypeOK, Current
  <2>3. Book' /\ Teardown'
    BY <1>2, <1>4 DEF IInv, Book, Teardown
  <2>4. Phases'
    BY <1>2, <1>4 DEF IInv, Phases, Down, Running, Over
  <2>5. Claims'
    BY <1>1, <1>2, <1>4 DEF IInv, SessionsTypeOK, Claims
  <2>6. QED
    BY <2>2, <2>3, <2>4, <2>5 DEF IInv
<1>5. CASE Revoke
  BY <1>3, <1>5 DEF Revoke, partVars
<1>6. ASSUME NEW p \in Partitions, ConsumeClaim(p)
      PROVE  IInv'
  BY <1>4, <1>6 DEF ConsumeClaim, partVars
<1>7. ASSUME NEW p \in Partitions, SkipClaim(p)
      PROVE  IInv'
  BY <1>4, <1>7 DEF SkipClaim, partVars
<1>8. ASSUME NEW p \in Partitions, LeaveLoop(p)
      PROVE  IInv'
  <2>1. binder = "claims" /\ p \in assigned
    BY <1>8 DEF LeaveLoop, IInv, Claims
  <2>2. QED
    BY <1>4, <1>8, <2>1 DEF LeaveLoop
<1>9. ASSUME NEW p \in Partitions, ClaimReturns(p)
      PROVE  IInv'
  <2>1. <<session, p>> \in closed /\ UNCHANGED closed
    BY <1>9 DEF ClaimReturns, IInv, Claims, partVars
  <2>2. QED
    BY <1>4, <1>9, <2>1 DEF ClaimReturns
<1>10. QED
  BY <1>5, <1>6, <1>7, <1>8, <1>9

\* The committer of a part changes its state, as Cleanup wants it to.
LEMMA CommitterIInv ==
  ASSUME IInv, NEW i \in Parts, StopCommitter(i) \/ CommitterEnds(i)
  PROVE  IInv'
<1>1. SessionsTypeOK
  BY DEF IInv
<1>2. PICK c \in {"stopped", "ended"} :
        /\ committer' = [committer EXCEPT ![i] = c]
        /\ \/ i \in cleaning /\ life[i].runner = "ended"
           \/ committer[i] = "stopped"
  BY DEF StopCommitter, CommitterEnds
<1>3. /\ Running /\ committer[i] \in {"running", "stopped"}
      /\ UNCHANGED <<binder, session, over, assigned, claim, handlers, cleaning, port, life, closed,
                     cli, interrupted, cancelled>>
  BY DEF StopCommitter, CommitterEnds, binderVars, groupVars, cliVars
<1>4. SessionsTypeOK'
  BY <1>1, <1>2, <1>3 DEF SessionsTypeOK, Current
<1>5. Book' /\ Teardown'
  BY <1>1, <1>2, <1>3 DEF IInv, SessionsTypeOK, Book, Teardown
<1>6. \A j \in Parts : Down(j) => Down(j)'
  BY <1>1, <1>2, <1>3 DEF Down, SessionsTypeOK
<1>7. Phases' /\ Claims'
  BY <1>3, <1>6 DEF IInv, Phases, Claims, Running, Over
<1>8. QED
  BY <1>4, <1>5, <1>7 DEF IInv

\* The loop of Cleanup: it closes the transporter of a claim that was never consumed,
\* and is through when every committer has ended.
LEMMA CleanupIInv ==
  ASSUME IInv, \/ CleanupBegins \/ CleanupReturns
               \/ \E i \in Current : CleanupTakes(i) \/ CommitterHasEnded(i)
  PROVE  IInv'
<1>1. SessionsTypeOK
  BY DEF IInv
<1>2. CASE CleanupBegins
  <2>1. /\ binder = "claims" /\ binder' = "cleanup" /\ Running
        /\ \A p \in assigned : claim[p] \in {"returned", "skipped"}
        /\ UNCHANGED <<session, over, assigned, claim, groupVars, partVars, cliVars>>
    BY <1>2 DEF CleanupBegins
  <2>2. SessionsTypeOK'
    BY <1>1, <2>1 DEF SessionsTypeOK, Current, groupVars, partVars, cliVars
  <2>3. Over(session)'
    BY <1>2 DEF CleanupBegins, Over, cliVars
  <2>4. QED
    BY <1>1, <2>1, <2>2, <2>3 DEF IInv, SessionsTypeOK, Book, Teardown, Phases, Claims, Down, Running,
                                  groupVars, partVars, cliVars
<1>3. ASSUME NEW i \in Current, CleanupTakes(i)
      PROVE  IInv'
  <2>1. /\ binder = "cleanup" /\ Running /\ i \in handlers /\ cleaning' = {i}
        /\ closed' = closed \cup ToClose(i) /\ ToClose(i) \subseteq {i}
        /\ UNCHANGED <<binder, session, over, assigned, claim, handlers, port, life, committer, cli,
                       interrupted, cancelled>>
    BY <1>3 DEF CleanupTakes, ToClose, binderVars, cliVars
  <2>2. i \in Parts /\ i[2] \in assigned /\ i = <<session, i[2]>> /\ i[2] \in Partitions
    BY <1>1, <2>1, PartFields DEF IInv, Phases, SessionsTypeOK
  <2>3. i \in closed'
    BY <2>1, <2>2 DEF IInv, Claims, ToClose
  <2>4. SessionsTypeOK'
    <3>1. Cardinality(cleaning') <= 1
      BY <2>1, FS_Singleton
    <3>2. QED
      BY <1>1, <2>1, <2>2, <3>1 DEF SessionsTypeOK, Current
  <2>5. QED
    BY <2>1, <2>3, <2>4 DEF IInv, Book, Teardown, Phases, Claims, Down, Running, Over
<1>4. ASSUME NEW i \in Current, CommitterHasEnded(i)
      PROVE  IInv'
  <2>1. /\ cleaning' = {} /\ Running
        /\ UNCHANGED <<binder, session, over, assigned, claim, handlers, port, life, closed, committer,
                       cli, interrupted, cancelled>>
    BY <1>4 DEF CommitterHasEnded, binderVars, partVars, cliVars
  <2>2. SessionsTypeOK'
    BY <1>1, <2>1, FS_EmptySet DEF SessionsTypeOK, Current
  <2>3. QED
    BY <2>1, <2>2 DEF IInv, Book, Teardown, Phases, Claims, Down, Running, Over
<1>5. CASE CleanupReturns
  <2>1. /\ binder = "cleanup" /\ binder' = "returned" /\ Running /\ cleaning = {}
        /\ \A i \in handlers : committer[i] = "ended"
        /\ UNCHANGED <<session, over, assigned, claim, handlers, cleaning, port, life, closed,
                       committer, cli, interrupted, cancelled>>
    BY <1>5 DEF CleanupReturns, groupVars, partVars, cliVars
  <2>2. ASSUME NEW i \in Parts, life[i] # NotYet
        PROVE  Down(i)
    <3>1. CASE i[1] < session
      BY <2>2, <3>1 DEF IInv, Phases
    <3>2. CASE i[1] = session
      <4>1. committer[i] = "ended"
        BY <2>1, <2>2, <3>2 DEF IInv, Book
      <4>2. life[i].runner = "ended" /\ life[i].handler = "gone" /\ i \in closed
        BY <4>1 DEF IInv, Teardown
      <4>3. life[i] = [handler |-> "gone", runner |-> "ended"]
        BY <1>1, <2>2, <4>2 DEF SessionsTypeOK, Lives
      <4>4. QED
        BY <4>1, <4>2, <4>3 DEF Down
    <3>3. QED
      BY <1>1, <2>2, <3>1, <3>2, PartFields DEF IInv, Book
  <2>3. SessionsTypeOK'
    BY <1>1, <2>1 DEF SessionsTypeOK, Current
  <2>4. QED
    BY <1>1, <2>1, <2>2, <2>3 DEF IInv, Book, Teardown, Phases, Claims, Down, Running, Over
<1>6. QED
  BY <1>2, <1>3, <1>4, <1>5

\* The main goroutine of core/cli_instance.go returns only when the binder is done.
LEMMA MainIInv ==
  ASSUME IInv, Interrupt \/ StopCLI \/ ExitCLI \/ Gone \/ UNCHANGED vars
  PROVE  IInv'
<1>1. /\ UNCHANGED <<binderVars, groupVars, partVars>>
      /\ Running' \/ BinderDone \/ ~Running
      /\ cli' \in {"waiting", "stopping", "exited"}
      /\ interrupted' \in BOOLEAN /\ cancelled' \in BOOLEAN
      /\ cancelled => cancelled'
  BY DEF Interrupt, StopCLI, ExitCLI, Gone, vars, cliVars, Running, IInv, SessionsTypeOK
<1>2. SessionsTypeOK'
  BY <1>1 DEF IInv, SessionsTypeOK, Current, binderVars, groupVars, partVars
<1>3. Book' /\ Teardown' /\ Claims'
  BY <1>1 DEF IInv, Book, Teardown, Claims, binderVars, groupVars, partVars
<1>4. Phases'
  BY <1>1 DEF IInv, Phases, Down, BinderDone, Over, binderVars, groupVars, partVars
<1>5. QED
  BY <1>2, <1>3, <1>4 DEF IInv

\* Every step of the program keeps the invariant.
LEMMA NextIInv ==
  ASSUME IInv, [SessionsNext]_vars
  PROVE  IInv'
<1>1. ASSUME NEW i \in Current, StopCommitter(i)
      PROVE  IInv'
  <2>1. i \in Parts
    BY <1>1, PartFields DEF IInv, SessionsTypeOK, Phases, StopCommitter
  <2>2. QED
    BY <1>1, <2>1, CommitterIInv
<1>2. QED
  BY <1>1, JoinIInv, BinderIInv, SetupIInv, LiveIInv, ClaimsIInv, CommitterIInv, CleanupIInv, MainIInv
  DEF SessionsNext

------------------------------------------------------------------------------
(***************************************************************************)
(* Theorems.                                                               *)
(***************************************************************************)

\* The invariant holds in every state of kafka/binder.go's session loop.
THEOREM SessionsInvariance == SessionsSpec => []IInv
<1>1. IInv /\ [SessionsNext]_vars => IInv'
  BY NextIInv
<1>2. QED
  BY <1>1, InitIInv, PTL DEF SessionsSpec

\* The program's variables have their types; the consumer group handler knows parts of
\* its own session only.
THEOREM SessionsTypeCorrect == SessionsSpec => []SessionsTypeOK
<1>1. IInv => SessionsTypeOK
  BY DEF IInv
<1>2. QED
  BY <1>1, SessionsInvariance, PTL

\* When a session is set up, the handler processes, runners, transporters and
\* committers of all earlier sessions are gone.
THEOREM SessionsDoNotOverlap == SessionsSpec => []SessionsDisjoint
<1>1. IInv => SessionsDisjoint
  BY DEF IInv, Phases, Down, SessionsDisjoint
<1>2. QED
  BY <1>1, SessionsInvariance, PTL

\* The binder reports its end, and main returns, only when no handler process is left.
THEOREM NoHandlerLeftBehind == SessionsSpec => []NothingLeftBehind
<1>1. IInv => NothingLeftBehind
  BY DEF IInv, Phases, Down, BinderDone, NothingLeftBehind
<1>2. QED
  BY <1>1, SessionsInvariance, PTL

\* While claims run, the consumer group handler knows the partition of each.
ClaimsRegistered ==
  binder = "claims" => \A p \in assigned : <<session, p>> \in handlers

\* Setup registers every partition before the first claim, and nothing is removed.
LEMMA NextClaimsRegistered ==
  ASSUME ClaimsRegistered, [SessionsNext]_vars
  PROVE  ClaimsRegistered'
<1>1. CASE SetupReturns
  BY <1>1 DEF SetupReturns, groupVars, Current, ClaimsRegistered
<1>2. CASE binder' # "claims"
  BY <1>2 DEF ClaimsRegistered
<1>3. CASE UNCHANGED <<binder, session, assigned, handlers>>
  BY <1>3 DEF ClaimsRegistered
<1>4. QED
  BY <1>1, <1>2, <1>3 DEF SessionsNext, Join, ConsumeFails, SetupPartition, Live, Revoke, ConsumeClaim,
       SkipClaim, LeaveLoop, ClaimReturns, CleanupBegins, CleanupTakes, StopCommitter, CommitterEnds,
       CommitterHasEnded, CleanupReturns, ConsumeReturns, CloseGroup, Interrupt, StopCLI, ExitCLI, Gone,
       binderVars, groupVars, partVars, cliVars, vars

\* A claim always finds its partition: ConsumeClaim's return for one it does not find,
\* which would leave the mutex locked for Cleanup, cannot be reached.
THEOREM ClaimsAreRegistered == SessionsSpec => []ClaimsRegistered
<1>1. SessionsInit => ClaimsRegistered
  BY DEF SessionsInit, ClaimsRegistered
<1>2. ClaimsRegistered /\ [SessionsNext]_vars => ClaimsRegistered'
  BY NextClaimsRegistered
<1>3. QED
  BY <1>1, <1>2, PTL DEF SessionsSpec

\* No two handler processes of one partition exist at the same time, and no two of its
\* committers run, in whichever sessions they were started.
OnePerPartition ==
  \A i, j \in Parts :
    i[2] = j[2] =>
      /\ life[i].handler \notin {"none", "gone"} /\ life[j].handler \notin {"none", "gone"} => i = j
      /\ committer[i] \in {"running", "stopped"} /\ committer[j] \in {"running", "stopped"} => i = j

\* What is alive belongs to the current session.
THEOREM PartitionsNotShared == SessionsSpec => []OnePerPartition
<1>1. ASSUME IInv, NEW i \in Parts,
             life[i].handler \notin {"none", "gone"} \/ committer[i] \in {"running", "stopped"}
      PROVE  i[1] = session
  <2>1. life[i] # NotYet
    BY <1>1 DEF IInv, Book, NotYet
  <2>2. ~Down(i)
    BY <1>1 DEF Down
  <2>3. QED
    BY <1>1, <2>1, <2>2, PartFields DEF IInv, Book, Phases
<1>2. \A i, j \in Parts : i[1] = j[1] /\ i[2] = j[2] => i = j
  BY DEF Parts
<1>3. IInv => OnePerPartition
  BY <1>1, <1>2 DEF OnePerPartition
<1>4. QED
  BY <1>3, SessionsInvariance, PTL

------------------------------------------------------------------------------
(***************************************************************************)
(* Progress: what Cleanup waits for can come, and parts do not go on for   *)
(* ever.                                                                   *)
(***************************************************************************)

\* Cleanup waits for a runner only when it has been told to end, by its transporter and by
\* its context, and such a runner is never stuck: until it has ended, it or its handler
\* process has a step that depends on nobody else, not even on a free port.
CleanupTellsFirst ==
  \A i \in cleaning :
    /\ i \in closed /\ Over(i[1])
    /\ life[i].runner # "ended" =>
         \E s \in Lives : s.handler \in {life[i].handler, "gone"} /\ Step(life[i], s, TRUE, TRUE)

\* A life that has not ended goes on once its transporter is closed.
LEMMA LifeGoesOn ==
  ASSUME NEW r \in Lives, r.runner # "ended"
  PROVE  \E s \in Lives : s.handler \in {r.handler, "gone"} /\ Step(r, s, TRUE, TRUE)
<1>1. r.handler \in HandlerStates /\ r.runner \in RunnerStates
  BY DEF Lives
<1>2. CASE r.handler # "gone"
  <2>1. [r EXCEPT !.handler = "gone"] \in Lives /\ [r EXCEPT !.handler = "gone"].handler = "gone"
    BY DEF Lives, HandlerStates
  <2>2. QED
    BY <1>2, <2>1 DEF Step, HandlerStep
<1>3. CASE r.handler = "gone" /\ r.runner = "starting"
  <2>1. [r EXCEPT !.runner = "pumping"] \in Lives
        /\ [r EXCEPT !.runner = "pumping"].handler = r.handler
    BY DEF Lives, RunnerStates
  <2>2. QED
    BY <1>3, <2>1 DEF Step, RunnerStep
<1>4. CASE r.handler = "gone" /\ r.runner = "pumping"
  <2>1. [r EXCEPT !.runner = "ended"] \in Lives /\ [r EXCEPT !.runner = "ended"].handler = r.handler
    BY DEF Lives, RunnerStates
  <2>2. QED
    BY <1>4, <2>1 DEF Step, RunnerStep, MayEnd
<1>5. QED
  BY <1>1, <1>2, <1>3, <1>4 DEF RunnerStates

\* Cleanup does not wait in vain for a runner's awaiter.
THEOREM CleanupNotStuck == SessionsSpec => []CleanupTellsFirst
<1>1. ASSUME IInv, NEW i \in cleaning
      PROVE  /\ i \in closed /\ Over(i[1])
             /\ life[i].runner # "ended" =>
                  \E s \in Lives :
                    s.handler \in {life[i].handler, "gone"} /\ Step(life[i], s, TRUE, TRUE)
  <2>1. binder = "cleanup" /\ i \in handlers /\ i \in Current /\ session # 0
    BY <1>1 DEF IInv, Phases, SessionsTypeOK
  <2>2. i \in Parts /\ i[1] = session
    BY <1>1, <2>1, PartFields DEF IInv
  <2>3. i \in closed /\ Over(i[1])
    BY <1>1, <2>1, <2>2 DEF IInv, Teardown, Phases
  <2>4. life[i] \in Lives
    BY <1>1, <2>1, <2>2 DEF IInv, SessionsTypeOK, Book
  <2>5. QED
    BY <2>3, <2>4, LifeGoesOn
<1>2. IInv => CleanupTellsFirst
  BY <1>1 DEF CleanupTellsFirst
<1>3. QED
  BY <1>2, SessionsInvariance, PTL

\* The states of a handler process, and of its runner, in their order.
HandlerPlace(r) ==
  CASE r.handler = "none" -> 0 [] r.handler = "launching" -> 1 [] r.handler = "running" -> 2
    [] r.handler = "serving" -> 3 [] r.handler = "gone" -> 4

RunnerPlace(r) ==
  CASE r.runner = "none" -> 0 [] r.runner = "starting" -> 1 [] r.runner = "pumping" -> 2
    [] r.runner = "ended" -> 3

\* A life that changes gets further.
FurtherThan(s, r) ==
  /\ HandlerPlace(s) >= HandlerPlace(r) /\ RunnerPlace(s) >= RunnerPlace(r)
  /\ HandlerPlace(s) > HandlerPlace(r) \/ RunnerPlace(s) > RunnerPlace(r)

\* Both parts of a life have a place, and Step moves one of them on.
LEMMA StepGoesFurther ==
  /\ FurtherThan(Start, NotYet)
  /\ \A r, s \in Lives, c, o \in BOOLEAN : Step(r, s, c, o) => FurtherThan(s, r)
<1>1. FurtherThan(Start, NotYet)
  BY DEF FurtherThan, HandlerPlace, RunnerPlace, Start, NotYet
<1>2. ASSUME NEW r \in Lives, NEW s \in Lives, NEW c \in BOOLEAN, NEW o \in BOOLEAN, Step(r, s, c, o)
      PROVE  FurtherThan(s, r)
  <2>1. r.handler \in HandlerStates /\ r.runner \in RunnerStates
    BY DEF Lives
  <2>2. CASE HandlerStep(r, s, o)
    BY <2>1, <2>2 DEF Lives, HandlerStates, RunnerStates, HandlerStep, FurtherThan, HandlerPlace,
       RunnerPlace
  <2>3. CASE RunnerStep(r, s, c, o)
    BY <2>1, <2>3 DEF Lives, HandlerStates, RunnerStates, RunnerStep, MayEnd, FurtherThan,
       HandlerPlace, RunnerPlace
  <2>4. QED
    BY <1>2, <2>2, <2>3 DEF Step
<1>3. QED
  BY <1>1, <1>2

\* Whatever a part does brings it further: it is set up once, its process and its runner
\* take at most seven steps between them, and neither begins again.
PartsGoForward ==
  [][\A i \in Parts : life'[i] = life[i] \/ FurtherThan(life'[i], life[i])]_vars

\* No part goes on for ever.
THEOREM PartsWindDown == SessionsSpec => PartsGoForward
<1>1. ASSUME IInv, [SessionsNext]_vars, NEW i \in Parts
      PROVE  life'[i] = life[i] \/ FurtherThan(life'[i], life[i])
  <2>1. SessionsTypeOK
    BY <1>1 DEF IInv
  <2>2. ASSUME NEW p \in Partitions, SetupPartition(p)
        PROVE  life'[i] = life[i] \/ FurtherThan(life'[i], life[i])
    <3>1. binder = "setup" /\ <<session, p>> \notin handlers
          /\ life' = [life EXCEPT ![<<session, p>>] = Start]
      BY <2>2 DEF SetupPartition
    <3>2. <<session, p>> \in Parts
      BY <1>1, <2>1, <3>1, PartFields DEF IInv, Phases, SessionsTypeOK
    <3>3. life[<<session, p>>] = NotYet
      BY <1>1, <3>1, <3>2 DEF IInv, Book
    <3>4. QED
      BY <2>1, <3>1, <3>2, <3>3, StepGoesFurther DEF SessionsTypeOK
  <2>3. ASSUME NEW j \in Parts, Live(j)
        PROVE  life'[i] = life[i] \/ FurtherThan(life'[i], life[i])
    <3>1. PICK s \in Lives : /\ Step(life[j], s, j \in closed, Over(j[1]))
                             /\ life' = [life EXCEPT ![j] = s]
      BY <2>3 DEF Live
    <3>2. life[j] \in Lives
      BY <2>1, <2>3 DEF Live, SessionsTypeOK
    <3>3. (j \in closed) \in BOOLEAN /\ Over(j[1]) \in BOOLEAN
      BY <2>1 DEF Over, SessionsTypeOK
    <3>4. FurtherThan(s, life[j])
      BY <3>1, <3>2, <3>3, StepGoesFurther
    <3>5. QED
      BY <2>1, <3>1, <3>4 DEF SessionsTypeOK
  <2>4. CASE UNCHANGED life
    BY <2>4
  <2>5. QED
    BY <1>1, <2>2, <2>3, <2>4 DEF SessionsNext, Join, ConsumeFails, ConsumeClaim, SkipClaim,
       LeaveLoop, ClaimReturns, SetupReturns, Revoke, CleanupTakes, StopCommitter, CommitterEnds,
       CommitterHasEnded, CleanupBegins, CleanupReturns, ConsumeReturns, CloseGroup, Interrupt,
       StopCLI, ExitCLI, Gone, partVars, vars
<1>2. IInv /\ [SessionsNext]_vars =>
        [\A i \in Parts : life'[i] = life[i] \/ FurtherThan(life'[i], life[i])]_vars
  BY <1>1
<1>3. QED
  BY <1>2, SessionsInvariance, PTL DEF SessionsSpec, PartsGoForward
==============================================================================
