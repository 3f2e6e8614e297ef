--------------------------- MODULE BuildQueueProofs ---------------------------
(***************************************************************************)
(* What is proved of BuildQueue for every number of builds, projects,      *)
(* agents and handlers, every capacity and every bound on the re-queues.   *)
(***************************************************************************)
EXTENDS BuildQueue, TLAPS

-------------------------------------------------------------------------------
(* The inductive invariant *)

(* A handler past its first step knows which build it is about.            *)
HandlerInv ==
  \A h \in Handlers :
    handler[h].op \in {"dispatch", "registry", "check", "lookup", "flag"} => handler[h].b \in Builds

(* Only a build that was started has an owner.                             *)
RowInv == \A b \in Builds : status[b] \in {"none", "pending"} => owner[b] = None

(* The registry holds the loop's build from before its claim until after   *)
(* its last write, and the row is the runner's while the commands run.     *)
RunnerInv ==
  /\ rpc \in {"idle", "exited"} => current = None
  /\ rpc = "taken" => job \in Builds /\ current = None
  /\ rpc \in {"registered", "building", "ending", "leaving"} => job \in Builds /\ current = job
  /\ rpc \in {"building", "ending"} => status[job] = "running" /\ owner[job] = None
  /\ rpc = "ending" => verdict # None

(* The janitor never has the registered build in hand.                     *)
SweepInv == current \notin sweep

(* An agent's build is owned by it, and an unanswered claim has at most    *)
(* been failed by the janitor.                                             *)
AgentInv ==
  \A a \in Agents :
    /\ apc[a] # "idle" => work[a] \in Builds /\ owner[work[a]] = a
    /\ apc[a] = "claimed" => status[work[a]] \in {"running", "failed"}
    /\ apc[a] = "finishing" => report[a] \in Terminal

(* Before the server is up again nothing runs in it.                       *)
PhaseInv == phase \notin Live => rpc = "idle" /\ sweep = {}

IInv ==
  /\ TypeOK
  /\ HandlerInv
  /\ RowInv
  /\ RunnerInv
  /\ SweepInv
  /\ AgentInv
  /\ PhaseInv

-------------------------------------------------------------------------------
(* Types *)

(* A handler at rest is well typed.                                        *)
LEMMA IdleType == Idle \in HandlerType
  BY DEF Idle, HandlerType, HandlerOps

(* What a handler remembers stays well typed when it moves on.             *)
LEMMA HandlerMoves ==
  ASSUME NEW r \in HandlerType
  PROVE  /\ \A op \in HandlerOps : [r EXCEPT !.op = op] \in HandlerType
         /\ \A b \in Builds : [r EXCEPT !.op = "dispatch", !.b = b] \in HandlerType
         /\ \A todo \in SUBSET Builds :
              [r EXCEPT !.op = "enqueue", !.todo = todo] \in HandlerType
         /\ \A p \in Projects, c \in Configs :
              /\ [r EXCEPT !.op = "create", !.p = p, !.cfg = c] \in HandlerType
              /\ [r EXCEPT !.op = "write", !.p = p, !.cfg = c] \in HandlerType
         /\ \A b \in Builds : [r EXCEPT !.op = "registry", !.b = b] \in HandlerType
  BY DEF HandlerType, HandlerOps

(* Becomes, Return, Continue and EnqueueNext keep the handlers well typed. *)
LEMMA BecomesType ==
  ASSUME TypeOK, NEW h \in Handlers, NEW r \in HandlerType, Becomes(h, r)
  PROVE  handler' \in [Handlers -> HandlerType]
  BY DEF TypeOK, Becomes

LEMMA ReturnType ==
  ASSUME TypeOK, NEW h \in Handlers, Return(h)
  PROVE  handler' \in [Handlers -> HandlerType]
  BY IdleType, BecomesType DEF Return

LEMMA ContinueType ==
  ASSUME TypeOK, NEW h \in Handlers, NEW op, Continue(h, op),
         op \in {"adopt", "check", "lookup", "flag"}
  PROVE  handler' \in [Handlers -> HandlerType]
<1>1. handler[h] \in HandlerType /\ op \in HandlerOps
  BY DEF TypeOK, HandlerOps
<1>2. [handler[h] EXCEPT !.op = op] \in HandlerType
  BY <1>1, HandlerMoves
<1>. QED
  BY <1>2, BecomesType DEF Continue

LEMMA EnqueueNextType ==
  ASSUME TypeOK, NEW h \in Handlers, NEW todo \in SUBSET Builds, EnqueueNext(h, todo)
  PROVE  handler' \in [Handlers -> HandlerType]
<1>1. handler[h] \in HandlerType
  BY DEF TypeOK
<1>2. [handler[h] EXCEPT !.op = "enqueue", !.todo = todo] \in HandlerType
  BY <1>1, HandlerMoves
<1>. QED
  BY <1>2, BecomesType, ReturnType DEF EnqueueNext

(* A write of the status column keeps its type.                            *)
LEMMA SetType ==
  ASSUME TypeOK, NEW b, NEW s \in Statuses, Set(b, s)
  PROVE  status' \in [Builds -> Statuses]
  BY DEF Set, TypeOK

(* So does putting a build on the channel, or failing it.                  *)
LEMMA EnqueueType ==
  ASSUME TypeOK, NEW b \in Builds, Enqueue(b)
  PROVE  status' \in [Builds -> Statuses] /\ queue' \in Seq(Builds)
<1>1. CASE Len(queue) < Capacity
  <2>1. queue \in Seq(Builds) /\ status \in [Builds -> Statuses]
    BY DEF TypeOK
  <2>2. Append(queue, b) \in Seq(Builds)
    BY <2>1
  <2>. QED
    BY <1>1, <2>1, <2>2 DEF Enqueue
<1>2. CASE ~(Len(queue) < Capacity)
  <2>1. (IF status[b] = "pending" THEN "failed" ELSE status[b]) \in Statuses
    BY DEF TypeOK, Statuses, Terminal
  <2>. QED
    BY <1>2, <2>1 DEF Enqueue, TypeOK, Set
<1>. QED
  BY <1>1, <1>2

(* The count of re-queues stays within its bound: the guard tests it       *)
(* first.                                                                  *)
LEMMA RequeueType ==
  ASSUME TypeOK, NEW b \in Builds, MayRequeue(b), requeues' = [requeues EXCEPT ![b] = @ + 1]
  PROVE  requeues' \in [Builds -> 0 .. MaxRequeues]
<1>1. requeues \in [Builds -> 0 .. MaxRequeues]
  BY DEF TypeOK
<1>2. requeues[b] + 1 \in 0 .. MaxRequeues
  BY <1>1, ConstantsOK DEF MayRequeue
<1>. QED
  BY <1>1, <1>2

(* An agent that forgets its build stays well typed.                       *)
LEMMA ForgetsType ==
  ASSUME TypeOK, NEW a \in Agents, AgentForgets(a)
  PROVE  /\ apc' \in [Agents -> {"idle", "claimed", "building", "finishing"}]
         /\ work' \in [Agents -> Builds \cup {None}]
         /\ report' \in [Agents -> Terminal \cup {None}]
  BY DEF TypeOK, AgentForgets

(* The first state has the types of TypeOK.                                *)
LEMMA InitType == ASSUME Init PROVE TypeOK
  BY ConstantsOK, IdleType DEF Init, TypeOK, Statuses, Terminal, Live

(* Every step keeps the types: an index taken from a queue, a handler or an *)
(* agent is a build, and no re-queue goes past the bound.                  *)
LEMMA TypesKept ==
  ASSUME TypeOK, HandlerInv, RunnerInv, AgentInv, Next \/ UNCHANGED vars
  PROVE  TypeOK'
<1>. USE ConstantsOK
<1>1. ASSUME NEW h \in Handlers, NEW p \in Projects, TriggerRead(h, p)
      PROVE  TypeOK'
  <2>1. config[p] \in Configs
    BY DEF TypeOK
  <2>2. handler' \in [Handlers -> HandlerType]
    BY <1>1, <2>1, IdleType, HandlerMoves, BecomesType DEF TriggerRead, Start
  <2>. QED
    BY <1>1, <2>2 DEF TriggerRead, TypeOK, dbVars, procVars, runnerVars, agentVars
<1>2. ASSUME NEW h \in Handlers, NEW p \in Projects, UpdateRead(h, p)
      PROVE  TypeOK'
  <2>1. config[p] \in Configs
    BY DEF TypeOK
  <2>2. handler' \in [Handlers -> HandlerType]
    BY <1>2, <2>1, IdleType, HandlerMoves, BecomesType DEF UpdateRead, Start
  <2>. QED
    BY <1>2, <2>2 DEF UpdateRead, TypeOK, dbVars, procVars, runnerVars, agentVars
<1>3. ASSUME NEW h \in Handlers, CreateBuild(h)
      PROVE  TypeOK'
  <2>1. CASE \E b \in Builds : /\ NewBuild(b)
                               /\ Set(b, "pending")
                               /\ project' = [project EXCEPT ![b] = handler[h].p]
                               /\ Becomes(h, [handler[h] EXCEPT !.op = "dispatch", !.b = b])
    <3>1. PICK b \in Builds :
            /\ Set(b, "pending")
            /\ project' = [project EXCEPT ![b] = handler[h].p]
            /\ Becomes(h, [handler[h] EXCEPT !.op = "dispatch", !.b = b])
      BY <2>1
    <3>2. handler[h] \in HandlerType
      BY DEF TypeOK
    <3>3. handler' \in [Handlers -> HandlerType]
      BY <3>1, <3>2, HandlerMoves, BecomesType
    <3>4. status' \in [Builds -> Statuses]
      BY <3>1, SetType DEF Statuses
    <3>5. project' \in [Builds -> Projects \cup {None}]
      BY <3>1, <3>2 DEF TypeOK, HandlerType
    <3>6. UNCHANGED <<owner, requeues, cancelReq, quiet, config, phase, grace, queue, runnerVars,
                      sweep, promised, agentVars>>
      BY <1>3 DEF CreateBuild
    <3>. QED
      BY <3>3, <3>4, <3>5, <3>6, SMTT(40) DEF TypeOK, runnerVars, agentVars
  <2>2. CASE Return(h) /\ UNCHANGED <<status, project>>
    <3>1. handler' \in [Handlers -> HandlerType]
      BY <2>2, ReturnType
    <3>2. UNCHANGED <<owner, requeues, cancelReq, quiet, config, phase, grace, queue, runnerVars,
                      sweep, promised, agentVars>>
      BY <1>3 DEF CreateBuild
    <3>. QED
      BY <2>2, <3>1, <3>2 DEF TypeOK, runnerVars, agentVars
  <2>. QED
    BY <1>3, <2>1, <2>2 DEF CreateBuild
<1>4. ASSUME NEW h \in Handlers, Dispatch(h)
      PROVE  TypeOK'
  <2>1. handler' \in [Handlers -> HandlerType]
    BY <1>4, ReturnType DEF Dispatch
  <2>2. status' \in [Builds -> Statuses] /\ queue' \in Seq(Builds)
    BY <1>4, EnqueueType DEF Dispatch, HandlerInv, TypeOK
  <2>. QED
    BY <1>4, <2>1, <2>2 DEF Dispatch, TypeOK, runnerVars, agentVars
<1>5. ASSUME NEW h \in Handlers, NEW c \in Configs, UpdateWrite(h, c)
      PROVE  TypeOK'
  BY <1>5, ContinueType, ReturnType DEF UpdateWrite, HandlerInv, TypeOK, vars,
    dbVars, procVars, runnerVars, agentVars
<1>6. ASSUME NEW h \in Handlers, UpdateAdopt(h)
      PROVE  TypeOK'
  BY <1>6, EnqueueNextType DEF UpdateAdopt, PendingOf, HandlerInv, TypeOK,
    vars, dbVars, procVars, runnerVars, agentVars
<1>7. ASSUME NEW h \in Handlers, UpdateEnqueue(h)
      PROVE  TypeOK'
  <2>1. PICK b \in handler[h].todo : Enqueue(b) /\ EnqueueNext(h, handler[h].todo \ {b})
    BY <1>7 DEF UpdateEnqueue
  <2>2. handler[h].todo \in SUBSET Builds
    BY DEF TypeOK, HandlerType
  <2>3. /\ handler' \in [Handlers -> HandlerType]
        /\ status' \in [Builds -> Statuses]
        /\ queue' \in Seq(Builds)
    BY <2>1, <2>2, EnqueueNextType, EnqueueType
  <2>. QED
    BY <1>7, <2>3 DEF UpdateEnqueue, TypeOK, runnerVars, agentVars
<1>8. ASSUME NEW h \in Handlers, NEW b \in Builds, CancelPending(h, b)
      PROVE  TypeOK'
  <2>1. status' \in [Builds -> Statuses]
    BY <1>8, SetType DEF CancelPending, TypeOK, Statuses, Terminal
  <2>2. handler' \in [Handlers -> HandlerType]
    <3>1. CASE status[b] = "pending"
      BY <1>8, <3>1 DEF CancelPending, TypeOK
    <3>2. CASE Start(h, [Idle EXCEPT !.op = "registry", !.b = b])
      BY <3>2, IdleType, HandlerMoves, BecomesType DEF Start
    <3>. QED
      BY <1>8, <3>1, <3>2 DEF CancelPending
  <2>. QED
    BY <1>8, <2>1, <2>2 DEF CancelPending, TypeOK, procVars, runnerVars, agentVars
<1>9. ASSUME NEW h \in Handlers, CancelCurrent(h)
      PROVE  TypeOK'
  BY <1>9, ContinueType DEF CancelCurrent, HandlerInv, TypeOK, vars, dbVars,
    procVars, runnerVars, agentVars
<1>10. ASSUME NEW h \in Handlers, CancelCheck(h)
      PROVE  TypeOK'
  BY <1>10, ReturnType DEF CancelCheck, HandlerInv, TypeOK, vars, dbVars,
    procVars, runnerVars, agentVars
<1>11. ASSUME NEW h \in Handlers, CancelLookup(h)
      PROVE  TypeOK'
  BY <1>11, ContinueType, ReturnType DEF CancelLookup, HandlerInv, TypeOK,
    vars, dbVars, procVars, runnerVars, agentVars
<1>12. ASSUME NEW h \in Handlers, CancelFlag(h)
      PROVE  TypeOK'
  BY <1>12, ReturnType DEF CancelFlag, HandlerInv, TypeOK, vars, dbVars,
    procVars, runnerVars, agentVars
<1>13. ASSUME RunnerTake
      PROVE  TypeOK'
  BY <1>13 DEF RunnerTake, RunnerInv, TypeOK, vars, dbVars, procVars,
    runnerVars, agentVars
<1>14. ASSUME RunnerRegister
      PROVE  TypeOK'
  BY <1>14 DEF RunnerRegister, RunnerInv, TypeOK, vars, dbVars, procVars,
    runnerVars, agentVars
<1>15. ASSUME ClaimBuild
      PROVE  TypeOK'
  BY <1>15, SetType DEF ClaimBuild, RunnerInv, TypeOK, Statuses, Terminal,
    vars, dbVars, procVars, runnerVars, agentVars
<1>16. ASSUME RunBuild
      PROVE  TypeOK'
  BY <1>16 DEF RunBuild, RunnerInv, TypeOK, Statuses, Terminal, vars, dbVars,
    procVars, runnerVars, agentVars
<1>17. ASSUME EndBuild
      PROVE  TypeOK'
  <2>1. rpc' = "leaving" /\ UNCHANGED <<owner, cancelReq, quiet, project, config, phase, grace,
             queue, job, current, cause, verdict, sweep, handler, promised, agentVars>>
    BY <1>17 DEF EndBuild
  <2>2. CASE MayRequeue(job) /\ Set(job, "pending") /\ requeues' = [requeues EXCEPT ![job] = @ + 1]
    <3>1. status' \in [Builds -> Statuses]
      BY <2>2, SetType DEF Statuses
    <3>2. requeues' \in [Builds -> 0 .. MaxRequeues]
      BY <1>17, <2>2, RequeueType DEF EndBuild, RunnerInv
    <3>. QED
      BY <2>1, <3>1, <3>2 DEF TypeOK, agentVars
  <2>3. CASE (Set(job, "failed") \/ (verdict # "requeue" /\ Set(job, verdict))) /\ UNCHANGED requeues
    <3>1. "failed" \in Statuses /\ (verdict # "requeue" => verdict \in Statuses)
      BY <1>17 DEF EndBuild, RunnerInv, TypeOK, Statuses, Terminal
    <3>2. status' \in [Builds -> Statuses]
      BY <2>3, <3>1, SetType
    <3>. QED
      BY <2>1, <2>3, <3>2 DEF TypeOK, agentVars
  <2>4. CASE UNCHANGED <<status, requeues>>
    BY <2>1, <2>4 DEF TypeOK, agentVars
  <2>. QED
    BY <1>17, <2>2, <2>3, <2>4 DEF EndBuild
<1>18. ASSUME RunnerLeave
      PROVE  TypeOK'
  BY <1>18 DEF RunnerLeave, TypeOK, vars, dbVars, procVars, runnerVars,
    agentVars
<1>19. ASSUME RunnerExit
      PROVE  TypeOK'
  BY <1>19 DEF RunnerExit, TypeOK, vars, dbVars, procVars, runnerVars,
    agentVars
<1>20. ASSUME SweepScan
      PROVE  TypeOK'
  BY <1>20 DEF SweepScan, Sweepable, TypeOK, vars, dbVars, procVars,
    runnerVars, agentVars
<1>21. ASSUME SweepRow
      PROVE  TypeOK'
  <2>1. CASE \E b \in sweep : /\ Set(b, IF StillStale(b) THEN "failed" ELSE status[b])
                              /\ sweep' = sweep \ {b}
    <3>1. PICK b \in sweep : /\ Set(b, IF StillStale(b) THEN "failed" ELSE status[b])
                             /\ sweep' = sweep \ {b}
      BY <2>1
    <3>2. (IF StillStale(b) THEN "failed" ELSE status[b]) \in Statuses
      BY DEF TypeOK, Statuses, Terminal
    <3>3. status' \in [Builds -> Statuses]
      BY <3>1, <3>2, SetType
    <3>. QED
      BY <1>21, <3>1, <3>3 DEF SweepRow, TypeOK, runnerVars, agentVars
  <2>2. CASE sweep' = {} /\ UNCHANGED status
    BY <1>21, <2>2 DEF SweepRow, TypeOK, runnerVars, agentVars
  <2>. QED
    BY <1>21, <2>1, <2>2 DEF SweepRow
<1>22. ASSUME NEW a \in Agents, AgentClaim(a)
      PROVE  TypeOK'
  BY <1>22, SetType DEF AgentClaim, Claimable, TypeOK, Statuses, Terminal,
    vars, dbVars, procVars, runnerVars, agentVars
<1>23. ASSUME NEW a \in Agents, AnswerClaim(a)
      PROVE  TypeOK'
  <2>1. UNCHANGED <<owner, requeues, cancelReq, quiet, project, config, procVars, promised>>
    BY <1>23 DEF AnswerClaim
  <2>2. CASE apc' = [apc EXCEPT ![a] = "building"] /\ UNCHANGED <<work, report, status>>
    BY <2>1, <2>2 DEF TypeOK, procVars, runnerVars
  <2>3. CASE AgentForgets(a) /\ UNCHANGED status
    BY <2>1, <2>3, ForgetsType DEF TypeOK, procVars, runnerVars
  <2>4. CASE AgentForgets(a) /\ Set(work[a], "failed")
    <3>1. status' \in [Builds -> Statuses]
      BY <2>4, SetType DEF Statuses, Terminal
    <3>. QED
      BY <2>1, <2>4, <3>1, ForgetsType DEF TypeOK, procVars, runnerVars
  <2>. QED
    BY <1>23, <2>2, <2>3, <2>4 DEF AnswerClaim
<1>24. ASSUME NEW a \in Agents, AgentHeartbeat(a)
      PROVE  TypeOK'
  <2>1. CASE Beat(work[a]) /\ UNCHANGED agentVars
    BY <1>24, <2>1 DEF AgentHeartbeat, Beat, TypeOK, procVars, runnerVars, agentVars
  <2>2. CASE AgentForgets(a) /\ UNCHANGED <<quiet, cancelReq>>
    BY <1>24, <2>2, ForgetsType DEF AgentHeartbeat, TypeOK, procVars, runnerVars
  <2>. QED
    BY <1>24, <2>1, <2>2 DEF AgentHeartbeat
<1>25. ASSUME NEW a \in Agents, NEW s \in Terminal, FinishRead(a, s)
      PROVE  TypeOK'
  <2>1. CASE /\ apc' = [apc EXCEPT ![a] = "finishing"]
             /\ report' = [report EXCEPT ![a] = s]
             /\ UNCHANGED work
    BY <1>25, <2>1 DEF FinishRead, TypeOK, dbVars, procVars, runnerVars
  <2>2. CASE AgentForgets(a)
    BY <1>25, <2>2, ForgetsType DEF FinishRead, TypeOK, dbVars, procVars, runnerVars
  <2>. QED
    BY <1>25, <2>1, <2>2 DEF FinishRead
<1>26. ASSUME NEW a \in Agents, FinishWrite(a)
      PROVE  TypeOK'
  <2>1. UNCHANGED <<owner, requeues, cancelReq, quiet, project, config, procVars, promised>>
    BY <1>26 DEF FinishWrite
  <2>2. (IF OwnedRunning(work[a], a) THEN report[a] ELSE status[work[a]]) \in Statuses
    BY <1>26 DEF FinishWrite, AgentInv, TypeOK, Statuses
  <2>3. status' \in [Builds -> Statuses]
    BY <1>26, <2>2, SetType DEF FinishWrite
  <2>4. CASE AgentForgets(a)
    BY <2>1, <2>3, <2>4, ForgetsType DEF TypeOK, procVars, runnerVars
  <2>5. CASE /\ apc' = [apc EXCEPT ![a] = "building"]
             /\ report' = [report EXCEPT ![a] = None]
             /\ UNCHANGED work
    BY <2>1, <2>3, <2>5 DEF TypeOK, procVars, runnerVars
  <2>. QED
    BY <1>26, <2>4, <2>5 DEF FinishWrite
<1>27. ASSUME NEW a \in Agents, AgentCrash(a)
      PROVE  TypeOK'
  BY <1>27 DEF AgentCrash, AgentForgets, TypeOK, vars, dbVars, procVars,
    runnerVars, agentVars
<1>28. ASSUME Drain
      PROVE  TypeOK'
  BY <1>28 DEF Drain, TypeOK, Live, vars, dbVars, procVars, runnerVars,
    agentVars
<1>29. ASSUME StopRunner
      PROVE  TypeOK'
  BY <1>29 DEF StopRunner, TypeOK, Live, vars, dbVars, procVars, runnerVars,
    agentVars
<1>30. ASSUME Exit
      PROVE  TypeOK'
  BY <1>30, IdleType DEF Exit, Down, HandlerInv, TypeOK, Live, vars, dbVars,
    procVars, runnerVars, agentVars
<1>31. ASSUME Crash
      PROVE  TypeOK'
  BY <1>31, IdleType DEF Crash, Down, HandlerInv, TypeOK, Live, vars, dbVars,
    procVars, runnerVars, agentVars
<1>32. ASSUME Boot
      PROVE  TypeOK'
  BY <1>32 DEF Boot, TypeOK, vars, dbVars, procVars, runnerVars, agentVars
<1>33. ASSUME Serve
      PROVE  TypeOK'
  BY <1>33 DEF Serve, TypeOK, Live, vars, dbVars, procVars, runnerVars,
    agentVars
<1>34. ASSUME NEW b \in Builds, RecoverRunning(b)
      PROVE  TypeOK'
  <2>1. status' \in [Builds -> Statuses]
    BY <1>34, SetType DEF RecoverRunning, Statuses, Terminal
  <2>2. requeues' \in [Builds -> 0 .. MaxRequeues]
    BY <1>34, RequeueType DEF RecoverRunning, TypeOK
  <2>. QED
    BY <1>34, <2>1, <2>2 DEF RecoverRunning, TypeOK, procVars, runnerVars, agentVars
<1>35. ASSUME NEW b \in Builds, RecoverPending(b)
      PROVE  TypeOK'
  BY <1>35, EnqueueType DEF RecoverPending, Unqueued, TypeOK, vars, dbVars,
    procVars, runnerVars, agentVars
<1>36. ASSUME GraceEnds
      PROVE  TypeOK'
  BY <1>36 DEF GraceEnds, TypeOK, vars, dbVars, procVars, runnerVars, agentVars
<1>37. ASSUME NEW b \in Builds, Quiet(b)
      PROVE  TypeOK'
  BY <1>37 DEF Quiet, TypeOK, vars, dbVars, procVars, runnerVars, agentVars
<1>38. ASSUME UNCHANGED vars
      PROVE  TypeOK'
  BY <1>38 DEF TypeOK, vars, dbVars, procVars, runnerVars, agentVars
<1>. QED
  BY <1>1, <1>2, <1>3, <1>4, <1>5, <1>6, <1>7, <1>8, <1>9, <1>10, <1>11, <1>12,
    <1>13, <1>14, <1>15, <1>16, <1>17, <1>18, <1>19, <1>20, <1>21, <1>22,
    <1>23, <1>24, <1>25, <1>26, <1>27, <1>28, <1>29, <1>30, <1>31, <1>32,
    <1>33, <1>34, <1>35, <1>36, <1>37, <1>38 DEF Next, HandlerNext, RunnerNext,
    JanitorNext, AgentNext, ProcessNext

-------------------------------------------------------------------------------
(* The other parts of the invariant *)

NamesItsBuild(r) ==
  r.op \in {"dispatch", "registry", "check", "lookup", "flag"} => r.b \in Builds

(* HandlerInv survives a handler's move when the new record names a build  *)
(* wherever it has to.                                                     *)
LEMMA BecomesKeeps ==
  ASSUME TypeOK, HandlerInv, NEW h \in Handlers, NEW r, NamesItsBuild(r), Becomes(h, r)
  PROVE  HandlerInv'
  BY DEF TypeOK, HandlerInv, NamesItsBuild, Becomes

LEMMA ReturnKeeps ==
  ASSUME TypeOK, HandlerInv, NEW h \in Handlers, Return(h)
  PROVE  HandlerInv'
<1>1. NamesItsBuild(Idle)
  BY DEF NamesItsBuild, Idle
<1>. QED
  BY <1>1, BecomesKeeps DEF Return

LEMMA ContinueKeeps ==
  ASSUME TypeOK, HandlerInv, NEW h \in Handlers, NEW op, Continue(h, op),
         op = "adopt" \/ handler[h].b \in Builds
  PROVE  HandlerInv'
<1>1. NamesItsBuild([handler[h] EXCEPT !.op = op])
  BY DEF TypeOK, HandlerType, NamesItsBuild
<1>. QED
  BY <1>1, BecomesKeeps DEF Continue

LEMMA EnqueueNextKeeps ==
  ASSUME TypeOK, HandlerInv, NEW h \in Handlers, NEW todo, EnqueueNext(h, todo)
  PROVE  HandlerInv'
<1>1. NamesItsBuild([handler[h] EXCEPT !.op = "enqueue", !.todo = todo])
  BY DEF TypeOK, HandlerType, NamesItsBuild
<1>. QED
  BY <1>1, BecomesKeeps, ReturnKeeps DEF EnqueueNext

(* A handler that has passed its first step knows its build.               *)
LEMMA HandlersKept ==
  ASSUME TypeOK, HandlerInv, Next \/ UNCHANGED vars
  PROVE  HandlerInv'
<1>1. ASSUME NEW h \in Handlers, HandlerNext(h)
      PROVE  HandlerInv'
  <2>1. ASSUME NEW p \in Projects, TriggerRead(h, p)
        PROVE  HandlerInv'
    <3>1. NamesItsBuild([Idle EXCEPT !.op = "create", !.p = p, !.cfg = config[p]])
      BY DEF NamesItsBuild, Idle
    <3>. QED
      BY <2>1, <3>1, BecomesKeeps DEF TriggerRead, Start
  <2>2. ASSUME NEW p \in Projects, UpdateRead(h, p)
        PROVE  HandlerInv'
    <3>1. NamesItsBuild([Idle EXCEPT !.op = "write", !.p = p, !.cfg = config[p]])
      BY DEF NamesItsBuild, Idle
    <3>. QED
      BY <2>2, <3>1, BecomesKeeps DEF UpdateRead, Start
  <2>3. CASE CreateBuild(h)
    <3>1. \A b \in Builds : NamesItsBuild([handler[h] EXCEPT !.op = "dispatch", !.b = b])
      BY DEF TypeOK, HandlerType, NamesItsBuild
    <3>. QED
      BY <2>3, <3>1, BecomesKeeps, ReturnKeeps DEF CreateBuild
  <2>4. CASE Dispatch(h)
    BY <2>4, ReturnKeeps DEF Dispatch
  <2>5. ASSUME NEW c \in Configs, UpdateWrite(h, c)
        PROVE  HandlerInv'
    BY <2>5, ContinueKeeps, ReturnKeeps DEF UpdateWrite
  <2>6. CASE UpdateAdopt(h)
    BY <2>6, EnqueueNextKeeps DEF UpdateAdopt
  <2>7. CASE UpdateEnqueue(h)
    BY <2>7, EnqueueNextKeeps DEF UpdateEnqueue
  <2>8. ASSUME NEW b \in Builds, CancelPending(h, b)
        PROVE  HandlerInv'
    <3>1. NamesItsBuild([Idle EXCEPT !.op = "registry", !.b = b])
      BY DEF NamesItsBuild, Idle
    <3>2. CASE UNCHANGED handler
      BY <3>2 DEF HandlerInv
    <3>. QED
      BY <2>8, <3>1, <3>2, BecomesKeeps DEF CancelPending, Start
  <2>9. CASE CancelCurrent(h)
    BY <2>9, ContinueKeeps DEF CancelCurrent, HandlerInv
  <2>10. CASE CancelCheck(h)
    BY <2>10, ReturnKeeps DEF CancelCheck
  <2>11. CASE CancelLookup(h)
    BY <2>11, ContinueKeeps, ReturnKeeps DEF CancelLookup, HandlerInv
  <2>12. CASE CancelFlag(h)
    BY <2>12, ReturnKeeps DEF CancelFlag
  <2>. QED
    BY <1>1, <2>1, <2>2, <2>3, <2>4, <2>5, <2>6, <2>7, <2>8, <2>9, <2>10,
      <2>11, <2>12 DEF HandlerNext
<1>2. CASE RunnerNext
  BY <1>2 DEF RunnerNext, RunnerTake, RunnerRegister, ClaimBuild, RunBuild,
    EndBuild, RunnerLeave, RunnerExit, HandlerInv, TypeOK, Idle, dbVars,
    procVars, runnerVars, agentVars
<1>3. CASE JanitorNext
  BY <1>3 DEF JanitorNext, SweepScan, SweepRow, HandlerInv, TypeOK, Idle,
    dbVars, procVars, runnerVars, agentVars
<1>4. ASSUME NEW a \in Agents, AgentNext(a)
      PROVE  HandlerInv'
  BY <1>4 DEF AgentNext, AgentClaim, AnswerClaim, AgentHeartbeat, FinishRead,
    FinishWrite, AgentCrash, HandlerInv, TypeOK, Idle, dbVars, procVars,
    runnerVars, agentVars
<1>5. CASE ProcessNext
  <2>1. CASE Exit
    BY <2>1 DEF Exit, Down, HandlerInv, TypeOK, Idle, dbVars, procVars,
      runnerVars, agentVars
  <2>2. CASE Crash
    BY <2>2 DEF Crash, Down, HandlerInv, TypeOK, Idle, dbVars, procVars,
      runnerVars, agentVars
  <2>3. CASE \/ Drain
             \/ StopRunner
             \/ Boot
             \/ Serve
             \/ \E b \in Builds : RecoverRunning(b)
             \/ \E b \in Builds : RecoverPending(b)
    BY <2>3 DEF Drain, StopRunner, Boot, Serve, RecoverRunning, RecoverPending,
      HandlerInv, TypeOK, Idle, dbVars, procVars, runnerVars, agentVars
  <2>. QED
    BY <1>5, <2>1, <2>2, <2>3 DEF ProcessNext
<1>6. CASE GraceEnds \/ \E b \in Builds : Quiet(b)
  BY <1>6 DEF GraceEnds, Quiet, HandlerInv, TypeOK, Idle, dbVars, procVars,
    runnerVars, agentVars
<1>7. CASE UNCHANGED vars
  BY <1>7 DEF HandlerInv, TypeOK, Idle, vars, dbVars, procVars, runnerVars,
    agentVars
<1>. QED
  BY <1>1, <1>2, <1>3, <1>4, <1>5, <1>6, <1>7 DEF Next

(* Only a claim gives a build an owner, and an owned build is never pending *)
(* again.                                                                  *)
LEMMA RowsKept ==
  ASSUME TypeOK, RowInv, RunnerInv, AgentInv, Next \/ UNCHANGED vars
  PROVE  RowInv'
<1>1. ASSUME NEW h \in Handlers, HandlerNext(h)
      PROVE  RowInv'
  <2>1. CASE CreateBuild(h)
    BY <2>1 DEF CreateBuild, NewBuild, Set, Becomes, Return, RowInv, TypeOK,
      dbVars, procVars, runnerVars, agentVars
  <2>2. CASE Dispatch(h)
    BY <2>2 DEF Dispatch, Enqueue, Set, Return, RowInv, TypeOK, dbVars,
      procVars, runnerVars, agentVars
  <2>3. CASE UpdateEnqueue(h)
    BY <2>3 DEF UpdateEnqueue, Enqueue, EnqueueNext, Set, Becomes, Return,
      RowInv, TypeOK, dbVars, procVars, runnerVars, agentVars
  <2>4. ASSUME NEW b \in Builds, CancelPending(h, b)
        PROVE  RowInv'
    BY <2>4 DEF CancelPending, Start, Set, Becomes, RowInv, TypeOK, dbVars,
      procVars, runnerVars, agentVars
  <2>5. CASE \/ \E p \in Projects : TriggerRead(h, p)
             \/ \E p \in Projects : UpdateRead(h, p)
             \/ \E c \in Configs : UpdateWrite(h, c)
             \/ UpdateAdopt(h)
             \/ CancelCurrent(h)
             \/ CancelCheck(h)
             \/ CancelLookup(h)
             \/ CancelFlag(h)
    BY <2>5 DEF TriggerRead, UpdateRead, UpdateWrite, UpdateAdopt,
      CancelCurrent, CancelCheck, CancelLookup, CancelFlag, RowInv, TypeOK,
      dbVars, procVars, runnerVars, agentVars
  <2>. QED
    BY <1>1, <2>1, <2>2, <2>3, <2>4, <2>5 DEF HandlerNext
<1>2. CASE RunnerNext
  <2>1. CASE ClaimBuild
    BY <2>1 DEF ClaimBuild, Set, RowInv, TypeOK, dbVars, procVars, runnerVars,
      agentVars
  <2>2. CASE EndBuild
    BY <2>2 DEF EndBuild, Set, MayRequeue, Interrupted, RowInv, TypeOK,
      RunnerInv, Terminal, dbVars, procVars, runnerVars, agentVars
  <2>3. CASE \/ RunnerTake
             \/ RunnerRegister
             \/ RunBuild
             \/ RunnerLeave
             \/ RunnerExit
    BY <2>3 DEF RunnerTake, RunnerRegister, RunBuild, RunnerLeave, RunnerExit,
      RowInv, TypeOK, dbVars, procVars, runnerVars, agentVars
  <2>. QED
    BY <1>2, <2>1, <2>2, <2>3 DEF RunnerNext
<1>3. CASE JanitorNext
  <2>1. CASE SweepRow
    BY <2>1 DEF SweepRow, Set, StillStale, Stale, RowInv, TypeOK, dbVars,
      procVars, runnerVars, agentVars
  <2>2. CASE SweepScan
    BY <2>2 DEF SweepScan, RowInv, TypeOK, dbVars, procVars, runnerVars,
      agentVars
  <2>. QED
    BY <1>3, <2>1, <2>2 DEF JanitorNext
<1>4. ASSUME NEW a \in Agents, AgentNext(a)
      PROVE  RowInv'
  <2>1. CASE AgentClaim(a)
    BY <2>1 DEF AgentClaim, Set, Claimable, RowInv, TypeOK, dbVars, procVars,
      runnerVars, agentVars
  <2>2. CASE AnswerClaim(a)
    BY <2>2 DEF AnswerClaim, Set, AgentForgets, RowInv, TypeOK, dbVars,
      procVars, runnerVars, agentVars
  <2>3. CASE FinishWrite(a)
    <3>1. /\ work[a] \in Builds /\ report[a] \in Terminal
          /\ status \in [Builds -> Statuses] /\ owner' = owner
      BY <2>3 DEF FinishWrite, TypeOK, AgentInv
    <3>2. status' = [status EXCEPT ![work[a]] =
                       IF OwnedRunning(work[a], a) THEN report[a] ELSE status[work[a]]]
      BY <2>3 DEF FinishWrite, Set
    <3>3. \A b \in Builds : status'[b] = status[b] \/ status'[b] \in Terminal
      BY <3>1, <3>2
    <3>. QED
      BY <3>1, <3>3 DEF RowInv, Terminal
  <2>4. CASE \/ AgentHeartbeat(a)
             \/ \E s \in Terminal : FinishRead(a, s)
             \/ AgentCrash(a)
    BY <2>4 DEF AgentHeartbeat, FinishRead, AgentCrash, RowInv, TypeOK, dbVars,
      procVars, runnerVars, agentVars
  <2>. QED
    BY <1>4, <2>1, <2>2, <2>3, <2>4 DEF AgentNext
<1>5. CASE ProcessNext
  <2>1. ASSUME NEW b \in Builds, RecoverRunning(b)
        PROVE  RowInv'
    BY <2>1 DEF RecoverRunning, Set, MayRequeue, Interrupted, RowInv, TypeOK,
      dbVars, procVars, runnerVars, agentVars
  <2>2. ASSUME NEW b \in Builds, RecoverPending(b)
        PROVE  RowInv'
    BY <2>2 DEF RecoverPending, Enqueue, Set, Unqueued, RowInv, TypeOK, dbVars,
      procVars, runnerVars, agentVars
  <2>3. CASE \/ Drain
             \/ StopRunner
             \/ Exit
             \/ Crash
             \/ Boot
             \/ Serve
    BY <2>3 DEF Drain, StopRunner, Exit, Crash, Boot, Serve, Down, RowInv,
      TypeOK, dbVars, procVars, runnerVars, agentVars
  <2>. QED
    BY <1>5, <2>1, <2>2, <2>3 DEF ProcessNext
<1>6. CASE GraceEnds \/ \E b \in Builds : Quiet(b)
  BY <1>6 DEF GraceEnds, Quiet, RowInv, TypeOK, dbVars, procVars, runnerVars,
    agentVars
<1>7. CASE UNCHANGED vars
  BY <1>7 DEF RowInv, TypeOK, vars, dbVars, procVars, runnerVars, agentVars
<1>. QED
  BY <1>1, <1>2, <1>3, <1>4, <1>5, <1>6, <1>7 DEF Next

(* The registry and the row the runner works on agree.                      *)
LEMMA RunnerKept ==
  ASSUME TypeOK, HandlerInv, RowInv, RunnerInv, SweepInv, AgentInv, PhaseInv, Next \/ UNCHANGED vars
  PROVE  RunnerInv'
<1>1. ASSUME NEW h \in Handlers, HandlerNext(h)
      PROVE  RunnerInv'
  <2>1. CASE CreateBuild(h)
    BY <2>1 DEF CreateBuild, NewBuild, Set, Becomes, Return, RunnerInv, TypeOK,
      dbVars, procVars, runnerVars, agentVars
  <2>2. CASE Dispatch(h)
    BY <2>2 DEF Dispatch, Enqueue, Set, Return, RunnerInv, TypeOK, dbVars,
      procVars, runnerVars, agentVars
  <2>3. CASE UpdateEnqueue(h)
    BY <2>3 DEF UpdateEnqueue, Enqueue, EnqueueNext, Set, Becomes, Return,
      RunnerInv, TypeOK, dbVars, procVars, runnerVars, agentVars
  <2>4. ASSUME NEW b \in Builds, CancelPending(h, b)
        PROVE  RunnerInv'
    BY <2>4 DEF CancelPending, Start, Set, Becomes, RunnerInv, TypeOK, dbVars,
      procVars, runnerVars, agentVars
  <2>5. CASE \/ \E p \in Projects : TriggerRead(h, p)
             \/ \E p \in Projects : UpdateRead(h, p)
             \/ \E c \in Configs : UpdateWrite(h, c)
             \/ UpdateAdopt(h)
             \/ CancelCurrent(h)
             \/ CancelCheck(h)
             \/ CancelLookup(h)
             \/ CancelFlag(h)
    BY <2>5 DEF TriggerRead, UpdateRead, UpdateWrite, UpdateAdopt,
      CancelCurrent, CancelCheck, CancelLookup, CancelFlag, RunnerInv, TypeOK,
      dbVars, procVars, runnerVars, agentVars
  <2>. QED
    BY <1>1, <2>1, <2>2, <2>3, <2>4, <2>5 DEF HandlerNext
<1>2. CASE RunnerNext
  <2>1. CASE RunnerTake
    BY <2>1 DEF RunnerTake, RunnerInv, TypeOK, dbVars, procVars, runnerVars,
      agentVars
  <2>2. CASE RunnerRegister
    BY <2>2 DEF RunnerRegister, RunnerInv, TypeOK, dbVars, procVars,
      runnerVars, agentVars
  <2>3. CASE ClaimBuild
    BY <2>3 DEF ClaimBuild, Set, RunnerInv, TypeOK, RowInv, dbVars, procVars,
      runnerVars, agentVars
  <2>4. CASE RunBuild
    BY <2>4, ConstantsOK DEF RunBuild, RunnerInv, TypeOK, dbVars, procVars,
      runnerVars, agentVars
  <2>5. CASE EndBuild
    BY <2>5 DEF EndBuild, Set, MayRequeue, Interrupted, RunnerInv, TypeOK,
      dbVars, procVars, runnerVars, agentVars
  <2>6. CASE RunnerLeave
    BY <2>6 DEF RunnerLeave, RunnerInv, TypeOK, dbVars, procVars, runnerVars,
      agentVars
  <2>7. CASE RunnerExit
    BY <2>7 DEF RunnerExit, RunnerInv, TypeOK, dbVars, procVars, runnerVars,
      agentVars
  <2>. QED
    BY <1>2, <2>1, <2>2, <2>3, <2>4, <2>5, <2>6, <2>7 DEF RunnerNext
<1>3. CASE JanitorNext
  <2>1. CASE SweepRow
    BY <2>1 DEF SweepRow, Set, StillStale, Stale, RunnerInv, TypeOK, SweepInv,
      dbVars, procVars, runnerVars, agentVars
  <2>2. CASE SweepScan
    BY <2>2 DEF SweepScan, RunnerInv, TypeOK, dbVars, procVars, runnerVars,
      agentVars
  <2>. QED
    BY <1>3, <2>1, <2>2 DEF JanitorNext
<1>4. ASSUME NEW a \in Agents, AgentNext(a)
      PROVE  RunnerInv'
  <2>1. CASE AgentClaim(a)
    BY <2>1 DEF AgentClaim, Set, Claimable, RunnerInv, TypeOK, dbVars,
      procVars, runnerVars, agentVars
  <2>2. CASE AnswerClaim(a)
    <3>1. owner[work[a]] # None
      BY <2>2, ConstantsOK DEF AnswerClaim, AgentInv
    <3>2. CASE UNCHANGED status
      BY <2>2, <3>2 DEF AnswerClaim, RunnerInv, procVars, runnerVars
    <3>3. CASE Set(work[a], "failed")
      BY <2>2, <3>1, <3>3 DEF AnswerClaim, Set, RunnerInv, TypeOK, procVars, runnerVars
    <3>. QED
      BY <2>2, <3>2, <3>3 DEF AnswerClaim
  <2>3. CASE FinishWrite(a)
    BY <2>3, ConstantsOK DEF FinishWrite, Set, OwnedRunning, AgentForgets,
      RunnerInv, TypeOK, AgentInv, dbVars, procVars, runnerVars, agentVars
  <2>4. CASE \/ AgentHeartbeat(a)
             \/ \E s \in Terminal : FinishRead(a, s)
             \/ AgentCrash(a)
    BY <2>4 DEF AgentHeartbeat, FinishRead, AgentCrash, RunnerInv, TypeOK,
      dbVars, procVars, runnerVars, agentVars
  <2>. QED
    BY <1>4, <2>1, <2>2, <2>3, <2>4 DEF AgentNext
<1>5. CASE ProcessNext
  <2>1. CASE Exit
    BY <2>1 DEF Exit, Down, RunnerInv, TypeOK, dbVars, procVars, runnerVars,
      agentVars
  <2>2. CASE Crash
    BY <2>2 DEF Crash, Down, RunnerInv, TypeOK, dbVars, procVars, runnerVars,
      agentVars
  <2>3. ASSUME NEW b \in Builds, RecoverRunning(b)
        PROVE  RunnerInv'
    BY <2>3 DEF RecoverRunning, Set, MayRequeue, Interrupted, RunnerInv,
      TypeOK, PhaseInv, Live, dbVars, procVars, runnerVars, agentVars
  <2>4. ASSUME NEW b \in Builds, RecoverPending(b)
        PROVE  RunnerInv'
    BY <2>4 DEF RecoverPending, Enqueue, Set, Unqueued, RunnerInv, TypeOK,
      PhaseInv, Live, dbVars, procVars, runnerVars, agentVars
  <2>5. CASE \/ Drain
             \/ StopRunner
             \/ Boot
             \/ Serve
    BY <2>5 DEF Drain, StopRunner, Boot, Serve, RunnerInv, TypeOK, dbVars,
      procVars, runnerVars, agentVars
  <2>. QED
    BY <1>5, <2>1, <2>2, <2>3, <2>4, <2>5 DEF ProcessNext
<1>6. CASE GraceEnds \/ \E b \in Builds : Quiet(b)
  BY <1>6 DEF GraceEnds, Quiet, RunnerInv, TypeOK, dbVars, procVars,
    runnerVars, agentVars
<1>7. CASE UNCHANGED vars
  BY <1>7 DEF RunnerInv, TypeOK, vars, dbVars, procVars, runnerVars, agentVars
<1>. QED
  BY <1>1, <1>2, <1>3, <1>4, <1>5, <1>6, <1>7 DEF Next

(* Nothing is registered while a sweep is on.                              *)
LEMMA SweepKept ==
  ASSUME SweepInv, Next \/ UNCHANGED vars
  PROVE  SweepInv'
<1>1. ASSUME NEW h \in Handlers, HandlerNext(h)
      PROVE  SweepInv'
  <2>1. ASSUME NEW p \in Projects, TriggerRead(h, p)
        PROVE  SweepInv'
    BY <2>1 DEF TriggerRead, Start, Becomes, SweepInv, dbVars, procVars,
      runnerVars, agentVars
  <2>2. ASSUME NEW p \in Projects, UpdateRead(h, p)
        PROVE  SweepInv'
    BY <2>2 DEF UpdateRead, Start, Becomes, SweepInv, dbVars, procVars,
      runnerVars, agentVars
  <2>3. CASE CreateBuild(h)
    BY <2>3 DEF CreateBuild, NewBuild, Set, Becomes, Return, SweepInv, dbVars,
      procVars, runnerVars, agentVars
  <2>4. CASE Dispatch(h)
    BY <2>4 DEF Dispatch, Enqueue, Set, Return, SweepInv, dbVars, procVars,
      runnerVars, agentVars
  <2>5. ASSUME NEW c \in Configs, UpdateWrite(h, c)
        PROVE  SweepInv'
    BY <2>5 DEF UpdateWrite, Becomes, Continue, Return, SweepInv, dbVars,
      procVars, runnerVars, agentVars
  <2>6. CASE UpdateAdopt(h)
    BY <2>6 DEF UpdateAdopt, EnqueueNext, Becomes, Return, SweepInv, dbVars,
      procVars, runnerVars, agentVars
  <2>7. CASE UpdateEnqueue(h)
    BY <2>7 DEF UpdateEnqueue, Enqueue, EnqueueNext, Set, Becomes, Return,
      SweepInv, dbVars, procVars, runnerVars, agentVars
  <2>8. ASSUME NEW b \in Builds, CancelPending(h, b)
        PROVE  SweepInv'
    BY <2>8 DEF CancelPending, Start, Set, Becomes, SweepInv, dbVars, procVars,
      runnerVars, agentVars
  <2>9. CASE CancelCurrent(h)
    BY <2>9 DEF CancelCurrent, Continue, Becomes, SweepInv, dbVars, procVars,
      runnerVars, agentVars
  <2>10. CASE CancelCheck(h)
    BY <2>10 DEF CancelCheck, Return, Becomes, SweepInv, dbVars, procVars,
      runnerVars, agentVars
  <2>11. CASE CancelLookup(h)
    BY <2>11 DEF CancelLookup, Continue, Return, Becomes, SweepInv, dbVars,
      procVars, runnerVars, agentVars
  <2>12. CASE CancelFlag(h)
    BY <2>12 DEF CancelFlag, Return, Becomes, SweepInv, dbVars, procVars,
      runnerVars, agentVars
  <2>. QED
    BY <1>1, <2>1, <2>2, <2>3, <2>4, <2>5, <2>6, <2>7, <2>8, <2>9, <2>10,
      <2>11, <2>12 DEF HandlerNext
<1>2. CASE RunnerNext
  <2>1. CASE RunnerRegister
    BY <2>1 DEF RunnerRegister, SweepInv, dbVars, procVars, runnerVars,
      agentVars
  <2>2. CASE RunnerLeave
    BY <2>2 DEF RunnerLeave, SweepInv, dbVars, procVars, runnerVars, agentVars
  <2>3. CASE \/ RunnerTake
             \/ ClaimBuild
             \/ RunBuild
             \/ EndBuild
             \/ RunnerExit
    BY <2>3 DEF RunnerTake, ClaimBuild, RunBuild, EndBuild, RunnerExit,
      SweepInv, dbVars, procVars, runnerVars, agentVars
  <2>. QED
    BY <1>2, <2>1, <2>2, <2>3 DEF RunnerNext
<1>3. CASE JanitorNext
  <2>1. CASE SweepScan
    BY <2>1 DEF SweepScan, Sweepable, SweepInv, dbVars, procVars, runnerVars,
      agentVars
  <2>2. CASE SweepRow
    BY <2>2 DEF SweepRow, Set, StillStale, Stale, SweepInv, dbVars, procVars,
      runnerVars, agentVars
  <2>. QED
    BY <1>3, <2>1, <2>2 DEF JanitorNext
<1>4. ASSUME NEW a \in Agents, AgentNext(a)
      PROVE  SweepInv'
  BY <1>4 DEF AgentNext, AgentClaim, AnswerClaim, AgentHeartbeat, FinishRead,
    FinishWrite, AgentCrash, SweepInv, dbVars, procVars, runnerVars, agentVars
<1>5. CASE ProcessNext
  <2>1. CASE Exit
    BY <2>1 DEF Exit, Down, SweepInv, dbVars, procVars, runnerVars, agentVars
  <2>2. CASE Crash
    BY <2>2 DEF Crash, Down, SweepInv, dbVars, procVars, runnerVars, agentVars
  <2>3. CASE \/ Drain
             \/ StopRunner
             \/ Boot
             \/ Serve
             \/ \E b \in Builds : RecoverRunning(b)
             \/ \E b \in Builds : RecoverPending(b)
    BY <2>3 DEF Drain, StopRunner, Boot, Serve, RecoverRunning, RecoverPending,
      SweepInv, dbVars, procVars, runnerVars, agentVars
  <2>. QED
    BY <1>5, <2>1, <2>2, <2>3 DEF ProcessNext
<1>6. CASE GraceEnds \/ \E b \in Builds : Quiet(b)
  BY <1>6 DEF GraceEnds, Quiet, SweepInv, dbVars, procVars, runnerVars,
    agentVars
<1>7. CASE UNCHANGED vars
  BY <1>7 DEF SweepInv, vars, dbVars, procVars, runnerVars, agentVars
<1>. QED
  BY <1>1, <1>2, <1>3, <1>4, <1>5, <1>6, <1>7 DEF Next

(* The runner and the janitor only work in a process that is up.           *)
LEMMA PhaseKept ==
  ASSUME RunnerInv, PhaseInv, Next \/ UNCHANGED vars
  PROVE  PhaseInv'
<1>1. ASSUME NEW h \in Handlers, HandlerNext(h)
      PROVE  PhaseInv'
  BY <1>1 DEF HandlerNext, TriggerRead, UpdateRead, CreateBuild, Dispatch,
    UpdateWrite, UpdateAdopt, UpdateEnqueue, CancelPending, Start,
    CancelCurrent, CancelCheck, CancelLookup, CancelFlag, PhaseInv, Live,
    dbVars, procVars, runnerVars, agentVars
<1>2. CASE RunnerNext
  <2>1. CASE RunnerTake
    BY <2>1 DEF RunnerTake, PhaseInv, Live, dbVars, procVars, runnerVars,
      agentVars
  <2>2. CASE RunnerRegister
    BY <2>2 DEF RunnerRegister, PhaseInv, Live, dbVars, procVars, runnerVars,
      agentVars
  <2>3. CASE ClaimBuild
    BY <2>3 DEF ClaimBuild, Set, PhaseInv, Live, dbVars, procVars, runnerVars,
      agentVars
  <2>4. CASE RunBuild
    BY <2>4 DEF RunBuild, PhaseInv, Live, dbVars, procVars, runnerVars,
      agentVars
  <2>5. CASE EndBuild
    BY <2>5 DEF EndBuild, Set, MayRequeue, Interrupted, PhaseInv, Live, dbVars,
      procVars, runnerVars, agentVars
  <2>6. CASE RunnerLeave
    BY <2>6 DEF RunnerLeave, PhaseInv, Live, dbVars, procVars, runnerVars,
      agentVars
  <2>7. CASE RunnerExit
    BY <2>7 DEF RunnerExit, PhaseInv, Live, dbVars, procVars, runnerVars,
      agentVars
  <2>. QED
    BY <1>2, <2>1, <2>2, <2>3, <2>4, <2>5, <2>6, <2>7 DEF RunnerNext
<1>3. CASE JanitorNext
  <2>1. CASE SweepScan
    BY <2>1 DEF SweepScan, Sweepable, PhaseInv, Live, dbVars, procVars,
      runnerVars, agentVars
  <2>2. CASE SweepRow
    BY <2>2 DEF SweepRow, Set, StillStale, Stale, PhaseInv, Live, dbVars,
      procVars, runnerVars, agentVars
  <2>. QED
    BY <1>3, <2>1, <2>2 DEF JanitorNext
<1>4. ASSUME NEW a \in Agents, AgentNext(a)
      PROVE  PhaseInv'
  BY <1>4 DEF AgentNext, AgentClaim, AnswerClaim, AgentHeartbeat, FinishRead,
    FinishWrite, AgentCrash, PhaseInv, Live, dbVars, procVars, runnerVars,
    agentVars
<1>5. CASE ProcessNext
  <2>1. CASE Drain
    BY <2>1 DEF Drain, PhaseInv, Live, dbVars, procVars, runnerVars, agentVars
  <2>2. CASE StopRunner
    BY <2>2 DEF StopRunner, PhaseInv, Live, dbVars, procVars, runnerVars,
      agentVars
  <2>3. CASE Exit
    BY <2>3 DEF Exit, Down, PhaseInv, Live, dbVars, procVars, runnerVars,
      agentVars
  <2>4. CASE Crash
    BY <2>4 DEF Crash, Down, PhaseInv, Live, dbVars, procVars, runnerVars,
      agentVars
  <2>5. CASE Boot
    BY <2>5 DEF Boot, PhaseInv, Live, dbVars, procVars, runnerVars, agentVars
  <2>6. CASE Serve
    BY <2>6 DEF Serve, PhaseInv, Live, dbVars, procVars, runnerVars, agentVars
  <2>7. CASE \/ \E b \in Builds : RecoverRunning(b)
             \/ \E b \in Builds : RecoverPending(b)
    BY <2>7 DEF RecoverRunning, RecoverPending, PhaseInv, Live, dbVars,
      procVars, runnerVars, agentVars
  <2>. QED
    BY <1>5, <2>1, <2>2, <2>3, <2>4, <2>5, <2>6, <2>7 DEF ProcessNext
<1>6. CASE GraceEnds \/ \E b \in Builds : Quiet(b)
  BY <1>6 DEF GraceEnds, Quiet, PhaseInv, Live, dbVars, procVars, runnerVars,
    agentVars
<1>7. CASE UNCHANGED vars
  BY <1>7 DEF PhaseInv, Live, vars, dbVars, procVars, runnerVars, agentVars
<1>. QED
  BY <1>1, <1>2, <1>3, <1>4, <1>5, <1>6, <1>7 DEF Next

(* An agent that works on a build owns its row.                            *)
LEMMA AgentsKept ==
  ASSUME TypeOK, RowInv, RunnerInv, AgentInv, Next \/ UNCHANGED vars
  PROVE  AgentInv'
<1>1. ASSUME NEW h \in Handlers, HandlerNext(h)
      PROVE  AgentInv'
  <2>1. CASE CreateBuild(h)
    BY <2>1 DEF CreateBuild, NewBuild, Set, Becomes, Return, AgentInv, TypeOK,
      dbVars, procVars, runnerVars, agentVars
  <2>2. CASE Dispatch(h)
    BY <2>2 DEF Dispatch, Enqueue, Set, Return, AgentInv, TypeOK, dbVars,
      procVars, runnerVars, agentVars
  <2>3. CASE UpdateEnqueue(h)
    BY <2>3 DEF UpdateEnqueue, Enqueue, EnqueueNext, Set, Becomes, Return,
      AgentInv, TypeOK, dbVars, procVars, runnerVars, agentVars
  <2>4. ASSUME NEW b \in Builds, CancelPending(h, b)
        PROVE  AgentInv'
    BY <2>4 DEF CancelPending, Start, Set, Becomes, AgentInv, TypeOK, dbVars,
      procVars, runnerVars, agentVars
  <2>5. CASE \/ \E p \in Projects : TriggerRead(h, p)
             \/ \E p \in Projects : UpdateRead(h, p)
             \/ \E c \in Configs : UpdateWrite(h, c)
             \/ UpdateAdopt(h)
             \/ CancelCurrent(h)
             \/ CancelCheck(h)
             \/ CancelLookup(h)
             \/ CancelFlag(h)
    BY <2>5 DEF TriggerRead, UpdateRead, UpdateWrite, UpdateAdopt,
      CancelCurrent, CancelCheck, CancelLookup, CancelFlag, AgentInv, TypeOK,
      dbVars, procVars, runnerVars, agentVars
  <2>. QED
    BY <1>1, <2>1, <2>2, <2>3, <2>4, <2>5 DEF HandlerNext
<1>2. CASE RunnerNext
  <2>1. CASE ClaimBuild
    BY <2>1 DEF ClaimBuild, Set, AgentInv, TypeOK, dbVars, procVars,
      runnerVars, agentVars
  <2>2. CASE EndBuild
    BY <2>2, ConstantsOK DEF EndBuild, Set, MayRequeue, Interrupted, AgentInv,
      TypeOK, RunnerInv, dbVars, procVars, runnerVars, agentVars
  <2>3. CASE \/ RunnerTake
             \/ RunnerRegister
             \/ RunBuild
             \/ RunnerLeave
             \/ RunnerExit
    BY <2>3 DEF RunnerTake, RunnerRegister, RunBuild, RunnerLeave, RunnerExit,
      AgentInv, TypeOK, dbVars, procVars, runnerVars, agentVars
  <2>. QED
    BY <1>2, <2>1, <2>2, <2>3 DEF RunnerNext
<1>3. CASE JanitorNext
  <2>1. CASE SweepRow
    BY <2>1 DEF SweepRow, Set, StillStale, Stale, AgentInv, TypeOK, dbVars,
      procVars, runnerVars, agentVars
  <2>2. CASE SweepScan
    BY <2>2 DEF SweepScan, AgentInv, TypeOK, dbVars, procVars, runnerVars,
      agentVars
  <2>. QED
    BY <1>3, <2>1, <2>2 DEF JanitorNext
<1>4. ASSUME NEW a \in Agents, AgentNext(a)
      PROVE  AgentInv'
  <2>1. CASE AgentClaim(a)
    BY <2>1, ConstantsOK DEF AgentClaim, Set, Claimable, AgentInv, TypeOK,
      RowInv, dbVars, procVars, runnerVars, agentVars
  <2>2. CASE AnswerClaim(a)
    BY <2>2 DEF AnswerClaim, Set, AgentForgets, AgentInv, TypeOK, dbVars,
      procVars, runnerVars, agentVars
  <2>3. CASE AgentHeartbeat(a)
    BY <2>3 DEF AgentHeartbeat, Beat, AgentForgets, OwnedRunning, AgentInv,
      TypeOK, dbVars, procVars, runnerVars, agentVars
  <2>4. ASSUME NEW s \in Terminal, FinishRead(a, s)
        PROVE  AgentInv'
    BY <2>4 DEF FinishRead, OwnedRunning, AgentForgets, AgentInv, TypeOK,
      dbVars, procVars, runnerVars, agentVars
  <2>5. CASE FinishWrite(a)
    <3>1. CASE AgentForgets(a)
      BY <2>5, <3>1 DEF FinishWrite, Set, AgentForgets, OwnedRunning, AgentInv, TypeOK
    <3>2. CASE /\ apc' = [apc EXCEPT ![a] = "building"]
               /\ report' = [report EXCEPT ![a] = None]
               /\ UNCHANGED work
      BY <2>5, <3>2 DEF FinishWrite, Set, OwnedRunning, AgentInv, TypeOK
    <3>. QED
      BY <2>5, <3>1, <3>2 DEF FinishWrite
  <2>6. CASE AgentCrash(a)
    BY <2>6 DEF AgentCrash, AgentForgets, AgentInv, TypeOK, dbVars, procVars,
      runnerVars, agentVars
  <2>. QED
    BY <1>4, <2>1, <2>2, <2>3, <2>4, <2>5, <2>6 DEF AgentNext
<1>5. CASE ProcessNext
  <2>1. CASE Exit
    BY <2>1 DEF Exit, Down, AgentInv, TypeOK, dbVars, procVars, runnerVars,
      agentVars
  <2>2. CASE Crash
    BY <2>2 DEF Crash, Down, AgentInv, TypeOK, dbVars, procVars, runnerVars,
      agentVars
  <2>3. ASSUME NEW b \in Builds, RecoverRunning(b)
        PROVE  AgentInv'
    <3>1. \A a \in Agents : apc[a] # "idle" => work[a] # b
      BY <2>3, ConstantsOK DEF RecoverRunning, Interrupted, AgentInv
    <3>2. \A c \in Builds \ {b} : status'[c] = status[c]
      BY <2>3 DEF RecoverRunning, Set, TypeOK
    <3>. QED
      BY <2>3, <3>1, <3>2 DEF RecoverRunning, AgentInv, agentVars
  <2>4. ASSUME NEW b \in Builds, RecoverPending(b)
        PROVE  AgentInv'
    BY <2>4 DEF RecoverPending, Enqueue, Set, Unqueued, AgentInv, TypeOK,
      dbVars, procVars, runnerVars, agentVars
  <2>5. CASE \/ Drain
             \/ StopRunner
             \/ Boot
             \/ Serve
    BY <2>5 DEF Drain, StopRunner, Boot, Serve, AgentInv, TypeOK, dbVars,
      procVars, runnerVars, agentVars
  <2>. QED
    BY <1>5, <2>1, <2>2, <2>3, <2>4, <2>5 DEF ProcessNext
<1>6. CASE GraceEnds \/ \E b \in Builds : Quiet(b)
  BY <1>6 DEF GraceEnds, Quiet, AgentInv, TypeOK, dbVars, procVars, runnerVars,
    agentVars
<1>7. CASE UNCHANGED vars
  BY <1>7 DEF AgentInv, TypeOK, vars, dbVars, procVars, runnerVars, agentVars
<1>. QED
  BY <1>1, <1>2, <1>3, <1>4, <1>5, <1>6, <1>7 DEF Next

-------------------------------------------------------------------------------
(* The invariant holds *)

(* The initial states satisfy the inductive invariant.                     *)
LEMMA InitInv == ASSUME Init PROVE IInv
<1>1. TypeOK
  BY InitType
<1>2. HandlerInv /\ RowInv /\ RunnerInv /\ SweepInv /\ AgentInv /\ PhaseInv
  BY DEF Init, HandlerInv, RowInv, RunnerInv, SweepInv, AgentInv, PhaseInv, Idle, Live
<1>. QED
  BY <1>1, <1>2 DEF IInv

(* Every step, and stuttering, preserves it.                               *)
LEMMA NextInv == ASSUME IInv, [Next]_vars PROVE IInv'
<1>1. TypeOK'
  BY TypesKept DEF IInv
<1>2. HandlerInv' /\ RowInv'
  BY HandlersKept, RowsKept DEF IInv
<1>3. RunnerInv' /\ SweepInv'
  BY RunnerKept, SweepKept DEF IInv
<1>4. AgentInv' /\ PhaseInv'
  BY AgentsKept, PhaseKept DEF IInv
<1>. QED
  BY <1>1, <1>2, <1>3, <1>4 DEF IInv

(* Everything the safety theorems need is invariant.                       *)
THEOREM Invariance == Spec => []IInv
<1>1. Init => IInv
  BY InitInv
<1>2. IInv /\ [Next]_vars => IInv'
  BY NextInv
<1>. QED
  BY <1>1, <1>2, PTL DEF Spec

(* The database, the server and the agents stay well typed: in particular  *)
(* no build is re-queued more often than models.MaxBuildRequeues.          *)
THEOREM TypeCorrect == Spec => []TypeOK
<1>1. IInv => TypeOK
  BY DEF IInv
<1>. QED
  BY <1>1, Invariance, PTL

(* While the runner's commands run, its row is running and unowned and the *)
(* registry points at it: SweepStale's exclusion of the current build, the *)
(* claim's compare-and-swap and the cancel path never take it away.        *)
THEOREM RunnerIsSafe == Spec => []RunnerKeepsItsBuild
<1>1. IInv => RunnerKeepsItsBuild
  BY DEF IInv, RunnerInv, RunnerKeepsItsBuild, RunnerHolds, OwnedRunning
<1>. QED
  BY <1>1, Invariance, PTL

(* No two workers, agents or the runner, ever hold the same build.         *)
THEOREM OneWorker == Spec => []OneWorkerPerBuild
<1>1. IInv => OneWorkerPerBuild
  BY ConstantsOK DEF IInv, RunnerInv, AgentInv, OneWorkerPerBuild, RunnerHolds, AgentHolds
<1>. QED
  BY <1>1, Invariance, PTL

-------------------------------------------------------------------------------
(* The queue implements BuildLifecycle.  First, what a write of one row is *)
(* in the abstract specification.                                          *)

LifecycleStep == Lifecycle!Next \/ UNCHANGED Lifecycle!vars

(* How each kind of write maps to a step of BuildLifecycle: no write of    *)
(* the row stutters, ...                                                   *)
LEMMA StutterRefines ==
  ASSUME UNCHANGED <<status, owner, requeues>>
  PROVE  LifecycleStep
  BY DEF LifecycleStep, Lifecycle!vars, holder, Holder

(* ... an insertion is Create, ...                                         *)
LEMMA CreateRefines ==
  ASSUME TypeOK, NEW b \in Builds, status[b] = "none", Set(b, "pending"),
         UNCHANGED <<owner, requeues>>
  PROVE  LifecycleStep
<1>1. holder' = holder
  BY DEF holder, Holder, Set, TypeOK
<1>2. Lifecycle!Create(b)
  BY <1>1 DEF Lifecycle!Create, Set
<1>. QED
  BY <1>2 DEF LifecycleStep, Lifecycle!Next

(* ... a pending row given up on is Abandon, ...                           *)
LEMMA AbandonRefines ==
  ASSUME TypeOK, NEW b \in Builds, status[b] = "pending", NEW s \in {"failed", "canceled"},
         Set(b, s), UNCHANGED <<owner, requeues>>
  PROVE  LifecycleStep
<1>1. holder' = holder
  BY DEF holder, Holder, Set, TypeOK
<1>2. Lifecycle!Abandon(b, s) /\ s \in Lifecycle!Settled
  BY <1>1 DEF Lifecycle!Abandon, Lifecycle!Settled, Set
<1>. QED
  BY <1>2 DEF LifecycleStep, Lifecycle!Next

(* ... an outcome is Settle, ...                                           *)
LEMMA SettleRefines ==
  ASSUME TypeOK, NEW b \in Builds, status[b] = "running", NEW s \in Terminal, Set(b, s),
         UNCHANGED <<owner, requeues>>
  PROVE  LifecycleStep
<1>1. holder' = [holder EXCEPT ![b] = None]
  <2>1. \A c \in Builds : holder'[c] = IF c = b THEN None ELSE holder[c]
    BY DEF holder, Holder, Set, TypeOK, Terminal
  <2>. QED
    BY <2>1 DEF holder
<1>2. Lifecycle!Settle(b, s) /\ s \in Lifecycle!Settled
  BY <1>1 DEF Lifecycle!Settle, Lifecycle!Settled, Set, Terminal
<1>. QED
  BY <1>2 DEF LifecycleStep, Lifecycle!Next

(* ... a build handed back to the queue is Requeue, ...                    *)
LEMMA RequeueRefines ==
  ASSUME TypeOK, NEW b \in Builds, MayRequeue(b), Set(b, "pending"), UNCHANGED owner,
         requeues' = [requeues EXCEPT ![b] = @ + 1]
  PROVE  LifecycleStep
<1>1. holder' = [holder EXCEPT ![b] = None]
  <2>1. \A c \in Builds : holder'[c] = IF c = b THEN None ELSE holder[c]
    BY DEF holder, Holder, Set, TypeOK
  <2>. QED
    BY <2>1 DEF holder
<1>2. Lifecycle!Requeue(b)
  BY <1>1 DEF Lifecycle!Requeue, Lifecycle!Server, Set, MayRequeue, Interrupted, holder, Holder
<1>. QED
  BY <1>2 DEF LifecycleStep, Lifecycle!Next

(* ... a send on the channel is an Abandon or a stutter, ...               *)
LEMMA EnqueueRefines ==
  ASSUME TypeOK, NEW b \in Builds, Enqueue(b), UNCHANGED <<owner, requeues>>
  PROVE  LifecycleStep
<1>1. CASE UNCHANGED status
  BY <1>1, StutterRefines
<1>2. CASE Set(b, "failed") /\ status[b] = "pending"
  BY <1>2, AbandonRefines
<1>3. CASE Set(b, status[b])
  <2>1. UNCHANGED status
    BY <1>3 DEF Set, TypeOK
  <2>. QED
    BY <2>1, StutterRefines
<1>. QED
  BY <1>1, <1>2, <1>3 DEF Enqueue

(* ... and a claim, by the runner or an agent, is Start.                   *)
LEMMA StartRefines ==
  ASSUME NEW b \in Builds, NEW w \in Agents \cup {"server"}, status[b] = "pending",
         Set(b, "running"), holder' = [holder EXCEPT ![b] = w], UNCHANGED requeues
  PROVE  LifecycleStep
<1>1. Lifecycle!Start(b, w)
  BY DEF Lifecycle!Start, Set
<1>. QED
  BY <1>1 DEF LifecycleStep, Lifecycle!Next, Lifecycle!Server

(* Every step is a step of BuildLifecycle, or none.                        *)
LEMMA StepRefines ==
  ASSUME IInv, Next \/ UNCHANGED vars
  PROVE  LifecycleStep
<1>. USE DEF IInv
<1>1. ASSUME NEW h \in Handlers, HandlerNext(h)
      PROVE  LifecycleStep
  <2>1. CASE CreateBuild(h)
    <3>1. CASE \E b \in Builds : NewBuild(b) /\ Set(b, "pending")
      BY <2>1, <3>1, CreateRefines DEF CreateBuild, NewBuild
    <3>2. CASE UNCHANGED status
      BY <2>1, <3>2, StutterRefines DEF CreateBuild
    <3>. QED
      BY <2>1, <3>1, <3>2 DEF CreateBuild
  <2>2. CASE Dispatch(h)
    <3>1. handler[h].b \in Builds /\ UNCHANGED <<owner, requeues>>
      BY <2>2 DEF Dispatch, HandlerInv
    <3>. QED
      BY <2>2, <3>1, EnqueueRefines, StutterRefines DEF Dispatch
  <2>3. CASE UpdateEnqueue(h)
    <3>1. PICK b \in handler[h].todo : Enqueue(b)
      BY <2>3 DEF UpdateEnqueue
    <3>2. b \in Builds
      BY <3>1 DEF TypeOK, HandlerType
    <3>. QED
      BY <2>3, <3>1, <3>2, EnqueueRefines DEF UpdateEnqueue
  <2>4. ASSUME NEW b \in Builds, CancelPending(h, b)
        PROVE  LifecycleStep
    <3>1. CASE status[b] = "pending" /\ Set(b, "canceled")
      BY <2>4, <3>1, AbandonRefines DEF CancelPending
    <3>2. CASE UNCHANGED status
      BY <2>4, <3>2, StutterRefines DEF CancelPending
    <3>. QED
      BY <2>4, <3>1, <3>2 DEF CancelPending
  <2>5. CASE \/ \E p \in Projects : TriggerRead(h, p)
             \/ \E p \in Projects : UpdateRead(h, p)
             \/ \E c \in Configs : UpdateWrite(h, c)
             \/ UpdateAdopt(h)
             \/ CancelCurrent(h)
             \/ CancelCheck(h)
             \/ CancelLookup(h)
             \/ CancelFlag(h)
    BY <2>5, StutterRefines DEF TriggerRead, UpdateRead, UpdateWrite, UpdateAdopt,
      CancelCurrent, CancelCheck, CancelLookup, CancelFlag, dbVars, procVars,
      runnerVars, agentVars
  <2>. QED
    BY <1>1, <2>1, <2>2, <2>3, <2>4, <2>5 DEF HandlerNext
<1>2. CASE RunnerNext
  <2>1. CASE ClaimBuild
    <3>1. CASE status[job] = "pending" /\ Set(job, "running")
      <4>1. job \in Builds /\ owner[job] = None
        BY <2>1, <3>1 DEF ClaimBuild, RunnerInv, RowInv
      <4>2. UNCHANGED <<owner, requeues>>
        BY <2>1 DEF ClaimBuild
      <4>3. \A c \in Builds : holder'[c] = IF c = job THEN "server" ELSE holder[c]
        BY <3>1, <4>1, <4>2 DEF holder, Holder, Set, TypeOK
      <4>4. holder' = [holder EXCEPT ![job] = "server"]
        BY <4>3 DEF holder
      <4>. QED
        BY <3>1, <4>1, <4>2, <4>4, StartRefines
    <3>2. CASE UNCHANGED status
      BY <2>1, <3>2, StutterRefines DEF ClaimBuild
    <3>. QED
      BY <2>1, <3>1, <3>2 DEF ClaimBuild
  <2>2. CASE EndBuild
    <3>1. job \in Builds /\ status[job] = "running" /\ verdict \in Terminal \cup {"requeue"}
      BY <2>2 DEF EndBuild, RunnerInv, TypeOK
    <3>2. UNCHANGED owner
      BY <2>2 DEF EndBuild
    <3>3. CASE /\ MayRequeue(job)
               /\ Set(job, "pending")
               /\ requeues' = [requeues EXCEPT ![job] = @ + 1]
      BY <3>1, <3>2, <3>3, RequeueRefines
    <3>4. CASE Set(job, "failed") /\ UNCHANGED requeues
      BY <3>1, <3>2, <3>4, SettleRefines DEF Terminal
    <3>5. CASE verdict # "requeue" /\ Set(job, verdict) /\ UNCHANGED requeues
      BY <3>1, <3>2, <3>5, SettleRefines
    <3>6. CASE UNCHANGED <<status, requeues>>
      BY <3>2, <3>6, StutterRefines
    <3>. QED
      BY <2>2, <3>3, <3>4, <3>5, <3>6 DEF EndBuild
  <2>3. CASE \/ RunnerTake
             \/ RunnerRegister
             \/ RunBuild
             \/ RunnerLeave
             \/ RunnerExit
    BY <2>3, StutterRefines DEF RunnerTake, RunnerRegister, RunBuild, RunnerLeave, RunnerExit,
      dbVars, procVars, runnerVars, agentVars
  <2>. QED
    BY <1>2, <2>1, <2>2, <2>3 DEF RunnerNext
<1>3. CASE JanitorNext
  <2>1. CASE SweepRow
    <3>1. UNCHANGED <<owner, requeues>>
      BY <2>1 DEF SweepRow
    <3>2. CASE \E b \in sweep : Set(b, IF StillStale(b) THEN "failed" ELSE status[b])
      <4>1. PICK b \in sweep : Set(b, IF StillStale(b) THEN "failed" ELSE status[b])
        BY <3>2
      <4>2. b \in Builds
        BY DEF TypeOK
      <4>3. CASE StillStale(b)
        BY <3>1, <4>1, <4>2, <4>3, SettleRefines DEF StillStale, Stale, Terminal
      <4>4. CASE ~StillStale(b)
        BY <3>1, <4>1, <4>4, StutterRefines DEF Set, TypeOK
      <4>. QED
        BY <4>3, <4>4
    <3>3. CASE UNCHANGED status
      BY <3>1, <3>3, StutterRefines
    <3>. QED
      BY <2>1, <3>2, <3>3 DEF SweepRow
  <2>2. CASE SweepScan
    BY <2>2, StutterRefines DEF SweepScan, dbVars, procVars, runnerVars, agentVars
  <2>. QED
    BY <1>3, <2>1, <2>2 DEF JanitorNext
<1>4. ASSUME NEW a \in Agents, AgentNext(a)
      PROVE  LifecycleStep
  <2>1. CASE AgentClaim(a)
    <3>1. PICK b \in Builds : /\ Claimable(a, b)
                              /\ Set(b, "running")
                              /\ owner' = [owner EXCEPT ![b] = a]
      BY <2>1 DEF AgentClaim
    <3>2. UNCHANGED requeues /\ a # None
      BY <2>1, ConstantsOK DEF AgentClaim
    <3>3. \A c \in Builds : holder'[c] = IF c = b THEN a ELSE holder[c]
      BY <3>1, <3>2 DEF holder, Holder, Set, TypeOK
    <3>4. holder' = [holder EXCEPT ![b] = a]
      BY <3>3 DEF holder
    <3>. QED
      BY <3>1, <3>2, <3>4, StartRefines DEF Claimable
  <2>2. CASE AnswerClaim(a)
    <3>1. /\ UNCHANGED <<owner, requeues>>
          /\ work[a] \in Builds
          /\ status[work[a]] \in {"running", "failed"}
      BY <2>2 DEF AnswerClaim, AgentInv
    <3>2. CASE UNCHANGED status
      BY <3>1, <3>2, StutterRefines
    <3>3. CASE Set(work[a], "failed") /\ status[work[a]] = "running"
      BY <3>1, <3>3, SettleRefines DEF Terminal
    <3>4. CASE Set(work[a], "failed") /\ status[work[a]] = "failed"
      <4>1. UNCHANGED status
        BY <3>4 DEF Set, TypeOK
      <4>. QED
        BY <3>1, <4>1, StutterRefines
    <3>. QED
      BY <2>2, <3>1, <3>2, <3>3, <3>4 DEF AnswerClaim
  <2>3. CASE FinishWrite(a)
    <3>1. /\ UNCHANGED <<owner, requeues>>
          /\ work[a] \in Builds
          /\ report[a] \in Terminal
      BY <2>3 DEF FinishWrite, AgentInv
    <3>2. CASE OwnedRunning(work[a], a)
      BY <2>3, <3>1, <3>2, SettleRefines DEF FinishWrite, OwnedRunning
    <3>3. CASE ~OwnedRunning(work[a], a)
      <4>1. UNCHANGED status
        BY <2>3, <3>3 DEF FinishWrite, Set, TypeOK
      <4>. QED
        BY <3>1, <4>1, StutterRefines
    <3>. QED
      BY <3>2, <3>3
  <2>4. CASE \/ AgentHeartbeat(a)
             \/ \E s \in Terminal : FinishRead(a, s)
             \/ AgentCrash(a)
    BY <2>4, StutterRefines DEF AgentHeartbeat, FinishRead, AgentCrash, dbVars, procVars,
      runnerVars, agentVars
  <2>. QED
    BY <1>4, <2>1, <2>2, <2>3, <2>4 DEF AgentNext
<1>5. CASE ProcessNext
  <2>1. ASSUME NEW b \in Builds, RecoverRunning(b)
        PROVE  LifecycleStep
    <3>1. UNCHANGED owner /\ status[b] = "running"
      BY <2>1 DEF RecoverRunning, Interrupted
    <3>2. CASE MayRequeue(b)
      BY <2>1, <3>1, <3>2, RequeueRefines DEF RecoverRunning
    <3>3. CASE ~MayRequeue(b)
      BY <2>1, <3>1, <3>3, SettleRefines DEF RecoverRunning, Terminal
    <3>. QED
      BY <3>2, <3>3
  <2>2. ASSUME NEW b \in Builds, RecoverPending(b)
        PROVE  LifecycleStep
    BY <2>2, EnqueueRefines DEF RecoverPending
  <2>3. CASE \/ Drain
             \/ StopRunner
             \/ Exit
             \/ Crash
             \/ Boot
             \/ Serve
    BY <2>3, StutterRefines DEF Drain, StopRunner, Exit, Crash, Boot, Serve, Down, dbVars,
      procVars, runnerVars, agentVars
  <2>. QED
    BY <1>5, <2>1, <2>2, <2>3 DEF ProcessNext
<1>6. CASE GraceEnds \/ \E b \in Builds : Quiet(b)
  BY <1>6, StutterRefines DEF GraceEnds, Quiet, dbVars, procVars, runnerVars, agentVars
<1>7. CASE UNCHANGED vars
  BY <1>7, StutterRefines DEF vars, dbVars, procVars, runnerVars, agentVars
<1>. QED
  BY <1>1, <1>2, <1>3, <1>4, <1>5, <1>6, <1>7 DEF Next

(* The builds table implements BuildLifecycle: each handler, runner,       *)
(* janitor, agent and recovery step is one step in the life of one build,  *)
(* or none.                                                                *)
THEOREM Refinement == Spec => ImplementsLifecycle
<1>1. Init => Lifecycle!Init
  BY DEF Init, Lifecycle!Init, holder, Holder
<1>2. IInv /\ [Next]_vars => [Lifecycle!Next]_(Lifecycle!vars)
  BY StepRefines DEF LifecycleStep
<1>. QED
  BY <1>1, <1>2, Invariance, PTL DEF Spec, ImplementsLifecycle, Lifecycle!Spec

-------------------------------------------------------------------------------
(* What no step may do *)

(* An outcome is final: no step of the lifecycle starts from a settled     *)
(* build, hence no late report, sweep, cancel or refused claim changes it. *)
THEOREM Finality == Spec => OutcomeIsFinal
<1>1. ASSUME IInv, [Next]_vars
      PROVE  \A b \in Builds : status[b] \in Terminal => status'[b] = status[b]
  <2>1. LifecycleStep
    BY <1>1, StepRefines
  <2>2. CASE UNCHANGED Lifecycle!vars
    BY <2>2 DEF Lifecycle!vars
  <2>3. CASE Lifecycle!Next
    BY <1>1, <2>3 DEF Lifecycle!Next, Lifecycle!Create, Lifecycle!Start, Lifecycle!Requeue,
       Lifecycle!Abandon, Lifecycle!Settle, IInv, TypeOK, Terminal
  <2>. QED
    BY <2>1, <2>2, <2>3 DEF LifecycleStep
<1>2. IInv /\ [Next]_vars =>
        [\A b \in Builds : status[b] \in Terminal => status'[b] = status[b]]_vars
  BY <1>1
<1>. QED
  BY <1>2, Invariance, PTL DEF Spec, OutcomeIsFinal

(* Only a claim of a pending row writes builds.agent.                      *)
LEMMA OwnersKept ==
  ASSUME RowInv, Next \/ UNCHANGED vars
  PROVE  (\A b \in Builds : owner[b] # None => owner'[b] = owner[b])
<1>1. ASSUME NEW h \in Handlers, HandlerNext(h)
      PROVE  (\A b \in Builds : owner[b] # None => owner'[b] = owner[b])
  BY <1>1 DEF HandlerNext, TriggerRead, UpdateRead, CreateBuild, Dispatch,
    UpdateWrite, UpdateAdopt, UpdateEnqueue, CancelPending, Start,
    CancelCurrent, CancelCheck, CancelLookup, CancelFlag, dbVars, procVars,
    runnerVars, agentVars
<1>2. CASE RunnerNext
  BY <1>2 DEF RunnerNext, RunnerTake, RunnerRegister, ClaimBuild, RunBuild,
    EndBuild, RunnerLeave, RunnerExit, dbVars, procVars, runnerVars, agentVars
<1>3. CASE JanitorNext
  BY <1>3 DEF JanitorNext, SweepScan, SweepRow, dbVars, procVars, runnerVars,
    agentVars
<1>4. ASSUME NEW a \in Agents, AgentNext(a)
      PROVE  (\A b \in Builds : owner[b] # None => owner'[b] = owner[b])
  <2>1. CASE AgentClaim(a)
    BY <2>1 DEF AgentClaim, Claimable, RowInv
  <2>2. CASE \/ AnswerClaim(a)
             \/ AgentHeartbeat(a)
             \/ \E s \in Terminal : FinishRead(a, s)
             \/ FinishWrite(a)
             \/ AgentCrash(a)
    BY <2>2 DEF AnswerClaim, AgentHeartbeat, FinishRead, FinishWrite,
      AgentCrash, dbVars, procVars, runnerVars, agentVars
  <2>. QED
    BY <1>4, <2>1, <2>2 DEF AgentNext
<1>5. CASE ProcessNext
  BY <1>5 DEF ProcessNext, Drain, StopRunner, Exit, Crash, Boot, Serve,
    RecoverRunning, RecoverPending, Down, dbVars, procVars, runnerVars,
    agentVars
<1>6. CASE GraceEnds \/ \E b \in Builds : Quiet(b)
  BY <1>6 DEF GraceEnds, Quiet, dbVars, procVars, runnerVars, agentVars
<1>7. CASE UNCHANGED vars
  BY <1>7 DEF vars, dbVars, procVars, runnerVars, agentVars
<1>. QED
  BY <1>1, <1>2, <1>3, <1>4, <1>5, <1>6, <1>7 DEF Next

(* An agent's build stays the agent's and is never queued again, whatever  *)
(* becomes of the agent or of the server.                                  *)
THEOREM AgentsKeepTheirBuilds == Spec => AgentBuildsStay
<1>1. ASSUME IInv, [Next]_vars, NEW b \in Builds, owner[b] # None
      PROVE  owner'[b] = owner[b] /\ status'[b] # "pending"
  <2>1. owner'[b] = owner[b]
    BY <1>1, OwnersKept DEF IInv
  <2>2. status'[b] # "pending"
    BY <1>1, <2>1, NextInv DEF IInv, RowInv
  <2>. QED
    BY <2>1, <2>2
<1>2. IInv /\ [Next]_vars =>
        [\A b \in Builds :
           owner[b] # None => owner'[b] = owner[b] /\ status'[b] # "pending"]_vars
  BY <1>1
<1>. QED
  BY <1>2, Invariance, PTL DEF Spec, AgentBuildsStay

SweptOnlyStale ==
  \A b \in Builds :
    status[b] = "running" /\ owner[b] # None /\ status'[b] = "failed" /\ UNCHANGED apc
      => AgentStale(b)

(* Only the janitor's transaction fails an agent's build behind its back.  *)
LEMMA SweptOnlyWhenStale ==
  ASSUME TypeOK, RunnerInv, Next \/ UNCHANGED vars
  PROVE  SweptOnlyStale
<1>1. ASSUME NEW h \in Handlers, HandlerNext(h)
      PROVE  SweptOnlyStale
  <2>1. CASE CreateBuild(h)
    BY <2>1 DEF SweptOnlyStale, CreateBuild, NewBuild, Set, TypeOK
  <2>2. CASE Dispatch(h)
    BY <2>2 DEF SweptOnlyStale, Dispatch, Enqueue, Set, TypeOK
  <2>3. CASE UpdateEnqueue(h)
    BY <2>3 DEF SweptOnlyStale, UpdateEnqueue, Enqueue, Set, TypeOK
  <2>4. ASSUME NEW b \in Builds, CancelPending(h, b)
        PROVE  SweptOnlyStale
    BY <2>4 DEF SweptOnlyStale, CancelPending, Set, TypeOK
  <2>5. CASE \/ \E p \in Projects : TriggerRead(h, p)
             \/ \E p \in Projects : UpdateRead(h, p)
             \/ \E c \in Configs : UpdateWrite(h, c)
             \/ UpdateAdopt(h)
             \/ CancelCurrent(h)
             \/ CancelCheck(h)
             \/ CancelLookup(h)
             \/ CancelFlag(h)
    BY <2>5 DEF TriggerRead, UpdateRead, UpdateWrite, UpdateAdopt,
      CancelCurrent, CancelCheck, CancelLookup, CancelFlag, SweptOnlyStale,
      dbVars, procVars, runnerVars, agentVars
  <2>. QED
    BY <1>1, <2>1, <2>2, <2>3, <2>4, <2>5 DEF HandlerNext
<1>2. CASE RunnerNext
  <2>1. CASE ClaimBuild
    BY <2>1 DEF SweptOnlyStale, ClaimBuild, Set, TypeOK
  <2>2. CASE EndBuild
    BY <2>2 DEF SweptOnlyStale, EndBuild, Set, RunnerInv, TypeOK
  <2>3. CASE \/ RunnerTake
             \/ RunnerRegister
             \/ RunBuild
             \/ RunnerLeave
             \/ RunnerExit
    BY <2>3 DEF RunnerTake, RunnerRegister, RunBuild, RunnerLeave, RunnerExit,
      SweptOnlyStale, dbVars, procVars, runnerVars, agentVars
  <2>. QED
    BY <1>2, <2>1, <2>2, <2>3 DEF RunnerNext
<1>3. CASE JanitorNext
  <2>1. CASE SweepRow
    BY <2>1 DEF SweptOnlyStale, SweepRow, Set, StillStale, Stale, TypeOK
  <2>2. CASE SweepScan
    BY <2>2 DEF SweepScan, SweptOnlyStale, dbVars, procVars, runnerVars,
      agentVars
  <2>. QED
    BY <1>3, <2>1, <2>2 DEF JanitorNext
<1>4. ASSUME NEW a \in Agents, AgentNext(a)
      PROVE  SweptOnlyStale
  <2>1. CASE AgentClaim(a)
    BY <2>1 DEF SweptOnlyStale, AgentClaim, Claimable, Set, TypeOK
  <2>2. CASE AnswerClaim(a)
    BY <2>2 DEF SweptOnlyStale, AnswerClaim, AgentForgets, TypeOK
  <2>3. CASE FinishWrite(a)
    BY <2>3 DEF SweptOnlyStale, FinishWrite, AgentForgets, TypeOK
  <2>4. CASE \/ AgentHeartbeat(a)
             \/ \E s \in Terminal : FinishRead(a, s)
             \/ AgentCrash(a)
    BY <2>4 DEF AgentHeartbeat, FinishRead, AgentCrash, SweptOnlyStale, dbVars,
      procVars, runnerVars, agentVars
  <2>. QED
    BY <1>4, <2>1, <2>2, <2>3, <2>4 DEF AgentNext
<1>5. CASE ProcessNext
  <2>1. ASSUME NEW b \in Builds, RecoverRunning(b)
        PROVE  SweptOnlyStale
    BY <2>1 DEF SweptOnlyStale, RecoverRunning, Interrupted, Set, TypeOK
  <2>2. ASSUME NEW b \in Builds, RecoverPending(b)
        PROVE  SweptOnlyStale
    BY <2>2 DEF SweptOnlyStale, RecoverPending, Enqueue, Set, TypeOK
  <2>3. CASE \/ Drain
             \/ StopRunner
             \/ Exit
             \/ Crash
             \/ Boot
             \/ Serve
    BY <2>3 DEF Drain, StopRunner, Exit, Crash, Boot, Serve, Down,
      SweptOnlyStale, dbVars, procVars, runnerVars, agentVars
  <2>. QED
    BY <1>5, <2>1, <2>2, <2>3 DEF ProcessNext
<1>6. CASE GraceEnds \/ \E b \in Builds : Quiet(b)
  BY <1>6 DEF GraceEnds, Quiet, SweptOnlyStale, dbVars, procVars, runnerVars,
    agentVars
<1>7. CASE UNCHANGED vars
  BY <1>7 DEF SweptOnlyStale, vars, dbVars, procVars, runnerVars, agentVars
<1>. QED
  BY <1>1, <1>2, <1>3, <1>4, <1>5, <1>6, <1>7 DEF Next

(* A heartbeat in time wins against the janitor.                           *)
THEOREM HeartbeatsWin == Spec => HeartbeatWins
<1>1. IInv /\ [Next]_vars => SweptOnlyStale
  BY SweptOnlyWhenStale DEF IInv
<1>2. IInv /\ [Next]_vars =>
        [\A b \in Builds :
           status[b] = "running" /\ owner[b] # None /\ status'[b] = "failed" /\ UNCHANGED apc
             => AgentStale(b)]_vars
  BY <1>1 DEF SweptOnlyStale
<1>. QED
  BY <1>2, Invariance, PTL DEF Spec, HeartbeatWins
===============================================================================
