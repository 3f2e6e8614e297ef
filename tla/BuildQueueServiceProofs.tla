----------------------- MODULE BuildQueueServiceProofs -----------------------
(***************************************************************************)
(* What is proved of the promises BuildQueue makes to its users: that a    *)
(* cancel falls in no gap and lands, and that no local build is left out   *)
(* of the runner's way.  The inductive invariant is the one of             *)
(* BuildQueueProofs with the parts below.                                  *)
(***************************************************************************)
EXTENDS BuildQueueProofs

-------------------------------------------------------------------------------
(* A cancel falls in no gap *)

(* Only the shutdown of the process sends a build back to the queue.       *)
CauseInv ==
  /\ cause = "shutdown" => phase = "stopping"
  /\ verdict = "requeue" => phase = "stopping"

(* No request is in flight in a process that is not up.                    *)
RestInv == phase \notin Live => \A h \in Handlers : handler[h] = Idle

Canceling(h) == handler[h].op \in {"registry", "check", "lookup", "flag"}

Begun(b) == status[b] \notin {"none", "pending"}

(* A cancel that went past the pending row is of a build that has begun,   *)
(* and stays so: a handler that missed the registry cannot find the runner *)
(* on that build later.                                                    *)
CancelInv ==
  phase # "stopping" =>
    \A h \in Handlers :
      /\ Canceling(h) => Begun(handler[h].b)
      /\ handler[h].op = "lookup" => ~RunnerHolds(handler[h].b)

GapInv == CauseInv /\ RestInv /\ CancelInv

(* The first state. *)
LEMMA InitGap == ASSUME Init PROVE GapInv
  BY ConstantsOK DEF Init, GapInv, CauseInv, RestInv, CancelInv, Canceling, Idle, Live

(* A context is canceled for a shutdown, and an attempt ends in a re-queue *)
(* for it, only once the process is stopping, which it does to its end.    *)
LEMMA CauseKept ==
  ASSUME TypeOK, CauseInv, Next \/ UNCHANGED vars
  PROVE  CauseInv'
<1>. USE ConstantsOK
<1>1. ASSUME NEW h \in Handlers, HandlerNext(h)
      PROVE  CauseInv'
  <2>1. CASE CancelCurrent(h)
    BY <2>1 DEF CancelCurrent, CauseInv
  <2>2. UNCHANGED <<phase, verdict>> /\ (UNCHANGED cause \/ CancelCurrent(h))
    BY <1>1 DEF HandlerNext, TriggerRead, UpdateRead, CreateBuild, Dispatch, UpdateWrite,
      UpdateAdopt, UpdateEnqueue, CancelPending, CancelCurrent, CancelCheck, CancelLookup,
      CancelFlag, runnerVars
  <2>. QED
    BY <2>1, <2>2 DEF CauseInv
<1>2. CASE RunnerNext
  BY <1>2 DEF RunnerNext, RunnerTake, RunnerRegister, ClaimBuild, RunBuild, EndBuild,
    RunnerLeave, RunnerExit, CauseInv, TypeOK, Terminal
<1>3. CASE JanitorNext
  BY <1>3 DEF JanitorNext, SweepScan, SweepRow, CauseInv, runnerVars
<1>4. ASSUME NEW a \in Agents, AgentNext(a)
      PROVE  CauseInv'
  BY <1>4 DEF AgentNext, AgentClaim, AnswerClaim, AgentHeartbeat, FinishRead, FinishWrite,
    AgentCrash, CauseInv, procVars, runnerVars
<1>5. CASE ProcessNext
  BY <1>5 DEF ProcessNext, Drain, StopRunner, Exit, Crash, Boot, Serve, RecoverRunning,
    RecoverPending, Down, CauseInv, procVars, runnerVars
<1>6. CASE GraceEnds \/ \E b \in Builds : Quiet(b)
  BY <1>6 DEF GraceEnds, Quiet, CauseInv, procVars, runnerVars
<1>7. CASE UNCHANGED vars
  BY <1>7 DEF CauseInv, vars, procVars, runnerVars
<1>. QED
  BY <1>1, <1>2, <1>3, <1>4, <1>5, <1>6, <1>7 DEF Next

(* A process that is not up has no request in flight, and neither has one  *)
(* that has just come up, or one that has just stopped.                    *)
LEMMA RestKept ==
  ASSUME TypeOK, RestInv, Next \/ UNCHANGED vars
  PROVE  /\ RestInv'
         /\ phase \notin Live \/ phase = "stopping" =>
              phase' = "stopping" \/ \A h \in Handlers : handler'[h] = Idle
<1>. DEFINE Fresh == phase \notin Live \/ phase = "stopping" =>
                       phase' = "stopping" \/ \A h \in Handlers : handler'[h] = Idle
<1>1. ASSUME NEW h \in Handlers, HandlerNext(h)
      PROVE  RestInv' /\ Fresh
  BY <1>1 DEF HandlerNext, TriggerRead, UpdateRead, CreateBuild, Dispatch, UpdateWrite,
    UpdateAdopt, UpdateEnqueue, CancelPending, CancelCurrent, CancelCheck, CancelLookup,
    CancelFlag, Start, RestInv, Live
<1>2. CASE RunnerNext \/ JanitorNext
  BY <1>2 DEF RunnerNext, RunnerTake, RunnerRegister, ClaimBuild, RunBuild, EndBuild,
    RunnerLeave, RunnerExit, JanitorNext, SweepScan, SweepRow, RestInv, Live
<1>3. ASSUME NEW a \in Agents, AgentNext(a)
      PROVE  RestInv' /\ Fresh
  BY <1>3 DEF AgentNext, AgentClaim, AnswerClaim, AgentHeartbeat, FinishRead, FinishWrite,
    AgentCrash, RestInv, Live, procVars
<1>4. CASE ProcessNext
  <2>1. CASE Exit \/ Crash
    BY <2>1 DEF Exit, Crash, Down, RestInv
  <2>2. CASE Drain \/ StopRunner \/ Boot \/ Serve
    BY <2>2 DEF Drain, StopRunner, Boot, Serve, RestInv, Live
  <2>3. CASE \E b \in Builds : RecoverRunning(b) \/ RecoverPending(b)
    BY <2>3 DEF RecoverRunning, RecoverPending, RestInv, Live, procVars
  <2>. QED
    BY <1>4, <2>1, <2>2, <2>3 DEF ProcessNext
<1>5. CASE GraceEnds \/ \E b \in Builds : Quiet(b)
  BY <1>5 DEF GraceEnds, Quiet, RestInv, Live, procVars
<1>6. CASE UNCHANGED vars
  BY <1>6 DEF RestInv, Live, vars, procVars
<1>. QED
  BY <1>1, <1>2, <1>3, <1>4, <1>5, <1>6 DEF Next

(* A send to the runner writes to a row at most that the channel is full.  *)
LEMMA EnqueueWrites ==
  ASSUME TypeOK, NEW b, Enqueue(b), NEW c \in Builds
  PROVE  status'[c] = status[c] \/ (status[c] = "pending" /\ status'[c] = "failed")
<1>1. UNCHANGED status \/ Set(b, IF status[b] = "pending" THEN "failed" ELSE status[b])
  BY DEF Enqueue
<1>. QED
  BY <1>1 DEF Set, TypeOK

(* In a process that serves, a build that has begun stays begun.           *)
LEMMA BegunStays ==
  ASSUME IInv, CauseInv, Next \/ UNCHANGED vars, phase \in {"up", "draining"}
  PROVE  \A b \in Builds : Begun(b) => Begun(b)'
<1>1. TypeOK /\ RunnerInv /\ AgentInv /\ ConstantsOK
  BY ConstantsOK DEF IInv
<1>2. ASSUME NEW h \in Handlers, HandlerNext(h)
      PROVE  \A b \in Builds : Begun(b) => Begun(b)'
  <2>1. CASE CreateBuild(h)
    BY <1>1, <2>1 DEF CreateBuild, NewBuild, Set, Begun, TypeOK
  <2>2. CASE Dispatch(h) \/ UpdateEnqueue(h)
    <3>1. UNCHANGED status \/ \E b : Enqueue(b)
      BY <2>2 DEF Dispatch, UpdateEnqueue
    <3>. QED
      BY <1>1, <3>1, EnqueueWrites DEF Begun
  <2>3. CASE \E b \in Builds : CancelPending(h, b)
    BY <1>1, <2>3 DEF CancelPending, Set, Begun, TypeOK
  <2>4. CASE \/ \E p \in Projects : TriggerRead(h, p) \/ UpdateRead(h, p)
             \/ \E c \in Configs : UpdateWrite(h, c)
             \/ UpdateAdopt(h)
             \/ CancelCurrent(h)
             \/ CancelCheck(h)
             \/ CancelLookup(h)
             \/ CancelFlag(h)
    BY <2>4 DEF TriggerRead, UpdateRead, UpdateWrite, UpdateAdopt, CancelCurrent, CancelCheck,
      CancelLookup, CancelFlag, Begun, dbVars
  <2>. QED
    BY <1>2, <2>1, <2>2, <2>3, <2>4 DEF HandlerNext
<1>3. CASE RunnerNext
  <2>1. CASE ClaimBuild
    BY <1>1, <2>1 DEF ClaimBuild, Set, Begun, TypeOK
  <2>2. CASE EndBuild
    <3>1. verdict # "requeue" /\ verdict \in Terminal
      BY <1>1, <2>2 DEF CauseInv, EndBuild, RunnerInv, TypeOK
    <3>. QED
      BY <1>1, <2>2, <3>1 DEF EndBuild, Set, Begun, TypeOK, Terminal
  <2>3. CASE RunnerTake \/ RunnerRegister \/ RunBuild \/ RunnerLeave \/ RunnerExit
    BY <2>3 DEF RunnerTake, RunnerRegister, RunBuild, RunnerLeave, RunnerExit, Begun, dbVars
  <2>. QED
    BY <1>3, <2>1, <2>2, <2>3 DEF RunnerNext
<1>4. CASE JanitorNext
  BY <1>1, <1>4 DEF JanitorNext, SweepScan, SweepRow, Set, Begun, TypeOK, dbVars
<1>5. ASSUME NEW a \in Agents, AgentNext(a)
      PROVE  \A b \in Builds : Begun(b) => Begun(b)'
  <2>1. CASE AgentClaim(a)
    BY <1>1, <2>1 DEF AgentClaim, Set, Begun, TypeOK
  <2>2. CASE AnswerClaim(a)
    BY <1>1, <2>2 DEF AnswerClaim, Set, Begun, TypeOK
  <2>3. CASE FinishWrite(a)
    <3>1. report[a] \in Terminal
      BY <1>1, <2>3 DEF FinishWrite, AgentInv
    <3>. QED
      BY <1>1, <2>3, <3>1 DEF FinishWrite, Set, Begun, TypeOK, Terminal
  <2>4. CASE AgentHeartbeat(a) \/ (\E s \in Terminal : FinishRead(a, s)) \/ AgentCrash(a)
    BY <2>4 DEF AgentHeartbeat, FinishRead, AgentCrash, Begun, dbVars
  <2>. QED
    BY <1>5, <2>1, <2>2, <2>3, <2>4 DEF AgentNext
<1>6. CASE ProcessNext
  BY <1>6 DEF ProcessNext, Drain, StopRunner, Exit, Crash, Boot, Serve, RecoverRunning,
    RecoverPending, Down, Begun, dbVars
<1>7. CASE (GraceEnds \/ \E b \in Builds : Quiet(b)) \/ UNCHANGED vars
  BY <1>7 DEF GraceEnds, Quiet, Begun, vars, dbVars
<1>. QED
  BY <1>2, <1>3, <1>4, <1>5, <1>6, <1>7 DEF Next

(* The runner begins on a pending build only.                              *)
LEMMA RunnerFindsPending ==
  ASSUME Next \/ UNCHANGED vars, NEW b \in Builds, RunnerHolds(b)'
  PROVE  RunnerHolds(b) \/ status[b] = "pending"
<1>1. ASSUME NEW h \in Handlers, HandlerNext(h)
      PROVE  UNCHANGED <<rpc, job>>
  BY <1>1 DEF HandlerNext, TriggerRead, UpdateRead, CreateBuild, Dispatch, UpdateWrite,
    UpdateAdopt, UpdateEnqueue, CancelPending, CancelCurrent, CancelCheck, CancelLookup,
    CancelFlag, runnerVars
<1>2. CASE RunnerNext
  BY <1>2 DEF RunnerNext, RunnerTake, RunnerRegister, ClaimBuild, RunBuild, EndBuild,
    RunnerLeave, RunnerExit, RunnerHolds
<1>3. CASE JanitorNext
  BY <1>3 DEF JanitorNext, SweepScan, SweepRow, RunnerHolds, runnerVars
<1>4. ASSUME NEW a \in Agents, AgentNext(a)
      PROVE  UNCHANGED <<rpc, job>>
  BY <1>4 DEF AgentNext, AgentClaim, AnswerClaim, AgentHeartbeat, FinishRead, FinishWrite,
    AgentCrash, procVars, runnerVars
<1>5. CASE ProcessNext
  BY <1>5 DEF ProcessNext, Drain, StopRunner, Exit, Crash, Boot, Serve, RecoverRunning,
    RecoverPending, Down, RunnerHolds, procVars, runnerVars
<1>6. CASE (GraceEnds \/ \E c \in Builds : Quiet(c)) \/ UNCHANGED vars
  BY <1>6 DEF GraceEnds, Quiet, RunnerHolds, vars, procVars, runnerVars
<1>. QED
  BY <1>1, <1>2, <1>3, <1>4, <1>5, <1>6 DEF Next, RunnerHolds

(* A handler that is canceling is not the one that moved on to something   *)
(* else.                                                                   *)
LEMMA BecomesElse ==
  ASSUME TypeOK, NEW g \in Handlers, NEW r, Becomes(g, r), NEW h \in Handlers, Canceling(h)',
         r.op \in {"idle", "create", "dispatch", "write", "adopt", "enqueue"}
  PROVE  handler'[h] = handler[h]
  BY DEF TypeOK, Becomes, Canceling

(* A handler that is canceling after a step was canceling the same build   *)
(* before it, or has just found that build begun; and it looks for an      *)
(* agent only when the build is not the registered one.                    *)
LEMMA CancelSteps ==
  ASSUME TypeOK, Next \/ UNCHANGED vars, NEW h \in Handlers, Canceling(h)'
  PROVE  \/ handler'[h] = handler[h]
         \/ handler'[h].op = "registry" /\ handler'[h].b \in Builds /\ Begun(handler'[h].b)
         \/ /\ Canceling(h) /\ handler'[h].b = handler[h].b
            /\ handler'[h].op = "lookup" => current # handler[h].b /\ UNCHANGED <<rpc, job>>
<1>. DEFINE Goal == \/ handler'[h] = handler[h]
                    \/ /\ handler'[h].op = "registry"
                       /\ handler'[h].b \in Builds
                       /\ Begun(handler'[h].b)
                    \/ /\ Canceling(h)
                       /\ handler'[h].b = handler[h].b
                       /\ handler'[h].op = "lookup" =>
                            current # handler[h].b /\ UNCHANGED <<rpc, job>>
<1>1. ASSUME NEW g \in Handlers, HandlerNext(g)
      PROVE  Goal
  <2>1. ASSUME NEW p \in Projects, TriggerRead(g, p) \/ UpdateRead(g, p)
        PROVE  Goal
    <3>1. CASE TriggerRead(g, p)
      <4>1. [Idle EXCEPT !.op = "create", !.p = p, !.cfg = config[p]].op = "create"
        BY DEF Idle
      <4>. QED
        BY <3>1, <4>1, BecomesElse DEF TriggerRead, Start
    <3>2. CASE UpdateRead(g, p)
      <4>1. [Idle EXCEPT !.op = "write", !.p = p, !.cfg = config[p]].op = "write"
        BY DEF Idle
      <4>. QED
        BY <3>2, <4>1, BecomesElse DEF UpdateRead, Start
    <3>. QED
      BY <2>1, <3>1, <3>2
  <2>2. CASE CreateBuild(g)
    <3>1. \A b \in Builds : [handler[g] EXCEPT !.op = "dispatch", !.b = b].op = "dispatch"
      BY DEF TypeOK, HandlerType
    <3>2. Idle.op = "idle"
      BY DEF Idle
    <3>3. Return(g) \/ \E b \in Builds : Becomes(g, [handler[g] EXCEPT !.op = "dispatch", !.b = b])
      BY <2>2 DEF CreateBuild
    <3>4. CASE Return(g)
      BY <3>2, <3>4, BecomesElse DEF Return
    <3>5. ASSUME NEW b \in Builds, Becomes(g, [handler[g] EXCEPT !.op = "dispatch", !.b = b])
          PROVE  Goal
      BY <3>1, <3>5, BecomesElse
    <3>. QED
      BY <3>3, <3>4, <3>5
  <2>3. CASE Dispatch(g) \/ CancelCheck(g) \/ CancelFlag(g)
    BY <2>3 DEF Dispatch, CancelCheck, CancelFlag, Return, Becomes, Idle, TypeOK, Canceling
  <2>4. CASE \E c \in Configs : UpdateWrite(g, c)
    BY <2>4 DEF UpdateWrite, Continue, Return, Becomes, Idle, TypeOK, HandlerType, Canceling
  <2>5. CASE UpdateAdopt(g) \/ UpdateEnqueue(g)
    <3>1. PICK todo : EnqueueNext(g, todo)
      BY <2>5 DEF UpdateAdopt, UpdateEnqueue
    <3>2. [handler[g] EXCEPT !.op = "enqueue", !.todo = todo].op = "enqueue"
      BY DEF TypeOK, HandlerType
    <3>3. Idle.op = "idle"
      BY DEF Idle
    <3>4. CASE Return(g)
      BY <3>3, <3>4, BecomesElse DEF Return
    <3>5. CASE Becomes(g, [handler[g] EXCEPT !.op = "enqueue", !.todo = todo])
      BY <3>2, <3>5, BecomesElse
    <3>. QED
      BY <3>1, <3>4, <3>5 DEF EnqueueNext
  <2>6. ASSUME NEW b \in Builds, CancelPending(g, b)
        PROVE  Goal
    <3>1. CASE UNCHANGED handler
      BY <3>1
    <3>2. CASE Begun(b) /\ Becomes(g, [Idle EXCEPT !.op = "registry", !.b = b])
      <4>1. LET r == [Idle EXCEPT !.op = "registry", !.b = b]
            IN  r.op = "registry" /\ r.b = b
        BY DEF Idle
      <4>2. g = h => handler'[h].op = "registry" /\ handler'[h].b = b
        BY <3>2, <4>1 DEF Becomes, TypeOK
      <4>3. g # h => handler'[h] = handler[h]
        BY <3>2 DEF Becomes, TypeOK
      <4>. QED
        BY <3>2, <4>2, <4>3
    <3>. QED
      BY <2>6, <3>1, <3>2 DEF CancelPending, Start, Begun
  <2>7. CASE CancelCurrent(g)
    BY <2>7 DEF CancelCurrent, Continue, Becomes, TypeOK, HandlerType, Canceling
  <2>8. CASE CancelLookup(g)
    BY <2>8 DEF CancelLookup, Continue, Return, Becomes, Idle, TypeOK, HandlerType, Canceling
  <2>. QED
    BY <1>1, <2>1, <2>2, <2>3, <2>4, <2>5, <2>6, <2>7, <2>8 DEF HandlerNext
<1>2. CASE RunnerNext \/ JanitorNext
  BY <1>2 DEF RunnerNext, RunnerTake, RunnerRegister, ClaimBuild, RunBuild, EndBuild,
    RunnerLeave, RunnerExit, JanitorNext, SweepScan, SweepRow
<1>3. ASSUME NEW a \in Agents, AgentNext(a)
      PROVE  Goal
  BY <1>3 DEF AgentNext, AgentClaim, AnswerClaim, AgentHeartbeat, FinishRead, FinishWrite,
    AgentCrash, procVars
<1>4. CASE ProcessNext
  BY <1>4 DEF ProcessNext, Drain, StopRunner, Exit, Crash, Boot, Serve, RecoverRunning,
    RecoverPending, Down, Canceling, Idle, procVars
<1>5. CASE (GraceEnds \/ \E b \in Builds : Quiet(b)) \/ UNCHANGED vars
  BY <1>5 DEF GraceEnds, Quiet, vars, procVars
<1>. QED
  BY <1>1, <1>2, <1>3, <1>4, <1>5 DEF Next

(* A cancel keeps to a build that has begun, and one that missed the       *)
(* registry to a build the runner will not take up.                        *)
LEMMA CancelsKept ==
  ASSUME IInv, GapInv, Next \/ UNCHANGED vars
  PROVE  CancelInv'
<1>1. /\ TypeOK /\ HandlerInv /\ RunnerInv
      /\ CauseInv /\ RestInv /\ CancelInv
  BY DEF IInv, GapInv
<1>. SUFFICES ASSUME phase' # "stopping", NEW h \in Handlers
              PROVE  /\ Canceling(h)' => Begun(handler[h].b)'
                     /\ handler'[h].op = "lookup" => ~RunnerHolds(handler[h].b)'
  BY DEF CancelInv
<1>2. CASE phase \notin Live \/ phase = "stopping"
  <2>1. handler'[h] = Idle
    BY <1>1, <1>2, RestKept
  <2>. QED
    BY <2>1 DEF Canceling, Idle
<1>3. CASE phase \in {"up", "draining"} /\ Canceling(h)'
  <2>. DEFINE b == handler'[h].b
  <2>1. /\ b \in Builds /\ Begun(b)
        /\ handler'[h].op = "lookup" => ~RunnerHolds(b)
    <3>1. CASE handler'[h] = handler[h]
      BY <1>1, <1>3, <3>1 DEF CancelInv, HandlerInv, Canceling
    <3>2. CASE handler'[h].op = "registry" /\ b \in Builds /\ Begun(b)
      BY <3>2
    <3>3. CASE /\ Canceling(h) /\ b = handler[h].b
               /\ handler'[h].op = "lookup" => current # handler[h].b
      <4>1. b \in Builds /\ Begun(b)
        BY <1>1, <1>3, <3>3 DEF CancelInv, HandlerInv, Canceling
      <4>2. handler'[h].op = "lookup" => ~RunnerHolds(b)
        BY <1>1, <3>3 DEF RunnerInv, RunnerHolds
      <4>. QED
        BY <4>1, <4>2
    <3>. QED
      BY <1>1, <1>3, <3>1, <3>2, <3>3, CancelSteps
  <2>2. PICK c \in Builds : c = b
    BY <2>1
  <2>3. Begun(c)' /\ (RunnerHolds(c)' => RunnerHolds(c))
    BY <1>1, <1>3, <2>1, <2>2, BegunStays, RunnerFindsPending DEF Begun
  <2>. QED
    BY <2>1, <2>2, <2>3 DEF Begun, RunnerHolds
<1>4. ~Canceling(h)' => handler'[h].op # "lookup"
  BY DEF Canceling
<1>. QED
  BY <1>1, <1>2, <1>3, <1>4 DEF TypeOK, Live

(* The invariant of BuildQueueProofs with GapInv is inductive.             *)
LEMMA GapInvariance == Spec => []GapInv
<1>1. ASSUME IInv, GapInv, [Next]_vars
      PROVE  GapInv'
  BY <1>1, CauseKept, RestKept, CancelsKept DEF IInv, GapInv
<1>2. Init => GapInv
  BY InitGap
<1>3. IInv /\ GapInv /\ [Next]_vars => GapInv'
  BY <1>1
<1>. QED
  BY <1>2, <1>3, Invariance, PTL DEF Spec

(* A cancel falls in no gap between the pending row and the registry, with *)
(* any number of handlers, whatever the agents, the janitor, the database  *)
(* and project edits do.                                                   *)
THEOREM NoGap == Spec => []CancelInNoGap
<1>1. GapInv => CancelInNoGap
  BY DEF GapInv, CancelInv, CancelInNoGap
<1>. QED
  BY <1>1, GapInvariance, PTL

-------------------------------------------------------------------------------
(* No project moves between the runner and the agents *)

ProjectsStayStep == \A p \in Projects : Remote(config'[p]) = Remote(config[p])

ProjectsStay == [][ProjectsStayStep]_vars

RemoteBuild(b) == Remote(ConfigOf(b))

(* What a handler has read of the project's executor is still true, and no *)
(* edit adopts builds.                                                     *)
HandlerAgrees(r) ==
  /\ r.op \in {"create", "write"} => r.p \in Projects /\ Remote(r.cfg) = Remote(config[r.p])
  /\ r.op = "dispatch" => status[r.b] # "none" /\ Remote(r.cfg) = RemoteBuild(r.b)
  /\ r.op \notin {"adopt", "enqueue"}

HandlerAgreesInv == \A h \in Handlers : HandlerAgrees(handler[h])

LocalBuild(b) == status[b] # "none" /\ ~RemoteBuild(b)

(* What is on the channel or in the runner's hands is local, what an agent *)
(* has claimed is not.                                                     *)
HomeInv ==
  /\ \A b \in Builds : status[b] # "none" => project[b] \in Projects
  /\ \A b \in Builds : owner[b] # None => RemoteBuild(b)
  /\ \A b \in Builds : InQueue(b) => LocalBuild(b)
  /\ job \in Builds => LocalBuild(job)

(* In a process that has recovered, a running row of the server's own is   *)
(* the one the runner works on, and the runner leaves a build settled      *)
(* unless the process is stopping.                                         *)
OrphanInv ==
  /\ phase \in Live => \A b \in Builds : Interrupted(b) => RunnerHolds(b)
  /\ rpc = "leaving" /\ phase # "stopping" => status[job] \in Terminal

(* The flag is only set for agents.                                        *)
FlagInv == \A b \in cancelReq : owner[b] # None

(* A cancel that found the registered build is held from then on.          *)
PromiseInv ==
  phase # "stopping" =>
    /\ CancelLands
    /\ \A h \in Handlers : handler[h].op = "check" => CancelHeld(handler[h].b)

(* A pending build of a local project is on its way to the runner.         *)
WaitInv ==
  phase \in {"up", "draining"} =>
    \A b \in Builds :
      status[b] = "pending" /\ ~RemoteBuild(b) => InQueue(b) \/ InHand(b)

SInv ==
  /\ HandlerAgreesInv
  /\ HomeInv
  /\ OrphanInv
  /\ FlagInv
  /\ PromiseInv
  /\ WaitInv

(* The first state. *)
LEMMA InitService == ASSUME Init PROVE SInv
<1>. USE ConstantsOK DEF Init
<1>1. HandlerAgreesInv
  BY DEF HandlerAgreesInv, HandlerAgrees, Idle
<1>2. HomeInv
  BY DEF HomeInv, InQueue
<1>3. OrphanInv
  BY DEF OrphanInv, Interrupted
<1>4. FlagInv
  BY DEF FlagInv
<1>5. PromiseInv
  BY DEF PromiseInv, CancelLands, Idle
<1>6. WaitInv
  BY DEF WaitInv
<1>. QED
  BY <1>1, <1>2, <1>3, <1>4, <1>5, <1>6 DEF SInv

(* A row is written once and for all: it keeps its project, and only a     *)
(* handler that creates a build adds one.                                  *)
LEMMA RowsStay ==
  ASSUME TypeOK, RunnerInv, AgentInv, Next \/ UNCHANGED vars, NEW b \in Builds
  PROVE  /\ status[b] # "none" => status'[b] # "none" /\ project'[b] = project[b]
         /\ status[b] = "none" /\ status'[b] # "none" =>
              /\ UNCHANGED config
              /\ \E h \in Handlers :
                   /\ handler[h].op = "create" /\ project'[b] = handler[h].p
                   /\ handler'[h].op = "dispatch" /\ handler'[h].b = b
<1>. USE ConstantsOK DEF TypeOK
<1>. DEFINE Kept == (status[b] = "none" <=> status'[b] = "none") /\ UNCHANGED project
<1>1. ASSUME NEW h \in Handlers, HandlerNext(h), ~CreateBuild(h)
      PROVE  Kept
  <2>1. CASE Dispatch(h) \/ UpdateEnqueue(h)
    <3>1. UNCHANGED project
      BY <2>1 DEF Dispatch, UpdateEnqueue
    <3>2. UNCHANGED status \/ \E c : Enqueue(c)
      BY <2>1 DEF Dispatch, UpdateEnqueue
    <3>. QED
      BY <3>1, <3>2, EnqueueWrites
  <2>2. CASE \E c \in Builds : CancelPending(h, c)
    BY <2>2 DEF CancelPending, Set
  <2>3. CASE \/ \E p \in Projects : TriggerRead(h, p) \/ UpdateRead(h, p)
             \/ \E c \in Configs : UpdateWrite(h, c)
             \/ UpdateAdopt(h)
             \/ CancelCurrent(h)
             \/ CancelCheck(h)
             \/ CancelLookup(h)
             \/ CancelFlag(h)
    BY <2>3 DEF TriggerRead, UpdateRead, UpdateWrite, UpdateAdopt, CancelCurrent, CancelCheck,
      CancelLookup, CancelFlag, dbVars
  <2>. QED
    BY <1>1, <2>1, <2>2, <2>3 DEF HandlerNext
<1>2. CASE RunnerNext
  <2>1. CASE ClaimBuild
    BY <2>1 DEF ClaimBuild, RunnerInv, Set
  <2>2. CASE EndBuild
    BY <2>2 DEF EndBuild, MayRequeue, Interrupted, RunnerInv, Set, Terminal
  <2>3. CASE RunnerTake \/ RunnerRegister \/ RunBuild \/ RunnerLeave \/ RunnerExit
    BY <2>3 DEF RunnerTake, RunnerRegister, RunBuild, RunnerLeave, RunnerExit, dbVars
  <2>. QED
    BY <1>2, <2>1, <2>2, <2>3 DEF RunnerNext
<1>3. CASE JanitorNext
  BY <1>3 DEF JanitorNext, SweepScan, SweepRow, StillStale, Stale, Set, dbVars
<1>4. ASSUME NEW a \in Agents, AgentNext(a)
      PROVE  Kept
  <2>1. CASE AgentClaim(a)
    BY <2>1 DEF AgentClaim, Claimable, Set
  <2>2. CASE AnswerClaim(a)
    BY <2>2 DEF AnswerClaim, AgentInv, Set
  <2>3. CASE FinishWrite(a)
    <3>1. report[a] \in Terminal
      BY <2>3 DEF FinishWrite, AgentInv
    <3>. QED
      BY <2>3, <3>1 DEF FinishWrite, OwnedRunning, Set, Terminal
  <2>4. CASE AgentHeartbeat(a) \/ (\E s \in Terminal : FinishRead(a, s)) \/ AgentCrash(a)
    BY <2>4 DEF AgentHeartbeat, FinishRead, AgentCrash, dbVars
  <2>. QED
    BY <1>4, <2>1, <2>2, <2>3, <2>4 DEF AgentNext
<1>5. CASE ProcessNext
  <2>1. CASE \E c \in Builds : RecoverRunning(c)
    BY <2>1 DEF RecoverRunning, Interrupted, MayRequeue, Set
  <2>2. CASE \E c \in Builds : RecoverPending(c)
    BY <2>2 DEF RecoverPending, Enqueue, Set
  <2>3. CASE Drain \/ StopRunner \/ Exit \/ Crash \/ Boot \/ Serve
    BY <2>3 DEF Drain, StopRunner, Exit, Crash, Boot, Serve, Down, dbVars
  <2>. QED
    BY <1>5, <2>1, <2>2, <2>3 DEF ProcessNext
<1>6. CASE (GraceEnds \/ \E c \in Builds : Quiet(c)) \/ UNCHANGED vars
  BY <1>6 DEF GraceEnds, Quiet, vars, dbVars
<1>7. ASSUME NEW h \in Handlers, CreateBuild(h)
      PROVE  /\ status[b] # "none" => status'[b] # "none" /\ project'[b] = project[b]
             /\ status[b] = "none" /\ status'[b] # "none" =>
                  /\ UNCHANGED config
                  /\ handler[h].op = "create" /\ project'[b] = handler[h].p
                  /\ handler'[h].op = "dispatch" /\ handler'[h].b = b
  <2>1. \A c \in Builds : [handler[h] EXCEPT !.op = "dispatch", !.b = c].op = "dispatch"
    BY DEF HandlerType
  <2>2. \A c \in Builds : [handler[h] EXCEPT !.op = "dispatch", !.b = c].b = c
    BY DEF HandlerType
  <2>3. ASSUME NEW c \in Builds, NewBuild(c), Set(c, "pending"),
               project' = [project EXCEPT ![c] = handler[h].p],
               Becomes(h, [handler[h] EXCEPT !.op = "dispatch", !.b = c])
        PROVE  /\ b # c => status'[b] = status[b] /\ project'[b] = project[b]
               /\ b = c => /\ status[b] = "none" /\ project'[b] = handler[h].p
                           /\ handler'[h].op = "dispatch" /\ handler'[h].b = b
    <3>1. handler'[h] = [handler[h] EXCEPT !.op = "dispatch", !.b = c]
      BY <2>3 DEF Becomes
    <3>2. handler'[h].op = "dispatch" /\ handler'[h].b = c
      BY <2>1, <2>2, <3>1
    <3>. QED
      BY <2>3, <3>2 DEF NewBuild, Set
  <2>4. UNCHANGED config /\ handler[h].op = "create"
    BY <1>7 DEF CreateBuild
  <2>. QED
    BY <1>7, <2>3, <2>4 DEF CreateBuild
<1>. QED
  BY <1>1, <1>2, <1>3, <1>4, <1>5, <1>6, <1>7 DEF Next

(* While projects stay where they are, a build stays remote or local.      *)
LEMMA HomesStay ==
  ASSUME IInv, HomeInv, Next \/ UNCHANGED vars, ProjectsStayStep, NEW b \in Builds,
         status[b] # "none"
  PROVE  status'[b] # "none" /\ RemoteBuild(b)' = RemoteBuild(b)
<1>1. status'[b] # "none" /\ project'[b] = project[b]
  BY RowsStay DEF IInv
<1>2. project[b] \in Projects
  BY DEF HomeInv
<1>. QED
  BY <1>1, <1>2 DEF ProjectsStayStep, RemoteBuild, ConfigOf

(* What a handler knows of a project's executor stays true.                *)
LEMMA AgreesStays ==
  ASSUME IInv, HomeInv, Next \/ UNCHANGED vars, ProjectsStayStep, NEW r, HandlerAgrees(r),
         NamesItsBuild(r)
  PROVE  HandlerAgrees(r)'
<1>1. r.op = "dispatch" => status'[r.b] # "none" /\ RemoteBuild(r.b)' = RemoteBuild(r.b)
  BY HomesStay DEF HandlerAgrees, NamesItsBuild
<1>. QED
  BY <1>1 DEF HandlerAgrees, ProjectsStayStep

(* A handler that moves on keeps the others' knowledge, and must bring its *)
(* own.                                                                    *)
LEMMA BecomesAgrees ==
  ASSUME IInv, HomeInv, HandlerAgreesInv, Next \/ UNCHANGED vars, ProjectsStayStep,
         NEW g \in Handlers, NEW r, Becomes(g, r), HandlerAgrees(r)'
  PROVE  HandlerAgreesInv'
<1>1. ASSUME NEW h \in Handlers
      PROVE  HandlerAgrees(handler[h])'
  <2>1. CASE h = g
    BY <2>1 DEF Becomes, IInv, TypeOK
  <2>2. CASE h # g
    <3>1. PICK x : x = handler[h]
      OBVIOUS
    <3>2. HandlerAgrees(x) /\ NamesItsBuild(x)
      BY <3>1 DEF HandlerAgreesInv, HandlerInv, NamesItsBuild, IInv
    <3>3. HandlerAgrees(x)'
      BY <3>2, AgreesStays
    <3>4. handler'[h] = x
      BY <2>2, <3>1 DEF Becomes, IInv, TypeOK
    <3>. QED
      BY <3>3, <3>4
  <2>. QED
    BY <2>1, <2>2
<1>. QED
  BY <1>1 DEF HandlerAgreesInv

(* A handler that returns needs to know nothing.                           *)
LEMMA IdleAgrees == HandlerAgrees(Idle) /\ HandlerAgrees(Idle)'
  BY DEF HandlerAgrees, Idle

(* Nor do the others learn anything from its return.                       *)
LEMMA ReturnAgrees ==
  ASSUME IInv, HomeInv, HandlerAgreesInv, Next \/ UNCHANGED vars, ProjectsStayStep,
         NEW g \in Handlers, Return(g)
  PROVE  HandlerAgreesInv'
  BY IdleAgrees, BecomesAgrees DEF Return

(* Handlers go on to know the executors of the projects they are about.    *)
LEMMA AgreesKept ==
  ASSUME IInv, HomeInv, HandlerAgreesInv, Next \/ UNCHANGED vars, ProjectsStayStep
  PROVE  HandlerAgreesInv'
<1>1. ASSUME UNCHANGED handler
      PROVE  HandlerAgreesInv'
  <2>1. ASSUME NEW h \in Handlers
        PROVE  HandlerAgrees(handler[h])'
    <3>1. PICK x : x = handler[h]
      OBVIOUS
    <3>2. HandlerAgrees(x) /\ NamesItsBuild(x)
      BY <3>1 DEF HandlerAgreesInv, HandlerInv, NamesItsBuild, IInv
    <3>3. HandlerAgrees(x)'
      BY <3>2, AgreesStays
    <3>. QED
      BY <1>1, <3>1, <3>3
  <2>. QED
    BY <2>1 DEF HandlerAgreesInv
<1>2. ASSUME NEW h \in Handlers, HandlerNext(h)
      PROVE  HandlerAgreesInv'
  <2>0. handler[h] \in HandlerType /\ HandlerAgrees(handler[h])
    BY DEF IInv, TypeOK, HandlerAgreesInv
  <2>1. ASSUME NEW p \in Projects, TriggerRead(h, p)
        PROVE  HandlerAgreesInv'
    <3>1. PICK c : c = config[p]
      OBVIOUS
    <3>2. config' = config
      BY <2>1 DEF TriggerRead, dbVars
    <3>3. HandlerAgrees([Idle EXCEPT !.op = "create", !.p = p, !.cfg = c])'
      BY <3>1, <3>2 DEF HandlerAgrees, Idle
    <3>. QED
      BY <2>1, <3>1, <3>3, BecomesAgrees DEF TriggerRead, Start
  <2>2. ASSUME NEW p \in Projects, UpdateRead(h, p)
        PROVE  HandlerAgreesInv'
    <3>1. PICK c : c = config[p]
      OBVIOUS
    <3>2. config' = config
      BY <2>2 DEF UpdateRead, dbVars
    <3>3. HandlerAgrees([Idle EXCEPT !.op = "write", !.p = p, !.cfg = c])'
      BY <3>1, <3>2 DEF HandlerAgrees, Idle
    <3>. QED
      BY <2>2, <3>1, <3>3, BecomesAgrees DEF UpdateRead, Start
  <2>3. ASSUME CreateBuild(h), NEW b \in Builds, NewBuild(b), Set(b, "pending"),
               project' = [project EXCEPT ![b] = handler[h].p],
               Becomes(h, [handler[h] EXCEPT !.op = "dispatch", !.b = b])
        PROVE  HandlerAgreesInv'
    <3>1. PICK r : r = [handler[h] EXCEPT !.op = "dispatch", !.b = b]
      OBVIOUS
    <3>2. r.op = "dispatch" /\ r.b = b /\ r.cfg = handler[h].cfg
      BY <2>0, <3>1 DEF HandlerType
    <3>3. /\ handler[h].p \in Projects
          /\ Remote(handler[h].cfg) = Remote(config[handler[h].p])
      BY <2>0, <2>3 DEF CreateBuild, HandlerAgrees
    <3>4. status'[b] = "pending" /\ project'[b] = handler[h].p /\ config' = config
      BY <2>3 DEF CreateBuild, Set, IInv, TypeOK
    <3>5. RemoteBuild(b)' = Remote(handler[h].cfg)
      BY <3>3, <3>4 DEF RemoteBuild, ConfigOf
    <3>6. HandlerAgrees(r)'
      BY <3>2, <3>4, <3>5 DEF HandlerAgrees
    <3>. QED
      BY <2>3, <3>1, <3>6, BecomesAgrees
  <2>4. CASE Return(h)
    BY <2>4, ReturnAgrees
  <2>5. ASSUME NEW c \in Configs, UpdateWrite(h, c)
        PROVE  HandlerAgreesInv'
    <3>1. /\ handler[h].p \in Projects
          /\ Remote(handler[h].cfg) = Remote(config[handler[h].p])
      BY <2>0, <2>5 DEF UpdateWrite, HandlerAgrees
    <3>2. config'[handler[h].p] = c
      BY <2>5, <3>1 DEF UpdateWrite, IInv, TypeOK
    <3>3. Remote(c) = Remote(handler[h].cfg)
      BY <3>1, <3>2 DEF ProjectsStayStep
    <3>. QED
      BY <2>5, <3>3, ReturnAgrees DEF UpdateWrite
  <2>6. CASE UpdateAdopt(h) \/ UpdateEnqueue(h)
    BY <2>0, <2>6 DEF UpdateAdopt, UpdateEnqueue, HandlerAgrees
  <2>7. ASSUME NEW b \in Builds, CancelPending(h, b)
        PROVE  HandlerAgreesInv'
    <3>1. HandlerAgrees([Idle EXCEPT !.op = "registry", !.b = b])'
      BY DEF HandlerAgrees, Idle
    <3>2. CASE Start(h, [Idle EXCEPT !.op = "registry", !.b = b])
      BY <3>1, <3>2, BecomesAgrees DEF Start
    <3>. QED
      BY <1>1, <2>7, <3>2 DEF CancelPending
  <2>8. ASSUME NEW op \in {"check", "lookup", "flag"}, Continue(h, op)
        PROVE  HandlerAgreesInv'
    <3>1. PICK r : r = [handler[h] EXCEPT !.op = op]
      OBVIOUS
    <3>2. r.op = op
      BY <2>0, <3>1 DEF HandlerType
    <3>3. HandlerAgrees(r)'
      BY <3>2 DEF HandlerAgrees
    <3>. QED
      BY <2>8, <3>1, <3>3, BecomesAgrees DEF Continue
  <2>9. CASE CreateBuild(h)
    BY <2>3, <2>4, <2>9 DEF CreateBuild
  <2>10. CASE Dispatch(h) \/ CancelCurrent(h) \/ CancelCheck(h) \/ CancelLookup(h) \/ CancelFlag(h)
    BY <2>4, <2>8, <2>10 DEF Dispatch, CancelCurrent, CancelCheck, CancelLookup, CancelFlag
  <2>. QED
    BY <1>2, <2>1, <2>2, <2>5, <2>6, <2>7, <2>9, <2>10 DEF HandlerNext
<1>3. CASE RunnerNext \/ JanitorNext
  BY <1>1, <1>3 DEF RunnerNext, RunnerTake, RunnerRegister, ClaimBuild, RunBuild, EndBuild,
    RunnerLeave, RunnerExit, JanitorNext, SweepScan, SweepRow
<1>4. ASSUME NEW a \in Agents, AgentNext(a)
      PROVE  HandlerAgreesInv'
  BY <1>1, <1>4 DEF AgentNext, AgentClaim, AnswerClaim, AgentHeartbeat, FinishRead,
    FinishWrite, AgentCrash, procVars
<1>5. CASE ProcessNext
  <2>1. CASE Exit \/ Crash
    BY <2>1, IdleAgrees DEF Exit, Crash, Down, HandlerAgreesInv
  <2>. QED
    BY <1>1, <1>5, <2>1 DEF ProcessNext, Drain, StopRunner, Boot, Serve, RecoverRunning,
      RecoverPending, procVars
<1>6. CASE (GraceEnds \/ \E b \in Builds : Quiet(b)) \/ UNCHANGED vars
  BY <1>1, <1>6 DEF GraceEnds, Quiet, vars, procVars
<1>. QED
  BY <1>2, <1>3, <1>4, <1>5, <1>6 DEF Next

(* What the channel holds after a send ...                                 *)
LEMMA InQueueAfterSend ==
  ASSUME TypeOK, NEW b \in Builds, NEW c \in Builds, queue' = Append(queue, b)
  PROVE  InQueue(c)' <=> InQueue(c) \/ c = b
<1>1. /\ queue \in Seq(Builds)
      /\ Len(queue') = Len(queue) + 1
      /\ \A i \in 1 .. Len(queue) : queue'[i] = queue[i]
      /\ queue'[Len(queue) + 1] = b
      /\ Len(queue) \in Nat
  BY DEF TypeOK
<1>2. \A i \in 1 .. Len(queue') : i \in 1 .. Len(queue) \/ i = Len(queue) + 1
  BY <1>1
<1>3. /\ \A i \in 1 .. Len(queue) : i \in 1 .. Len(queue')
      /\ Len(queue) + 1 \in 1 .. Len(queue')
  BY <1>1
<1>. QED
  BY <1>1, <1>2, <1>3, Zenon DEF InQueue

(* ... and after the runner has taken its head.                            *)
LEMMA InQueueAfterTake ==
  ASSUME TypeOK, NEW c \in Builds, queue # <<>>, queue' = Tail(queue)
  PROVE  /\ InQueue(c) => InQueue(c)' \/ c = Head(queue)
         /\ InQueue(c)' => InQueue(c)
         /\ Head(queue) \in Builds /\ InQueue(Head(queue))
<1>1. /\ queue \in Seq(Builds)
      /\ Len(queue) \in Nat /\ Len(queue) > 0
      /\ Len(queue') = Len(queue) - 1
      /\ \A i \in 1 .. Len(queue) - 1 : queue'[i] = queue[i + 1]
      /\ Head(queue) = queue[1]
  BY DEF TypeOK
<1>2. Head(queue) \in Builds /\ InQueue(Head(queue))
  BY <1>1 DEF InQueue
<1>3. ASSUME InQueue(c), c # Head(queue)
      PROVE  InQueue(c)'
  <2>1. PICK i \in 1 .. Len(queue) : queue[i] = c
    BY <1>3 DEF InQueue
  <2>2. i - 1 \in 1 .. Len(queue') /\ queue'[i - 1] = c
    BY <1>1, <1>3, <2>1
  <2>. QED
    BY <2>2 DEF InQueue
<1>4. ASSUME InQueue(c)'
      PROVE  InQueue(c)
  <2>1. PICK i \in 1 .. Len(queue') : queue'[i] = c
    BY <1>4 DEF InQueue
  <2>2. i + 1 \in 1 .. Len(queue) /\ queue[i + 1] = c
    BY <1>1, <2>1
  <2>. QED
    BY <2>2 DEF InQueue
<1>. QED
  BY <1>2, <1>3, <1>4

(* Sending a build to the runner puts it on the channel and nothing else.  *)
LEMMA EnqueueSends ==
  ASSUME TypeOK, NEW b \in Builds, Enqueue(b), NEW c \in Builds
  PROVE  /\ InQueue(c) => InQueue(c)'
         /\ InQueue(c)' => InQueue(c) \/ c = b
         /\ status'[c] = "pending" => status[c] = "pending" /\ (c = b => InQueue(c)')
<1>1. CASE Len(queue) < Capacity
  <2>1. queue' = Append(queue, b) /\ UNCHANGED status
    BY <1>1 DEF Enqueue
  <2>. QED
    BY <2>1, InQueueAfterSend
<1>2. CASE ~(Len(queue) < Capacity)
  <2>1. UNCHANGED queue /\ Set(b, IF status[b] = "pending" THEN "failed" ELSE status[b])
    BY <1>2 DEF Enqueue
  <2>. QED
    BY <2>1 DEF InQueue, Set, TypeOK
<1>. QED
  BY <1>1, <1>2

(* Only local builds are put on the channel.                               *)
LEMMA OnlyLocalQueued ==
  ASSUME IInv, HandlerAgreesInv, Next \/ UNCHANGED vars, NEW c \in Builds, InQueue(c)'
  PROVE  InQueue(c) \/ LocalBuild(c)
<1>1. TypeOK /\ HandlerInv
  BY DEF IInv
<1>2. CASE UNCHANGED queue
  BY <1>2 DEF InQueue
<1>3. ASSUME NEW h \in Handlers, HandlerNext(h)
      PROVE  InQueue(c) \/ LocalBuild(c)
  <2>1. CASE Dispatch(h)
    <3>1. handler[h].b \in Builds
      BY <1>1, <2>1 DEF Dispatch, HandlerInv
    <3>2. UNCHANGED queue \/ (~Remote(handler[h].cfg) /\ Enqueue(handler[h].b))
      BY <2>1 DEF Dispatch
    <3>3. ~Remote(handler[h].cfg) => LocalBuild(handler[h].b)
      BY <2>1 DEF Dispatch, HandlerAgreesInv, HandlerAgrees, LocalBuild
    <3>. QED
      BY <1>1, <1>2, <3>1, <3>2, <3>3, EnqueueSends
  <2>2. CASE UpdateEnqueue(h)
    BY <2>2 DEF UpdateEnqueue, HandlerAgreesInv, HandlerAgrees
  <2>. QED
    BY <1>2, <1>3, <2>1, <2>2 DEF HandlerNext, TriggerRead, UpdateRead, CreateBuild,
      UpdateWrite, UpdateAdopt, CancelPending, CancelCurrent, CancelCheck, CancelLookup,
      CancelFlag
<1>4. CASE RunnerNext \/ JanitorNext
  <2>1. CASE RunnerTake
    BY <1>1, <2>1, InQueueAfterTake DEF RunnerTake
  <2>. QED
    BY <1>2, <1>4, <2>1 DEF RunnerNext, RunnerRegister, ClaimBuild, RunBuild, EndBuild,
      RunnerLeave, RunnerExit, JanitorNext, SweepScan, SweepRow
<1>5. ASSUME NEW a \in Agents, AgentNext(a)
      PROVE  UNCHANGED queue
  BY <1>5 DEF AgentNext, AgentClaim, AnswerClaim, AgentHeartbeat, FinishRead, FinishWrite,
    AgentCrash, procVars
<1>6. CASE ProcessNext
  <2>1. CASE Exit \/ Crash
    <3>1. queue' = <<>>
      BY <2>1 DEF Exit, Crash, Down
    <3>2. ~InQueue(c)'
      BY <3>1 DEF InQueue
    <3>. QED
      BY <3>2
  <2>2. ASSUME NEW b \in Builds, RecoverPending(b)
        PROVE  InQueue(c) \/ LocalBuild(c)
    <3>1. Enqueue(b) /\ LocalBuild(b)
      BY <2>2 DEF RecoverPending, Unqueued, LocalBuild, RemoteBuild
    <3>. QED
      BY <1>1, <3>1, EnqueueSends
  <2>. QED
    BY <1>2, <1>6, <2>1, <2>2 DEF ProcessNext, Drain, StopRunner, Boot, Serve,
      RecoverRunning, procVars
<1>7. CASE (GraceEnds \/ \E b \in Builds : Quiet(b)) \/ UNCHANGED vars
  BY <1>2, <1>7 DEF GraceEnds, Quiet, vars, procVars
<1>. QED
  BY <1>2, <1>3, <1>4, <1>5, <1>6, <1>7 DEF Next

(* The runner takes its builds off the channel.                            *)
LEMMA JobFromQueue ==
  ASSUME TypeOK, Next \/ UNCHANGED vars, job' \in Builds
  PROVE  job' = job \/ InQueue(job')
<1>1. ASSUME NEW h \in Handlers, HandlerNext(h)
      PROVE  UNCHANGED job
  BY <1>1 DEF HandlerNext, TriggerRead, UpdateRead, CreateBuild, Dispatch, UpdateWrite,
    UpdateAdopt, UpdateEnqueue, CancelPending, CancelCurrent, CancelCheck, CancelLookup,
    CancelFlag, runnerVars
<1>2. CASE RunnerTake
  <2>1. queue # <<>> /\ queue' = Tail(queue) /\ job' = Head(queue)
    BY <1>2 DEF RunnerTake
  <2>. QED
    BY <2>1, InQueueAfterTake
<1>3. CASE RunnerNext \/ JanitorNext
  BY <1>2, <1>3, ConstantsOK DEF RunnerNext, RunnerRegister, ClaimBuild, RunBuild, EndBuild,
    RunnerLeave, RunnerExit, JanitorNext, SweepScan, SweepRow, runnerVars
<1>4. ASSUME NEW a \in Agents, AgentNext(a)
      PROVE  UNCHANGED job
  BY <1>4 DEF AgentNext, AgentClaim, AnswerClaim, AgentHeartbeat, FinishRead, FinishWrite,
    AgentCrash, procVars, runnerVars
<1>5. CASE ProcessNext
  BY <1>5, ConstantsOK DEF ProcessNext, Drain, StopRunner, Exit, Crash, Boot, Serve,
    RecoverRunning, RecoverPending, Down, procVars, runnerVars
<1>6. CASE (GraceEnds \/ \E b \in Builds : Quiet(b)) \/ UNCHANGED vars
  BY <1>6 DEF GraceEnds, Quiet, vars, procVars, runnerVars
<1>. QED
  BY <1>1, <1>3, <1>4, <1>5, <1>6 DEF Next

(* Agents claim remote builds.                                             *)
LEMMA OwnersRemote ==
  ASSUME TypeOK, Next \/ UNCHANGED vars, NEW b \in Builds, owner'[b] # None
  PROVE  owner[b] # None \/ (status[b] = "pending" /\ RemoteBuild(b))
<1>1. ASSUME NEW h \in Handlers, HandlerNext(h)
      PROVE  UNCHANGED owner
  BY <1>1 DEF HandlerNext, TriggerRead, UpdateRead, CreateBuild, Dispatch, UpdateWrite,
    UpdateAdopt, UpdateEnqueue, CancelPending, CancelCurrent, CancelCheck, CancelLookup,
    CancelFlag, dbVars
<1>2. CASE RunnerNext \/ JanitorNext
  BY <1>2 DEF RunnerNext, RunnerTake, RunnerRegister, ClaimBuild, RunBuild, EndBuild,
    RunnerLeave, RunnerExit, JanitorNext, SweepScan, SweepRow, dbVars
<1>3. ASSUME NEW a \in Agents, AgentNext(a)
      PROVE  owner[b] # None \/ (status[b] = "pending" /\ RemoteBuild(b))
  BY <1>3 DEF AgentNext, AgentClaim, AnswerClaim, AgentHeartbeat, FinishRead, FinishWrite,
    AgentCrash, Claimable, Eligible, RemoteBuild, TypeOK, dbVars
<1>4. CASE ProcessNext
  BY <1>4 DEF ProcessNext, Drain, StopRunner, Exit, Crash, Boot, Serve, RecoverRunning,
    RecoverPending, Down, dbVars
<1>5. CASE (GraceEnds \/ \E c \in Builds : Quiet(c)) \/ UNCHANGED vars
  BY <1>5 DEF GraceEnds, Quiet, vars, dbVars
<1>. QED
  BY <1>1, <1>2, <1>3, <1>4, <1>5 DEF Next

(* Local builds stay with the runner and remote ones with the agents.      *)
LEMMA HomesKept ==
  ASSUME IInv, HomeInv, HandlerAgreesInv, Next \/ UNCHANGED vars, ProjectsStayStep
  PROVE  HomeInv'
<1>1. TypeOK /\ RowInv /\ RunnerInv /\ AgentInv
  BY DEF IInv
<1>2. ASSUME NEW b \in Builds, status'[b] # "none"
      PROVE  project'[b] \in Projects
  <2>1. CASE status[b] # "none"
    BY <1>1, <2>1, RowsStay DEF HomeInv
  <2>2. CASE status[b] = "none"
    BY <1>1, <1>2, <2>2, RowsStay DEF HandlerAgreesInv, HandlerAgrees
  <2>. QED
    BY <2>1, <2>2
<1>3. ASSUME NEW b \in Builds, owner'[b] # None
      PROVE  RemoteBuild(b)'
  <2>1. status[b] # "none" /\ RemoteBuild(b)
    BY <1>1, <1>3, OwnersRemote DEF HomeInv, RowInv
  <2>. QED
    BY <2>1, HomesStay
<1>4. ASSUME NEW b \in Builds, LocalBuild(b)
      PROVE  LocalBuild(b)'
  BY <1>4, HomesStay DEF LocalBuild
<1>5. ASSUME NEW b \in Builds, InQueue(b)'
      PROVE  LocalBuild(b)'
  BY <1>4, <1>5, OnlyLocalQueued DEF HomeInv
<1>6. ASSUME job' \in Builds
      PROVE  LocalBuild(job)'
  <2>1. PICK b \in Builds : b = job'
    BY <1>6
  <2>2. LocalBuild(b)
    BY <1>1, <2>1, JobFromQueue DEF HomeInv
  <2>3. LocalBuild(b)'
    BY <1>4, <2>2
  <2>. QED
    BY <2>1, <2>3 DEF LocalBuild, RemoteBuild, ConfigOf
<1>. QED
  BY <1>2, <1>3, <1>5, <1>6 DEF HomeInv

(* An outcome is final.                                                    *)
LEMMA OutcomeStays ==
  ASSUME IInv, Next \/ UNCHANGED vars, NEW b \in Builds, status[b] \in Terminal
  PROVE  status'[b] = status[b]
<1>1. LifecycleStep
  BY StepRefines
<1>2. CASE UNCHANGED Lifecycle!vars
  BY <1>2 DEF Lifecycle!vars
<1>3. CASE Lifecycle!Next
  BY <1>3 DEF Lifecycle!Next, Lifecycle!Create, Lifecycle!Start, Lifecycle!Requeue,
     Lifecycle!Abandon, Lifecycle!Settle, IInv, TypeOK, Terminal
<1>. QED
  BY <1>1, <1>2, <1>3 DEF LifecycleStep

(* The server's own running row is the one the runner works on: it only    *)
(* lets go of a row it has settled, or requeued because the process stops. *)
LEMMA OrphansKept ==
  ASSUME IInv, CauseInv, HomeInv, OrphanInv, Next \/ UNCHANGED vars, Faults = FALSE
  PROVE  OrphanInv'
<1>1. TypeOK /\ RowInv /\ RunnerInv /\ AgentInv /\ PhaseInv /\ ConstantsOK
  BY ConstantsOK DEF IInv
<1>. DEFINE Owned == phase' \in Live => \A b \in Builds : Interrupted(b)' => RunnerHolds(b)'
            Quit  == rpc' = "leaving" /\ phase' # "stopping" => status'[job'] \in Terminal
            Calm  == /\ UNCHANGED <<rpc, job>>
                     /\ phase' = phase \/ (phase \in Live /\ phase # "stopping")
                     /\ \A b \in Builds : Interrupted(b)' => Interrupted(b)
<1>. SUFFICES Owned /\ Quit
  BY DEF OrphanInv
<1>2. ASSUME Calm
      PROVE  Owned /\ Quit
  <2>1. Owned
    BY <1>2 DEF OrphanInv, RunnerHolds
  <2>2. Quit
    BY <1>1, <1>2, OutcomeStays DEF OrphanInv, RunnerInv
  <2>. QED
    BY <2>1, <2>2
<1>3. ASSUME NEW h \in Handlers, HandlerNext(h)
      PROVE  Calm
  <2>1. UNCHANGED <<rpc, job, owner, phase>>
    BY <1>3 DEF HandlerNext, TriggerRead, UpdateRead, CreateBuild, Dispatch, UpdateWrite,
      UpdateAdopt, UpdateEnqueue, CancelPending, CancelCurrent, CancelCheck, CancelLookup,
      CancelFlag, runnerVars, dbVars
  <2>2. \A b \in Builds : status'[b] = "running" => status[b] = "running"
    <3>1. CASE CreateBuild(h)
      BY <1>1, <3>1 DEF CreateBuild, Set, TypeOK
    <3>2. CASE Dispatch(h) \/ UpdateEnqueue(h)
      <4>1. UNCHANGED status \/ \E b : Enqueue(b)
        BY <3>2 DEF Dispatch, UpdateEnqueue
      <4>. QED
        BY <1>1, <4>1, EnqueueWrites
    <3>3. CASE \E b \in Builds : CancelPending(h, b)
      BY <1>1, <3>3 DEF CancelPending, Set, TypeOK
    <3>4. CASE UNCHANGED status
      BY <3>4
    <3>. QED
      BY <1>3, <3>1, <3>2, <3>3, <3>4 DEF HandlerNext, TriggerRead, UpdateRead, UpdateWrite,
        UpdateAdopt, CancelCurrent, CancelCheck, CancelLookup, CancelFlag, dbVars
  <2>. QED
    BY <2>1, <2>2 DEF Interrupted
<1>4. CASE ClaimBuild
  <2>1. /\ job \in Builds /\ phase \in Live /\ LocalBuild(job) /\ owner[job] = None
        /\ \A b \in Builds : ~Interrupted(b)
    BY <1>1, <1>4 DEF ClaimBuild, RunnerInv, PhaseInv, HomeInv, OrphanInv, RunnerHolds,
      LocalBuild
  <2>2. UNCHANGED <<job, owner, phase>>
    BY <1>4 DEF ClaimBuild
  <2>3. CASE Set(job, "running") /\ rpc' = "building"
    BY <1>1, <2>1, <2>2, <2>3 DEF Interrupted, RunnerHolds, Set, TypeOK
  <2>4. CASE status[job] # "pending" /\ rpc' = "leaving" /\ UNCHANGED status
    BY <1>1, <2>1, <2>2, <2>4 DEF Interrupted, LocalBuild, TypeOK, Statuses
  <2>. QED
    BY <1>4, <2>3, <2>4 DEF ClaimBuild
<1>5. CASE EndBuild
  <2>1. /\ job \in Builds /\ phase \in Live /\ rpc' = "leaving"
        /\ verdict \in Terminal \cup {"requeue"}
        /\ verdict = "requeue" => phase = "stopping"
        /\ \A b \in Builds : Interrupted(b) => b = job
    BY <1>1, <1>5 DEF EndBuild, RunnerInv, TypeOK, PhaseInv, CauseInv, OrphanInv, RunnerHolds
  <2>2. UNCHANGED <<job, owner, phase>>
    BY <1>5 DEF EndBuild
  <2>3. \E s \in Terminal \cup {"pending"} : Set(job, s) /\ (verdict # "requeue" => s \in Terminal)
    BY <1>5, <2>1 DEF EndBuild, Terminal
  <2>. QED
    BY <1>1, <2>1, <2>2, <2>3 DEF Interrupted, Set, TypeOK, Terminal
<1>6. CASE RunnerTake \/ RunnerRegister \/ RunBuild \/ RunnerLeave \/ RunnerExit
  <2>1. /\ UNCHANGED <<status, owner, phase>> /\ rpc' # "leaving"
        /\ \A b \in Builds : RunnerHolds(b) => RunnerHolds(b)'
    BY <1>6 DEF RunnerTake, RunnerRegister, RunBuild, RunnerLeave, RunnerExit, RunnerHolds,
      dbVars
  <2>. QED
    BY <2>1 DEF OrphanInv, Interrupted
<1>7. ASSUME JanitorNext
      PROVE  Calm
  BY <1>1, <1>7 DEF JanitorNext, SweepScan, SweepRow, Set, Interrupted, TypeOK, runnerVars, dbVars
<1>8. ASSUME NEW a \in Agents, AgentNext(a)
      PROVE  Calm
  <2>0. UNCHANGED <<rpc, job, phase>>
    BY <1>8 DEF AgentNext, AgentClaim, AnswerClaim, AgentHeartbeat, FinishRead, FinishWrite,
      AgentCrash, procVars, runnerVars
  <2>1. CASE AgentClaim(a)
    BY <1>1, <2>0, <2>1 DEF AgentClaim, Set, Interrupted, TypeOK
  <2>2. CASE AnswerClaim(a)
    BY <1>1, <2>0, <2>2 DEF AnswerClaim, Set, Interrupted, TypeOK
  <2>3. CASE FinishWrite(a)
    <3>1. report[a] \in Terminal
      BY <1>1, <2>3 DEF FinishWrite, AgentInv
    <3>. QED
      BY <1>1, <2>0, <2>3, <3>1 DEF FinishWrite, Set, Interrupted, TypeOK, Terminal
  <2>4. CASE AgentHeartbeat(a) \/ (\E s \in Terminal : FinishRead(a, s)) \/ AgentCrash(a)
    BY <2>0, <2>4 DEF AgentHeartbeat, FinishRead, AgentCrash, Interrupted, dbVars
  <2>. QED
    BY <1>8, <2>1, <2>2, <2>3, <2>4 DEF AgentNext
<1>9. CASE ProcessNext
  <2>1. CASE Exit \/ Crash
    BY <2>1 DEF Exit, Crash, Down, Live
  <2>2. CASE Boot \/ \E b \in Builds : RecoverRunning(b) \/ RecoverPending(b)
    BY <1>1, <2>2 DEF Boot, RecoverRunning, RecoverPending, PhaseInv, Live, procVars, runnerVars
  <2>3. CASE Serve
    BY <1>1, <2>3 DEF Serve, Interrupted, PhaseInv, Live, runnerVars, dbVars
  <2>4. ASSUME Drain \/ StopRunner
        PROVE  Calm
    BY <2>4 DEF Drain, StopRunner, Interrupted, Live, runnerVars, dbVars
  <2>. QED
    BY <1>2, <1>9, <2>1, <2>2, <2>3, <2>4 DEF ProcessNext
<1>10. ASSUME (GraceEnds \/ \E b \in Builds : Quiet(b)) \/ UNCHANGED vars
       PROVE  Calm
  BY <1>10 DEF GraceEnds, Quiet, Interrupted, vars, dbVars, procVars, runnerVars
<1>. HIDE DEF Calm
<1>. QED
  BY <1>2, <1>3, <1>4, <1>5, <1>6, <1>7, <1>8, <1>9, <1>10 DEF Next, RunnerNext

(* A flag is set on a build that has an agent, and is never taken back.    *)
LEMMA FlagsKept ==
  ASSUME IInv, FlagInv, Next \/ UNCHANGED vars
  PROVE  FlagInv' /\ cancelReq \subseteq cancelReq'
<1>1. TypeOK /\ RowInv /\ ConstantsOK
  BY ConstantsOK DEF IInv
<1>. DEFINE Goal == FlagInv' /\ cancelReq \subseteq cancelReq'
<1>2. ASSUME UNCHANGED <<cancelReq, owner>>
      PROVE  Goal
  BY <1>2 DEF FlagInv
<1>3. ASSUME NEW h \in Handlers, HandlerNext(h)
      PROVE  Goal
  <2>1. CASE CancelFlag(h)
    BY <2>1 DEF CancelFlag, FlagInv
  <2>. QED
    BY <1>2, <1>3, <2>1 DEF HandlerNext, TriggerRead, UpdateRead, CreateBuild, Dispatch,
      UpdateWrite, UpdateAdopt, UpdateEnqueue, CancelPending, CancelCurrent, CancelCheck,
      CancelLookup, dbVars
<1>4. ASSUME RunnerNext \/ JanitorNext
      PROVE  Goal
  BY <1>2, <1>4 DEF RunnerNext, RunnerTake, RunnerRegister, ClaimBuild, RunBuild, EndBuild,
    RunnerLeave, RunnerExit, JanitorNext, SweepScan, SweepRow, dbVars
<1>5. ASSUME NEW a \in Agents, AgentNext(a)
      PROVE  Goal
  <2>1. CASE AgentClaim(a)
    <3>1. PICK b \in Builds : /\ status[b] = "pending"
                              /\ owner' = [owner EXCEPT ![b] = a]
                              /\ cancelReq' = cancelReq \ {b}
      BY <2>1 DEF AgentClaim, Claimable
    <3>2. b \notin cancelReq
      BY <1>1, <3>1 DEF FlagInv, RowInv
    <3>. QED
      BY <1>1, <3>1, <3>2 DEF FlagInv, TypeOK
  <2>. QED
    BY <1>2, <1>5, <2>1 DEF AgentNext, AnswerClaim, AgentHeartbeat, Beat, FinishRead,
      FinishWrite, AgentCrash, dbVars
<1>6. ASSUME ProcessNext
      PROVE  Goal
  BY <1>2, <1>6 DEF ProcessNext, Drain, StopRunner, Exit, Crash, Boot, Serve, RecoverRunning,
    RecoverPending, Down, dbVars
<1>7. ASSUME (GraceEnds \/ \E b \in Builds : Quiet(b)) \/ UNCHANGED vars
      PROVE  Goal
  BY <1>2, <1>7 DEF GraceEnds, Quiet, vars, dbVars
<1>. QED
  BY <1>3, <1>4, <1>5, <1>6, <1>7 DEF Next

(* A flagged build is held by its flag until it has an outcome.            *)
LEMMA FlagHeld ==
  ASSUME IInv, FlagInv, Next \/ UNCHANGED vars, NEW b \in cancelReq'
  PROVE  b \in Builds /\ CancelHeld(b)'
<1>1. IInv' /\ FlagInv'
  BY FlagsKept, NextInv
<1>2. b \in Builds /\ owner'[b] # None /\ status'[b] \in Statuses \ {"none", "pending"}
  BY <1>1 DEF IInv, TypeOK, RowInv, FlagInv
<1>. QED
  BY <1>2 DEF CancelHeld, Statuses

(* The context of a build that was canceled through the registry stays     *)
(* registered until the runner leaves the build, or the process ends.      *)
LEMMA CauseStays ==
  ASSUME TypeOK, RunnerInv, Next \/ UNCHANGED vars, NEW b \in Builds,
         current = b, cause = "user", rpc # "leaving"
  PROVE  \/ phase' = "down"
         \/ current' = b /\ cause' = "user" /\ (rpc' = "leaving" => job' = b)
<1>1. /\ b # None /\ rpc \in {"registered", "building", "ending"} /\ job = b
      /\ "user" # None
  BY ConstantsOK DEF RunnerInv, TypeOK
<1>2. ASSUME NEW h \in Handlers, HandlerNext(h)
      PROVE  UNCHANGED <<current, job>> /\ cause' = "user"
  BY <1>1, <1>2 DEF HandlerNext, TriggerRead, UpdateRead, CreateBuild, Dispatch, UpdateWrite,
    UpdateAdopt, UpdateEnqueue, CancelPending, CancelCurrent, CancelCheck, CancelLookup,
    CancelFlag, runnerVars
<1>3. CASE RunnerNext \/ JanitorNext
  BY <1>1, <1>3 DEF RunnerNext, RunnerTake, RunnerRegister, ClaimBuild, RunBuild, EndBuild,
    RunnerLeave, RunnerExit, JanitorNext, SweepScan, SweepRow, runnerVars
<1>4. ASSUME NEW a \in Agents, AgentNext(a)
      PROVE  UNCHANGED <<current, job, cause>>
  BY <1>4 DEF AgentNext, AgentClaim, AnswerClaim, AgentHeartbeat, FinishRead, FinishWrite,
    AgentCrash, procVars, runnerVars
<1>5. CASE ProcessNext
  BY <1>1, <1>5 DEF ProcessNext, Drain, StopRunner, Exit, Crash, Boot, Serve, RecoverRunning,
    RecoverPending, Down, procVars, runnerVars
<1>6. CASE (GraceEnds \/ \E c \in Builds : Quiet(c)) \/ UNCHANGED vars
  BY <1>6 DEF GraceEnds, Quiet, vars, procVars, runnerVars
<1>. QED
  BY <1>1, <1>2, <1>3, <1>4, <1>5, <1>6 DEF Next

(* A held cancel stays held until the process ends.                        *)
LEMMA HeldStays ==
  ASSUME IInv, FlagInv, OrphanInv', Next \/ UNCHANGED vars, NEW b \in Builds, CancelHeld(b),
         phase' # "stopping", phase = "down" \/ phase' # "down"
  PROVE  CancelHeld(b)'
<1>1. CASE status[b] \in Terminal
  BY <1>1, OutcomeStays DEF CancelHeld
<1>2. CASE b \in cancelReq
  BY <1>2, FlagsKept, FlagHeld
<1>3. CASE current = b /\ cause = "user" /\ rpc # "leaving"
  <2>0. phase # "down"
    BY <1>3, ConstantsOK DEF IInv, RunnerInv, PhaseInv, Live
  <2>1. current' = b /\ cause' = "user" /\ (rpc' = "leaving" => job' = b)
    BY <1>3, <2>0, CauseStays DEF IInv
  <2>2. rpc' = "leaving" => status'[b] \in Terminal
    BY <2>1 DEF OrphanInv
  <2>. QED
    BY <2>1, <2>2 DEF CancelHeld
<1>. QED
  BY <1>1, <1>2, <1>3 DEF CancelHeld

(* A handler that has just found the registered build left its cause       *)
(* there.                                                                  *)
LEMMA CheckFollows ==
  ASSUME TypeOK, Next \/ UNCHANGED vars, NEW h \in Handlers, handler'[h].op = "check"
  PROVE  \/ handler'[h] = handler[h]
         \/ /\ current = handler[h].b /\ handler'[h].b = handler[h].b
            /\ handler[h].op = "registry"
            /\ cause' = IF cause = None THEN "user" ELSE cause
            /\ UNCHANGED <<current, rpc, status, phase>>
<1>1. Canceling(h)'
  BY DEF Canceling
<1>. DEFINE Goal == \/ handler'[h] = handler[h]
                    \/ /\ current = handler[h].b /\ handler'[h].b = handler[h].b
                       /\ handler[h].op = "registry"
                       /\ cause' = IF cause = None THEN "user" ELSE cause
                       /\ UNCHANGED <<current, rpc, status, phase>>
<1>2. ASSUME NEW g \in Handlers, HandlerNext(g)
      PROVE  Goal
  <2>1. CASE CancelCurrent(g)
    BY <2>1 DEF CancelCurrent, Continue, Becomes, TypeOK, HandlerType, dbVars
  <2>2. CASE CancelLookup(g)
    BY <2>2 DEF CancelLookup, Continue, Return, Becomes, Idle, TypeOK, HandlerType
  <2>3. ASSUME NEW r, Becomes(g, r), r.op # "check"
        PROVE  Goal
    BY <2>3 DEF Becomes, TypeOK
  <2>4. /\ Idle.op # "check"
        /\ \A p, c : [Idle EXCEPT !.op = "create", !.p = p, !.cfg = c].op # "check"
        /\ \A p, c : [Idle EXCEPT !.op = "write", !.p = p, !.cfg = c].op # "check"
        /\ \A b : [Idle EXCEPT !.op = "registry", !.b = b].op # "check"
    BY DEF Idle
  <2>5. /\ \A b : [handler[g] EXCEPT !.op = "dispatch", !.b = b].op # "check"
        /\ \A todo : [handler[g] EXCEPT !.op = "enqueue", !.todo = todo].op # "check"
        /\ [handler[g] EXCEPT !.op = "adopt"].op # "check"
    BY DEF TypeOK, HandlerType
  <2>6. CASE \E p \in Projects : TriggerRead(g, p)
    BY <2>3, <2>4, <2>6 DEF TriggerRead, Start
  <2>7. CASE \E p \in Projects : UpdateRead(g, p)
    BY <2>3, <2>4, <2>7 DEF UpdateRead, Start
  <2>8. CASE CreateBuild(g)
    BY <2>3, <2>4, <2>5, <2>8 DEF CreateBuild, Return
  <2>9. CASE \E c \in Configs : UpdateWrite(g, c)
    BY <2>3, <2>4, <2>5, <2>9 DEF UpdateWrite, Continue, Return
  <2>10. CASE UpdateAdopt(g) \/ UpdateEnqueue(g)
    <3>1. PICK todo : EnqueueNext(g, todo)
      BY <2>10 DEF UpdateAdopt, UpdateEnqueue
    <3>. QED
      BY <2>3, <2>4, <2>5, <3>1 DEF EnqueueNext, Return
  <2>11. CASE \E b \in Builds : CancelPending(g, b)
    BY <2>3, <2>4, <2>11 DEF CancelPending, Start
  <2>12. CASE Dispatch(g) \/ CancelCheck(g) \/ CancelFlag(g)
    BY <2>3, <2>4, <2>12 DEF Dispatch, CancelCheck, CancelFlag, Return
  <2>. QED
    BY <1>2, <2>1, <2>2, <2>6, <2>7, <2>8, <2>9, <2>10, <2>11, <2>12 DEF HandlerNext
<1>3. CASE RunnerNext \/ JanitorNext
  BY <1>3 DEF RunnerNext, RunnerTake, RunnerRegister, ClaimBuild, RunBuild, EndBuild,
    RunnerLeave, RunnerExit, JanitorNext, SweepScan, SweepRow
<1>4. ASSUME NEW a \in Agents, AgentNext(a)
      PROVE  Goal
  BY <1>4 DEF AgentNext, AgentClaim, AnswerClaim, AgentHeartbeat, FinishRead, FinishWrite,
    AgentCrash, procVars
<1>5. CASE ProcessNext
  BY <1>5 DEF ProcessNext, Drain, StopRunner, Exit, Crash, Boot, Serve, RecoverRunning,
    RecoverPending, Down, Idle, procVars
<1>6. CASE (GraceEnds \/ \E b \in Builds : Quiet(b)) \/ UNCHANGED vars
  BY <1>6 DEF GraceEnds, Quiet, vars, procVars
<1>. QED
  BY <1>2, <1>3, <1>4, <1>5, <1>6 DEF Next

(* A cancel is only promised by a handler that left it in the registry or  *)
(* in the row, and a process that ends takes back what was not in a row.   *)
LEMMA PromiseSteps ==
  ASSUME TypeOK, Next \/ UNCHANGED vars, NEW b \in promised'
  PROVE  /\ \/ b \in promised
            \/ b \in cancelReq'
            \/ \E h \in Handlers : handler[h].op = "check" /\ handler[h].b = b
         /\ phase' = "down" /\ phase # "down" => b \in cancelReq'
<1>1. ASSUME NEW h \in Handlers, HandlerNext(h)
      PROVE  /\ b \in promised \/ b \in cancelReq' \/ (handler[h].op = "check" /\ handler[h].b = b)
             /\ phase' = phase
  BY <1>1 DEF HandlerNext, TriggerRead, UpdateRead, CreateBuild, Dispatch, UpdateWrite,
    UpdateAdopt, UpdateEnqueue, CancelPending, CancelCurrent, CancelCheck, CancelLookup,
    CancelFlag
<1>2. CASE RunnerNext \/ JanitorNext
  BY <1>2 DEF RunnerNext, RunnerTake, RunnerRegister, ClaimBuild, RunBuild, EndBuild,
    RunnerLeave, RunnerExit, JanitorNext, SweepScan, SweepRow
<1>3. ASSUME NEW a \in Agents, AgentNext(a)
      PROVE  UNCHANGED <<promised, phase>>
  BY <1>3 DEF AgentNext, AgentClaim, AnswerClaim, AgentHeartbeat, FinishRead, FinishWrite,
    AgentCrash, procVars
<1>4. CASE ProcessNext
  BY <1>4 DEF ProcessNext, Drain, StopRunner, Exit, Crash, Boot, Serve, RecoverRunning,
    RecoverPending, Down, dbVars, procVars
<1>5. CASE (GraceEnds \/ \E c \in Builds : Quiet(c)) \/ UNCHANGED vars
  BY <1>5 DEF GraceEnds, Quiet, vars, procVars
<1>. QED
  BY <1>1, <1>2, <1>3, <1>4, <1>5 DEF Next

(* A process comes up after it has recovered, drains while it is up, stops *)
(* after it drained, and then ends.                                        *)
LEMMA PhaseSteps ==
  ASSUME Next \/ UNCHANGED vars
  PROVE  /\ phase = "stopping" => phase' \in {"stopping", "down"}
         /\ phase' \in {"up", "draining"} /\ phase' # phase =>
              Serve \/ (Drain /\ phase = "up")
<1>1. ASSUME NEW h \in Handlers, HandlerNext(h)
      PROVE  UNCHANGED phase
  BY <1>1 DEF HandlerNext, TriggerRead, UpdateRead, CreateBuild, Dispatch, UpdateWrite,
    UpdateAdopt, UpdateEnqueue, CancelPending, CancelCurrent, CancelCheck, CancelLookup,
    CancelFlag
<1>2. CASE RunnerNext \/ JanitorNext
  BY <1>2 DEF RunnerNext, RunnerTake, RunnerRegister, ClaimBuild, RunBuild, EndBuild,
    RunnerLeave, RunnerExit, JanitorNext, SweepScan, SweepRow
<1>3. ASSUME NEW a \in Agents, AgentNext(a)
      PROVE  UNCHANGED phase
  BY <1>3 DEF AgentNext, AgentClaim, AnswerClaim, AgentHeartbeat, FinishRead, FinishWrite,
    AgentCrash, procVars
<1>4. CASE ProcessNext
  BY <1>4 DEF ProcessNext, Drain, StopRunner, Exit, Crash, Boot, Serve, RecoverRunning,
    RecoverPending, Down, procVars
<1>5. CASE (GraceEnds \/ \E c \in Builds : Quiet(c)) \/ UNCHANGED vars
  BY <1>5 DEF GraceEnds, Quiet, vars, procVars
<1>. QED
  BY <1>1, <1>2, <1>3, <1>4, <1>5 DEF Next

(* Promised cancels are held, by the registry, the flag or the outcome.    *)
LEMMA PromisesKept ==
  ASSUME IInv, GapInv, OrphanInv, FlagInv, PromiseInv, OrphanInv', Next \/ UNCHANGED vars
  PROVE  PromiseInv'
<1>1. /\ TypeOK /\ HandlerInv /\ RunnerInv /\ CauseInv /\ RestInv
      /\ IInv' /\ RestInv'
  BY NextInv, RestKept DEF IInv, GapInv
<1>. SUFFICES ASSUME phase' # "stopping"
              PROVE  /\ \A b \in promised' : CancelHeld(b)'
                     /\ \A h \in Handlers :
                          handler'[h].op = "check" => CancelHeld(handler[h].b)'
  BY DEF PromiseInv, CancelLands
<1>2. phase = "stopping" => phase' = "down"
  BY PhaseSteps
<1>3. ASSUME NEW b \in promised'
      PROVE  CancelHeld(b)'
  <2>1. b \in Builds
    BY <1>1 DEF IInv, TypeOK
  <2>2. CASE b \in cancelReq'
    BY <2>2, FlagHeld
  <2>3. CASE b \notin cancelReq'
    <3>1. /\ phase = "down" \/ phase' # "down"
          /\ b \in promised \/ \E h \in Handlers : handler[h].op = "check" /\ handler[h].b = b
      BY <1>1, <2>3, PromiseSteps
    <3>2. CancelHeld(b)
      BY <1>2, <3>1 DEF PromiseInv, CancelLands
    <3>. QED
      BY <2>1, <3>1, <3>2, HeldStays
  <2>. QED
    BY <2>2, <2>3
<1>4. ASSUME NEW h \in Handlers, handler'[h].op = "check"
      PROVE  CancelHeld(handler[h].b)'
  <2>1. phase' # "down" /\ phase # "stopping"
    BY <1>1, <1>2, <1>4 DEF RestInv, Live, Idle
  <2>2. CASE handler'[h] = handler[h]
    <3>1. PICK b \in Builds : b = handler[h].b
      BY <1>1, <1>4, <2>2 DEF HandlerInv
    <3>2. CancelHeld(b)
      BY <1>4, <2>1, <2>2, <3>1 DEF PromiseInv
    <3>3. CancelHeld(b)'
      BY <2>1, <3>2, HeldStays
    <3>4. handler'[h].b = b
      BY <2>2, <3>1
    <3>. QED
      BY <3>3, <3>4 DEF CancelHeld
  <2>3. CASE /\ current = handler[h].b /\ handler'[h].b = handler[h].b
             /\ handler[h].op = "registry"
             /\ cause' = IF cause = None THEN "user" ELSE cause
             /\ UNCHANGED <<current, rpc, status, phase>>
    <3>1. handler[h].b \in Builds
      BY <1>1, <2>3 DEF HandlerInv
    <3>2. cause' = "user"
      BY <1>1, <2>1, <2>3 DEF CauseInv, TypeOK
    <3>3. rpc = "leaving" => job = current /\ status[job] \in Terminal
      BY <1>1, <2>1 DEF RunnerInv, OrphanInv
    <3>. QED
      BY <2>3, <3>1, <3>2, <3>3 DEF CancelHeld
  <2>. QED
    BY <1>1, <1>4, <2>2, <2>3, CheckFollows
<1>. QED
  BY <1>3, <1>4

-------------------------------------------------------------------------------
(* No local build is stranded *)

Dispatching(h, b) ==
  handler[h].op = "dispatch" /\ handler[h].b = b /\ ~Remote(handler[h].cfg)

TakenUp(b) == rpc \in {"taken", "registered"} /\ job = b

(* While no edit adopts builds, a build is in hand of the runner or of the *)
(* handler that created it.                                                *)
LEMMA HandsOfTwo ==
  ASSUME HandlerAgreesInv, NEW b \in Builds
  PROVE  InHand(b) <=> TakenUp(b) \/ \E h \in Handlers : Dispatching(h, b)
  BY DEF HandlerAgreesInv, HandlerAgrees, InHand, TakenUp, Dispatching

(* A handler that has a build to hand over keeps it until it does so.      *)
LEMMA DispatchWaits ==
  ASSUME TypeOK, HandlerInv, Next \/ UNCHANGED vars, phase' # "down",
         NEW h \in Handlers, NEW b \in Builds, Dispatching(h, b)
  PROVE  Dispatching(h, b)' \/ Enqueue(b)
<1>1. ASSUME handler'[h] = handler[h]
      PROVE  Dispatching(h, b)'
  BY <1>1 DEF Dispatching
<1>2. ASSUME NEW g \in Handlers, HandlerNext(g)
      PROVE  handler'[h] = handler[h] \/ Enqueue(b)
  <2>1. CASE g = h
    <3>1. handler[h].op = "dispatch" /\ handler[h] # Idle
      BY DEF Dispatching, Idle
    <3>2. /\ \A p \in Projects : ~TriggerRead(h, p) /\ ~UpdateRead(h, p)
          /\ \A c \in Builds : CancelPending(h, c) => FALSE
      BY <3>1 DEF TriggerRead, UpdateRead, CancelPending, Start
    <3>3. Dispatch(h)
      BY <1>2, <2>1, <3>1, <3>2 DEF HandlerNext, CreateBuild, UpdateWrite, UpdateAdopt,
        UpdateEnqueue, CancelCurrent, CancelCheck, CancelLookup, CancelFlag
    <3>. QED
      BY <3>3 DEF Dispatch, Dispatching
  <2>2. CASE g # h
    <3>1. ASSUME NEW r, Becomes(g, r)
          PROVE  handler'[h] = handler[h]
      BY <2>2, <3>1 DEF Becomes, TypeOK
    <3>. QED
      BY <1>2, <3>1 DEF HandlerNext, TriggerRead, UpdateRead, CreateBuild, Dispatch, UpdateWrite,
        UpdateAdopt, UpdateEnqueue, EnqueueNext, CancelPending, CancelCurrent, CancelCheck,
        CancelLookup, CancelFlag, Start, Continue, Return
  <2>. QED
    BY <2>1, <2>2
<1>3. CASE RunnerNext \/ JanitorNext
  BY <1>1, <1>3 DEF RunnerNext, RunnerTake, RunnerRegister, ClaimBuild, RunBuild, EndBuild,
    RunnerLeave, RunnerExit, JanitorNext, SweepScan, SweepRow
<1>4. ASSUME NEW a \in Agents, AgentNext(a)
      PROVE  UNCHANGED handler
  BY <1>4 DEF AgentNext, AgentClaim, AnswerClaim, AgentHeartbeat, FinishRead, FinishWrite,
    AgentCrash, procVars
<1>5. CASE ProcessNext
  BY <1>1, <1>5 DEF ProcessNext, Drain, StopRunner, Exit, Crash, Boot, Serve, RecoverRunning,
    RecoverPending, Down, procVars
<1>6. CASE (GraceEnds \/ \E c \in Builds : Quiet(c)) \/ UNCHANGED vars
  BY <1>1, <1>6 DEF GraceEnds, Quiet, vars, procVars
<1>. QED
  BY <1>1, <1>2, <1>3, <1>4, <1>5, <1>6 DEF Next

(* What is on the channel stays there until the runner takes it.           *)
LEMMA QueueStays ==
  ASSUME IInv, HandlerAgreesInv, Next \/ UNCHANGED vars, phase' # "down", NEW b \in Builds,
         InQueue(b)
  PROVE  InQueue(b)' \/ TakenUp(b)'
<1>1. TypeOK /\ HandlerInv
  BY DEF IInv
<1>2. ASSUME UNCHANGED queue
      PROVE  InQueue(b)'
  BY <1>2 DEF InQueue
<1>3. ASSUME NEW h \in Handlers, HandlerNext(h)
      PROVE  InQueue(b)'
  <2>1. CASE Dispatch(h)
    <3>1. handler[h].b \in Builds
      BY <1>1, <2>1 DEF Dispatch, HandlerInv
    <3>. QED
      BY <1>1, <1>2, <2>1, <3>1, EnqueueSends DEF Dispatch
  <2>2. CASE UpdateEnqueue(h)
    BY <2>2 DEF UpdateEnqueue, HandlerAgreesInv, HandlerAgrees
  <2>. QED
    BY <1>2, <1>3, <2>1, <2>2 DEF HandlerNext, TriggerRead, UpdateRead, CreateBuild,
      UpdateWrite, UpdateAdopt, CancelPending, CancelCurrent, CancelCheck, CancelLookup,
      CancelFlag
<1>4. CASE RunnerNext \/ JanitorNext
  <2>1. CASE RunnerTake
    BY <1>1, <2>1, InQueueAfterTake DEF RunnerTake, TakenUp
  <2>. QED
    BY <1>2, <1>4, <2>1 DEF RunnerNext, RunnerRegister, ClaimBuild, RunBuild, EndBuild,
      RunnerLeave, RunnerExit, JanitorNext, SweepScan, SweepRow
<1>5. ASSUME NEW a \in Agents, AgentNext(a)
      PROVE  UNCHANGED queue
  BY <1>5 DEF AgentNext, AgentClaim, AnswerClaim, AgentHeartbeat, FinishRead, FinishWrite,
    AgentCrash, procVars
<1>6. CASE ProcessNext
  <2>1. ASSUME NEW c \in Builds, RecoverPending(c)
        PROVE  InQueue(b)'
    BY <1>1, <2>1, EnqueueSends DEF RecoverPending
  <2>. QED
    BY <1>2, <1>6, <2>1 DEF ProcessNext, Drain, StopRunner, Exit, Crash, Boot, Serve, Down,
      RecoverRunning, procVars
<1>7. CASE (GraceEnds \/ \E c \in Builds : Quiet(c)) \/ UNCHANGED vars
  BY <1>2, <1>7 DEF GraceEnds, Quiet, vars, procVars
<1>. QED
  BY <1>2, <1>3, <1>4, <1>5, <1>6, <1>7 DEF Next

(* What the runner has taken it claims, unless the claim cannot be         *)
(* written.                                                                *)
LEMMA TakenStays ==
  ASSUME IInv, Next \/ UNCHANGED vars, phase' # "down", Faults = FALSE, NEW b \in Builds,
         TakenUp(b), status'[b] = "pending"
  PROVE  TakenUp(b)'
<1>1. TypeOK
  BY DEF IInv
<1>2. ASSUME NEW h \in Handlers, HandlerNext(h)
      PROVE  UNCHANGED <<rpc, job>>
  BY <1>2 DEF HandlerNext, TriggerRead, UpdateRead, CreateBuild, Dispatch, UpdateWrite,
    UpdateAdopt, UpdateEnqueue, CancelPending, CancelCurrent, CancelCheck, CancelLookup,
    CancelFlag, runnerVars
<1>3. CASE RunnerNext
  <2>1. CASE ClaimBuild
    BY <1>1, <2>1 DEF ClaimBuild, Set, TypeOK, TakenUp
  <2>. QED
    BY <1>3, <2>1 DEF RunnerNext, RunnerTake, RunnerRegister, RunBuild, EndBuild, RunnerLeave,
      RunnerExit, TakenUp
<1>4. CASE JanitorNext
  BY <1>4 DEF JanitorNext, SweepScan, SweepRow, TakenUp, runnerVars
<1>5. ASSUME NEW a \in Agents, AgentNext(a)
      PROVE  UNCHANGED <<rpc, job>>
  BY <1>5 DEF AgentNext, AgentClaim, AnswerClaim, AgentHeartbeat, FinishRead, FinishWrite,
    AgentCrash, procVars, runnerVars
<1>6. CASE ProcessNext
  BY <1>6 DEF ProcessNext, Drain, StopRunner, Exit, Crash, Boot, Serve, RecoverRunning,
    RecoverPending, Down, TakenUp, procVars, runnerVars
<1>7. CASE (GraceEnds \/ \E c \in Builds : Quiet(c)) \/ UNCHANGED vars
  BY <1>7 DEF GraceEnds, Quiet, TakenUp, vars, procVars, runnerVars
<1>. QED
  BY <1>2, <1>3, <1>4, <1>5, <1>6, <1>7 DEF Next, TakenUp

(* A pending local build goes from the handler that created it to the      *)
(* channel, and from there to the runner.                                  *)
LEMMA WaitsKept ==
  ASSUME IInv, CauseInv, HomeInv, HandlerAgreesInv, WaitInv, HandlerAgreesInv',
         Next \/ UNCHANGED vars, ProjectsStayStep, Faults = FALSE
  PROVE  WaitInv'
<1>1. TypeOK /\ HandlerInv /\ RunnerInv /\ AgentInv
  BY DEF IInv
<1>. SUFFICES ASSUME phase' \in {"up", "draining"}, NEW b \in Builds,
                     status'[b] = "pending", ~RemoteBuild(b)'
              PROVE  InQueue(b)' \/ InHand(b)'
  BY DEF WaitInv
<1>2. InHand(b)' <=> TakenUp(b)' \/ \E h \in Handlers : Dispatching(h, b)'
  BY DEF HandlerAgreesInv, HandlerAgrees, InHand, TakenUp, Dispatching
<1>3. CASE Serve
  <2>1. status[b] = "pending" /\ ~Remote(ConfigOf(b)) => InQueue(b)
    BY <1>3 DEF Serve, Unqueued
  <2>2. UNCHANGED <<status, project, config, queue>>
    BY <1>3 DEF Serve, dbVars
  <2>. QED
    BY <2>1, <2>2 DEF RemoteBuild, ConfigOf, InQueue
<1>4. CASE ~Serve
  <2>1. phase \in {"up", "draining"}
    BY <1>4, PhaseSteps
  <2>2. status[b] \in {"none", "pending"}
    BY <2>1, BegunStays DEF Begun
  <2>3. CASE status[b] = "none"
    <3>1. PICK h \in Handlers : handler'[h].op = "dispatch" /\ handler'[h].b = b
      BY <1>1, <2>3, RowsStay
    <3>2. Remote(handler'[h].cfg) = RemoteBuild(b)'
      BY <3>1 DEF HandlerAgreesInv, HandlerAgrees, RemoteBuild, ConfigOf
    <3>3. Dispatching(h, b)'
      BY <3>1, <3>2 DEF Dispatching
    <3>. QED
      BY <1>2, <3>3
  <2>4. CASE status[b] = "pending"
    <3>1. ~RemoteBuild(b)
      BY <2>4, HomesStay
    <3>2. InQueue(b) \/ TakenUp(b) \/ \E h \in Handlers : Dispatching(h, b)
      BY <2>1, <2>4, <3>1, HandsOfTwo DEF WaitInv
    <3>3. CASE InQueue(b)
      BY <1>2, <3>3, QueueStays
    <3>4. CASE TakenUp(b)
      BY <1>2, <3>4, TakenStays
    <3>5. ASSUME NEW h \in Handlers, Dispatching(h, b)
          PROVE  InQueue(b)' \/ InHand(b)'
      BY <1>1, <1>2, <3>5, DispatchWaits, EnqueueSends
    <3>. QED
      BY <3>2, <3>3, <3>4, <3>5
  <2>. QED
    BY <2>2, <2>3, <2>4
<1>. QED
  BY <1>3, <1>4

-------------------------------------------------------------------------------
(* The promises *)

(* While no project moves and no write of the runner fails, SInv is an     *)
(* invariant.                                                              *)
LEMMA ServiceInvariance ==
  ASSUME Faults = FALSE
  PROVE  Spec /\ ProjectsStay => []SInv
<1>1. ASSUME IInv, GapInv, SInv, [Next]_vars, [ProjectsStayStep]_vars
      PROVE  SInv'
  <2>1. ProjectsStayStep
    BY <1>1 DEF ProjectsStayStep, vars, dbVars
  <2>2. Next \/ UNCHANGED vars
    BY <1>1
  <2>3. HandlerAgreesInv' /\ HomeInv' /\ OrphanInv' /\ FlagInv'
    BY <1>1, <2>1, <2>2, AgreesKept, HomesKept, OrphansKept, FlagsKept DEF SInv, GapInv
  <2>4. PromiseInv' /\ WaitInv'
    BY <1>1, <2>1, <2>2, <2>3, PromisesKept, WaitsKept DEF SInv, GapInv
  <2>. QED
    BY <2>3, <2>4 DEF SInv
<1>2. Init => SInv
  BY InitService
<1>3. IInv /\ GapInv /\ SInv /\ [Next]_vars /\ [ProjectsStayStep]_vars => SInv'
  BY <1>1
<1>. QED
  BY <1>2, <1>3, Invariance, GapInvariance, PTL DEF Spec, ProjectsStay

(* A cancel that was answered 202 lands, for every number of builds,       *)
(* handlers and agents, as long as the database takes the runner's writes  *)
(* and no project is moved between the runner and the agents while the     *)
(* cancel is under way.                                                    *)
THEOREM CancelsLand ==
  ASSUME Faults = FALSE
  PROVE  Spec /\ ProjectsStay => []CancelLandsInService
<1>1. SInv => CancelLandsInService
  BY DEF SInv, PromiseInv, CancelLandsInService
<1>. QED
  BY <1>1, ServiceInvariance, PTL

(* Under the same conditions, a pending build of a local project is on the *)
(* channel or in somebody's hands whenever the server is up, whatever the  *)
(* capacity of the channel.                                                *)
THEOREM NobodyStranded ==
  ASSUME Faults = FALSE
  PROVE  Spec /\ ProjectsStay => []NoBuildStranded
<1>1. SInv => NoBuildStranded
  BY DEF SInv, WaitInv, NoBuildStranded, RemoteBuild
<1>. QED
  BY <1>1, ServiceInvariance, PTL
===============================================================================
