------------------------------ MODULE BuildQueue ------------------------------
(***************************************************************************)
(* The build queue of the server: the builds table, the in-memory channel  *)
(* to the local runner, the runner's loop and its cancel registry, the     *)
(* janitor that sweeps stale rows, the HTTP handlers that create, move and *)
(* cancel builds, the protocol by which remote agents claim and finish     *)
(* them, and the restarts of the server process.                           *)
(*                                                                         *)
(* SQLite runs on one connection, so a statement or a transaction is one   *)
(* step.  A handler that issues several statements takes one step for each *)
(* and anything may happen in between.                                     *)
(***************************************************************************)
EXTENDS Integers, Sequences

CONSTANTS
  MaxBuilds,    (* bound: rows the builds table may hold                   *)
  Projects,     (* rows of the projects table                              *)
  Configs,      (* executor settings an edit may give a project            *)
  Agents,       (* remote build agents                                     *)
  Serves,       (* Serves[a]: the executors agent a asks for               *)
  Handlers,     (* HTTP handlers (or the poller) in flight at a time       *)
  Capacity,     (* capacity of the build channel, 100 in main              *)
  MaxRequeues,  (* models.MaxBuildRequeues                                 *)
  Faults,       (* whether the database may refuse a write of the runner   *)
  None

Builds == 1 .. MaxBuilds

ASSUME ConstantsOK ==
  /\ MaxBuilds \in Nat
  /\ MaxRequeues \in Nat
  /\ Capacity \in Nat
  /\ Faults \in BOOLEAN
  /\ None \notin Builds /\ None \notin Agents
  /\ None \notin Projects /\ None \notin Configs
  /\ None \notin {"success", "failed", "canceled", "requeue", "user", "shutdown"}

(* validExecutorProfiles: an allowlist only makes sense on a remote        *)
(* project.                                                                *)
ASSUME ConfigsOK ==
  \A c \in Configs : c.profiles # {} => c.executor # "local"

VARIABLES
  (* the database *)
  status,       (* builds.status, "none" before the row exists             *)
  owner,        (* builds.agent, None for the local runner                 *)
  requeues,     (* builds.requeues                                         *)
  cancelReq,    (* builds with builds.cancel_requested set                 *)
  quiet,        (* builds whose last_heartbeat_at is a TTL or more ago     *)
  project,      (* builds.project_id                                       *)
  config,       (* projects.executor and projects.executor_profiles        *)
  (* the server process *)
  phase,        (* what the process is doing                               *)
  grace,        (* less than a TTL has passed since the runner's startedAt *)
  queue,        (* the build channel                                       *)
  rpc,          (* where the runner's loop is                              *)
  job,          (* the build the loop has taken off the channel            *)
  current,      (* Runner.currentID                                        *)
  cause,        (* context.Cause of the registered build's context         *)
  verdict,      (* how the attempt ended, once its commands are over       *)
  sweep,        (* rows the janitor still has to visit, Runner.mu held     *)
  handler,      (* the HTTP handlers in flight                             *)
  promised,     (* builds whose cancel was answered 202 (an observer)      *)
  (* the agents *)
  apc,          (* what each agent is doing                                *)
  work,         (* the build it does it for                                *)
  report        (* the outcome it is reporting                             *)

dbVars     == <<status, owner, requeues, cancelReq, quiet, project, config>>
runnerVars == <<rpc, job, current, cause, verdict>>
agentVars  == <<apc, work, report>>
procVars   == <<phase, grace, queue, runnerVars, sweep, handler>>
vars       == <<dbVars, procVars, promised, agentVars>>

-------------------------------------------------------------------------------
(* Values *)

Terminal == {"success", "failed", "canceled"}
Statuses == {"none", "pending", "running"} \cup Terminal

(* A process that has read its database back and not yet exited.  Shutdown *)
(* only closes the listener: requests in flight go on while the runner is  *)
(* stopped, and are cut off when the process ends.                         *)
Live == {"up", "draining", "stopping"}

Remote(c) == c.executor # "local"

(* Who may claim a project's builds: a nonempty profile map is the         *)
(* allowlist, otherwise the primary executor must match.                   *)
Eligible(a, c) ==
  /\ Remote(c)
  /\ IF c.profiles # {}
     THEN c.profiles \cap Serves[a] # {}
     ELSE c.executor \in Serves[a]

ConfigOf(b) == config[project[b]]

(* AgentStale: no heartbeat for a TTL, measured from the start of this     *)
(* process when that is later.                                             *)
AgentStale(b) == b \in quiet /\ ~grace

InQueue(b) == \E i \in 1 .. Len(queue) : queue[i] = b

OwnedRunning(b, a) == status[b] = "running" /\ owner[b] = a

Idle == [op |-> "idle", p |-> None, b |-> None, cfg |-> None, todo |-> {}]

Set(b, s) == status' = [status EXCEPT ![b] = s]

Init ==
  /\ status    = [b \in Builds |-> "none"]
  /\ owner     = [b \in Builds |-> None]
  /\ requeues  = [b \in Builds |-> 0]
  /\ cancelReq = {}
  /\ quiet     = {}
  /\ project   = [b \in Builds |-> None]
  /\ config \in [Projects -> Configs]
  /\ phase     = "up"
  /\ grace     = TRUE
  /\ queue     = <<>>
  /\ rpc       = "idle"
  /\ job       = None
  /\ current   = None
  /\ cause     = None
  /\ verdict   = None
  /\ sweep     = {}
  /\ handler   = [h \in Handlers |-> Idle]
  /\ promised  = {}
  /\ apc       = [a \in Agents |-> "idle"]
  /\ work      = [a \in Agents |-> None]
  /\ report    = [a \in Agents |-> None]

-------------------------------------------------------------------------------
(* Creating a build.  The trigger, re-run and webhook handlers and the     *)
(* poller all read the project, insert the row and hand it to whoever runs *)
(* it, deciding that by the project they read first.                       *)

Becomes(h, r) == handler' = [handler EXCEPT ![h] = r]
Continue(h, op) == Becomes(h, [handler[h] EXCEPT !.op = op])
Return(h) == Becomes(h, Idle)

Start(h, r) ==
  /\ phase = "up"
  /\ handler[h] = Idle
  /\ Becomes(h, r)

TriggerRead(h, p) ==
  /\ \E b \in Builds : status[b] = "none"
  /\ Start(h, [Idle EXCEPT !.op = "create", !.p = p, !.cfg = config[p]])
  /\ UNCHANGED <<dbVars, phase, grace, queue, runnerVars, sweep, promised, agentVars>>

NewBuild(b) == status[b] = "none" /\ \A c \in Builds : c < b => status[c] # "none"

CreateBuild(h) ==
  /\ phase \in Live
  /\ handler[h].op = "create"
  /\ \/ \E b \in Builds :
          /\ NewBuild(b)
          /\ Set(b, "pending")
          /\ project' = [project EXCEPT ![b] = handler[h].p]
          /\ Becomes(h, [handler[h] EXCEPT !.op = "dispatch", !.b = b])
     \/ /\ \A b \in Builds : status[b] # "none"
        /\ Return(h)
        /\ UNCHANGED <<status, project>>
  /\ UNCHANGED <<owner, requeues, cancelReq, quiet, config, phase, grace, queue,
                 runnerVars, sweep, promised, agentVars>>

(* A non-blocking send; a full channel fails the row if it is still        *)
(* pending.  (The mutant drops the build instead.)                         *)
EnqueueOrDrop(b) ==
  /\ queue' = IF Len(queue) < Capacity THEN Append(queue, b) ELSE queue
  /\ UNCHANGED status

Enqueue(b) ==
  IF Len(queue) < Capacity
  THEN /\ queue' = Append(queue, b)
       /\ UNCHANGED status
  ELSE /\ Set(b, IF status[b] = "pending" THEN "failed" ELSE status[b])
       /\ UNCHANGED queue

Dispatch(h) ==
  /\ phase \in Live
  /\ handler[h].op = "dispatch"
  /\ IF Remote(handler[h].cfg)
     THEN UNCHANGED <<status, queue>>
     ELSE Enqueue(handler[h].b)
  /\ Return(h)
  /\ UNCHANGED <<owner, requeues, cancelReq, quiet, project, config, phase, grace,
                 runnerVars, sweep, promised, agentVars>>

-------------------------------------------------------------------------------
(* Editing a project.  The handler reads the row, writes the whole row     *)
(* back, and when that moved the project from a remote executor to the     *)
(* local one it lists the pending builds and sends them to the runner.     *)

UpdateRead(h, p) ==
  /\ Start(h, [Idle EXCEPT !.op = "write", !.p = p, !.cfg = config[p]])
  /\ UNCHANGED <<dbVars, phase, grace, queue, runnerVars, sweep, promised, agentVars>>

UpdateWrite(h, c) ==
  /\ phase \in Live
  /\ handler[h].op = "write"
  /\ config' = [config EXCEPT ![handler[h].p] = c]
  /\ IF ~Remote(c) /\ Remote(handler[h].cfg) THEN Continue(h, "adopt") ELSE Return(h)
  /\ UNCHANGED <<status, owner, requeues, cancelReq, quiet, project, phase, grace, queue,
                 runnerVars, sweep, promised, agentVars>>

EnqueueNext(h, todo) ==
  IF todo = {}
  THEN Return(h)
  ELSE Becomes(h, [handler[h] EXCEPT !.op = "enqueue", !.todo = todo])

PendingOfNobody(p) == {}
PendingOf(p) == {b \in Builds : status[b] = "pending" /\ project[b] = p}

UpdateAdopt(h) ==
  /\ phase \in Live
  /\ handler[h].op = "adopt"
  /\ EnqueueNext(h, PendingOf(handler[h].p))
  /\ UNCHANGED <<dbVars, phase, grace, queue, runnerVars, sweep, promised, agentVars>>

UpdateEnqueue(h) ==
  /\ phase \in Live
  /\ handler[h].op = "enqueue"
  /\ \E b \in handler[h].todo :
       /\ \A c \in handler[h].todo : b <= c
       /\ Enqueue(b)
       /\ EnqueueNext(h, handler[h].todo \ {b})
  /\ UNCHANGED <<owner, requeues, cancelReq, quiet, project, config, phase, grace,
                 runnerVars, sweep, promised, agentVars>>

-------------------------------------------------------------------------------
(* Canceling a build: the pending row first, then the runner's registry,   *)
(* then the flag an agent reads.                                           *)

CancelPending(h, b) ==
  /\ status[b] # "none"
  /\ IF status[b] = "pending"
     THEN /\ phase = "up"
          /\ handler[h] = Idle
          /\ Set(b, "canceled")
          /\ UNCHANGED handler
     ELSE /\ Start(h, [Idle EXCEPT !.op = "registry", !.b = b])
          /\ UNCHANGED status
  /\ UNCHANGED <<owner, requeues, cancelReq, quiet, project, config, phase, grace, queue,
                 runnerVars, sweep, promised, agentVars>>

(* Runner.Cancel, under Runner.mu.  The first cause of a context stays.    *)
CancelCurrent(h) ==
  /\ phase \in Live
  /\ handler[h].op = "registry"
  /\ sweep = {}
  /\ IF current = handler[h].b
     THEN /\ cause' = IF cause = None THEN "user" ELSE cause
          /\ Continue(h, "check")
     ELSE /\ Continue(h, "lookup")
          /\ UNCHANGED cause
  /\ UNCHANGED <<dbVars, phase, grace, queue, rpc, job, current, verdict, sweep, promised,
                 agentVars>>

(* The answer after Runner.Cancel said yes: 409 for a build that has       *)
(* finished otherwise, 202 for the rest.                                   *)
CancelCheck(h) ==
  /\ phase \in Live
  /\ handler[h].op = "check"
  /\ promised' = IF status[handler[h].b] \in {"success", "failed"}
                 THEN promised
                 ELSE promised \cup {handler[h].b}
  /\ Return(h)
  /\ UNCHANGED <<dbVars, phase, grace, queue, runnerVars, sweep, agentVars>>

CancelLookup(h) ==
  /\ phase \in Live
  /\ handler[h].op = "lookup"
  /\ IF status[handler[h].b] = "running" /\ owner[handler[h].b] # None
     THEN Continue(h, "flag")
     ELSE Return(h)
  /\ UNCHANGED <<dbVars, phase, grace, queue, runnerVars, sweep, promised, agentVars>>

(* RequestAgentCancel: the status is tested again in the UPDATE.           *)
CancelFlag(h) ==
  /\ phase \in Live
  /\ handler[h].op = "flag"
  /\ LET b == handler[h].b IN
       IF status[b] = "running" /\ owner[b] # None
       THEN /\ cancelReq' = cancelReq \cup {b}
            /\ promised'  = promised \cup {b}
       ELSE UNCHANGED <<cancelReq, promised>>
  /\ Return(h)
  /\ UNCHANGED <<status, owner, requeues, quiet, project, config, phase, grace, queue,
                 runnerVars, sweep, agentVars>>

-------------------------------------------------------------------------------
(* The local runner: one loop, one build at a time. *)

RunnerTake ==
  /\ phase \in Live
  /\ rpc = "idle"
  /\ queue # <<>>
  /\ job'   = Head(queue)
  /\ queue' = Tail(queue)
  /\ rpc'   = "taken"
  /\ UNCHANGED <<dbVars, phase, grace, current, cause, verdict, sweep, handler, promised,
                 agentVars>>

(* Registered before the claim, so that a cancel finds either the pending  *)
(* row or the registry.  The build's context is a child of the runner's.   *)
(* (The mutant claims first.)                                              *)
ClaimThenRegister ==
  /\ sweep = {}
  /\ \/ /\ rpc = "taken"
        /\ IF status[job] = "pending"
           THEN Set(job, "running") /\ rpc' = "claimed"
           ELSE rpc' = "leaving" /\ UNCHANGED status
        /\ UNCHANGED <<current, cause>>
     \/ /\ rpc = "claimed"
        /\ current' = job
        /\ cause'   = IF phase = "stopping" THEN "shutdown" ELSE None
        /\ rpc'     = "building"
        /\ UNCHANGED status
  /\ UNCHANGED <<owner, requeues, cancelReq, quiet, project, config, phase, grace, queue,
                 job, verdict, sweep, handler, promised, agentVars>>

RunnerRegister ==
  /\ rpc = "taken"
  /\ sweep = {}
  /\ current' = job
  /\ cause'   = IF phase = "stopping" THEN "shutdown" ELSE None
  /\ rpc'     = "registered"
  /\ UNCHANGED <<dbVars, phase, grace, queue, job, verdict, sweep, handler, promised,
                 agentVars>>

(* ClaimBuild is a compare-and-swap on the pending status; a claim that    *)
(* lost, or that could not be written, skips the build.                    *)
ClaimBuild ==
  /\ rpc = "registered"
  /\ \/ /\ status[job] = "pending"
        /\ Set(job, "running")
        /\ rpc' = "building"
     \/ /\ status[job] # "pending" \/ Faults
        /\ rpc' = "leaving"
        /\ UNCHANGED status
  /\ UNCHANGED <<owner, requeues, cancelReq, quiet, project, config, phase, grace, queue,
                 job, current, cause, verdict, sweep, handler, promised, agentVars>>

(* The commands are over.  A context with a cause kills the command that   *)
(* runs, and the cause outranks the command's error: a cancel is not a     *)
(* failure, and a build stopped by a shutdown goes back to the queue.  A   *)
(* project that cannot be read fails the build before any command runs.    *)
(* (The mutant asks whether the context is canceled, and not why.)         *)
RequeueWhateverTheCause ==
  /\ rpc = "building"
  /\ \/ cause = None  /\ verdict' \in {"success", "failed"}
     \/ cause # None  /\ verdict' = "requeue"
  /\ rpc' = "ending"
  /\ UNCHANGED <<dbVars, phase, grace, queue, job, current, cause, sweep, handler, promised,
                 agentVars>>

RunBuild ==
  /\ rpc = "building"
  /\ \/ cause = None       /\ verdict' \in {"success", "failed"}
     \/ cause = "user"     /\ verdict' = "canceled"
     \/ cause = "shutdown" /\ verdict' = "requeue"
     \/ Faults             /\ verdict' = "failed"
  /\ rpc' = "ending"
  /\ UNCHANGED <<dbVars, phase, grace, queue, job, current, cause, sweep, handler, promised,
                 agentVars>>

(* The server's own running rows, and those with a re-queue left.          *)
InterruptedAnyone(b) == status[b] = "running"
Interrupted(b) == status[b] = "running" /\ owner[b] = None

MayRequeueOnceMore(b) == Interrupted(b) /\ requeues[b] <= MaxRequeues
MayRequeue(b) == Interrupted(b) /\ requeues[b] < MaxRequeues

(* finish and RequeueBuildWithNote.  A write that fails leaves the row as  *)
(* it is, for the janitor or the next start of the server.                 *)
EndBuild ==
  /\ rpc = "ending"
  /\ rpc' = "leaving"
  /\ \/ /\ verdict = "requeue"
        /\ MayRequeue(job)
        /\ Set(job, "pending")
        /\ requeues' = [requeues EXCEPT ![job] = @ + 1]
     \/ /\ verdict = "requeue"
        /\ ~MayRequeue(job)
        /\ Set(job, "failed")
        /\ UNCHANGED requeues
     \/ /\ verdict # "requeue"
        /\ Set(job, verdict)
        /\ UNCHANGED requeues
     \/ /\ Faults
        /\ UNCHANGED <<status, requeues>>
  /\ UNCHANGED <<owner, cancelReq, quiet, project, config, phase, grace, queue, job, current,
                 cause, verdict, sweep, handler, promised, agentVars>>

RunnerLeave ==
  /\ rpc = "leaving"
  /\ sweep = {}
  /\ rpc'     = "idle"
  /\ job'     = None
  /\ current' = None
  /\ cause'   = None
  /\ verdict' = None
  /\ UNCHANGED <<dbVars, phase, grace, queue, sweep, handler, promised, agentVars>>

RunnerExit ==
  /\ phase = "stopping"
  /\ rpc = "idle"
  /\ rpc' = "exited"
  /\ UNCHANGED <<dbVars, phase, grace, queue, job, current, cause, verdict, sweep, handler,
                 promised, agentVars>>

-------------------------------------------------------------------------------
(* The janitor.  SweepStale holds Runner.mu from the scan to the last row, *)
(* so nothing is registered or unregistered meanwhile; but agents go on    *)
(* talking to the database, and every row is read again before it is       *)
(* failed.                                                                 *)

StaleLocally(b) == status[b] = "running" /\ owner[b] = None
Stale(b) ==
  /\ status[b] = "running"
  /\ owner[b] = None \/ AgentStale(b)

SweepableAll == {b \in Builds : Stale(b)}
Sweepable == {b \in Builds \ {current} : Stale(b)}

SweepScan ==
  /\ phase \in Live
  /\ sweep = {}
  /\ sweep' = Sweepable
  /\ sweep' # {}
  /\ UNCHANGED <<dbVars, phase, grace, queue, runnerVars, handler, promised, agentVars>>

NotReadAgain(b) == TRUE
StillStale(b) == Stale(b)

(* A transaction that fails ends the sweep with the rows it has done.      *)
SweepRow ==
  /\ \/ \E b \in sweep :
          /\ \A c \in sweep : b <= c
          /\ Set(b, IF StillStale(b) THEN "failed" ELSE status[b])
          /\ sweep' = sweep \ {b}
     \/ /\ Faults
        /\ sweep # {}
        /\ sweep' = {}
        /\ UNCHANGED status
  /\ UNCHANGED <<owner, requeues, cancelReq, quiet, project, config, phase, grace, queue,
                 runnerVars, handler, promised, agentVars>>

-------------------------------------------------------------------------------
(* Agents.  A request is only accepted by a process that is up; a long     *)
(* poll accepted earlier may still claim while the process shuts down.     *)

(* ClaimBuildForAgent: the oldest pending build the agent may have.        *)
ClaimableTwice(a, b) == status[b] \in {"pending", "running"} /\ Eligible(a, ConfigOf(b))
Claimable(a, b) == status[b] = "pending" /\ Eligible(a, ConfigOf(b))

AgentClaim(a) ==
  /\ phase \in Live
  /\ apc[a] = "idle"
  /\ \E b \in Builds :
       /\ Claimable(a, b)
       /\ \A c \in Builds : c < b => ~Claimable(a, c)
       /\ Set(b, "running")
       /\ owner'     = [owner EXCEPT ![b] = a]
       /\ quiet'     = quiet \ {b}
       /\ cancelReq' = cancelReq \ {b}
       /\ work'      = [work EXCEPT ![a] = b]
  /\ apc' = [apc EXCEPT ![a] = "claimed"]
  /\ UNCHANGED <<requeues, project, config, procVars, promised, report>>

AgentForgets(a) ==
  /\ apc'    = [apc EXCEPT ![a] = "idle"]
  /\ work'   = [work EXCEPT ![a] = None]
  /\ report' = [report EXCEPT ![a] = None]

(* The rest of the claim handler: the project is read again, and a build   *)
(* whose project the agent may no longer run is failed.  An answer that is *)
(* lost leaves a running row nobody works on.                              *)
AnswerClaim(a) ==
  /\ phase \in Live
  /\ apc[a] = "claimed"
  /\ \/ /\ Eligible(a, ConfigOf(work[a]))
        /\ \/ /\ apc' = [apc EXCEPT ![a] = "building"]
              /\ UNCHANGED <<work, report>>
           \/ AgentForgets(a)
        /\ UNCHANGED status
     \/ /\ ~Eligible(a, ConfigOf(work[a]))
        /\ Set(work[a], "failed")
        /\ AgentForgets(a)
  /\ UNCHANGED <<owner, requeues, cancelReq, quiet, project, config, procVars, promised>>

(* HeartbeatBuild, by a heartbeat or a log upload: it returns the cancel   *)
(* flag and leaves it set.  An agent that is told the build is no longer   *)
(* its own stops.                                                          *)
TellOnce(b) == quiet' = quiet \ {b} /\ cancelReq' = cancelReq \ {b}
Beat(b)     == quiet' = quiet \ {b} /\ UNCHANGED cancelReq

AgentHeartbeat(a) ==
  /\ phase = "up"
  /\ apc[a] = "building"
  /\ IF OwnedRunning(work[a], a)
     THEN /\ Beat(work[a])
          /\ UNCHANGED agentVars
     ELSE /\ AgentForgets(a)
          /\ UNCHANGED <<quiet, cancelReq>>
  /\ UNCHANGED <<status, owner, requeues, project, config, procVars, promised>>

(* handleAgentFinish reads the row first, and answers a build that is      *)
(* settled or not this agent's without writing.                            *)
FinishRead(a, s) ==
  /\ phase = "up"
  /\ apc[a] = "building"
  /\ IF OwnedRunning(work[a], a)
     THEN /\ apc'    = [apc EXCEPT ![a] = "finishing"]
          /\ report' = [report EXCEPT ![a] = s]
          /\ UNCHANGED work
     ELSE AgentForgets(a)
  /\ UNCHANGED <<dbVars, procVars, promised>>

(* FinishAgentBuild, a compare-and-swap against the janitor.  An agent     *)
(* whose answer was lost still believes it has to report.                  *)
FinishWrite(a) ==
  /\ phase \in Live
  /\ apc[a] = "finishing"
  /\ Set(work[a], IF OwnedRunning(work[a], a) THEN report[a] ELSE status[work[a]])
  /\ \/ AgentForgets(a)
     \/ /\ apc'    = [apc EXCEPT ![a] = "building"]
        /\ report' = [report EXCEPT ![a] = None]
        /\ UNCHANGED work
  /\ UNCHANGED <<owner, requeues, cancelReq, quiet, project, config, procVars, promised>>

AgentCrash(a) ==
  /\ apc[a] = "building"
  /\ AgentForgets(a)
  /\ UNCHANGED <<dbVars, procVars, promised>>

-------------------------------------------------------------------------------
(* Time *)

Quiet(b) ==
  /\ status[b] = "running" /\ owner[b] # None
  /\ quiet' = quiet \cup {b}
  /\ UNCHANGED <<status, owner, requeues, cancelReq, project, config, procVars, promised,
                 agentVars>>

GraceEnds ==
  /\ phase \in Live
  /\ grace' = FALSE
  /\ UNCHANGED <<dbVars, phase, queue, runnerVars, sweep, handler, promised, agentVars>>

-------------------------------------------------------------------------------
(* The process *)

(* SIGTERM: the listener closes and the poller stops ...                   *)
Drain ==
  /\ phase = "up"
  /\ phase' = "draining"
  /\ UNCHANGED <<dbVars, grace, queue, runnerVars, sweep, handler, promised, agentVars>>

(* ... and then the runner's context is canceled.                          *)
StopRunner ==
  /\ phase = "draining"
  /\ phase' = "stopping"
  /\ cause' = IF current # None /\ cause = None THEN "shutdown" ELSE cause
  /\ UNCHANGED <<dbVars, grace, queue, rpc, job, current, verdict, sweep, handler, promised,
                 agentVars>>

(* The end of the process, with everything it held in memory.  Requests in *)
(* flight are cut: a claim is never heard of, a report will be repeated.   *)
(* Promises kept in memory go with it.                                     *)
Down ==
  /\ phase'    = "down"
  /\ queue'    = <<>>
  /\ rpc'      = "idle"
  /\ job'      = None
  /\ current'  = None
  /\ cause'    = None
  /\ verdict'  = None
  /\ sweep'    = {}
  /\ handler'  = [h \in Handlers |-> Idle]
  /\ promised' = promised \cap cancelReq
  /\ apc'      = [a \in Agents |-> CASE apc[a] = "claimed"   -> "idle"
                                     [] apc[a] = "finishing" -> "building"
                                     [] OTHER                -> apc[a]]
  /\ work'     = [a \in Agents |-> IF apc[a] = "claimed" THEN None ELSE work[a]]
  /\ report'   = [a \in Agents |-> None]
  /\ UNCHANGED <<dbVars, grace>>

Exit ==
  /\ phase = "stopping"
  /\ rpc = "exited"
  /\ sweep = {}
  /\ Down

Crash ==
  /\ phase # "down"
  /\ Down

Boot ==
  /\ phase = "down"
  /\ phase' = "recovering"
  /\ grace' = TRUE
  /\ UNCHANGED <<dbVars, queue, runnerVars, sweep, handler, promised, agentVars>>

(* recoverOrphanedBuilds runs before the runner and the listener.  Local   *)
(* rows that were running go back to the queue, or are failed when they    *)
(* have used their re-queues up; agents' rows are left alone, because no   *)
(* heartbeat can be a TTL older than this moment.                          *)
RecoverRunning(b) ==
  /\ phase = "recovering"
  /\ Interrupted(b)
  /\ IF MayRequeue(b)
     THEN /\ Set(b, "pending")
          /\ requeues' = [requeues EXCEPT ![b] = @ + 1]
     ELSE /\ Set(b, "failed")
          /\ UNCHANGED requeues
  /\ UNCHANGED <<owner, cancelReq, quiet, project, config, procVars, promised, agentVars>>

(* Then every pending local row is put on the channel, oldest first.       *)
Unqueued(b) == status[b] = "pending" /\ ~Remote(ConfigOf(b)) /\ ~InQueue(b)

RecoverPending(b) ==
  /\ phase = "recovering"
  /\ \A c \in Builds : ~Interrupted(c)
  /\ Unqueued(b)
  /\ \A c \in Builds : c < b => ~Unqueued(c)
  /\ Enqueue(b)
  /\ UNCHANGED <<owner, requeues, cancelReq, quiet, project, config, phase, grace, runnerVars,
                 sweep, handler, promised, agentVars>>

Serve ==
  /\ phase = "recovering"
  /\ \A b \in Builds : ~Interrupted(b) /\ ~Unqueued(b)
  /\ phase' = "up"
  /\ UNCHANGED <<dbVars, grace, queue, runnerVars, sweep, handler, promised, agentVars>>

-------------------------------------------------------------------------------
(* The specification *)

HandlerNext(h) ==
  \/ \E p \in Projects : TriggerRead(h, p) \/ UpdateRead(h, p)
  \/ CreateBuild(h)
  \/ Dispatch(h)
  \/ \E c \in Configs : UpdateWrite(h, c)
  \/ UpdateAdopt(h)
  \/ UpdateEnqueue(h)
  \/ \E b \in Builds : CancelPending(h, b)
  \/ CancelCurrent(h)
  \/ CancelCheck(h)
  \/ CancelLookup(h)
  \/ CancelFlag(h)

RunnerNext ==
  \/ RunnerTake \/ RunnerRegister \/ ClaimBuild \/ RunBuild \/ EndBuild \/ RunnerLeave
  \/ RunnerExit

JanitorNext == SweepScan \/ SweepRow

AgentNext(a) ==
  \/ AgentClaim(a)
  \/ AnswerClaim(a)
  \/ AgentHeartbeat(a)
  \/ \E s \in Terminal : FinishRead(a, s)
  \/ FinishWrite(a)
  \/ AgentCrash(a)

ProcessNext ==
  \/ Drain \/ StopRunner \/ Exit \/ Crash \/ Boot \/ Serve
  \/ \E b \in Builds : RecoverRunning(b) \/ RecoverPending(b)

Next ==
  \/ \E h \in Handlers : HandlerNext(h)
  \/ RunnerNext
  \/ JanitorNext
  \/ \E a \in Agents : AgentNext(a)
  \/ ProcessNext
  \/ GraceEnds
  \/ \E b \in Builds : Quiet(b)

Spec == Init /\ [][Next]_vars

(* What the liveness properties assume. A process that stays up goes on    *)
(* scheduling its goroutines; Go's mutex does not starve a waiter, hence   *)
(* strong fairness for the two steps that wait for Runner.mu; commands end *)
(* by themselves or at the build timeout; the database does not refuse the *)
(* janitor for ever (strong fairness again); clocks advance; an agent that *)
(* still works on a build reports it sooner or later. Nothing obliges an   *)
(* agent to claim, to heartbeat or to survive, or the server to start.     *)
HandlerStep(h) ==
  \/ CreateBuild(h) \/ Dispatch(h) \/ UpdateAdopt(h) \/ UpdateEnqueue(h)
  \/ \E c \in Configs : UpdateWrite(h, c)

Fairness ==
  /\ \A h \in Handlers : WF_vars(HandlerStep(h))
  /\ WF_vars(RunnerNext)
  /\ SF_vars(RunnerRegister) /\ SF_vars(RunnerLeave)
  /\ WF_vars(SweepScan) /\ WF_vars(SweepRow)
  /\ SF_vars(SweepRow /\ status' # status)
  /\ WF_vars(GraceEnds)
  /\ \A b \in Builds : WF_vars(Quiet(b))
  /\ \A a \in Agents :
       /\ WF_vars(AnswerClaim(a))
       /\ WF_vars(\E s \in Terminal : FinishRead(a, s))
       /\ WF_vars(FinishWrite(a))

FairSpec == Spec /\ Fairness

-------------------------------------------------------------------------------
(* Types *)

HandlerOps == {"idle", "create", "dispatch", "write", "adopt", "enqueue", "registry", "check",
               "lookup", "flag"}

HandlerType == [op : HandlerOps, p : Projects \cup {None}, b : Builds \cup {None},
                cfg : Configs \cup {None}, todo : SUBSET Builds]

(* Every variable has the type of what it stands for in the database, the  *)
(* server process or an agent.                                             *)
TypeOK ==
  /\ status    \in [Builds -> Statuses]
  /\ owner     \in [Builds -> Agents \cup {None}]
  /\ requeues  \in [Builds -> 0 .. MaxRequeues]
  /\ cancelReq \subseteq Builds
  /\ quiet     \subseteq Builds
  /\ project   \in [Builds -> Projects \cup {None}]
  /\ config    \in [Projects -> Configs]
  /\ phase     \in Live \cup {"down", "recovering"}
  /\ grace     \in BOOLEAN
  /\ queue     \in Seq(Builds)
  /\ rpc       \in {"idle", "taken", "registered", "building", "ending", "leaving", "exited"}
  /\ job       \in Builds \cup {None}
  /\ current   \in Builds \cup {None}
  /\ cause     \in {None, "user", "shutdown"}
  /\ verdict   \in Terminal \cup {None, "requeue"}
  /\ sweep     \subseteq Builds
  /\ handler   \in [Handlers -> HandlerType]
  /\ promised  \subseteq Builds
  /\ apc       \in [Agents -> {"idle", "claimed", "building", "finishing"}]
  /\ work      \in [Agents -> Builds \cup {None}]
  /\ report    \in [Agents -> Terminal \cup {None}]

-------------------------------------------------------------------------------
(* Safety *)

(* The runner has a build's commands running, or has just ended them.      *)
RunnerHolds(b) == rpc \in {"building", "ending"} /\ job = b

(* An agent has been handed the build and has not been told to stop.       *)
AgentHolds(a, b) == apc[a] \in {"building", "finishing"} /\ work[a] = b

(* Nobody takes a build away from the local runner while it works on it:   *)
(* not the janitor, which must spare the registered build, not a cancel,   *)
(* an agent or another start of it.                                        *)
RunnerKeepsItsBuild ==
  \A b \in Builds : RunnerHolds(b) => OwnedRunning(b, None) /\ current = b

(* A build is worked on by one worker at a time, across claims, lost       *)
(* answers, agents given up for dead that still work, project moves,       *)
(* re-queues and restarts.                                                 *)
OneWorkerPerBuild ==
  \A b \in Builds :
    /\ \A a \in Agents : AgentHolds(a, b) => owner[b] = a /\ ~RunnerHolds(b)
    /\ \A a1, a2 \in Agents : AgentHolds(a1, b) /\ AgentHolds(a2, b) => a1 = a2

(* A handler or the runner has the pending build in its hands and will put *)
(* it on the channel or claim it.                                          *)
InHand(b) ==
  \/ rpc \in {"taken", "registered"} /\ job = b
  \/ \E h \in Handlers :
       \/ handler[h].op = "dispatch" /\ handler[h].b = b /\ ~Remote(handler[h].cfg)
       \/ handler[h].op = "adopt" /\ handler[h].p = project[b]
       \/ handler[h].op = "enqueue" /\ b \in handler[h].todo

(* While the server is up, a pending build of a local project is on its    *)
(* way to the runner: it does not sit pending until the next restart.      *)
NoBuildStranded ==
  phase = "up" =>
    \A b \in Builds :
      status[b] = "pending" /\ ~Remote(ConfigOf(b)) => InQueue(b) \/ InHand(b)

(* A build that has an outcome keeps it, whoever else still reports one:   *)
(* the janitor, a late agent, a cancel, or a refused claim.                *)
OutcomeIsFinal ==
  [][\A b \in Builds : status[b] \in Terminal => status'[b] = status[b]]_vars

(* A build handed to an agent never changes hands and never goes back to   *)
(* the queue, even when the agent is lost: it may have shipped something.  *)
AgentBuildsStay ==
  [][\A b \in Builds :
       owner[b] # None => owner'[b] = owner[b] /\ status'[b] # "pending"]_vars

(* A heartbeat that gets in before the janitor's transaction wins: an      *)
(* agent's build is only swept when its latest heartbeat is a TTL old, and *)
(* a TTL has passed since the server started.                              *)
HeartbeatWins ==
  [][\A b \in Builds :
       status[b] = "running" /\ owner[b] # None /\ status'[b] = "failed" /\ UNCHANGED apc
         => AgentStale(b)]_vars

(* Someone will act on the cancel: the registered context of the attempt,  *)
(* or the flag the owning agent reads; or the build has an outcome.        *)
CancelHeld(b) ==
  \/ status[b] \in Terminal
  \/ b \in cancelReq /\ status[b] = "running" /\ owner[b] # None
  \/ current = b /\ cause = "user" /\ rpc # "leaving"

(* A cancel falls in no gap between the pending row and the registry: a    *)
(* handler that found neither is not canceling a build the local runner is *)
(* working on, which it would answer with "try again".  While the process  *)
(* stops, a build just re-queued may be taken again behind its back.       *)
CancelInNoGap ==
  phase # "stopping" =>
    \A h \in Handlers : handler[h].op = "lookup" => ~RunnerHolds(handler[h].b)

(* A cancel that was answered 202 always lands: it is held until the build *)
(* has an outcome.                                                         *)
CancelLands == \A b \in promised : CancelHeld(b)

(* The same, but for the time when the runner's context is canceled and    *)
(* the process is about to end.                                            *)
CancelLandsInService == phase # "stopping" => CancelLands

-------------------------------------------------------------------------------
(* Liveness *)

(* In a server that stays up, no pending build of a local project waits    *)
(* for ever: it is started, canceled or failed, or its project is moved.   *)
LocalBuildsStart ==
  \A b \in Builds :
    ~<>[](phase = "up" /\ status[b] = "pending" /\ ~Remote(ConfigOf(b)))

(* In a server that stays up, no build stays running for ever: not after a *)
(* lost claim, a dead agent, a failed database write or a restart.         *)
RunningBuildsEnd == \A b \in Builds : ~<>[](phase = "up" /\ status[b] = "running")

-------------------------------------------------------------------------------
(* The builds table keeps the promises of BuildLifecycle. *)

Holder(b) == IF owner[b] = None THEN "server" ELSE owner[b]

holder == [b \in Builds |-> IF status[b] = "running" THEN Holder(b) ELSE None]

Lifecycle == INSTANCE BuildLifecycle WITH state <- status

(* Every step of the queue is a step of the life of one build, or none.    *)
ImplementsLifecycle == Lifecycle!Spec
===============================================================================
