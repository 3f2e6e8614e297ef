-------------------------------- MODULE Fleet --------------------------------
(***************************************************************************)
(* Presence and pause of one agent's name: the registry of claim polls,    *)
(* the agents table, the claim handler's long poll, and the fleet page     *)
(* that decides from all of them whether the agent is here.                *)
(*                                                                         *)
(* Time is counted in ticks, and an age stops at TTL, where everything is  *)
(* stale.  Several machines may use the name at once.  The name has built  *)
(* before, so that a page lists it whatever else is known (AgentNames).    *)
(***************************************************************************)
EXTENDS Naturals, FiniteSets

CONSTANTS
  Polls,     (* bound: claim requests open at a time                       *)
  TTL,       (* AgentHeartbeatTTL, in ticks                                *)
  Hold,      (* pollHold: how old an open claim request gets               *)
  MaxPause   (* MaxPauseDuration                                           *)

ASSUME FleetConstants ==
  /\ IsFiniteSet(Polls)
  /\ TTL \in Nat /\ Hold \in Nat /\ MaxPause \in Nat
  /\ Hold < TTL

VARIABLES
  server,     (* whether the process is up, and since when                 *)
  reg,        (* Registry.seen[name]                                       *)
  row,        (* the name's row of agents                                  *)
  poll,       (* handleAgentClaim, one per open request                    *)
  build,      (* the running build of the name, and its last heartbeat     *)
  forgetting, (* handleForgetAgent is between its two deletions            *)
  page,       (* a fleet page that is being assembled                      *)
  ordered,    (* observer: what is left of the pause the operator ordered  *)
  heard,      (* observer: how the agent was last heard from, and its age  *)
  gone        (* the agent is gone for good, and the server stays up       *)

vars == <<server, reg, row, poll, build, forgetting, page, ordered, heard, gone>>

records   == <<row, build, ordered>>
observers == <<heard, gone>>

Ages == 0..TTL
Fresh(age) == age < TTL
Older(age) == IF Fresh(age) THEN age + 1 ELSE TTL
Shorter(pause) == IF pause > 0 THEN pause - 1 ELSE 0

NoSighting == [known |-> FALSE, polling |-> 0, last |-> TTL]
NoRow      == [here |-> FALSE, seen |-> TTL, pause |-> 0]
NoPoll     == [pc |-> "idle", age |-> 0, excused |-> FALSE]
NoBuild    == [runs |-> FALSE, beat |-> TTL]
NoPage     == [pc |-> "idle", known |-> FALSE, heard |-> "no"]
Unheard    == [by |-> "no", age |-> TTL]

Init ==
  /\ server = [on |-> TRUE, age |-> 0]
  /\ reg = NoSighting /\ row = NoRow /\ build = NoBuild
  /\ poll = [p \in Polls |-> NoPoll]
  /\ forgetting = FALSE /\ page = NoPage
  /\ ordered = 0 /\ heard = Unheard /\ gone = FALSE

-------------------------------------------------------------------------------
(* handleAgentClaim *)

Goes(p, pc) == poll' = [poll EXCEPT ![p].pc = pc, ![p].excused = FALSE]

(* A machine asks for work.  The sighting is due to be written, or was     *)
(* within the interval (ShouldPersist).                                    *)
PollStarted(p) ==
  /\ server.on /\ ~gone /\ poll[p].pc = "idle"
  /\ reg' = [known |-> TRUE, polling |-> reg.polling + 1, last |-> 0]
  /\ \E pc \in {"persist", "look"} : poll' = [poll EXCEPT ![p] = [NoPoll EXCEPT !.pc = pc]]
  /\ heard' = [by |-> "poll", age |-> 0]
  /\ UNCHANGED <<server, records, forgetting, page, gone>>

(* RecordAgentSighting: the update, and when there was no row the insert.  *)
(* Either may be refused, the insert also because the table is full.       *)
UpdateSighting(p) ==
  /\ poll[p].pc = "persist"
  /\ \/ row.here /\ row' = [row EXCEPT !.seen = 0] /\ Goes(p, "look")
     \/ ~row.here /\ Goes(p, "insert") /\ UNCHANGED row
     \/ Goes(p, "look") /\ UNCHANGED row
  /\ UNCHANGED <<server, reg, build, ordered, forgetting, page, observers>>

(* A row that has come in between keeps its pause.  (The mutant writes a   *)
(* new row.)                                                               *)
ReplacedRow == [here |-> TRUE, seen |-> 0, pause |-> 0]
InsertedRow == [row EXCEPT !.here = TRUE, !.seen = 0]

InsertSighting(p) ==
  /\ poll[p].pc = "insert"
  /\ row' \in {row, InsertedRow}
  /\ Goes(p, "look")
  /\ UNCHANGED <<server, reg, build, ordered, forgetting, page, observers>>

(* The next tick of the loop, or the deadline.                             *)
Waits(p) == Goes(p, IF poll[p].age < Hold THEN "look" ELSE "done")

(* agentIsPaused, which fails open: a pause may be missed.                 *)
CheckPause(p) ==
  /\ poll[p].pc = "look"
  /\ \/ row.pause > 0 /\ Waits(p)
     \/ row.pause = 0 /\ Goes(p, "claim")
     \/ row.pause > 0 /\ poll' = [poll EXCEPT ![p].pc = "claim", ![p].excused = TRUE]
  /\ UNCHANGED <<server, reg, records, forgetting, page, observers>>

(* ClaimBuildForAgent finds a build, nothing, or fails.                    *)
ClaimBuild(p) ==
  /\ poll[p].pc = "claim"
  /\ \/ ~build.runs /\ build' = [runs |-> TRUE, beat |-> 0] /\ Goes(p, "done")
     \/ (Waits(p) \/ Goes(p, "done")) /\ UNCHANGED build
  /\ UNCHANGED <<server, reg, row, ordered, forgetting, page, observers>>

(* The machine or a proxy hangs up.  (The mutant does not tell the         *)
(* registry.)                                                              *)
HangUpUnseen(p) ==
  /\ poll[p].pc = "look"
  /\ poll' = [poll EXCEPT ![p] = NoPoll]
  /\ UNCHANGED <<server, reg, records, forgetting, page, observers>>

HangUp(p) ==
  /\ poll[p].pc = "look"
  /\ Goes(p, "done")
  /\ UNCHANGED <<server, reg, records, forgetting, page, observers>>

(* The function PollStarted returned; the entry may have been forgotten    *)
(* meanwhile, or be a newer one.  (The mutant trusts the count.)           *)
CountDown(n) == n - 1
OneLess(n) == IF n > 0 THEN n - 1 ELSE n

PollDone(p) ==
  /\ poll[p].pc = "done"
  /\ poll' = [poll EXCEPT ![p] = NoPoll]
  /\ reg' = IF reg.known THEN [reg EXCEPT !.polling = OneLess(@), !.last = 0] ELSE reg
  /\ UNCHANGED <<server, records, forgetting, page, observers>>

-------------------------------------------------------------------------------
(* The agent's other requests *)

(* A heartbeat or a log upload of the build.                               *)
Heartbeat ==
  /\ server.on /\ ~gone /\ build.runs
  /\ build' = [build EXCEPT !.beat = 0]
  /\ heard' = [by |-> "build", age |-> 0]
  /\ UNCHANGED <<server, reg, row, poll, forgetting, page, ordered, gone>>

(* The report of its outcome: the build is no longer a running one.        *)
Finish ==
  /\ server.on /\ ~gone /\ build.runs
  /\ build' = NoBuild
  /\ heard' = [by |-> "ended", age |-> 0]
  /\ page' = [page EXCEPT !.heard = IF @ = "build" THEN "no" ELSE @]
  /\ UNCHANGED <<server, reg, row, poll, forgetting, ordered, gone>>

(* RecordAgentStatus makes a row, and is no sighting.                      *)
StatusReport ==
  /\ server.on /\ ~gone
  /\ row' = [row EXCEPT !.here = TRUE]
  /\ UNCHANGED <<server, reg, poll, build, forgetting, page, ordered, observers>>

(* The janitor fails a build whose agent is stale.                         *)
JanitorFails ==
  /\ server.on /\ build.runs /\ ~Fresh(build.beat) /\ ~Fresh(server.age)
  /\ build' = NoBuild
  /\ UNCHANGED <<server, reg, row, poll, forgetting, page, ordered, observers>>

-------------------------------------------------------------------------------
(* The operator *)

(* A poll that has just looked claims nevertheless.                        *)
Pause ==
  /\ server.on /\ ~gone
  /\ \E n \in 1..MaxPause :
       row' = [row EXCEPT !.here = TRUE, !.pause = n] /\ ordered' = n
  /\ poll' = [p \in Polls |-> IF poll[p].pc = "claim" THEN [poll[p] EXCEPT !.excused = TRUE] ELSE poll[p]]
  /\ UNCHANGED <<server, reg, build, forgetting, page, observers>>

Resume ==
  /\ server.on /\ ~gone
  /\ row' = [row EXCEPT !.pause = 0] /\ ordered' = 0
  /\ UNCHANGED <<server, reg, poll, build, forgetting, page, observers>>

(* handleForgetAgent: the row with its pause, then the registry's entry.   *)
ForgetRow ==
  /\ server.on /\ ~forgetting
  /\ row' = NoRow /\ ordered' = 0 /\ forgetting' = TRUE
  /\ UNCHANGED <<server, reg, poll, build, page, observers>>

Forget ==
  /\ forgetting
  /\ reg' = NoSighting /\ forgetting' = FALSE
  /\ heard' = IF heard.by = "poll" THEN Unheard ELSE heard
  /\ UNCHANGED <<server, records, poll, page, gone>>

-------------------------------------------------------------------------------
(* agents.Build, one read after another: the registry, the table, the      *)
(* running build.  A page is followed until something shows that the agent *)
(* is here, which nothing read later takes back.                           *)

Sees(s) == s.polling > 0 \/ Fresh(s.last)

PageSnapshot ==
  /\ server.on /\ page.pc = "idle" /\ ~Sees(reg)
  /\ page' = [pc |-> "rows", known |-> reg.known,
              heard |-> IF heard.by = "ended" THEN "no" ELSE heard.by]
  /\ UNCHANGED <<server, reg, records, poll, forgetting, observers>>

(* applyRow: what is stored counts when there is no live sighting, and     *)
(* does not make the agent a known one.  An unreadable table is left out.  *)
(* (The mutant takes a stored agent for one that has checked in.)          *)
KnownFromRow(pg) == pg.known \/ row.here
KnownAfterRow(pg) == pg.known

PageRows ==
  /\ page.pc = "rows"
  /\ \/ page' = IF ~page.known /\ row.here /\ Fresh(row.seen)
                THEN NoPage
                ELSE [page EXCEPT !.pc = "fill", !.known = KnownAfterRow(page)]
     \/ page' = [page EXCEPT !.pc = "fill"]
  /\ UNCHANGED <<server, reg, records, poll, forgetting, observers>>

(* fill and stateOf: a heartbeat of the running build counts, and after a  *)
(* restart an agent gets a TTL to check in.  "here" is busy, paused or     *)
(* online.                                                                 *)
State == IF build.runs /\ Fresh(build.beat) THEN "here"
         ELSE IF ~page.known /\ Fresh(server.age) THEN "waiting" ELSE "offline"

PageFill ==
  /\ page.pc = "fill"
  /\ page' = NoPage
  /\ UNCHANGED <<server, reg, records, poll, forgetting, observers>>

-------------------------------------------------------------------------------
(* Time and the process *)

(* A page takes less than a tick, and a request that has come to its       *)
(* deadline ends.                                                          *)
Tick ==
  /\ page.pc = "idle"
  /\ \A p \in Polls : poll[p].pc # "idle" => poll[p].age < Hold
  /\ server' = [server EXCEPT !.age = IF server.on THEN Older(@) ELSE @]
  /\ reg' = [reg EXCEPT !.last = Older(@)]
  /\ row' = [row EXCEPT !.seen = Older(@), !.pause = Shorter(@)]
  /\ ordered' = Shorter(ordered)
  /\ poll' = [p \in Polls |-> IF poll[p].pc = "idle" THEN NoPoll ELSE [poll[p] EXCEPT !.age = @ + 1]]
  /\ build' = [build EXCEPT !.beat = Older(@)]
  /\ heard' = IF Fresh(Older(heard.age)) THEN [heard EXCEPT !.age = Older(@)] ELSE Unheard
  /\ UNCHANGED <<forgetting, page, gone>>

(* The process ends; its memory and its requests go with it.               *)
Down ==
  /\ server.on /\ ~gone
  /\ server' = [on |-> FALSE, age |-> 0]
  /\ reg' = NoSighting
  /\ poll' = [p \in Polls |-> NoPoll]
  /\ forgetting' = FALSE
  /\ page' = NoPage
  /\ UNCHANGED <<records, observers>>

Up ==
  /\ ~server.on
  /\ server' = [on |-> TRUE, age |-> 0]
  /\ UNCHANGED <<reg, records, poll, forgetting, page, observers>>

Unplug ==
  /\ server.on /\ ~gone
  /\ gone' = TRUE
  /\ UNCHANGED <<server, reg, records, poll, forgetting, page, heard>>

-------------------------------------------------------------------------------

Claiming(p) ==
  UpdateSighting(p) \/ InsertSighting(p) \/ CheckPause(p) \/ ClaimBuild(p) \/ PollDone(p)

Assemble == PageSnapshot \/ PageRows \/ PageFill

Next ==
  \/ \E p \in Polls : PollStarted(p) \/ Claiming(p) \/ HangUp(p)
  \/ Heartbeat \/ Finish \/ StatusReport \/ JanitorFails
  \/ Pause \/ Resume \/ ForgetRow \/ Forget
  \/ Assemble
  \/ Tick \/ Down \/ Up \/ Unplug

Spec == Init /\ [][Next]_vars

(* Handlers go on; time passes and pages are made, also while requests and *)
(* pages come one after another.                                           *)
Fairness ==
  /\ \A p \in Polls : WF_vars(Claiming(p))
  /\ WF_vars(Assemble) /\ SF_vars(Tick)

FairSpec == Spec /\ Fairness

-------------------------------------------------------------------------------
(* Properties *)

Open == {p \in Polls : poll[p].pc # "idle"}

(* Every variable has the type of what it stands for; the registry counts  *)
(* no claim request that is not open, over forgotten entries and restarts, *)
(* and no request outlives its hold.                                       *)
TypeOK ==
  /\ server \in [on : BOOLEAN, age : Ages]
  /\ reg \in [known : BOOLEAN, polling : 0..Cardinality(Open), last : Ages]
  /\ row \in [here : BOOLEAN, seen : Ages, pause : 0..MaxPause]
  /\ poll \in [Polls -> [pc : {"idle", "persist", "insert", "look", "claim", "done"},
                         age : 0..Hold, excused : BOOLEAN]]
  /\ build \in [runs : BOOLEAN, beat : Ages]
  /\ forgetting \in BOOLEAN /\ gone \in BOOLEAN
  /\ page \in [pc : {"idle", "rows", "fill"}, known : BOOLEAN, heard : {"no", "poll", "build"}]
  /\ ordered \in 0..MaxPause
  /\ heard \in [by : {"no", "poll", "build", "ended"}, age : Ages]

(* A page calls an agent offline only when the server has been up for a    *)
(* TTL and has heard nothing within one, a build that has ended meanwhile  *)
(* and polls before a Forget excepted: over restarts, throttled or refused *)
(* writes of the row, overlapping polls, and pages made of reads at        *)
(* different times.                                                        *)
CalledOffline == page.pc = "fill" /\ State = "offline"
OfflineMeansSilent == CalledOffline => page.heard = "no" /\ ~Fresh(server.age)

(* While a pause that was ordered is in force no poll is about to claim    *)
(* but one that looked before the order, or could not look.  Nothing but   *)
(* time, a resume and a Forget takes a pause away.                         *)
NoWorkUnderPause ==
  \A p \in Polls : poll[p].pc = "claim" /\ ordered > 0 => poll[p].excused

(* An agent that is gone for good is offline on every page in the end: no  *)
(* request that was cut off, no entry and no build of its keep it alive.   *)
SilentGoesOffline ==
  <>gone => []<>CalledOffline /\ <>[](page.pc = "fill" => State = "offline")

(* An agent that has reported the outcome of a build within the TTL, and   *)
(* before the page was begun, is not called offline.  It does not hold: a  *)
(* build that has ended takes its heartbeats along, and the last poll was  *)
(* before the build.                                                       *)
ReportIsHeard ==
  CalledOffline => ~(heard.by = "ended" /\ heard.age > 0 /\ Fresh(heard.age))
===============================================================================
