-------------------------------- MODULE Poller --------------------------------
(***************************************************************************)
(* The triggers of one project: the git poller, the GitHub webhook and the *)
(* operator, against edits of the watched branch and pushes to the remote. *)
(*                                                                         *)
(* A commit is a number in the order in which commits are made; none is 0, *)
(* the empty string.  The poller has one goroutine and works on a snapshot *)
(* of the project from its first step to its last.  Polling stays enabled: *)
(* a poller that is switched off and on again is one that pauses.          *)
(***************************************************************************)
EXTENDS Naturals, Sequences, FiniteSets

CONSTANTS
  Branches,     (* what projects.branch and repo_url may be set to         *)
  MaxCommits,   (* bound: commits made                                     *)
  MaxOthers     (* bound: builds that the poller did not create            *)

ASSUME PollerConstants ==
  Branches # {} /\ MaxCommits \in Nat \ {0} /\ MaxOthers \in Nat

VARIABLES
  (* the remote *)
  tip,          (* the commit each branch points at                        *)
  made,         (* commits made so far                                     *)
  (* the database *)
  branch,       (* projects.branch                                         *)
  baseline,     (* projects.last_polled_sha                                *)
  builds,       (* the project's builds, in order of creation              *)
  (* the server process *)
  poll,         (* the poller and its local variables                      *)
  matched,      (* head commits of push events that matched the project    *)
  edit,         (* whether an edit of the branch has yet to reset          *)
  (* observers *)
  origin,       (* the branch whose tip baseline is                        *)
  seeded        (* tips the poller took for a first baseline               *)

remoteVars == <<tip, made>>
dbVars     == <<branch, baseline, builds>>
memVars    == <<poll, matched, edit>>
histVars   == <<origin, seeded>>
vars == <<remoteVars, dbVars, memVars, histVars>>

None    == 0
Commits == 1 .. made

(* ref and prev are the snapshot's branch and baseline, of the branch orig,*)
(* and sha what the remote answered; from touch on, sha is what to record. *)
Idle == [pc |-> "idle", ref |-> None, prev |-> None, orig |-> None, sha |-> None]

(* There is no poller, and no handler, while the process is down.          *)
Off == [Idle EXCEPT !.pc = "down"]
Up  == poll.pc # "down"

New(commit, by) == [commit |-> commit, by |-> by, active |-> TRUE]
Insert(commit, by) == builds' = Append(builds, New(commit, by))

Built == {builds[i].commit : i \in DOMAIN builds}

(* HasActiveBuild                                                          *)
HasActive == \E i \in DOMAIN builds : builds[i].active

MayInsert == Cardinality({i \in DOMAIN builds : builds[i].by # "poll"}) < MaxOthers

Init ==
  /\ tip = [b \in Branches |-> 1] /\ made = 1
  /\ branch \in Branches
  /\ baseline = None
  /\ builds = <<>>
  /\ poll = Idle /\ matched = {} /\ edit = FALSE
  /\ origin = None
  /\ seeded = {}

-------------------------------------------------------------------------------
(* The poller: Sweep and pollProject.                                      *)

Step(pc) == poll' = [poll EXCEPT !.pc = pc]
Touching(sha, ref) == [Idle EXCEPT !.pc = "touch", !.sha = sha, !.ref = ref]
Record(sha, ref) == poll' = Touching(sha, ref)

PollRead ==
  /\ poll.pc = "idle"
  /\ poll' = [Idle EXCEPT !.pc = "probe", !.ref = branch, !.prev = baseline, !.orig = origin]
  /\ UNCHANGED <<remoteVars, dbVars, matched, edit, histVars>>

(* git ls-remote.  Without a baseline the tip becomes it; a tip that has   *)
(* not moved is recorded again.                                            *)
Probe ==
  LET sha == tip[poll.ref] IN
  /\ poll.pc = "probe"
  /\ poll' = IF poll.prev \in {None, sha}
             THEN Touching(sha, poll.ref)
             ELSE [poll EXCEPT !.pc = "built", !.sha = sha]
  /\ seeded' = IF poll.prev = None THEN seeded \cup {sha} ELSE seeded
  /\ UNCHANGED <<remoteVars, dbVars, matched, edit, origin>>

(* A failed probe records the error and keeps the baseline.  (The mutant   *)
(* records what it has, which is nothing.)                                 *)
ProbeForgets ==
  /\ poll.pc = "probe"
  /\ Record(None, poll.ref)
  /\ UNCHANGED <<remoteVars, dbVars, matched, edit, histVars>>

ProbeFails ==
  /\ poll.pc = "probe"
  /\ poll' = Idle
  /\ UNCHANGED <<remoteVars, dbVars, matched, edit, histVars>>

(* HasBuildForCommit: a build of any status will do.  (The mutant leaves   *)
(* it to the baseline.)                                                    *)
BaselineOnly ==
  /\ poll.pc = "built"
  /\ Step("active")
  /\ UNCHANGED <<remoteVars, dbVars, matched, edit, histVars>>

CheckBuilt ==
  /\ poll.pc = "built"
  /\ IF poll.sha \in Built THEN Record(poll.sha, poll.ref) ELSE Step("active")
  /\ UNCHANGED <<remoteVars, dbVars, matched, edit, histVars>>

(* While a build is active the commit is deferred: the old baseline is     *)
(* recorded again.  (One mutant moves it, the other does not defer.)       *)
DeferAndForget ==
  /\ poll.pc = "active"
  /\ IF HasActive THEN Record(poll.sha, poll.ref) ELSE Step("create")
  /\ UNCHANGED <<remoteVars, dbVars, matched, edit, histVars>>

NeverDefer ==
  /\ poll.pc = "active"
  /\ Step("create")
  /\ UNCHANGED <<remoteVars, dbVars, matched, edit, histVars>>

CheckActive ==
  /\ poll.pc = "active"
  /\ IF HasActive THEN Record(poll.prev, poll.orig) ELSE Step("create")
  /\ UNCHANGED <<remoteVars, dbVars, matched, edit, histVars>>

PollCreate ==
  /\ poll.pc = "create"
  /\ Insert(poll.sha, "poll")
  /\ Record(poll.sha, poll.ref)
  /\ UNCHANGED <<remoteVars, branch, baseline, matched, edit, histVars>>

(* UpdatePollState, with whatever the snapshot led to.                     *)
Touch ==
  /\ poll.pc = "touch"
  /\ baseline' = poll.sha /\ origin' = poll.ref
  /\ poll' = Idle
  /\ UNCHANGED <<remoteVars, branch, builds, matched, edit, seeded>>

PollerNext ==
  \/ PollRead \/ Probe \/ ProbeFails \/ CheckBuilt \/ CheckActive \/ PollCreate \/ Touch

-------------------------------------------------------------------------------
(* The other triggers.                                                     *)

(* handleGitHubWebhook: a push event, new or delivered again, for the      *)
(* branch as it is now.  Nobody looks for a build of the commit.  An event *)
(* for another branch, or lost on its way, is no step.                     *)
HookMatch ==
  /\ Up
  /\ matched' \in {matched \cup {c} : c \in Commits}
  /\ UNCHANGED <<remoteVars, dbVars, poll, edit, histVars>>

HookCreate ==
  /\ MayInsert
  /\ \E c \in matched :
       /\ matched' = matched \ {c}
       /\ Insert(c, "hook")
  /\ UNCHANGED <<remoteVars, branch, baseline, poll, edit, histVars>>

(* A manual build has no commit of its own, a re-run that of its source.   *)
UserTrigger ==
  /\ Up /\ MayInsert
  /\ \E c \in {None} \cup Built : Insert(c, "user")
  /\ UNCHANGED <<remoteVars, branch, baseline, memVars, histVars>>

(* The build gets an outcome, at once if the channel has no room for it.   *)
BuildEnds(i) ==
  /\ builds[i].active
  /\ builds' = [builds EXCEPT ![i].active = FALSE]
  /\ UNCHANGED <<remoteVars, branch, baseline, memVars, histVars>>

-------------------------------------------------------------------------------
(* Edits, pushes and restarts.                                             *)

(* UpdateProject, and ResetPollState in a statement of its own.            *)
EditBranch ==
  /\ Up /\ ~edit
  /\ branch' \in Branches \ {branch}
  /\ edit' = TRUE
  /\ UNCHANGED <<remoteVars, baseline, builds, poll, matched, histVars>>

EditReset ==
  /\ edit
  /\ baseline' = None /\ edit' = FALSE
  /\ origin' = None
  /\ UNCHANGED <<remoteVars, branch, builds, poll, matched, seeded>>

(* A branch moves to a new commit, or to one that exists already.          *)
Push(b, c) ==
  /\ c # tip[b] /\ c <= MaxCommits
  /\ tip' = [tip EXCEPT ![b] = c]
  /\ made' = IF c > made THEN c ELSE made
  /\ UNCHANGED <<dbVars, memVars, histVars>>

(* The process ends; the rows are what is left when it starts again.       *)
Stop ==
  /\ Up
  /\ poll' = Off /\ matched' = {} /\ edit' = FALSE
  /\ UNCHANGED <<remoteVars, dbVars, histVars>>

Restart ==
  /\ ~Up /\ poll' = Idle
  /\ UNCHANGED <<remoteVars, dbVars, matched, edit, histVars>>

Next ==
  \/ PollerNext
  \/ HookMatch \/ HookCreate \/ UserTrigger
  \/ \E i \in DOMAIN builds : BuildEnds(i)
  \/ EditBranch \/ EditReset
  \/ \E b \in Branches : \E c \in 1 .. made + 1 : Push(b, c)
  \/ Stop \/ Restart

Spec == Init /\ [][Next]_vars

(* Sweeps come round and go on to their end, the remote answers a probe    *)
(* now and then, builds end, and the process stays up from some time on.   *)
Fairness ==
  /\ WF_vars(PollerNext)
  /\ SF_vars(Probe)
  /\ WF_vars(\E i \in DOMAIN builds : BuildEnds(i))
  /\ <>[]Up

FairSpec == Spec /\ Fairness

-------------------------------------------------------------------------------
(* Properties *)

PollType == [pc : {"down", "idle", "probe", "built", "active", "create", "touch"},
             ref : Branches \cup {None}, orig : Branches \cup {None},
             prev : 0 .. made, sha : 0 .. made]
BuildType == [commit : 0 .. MaxCommits, by : {"poll", "hook", "user"}, active : BOOLEAN]

(* Every variable has the type of what it stands for, and the poller never *)
(* records an empty tip: only an edit empties the baseline.                *)
TypeOK ==
  /\ made \in 1 .. MaxCommits
  /\ tip \in [Branches -> Commits]
  /\ branch \in Branches
  /\ edit \in BOOLEAN
  /\ baseline \in 0 .. made
  /\ builds \in Seq(BuildType)
  /\ poll \in PollType
  /\ poll.pc = "touch" => poll.sha # None
  /\ matched \subseteq Commits
  /\ origin \in Branches \cup {None}
  /\ seeded \subseteq Commits

(* A commit is recorded as seen only once it has a build or was a first    *)
(* tip: whatever the poller meets on the way, no commit is marked and not  *)
(* built, also when it lands while a build is active, the branch is edited *)
(* under the poller or the process ends before the baseline is recorded.   *)
BaselineIsCovered == baseline # None => baseline \in Built \cup seeded

(* The poller builds a commit once, though it loses its place in a restart *)
(* and its baseline in an edit.                                            *)
PolledOnce ==
  \A i, j \in DOMAIN builds :
    builds[i].by = "poll" /\ builds[j].by = "poll" /\ builds[i].commit = builds[j].commit => i = j

(* The poller does not stack builds: of those it created one at a time is  *)
(* waiting or running.                                                     *)
PolledBuildsWait ==
  \A i, j \in DOMAIN builds :
    /\ builds[i].by = "poll" /\ builds[i].active
    /\ builds[j].by = "poll" /\ builds[j].active
    => i = j

(* A commit that stays the tip of a watched branch, with an end to the     *)
(* edits, gets a build, unless it was the first tip seen: it is deferred   *)
(* and not dropped.                                                        *)
TipGetsBuilt ==
  \A c \in 1 .. MaxCommits :
    []<>(\/ edit
         \/ tip[branch] # c
         \/ c \in Built \cup seeded)

(* The poller and the webhook, racing on the same push, build it once.  It *)
(* does not hold: only the poller looks for a build of the commit, and     *)
(* handleGitHubWebhook inserts its own between that look and the poller's  *)
(* insertion, or after both.                                               *)
OneBuildPerPush ==
  \A i, j \in DOMAIN builds :
    builds[i].commit = builds[j].commit => ~(builds[i].by = "poll" /\ builds[j].by = "hook")

(* An edit of the branch makes the poller seed anew: it builds a commit    *)
(* only when the tip of one and the same branch has moved.  It does not    *)
(* hold: a sweep that is at the remote meanwhile, or comes between the two *)
(* statements of the edit, has the old branch's baseline in hand.          *)
EditReseeds == poll.pc = "create" => poll.orig = poll.ref
===============================================================================
