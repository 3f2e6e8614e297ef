----------------------------- MODULE PollerProofs -----------------------------
(***************************************************************************)
(* The safety properties of Poller, for every set of branches and every    *)
(* bound.  The inductive invariant follows the snapshot the poller works   *)
(* on: what it may record is covered, and what it is about to build is not *)
(* built by it already.                                                    *)
(***************************************************************************)
EXTENDS Poller, TLAPS

(* A probe knows its branch, and a sweep that compares has both tips.      *)
PollInv ==
  /\ poll.pc = "probe" => poll.ref \in Branches
  /\ poll.pc \in {"built", "active", "create"} => poll.prev # None /\ poll.sha # None

Covered(c) == c \in Built \cup seeded

CoverInv ==
  /\ baseline # None => Covered(baseline)
  /\ poll.prev # None => Covered(poll.prev)
  /\ poll.pc = "touch" => Covered(poll.sha)

Polled(i) == i \in DOMAIN builds /\ builds[i].by = "poll"

OnceInv ==
  /\ PolledOnce
  /\ poll.pc \in {"active", "create"} => \A i : Polled(i) => builds[i].commit # poll.sha

WaitInv ==
  /\ PolledBuildsWait
  /\ poll.pc = "create" => \A i : Polled(i) => ~builds[i].active

IInv == TypeOK /\ PollInv /\ CoverInv /\ OnceInv /\ WaitInv

-------------------------------------------------------------------------------
(* The two ways in which the builds change.                                *)

(* A build that is inserted comes last and leaves the others as they are.  *)
LEMMA Inserting ==
  ASSUME builds \in Seq(BuildType), NEW c \in 0 .. MaxCommits,
         NEW by \in {"poll", "hook", "user"}, Insert(c, by)
  PROVE  /\ builds' \in Seq(BuildType)
         /\ DOMAIN builds' = DOMAIN builds \cup {Len(builds) + 1}
         /\ Len(builds) + 1 \notin DOMAIN builds
         /\ \A i \in DOMAIN builds : builds'[i] = builds[i]
         /\ builds'[Len(builds) + 1] = New(c, by)
<1> DEFINE n == Len(builds)
<1>1. New(c, by) \in BuildType
  BY DEF New, BuildType
<1>2. builds' = Append(builds, New(c, by))
  BY DEF Insert
<1>3. n \in Nat /\ DOMAIN builds = 1 .. n
  OBVIOUS
<1>4. builds' \in Seq(BuildType) /\ Len(builds') = n + 1 /\ DOMAIN builds' = 1 .. n + 1
  BY <1>1, <1>2
<1>5. \A i \in 1 .. n : builds'[i] = builds[i]
  BY <1>1, <1>2, <1>3
<1>6. builds'[n + 1] = New(c, by)
  BY <1>1, <1>2, <1>3
<1>7. 1 .. n + 1 = (1 .. n) \cup {n + 1} /\ n + 1 \notin 1 .. n
  BY <1>3
<1> QED  BY <1>3, <1>4, <1>5, <1>6, <1>7

(* An inserted commit is built, and what was built stays built.            *)
LEMMA InsertingBuilds ==
  ASSUME builds \in Seq(BuildType), NEW c \in 0 .. MaxCommits,
         NEW by \in {"poll", "hook", "user"}, Insert(c, by)
  PROVE  Built' = Built \cup {c}
<1> DEFINE n == Len(builds)
<1>1. /\ DOMAIN builds' = DOMAIN builds \cup {n + 1}
      /\ \A i \in DOMAIN builds : builds'[i] = builds[i]
      /\ builds'[n + 1] = New(c, by)
  BY Inserting
<1>2. builds'[n + 1].commit = c
  BY <1>1 DEF New
<1> HIDE DEF n
<1> QED  BY <1>1, <1>2 DEF Built

(* Ending a build changes nothing but that it is active.                   *)
LEMMA Ending ==
  ASSUME builds \in Seq(BuildType), NEW k \in DOMAIN builds,
         builds' = [builds EXCEPT ![k].active = FALSE]
  PROVE  /\ builds' \in Seq(BuildType)
         /\ DOMAIN builds' = DOMAIN builds
         /\ \A i \in DOMAIN builds : /\ builds'[i].commit = builds[i].commit
                                     /\ builds'[i].by = builds[i].by
                                     /\ builds'[i].active => builds[i].active
<1> DEFINE b == [builds[k] EXCEPT !.active = FALSE]
<1>1. builds[k] \in BuildType
  OBVIOUS
<1>2. b \in BuildType /\ b.commit = builds[k].commit /\ b.by = builds[k].by /\ b.active = FALSE
  BY <1>1 DEF BuildType
<1>3. builds' = [builds EXCEPT ![k] = b]
  OBVIOUS
<1>4. builds' \in Seq(BuildType)
  BY <1>2, <1>3
<1>5. DOMAIN builds' = DOMAIN builds /\ \A i \in DOMAIN builds : builds'[i] = IF i = k THEN b ELSE builds[i]
  BY <1>3
<1> QED  BY <1>2, <1>4, <1>5

LEMMA EndingBuilds ==
  ASSUME builds \in Seq(BuildType), NEW k \in DOMAIN builds,
         builds' = [builds EXCEPT ![k].active = FALSE]
  PROVE  Built' = Built
BY Ending DEF Built

(* What was built is a commit or none.                                     *)
LEMMA BuiltType ==
  ASSUME builds \in Seq(BuildType)
  PROVE  Built \subseteq 0 .. MaxCommits
<1>1. \A i \in DOMAIN builds : builds[i] \in BuildType
  OBVIOUS
<1> QED  BY <1>1 DEF Built, BuildType

(* Each insertion is one of these.                                         *)
LEMMA HookInserts ==
  ASSUME TypeOK, HookCreate
  PROVE  \E c \in 0 .. MaxCommits : Insert(c, "hook")
<1>1. MaxCommits \in Nat /\ 1 .. made \subseteq 0 .. MaxCommits /\ matched \subseteq 1 .. made
  BY PollerConstants DEF TypeOK, Commits
<1>2. PICK c \in matched : Insert(c, "hook")
  BY DEF HookCreate
<1> QED  BY <1>1, <1>2

LEMMA UserInserts ==
  ASSUME TypeOK, UserTrigger
  PROVE  \E c \in 0 .. MaxCommits : Insert(c, "user")
<1>1. MaxCommits \in Nat /\ Built \subseteq 0 .. MaxCommits
  BY BuiltType, PollerConstants DEF TypeOK
<1> QED  BY <1>1 DEF UserTrigger, None

LEMMA PollInserts ==
  ASSUME TypeOK, PollCreate
  PROVE  poll.sha \in 0 .. MaxCommits /\ Insert(poll.sha, "poll")
<1>1. MaxCommits \in Nat /\ made \in 1 .. MaxCommits /\ poll.sha \in 0 .. made
  BY PollerConstants DEF TypeOK, PollType
<1> QED  BY <1>1 DEF PollCreate

-------------------------------------------------------------------------------
(* Types                                                                   *)

(* The builds are well typed after every step.                             *)
LEMMA BuildsType ==
  ASSUME TypeOK, [Next]_vars
  PROVE  builds' \in Seq(BuildType)
<1> USE DEF TypeOK
<1>1. CASE PollCreate
  BY <1>1, PollInserts, Inserting
<1>2. CASE HookCreate
  <2>1. PICK c \in 0 .. MaxCommits : Insert(c, "hook")
    BY <1>2, HookInserts
  <2> QED  BY <2>1, Inserting
<1>3. CASE UserTrigger
  <2>1. PICK c \in 0 .. MaxCommits : Insert(c, "user")
    BY <1>3, UserInserts
  <2> QED  BY <2>1, Inserting
<1>4. ASSUME NEW i \in DOMAIN builds, BuildEnds(i)
      PROVE  builds' \in Seq(BuildType)
  BY <1>4, Ending DEF BuildEnds
<1>5. CASE UNCHANGED builds
  BY <1>5
<1>6. \/ PollCreate \/ HookCreate \/ UserTrigger
      \/ \E i \in DOMAIN builds : BuildEnds(i)
      \/ UNCHANGED builds
  BY DEF Next, PollerNext, PollRead, Probe, ProbeFails, CheckBuilt, CheckActive, Touch,
         HookMatch, EditBranch, EditReset, Push, Stop, Restart, vars, dbVars
<1> QED  BY <1>1, <1>2, <1>3, <1>4, <1>5, <1>6

(* The remote only makes commits.                                          *)
LEMMA RemoteType ==
  ASSUME TypeOK, [Next]_vars
  PROVE  /\ made' \in 1 .. MaxCommits /\ made <= made'
         /\ tip' \in [Branches -> 1 .. made']
<1>1. made \in 1 .. MaxCommits /\ tip \in [Branches -> 1 .. made] /\ MaxCommits \in Nat
  BY PollerConstants DEF TypeOK, Commits
<1>2. ASSUME NEW b \in Branches, NEW c \in 1 .. made + 1, Push(b, c)
      PROVE  /\ made' \in 1 .. MaxCommits /\ made <= made' /\ c <= made'
             /\ tip' = [tip EXCEPT ![b] = c]
  BY <1>1, <1>2 DEF Push
<1>3. ASSUME NEW b \in Branches, NEW c \in 1 .. made + 1, Push(b, c)
      PROVE  tip' \in [Branches -> 1 .. made']
  BY <1>1, <1>2, <1>3
<1>4. CASE UNCHANGED remoteVars
  BY <1>1, <1>4 DEF remoteVars
<1>5. (\E b \in Branches : \E c \in 1 .. made + 1 : Push(b, c)) \/ UNCHANGED remoteVars
  BY DEF Next, PollerNext, PollRead, Probe, ProbeFails, CheckBuilt, CheckActive, PollCreate,
         Touch, HookMatch, HookCreate, UserTrigger, BuildEnds, EditBranch, EditReset, Stop, Restart, vars
<1> QED  BY <1>2, <1>3, <1>4, <1>5

(* Polls the poller can be in: well typed, never about to record nothing,  *)
(* a probe knows its branch, and a sweep that compares has both tips.      *)
PollSet == [pc : {"down", "idle", "probe", "built", "active", "create", "touch"},
            ref : Branches \cup {None}, orig : Branches \cup {None},
            prev : 0 .. made, sha : 0 .. made]
GoodPoll(p) ==
  /\ p \in PollSet
  /\ p.pc = "touch" => p.sha # None
  /\ p.pc = "probe" => p.ref \in Branches
  /\ p.pc \in {"built", "active", "create"} => p.prev # None /\ p.sha # None

(* The poller's own variables stay well typed.                             *)
LEMMA PollerType ==
  ASSUME TypeOK, PollInv, [Next]_vars
  PROVE  GoodPoll(poll')
<1>1. made \in Nat /\ 0 \in 0 .. made /\ 1 .. made \subseteq 0 .. made
      /\ baseline \in 0 .. made /\ branch \in Branches
      /\ tip \in [Branches -> 1 .. made] /\ origin \in Branches \cup {None}
      /\ \A c \in 1 .. made : c # None
  BY PollerConstants DEF TypeOK, Commits, None
<1>2. GoodPoll(poll) /\ GoodPoll(Idle) /\ GoodPoll(Off)
  BY <1>1 DEF TypeOK, PollInv, PollType, PollSet, GoodPoll, Idle, Off, None
<1>3. ASSUME NEW sha \in 1 .. made, NEW ref \in Branches \cup {None}
      PROVE  GoodPoll(Touching(sha, ref))
  BY <1>1 DEF Touching, GoodPoll, PollSet, Idle, None
<1>4. ASSUME PollRead
      PROVE  GoodPoll(poll')
  BY <1>1, <1>4 DEF PollRead, GoodPoll, PollSet, Idle, None
<1>5. ASSUME Probe
      PROVE  GoodPoll(poll')
  <2>1. poll.ref \in Branches /\ tip[poll.ref] \in 1 .. made /\ poll.pc = "probe"
    BY <1>1, <1>5 DEF Probe, PollInv
  <2>2. CASE poll.prev \in {None, tip[poll.ref]}
    <3>1. poll' = Touching(tip[poll.ref], poll.ref)
      BY <1>5, <2>2 DEF Probe
    <3> QED  BY <2>1, <1>3, <3>1
  <2>3. CASE poll.prev \notin {None, tip[poll.ref]}
    <3>1. poll' = [poll EXCEPT !.pc = "built", !.sha = tip[poll.ref]]
      BY <1>5, <2>3 DEF Probe
    <3> QED  BY <1>1, <1>2, <2>1, <2>3, <3>1 DEF GoodPoll, PollSet, None
  <2> QED  BY <2>2, <2>3
<1>6. ASSUME CheckBuilt \/ CheckActive \/ PollCreate
      PROVE  GoodPoll(poll')
  <2>1. poll \in PollSet /\ poll.prev # None /\ poll.sha # None
    BY <1>2, <1>6 DEF CheckBuilt, CheckActive, PollCreate, GoodPoll
  <2>2. poll.sha \in 1 .. made /\ poll.prev \in 1 .. made
        /\ poll.ref \in Branches \cup {None} /\ poll.orig \in Branches \cup {None}
    BY <1>1, <2>1 DEF PollSet, None
  <2>3. GoodPoll([poll EXCEPT !.pc = "active"]) /\ GoodPoll([poll EXCEPT !.pc = "create"])
    BY <2>1 DEF GoodPoll, PollSet
  <2>4. GoodPoll(Touching(poll.sha, poll.ref)) /\ GoodPoll(Touching(poll.prev, poll.orig))
    BY <2>2, <1>3
  <2> QED  BY <1>6, <2>3, <2>4 DEF CheckBuilt, CheckActive, PollCreate, Record, Step
<1>7. ASSUME poll' \in {Idle, Off} \/ UNCHANGED poll
      PROVE  GoodPoll(poll')
  BY <1>2, <1>7
<1> QED
  BY <1>4, <1>5, <1>6, <1>7
     DEF Next, PollerNext, ProbeFails, Touch, Stop, Restart, HookMatch, HookCreate, UserTrigger,
         BuildEnds, EditBranch, EditReset, Push, vars, memVars

(* So does everything else: TypeOK with the probes' PollInv is inductive.  *)
LEMMA TypeStep ==
  ASSUME TypeOK, PollInv, [Next]_vars
  PROVE  TypeOK' /\ PollInv'
<1>1. /\ made' \in 1 .. MaxCommits /\ made \in 1 .. MaxCommits /\ made <= made'
      /\ MaxCommits \in Nat /\ tip' \in [Branches -> 1 .. made']
  BY RemoteType, PollerConstants DEF TypeOK
<1>2. 0 .. made \subseteq 0 .. made' /\ 1 .. made \subseteq 1 .. made' /\ 0 \in 0 .. made'
  BY <1>1
<1>3. builds' \in Seq(BuildType)
  BY BuildsType
<1>4. GoodPoll(poll')
  BY PollerType
<1>5. poll' \in PollType' /\ (poll'.pc = "touch" => poll'.sha # None) /\ PollInv'
  BY <1>2, <1>4 DEF GoodPoll, PollSet, PollType, PollInv
<1>6. branch' \in Branches /\ edit' \in BOOLEAN
  BY DEF TypeOK, Next, PollerNext, PollRead, Probe, ProbeFails, CheckBuilt, CheckActive, PollCreate,
         Touch, HookMatch, HookCreate, UserTrigger, BuildEnds, EditBranch, EditReset, Push,
         Stop, Restart, vars, dbVars, memVars
<1>7. baseline' \in 0 .. made' /\ origin' \in Branches \cup {None}
  <2>1. poll.sha \in 0 .. made /\ poll.ref \in Branches \cup {None}
        /\ baseline \in 0 .. made /\ origin \in Branches \cup {None}
    BY DEF TypeOK, PollType
  <2>2. \/ baseline' = poll.sha /\ origin' = poll.ref
        \/ baseline' = None /\ origin' = None
        \/ UNCHANGED <<baseline, origin>>
    BY DEF Next, PollerNext, PollRead, Probe, ProbeFails, CheckBuilt, CheckActive, PollCreate,
           Touch, HookMatch, HookCreate, UserTrigger, BuildEnds, EditBranch, EditReset, Push,
           Stop, Restart, vars, dbVars, memVars, histVars
  <2> QED  BY <1>2, <2>1, <2>2 DEF None
<1>8. matched' \subseteq 1 .. made'
  <2>1. matched \subseteq 1 .. made
    BY DEF TypeOK, Commits
  <2>2. \/ \E c \in 1 .. made : matched' = matched \cup {c}
        \/ \E c \in matched : matched' = matched \ {c}
        \/ matched' = {} \/ UNCHANGED matched
    BY DEF Next, PollerNext, PollRead, Probe, ProbeFails, CheckBuilt, CheckActive, PollCreate,
           Touch, HookMatch, HookCreate, UserTrigger, BuildEnds, EditBranch, EditReset, Push,
           Stop, Restart, vars, dbVars, memVars, Commits
  <2> QED  BY <1>2, <2>1, <2>2
<1>9. seeded' \subseteq 1 .. made'
  <2>1. seeded \subseteq 1 .. made
    BY DEF TypeOK, Commits
  <2>2. ASSUME Probe
        PROVE  tip[poll.ref] \in 1 .. made
    BY <2>2 DEF Probe, PollInv, TypeOK, Commits
  <2>3. (Probe /\ seeded' = seeded \cup {tip[poll.ref]}) \/ UNCHANGED seeded
    BY DEF Next, PollerNext, PollRead, Probe, ProbeFails, CheckBuilt, CheckActive, PollCreate,
           Touch, HookMatch, HookCreate, UserTrigger, BuildEnds, EditBranch, EditReset, Push,
           Stop, Restart, vars, dbVars, memVars, histVars
  <2>4. CASE Probe /\ seeded' = seeded \cup {tip[poll.ref]}
    <3>1. tip[poll.ref] \in 1 .. made /\ seeded' = seeded \cup {tip[poll.ref]}
      BY <2>2, <2>4
    <3> QED  BY <1>2, <2>1, <3>1
  <2>5. CASE UNCHANGED seeded
    BY <1>2, <2>1, <2>5
  <2> QED  BY <2>3, <2>4, <2>5
<1> QED  BY <1>1, <1>3, <1>5, <1>6, <1>7, <1>8, <1>9 DEF TypeOK, Commits

-------------------------------------------------------------------------------
(* What a step does to the builds of the poller                            *)

(* What was built stays built, and what was a first tip stays one.         *)
LEMMA CoverGrows ==
  ASSUME TypeOK, [Next]_vars
  PROVE  Built \subseteq Built' /\ seeded \subseteq seeded'
<1>1. builds \in Seq(BuildType)
  BY DEF TypeOK
<1>2. ASSUME PollCreate
      PROVE  Built \subseteq Built'
  BY <1>1, <1>2, PollInserts, InsertingBuilds
<1>3. ASSUME HookCreate
      PROVE  Built \subseteq Built'
  BY <1>1, <1>3, HookInserts, InsertingBuilds
<1>4. ASSUME UserTrigger
      PROVE  Built \subseteq Built'
  BY <1>1, <1>4, UserInserts, InsertingBuilds
<1>5. ASSUME NEW k \in DOMAIN builds, BuildEnds(k)
      PROVE  Built \subseteq Built'
  BY <1>1, <1>5, EndingBuilds DEF BuildEnds
<1>6. ASSUME UNCHANGED builds
      PROVE  Built \subseteq Built'
  BY <1>6 DEF Built
<1>7. \/ PollCreate \/ HookCreate \/ UserTrigger
      \/ \E k \in DOMAIN builds : BuildEnds(k)
      \/ UNCHANGED builds
  BY DEF Next, PollerNext, PollRead, Probe, ProbeFails, CheckBuilt, CheckActive, Touch,
         HookMatch, EditBranch, EditReset, Push, Stop, Restart, vars, dbVars
<1>8. seeded \subseteq seeded'
  BY DEF Next, PollerNext, PollRead, Probe, ProbeFails, CheckBuilt, CheckActive, PollCreate,
         Touch, HookMatch, HookCreate, UserTrigger, BuildEnds, EditBranch, EditReset, Push,
         Stop, Restart, vars, dbVars, histVars
<1> QED  BY <1>2, <1>3, <1>4, <1>5, <1>6, <1>7, <1>8

(* Nobody else's step adds a build of the poller or makes one active.      *)
LEMMA PolledKept ==
  ASSUME TypeOK, [Next]_vars, ~PollCreate, NEW i \in DOMAIN builds', builds'[i].by = "poll"
  PROVE  /\ Polled(i)
         /\ builds'[i].commit = builds[i].commit
         /\ builds'[i].active => builds[i].active
<1>1. builds \in Seq(BuildType)
  BY DEF TypeOK
<1>2. ASSUME NEW c \in 0 .. MaxCommits, NEW by \in {"hook", "user"}, Insert(c, by)
      PROVE  Polled(i) /\ builds'[i] = builds[i]
  <2>1. /\ DOMAIN builds' = DOMAIN builds \cup {Len(builds) + 1}
        /\ \A j \in DOMAIN builds : builds'[j] = builds[j]
        /\ builds'[Len(builds) + 1] = New(c, by)
    BY <1>1, <1>2, Inserting
  <2>2. New(c, by).by = by
    BY DEF New
  <2> HIDE DEF Polled
  <2> QED  BY <2>1, <2>2 DEF Polled
<1>3. CASE HookCreate
  BY <1>2, <1>3, HookInserts
<1>4. CASE UserTrigger
  BY <1>2, <1>4, UserInserts
<1>5. ASSUME NEW k \in DOMAIN builds, BuildEnds(k)
      PROVE  /\ Polled(i)
             /\ builds'[i].commit = builds[i].commit
             /\ builds'[i].active => builds[i].active
  <2>1. /\ DOMAIN builds' = DOMAIN builds
        /\ \A j \in DOMAIN builds : /\ builds'[j].commit = builds[j].commit
                                    /\ builds'[j].by = builds[j].by
                                    /\ builds'[j].active => builds[j].active
    BY <1>1, <1>5, Ending DEF BuildEnds
  <2> QED  BY <2>1 DEF Polled
<1>6. CASE UNCHANGED builds
  BY <1>6 DEF Polled
<1>7. \/ HookCreate \/ UserTrigger
      \/ \E k \in DOMAIN builds : BuildEnds(k)
      \/ UNCHANGED builds
  BY DEF Next, PollerNext, PollRead, Probe, ProbeFails, CheckBuilt, CheckActive, Touch,
         HookMatch, EditBranch, EditReset, Push, Stop, Restart, vars, dbVars
<1> QED  BY <1>3, <1>4, <1>5, <1>6, <1>7

(* The poller's own step adds the build of its commit.                     *)
LEMMA PolledAdded ==
  ASSUME TypeOK, PollCreate, NEW i \in DOMAIN builds', builds'[i].by = "poll"
  PROVE  \/ Polled(i) /\ builds'[i] = builds[i]
         \/ i = Len(builds) + 1 /\ builds'[i].commit = poll.sha
<1>1. poll.sha \in 0 .. MaxCommits /\ Insert(poll.sha, "poll") /\ builds \in Seq(BuildType)
  BY PollInserts DEF TypeOK
<1>2. /\ DOMAIN builds' = DOMAIN builds \cup {Len(builds) + 1}
      /\ \A j \in DOMAIN builds : builds'[j] = builds[j]
      /\ builds'[Len(builds) + 1] = New(poll.sha, "poll")
  BY <1>1, Inserting
<1> QED  BY <1>2 DEF Polled, New

-------------------------------------------------------------------------------
(* The parts of the invariant, one step at a time                          *)

(* Whatever the poller holds, and may yet record, stays covered.           *)
LEMMA CoverStep ==
  ASSUME TypeOK, PollInv, CoverInv, [Next]_vars
  PROVE  CoverInv'
<1> USE DEF CoverInv, Covered
<1>1. \A c : c \in Built \cup seeded => c \in Built' \cup seeded'
  BY CoverGrows
<1>2. ASSUME PollRead
      PROVE  CoverInv'
  BY <1>1, <1>2 DEF PollRead, dbVars, Idle, None
<1>3. ASSUME Probe
      PROVE  CoverInv'
  <2>1. CASE poll.prev = None
    <3>1. /\ poll' = Touching(tip[poll.ref], poll.ref)
          /\ seeded' = seeded \cup {tip[poll.ref]} /\ UNCHANGED <<builds, baseline>>
      BY <1>3, <2>1 DEF Probe, dbVars
    <3>2. poll'.prev = None /\ poll'.sha = tip[poll.ref]
      BY <3>1 DEF Touching, Idle, None
    <3>3. poll'.sha \in seeded'
      BY <3>1, <3>2
    <3> QED  BY <1>1, <3>1, <3>2, <3>3
  <2>2. CASE poll.prev # None /\ poll.prev = tip[poll.ref]
    <3>1. poll' = Touching(poll.prev, poll.ref) /\ UNCHANGED baseline
      BY <1>3, <2>2 DEF Probe, dbVars
    <3>2. poll'.prev = None /\ poll'.sha = poll.prev
      BY <3>1 DEF Touching, Idle, None
    <3> QED  BY <1>1, <2>2, <3>1, <3>2
  <2>3. CASE poll.prev \notin {None, tip[poll.ref]}
    <3>1. poll'.pc = "built" /\ poll'.prev = poll.prev /\ UNCHANGED baseline
      BY <1>3, <2>3 DEF Probe, dbVars, TypeOK, PollType
    <3> QED  BY <1>1, <3>1
  <2> QED  BY <2>1, <2>2, <2>3
<1>4. ASSUME CheckBuilt \/ CheckActive \/ PollCreate
      PROVE  CoverInv'
  <2>1. poll \in PollType /\ UNCHANGED baseline
    BY <1>4 DEF CheckBuilt, CheckActive, PollCreate, TypeOK, dbVars
  <2>2. CASE poll' \in {[poll EXCEPT !.pc = "active"], [poll EXCEPT !.pc = "create"]}
    <3>1. poll'.pc # "touch" /\ poll'.prev = poll.prev
      BY <2>1, <2>2 DEF PollType
    <3> QED  BY <1>1, <2>1, <3>1
  <2>3. ASSUME NEW sha, NEW ref, poll' = Touching(sha, ref), sha \in Built' \cup seeded'
        PROVE  CoverInv'
    <3>1. poll'.prev = None /\ poll'.sha = sha
      BY <2>3 DEF Touching, Idle, None
    <3> QED  BY <1>1, <2>1, <2>3, <3>1
  <2>4. CASE CheckBuilt
    BY <1>1, <2>2, <2>3, <2>4 DEF CheckBuilt, Record, Step
  <2>5. CASE CheckActive
    <3>1. poll.prev \in Built \cup seeded
      BY <2>5 DEF CheckActive, PollInv
    <3> QED  BY <1>1, <2>2, <2>3, <2>5, <3>1 DEF CheckActive, Record, Step
  <2>6. CASE PollCreate
    <3>1. poll.sha \in Built'
      BY <2>6, PollInserts, InsertingBuilds DEF TypeOK
    <3> QED  BY <2>3, <2>6, <3>1 DEF PollCreate, Record
  <2> QED  BY <1>4, <2>4, <2>5, <2>6
<1>5. ASSUME Touch
      PROVE  CoverInv'
  BY <1>1, <1>5 DEF Touch, Idle, None
<1>6. ASSUME poll' \in {Idle, Off} \/ UNCHANGED poll, baseline' = None \/ UNCHANGED baseline
      PROVE  CoverInv'
  BY <1>1, <1>6 DEF Idle, Off, None
<1> QED
  BY <1>2, <1>3, <1>4, <1>5, <1>6
     DEF Next, PollerNext, ProbeFails, HookMatch, HookCreate, UserTrigger, BuildEnds, EditBranch,
         EditReset, Push, Stop, Restart, vars, dbVars, memVars

(* How the poller comes to hold a commit it will build.                    *)
LEMMA Choosing ==
  ASSUME TypeOK, [Next]_vars, poll'.pc \in {"active", "create"}
  PROVE  /\ ~PollCreate
         /\ poll'.sha = poll.sha
         /\ poll.pc \in {"active", "create"} \/ poll.sha \notin Built
         /\ poll'.pc = "create" => poll.pc = "create" \/ ~HasActive
<1>1. poll \in PollType
  BY DEF TypeOK
<1>2. \A sha, ref : Touching(sha, ref).pc = "touch"
  BY DEF Touching, Idle
<1>3. ~PollRead /\ ~ProbeFails /\ ~PollCreate /\ ~Touch /\ ~Stop /\ ~Restart
  <2>1. ~PollRead
    BY DEF PollRead, Idle
  <2>2. poll' \notin {Idle, Off}
    BY DEF Idle, Off
  <2>3. ~PollCreate
    BY <1>2 DEF PollCreate, Record
  <2> QED  BY <2>1, <2>2, <2>3 DEF ProbeFails, Touch, Stop, Restart
<1>4. ~Probe
  BY <1>1, <1>2 DEF Probe, PollType
<1>5. ASSUME CheckBuilt
      PROVE  poll'.sha = poll.sha /\ poll'.pc = "active" /\ poll.sha \notin Built
  BY <1>1, <1>2, <1>5 DEF CheckBuilt, Record, Step, PollType
<1>6. ASSUME CheckActive
      PROVE  poll'.sha = poll.sha /\ poll.pc = "active" /\ poll'.pc = "create" /\ ~HasActive
  BY <1>1, <1>2, <1>6 DEF CheckActive, Record, Step, PollType
<1>7. CheckBuilt \/ CheckActive \/ UNCHANGED poll
  BY <1>3, <1>4 DEF Next, PollerNext, HookMatch, HookCreate, UserTrigger, BuildEnds, EditBranch,
                    EditReset, Push, vars, memVars
<1> QED  BY <1>3, <1>5, <1>6, <1>7

(* The poller has built none of the commits it is about to build.          *)
LEMMA OnceStep ==
  ASSUME TypeOK, OnceInv, [Next]_vars
  PROVE  OnceInv'
<1>1. ASSUME NEW i \in DOMAIN builds', NEW j \in DOMAIN builds',
             builds'[i].by = "poll", builds'[j].by = "poll", builds'[i].commit = builds'[j].commit
      PROVE  i = j
  <2>1. CASE PollCreate
    <3>1. \A k : Polled(k) => builds[k].commit # poll.sha
      BY <2>1 DEF OnceInv, PollCreate
    <3> QED  BY <1>1, <2>1, <3>1, PolledAdded DEF OnceInv, PolledOnce, Polled
  <2>2. CASE ~PollCreate
    BY <1>1, <2>2, PolledKept DEF OnceInv, PolledOnce, Polled
  <2> QED  BY <2>1, <2>2
<1>2. ASSUME poll'.pc \in {"active", "create"},
             NEW i \in DOMAIN builds', builds'[i].by = "poll"
      PROVE  builds'[i].commit # poll'.sha
  <2>1. Polled(i) /\ builds'[i].commit = builds[i].commit /\ poll'.sha = poll.sha
    BY <1>2, Choosing, PolledKept
  <2>2. CASE poll.pc \in {"active", "create"}
    BY <2>1, <2>2 DEF OnceInv
  <2>3. CASE poll.sha \notin Built
    BY <2>1, <2>3 DEF Built, Polled
  <2> QED  BY <1>2, <2>2, <2>3, Choosing
<1> QED  BY <1>1, <1>2 DEF OnceInv, PolledOnce, Polled

(* The poller has no active build when it is about to create one.          *)
LEMMA WaitStep ==
  ASSUME TypeOK, WaitInv, [Next]_vars
  PROVE  WaitInv'
<1>1. ASSUME NEW i \in DOMAIN builds', NEW j \in DOMAIN builds',
             builds'[i].by = "poll", builds'[j].by = "poll",
             builds'[i].active, builds'[j].active
      PROVE  i = j
  <2>1. CASE PollCreate
    <3>1. \A k : Polled(k) => ~builds[k].active
      BY <2>1 DEF WaitInv, PollCreate
    <3> QED  BY <1>1, <2>1, <3>1, PolledAdded
  <2>2. CASE ~PollCreate
    BY <1>1, <2>2, PolledKept DEF WaitInv, PolledBuildsWait, Polled
  <2> QED  BY <2>1, <2>2
<1>2. ASSUME poll'.pc = "create", NEW i \in DOMAIN builds', builds'[i].by = "poll"
      PROVE  ~builds'[i].active
  <2>1. Polled(i) /\ (builds'[i].active => builds[i].active)
    BY <1>2, Choosing, PolledKept
  <2>2. CASE poll.pc = "create"
    BY <2>1, <2>2 DEF WaitInv
  <2>3. CASE ~HasActive
    BY <2>1, <2>3 DEF HasActive, Polled
  <2> QED  BY <1>2, <2>2, <2>3, Choosing
<1> QED  BY <1>1, <1>2 DEF WaitInv, PolledBuildsWait, Polled

-------------------------------------------------------------------------------
(* The theorems                                                            *)

(* The parts hold at the start, when there is no build.                    *)
LEMMA Start ==
  ASSUME Init
  PROVE  IInv
<1>1. MaxCommits \in Nat /\ MaxCommits >= 1
  BY PollerConstants
<1>2. TypeOK
  <2>1. poll \in PollType
    BY <1>1 DEF Init, Idle, PollType, None
  <2>2. made \in 1 .. MaxCommits /\ tip \in [Branches -> Commits] /\ baseline \in 0 .. made
    BY <1>1 DEF Init, Commits, None
  <2>3. poll.pc = "idle" /\ builds \in Seq(BuildType)
    BY DEF Init, Idle
  <2> QED  BY <2>1, <2>2, <2>3 DEF Init, TypeOK
<1>3. PollInv /\ CoverInv
  BY DEF Init, PollInv, CoverInv, Idle, None
<1>4. OnceInv /\ WaitInv
  BY DEF Init, OnceInv, WaitInv, PolledOnce, PolledBuildsWait, Polled, Idle
<1> QED  BY <1>2, <1>3, <1>4 DEF IInv

(* IInv is an invariant: it is inductive, part by part.                    *)
THEOREM Invariance == Spec => []IInv
<1>1. Init => IInv
  BY Start
<1>2. IInv /\ [Next]_vars => IInv'
  BY TypeStep, CoverStep, OnceStep, WaitStep DEF IInv
<1> QED  BY <1>1, <1>2, PTL DEF Spec

(* Every variable keeps its type, and no empty tip is recorded.            *)
THEOREM TypeCorrect == Spec => []TypeOK
<1>1. IInv => TypeOK
  BY DEF IInv
<1> QED  BY <1>1, Invariance, PTL

(* No commit is recorded as seen that has no build and was no first tip,   *)
(* whatever the interleaving of poller, triggers, edits and restarts.      *)
THEOREM NoCommitForgotten == Spec => []BaselineIsCovered
<1>1. IInv => BaselineIsCovered
  BY DEF IInv, CoverInv, Covered, BaselineIsCovered
<1> QED  BY <1>1, Invariance, PTL

(* The poller builds a commit at most once.                                *)
THEOREM PollerBuildsOnce == Spec => []PolledOnce
<1>1. IInv => PolledOnce
  BY DEF IInv, OnceInv
<1> QED  BY <1>1, Invariance, PTL

(* At most one of the poller's builds is active.                           *)
THEOREM PollerWaits == Spec => []PolledBuildsWait
<1>1. IInv => PolledBuildsWait
  BY DEF IInv, WaitInv
<1> QED  BY <1>1, Invariance, PTL
===============================================================================
