------------------------------ MODULE FleetProofs ------------------------------
(***************************************************************************)
(* The safety properties of Fleet, for every finite set of claim requests  *)
(* and every TTL, hold (shorter than the TTL) and length of a pause.       *)
(***************************************************************************)
EXTENDS Fleet, FiniteSetTheorems, TLAPS

Steps    == {"idle", "persist", "insert", "look", "claim", "done"}
PollType == [pc : Steps, age : 0..Hold, excused : BOOLEAN]
PageType == [pc : {"idle", "rows", "fill"}, known : BOOLEAN, heard : {"no", "poll", "build"}]

(* TypeOK without the bound on the count.                                  *)
TypeBase ==
  /\ server \in [on : BOOLEAN, age : Ages]
  /\ reg \in [known : BOOLEAN, polling : Nat, last : Ages]
  /\ row \in [here : BOOLEAN, seen : Ages, pause : 0..MaxPause]
  /\ poll \in [Polls -> PollType]
  /\ build \in [runs : BOOLEAN, beat : Ages]
  /\ forgetting \in BOOLEAN /\ gone \in BOOLEAN
  /\ page \in PageType
  /\ ordered \in 0..MaxPause
  /\ heard \in [by : {"no", "poll", "build", "ended"}, age : Ages]

(* Every poll that is counted is open; an entry that is gone counts none.  *)
CountInv ==
  /\ reg.polling <= Cardinality(Open)
  /\ ~reg.known => reg.polling = 0

(* The pause in the row is the one that was ordered.                       *)
PauseInv == ordered = row.pause /\ NoWorkUnderPause

(* Who has an entry was seen since the start; who was heard from left a    *)
(* trace as young as that: an entry, a server that was started later, or a *)
(* heartbeat.                                                              *)
ClockInv ==
  /\ ~server.on => server.age = 0
  /\ reg.known => server.on /\ reg.last <= server.age
  /\ heard.by # "no" => heard.age < TTL
  /\ heard.by = "poll" => (reg.known /\ reg.last <= heard.age) \/ server.age <= heard.age
  /\ heard.by = "build" => build.runs /\ build.beat <= heard.age

(* A page keeps what that means: one that knows the agent is made by a     *)
(* server that has been up for long, one made soon after a poll is not,    *)
(* and the heartbeat is there until the page has read it.                  *)
PageInv ==
  page.pc # "idle" =>
    /\ page.known => ~Fresh(server.age)
    /\ page.heard = "poll" => Fresh(server.age)
    /\ page.heard = "build" => build.runs /\ Fresh(build.beat)

IInv == TypeBase /\ CountInv /\ PauseInv /\ ClockInv /\ PageInv

-------------------------------------------------------------------------------
(* Ages and positions                                                      *)

(* What becomes of ages and of what is left of a pause.                    *)
LEMMA AgesGrow ==
  /\ 0 \in Ages /\ TTL \in Ages /\ Fresh(0) /\ Ages \subseteq Nat
  /\ \A a \in Ages : Older(a) \in Ages
  /\ \A a, b \in Ages : a <= b => Older(a) <= Older(b)
  /\ \A n \in 0..MaxPause : Shorter(n) \in 0..MaxPause
BY FleetConstants DEF Ages, Older, Fresh, Shorter

(* A claim request goes on to another place, and nothing else of it        *)
(* changes.                                                                *)
LEMMA Going ==
  ASSUME poll \in [Polls -> PollType], NEW p \in Polls, NEW pc \in Steps, Goes(p, pc)
  PROVE  /\ poll' \in [Polls -> PollType]
         /\ poll'[p].pc = pc /\ ~poll'[p].excused
         /\ \A q \in Polls : q # p => poll'[q] = poll[q]
<1> DEFINE s == [poll[p] EXCEPT !.pc = pc, !.excused = FALSE]
<1>1. s \in PollType /\ s.pc = pc /\ ~s.excused
  BY DEF PollType
<1>2. poll' = [poll EXCEPT ![p] = s]
  BY DEF Goes
<1> HIDE DEF s
<1> QED  BY <1>1, <1>2

(* A turn of the claim's loop ends with another one or with the answer.    *)
LEMMA Waiting ==
  ASSUME NEW p \in Polls, Waits(p)
  PROVE  \E pc \in {"look", "done"} : Goes(p, pc)
BY DEF Waits

(* Which claim requests a step of one of them concerns.                    *)
ClaimStep(p) ==
  UpdateSighting(p) \/ InsertSighting(p) \/ CheckPause(p) \/ ClaimBuild(p) \/ HangUp(p)

(* A step of an open claim leaves it open, and leaves the others alone.    *)
LEMMA Claims ==
  ASSUME poll \in [Polls -> PollType], NEW p \in Polls, ClaimStep(p)
  PROVE  /\ poll' \in [Polls -> PollType]
         /\ poll[p].pc # "idle" /\ poll'[p].pc # "idle"
         /\ \A q \in Polls : q # p => poll'[q] = poll[q]
         /\ UNCHANGED <<server, reg, ordered, forgetting, page, observers>>
<1>1. UNCHANGED <<server, reg, ordered, forgetting, page, observers>> /\ poll[p].pc # "idle"
  BY DEF ClaimStep, UpdateSighting, InsertSighting, CheckPause, ClaimBuild, HangUp, records
<1>2. CASE \E pc \in Steps \ {"idle"} : Goes(p, pc)
  BY <1>1, <1>2, Going
<1>3. CASE poll' = [poll EXCEPT ![p].pc = "claim", ![p].excused = TRUE]
  <2> DEFINE s == [poll[p] EXCEPT !.pc = "claim", !.excused = TRUE]
  <2>1. s \in PollType /\ s.pc = "claim"
    BY DEF PollType, Steps
  <2>2. poll' = [poll EXCEPT ![p] = s]
    BY <1>3
  <2> HIDE DEF s
  <2> QED  BY <1>1, <2>1, <2>2
<1>4. (\E pc \in Steps \ {"idle"} : Goes(p, pc)) \/ poll' = [poll EXCEPT ![p].pc = "claim", ![p].excused = TRUE]
  <2>1. Waits(p) => \E pc \in Steps \ {"idle"} : Goes(p, pc)
    BY Waiting DEF Steps
  <2> QED
    BY <2>1 DEF ClaimStep, UpdateSighting, InsertSighting, CheckPause, ClaimBuild, HangUp, Steps
<1> QED  BY <1>2, <1>3, <1>4

-------------------------------------------------------------------------------
(* Types                                                                   *)

(* TypeBase holds at first, and every action keeps it.                     *)
LEMMA InitBase == Init => TypeBase
<1> SUFFICES ASSUME Init PROVE TypeBase
  OBVIOUS
<1>1. NoPoll \in PollType
  BY FleetConstants DEF NoPoll, PollType, Steps
<1>2. 0 \in 0..MaxPause
  BY FleetConstants
<1> QED
  BY <1>1, <1>2, AgesGrow
  DEF Init, TypeBase, NoSighting, NoRow, NoBuild, NoPage, Unheard, PageType

(* Any step of an open claim request.                                      *)
LEMMA ClaimsBase ==
  ASSUME TypeBase, NEW p \in Polls, ClaimStep(p)
  PROVE  TypeBase'
<1>1. /\ poll' \in [Polls -> PollType]
      /\ UNCHANGED <<server, reg, ordered, forgetting, page, observers>>
  BY Claims DEF TypeBase
<1>2. row' \in [here : BOOLEAN, seen : Ages, pause : 0..MaxPause]
  BY AgesGrow DEF ClaimStep, UpdateSighting, InsertSighting, CheckPause, ClaimBuild, HangUp,
                  InsertedRow, records, TypeBase
<1>3. build' \in [runs : BOOLEAN, beat : Ages]
  <2>1. build' = build \/ build' = [runs |-> TRUE, beat |-> 0]
    BY DEF ClaimStep, UpdateSighting, InsertSighting, CheckPause, ClaimBuild, HangUp, records
  <2>2. [runs |-> TRUE, beat |-> 0] \in [runs : BOOLEAN, beat : Ages]
    BY AgesGrow
  <2> QED  BY <2>1, <2>2 DEF TypeBase
<1> QED  BY <1>1, <1>2, <1>3 DEF TypeBase, observers

(* A claim request that begins.                                            *)
LEMMA PollStartedBase ==
  ASSUME TypeBase, NEW p \in Polls, PollStarted(p)
  PROVE  TypeBase'
<1>1. PICK pc \in {"persist", "look"} : poll' = [poll EXCEPT ![p] = [NoPoll EXCEPT !.pc = pc]]
  BY DEF PollStarted
<1>2. [NoPoll EXCEPT !.pc = pc] \in PollType
  <2>1. NoPoll \in PollType
    BY FleetConstants DEF NoPoll, PollType, Steps
  <2>2. pc \in Steps
    BY DEF Steps
  <2> QED  BY <2>1, <2>2 DEF PollType
<1>3. poll' \in [Polls -> PollType]
  BY <1>1, <1>2 DEF TypeBase
<1>4. reg.polling + 1 \in Nat
  BY DEF TypeBase
<1>5. reg' \in [known : BOOLEAN, polling : Nat, last : Ages]
  BY <1>4, AgesGrow DEF PollStarted
<1>6. heard' \in [by : {"no", "poll", "build", "ended"}, age : Ages]
  BY AgesGrow DEF PollStarted
<1> QED  BY <1>3, <1>5, <1>6 DEF PollStarted, TypeBase, records

(* A claim request that ends.                                              *)
LEMMA PollDoneBase ==
  ASSUME TypeBase, NEW p \in Polls, PollDone(p)
  PROVE  TypeBase'
<1>1. NoPoll \in PollType
  BY FleetConstants DEF NoPoll, PollType, Steps
<1>2. poll' \in [Polls -> PollType]
  BY <1>1 DEF PollDone, TypeBase
<1>3. OneLess(reg.polling) \in Nat
  BY DEF OneLess, TypeBase
<1>4. reg' \in [known : BOOLEAN, polling : Nat, last : Ages]
  BY <1>3, AgesGrow DEF PollDone, TypeBase
<1> QED  BY <1>2, <1>4 DEF PollDone, TypeBase, records, observers

(* The agent's other requests and the janitor.                             *)
LEMMA RequestsBase ==
  ASSUME TypeBase, Heartbeat \/ Finish \/ StatusReport \/ JanitorFails
  PROVE  TypeBase'
<1>1. CASE Heartbeat
  BY <1>1, AgesGrow DEF Heartbeat, TypeBase
<1>2. CASE Finish
  BY <1>2, AgesGrow DEF Finish, TypeBase, NoBuild, PageType
<1>3. CASE StatusReport
  BY <1>3 DEF StatusReport, TypeBase, observers
<1>4. CASE JanitorFails
  BY <1>4, AgesGrow DEF JanitorFails, TypeBase, NoBuild, observers
<1> QED  BY <1>1, <1>2, <1>3, <1>4

(* What the operator does.                                                 *)
LEMMA OperatorBase ==
  ASSUME TypeBase, Pause \/ Resume \/ ForgetRow \/ Forget
  PROVE  TypeBase'
<1>0. 0 \in 0..MaxPause
  BY FleetConstants
<1>1. CASE Pause
  <2>1. PICK n \in 1..MaxPause : row' = [row EXCEPT !.here = TRUE, !.pause = n] /\ ordered' = n
    BY <1>1 DEF Pause
  <2>2. n \in 0..MaxPause
    BY FleetConstants
  <2>3. poll' \in [Polls -> PollType]
    BY <1>1 DEF Pause, TypeBase, PollType
  <2> QED  BY <1>1, <2>1, <2>2, <2>3 DEF Pause, TypeBase, observers
<1>2. CASE Resume
  BY <1>0, <1>2 DEF Resume, TypeBase, observers
<1>3. CASE ForgetRow
  BY <1>0, <1>3, AgesGrow DEF ForgetRow, TypeBase, NoRow, observers
<1>4. CASE Forget
  BY <1>4, AgesGrow DEF Forget, TypeBase, NoSighting, Unheard, records
<1> QED  BY <1>1, <1>2, <1>3, <1>4

(* A page that has read the table is dropped, or goes on as it was.        *)
LEMMA PageGoesOn ==
  ASSUME page \in PageType, PageRows \/ PageFill
  PROVE  \/ page' = NoPage
         \/ page.pc = "rows" /\ page' = [page EXCEPT !.pc = "fill"]
<1>1. page.known \in BOOLEAN /\ [page EXCEPT !.pc = "fill", !.known = page.known] = [page EXCEPT !.pc = "fill"]
  BY DEF PageType
<1> QED  BY <1>1 DEF PageRows, PageFill, KnownAfterRow

(* The reads a page is made of.                                            *)
LEMMA PageBase ==
  ASSUME TypeBase, Assemble
  PROVE  TypeBase'
<1>1. page' \in PageType
  <2>1. CASE PageSnapshot
    BY <2>1 DEF PageSnapshot, TypeBase, PageType
  <2>2. CASE PageRows \/ PageFill
    <3>1. NoPage \in PageType
      BY DEF NoPage, PageType
    <3>2. [page EXCEPT !.pc = "fill"] \in PageType
      BY DEF TypeBase, PageType
    <3> QED  BY <2>2, <3>1, <3>2, PageGoesOn DEF TypeBase
  <2> QED  BY <2>1, <2>2 DEF Assemble
<1> QED  BY <1>1 DEF Assemble, PageSnapshot, PageRows, PageFill, TypeBase, records, observers

(* What a tick does to a claim request.                                    *)
LEMMA TickPolls ==
  ASSUME TypeBase, Tick
  PROVE  /\ poll' \in [Polls -> PollType]
         /\ \A p \in Polls : poll'[p].pc = poll[p].pc
         /\ \A p \in Polls : poll[p].pc = "claim" => poll'[p].excused = poll[p].excused
<1>1. ASSUME NEW p \in Polls
      PROVE  /\ poll'[p] \in PollType /\ poll'[p].pc = poll[p].pc
             /\ poll[p].pc = "claim" => poll'[p].excused = poll[p].excused
  <2>1. CASE poll[p].pc = "idle"
    <3>1. poll'[p] = NoPoll
      BY <2>1 DEF Tick
    <3> QED  BY <2>1, <3>1, FleetConstants DEF NoPoll, PollType, Steps
  <2>2. CASE poll[p].pc # "idle"
    <3>1. poll'[p] = [poll[p] EXCEPT !.age = @ + 1] /\ poll[p] \in PollType /\ poll[p].age < Hold
      BY <2>2 DEF Tick, TypeBase
    <3>2. poll[p].age + 1 \in 0..Hold
      BY <3>1, FleetConstants DEF PollType
    <3> QED  BY <3>1, <3>2 DEF PollType
  <2> QED  BY <2>1, <2>2
<1>2. DOMAIN poll' = Polls /\ poll' = [p \in Polls |-> poll'[p]]
  BY DEF Tick
<1> QED  BY <1>1, <1>2

(* Time, the process and the end of the agent.                             *)
LEMMA TimeBase ==
  ASSUME TypeBase, Tick \/ Down \/ Up \/ Unplug
  PROVE  TypeBase'
<1>1. CASE Tick
  <2>1. server' \in [on : BOOLEAN, age : Ages] /\ reg' \in [known : BOOLEAN, polling : Nat, last : Ages]
    BY <1>1, AgesGrow DEF Tick, TypeBase
  <2>2. row' \in [here : BOOLEAN, seen : Ages, pause : 0..MaxPause] /\ ordered' \in 0..MaxPause
    BY <1>1, AgesGrow DEF Tick, TypeBase
  <2>3. build' \in [runs : BOOLEAN, beat : Ages]
    BY <1>1, AgesGrow DEF Tick, TypeBase
  <2>4. heard' \in [by : {"no", "poll", "build", "ended"}, age : Ages]
    BY <1>1, AgesGrow DEF Tick, TypeBase, Unheard
  <2> QED  BY <1>1, <2>1, <2>2, <2>3, <2>4, TickPolls DEF Tick, TypeBase
<1>2. CASE Down
  <2>1. NoPoll \in PollType
    BY FleetConstants DEF NoPoll, PollType, Steps
  <2> QED  BY <1>2, <2>1, AgesGrow DEF Down, TypeBase, NoSighting, NoPage, PageType, records, observers
<1>3. CASE Up
  BY <1>3, AgesGrow DEF Up, TypeBase, records, observers
<1>4. CASE Unplug
  BY <1>4 DEF Unplug, TypeBase, records
<1> QED  BY <1>1, <1>2, <1>3, <1>4

(* The actions, grouped as they are treated below.                         *)
LEMMA Actions ==
  ASSUME [Next]_vars
  PROVE  \/ \E p \in Polls : PollStarted(p) \/ ClaimStep(p) \/ PollDone(p)
         \/ Heartbeat \/ Finish \/ StatusReport \/ JanitorFails
         \/ Pause \/ Resume \/ ForgetRow \/ Forget
         \/ Assemble
         \/ Tick \/ Down \/ Up \/ Unplug
         \/ UNCHANGED vars
BY DEF Next, Claiming, ClaimStep

(* Any step.                                                               *)
LEMMA BaseStep ==
  ASSUME TypeBase, [Next]_vars
  PROVE  TypeBase'
<1>1. CASE UNCHANGED vars
  BY <1>1 DEF vars, records, observers, TypeBase
<1> QED
  BY <1>1, Actions, PollStartedBase, ClaimsBase, PollDoneBase, RequestsBase, OperatorBase,
     PageBase, TimeBase

-------------------------------------------------------------------------------
(* The count of polls                                                      *)

(* The open claim requests can be counted.                                 *)
LEMMA OpenFinite == IsFiniteSet(Open) /\ Cardinality(Open) \in Nat
<1>1. Open \subseteq Polls
  BY DEF Open
<1> QED  BY <1>1, FleetConstants, FS_Subset, FS_CardinalityType

(* The registry never counts more claim requests than are open.            *)
LEMMA CountStep ==
  ASSUME TypeBase, CountInv, [Next]_vars
  PROVE  CountInv'
<1>1. ASSUME NEW p \in Polls, PollStarted(p)
      PROVE  CountInv'
  <2>1. p \notin Open /\ Open' = Open \cup {p}
    BY <1>1 DEF PollStarted, Open, NoPoll, TypeBase
  <2>2. Cardinality(Open') = Cardinality(Open) + 1
    BY <2>1, OpenFinite, FS_AddElement
  <2>3. reg'.known /\ reg'.polling = reg.polling + 1 /\ reg.polling \in Nat
    BY <1>1 DEF PollStarted, TypeBase
  <2> QED  BY <2>2, <2>3, OpenFinite DEF CountInv
<1>2. ASSUME NEW p \in Polls, PollDone(p)
      PROVE  CountInv'
  <2>1. p \in Open /\ Open' = Open \ {p}
    BY <1>2 DEF PollDone, Open, NoPoll, TypeBase
  <2>2. Cardinality(Open') = Cardinality(Open) - 1 /\ Cardinality(Open') \in Nat
    BY <2>1, OpenFinite, FS_RemoveElement, FS_CardinalityType
  <2>3. CASE reg.known
    <3>1. reg'.known /\ reg'.polling = OneLess(reg.polling) /\ reg.polling \in Nat
      BY <1>2, <2>3 DEF PollDone, TypeBase
    <3> QED  BY <2>2, <3>1, OpenFinite DEF CountInv, OneLess
  <2>4. CASE ~reg.known
    <3>1. reg' = reg /\ reg.polling = 0
      BY <1>2, <2>4 DEF PollDone, CountInv
    <3> QED  BY <2>2, <3>1 DEF CountInv
  <2> QED  BY <2>3, <2>4
<1>3. ASSUME Open' = Open, reg'.polling = reg.polling, reg'.known = reg.known
      PROVE  CountInv'
  BY <1>3 DEF CountInv
<1>4. ASSUME NEW p \in Polls, ClaimStep(p)
      PROVE  CountInv'
  <2>1. Open' = Open
    BY <1>4, Claims DEF Open, TypeBase
  <2>2. reg' = reg
    BY <1>4, Claims DEF TypeBase
  <2> QED  BY <1>3, <2>1, <2>2
<1>5. CASE Heartbeat \/ Finish \/ StatusReport \/ JanitorFails \/ Resume \/ ForgetRow \/ Assemble \/ Up \/ Unplug
  <2>1. UNCHANGED <<reg, poll>>
    BY <1>5 DEF Heartbeat, Finish, StatusReport, JanitorFails, Resume, ForgetRow, Assemble,
                PageSnapshot, PageRows, PageFill, Up, Unplug
  <2> QED  BY <1>3, <2>1 DEF Open
<1>6. CASE Pause
  <2>1. Open' = Open
    BY <1>6 DEF Pause, Open, TypeBase, PollType
  <2> QED  BY <1>3, <1>6, <2>1 DEF Pause
<1>7. CASE Forget
  <2>1. reg' = NoSighting /\ Open' = Open
    BY <1>7 DEF Forget, Open
  <2> QED  BY <2>1, OpenFinite DEF CountInv, NoSighting
<1>8. CASE Down
  <2>1. reg' = NoSighting /\ Open' = {}
    BY <1>8 DEF Down, Open, NoPoll
  <2> QED  BY <2>1, FS_EmptySet DEF CountInv, NoSighting
<1>9. CASE Tick
  <2>1. Open' = Open
    BY <1>9, TickPolls DEF Open
  <2>2. reg'.polling = reg.polling /\ reg'.known = reg.known
    BY <1>9 DEF Tick, TypeBase
  <2> QED  BY <1>3, <2>1, <2>2
<1>10. CASE UNCHANGED vars
  BY <1>3, <1>10 DEF vars, Open
<1> QED
  BY <1>1, <1>2, <1>4, <1>5, <1>6, <1>7, <1>8, <1>9, <1>10, Actions

-------------------------------------------------------------------------------
(* The pause                                                               *)

(* No poll comes to claim, and no pause is ordered.                        *)
LEMMA PauseKept ==
  ASSUME TypeBase, PauseInv, ordered' = row'.pause, ordered' > 0 => ordered > 0,
         \A p \in Polls : poll'[p].pc = "claim" =>
           poll[p].pc = "claim" /\ poll'[p].excused = poll[p].excused
  PROVE  PauseInv'
BY DEF PauseInv, NoWorkUnderPause

(* The pause in the row stays the one that was ordered.                    *)
LEMMA PauseStep ==
  ASSUME TypeBase, PauseInv, [Next]_vars
  PROVE  PauseInv'
<1>1. ASSUME NEW p \in Polls, PollStarted(p)
      PROVE  PauseInv'
  <2>1. \A q \in Polls : poll'[q].pc = "claim" => poll'[q] = poll[q]
    BY <1>1 DEF PollStarted, NoPoll, TypeBase
  <2>2. UNCHANGED <<ordered, row>>
    BY <1>1 DEF PollStarted, records
  <2> QED  BY <2>1, <2>2, PauseKept DEF PauseInv
<1>2. ASSUME NEW p \in Polls, PollDone(p)
      PROVE  PauseInv'
  <2>1. \A q \in Polls : poll'[q].pc = "claim" => poll'[q] = poll[q]
    BY <1>2 DEF PollDone, NoPoll, TypeBase
  <2>2. UNCHANGED <<ordered, row>>
    BY <1>2 DEF PollDone, records
  <2> QED  BY <2>1, <2>2, PauseKept DEF PauseInv
<1>3. ASSUME NEW p \in Polls, ClaimStep(p)
      PROVE  PauseInv'
  <2>1. ordered' = ordered /\ \A q \in Polls : q # p => poll'[q] = poll[q]
    BY <1>3, Claims DEF TypeBase
  <2>2. row'.pause = row.pause
    BY <1>3 DEF ClaimStep, UpdateSighting, InsertSighting, CheckPause, ClaimBuild, HangUp,
                InsertedRow, records, TypeBase
  <2>3. poll'[p].pc = "claim" /\ ordered' > 0 => poll'[p].excused
    <3>1. CASE CheckPause(p)
      <4>1. CASE row.pause = 0
        BY <2>1, <4>1 DEF PauseInv, TypeBase
      <4>2. CASE row.pause > 0 /\ Waits(p)
        <5>1. PICK pc \in {"look", "done"} : Goes(p, pc)
          BY <4>2, Waiting
        <5> QED  BY <5>1, Going DEF Steps, TypeBase
      <4>3. CASE poll' = [poll EXCEPT ![p].pc = "claim", ![p].excused = TRUE]
        BY <4>3 DEF TypeBase, PollType
      <4> QED  BY <3>1, <4>1, <4>2, <4>3 DEF CheckPause
    <3>2. CASE ~CheckPause(p)
      <4>1. \E pc \in {"look", "done", "insert"} : Goes(p, pc)
        BY <1>3, <3>2, Waiting
        DEF ClaimStep, UpdateSighting, InsertSighting, ClaimBuild, HangUp
      <4>2. PICK pc \in {"look", "done", "insert"} : Goes(p, pc)
        BY <4>1
      <4> QED  BY <4>2, Going DEF Steps, TypeBase
    <3> QED  BY <3>1, <3>2
  <2> QED  BY <2>1, <2>2, <2>3 DEF PauseInv, NoWorkUnderPause
<1>4. CASE Heartbeat \/ Finish \/ JanitorFails \/ Forget \/ Assemble \/ Up \/ Unplug
  <2>1. UNCHANGED <<ordered, row, poll>>
    BY <1>4 DEF Heartbeat, Finish, JanitorFails, Forget, Assemble, PageSnapshot, PageRows,
                PageFill, Up, Unplug, records
  <2> QED  BY <2>1 DEF PauseInv, NoWorkUnderPause
<1>5. CASE StatusReport
  <2>1. UNCHANGED <<ordered, poll>> /\ row'.pause = row.pause
    BY <1>5 DEF StatusReport, TypeBase
  <2> QED  BY <2>1 DEF PauseInv, NoWorkUnderPause
<1>6. CASE Pause
  <2>1. ordered' = row'.pause
    BY <1>6 DEF Pause, TypeBase
  <2>2. \A p \in Polls : poll'[p].pc = "claim" => poll'[p].excused
    BY <1>6 DEF Pause, TypeBase, PollType
  <2> QED  BY <2>1, <2>2 DEF PauseInv, NoWorkUnderPause
<1>7. CASE Resume \/ ForgetRow
  <2>1. ordered' = 0 /\ row'.pause = 0
    BY <1>7 DEF Resume, ForgetRow, NoRow, TypeBase
  <2> QED  BY <2>1 DEF PauseInv, NoWorkUnderPause
<1>8. CASE Down
  <2>1. UNCHANGED <<ordered, row>> /\ \A p \in Polls : poll'[p].pc = "idle"
    BY <1>8 DEF Down, NoPoll, records
  <2> QED  BY <2>1 DEF PauseInv, NoWorkUnderPause
<1>9. CASE Tick
  <2>1. ordered' = Shorter(ordered) /\ row'.pause = Shorter(row.pause)
    BY <1>9 DEF Tick, TypeBase
  <2>2. ordered' > 0 => ordered > 0
    BY <2>1 DEF Shorter, TypeBase
  <2> QED  BY <1>9, <2>1, <2>2, TickPolls, PauseKept DEF PauseInv
<1>10. CASE UNCHANGED vars
  BY <1>10 DEF vars, records, PauseInv, NoWorkUnderPause
<1> QED
  BY <1>1, <1>2, <1>3, <1>4, <1>5, <1>6, <1>7, <1>8, <1>9, <1>10, Actions

-------------------------------------------------------------------------------
(* Who was heard from                                                      *)

(* Whoever was heard from keeps a trace as young as that.                  *)
LEMMA ClockStep ==
  ASSUME TypeBase, ClockInv, [Next]_vars
  PROVE  ClockInv'
<1>0. 0 < TTL /\ TTL \in Nat
  BY FleetConstants
<1>1. ASSUME NEW p \in Polls, PollStarted(p)
      PROVE  ClockInv'
  BY <1>0, <1>1 DEF PollStarted, ClockInv, TypeBase, Ages, records
<1>2. ASSUME NEW p \in Polls, PollDone(p)
      PROVE  ClockInv'
  <2>1. /\ reg'.known = reg.known /\ (reg.known => reg'.last = 0)
        /\ UNCHANGED <<server, build, heard>>
    BY <1>2 DEF PollDone, TypeBase, records, observers
  <2> QED  BY <2>1 DEF ClockInv, TypeBase, Ages
<1>3. ASSUME NEW p \in Polls, ClaimStep(p)
      PROVE  ClockInv'
  <2>1. UNCHANGED <<server, reg, heard>>
    BY <1>3, Claims DEF TypeBase, observers
  <2>2. build' = build \/ ~build.runs
    BY <1>3 DEF ClaimStep, UpdateSighting, InsertSighting, CheckPause, ClaimBuild, HangUp, records
  <2> QED  BY <2>1, <2>2 DEF ClockInv
<1>4. CASE Heartbeat
  BY <1>0, <1>4 DEF Heartbeat, ClockInv, TypeBase
<1>5. CASE Finish
  BY <1>0, <1>5 DEF Finish, ClockInv
<1>6. CASE JanitorFails
  <2>1. heard.by # "build"
    BY <1>0, <1>6 DEF JanitorFails, ClockInv, Fresh, TypeBase, Ages
  <2> QED  BY <1>6, <2>1 DEF JanitorFails, ClockInv, observers
<1>7. CASE StatusReport \/ Pause \/ Resume \/ ForgetRow \/ Assemble \/ Unplug
  <2>1. UNCHANGED <<server, reg, build, heard>>
    BY <1>7 DEF StatusReport, Pause, Resume, ForgetRow, Assemble, PageSnapshot, PageRows,
                PageFill, Unplug, records, observers
  <2> QED  BY <2>1 DEF ClockInv
<1>8. CASE Forget
  BY <1>8 DEF Forget, ClockInv, NoSighting, Unheard, records
<1>9. CASE Down
  BY <1>9 DEF Down, ClockInv, NoSighting, records, observers, TypeBase, Ages
<1>10. CASE Up
  BY <1>10 DEF Up, ClockInv, records, observers, TypeBase
<1>11. CASE Tick
  <2>1. /\ server'.on = server.on
        /\ server'.age = IF server.on THEN Older(server.age) ELSE server.age
        /\ reg'.known = reg.known /\ reg'.last = Older(reg.last)
        /\ build'.runs = build.runs /\ build'.beat = Older(build.beat)
    BY <1>11 DEF Tick, TypeBase
  <2>2. server.age \in Ages /\ reg.last \in Ages /\ build.beat \in Ages /\ heard.age \in Ages
    BY DEF TypeBase
  <2>3. CASE Fresh(Older(heard.age))
    <3>1. heard'.by = heard.by /\ heard'.age = Older(heard.age) /\ heard'.age < TTL
      BY <1>11, <2>3 DEF Tick, TypeBase, Fresh
    <3>2. server.age <= heard.age => server'.age <= heard'.age
      BY <1>0, <2>1, <2>2, <3>1 DEF Older, Fresh, Ages
    <3> QED  BY <2>1, <2>2, <3>1, <3>2, AgesGrow DEF ClockInv
  <2>4. CASE ~Fresh(Older(heard.age))
    <3>1. heard'.by = "no"
      BY <1>11, <2>4 DEF Tick, Unheard
    <3> QED  BY <2>1, <2>2, <3>1, AgesGrow DEF ClockInv
  <2> QED  BY <2>3, <2>4
<1>12. CASE UNCHANGED vars
  BY <1>12 DEF vars, records, observers, ClockInv
<1> QED
  BY <1>1, <1>2, <1>3, <1>4, <1>5, <1>6, <1>7, <1>8, <1>9, <1>10, <1>11, <1>12, Actions

(* What a page has read stays true until it is finished.                   *)
LEMMA PageStep ==
  ASSUME TypeBase, ClockInv, PageInv, [Next]_vars
  PROVE  PageInv'
<1>1. CASE PageSnapshot
  <2>1. /\ page'.known = reg.known
        /\ page'.heard = IF heard.by = "ended" THEN "no" ELSE heard.by
        /\ ~Fresh(reg.last)
        /\ UNCHANGED <<server, build>>
    BY <1>1 DEF PageSnapshot, Sees, records
  <2>2. reg.known => ~Fresh(server.age)
    BY <2>1, FleetConstants DEF ClockInv, Fresh, TypeBase, Ages
  <2>3. heard.by = "poll" => Fresh(server.age)
    BY <2>1, FleetConstants DEF ClockInv, Fresh, TypeBase, Ages
  <2>4. heard.by = "build" => build.runs /\ Fresh(build.beat)
    BY FleetConstants DEF ClockInv, Fresh, TypeBase, Ages
  <2> QED  BY <2>1, <2>2, <2>3, <2>4 DEF PageInv
<1>2. CASE PageRows \/ PageFill
  <2>1. UNCHANGED <<server, build>>
    BY <1>2 DEF PageRows, PageFill, records
  <2>2. page'.pc = "idle" \/ (page'.known = page.known /\ page'.heard = page.heard /\ page.pc # "idle")
    <3>1. CASE page' = NoPage
      BY <3>1 DEF NoPage
    <3>2. CASE page.pc = "rows" /\ page' = [page EXCEPT !.pc = "fill"]
      BY <3>2 DEF TypeBase, PageType
    <3> QED  BY <1>2, <3>1, <3>2, PageGoesOn DEF TypeBase
  <2> QED  BY <2>1, <2>2 DEF PageInv
<1>3. ASSUME NEW p \in Polls, ClaimStep(p)
      PROVE  PageInv'
  <2>1. UNCHANGED <<server, page>>
    BY <1>3, Claims DEF TypeBase
  <2>2. build' = build \/ ~build.runs
    BY <1>3 DEF ClaimStep, UpdateSighting, InsertSighting, CheckPause, ClaimBuild, HangUp, records
  <2> QED  BY <2>1, <2>2 DEF PageInv
<1>4. CASE Heartbeat
  BY <1>4, AgesGrow DEF Heartbeat, PageInv, TypeBase
<1>5. CASE Finish
  BY <1>5 DEF Finish, PageInv, TypeBase, PageType
<1>6. CASE JanitorFails
  BY <1>6 DEF JanitorFails, PageInv
<1>7. ASSUME UNCHANGED <<server, build, page>>
      PROVE  PageInv'
  BY <1>7 DEF PageInv
<1>8. ASSUME NEW p \in Polls, PollStarted(p) \/ PollDone(p)
      PROVE  PageInv'
  BY <1>7, <1>8 DEF PollStarted, PollDone, records
<1>9. CASE StatusReport \/ Pause \/ Resume \/ ForgetRow \/ Forget \/ Unplug
  BY <1>7, <1>9 DEF StatusReport, Pause, Resume, ForgetRow, Forget, Unplug, records
<1>10. CASE Tick
  BY <1>10 DEF Tick, PageInv
<1>11. CASE Down
  BY <1>11 DEF Down, PageInv, NoPage
<1>12. CASE Up
  <2>1. server'.age = server.age /\ UNCHANGED <<build, page>>
    BY <1>12 DEF Up, ClockInv, records
  <2> QED  BY <2>1 DEF PageInv
<1>13. CASE UNCHANGED vars
  BY <1>7, <1>13 DEF vars, records
<1> QED
  BY <1>1, <1>2, <1>3, <1>4, <1>5, <1>6, <1>8, <1>9, <1>10, <1>11, <1>12, <1>13, Actions
  DEF Assemble

-------------------------------------------------------------------------------

(* The invariant holds at first.                                           *)
LEMMA InitInv == Init => IInv
<1> SUFFICES ASSUME Init PROVE IInv
  OBVIOUS
<1>1. CountInv
  <2>1. Open = {}
    BY DEF Init, Open, NoPoll
  <2> QED  BY <2>1, FS_EmptySet DEF Init, CountInv, NoSighting
<1>2. PauseInv
  BY DEF Init, PauseInv, NoWorkUnderPause, NoRow
<1>3. ClockInv
  BY DEF Init, ClockInv, NoSighting, Unheard
<1>4. PageInv
  BY DEF Init, PageInv, NoPage
<1> QED  BY <1>1, <1>2, <1>3, <1>4, InitBase DEF IInv

(* The invariant that the properties follow from is inductive.             *)
THEOREM Invariance == Spec => []IInv
<1>1. IInv /\ [Next]_vars => IInv'
  BY BaseStep, CountStep, PauseStep, ClockStep, PageStep DEF IInv
<1> QED  BY InitInv, <1>1, PTL DEF Spec

(* Every variable keeps its type, no more polls are counted than are open, *)
(* and no claim request outlives its hold.                                 *)
THEOREM TypeCorrect == Spec => []TypeOK
<1>1. IInv => TypeOK
  <2> SUFFICES ASSUME IInv PROVE TypeOK
    OBVIOUS
  <2>1. reg.polling \in 0..Cardinality(Open)
    BY OpenFinite DEF IInv, CountInv, TypeBase
  <2>2. reg \in [known : BOOLEAN, polling : 0..Cardinality(Open), last : Ages]
    BY <2>1 DEF IInv, TypeBase
  <2> QED  BY <2>2 DEF IInv, TypeBase, TypeOK, PollType, PageType, Steps
<1> QED  BY <1>1, Invariance, PTL

(* No poll that has looked since the order claims while a pause lasts.     *)
THEOREM PauseIsKept == Spec => []NoWorkUnderPause
BY Invariance, PTL DEF IInv, PauseInv

(* Who is called offline was not heard from within the TTL by a server     *)
(* that has been up for one.                                               *)
THEOREM OfflineIsTrue == Spec => []OfflineMeansSilent
<1>1. IInv => OfflineMeansSilent
  <2> SUFFICES ASSUME IInv, CalledOffline
               PROVE  page.heard = "no" /\ ~Fresh(server.age)
    BY DEF OfflineMeansSilent
  <2>1. page.pc = "fill" /\ ~(build.runs /\ Fresh(build.beat)) /\ (page.known \/ ~Fresh(server.age))
    BY DEF CalledOffline, State
  <2>2. ~Fresh(server.age)
    BY <2>1 DEF IInv, PageInv
  <2>3. page.heard # "poll" /\ page.heard # "build"
    BY <2>1, <2>2 DEF IInv, PageInv
  <2>4. page.heard \in {"no", "poll", "build"}
    BY DEF IInv, TypeBase, PageType
  <2> QED  BY <2>2, <2>3, <2>4
<1> QED  BY <1>1, Invariance, PTL
===============================================================================
