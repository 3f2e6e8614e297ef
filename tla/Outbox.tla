-------------------------------- MODULE Outbox --------------------------------
(***************************************************************************)
(* The notification outbox of one project: events that triggers and the    *)
(* agents' observer capture, the worker that submits them to the relay and *)
(* follows their receipts, and the operator's switches.                    *)
(*                                                                         *)
(* An event is the outcome of a build or a change of an agent's state; the *)
(* latter are numbered by the revision of the observation.  Every change   *)
(* of a row goes through Write, every SQL transaction is one step, and a   *)
(* request to the relay begins in one step and is answered in another.     *)
(***************************************************************************)
EXTENDS Naturals, FiniteSets

CONSTANTS
  Builds,       (* builds whose outcome will come                          *)
  MaxRevisions, (* bound: observed changes of the agent                    *)
  MaxSecrets,   (* bound: what the payload may be scrubbed with            *)
  Limit,        (* NotificationQueueLimit                                  *)
  None          (* no notification in hand                                 *)

Alerts == 1 .. MaxRevisions
Events == Builds \cup Alerts

ASSUME OutboxConstants ==
  /\ IsFiniteSet(Builds)
  /\ MaxRevisions \in Nat /\ MaxSecrets \in Nat \ {0} /\ Limit \in Nat \ {0}
  /\ Builds \cap Alerts = {} /\ None \notin Events

VARIABLES
  (* the database *)
  row,          (* notification_outbox, by event                           *)
  enabled,      (* projects.telegram_notifications                         *)
  allowed,      (* the agent's preferences                                 *)
  capture,      (* telegram_capture_enabled                                *)
  ended,        (* builds with an outcome, notification_build_seen         *)
  revision,     (* notification_agent_kind_seen                            *)
  secrets,      (* the version of the project's secrets and name           *)
  (* the server process *)
  key,          (* whether there is a relay key                            *)
  held,         (* relayNext and routeBackoff: what is not to be asked yet *)
  worker,       (* where the worker is and what it has in hand             *)
  batch,        (* the rest of DueNotifications                            *)
  (* observers *)
  posted,       (* the payloads that were sent for an event                *)
  void          (* events that were retired while nobody was sending them  *)

rowVars    == <<row, void>>
switchVars == <<enabled, allowed, capture, secrets>>
factVars   == <<ended, revision>>
memVars    == <<key, held, worker, batch>>
vars == <<rowVars, switchVars, factVars, memVars, posted>>

Queued  == {"pending", "submitted"}
Retired == {"muted", "suppressed", "expired"}
Settled == {"delivered", "failed"}

(* agent tells the agent's events from those of the local runner; payload  *)
(* 0 is the empty text; age counts the two limits, a day and a week; a row *)
(* that was never captured and one that was removed are not in the table.  *)
NoRow == [state |-> "none", id |-> 0, agent |-> FALSE, payload |-> 0,
          receipt |-> FALSE, due |-> FALSE, age |-> 0]
Gone  == [NoRow EXCEPT !.state = "gone"]
Day  == 1
Week == 2

Present(rows) == {e \in Events : rows[e].state \notin {"none", "gone"}}
IsQueued(rows, e) == rows[e].state \in Queued

(* Whether an event may be captured, and sent, that is the agent's or not. *)
Allows(agent) == enabled /\ capture /\ (agent => allowed)
Allowed(e) == Allows(row[e].agent)

Sending(e) == worker.pc \in {"post", "answer"} /\ worker.n.event = e /\ worker.n.state = "pending"

Write(rows) ==
  /\ row' = rows
  /\ void' = void \cup {e \in Events : row[e].state = "pending" /\ rows[e].state \in Retired
                                       /\ ~Sending(e)}

(* Every pending row of S gets the state s.                                *)
Retire(rows, S, s) ==
  [e \in Events |-> IF e \in S /\ rows[e].state = "pending"
                    THEN [rows[e] EXCEPT !.state = s, !.due = FALSE] ELSE rows[e]]

(* UpdateNotification: the outcome of a row that has one stays.            *)
Update(e, s) ==
  IF row[e].state \in Queued THEN [row EXCEPT ![e].state = s, ![e].due = FALSE] ELSE row

(* A table over its limit loses its first row: a completed one, if any, by *)
(* age otherwise.  (The mutant lets it grow.)                              *)
First(rows, S) == CHOOSE e \in S : \A f \in S : rows[e].id <= rows[f].id
Untrimmed(rows) == rows
Trim(rows) ==
  LET completed == {e \in Present(rows) : ~IsQueued(rows, e)} IN
  IF Cardinality(Present(rows)) <= Limit THEN rows
  ELSE [rows EXCEPT ![First(rows, IF completed # {} THEN completed ELSE Present(rows))] = Gone]

(* A captured event is a new row, pending and due at once.                 *)
Capture(e, agent, payload) ==
  LET id == Cardinality({f \in Events : row[f].state # "none"}) + 1
  IN  IF Allows(agent)
      THEN Trim([row EXCEPT ![e] = [NoRow EXCEPT !.state = "pending", !.id = id,
                                                 !.agent = agent, !.payload = payload, !.due = TRUE]])
      ELSE Trim(row)

(* The worker between two sweeps.                                          *)
Idle == [pc |-> "idle", n |-> None, reply |-> "none"]
At(pc) == worker.pc = pc

Init ==
  /\ row = [e \in Events |-> NoRow]
  /\ enabled = TRUE /\ allowed = TRUE /\ secrets = 1
  /\ ended = {} /\ revision = 0
  /\ key \in BOOLEAN /\ capture = key /\ held = {}
  /\ worker = Idle /\ batch = {}
  /\ posted = [e \in Events |-> {}]
  /\ void = {}

-------------------------------------------------------------------------------
(* Capture and switches.                                                   *)

(* The trigger on the outcome of a build, which an agent ran or not.       *)
Outcome(b) ==
  /\ b \notin ended
  /\ ended' = ended \cup {b}
  /\ \E agent \in BOOLEAN : Write(Capture(b, agent, 0))
  /\ UNCHANGED <<switchVars, revision, memVars, posted>>

(* An edit of the project; its trigger mutes what is pending.              *)
SwitchProject ==
  /\ enabled' \in BOOLEAN
  /\ Write(IF enabled /\ ~enabled' THEN Retire(row, Events, "muted") ELSE row)
  /\ UNCHANGED <<allowed, capture, secrets, factVars, memVars, posted>>

(* UpdateAgentNotificationPreferences retires under the old preferences    *)
(* and under the new.  (The mutant leaves the rows to the worker's gate.)  *)
SwitchAgentOnly ==
  /\ allowed' \in BOOLEAN
  /\ Write(row)
  /\ UNCHANGED <<enabled, capture, secrets, factVars, memVars, posted>>

SwitchAgent ==
  /\ allowed' \in BOOLEAN
  /\ Write(IF allowed /\ allowed' THEN row ELSE Retire(row, {e \in Events : row[e].agent}, "muted"))
  /\ UNCHANGED <<enabled, capture, secrets, factVars, memVars, posted>>

(* An edit of the project's secrets or name.                               *)
EditSecrets ==
  /\ secrets < MaxSecrets
  /\ secrets' = secrets + 1
  /\ UNCHANGED <<rowVars, enabled, allowed, capture, factVars, memVars, posted>>

-------------------------------------------------------------------------------
(* The worker: Sweep, process and delivery.                                *)

Goto(pc) == worker' = [worker EXCEPT !.pc = pc]
Done == worker' = [Idle EXCEPT !.pc = "next"]

(* PruneNotifications: a day ends the tries, a week the row.  (The mutant  *)
(* keeps what was submitted.)                                              *)
Expired(e) == row[e].state = "pending" /\ row[e].age >= Day
Pruned(old) == Trim([e \in Events |->
                       IF e \in old THEN Gone
                       ELSE IF Expired(e) THEN [row[e] EXCEPT !.state = "expired", !.due = FALSE]
                       ELSE row[e]])
PruneUnsent ==
  /\ At("idle")
  /\ Write(Pruned({e \in Events : row[e].age = Week /\ row[e].state # "submitted"}))
  /\ Goto(IF key THEN "observe" ELSE "disable")
  /\ UNCHANGED <<switchVars, factVars, key, held, batch, posted>>

Prune ==
  /\ At("idle")
  /\ Write(Pruned({e \in Events : row[e].age = Week}))
  /\ Goto(IF key THEN "observe" ELSE "disable")
  /\ UNCHANGED <<switchVars, factVars, key, held, batch, posted>>

(* SetTelegramCapture                                                      *)
SetCapture(on) ==
  /\ capture' = on
  /\ Write(IF on THEN row ELSE Retire(row, Events, "suppressed"))

(* A sweep without a key.                                                  *)
Disable ==
  /\ At("disable")
  /\ SetCapture(FALSE)
  /\ worker' = Idle
  /\ UNCHANGED <<enabled, allowed, secrets, factVars, key, held, batch, posted>>

(* ObserveNotificationAgentKind: a change has a new revision, also when it *)
(* is not captured; a first one that is healthy never is.  There may be    *)
(* nothing to observe, or no change.                                       *)
ObserveChange ==
  /\ At("observe") /\ revision < MaxRevisions
  /\ revision' = revision + 1
  /\ Write(Capture(revision + 1, TRUE, secrets)) \/ (revision = 0 /\ Write(row))
  /\ UNCHANGED <<switchVars, ended, memVars, posted>>

(* The relay's gate ends the sweep.                                        *)
ObserveDone ==
  /\ At("observe")
  /\ IF "relay" \in held THEN worker' = Idle ELSE Goto("route")
  /\ UNCHANGED <<rowVars, switchVars, factVars, key, held, batch, posted>>

(* verifyRoute: the route is good, is not, or cannot be asked: a lost      *)
(* answer, or a relay that wants to be left alone.  After a failure it is  *)
(* not asked for a while.                                                  *)
RouteGood(pc) ==
  /\ held = {}
  /\ SetCapture(TRUE)
  /\ Goto(pc)
  /\ UNCHANGED held

RouteGone(pc) ==
  /\ held = {} /\ held' = {"route"}
  /\ SetCapture(FALSE)
  /\ Goto(pc)

RouteUnknown(pc) ==
  /\ \/ "route" \in held /\ held' = held
     \/ "route" \notin held /\ held' \in {held \cup {"route"}, {"route", "relay"}}
  /\ Goto(pc)
  /\ UNCHANGED <<rowVars, capture>>

(* The answer to the first question does not matter to the sweep.          *)
AskRoute ==
  /\ At("route")
  /\ RouteGood("due") \/ RouteGone("due") \/ RouteUnknown("due")
  /\ UNCHANGED <<enabled, allowed, secrets, factVars, key, batch, posted>>

(* DueNotifications                                                        *)
Due ==
  /\ At("due")
  /\ batch' = {[event |-> e, state |-> row[e].state, payload |-> row[e].payload] :
                 e \in {f \in Events : row[f].state \in Queued /\ row[f].due}}
  /\ Goto("first")
  /\ UNCHANGED <<rowVars, switchVars, factVars, key, held, posted>>

(* The first of the batch is taken whatever the relay said about the route.*)
Take ==
  /\ At("first") \/ (At("next") /\ "relay" \notin held)
  /\ \E n \in batch :
       /\ batch' = batch \ {n}
       /\ worker' = [pc |-> IF n.state = "submitted" THEN "receipt" ELSE "look", n |-> n, reply |-> "none"]
  /\ UNCHANGED <<rowVars, switchVars, factVars, key, held, posted>>

(* The batch is done, the relay wants to be left alone, or the sweep's     *)
(* eight seconds are over.                                                 *)
SweepEnds ==
  /\ At("first") \/ At("next")
  /\ worker' = Idle /\ batch' = {}
  /\ UNCHANGED <<rowVars, switchVars, factVars, key, held, posted>>

Now == worker.n.event

(* The project is read, and read again once the route is known; a text is  *)
(* made only if there is none.  (The mutant makes one for every try.)      *)
LookAnew ==
  /\ At("look")
  /\ Goto(IF ~enabled THEN "mute" ELSE "compose")
  /\ UNCHANGED <<rowVars, switchVars, factVars, key, held, batch, posted>>

Look ==
  /\ At("look")
  /\ Goto(IF ~enabled THEN "mute" ELSE IF worker.n.payload = 0 THEN "compose" ELSE "check")
  /\ UNCHANGED <<rowVars, switchVars, factVars, key, held, batch, posted>>

Reread ==
  /\ At("reread")
  /\ Goto(IF enabled THEN "gate" ELSE "mute")
  /\ UNCHANGED <<rowVars, switchVars, factVars, key, held, batch, posted>>

Mute ==
  /\ At("mute")
  /\ Write(Update(Now, "muted"))
  /\ Done
  /\ UNCHANGED <<switchVars, factVars, key, held, batch, posted>>

(* SetNotificationPayload: the text is made once and kept.                 *)
Compose ==
  /\ At("compose")
  /\ worker' = [worker EXCEPT !.pc = "check", !.n.payload = secrets]
  /\ Write(IF row[Now].payload = 0 /\ row[Now].state # "gone"
            THEN [row EXCEPT ![Now].payload = secrets] ELSE row)
  /\ UNCHANGED <<switchVars, factVars, key, held, batch, posted>>

CheckRoute ==
  /\ At("check")
  /\ RouteGood("reread") \/ RouteGone("retry") \/ RouteUnknown("retry")
  /\ UNCHANGED <<enabled, allowed, secrets, factVars, key, batch, posted>>

(* NotificationCanSubmit.  (The mutant asks the switches only.)            *)
GateSwitches ==
  /\ At("gate")
  /\ Write(IF Allowed(Now) THEN row ELSE Retire(row, {Now}, "muted"))
  /\ IF Allowed(Now) THEN Goto("post") ELSE Done
  /\ UNCHANGED <<switchVars, factVars, key, held, batch, posted>>

Gate ==
  /\ At("gate")
  /\ Write(IF Allowed(Now) THEN row ELSE Retire(row, {Now}, "muted"))
  /\ IF Allowed(Now) /\ row[Now].state = "pending" THEN Goto("post") ELSE Done
  /\ UNCHANGED <<switchVars, factVars, key, held, batch, posted>>

(* The POST begins.  The answer is a receipt with the state it leads to,   *)
(* a refusal for good, or anything else, a lost answer among it.           *)
Post ==
  /\ At("post")
  /\ posted' = [posted EXCEPT ![Now] = @ \cup {worker.n.payload}]
  /\ \E reply \in {"submitted", "delivered", "failed", "refused", "unclear"} :
       worker' = [worker EXCEPT !.pc = "answer", !.reply = reply]
  /\ UNCHANGED <<rowVars, switchVars, factVars, key, held, batch>>

(* The GET of a receipt, which may be unclear as well, or not be sent.     *)
AskReceipt ==
  /\ At("receipt")
  /\ \E reply \in {"unclear"} \cup (IF "relay" \in held THEN {} ELSE Settled \cup {"submitted"}) :
       worker' = [worker EXCEPT !.pc = "answer", !.reply = reply]
  /\ UNCHANGED <<rowVars, switchVars, factVars, key, held, batch, posted>>

(* RecordNotificationAcceptance: a receipt of a POST counts also for a row *)
(* that was muted meanwhile.  (The mutant forgets the relay's number.)     *)
RecordWithout ==
  /\ At("answer") /\ worker.n.state = "pending"
  /\ worker.reply \in Settled \cup {"submitted"}
  /\ Write(IF row[Now].state \in {"pending", "muted", "suppressed"}
            THEN [row EXCEPT ![Now].state = worker.reply, ![Now].due = FALSE] ELSE row)
  /\ Done
  /\ UNCHANGED <<switchVars, factVars, key, held, batch, posted>>

Record ==
  /\ At("answer") /\ worker.n.state = "pending"
  /\ worker.reply \in Settled \cup {"submitted"}
  /\ Write(IF ~row[Now].receipt /\ row[Now].state \in {"pending", "muted", "suppressed"}
            THEN [row EXCEPT ![Now].state = worker.reply, ![Now].receipt = TRUE, ![Now].due = FALSE]
            ELSE row)
  /\ Done
  /\ UNCHANGED <<switchVars, factVars, key, held, batch, posted>>

Follow ==
  /\ At("answer") /\ worker.n.state = "submitted" /\ worker.reply # "unclear"
  /\ Write(Update(Now, worker.reply))
  /\ Done
  /\ UNCHANGED <<switchVars, factVars, key, held, batch, posted>>

Refused ==
  /\ At("answer") /\ worker.reply = "refused"
  /\ Write(Update(Now, "failed"))
  /\ Done
  /\ UNCHANGED <<switchVars, factVars, key, held, batch, posted>>

Unclear ==
  /\ At("answer") /\ worker.reply = "unclear"
  /\ held' \in {held, held \cup {"relay"}}
  /\ worker' = [worker EXCEPT !.pc = "retry", !.reply = "none"]
  /\ UNCHANGED <<rowVars, switchVars, factVars, key, batch, posted>>

(* retry writes back the state it was read with.  (The mutant begins anew.)*)
RetryAnew ==
  /\ At("retry")
  /\ Write(Update(Now, "pending"))
  /\ Done
  /\ UNCHANGED <<switchVars, factVars, key, held, batch, posted>>

Retry ==
  /\ At("retry")
  /\ Write(Update(Now, worker.n.state))
  /\ Done
  /\ UNCHANGED <<switchVars, factVars, key, held, batch, posted>>

WorkerNext ==
  \/ Prune \/ Disable \/ ObserveChange \/ ObserveDone \/ AskRoute \/ Due \/ Take \/ SweepEnds
  \/ Look \/ Reread \/ Mute \/ Compose \/ CheckRoute \/ Gate \/ Post \/ AskReceipt
  \/ Record \/ Follow \/ Refused \/ Unclear \/ Retry

-------------------------------------------------------------------------------
(* Time and restarts.  A sweep has one time from its beginning to its end, *)
(* and what passes while the process is down is seen by its first sweep.   *)

(* A retry, or the next look at a receipt, comes due.                      *)
ComesDue(e) ==
  /\ At("idle") /\ row[e].state \in Queued /\ ~row[e].due
  /\ row' = [row EXCEPT ![e].due = TRUE]
  /\ UNCHANGED <<void, switchVars, factVars, memVars, posted>>

Ages(e) ==
  /\ At("idle") /\ e \in Present(row) /\ row[e].age < Week
  /\ row' = [row EXCEPT ![e].age = @ + 1]
  /\ UNCHANGED <<void, switchVars, factVars, memVars, posted>>

(* relayNext or routeBackoff passes.                                       *)
Released ==
  /\ At("idle")
  /\ \E what \in held : held' = held \ {what}
  /\ UNCHANGED <<rowVars, switchVars, factVars, key, worker, batch, posted>>

(* The process ends and starts again, with a key or without: FromEnv.      *)
Restart ==
  /\ worker' = Idle /\ batch' = {}
  /\ key' \in BOOLEAN
  /\ IF key' THEN UNCHANGED <<rowVars, capture>> ELSE SetCapture(FALSE)
  /\ UNCHANGED <<enabled, allowed, secrets, factVars, held, posted>>

Next ==
  \/ \E b \in Builds : Outcome(b)
  \/ SwitchProject \/ SwitchAgent \/ EditSecrets
  \/ WorkerNext
  \/ \E e \in Events : ComesDue(e) \/ Ages(e)
  \/ Released
  \/ Restart

Spec == Init /\ [][Next]_vars

(* Requests time out and a sweep goes on; days pass, and sweeps begin, now *)
(* and then, however often the process is restarted in between.            *)
Fairness ==
  /\ WF_vars(WorkerNext)
  /\ SF_vars(Prune)
  /\ SF_vars(\E e \in Events : Ages(e))

FairSpec == Spec /\ Fairness

-------------------------------------------------------------------------------
(* Properties *)

RowType == [state : Queued \cup Retired \cup Settled \cup {"none", "gone"},
            id : 0 .. Cardinality(Events), agent : BOOLEAN,
            payload : 0 .. MaxSecrets, receipt : BOOLEAN, due : BOOLEAN, age : 0 .. Week]
Snapshot == [event : Events, state : Queued, payload : 0 .. MaxSecrets]
Steps == {"idle", "disable", "observe", "route", "due", "first", "next", "look", "reread",
          "mute", "compose", "check", "gate", "post", "receipt", "answer", "retry"}

(* Every variable has the type of what it stands for, and who is followed  *)
(* or delivered has a receipt to be followed by.                           *)
TypeOK ==
  /\ row \in [Events -> RowType]
  /\ \A e \in Events : row[e].state \in {"submitted", "delivered"} => row[e].receipt
  /\ enabled \in BOOLEAN /\ allowed \in BOOLEAN /\ capture \in BOOLEAN /\ secrets \in 1 .. MaxSecrets
  /\ ended \subseteq Builds /\ revision \in 0 .. MaxRevisions
  /\ key \in BOOLEAN /\ held \subseteq {"relay", "route"}
  /\ worker \in [pc : Steps, n : Snapshot \cup {None},
                 reply : Settled \cup {"none", "submitted", "refused", "unclear"}]
  /\ batch \subseteq Snapshot
  /\ posted \in [Events -> SUBSET (0 .. MaxSecrets)]
  /\ void \subseteq Events

(* What is pending may be sent as the switches are: every switch retires   *)
(* what it forbids in its own transaction, the worker's on the relay's     *)
(* behalf among them, so that no later one can make it eligible again.     *)
PendingIsAllowed == \A e \in Events : row[e].state = "pending" => Allowed(e)

(* All tries of an event carry the same text, over restarts and edits of   *)
(* the project: the relay knows a repeated event by its key.               *)
SameMessage == \A e \in Events : Cardinality(posted[e]) <= 1

Posting(e) == worker.pc = "post" /\ worker'.pc = "answer" /\ worker.n.event = e

(* What was muted, suppressed or expired is not sent later, whatever the   *)
(* worker had read before and whoever lifts the mute; only a POST that had *)
(* passed its last check is not recalled.                                  *)
CanceledStays ==
  [][\A e \in void : ~Posting(e) /\ row'[e].state \in Retired \cup {"gone"}]_vars

(* An event whose receipt is stored is not submitted again: from then on   *)
(* it is followed.                                                         *)
ReceiptEndsSending == [][\A e \in Events : row[e].receipt => ~Posting(e)]_vars

(* The table keeps to its limit while the relay takes nothing.             *)
OutboxIsBounded == Cardinality(Present(row)) <= Limit

(* No event waits for ever, whatever relay and route do.                   *)
NothingWaitsForever == \A e \in Events : IsQueued(row, e) ~> ~IsQueued(row, e)
===============================================================================
