------------------------------ MODULE LogStream ------------------------------
(***************************************************************************)
(* The log of one build: the bytes stored in the database, the topic on    *)
(* the log bus, the runner's sink and the agent's uploads that write them, *)
(* the janitor and the cancel handler that close them with a note, and the *)
(* event streams over which readers follow them.                           *)
(*                                                                         *)
(* A byte stands for a piece of output and is numbered as it is produced,  *)
(* so that a lost, repeated or misplaced one shows.  Whoever writes first  *)
(* commits to the database and then publishes; tasks are what is left to   *)
(* do after a commit.  A stored log only grows, so the length and the      *)
(* slice a handler reads of it are one step.                               *)
(***************************************************************************)
EXTENDS LogBus, FiniteSets

CONSTANTS
  MaxBytes,     (* bound: bytes of output produced                         *)
  MaxRequests,  (* bound: uploads of the agent in flight                   *)
  MaxRequeues   (* models.MaxBuildRequeues                                 *)

ASSUME StreamConstants ==
  MaxBytes \in Nat /\ MaxRequests \in Nat /\ MaxRequeues \in Nat

VARIABLES
  (* the database *)
  stored,       (* the log: builds.log and build_log_chunks                *)
  status,       (* builds.status: the terminal ones are one, done          *)
  owner,        (* whether the runner or an agent has started it last      *)
  requeues,     (* builds.requeues                                         *)
  (* the server process *)
  phase,        (* up, or stopping the runner                              *)
  rpc,          (* what the runner does with the build                     *)
  sink,         (* logSink.dbBuf                                           *)
  task,         (* what each writer has left to do after its commit        *)
  (* the commands and the agent *)
  made,         (* bytes of output produced so far                         *)
  apc,          (* whether the agent works on the build                    *)
  alog,         (* the agent's own log file                                *)
  aoff,         (* the log_offset its claim was answered with              *)
  acked,        (* bytes of alog the agent believes are stored             *)
  reqs,         (* its uploads in flight                                   *)
  (* the readers *)
  stream,       (* each reader's event stream handler                      *)
  got,          (* the log as the reader has received it                   *)
  heard         (* readers that were told a terminal status                *)

dbVars     == <<stored, status, owner, requeues>>
runnerVars == <<phase, rpc, sink>>
agentVars  == <<apc, alog, aoff, acked, reqs>>
readerVars == <<stream, got, heard>>
vars == <<busVars, dbVars, runnerVars, task, made, agentVars, readerVars>>

Note    == 0
Bytes   == 0 .. MaxBytes
Writers == {"runner", "upload", "janitor", "cancel"}

Rest  == [pc |-> "idle", start |-> 0, data |-> <<>>]
Off   == [pc |-> "off", from |-> 0, sent |-> 0, fin |-> FALSE]

Free(w) == task[w].pc = "idle"
ToDo(w, pc, start, data) ==
  task' = [task EXCEPT ![w] = [pc |-> pc, start |-> start, data |-> data]]
Then(w, pc) == task' = [task EXCEPT ![w].pc = pc]
Done(w) == task' = [task EXCEPT ![w] = Rest]

(* BuildLogSlice                                                           *)
Slice(from, to) == SubSeq(stored, from + 1, to)

(* appendBuildLog                                                          *)
Store(data) == stored' = stored \o data

AgentOwns == status = "running" /\ owner = "agent"

Init ==
  /\ BusInit
  /\ stored = <<>> /\ status = "pending" /\ owner = "server" /\ requeues = 0
  /\ phase = "up" /\ rpc = "idle" /\ sink = <<>>
  /\ task = [w \in Writers |-> Rest]
  /\ made = 0
  /\ apc = "idle" /\ alog = <<>> /\ aoff = 0 /\ acked = 0 /\ reqs = {}
  /\ stream = [r \in Readers |-> Off]
  /\ got = [r \in Readers |-> <<>>]
  /\ heard = {}

-------------------------------------------------------------------------------
(* The runner and its sink.  Write, the flusher and Close hold the sink's  *)
(* lock, so a flush is finished before the next byte is taken.             *)

RunnerClaim ==
  /\ phase = "up" /\ rpc = "idle" /\ Free("runner")
  /\ status = "pending"
  /\ status' = "running" /\ owner' = "server" /\ rpc' = "building"
  /\ topic' = Opened
  /\ UNCHANGED <<chan, subs, stored, requeues, phase, sink, task, made, agentVars, readerVars>>

Write ==
  /\ rpc = "building" /\ Free("runner")
  /\ made < MaxBytes
  /\ made' = made + 1
  /\ sink' = Append(sink, made')
  /\ UNCHANGED <<busVars, dbVars, phase, rpc, task, agentVars, readerVars>>

(* A refused append keeps the buffer; that is no step.                     *)
Flush ==
  /\ rpc = "building" /\ Free("runner")
  /\ sink # <<>>
  /\ Store(sink)
  /\ ToDo("runner", "seed", Len(stored), sink)
  /\ sink' = <<>>
  /\ UNCHANGED <<busVars, status, owner, requeues, phase, rpc, made, agentVars, readerVars>>

(* A restarted or re-queued build has a stored prefix the topic never saw. *)
SeedUpTo(start) ==
  IF topic.state # "none" /\ Length >= start
  THEN UNCHANGED busVars
  ELSE LET from == IF start > Retained THEN start - Retained ELSE 0
       IN  SeedAt(from, Slice(from, start))

RunnerSeed ==
  /\ task["runner"].pc = "seed"
  /\ SeedUpTo(task["runner"].start)
  /\ Then("runner", "publish")
  /\ UNCHANGED <<dbVars, runnerVars, made, agentVars, readerVars>>

RunnerPublish ==
  /\ task["runner"].pc = "publish"
  /\ PublishAt(task["runner"].start, task["runner"].data)
  /\ Done("runner")
  /\ UNCHANGED <<dbVars, runnerVars, made, agentVars, readerVars>>

(* The two errors that are stored around the sink: a project that cannot   *)
(* be read, and a build without re-queues left.                            *)
RunnerNote ==
  /\ rpc = "building" /\ Free("runner") /\ sink = <<>>
  /\ Store(<<Note>>)
  /\ ToDo("runner", "publish", Len(stored), <<Note>>)
  /\ rpc' = "ending"
  /\ UNCHANGED <<busVars, status, owner, requeues, phase, sink, made, agentVars, readerVars>>

(* finish, once Close has found the buffer empty.                          *)
Finish ==
  /\ rpc # "idle" /\ Free("runner") /\ sink = <<>>
  /\ status' = "done" /\ rpc' = "idle"
  /\ Then("runner", "end")
  /\ UNCHANGED <<busVars, stored, owner, requeues, phase, sink, made, agentVars, readerVars>>

(* The database refuses the last bytes or the outcome: the row is left     *)
(* running, for the janitor.                                               *)
Abandon ==
  /\ rpc # "idle" /\ Free("runner")
  /\ rpc' = "idle" /\ sink' = <<>>
  /\ UNCHANGED <<busVars, dbVars, phase, task, made, agentVars, readerVars>>

StopRunner ==
  /\ phase = "up"
  /\ phase' = "stopping"
  /\ UNCHANGED <<busVars, dbVars, rpc, sink, task, made, agentVars, readerVars>>

(* RequeueBuildWithNote, on a shutdown.                                    *)
Requeue ==
  /\ phase = "stopping"
  /\ rpc = "building" /\ Free("runner") /\ sink = <<>>
  /\ requeues < MaxRequeues
  /\ status' = "pending" /\ requeues' = requeues + 1 /\ rpc' = "idle"
  /\ Store(<<Note>>)
  /\ ToDo("runner", "seed", Len(stored), <<Note>>)
  /\ UNCHANGED <<busVars, owner, phase, sink, made, agentVars, readerVars>>

-------------------------------------------------------------------------------
(* The agent.  Its uploads and its finish are serialised by agentLogMu.    *)

AgentClaim ==
  /\ status = "pending" /\ apc = "idle"
  /\ status' = "running" /\ owner' = "agent"
  /\ topic' = Opened
  /\ apc' = "building" /\ alog' = <<>> /\ aoff' = Len(stored) /\ acked' = 0 /\ reqs' = {}
  /\ UNCHANGED <<chan, subs, stored, requeues, runnerVars, task, made, readerVars>>

AgentOutput ==
  /\ apc = "building" /\ made < MaxBytes
  /\ made' = made + 1
  /\ alog' = Append(alog, made')
  /\ UNCHANGED <<busVars, dbVars, runnerVars, task, apc, aoff, acked, reqs, readerVars>>

(* An upload sends what the agent believes is missing.  After a timeout it *)
(* sends again while the server may still have the first request.          *)
AgentSend ==
  /\ apc = "building" /\ Cardinality(reqs) < MaxRequests
  /\ \E n \in acked + 1 .. Len(alog) :
       reqs' = reqs \cup {[start |-> aoff + acked, data |-> SubSeq(alog, acked + 1, n)]}
  /\ UNCHANGED <<busVars, dbVars, runnerVars, task, made, apc, alog, aoff, acked, readerVars>>

(* Answers: the agent resumes from len or stops, unless the answer is lost.*)
AnswerLen(len) ==
  /\ acked' \in {acked, len - aoff}
  /\ UNCHANGED apc

AnswerStop ==
  /\ apc' \in {apc, "idle"}
  /\ UNCHANGED acked

UploadOpen(q) ==
  /\ phase = "up" /\ Free("upload")
  /\ q \in reqs
  /\ reqs' = reqs \ {q}
  /\ IF AgentOwns
     THEN /\ ToDo("upload", "compare", q.start, q.data)
          /\ UNCHANGED <<apc, acked>>
     ELSE /\ AnswerStop
          /\ UNCHANGED task
  /\ UNCHANGED <<busVars, dbVars, runnerVars, made, alog, aoff, readerVars>>

(* Bytes the server already has are compared and dropped; an offset beyond *)
(* the end or bytes that differ make the agent resume from the true        *)
(* length.  (The mutant takes an overlap for granted.)                     *)
UploadWhole ==
  LET q == task["upload"] IN
  /\ q.pc = "compare"
  /\ ToDo("upload", "seed", Len(stored), q.data)
  /\ UNCHANGED <<busVars, dbVars, runnerVars, made, agentVars, readerVars>>

Overlap(q) == IF Len(stored) - q.start < Len(q.data) THEN Len(stored) - q.start ELSE Len(q.data)

UploadCompare ==
  LET q     == task["upload"]
      agree == /\ q.start <= Len(stored)
               /\ Slice(q.start, q.start + Overlap(q)) = SubSeq(q.data, 1, Overlap(q))
  IN
  /\ q.pc = "compare"
  /\ \/ /\ ~agree
        /\ AnswerLen(Len(stored))
        /\ Done("upload")
     \/ /\ agree /\ q.start + Len(q.data) > Len(stored)
        /\ ToDo("upload", "seed", Len(stored), SubSeq(q.data, Overlap(q) + 1, Len(q.data)))
        /\ UNCHANGED <<acked, apc>>
     \/ /\ agree /\ q.start + Len(q.data) <= Len(stored)
        /\ ToDo("upload", "answer", Len(stored), <<>>)
        /\ UNCHANGED <<acked, apc>>
  /\ UNCHANGED <<busVars, dbVars, runnerVars, made, alog, aoff, reqs, readerVars>>

UploadSeed ==
  /\ task["upload"].pc = "seed"
  /\ IF task["upload"].start = 0 THEN UNCHANGED busVars ELSE SeedUpTo(task["upload"].start)
  /\ Then("upload", "append")
  /\ UNCHANGED <<dbVars, runnerVars, made, agentVars, readerVars>>

(* AppendAgentBuildLog tests the lease and the length again in its         *)
(* transaction.  (The mutant does not.)                                    *)
UploadAppendBlindly ==
  LET q == task["upload"] IN
  /\ q.pc = "append"
  /\ Store(q.data)
  /\ ToDo("upload", "publish", Len(stored), q.data)
  /\ UNCHANGED <<busVars, status, owner, requeues, runnerVars, made, agentVars, readerVars>>

UploadAppend ==
  LET q == task["upload"] IN
  /\ q.pc = "append"
  /\ IF AgentOwns /\ Len(stored) = q.start
     THEN /\ Store(q.data)
          /\ Then("upload", "publish")
          /\ UNCHANGED <<acked, apc>>
     ELSE /\ AnswerLen(Len(stored))
          /\ Done("upload")
          /\ UNCHANGED stored
  /\ UNCHANGED <<busVars, status, owner, requeues, runnerVars, made, alog, aoff, reqs,
                 readerVars>>

UploadPublish ==
  /\ task["upload"].pc = "publish"
  /\ PublishAt(task["upload"].start, task["upload"].data)
  /\ Then("upload", "answer")
  /\ UNCHANGED <<dbVars, runnerVars, made, agentVars, readerVars>>

(* HeartbeatBuild decides between "resume from len" and "no longer yours". *)
UploadAnswer ==
  LET q == task["upload"] IN
  /\ q.pc = "answer"
  /\ IF AgentOwns THEN AnswerLen(q.start + Len(q.data)) ELSE AnswerStop
  /\ Done("upload")
  /\ UNCHANGED <<busVars, dbVars, runnerVars, made, alog, aoff, reqs, readerVars>>

AgentFinish ==
  /\ phase = "up" /\ Free("upload")
  /\ apc = "building"
  /\ IF AgentOwns
     THEN status' = "done" /\ Then("upload", "end")
     ELSE UNCHANGED <<status, task>>
  /\ apc' \in {"building", "idle"}
  /\ UNCHANGED <<busVars, stored, owner, requeues, runnerVars, made, alog, aoff, acked, reqs,
                 readerVars>>

-------------------------------------------------------------------------------
(* The other ways a build gets an outcome.  Their notes are stored with    *)
(* the status, in one transaction.                                         *)

(* The janitor, for an agent it has given up, or a row the runner left.    *)
JanitorFail ==
  /\ Free("janitor")
  /\ status = "running"
  /\ owner = "agent" \/ (rpc = "idle" /\ Free("runner"))
  /\ status' = "done"
  /\ Store(<<Note>>)
  /\ Then("janitor", "mirror")
  /\ UNCHANGED <<busVars, owner, requeues, runnerVars, made, agentVars, readerVars>>

(* Only a topic that holds the build's log gets the note.                  *)
JanitorMirror ==
  /\ task["janitor"].pc = "mirror"
  /\ IF topic.state # "none" /\ Length > 0
     THEN PublishAt(Len(stored) - 1, <<Note>>)
     ELSE UNCHANGED busVars
  /\ Then("janitor", "end")
  /\ UNCHANGED <<dbVars, runnerVars, made, agentVars, readerVars>>

CancelPending ==
  /\ phase = "up" /\ Free("cancel")
  /\ status = "pending"
  /\ status' = "done"
  /\ Store(<<Note>>)
  /\ Then("cancel", "publish")
  /\ UNCHANGED <<busVars, owner, requeues, runnerVars, made, agentVars, readerVars>>

CancelPublish ==
  /\ task["cancel"].pc = "publish"
  /\ PublishAt(Len(stored) - 1, <<Note>>)
  /\ Then("cancel", "end")
  /\ UNCHANGED <<dbVars, runnerVars, made, agentVars, readerVars>>

(* A pending build that does not fit the channel: nothing is published.    *)
FailPending ==
  /\ phase = "up"
  /\ status = "pending"
  /\ status' = "done"
  /\ Store(<<Note>>)
  /\ UNCHANGED <<busVars, owner, requeues, runnerVars, task, made, agentVars, readerVars>>

(* PublishStatus with the outcome, the last thing anyone does.             *)
End(w) ==
  /\ task[w].pc = "end"
  /\ PublishEnd
  /\ Done(w)
  /\ UNCHANGED <<dbVars, runnerVars, made, agentVars, readerVars>>

TopicExpires ==
  /\ Expire
  /\ UNCHANGED <<dbVars, runnerVars, task, made, agentVars, readerVars>>

-------------------------------------------------------------------------------
(* The event stream of a reader.  It reconnects with the offset of the     *)
(* last event it received, until it is told a terminal status.             *)

At(r, pc) == stream[r].pc = pc
Goes(r, pc) == stream' = [stream EXCEPT ![r].pc = pc]

Connect(r) ==
  /\ phase = "up" /\ At(r, "off") /\ r \notin heard
  /\ stream' = [stream EXCEPT ![r] =
       [pc   |-> IF status = "done" THEN "replay" ELSE "subscribe",
        from |-> Len(got[r]), sent |-> 0, fin |-> status = "done"]]
  /\ UNCHANGED <<busVars, dbVars, runnerVars, task, made, agentVars, got, heard>>

StreamSubscribe(r) ==
  /\ At(r, "subscribe")
  /\ Subscribe(r)
  /\ Goes(r, "reread")
  /\ UNCHANGED <<dbVars, runnerVars, task, made, agentVars, got, heard>>

(* The row is read again after subscribing.  (The mutant does not.)        *)
RereadNothing(r) ==
  /\ At(r, "reread")
  /\ Goes(r, "replay")
  /\ UNCHANGED <<busVars, dbVars, runnerVars, task, made, agentVars, got, heard>>

Reread(r) ==
  /\ At(r, "reread")
  /\ stream' = [stream EXCEPT ![r].pc = "replay", ![r].fin = (status = "done")]
  /\ UNCHANGED <<busVars, dbVars, runnerVars, task, made, agentVars, got, heard>>

Replay(r) ==
  /\ At(r, "replay")
  /\ got' = [got EXCEPT ![r] = @ \o Slice(stream[r].from, Len(stored))]
  /\ stream' = [stream EXCEPT ![r].pc = IF stream[r].fin THEN "final" ELSE "stream",
                              ![r].sent = Len(stored)]
  /\ UNCHANGED <<busVars, dbVars, runnerVars, task, made, agentVars, heard>>

(* storedTail                                                              *)
StoredTail(sent) == Slice(sent, Len(stored))

Leave(r) ==
  /\ Unsubscribe(r)
  /\ stream' = [stream EXCEPT ![r] = Off]

(* The stored tail, then the terminal status.  (The mutant trusts the      *)
(* events to have been complete.)                                          *)
TellEndOnly(r) ==
  /\ heard' = heard \cup {r}
  /\ Leave(r)
  /\ UNCHANGED got

TellEnd(r) ==
  /\ got' = [got EXCEPT ![r] = @ \o StoredTail(stream[r].sent)]
  /\ heard' = heard \cup {r}
  /\ Leave(r)

Final(r) ==
  /\ At(r, "final")
  /\ TellEnd(r)
  /\ UNCHANGED <<dbVars, runnerVars, task, made, agentVars>>

(* An event that was in the replay is skipped, one that overlaps it is     *)
(* trimmed, and before one beyond it the gap is read from the database.    *)
StreamLog(r) ==
  LET e    == Head(chan[r])
      end  == e.start + Len(e.data)
      sent == stream[r].sent
      fill == IF e.start > sent /\ end > sent THEN StoredTail(sent) ELSE <<>>
      now  == sent + Len(fill)
      rest == IF e.start <= now /\ end > now
              THEN SubSeq(e.data, now - e.start + 1, Len(e.data)) ELSE <<>>
  IN
  /\ At(r, "stream") /\ chan[r] # <<>> /\ Head(chan[r]).kind = "log"
  /\ chan' = [chan EXCEPT ![r] = Tail(@)]
  /\ got'  = [got EXCEPT ![r] = @ \o fill \o rest]
  /\ stream' = [stream EXCEPT ![r].sent = now + Len(rest)]
  /\ UNCHANGED <<topic, subs, dbVars, runnerVars, task, made, agentVars, heard>>

StreamEnd(r) ==
  /\ At(r, "stream") /\ chan[r] # <<>> /\ Head(chan[r]).kind = "end"
  /\ TellEnd(r)
  /\ UNCHANGED <<dbVars, runnerVars, task, made, agentVars>>

(* The channel was closed, by the end or because the reader was too slow.  *)
StreamClosed(r) ==
  /\ At(r, "stream") /\ chan[r] = <<>> /\ r \notin subs
  /\ IF status = "done"
     THEN TellEnd(r)
     ELSE Leave(r) /\ UNCHANGED <<got, heard>>
  /\ UNCHANGED <<dbVars, runnerVars, task, made, agentVars>>

(* A reader may leave at any time: its connection breaks, its page is      *)
(* closed, or the page has found the outcome elsewhere (while it shows a   *)
(* pending build it asks for the row every 4 s) and closes the stream.     *)
(* What was written to a connection that breaks may not have arrived.      *)
Received(r) == {SubSeq(got[r], 1, n) : n \in stream[r].from .. Len(got[r])}

Disconnect(r) ==
  /\ ~At(r, "off")
  /\ \E text \in Received(r) : got' = [got EXCEPT ![r] = text]
  /\ Leave(r)
  /\ UNCHANGED <<dbVars, runnerVars, task, made, agentVars, heard>>

StreamNext(r) ==
  \/ StreamSubscribe(r) \/ Reread(r) \/ Replay(r) \/ Final(r)
  \/ StreamLog(r) \/ StreamEnd(r) \/ StreamClosed(r)

-------------------------------------------------------------------------------
(* The end of the process and the next start, which re-queues or fails the *)
(* runner's row before it serves requests.                                 *)

Restart ==
  /\ topic' = NoTopic /\ chan' = [r \in Readers |-> <<>>] /\ subs' = {}
  /\ phase' = "up" /\ rpc' = "idle" /\ sink' = <<>>
  /\ task' = [w \in Writers |-> Rest]
  /\ reqs' = {}
  /\ stream' = [r \in Readers |-> Off]
  /\ got' \in {g \in [Readers -> UNION {Received(r) : r \in Readers}] :
                 \A r \in Readers : g[r] \in IF At(r, "off") THEN {got[r]} ELSE Received(r)}
  /\ IF status = "running" /\ owner = "server"
     THEN /\ Store(<<Note>>)
          /\ IF requeues < MaxRequeues
             THEN status' = "pending" /\ requeues' = requeues + 1
             ELSE status' = "done" /\ UNCHANGED requeues
     ELSE UNCHANGED <<stored, status, requeues>>
  /\ UNCHANGED <<owner, made, apc, alog, aoff, acked, heard>>

RunnerNext ==
  \/ RunnerClaim \/ Write \/ Flush \/ RunnerSeed \/ RunnerPublish \/ RunnerNote \/ Finish
  \/ Abandon \/ StopRunner \/ Requeue

UploadNext == UploadCompare \/ UploadSeed \/ UploadAppend \/ UploadPublish \/ UploadAnswer

AgentNext ==
  \/ AgentClaim \/ AgentOutput \/ AgentSend \/ AgentFinish
  \/ \E q \in reqs : UploadOpen(q)
  \/ UploadNext

OutcomeNext == JanitorFail \/ JanitorMirror \/ CancelPending \/ CancelPublish \/ FailPending

Next ==
  \/ RunnerNext
  \/ AgentNext
  \/ OutcomeNext
  \/ \E w \in Writers : End(w)
  \/ TopicExpires
  \/ \E r \in Readers : Connect(r) \/ Disconnect(r) \/ StreamNext(r)
  \/ Restart

Spec == Init /\ [][Next]_vars

(* A handler that is running goes on to its end: the writers' tasks and    *)
(* the readers' streams are goroutines of a process that stays up.  No one *)
(* has to produce output, to connect or to finish the build, and no reader *)
(* has to leave: it need not be a page that asks for the row as well.      *)
Fairness ==
  /\ WF_vars(RunnerSeed \/ RunnerPublish)
  /\ WF_vars(UploadNext)
  /\ WF_vars(JanitorMirror \/ CancelPublish)
  /\ \A w \in Writers : WF_vars(End(w))
  /\ \A r \in Readers : WF_vars(StreamNext(r))

FairSpec == Spec /\ Fairness

-------------------------------------------------------------------------------
(* Properties *)

Logs == Seq(Bytes)

TaskType == [pc : {"idle", "compare", "seed", "append", "publish", "answer", "mirror", "end"},
             start : Nat, data : Logs]
StreamType == [pc : {"off", "subscribe", "reread", "replay", "stream", "final"},
               from : Nat, sent : Nat, fin : BOOLEAN]
EventType == [kind : {"log", "end"}, start : Nat, data : Logs]

(* Every variable has the type of what it stands for, and the topic keeps  *)
(* no more bytes and the channels no more events than they are allowed to. *)
TypeOK ==
  /\ topic \in [state : {"none", "open", "closed"}, base : Nat, buf : Logs]
  /\ Len(topic.buf) <= Retained
  /\ chan \in [Readers -> Seq(EventType)]
  /\ \A r \in Readers : Len(chan[r]) <= Room
  /\ subs \subseteq Readers
  /\ stored \in Logs
  /\ status \in {"pending", "running", "done"}
  /\ owner \in {"server", "agent"}
  /\ requeues \in 0 .. MaxRequeues
  /\ phase \in {"up", "stopping"}
  /\ rpc \in {"idle", "building", "ending"}
  /\ sink \in Logs
  /\ task \in [Writers -> TaskType]
  /\ made \in 0 .. MaxBytes
  /\ apc \in {"idle", "building"}
  /\ alog \in Logs /\ aoff \in Nat /\ acked \in Nat
  /\ \A q \in reqs : q \in [start : Nat, data : Logs]
  /\ stream \in [Readers -> StreamType]
  /\ got \in [Readers -> Logs]
  /\ heard \subseteq Readers

(* The bytes of data are those of the stored log from offset start on.     *)
Agrees(start, data) ==
  /\ start + Len(data) <= Len(stored)
  /\ \A i \in 1 .. Len(data) : data[i] = stored[start + i]

(* The topic mirrors the newest part of the stored log, whichever of the   *)
(* runner, an upload, the janitor or a cancel publishes first, across      *)
(* seeds, gaps and restarts.                                               *)
BusMirrorsTheLog == Agrees(topic.base, topic.buf)

(* What a reader has received is a prefix of the stored log: no byte is    *)
(* lost, repeated or out of place, over replays, slow queues, broken       *)
(* connections and restarts.                                               *)
ReaderSeesTheLog == \A r \in Readers : Agrees(0, got[r])

(* A reader that was told the outcome, and so has closed its stream, has   *)
(* the whole log.                                                          *)
NothingAfterTheEnd ==
  \A r \in heard : status = "done" /\ Len(got[r]) = Len(stored)

(* Nobody writes to the log of a build that has an outcome: not an upload  *)
(* that was checked before the janitor gave the agent up.                  *)
LogIsFrozen == [][status = "done" => stored' = stored]_vars

(* Every byte an agent uploads is stored once and in order, over lost      *)
(* answers and repeated requests; only the janitor's note may follow.      *)
UploadsStoredOnce ==
  owner = "agent" =>
    LET n == Len(stored) - aoff IN
    \/ n <= Len(alog) /\ Agrees(aoff, SubSeq(alog, 1, n))
    \/ /\ status = "done" /\ stored[Len(stored)] = Note
       /\ n - 1 <= Len(alog)
       /\ Agrees(aoff, SubSeq(alog, 1, n - 1))

(* Whatever has an outcome to announce ends every stream that is open at   *)
(* that moment: the reader is told, or disconnected and reads the outcome  *)
(* when it connects again, though events are dropped, the topic expires or *)
(* the process is restarted in between.                                    *)
AnnouncedEnds ==
  \A r \in Readers : [](\A w \in Writers : task[w].pc = "end" => <>At(r, "off"))

(* The event stream of a build that has an outcome does not stay open: the *)
(* server tells the outcome or closes it, without waiting for the reader   *)
(* to leave.  It does not hold: a pending build that is failed because the *)
(* channel is full is not announced.  It says nothing of what a page       *)
(* shows, which has another way to the outcome.                            *)
StreamsEnd == \A r \in Readers : [](status = "done" => <>At(r, "off"))
===============================================================================
