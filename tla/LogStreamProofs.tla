--------------------------- MODULE LogStreamProofs ---------------------------
(***************************************************************************)
(* The safety properties of LogStream, for every number of readers, every  *)
(* size of the topic and of the queues, and every amount of output.        *)
(***************************************************************************)
EXTENDS LogStream, SequenceTheorems, TLAPS

(* TypeOK is what it says of the bus and what it says of the rest.         *)
TopicType == [state : {"none", "open", "closed"}, base : Nat, buf : Logs]
BusType ==
  /\ topic \in TopicType /\ Len(topic.buf) <= Retained
  /\ chan \in [Readers -> Seq(EventType)]
  /\ \A r \in Readers : Len(chan[r]) <= Room
  /\ subs \subseteq Readers
DbType ==
  /\ stored \in Logs /\ status \in {"pending", "running", "done"}
  /\ owner \in {"server", "agent"} /\ requeues \in 0 .. MaxRequeues
WriterType ==
  /\ phase \in {"up", "stopping"} /\ rpc \in {"idle", "building", "ending"} /\ sink \in Logs
  /\ task \in [Writers -> TaskType] /\ made \in 0 .. MaxBytes
Upload == [start : Nat, data : Logs]
AgentType ==
  /\ apc \in {"idle", "building"} /\ alog \in Logs /\ aoff \in Nat /\ acked \in Nat
  /\ reqs \subseteq Upload
ReaderType ==
  /\ stream \in [Readers -> StreamType] /\ got \in [Readers -> Logs] /\ heard \subseteq Readers

(* Before the row is an agent's, no agent has anything to say about it.    *)
NotYours == owner = "server" => apc = "idle" /\ reqs = {} /\ task["upload"].pc = "idle"

(* The runner works on a row of its own; a row is given to an agent once,  *)
(* and before that no agent has anything to say about it.                  *)
RowInv ==
  /\ rpc # "idle" => status = "running" /\ owner = "server"
  /\ owner = "agent" => status # "pending"
  /\ NotYours
  /\ aoff <= Len(stored)

(* The log ends with the note that was stored with the outcome.            *)
Noted == status = "done" /\ stored # <<>> /\ stored[Len(stored)] = Note

(* What a writer has left to publish is in the log where it says.          *)
TaskOK(w) ==
  LET t == task[w] IN
  /\ t.pc = "end" => status = "done"
  /\ w \in {"runner", "upload"} /\ t.pc = "publish" => Agrees(t.start, t.data)
  /\ w = "runner" /\ t.pc = "seed" => Agrees(t.start, t.data)
  /\ w = "upload" /\ t.pc \in {"seed", "append"} => t.start <= Len(stored)
  /\ w \in {"janitor", "cancel"} /\ t.pc \in {"mirror", "publish"} => Noted
TaskInv == \A w \in Writers : TaskOK(w)

(* The bytes of data are those of log from offset start on.                *)
Part(log, start, data) ==
  /\ start + Len(data) <= Len(log)
  /\ \A i \in 1 .. Len(data) : data[i] = log[start + i]

(* An upload that was not stored is a piece of the agent's own log.        *)
Sent(q) == aoff <= q.start /\ Part(alog, q.start - aoff, q.data)
SendInv ==
  /\ \A q \in reqs : Sent(q)
  /\ task["upload"].pc \in {"compare", "seed", "append"} => Sent(task["upload"])
  /\ task["upload"].pc \in {"publish", "answer"} => aoff <= task["upload"].start

(* What is queued for a reader is in the log where it says, and an end is  *)
(* an outcome's.                                                           *)
EventOK(e) == IF e.kind = "log" THEN Agrees(e.start, e.data) ELSE status = "done"
QueueInv == \A r \in Readers : \A i \in 1 .. Len(chan[r]) : EventOK(chan[r][i])

(* A stream knows how much the page shows.                                 *)
StreamOK(r) ==
  LET s == stream[r] IN
  /\ s.pc # "off" => s.from <= Len(got[r])
  /\ s.pc \in {"subscribe", "reread", "replay"} => s.from = Len(got[r])
  /\ s.pc \in {"stream", "final"} => s.sent = Len(got[r])
  /\ s.fin => status = "done"
  /\ s.pc = "final" => status = "done"
  /\ r \in heard => s.pc = "off"
StreamInv == \A r \in Readers : StreamOK(r)

Types == BusType /\ DbType /\ WriterType /\ AgentType /\ ReaderType
BusInv == BusMirrorsTheLog /\ QueueInv
PageInv == StreamInv /\ ReaderSeesTheLog /\ NothingAfterTheEnd
IInv == Types /\ RowInv /\ TaskInv /\ SendInv /\ UploadsStoredOnce /\ BusInv /\ PageInv

-------------------------------------------------------------------------------
(* Sequences                                                               *)

(* Agrees is Part of the stored log, now and after a step.                 *)
LEMMA AgreesIsPart ==
  ASSUME NEW start, NEW data
  PROVE  /\ Agrees(start, data) <=> Part(stored, start, data)
         /\ Agrees(start, data)' <=> Part(stored', start, data)
BY DEF Agrees, Part

(* What Len and \o do, index by index.                                     *)
LEMMA Joined ==
  ASSUME NEW S, NEW s \in Seq(S), NEW t \in Seq(S)
  PROVE  /\ s \o t \in Seq(S) /\ Len(s) \in Nat /\ Len(t) \in Nat /\ Len(s \o t) = Len(s) + Len(t)
         /\ \A i \in 1 .. Len(s) : (s \o t)[i] = s[i]
         /\ \A i \in 1 .. Len(t) : (s \o t)[Len(s) + i] = t[i]
<1>1. Len(s) \in Nat /\ Len(t) \in Nat
  BY LenProperties
<1>2. /\ s \o t \in Seq(S) /\ Len(s \o t) = Len(s) + Len(t)
      /\ \A i \in 1 .. Len(s) + Len(t) : (s \o t)[i] = IF i <= Len(s) THEN s[i] ELSE t[i - Len(s)]
  BY ConcatProperties
<1>3. \A i \in 1 .. Len(s) : (s \o t)[i] = s[i]
  BY <1>1, <1>2
<1>4. ASSUME NEW i \in 1 .. Len(t)
      PROVE  (s \o t)[Len(s) + i] = t[i]
  <2>1. Len(s) + i \in 1 .. Len(s) + Len(t) /\ ~(Len(s) + i <= Len(s)) /\ (Len(s) + i) - Len(s) = i
    BY <1>1
  <2> QED  BY <1>2, <2>1
<1> QED  BY <1>1, <1>2, <1>3, <1>4

(* A slice of a sequence, from m on, up to n.                              *)
LEMMA Sliced ==
  ASSUME NEW S, NEW s \in Seq(S), NEW m \in Nat, NEW n \in Nat, m <= n, n <= Len(s)
  PROVE  /\ SubSeq(s, m + 1, n) \in Seq(S) /\ Len(SubSeq(s, m + 1, n)) = n - m
         /\ \A i \in 1 .. n - m : SubSeq(s, m + 1, n)[i] = s[m + i]
<1>1. Len(s) \in Nat /\ \A i \in m + 1 .. n : s[i] \in S
  BY LenProperties, ElementOfSeq
<1>2. /\ SubSeq(s, m + 1, n) \in Seq(S)
      /\ Len(SubSeq(s, m + 1, n)) = IF m + 1 <= n THEN n - (m + 1) + 1 ELSE 0
      /\ \A i \in 1 .. n - (m + 1) + 1 : SubSeq(s, m + 1, n)[i] = s[(m + 1) + i - 1]
  <2>1. m + 1 \in Int /\ n \in Int
    OBVIOUS
  <2> QED  BY <1>1, <2>1, SubSeqProperties
<1>3. Len(SubSeq(s, m + 1, n)) = n - m
  BY <1>2
<1>4. \A i \in 1 .. n - m : SubSeq(s, m + 1, n)[i] = s[m + i]
  <2>1. \A i \in 1 .. n - m : i \in 1 .. n - (m + 1) + 1 /\ (m + 1) + i - 1 = m + i
    OBVIOUS
  <2> QED  BY <1>2, <2>1
<1> QED  BY <1>2, <1>3, <1>4

(* Parts of a log stay parts when it grows, and when they are cut or       *)
(* joined.                                                                 *)
LEMMA PartGrows ==
  ASSUME NEW log \in Logs, NEW more \in Logs, NEW start \in Nat, NEW data \in Logs,
         Part(log, start, data)
  PROVE  Part(log \o more, start, data)
<1>1. /\ Len(log \o more) = Len(log) + Len(more) /\ Len(log) \in Nat /\ Len(more) \in Nat
      /\ \A i \in 1 .. Len(log) : (log \o more)[i] = log[i]
  BY Joined DEF Logs
<1>2. Len(data) \in Nat
  BY LenProperties DEF Logs
<1>3. \A i \in 1 .. Len(data) : start + i \in 1 .. Len(log)
  BY <1>1, <1>2 DEF Part
<1> QED  BY <1>1, <1>2, <1>3 DEF Part

(* What is stored is then at the end of the log.                           *)
LEMMA PartAdded ==
  ASSUME NEW log \in Logs, NEW more \in Logs
  PROVE  Part(log \o more, Len(log), more)
BY Joined DEF Logs, Part

(* A slice of a part is a part, further on.                                *)
LEMMA PartCut ==
  ASSUME NEW log \in Logs, NEW start \in Nat, NEW data \in Logs, Part(log, start, data),
         NEW m \in Nat, NEW n \in Nat, m <= n, n <= Len(data)
  PROVE  /\ SubSeq(data, m + 1, n) \in Logs /\ Len(SubSeq(data, m + 1, n)) = n - m
         /\ Part(log, start + m, SubSeq(data, m + 1, n))
<1> DEFINE cut == SubSeq(data, m + 1, n)
<1>1. cut \in Logs /\ Len(cut) = n - m /\ \A i \in 1 .. n - m : cut[i] = data[m + i]
  BY Sliced DEF Logs
<1>2. Len(data) \in Nat /\ Len(log) \in Nat
  BY LenProperties DEF Logs
<1> HIDE DEF cut
<1>3. start + m + Len(cut) <= Len(log)
  BY <1>1, <1>2 DEF Part
<1>4. ASSUME NEW i \in 1 .. n - m
      PROVE  cut[i] = log[(start + m) + i]
  <2>1. m + i \in 1 .. Len(data) /\ start + (m + i) = (start + m) + i
    BY <1>2
  <2> QED  BY <1>1, <2>1 DEF Part
<1>5. Part(log, start + m, cut)
  BY <1>1, <1>3, <1>4 DEF Part
<1> QED  BY <1>1, <1>5 DEF cut

(* A part and the one that follows it are a part.                          *)
LEMMA PartJoined ==
  ASSUME NEW log \in Logs, NEW start \in Nat, NEW s \in Logs, NEW t \in Logs,
         Part(log, start, s), Part(log, start + Len(s), t)
  PROVE  s \o t \in Logs /\ Len(s \o t) = Len(s) + Len(t) /\ Part(log, start, s \o t)
<1>1. /\ s \o t \in Logs /\ Len(s) \in Nat /\ Len(t) \in Nat /\ Len(s \o t) = Len(s) + Len(t)
      /\ \A i \in 1 .. Len(s) : (s \o t)[i] = s[i]
      /\ \A i \in 1 .. Len(t) : (s \o t)[Len(s) + i] = t[i]
  BY Joined DEF Logs
<1>2. start + Len(s \o t) <= Len(log)
  <2>1. Len(log) \in Nat
    BY LenProperties DEF Logs
  <2> QED  BY <1>1, <2>1 DEF Part
<1>3. ASSUME NEW i \in 1 .. Len(s) + Len(t)
      PROVE  (s \o t)[i] = log[start + i]
  <2>1. CASE i <= Len(s)
    BY <1>1, <2>1 DEF Part
  <2>2. CASE ~(i <= Len(s))
    <3>1. i - Len(s) \in 1 .. Len(t) /\ Len(s) + (i - Len(s)) = i /\ (start + Len(s)) + (i - Len(s)) = start + i
      BY <1>1, <2>2
    <3> QED  BY <1>1, <3>1 DEF Part
  <2> QED  BY <2>1, <2>2
<1> QED  BY <1>1, <1>2, <1>3 DEF Part

(* A slice of a log is a part of it, and so is nothing at all.             *)
LEMMA PartSliced ==
  ASSUME NEW log \in Logs, NEW from \in Nat, NEW to \in Nat, from <= to, to <= Len(log)
  PROVE  /\ SubSeq(log, from + 1, to) \in Logs /\ Len(SubSeq(log, from + 1, to)) = to - from
         /\ Part(log, from, SubSeq(log, from + 1, to))
BY Sliced DEF Logs, Part

(* Nothing is a part of every log, anywhere.                               *)
LEMMA PartEmpty ==
  /\ <<>> \in Logs /\ Len(<<>>) = 0
  /\ \A log \in Logs : \A start \in 0 .. Len(log) : Part(log, start, <<>>)
<1>1. <<>> \in Logs /\ Len(<<>>) = 0
  BY EmptySeq DEF Logs
<1>2. \A log \in Logs : Len(log) \in Nat
  BY LenProperties DEF Logs
<1> QED  BY <1>1, <1>2 DEF Part

-------------------------------------------------------------------------------
(* The bus                                                                 *)

(* The stored log stays or grows, and an outcome stays.                    *)
Grows ==
  /\ UNCHANGED stored \/ \E more \in Logs : stored' = stored \o more
  /\ status = "done" => status' = "done"

(* What was in the log stays in it.                                        *)
LEMMA StaysInTheLog ==
  ASSUME DbType, Grows, NEW start \in Nat, NEW data \in Logs, Agrees(start, data)
  PROVE  Agrees(start, data)'
<1>1. CASE UNCHANGED stored
  BY <1>1 DEF Agrees
<1>2. ASSUME NEW more \in Logs, stored' = stored \o more
      PROVE  Agrees(start, data)'
  BY <1>2, AgreesIsPart, PartGrows DEF DbType
<1> QED  BY <1>1, <1>2 DEF Grows

(* The newest bytes of a part of the log are a part of the log.            *)
LEMMA Keeping ==
  ASSUME NEW log \in Logs, NEW end \in Nat, NEW s \in Logs, Len(s) <= end, Part(log, end - Len(s), s)
  PROVE  /\ Holding(end, s) \in TopicType /\ Len(Holding(end, s).buf) <= Retained
         /\ Part(log, Holding(end, s).base, Holding(end, s).buf)
<1> DEFINE kept == Newest(s)
<1>0. Len(s) \in Nat /\ end - Len(s) \in Nat /\ Retained \in Nat \ {0}
  BY LenProperties, BusConstants DEF Logs
<1>1. kept \in Logs /\ Len(kept) <= Len(s) /\ Len(kept) <= Retained /\ Len(kept) \in Nat
      /\ Part(log, end - Len(kept), kept)
  <2>1. CASE Len(s) <= Retained
    BY <1>0, <2>1 DEF Newest
  <2>2. CASE ~(Len(s) <= Retained)
    <3> DEFINE m == Len(s) - Retained
    <3>1. m \in Nat /\ m <= Len(s) /\ kept = SubSeq(s, m + 1, Len(s)) /\ Len(s) - m = Retained
          /\ (end - Len(s)) + m = end - Retained
      BY <1>0, <2>2 DEF Newest
    <3> HIDE DEF kept, m
    <3>2. kept \in Logs /\ Len(kept) = Retained /\ Part(log, end - Retained, kept)
      BY <1>0, <3>1, PartCut
    <3> QED  BY <1>0, <2>2, <3>2
  <2> QED  BY <2>1, <2>2
<1> HIDE DEF kept
<1>2. Holding(end, s) = [state |-> "open", base |-> end - Len(kept), buf |-> kept]
  BY DEF Holding, kept
<1>3. end - Len(kept) \in Nat
  BY <1>0, <1>1
<1> QED  BY <1>1, <1>2, <1>3 DEF TopicType

(* The event of some bytes.                                                *)
LEMMA LogEvents ==
  ASSUME NEW start \in Nat, NEW data \in Logs
  PROVE  LET e == LogEvent(start, data) IN
         e \in EventType /\ e.kind = "log" /\ e.start = start /\ e.data = data
BY DEF LogEvent, EventType

(* An event is added to the queues that have room.                         *)
LEMMA Queueing ==
  ASSUME BusType, NEW e \in EventType
  PROVE  /\ Queued(e) \in [Readers -> Seq(EventType)]
         /\ \A r \in Readers :
              /\ Len(Queued(e)[r]) <= Room
              /\ \A i \in 1 .. Len(Queued(e)[r]) :
                   Queued(e)[r][i] = e \/ (i \in 1 .. Len(chan[r]) /\ Queued(e)[r][i] = chan[r][i])
<1>1. ASSUME NEW r \in Readers
      PROVE  /\ Queued(e)[r] \in Seq(EventType) /\ Len(Queued(e)[r]) <= Room
             /\ \A i \in 1 .. Len(Queued(e)[r]) :
                  Queued(e)[r][i] = e \/ (i \in 1 .. Len(chan[r]) /\ Queued(e)[r][i] = chan[r][i])
  <2>0. chan[r] \in Seq(EventType) /\ Len(chan[r]) \in Nat /\ Len(chan[r]) <= Room /\ Room \in Nat
    BY LenProperties, BusConstants DEF BusType
  <2>1. CASE r \in subs /\ HasRoom(r)
    <3> DEFINE q == Append(chan[r], e)
    <3>1. q \in Seq(EventType) /\ Len(q) = Len(chan[r]) + 1 /\ q[Len(chan[r]) + 1] = e
          /\ \A i \in 1 .. Len(chan[r]) : q[i] = chan[r][i]
      BY <2>0, AppendProperties
    <3>2. Queued(e)[r] = q
      BY <2>1 DEF Queued
    <3>3. Len(chan[r]) < Room
      BY <2>1 DEF HasRoom
    <3> HIDE DEF q
    <3>4. \A i \in 1 .. Len(q) : i = Len(chan[r]) + 1 \/ i \in 1 .. Len(chan[r])
      BY <2>0, <3>1
    <3> QED  BY <2>0, <3>1, <3>2, <3>3, <3>4
  <2>2. CASE ~(r \in subs /\ HasRoom(r))
    BY <2>0, <2>2 DEF Queued
  <2> QED  BY <2>1, <2>2
<1>2. Queued(e) = [r \in Readers |-> Queued(e)[r]]
  BY DEF Queued
<1> QED  BY <1>1, <1>2

(* A topic is opened on its first use.                                     *)
LEMMA Opening ==
  ASSUME topic \in TopicType
  PROVE  /\ Opened \in TopicType /\ Opened.base = topic.base /\ Opened.buf = topic.buf
         /\ Length \in Nat /\ Len(topic.buf) \in Nat
<1>1. topic.base \in Nat /\ topic.buf \in Logs /\ topic.state \in {"none", "open", "closed"}
  BY DEF TopicType
<1>2. Len(topic.buf) \in Nat
  BY <1>1, LenProperties DEF Logs
<1> QED  BY <1>1, <1>2 DEF Opened, TopicType, Length

(* Committed bytes are published.                                          *)
LEMMA Publishing ==
  ASSUME BusType, DbType, BusInv, UNCHANGED <<stored, status>>,
         NEW start \in Nat, NEW data \in Logs, Agrees(start, data), PublishAt(start, data)
  PROVE  BusType' /\ BusInv'
<1> DEFINE end == start + Len(data)
<1>0. /\ topic \in TopicType /\ topic.base \in Nat /\ topic.buf \in Logs
      /\ stored \in Logs /\ Len(data) \in Nat /\ end \in Nat
      /\ Part(stored, start, data) /\ Part(stored, topic.base, topic.buf)
      /\ Length = topic.base + Len(topic.buf) /\ Length \in Nat /\ Len(topic.buf) \in Nat
  BY AgreesIsPart, Opening, LenProperties DEF BusType, TopicType, DbType, BusInv, BusMirrorsTheLog, Logs, Length
<1>1. CASE topic' = Opened /\ UNCHANGED <<chan, subs>>
  BY <1>0, <1>1, Opening DEF BusType, BusInv, BusMirrorsTheLog, QueueInv, EventOK, Agrees
<1>2. ASSUME start <= Length, Length < end,
             NEW fresh, fresh = SubSeq(data, Length - start + 1, Len(data)),
             topic' = Holding(end, topic.buf \o fresh),
             chan' = Queued(LogEvent(Length, fresh)), subs' = {r \in subs : HasRoom(r)}
      PROVE  BusType' /\ BusInv'
  <2> DEFINE m == Length - start
  <2>1. m \in Nat /\ m <= Len(data) /\ start + m = Length /\ Len(data) - m = end - Length
    <3>1. start \in Nat /\ Length \in Nat /\ Len(data) \in Nat /\ start <= Length /\ Length < start + Len(data)
      BY <1>0, <1>2
    <3> QED  BY <3>1
  <2>2. fresh \in Logs /\ Len(fresh) = end - Length /\ Part(stored, Length, fresh)
    <3>1. fresh = SubSeq(data, m + 1, Len(data))
      BY <1>2
    <3> HIDE DEF m
    <3> QED  BY <1>0, <2>1, <3>1, PartCut
  <2> DEFINE s == topic.buf \o fresh
  <2>3. s \in Logs /\ Len(s) = Len(topic.buf) + Len(fresh) /\ Part(stored, topic.base, s)
    BY <1>0, <2>2, PartJoined
  <2>4. Len(s) <= end /\ end - Len(s) = topic.base
    <3>1. /\ Len(s) = Len(topic.buf) + Len(fresh) /\ Len(fresh) = end - Length
          /\ Length = topic.base + Len(topic.buf)
          /\ topic.base \in Nat /\ Len(topic.buf) \in Nat /\ end \in Nat
      BY <1>0, <2>2, <2>3
    <3>2. PICK all \in {Len(s)}, kept \in {Len(topic.buf)}, new \in {Len(fresh)}, to \in {end} : TRUE
      OBVIOUS
    <3>3. all = kept + new /\ new = to - (topic.base + kept) /\ topic.base \in Nat /\ kept \in Nat /\ to \in Nat
      BY <3>1, <3>2
    <3>4. all <= to /\ to - all = topic.base
      BY <3>3
    <3> QED  BY <3>2, <3>4
  <2> HIDE DEF s, end
  <2>5. topic' \in TopicType /\ Len(topic'.buf) <= Retained /\ Part(stored, topic'.base, topic'.buf)
    <3>1. topic' = Holding(end, s)
      BY <1>2 DEF s
    <3> QED  BY <1>0, <2>3, <2>4, <3>1, Keeping
  <2>6. PICK e \in EventType : e = LogEvent(Length, fresh) /\ e.kind = "log" /\ e.start = Length /\ e.data = fresh
    BY <1>0, <2>2, LogEvents
  <2>7. chan' = Queued(e)
    BY <1>2, <2>6
  <2>8. BusType'
    BY <1>2, <2>5, <2>6, <2>7, Queueing DEF BusType
  <2>9. BusMirrorsTheLog'
    BY <2>5 DEF BusMirrorsTheLog, Agrees, Part
  <2>10. QueueInv'
    <3>1. EventOK(e)
      BY <2>2, <2>6 DEF EventOK, Part, Agrees
    <3>2. \A r \in Readers : \A i \in 1 .. Len(chan[r]) : EventOK(chan[r][i])
      BY DEF BusInv, QueueInv
    <3>3. \A f : EventOK(f)' <=> EventOK(f)
      BY DEF EventOK, Agrees
    <3>4. \A r \in Readers : \A i \in 1 .. Len(chan'[r]) : EventOK(chan'[r][i])
      BY <2>7, <3>1, <3>2, Queueing
    <3> QED  BY <3>3, <3>4 DEF QueueInv, EventOK, Agrees
  <2> QED  BY <2>8, <2>9, <2>10 DEF BusInv
<1>3. CASE topic' = Holding(end, data) /\ subs' = {} /\ UNCHANGED chan
  <2>1. Len(data) <= end /\ end - Len(data) = start
    BY <1>0
  <2> HIDE DEF end
  <2>2. topic' \in TopicType /\ Len(topic'.buf) <= Retained /\ Part(stored, topic'.base, topic'.buf)
    BY <1>0, <1>3, <2>1, Keeping
  <2> QED  BY <1>3, <2>2 DEF BusType, BusInv, BusMirrorsTheLog, QueueInv, EventOK, Agrees, Part
<1> QED  BY <1>1, <1>2, <1>3 DEF PublishAt

(* A stored prefix is installed.                                           *)
LEMMA Seeding ==
  ASSUME BusType, DbType, BusInv, UNCHANGED <<stored, status>>,
         NEW start \in Nat, start <= Len(stored), SeedUpTo(start)
  PROVE  BusType' /\ BusInv'
<1>0. topic \in TopicType /\ stored \in Logs /\ Retained \in Nat
  BY BusConstants DEF BusType, DbType
<1>1. CASE UNCHANGED busVars
  BY <1>1 DEF busVars, BusType, BusInv, BusMirrorsTheLog, QueueInv, EventOK, Agrees
<1>2. ASSUME NEW from, from = IF start > Retained THEN start - Retained ELSE 0,
             SeedAt(from, Slice(from, start))
      PROVE  BusType' /\ BusInv'
  <2> DEFINE data == Slice(from, start)
  <2>1. from \in Nat /\ from <= start
    BY <1>0, <1>2
  <2>2. data \in Logs /\ Len(data) = start - from /\ Part(stored, from, data)
    BY <1>0, <2>1, PartSliced DEF Slice
  <2>3. from + Len(data) = start /\ start - Len(data) = from /\ Len(data) <= start
    BY <2>1, <2>2
  <2>4. UNCHANGED <<chan, subs>> /\ topic' \in {Opened, Holding(start, data)}
    BY <1>2, <2>3 DEF SeedAt
  <2> HIDE DEF data
  <2>5. topic' \in TopicType /\ Len(topic'.buf) <= Retained /\ Part(stored, topic'.base, topic'.buf)
    <3>1. CASE topic' = Opened
      BY <1>0, <3>1, Opening, AgreesIsPart DEF BusType, BusInv, BusMirrorsTheLog
    <3>2. CASE topic' = Holding(start, data)
      BY <1>0, <2>2, <2>3, <3>2, Keeping
    <3> QED  BY <2>4, <3>1, <3>2
  <2> QED  BY <2>4, <2>5 DEF BusType, BusInv, BusMirrorsTheLog, QueueInv, EventOK, Agrees, Part
<1> QED  BY <1>1, <1>2 DEF SeedUpTo

(* An outcome is published.                                                *)
LEMMA Closing ==
  ASSUME BusType, DbType, BusInv, UNCHANGED <<stored, status>>, status = "done", PublishEnd
  PROVE  BusType' /\ BusInv'
<1>1. CASE UNCHANGED busVars
  BY <1>1 DEF busVars, BusType, BusInv, BusMirrorsTheLog, QueueInv, EventOK, Agrees
<1>2. CASE topic' = [topic EXCEPT !.state = "closed"] /\ chan' = Queued(EndEvent) /\ subs' = {}
  <2>1. EndEvent \in EventType /\ EndEvent.kind = "end"
    BY PartEmpty DEF EndEvent, EventType
  <2>2. topic' \in TopicType /\ topic'.base = topic.base /\ topic'.buf = topic.buf
    BY <1>2 DEF BusType, TopicType
  <2>3. BusType'
    BY <1>2, <2>1, <2>2, Queueing DEF BusType
  <2>4. BusMirrorsTheLog'
    BY <2>2 DEF BusInv, BusMirrorsTheLog, Agrees
  <2>5. QueueInv'
    <3>1. EventOK(EndEvent)'
      BY <2>1 DEF EventOK, EndEvent
    <3>2. \A r \in Readers : \A i \in 1 .. Len(chan[r]) : EventOK(chan[r][i])
      BY DEF BusInv, QueueInv
    <3>3. \A e : EventOK(e)' <=> EventOK(e)
      BY DEF EventOK, Agrees
    <3> QED  BY <1>2, <2>1, <3>1, <3>2, <3>3, Queueing DEF QueueInv
  <2> QED  BY <2>3, <2>4, <2>5 DEF BusInv
<1> QED  BY <1>1, <1>2 DEF PublishEnd

(* The log may grow while the topic is opened or forgotten and events are  *)
(* taken from the queues.                                                  *)
LEMMA BusKept ==
  ASSUME BusType, DbType, BusInv, Grows, topic' \in {topic, Opened, NoTopic}, subs' \subseteq Readers,
         chan' \in [Readers -> Seq(EventType)],
         \A r \in Readers : /\ Len(chan'[r]) <= Len(chan[r])
                            /\ \A i \in 1 .. Len(chan'[r]) : \E j \in 1 .. Len(chan[r]) : chan'[r][i] = chan[r][j]
  PROVE  BusType' /\ BusInv'
<1>1. PICK start \in Nat, data \in Logs :
        /\ topic' \in TopicType /\ topic'.base = start /\ topic'.buf = data
        /\ Len(data) <= Retained /\ Agrees(start, data)
  <2>1. CASE topic' \in {topic, Opened}
    <3>1. topic \in TopicType /\ topic' \in TopicType /\ topic'.base = topic.base /\ topic'.buf = topic.buf
          /\ topic.base \in Nat /\ topic.buf \in Logs
      BY <2>1, Opening DEF BusType, TopicType
    <3> QED  BY <3>1 DEF BusType, BusInv, BusMirrorsTheLog
  <2>2. CASE topic' = NoTopic
    <3>1. topic' \in TopicType /\ topic'.base = 0 /\ topic'.buf = <<>> /\ <<>> \in Logs /\ Len(<<>>) = 0
      BY <2>2, PartEmpty DEF NoTopic, TopicType
    <3>2. Agrees(0, <<>>)
      BY PartEmpty, LenProperties, AgreesIsPart DEF DbType, Logs
    <3> QED  BY <3>1, <3>2, BusConstants
  <2> QED  BY <2>1, <2>2
<1>2. BusType'
  <2>1. \A r \in Readers : Len(chan'[r]) <= Room
    <3>1. \A r \in Readers : Len(chan'[r]) \in Nat /\ Len(chan[r]) \in Nat /\ Len(chan[r]) <= Room /\ Room \in Nat
      BY LenProperties, BusConstants DEF BusType
    <3> QED  BY <3>1
  <2> QED  BY <1>1, <2>1 DEF BusType
<1>3. BusMirrorsTheLog'
  <2>1. Agrees(start, data)'
    BY <1>1, StaysInTheLog
  <2> QED  BY <1>1, <2>1 DEF BusMirrorsTheLog, Agrees
<1>4. QueueInv'
  <2>1. ASSUME NEW r \in Readers, NEW i \in 1 .. Len(chan'[r])
        PROVE  EventOK(chan[r][i])'
    <3>0. PICK j \in 1 .. Len(chan[r]) : chan'[r][i] = chan[r][j]
      OBVIOUS
    <3>1. PICK e \in EventType : e = chan[r][j]
      BY ElementOfSeq DEF BusType
    <3>2. e.start \in Nat /\ e.data \in Logs /\ EventOK(e)
      BY <3>1 DEF EventType, BusInv, QueueInv
    <3>3. EventOK(e)'
      BY <3>2, StaysInTheLog DEF EventOK, Grows
    <3> QED  BY <3>0, <3>1, <3>3 DEF EventOK, Agrees
  <2> QED  BY <2>1 DEF QueueInv
<1> QED  BY <1>2, <1>3, <1>4 DEF BusInv

(* Nothing happens to the queues.                                          *)
LEMMA QueuesKept ==
  ASSUME BusType, DbType, BusInv, Grows, topic' \in {topic, Opened, NoTopic}, UNCHANGED <<chan, subs>>
  PROVE  BusType' /\ BusInv'
<1>1. \A r \in Readers : Len(chan[r]) \in Nat
  BY LenProperties DEF BusType
<1>2. \A r \in Readers : Len(chan'[r]) <= Len(chan[r])
  BY <1>1
<1> QED  BY <1>2, BusKept DEF BusType

-------------------------------------------------------------------------------
(* The steps, on the log                                                   *)

(* A note.                                                                 *)
LEMMA NoteIsALog == <<Note>> \in Logs /\ Len(<<Note>>) = 1 /\ <<Note>>[1] = Note
<1>1. Note \in Bytes
  BY StreamConstants DEF Note, Bytes
<1> QED  BY <1>1 DEF Logs

(* An outcome stays, the log of a build that has one stays as it is, and   *)
(* that of a build that has none only grows.                               *)
LEMMA Growing ==
  ASSUME IInv, [Next]_vars
  PROVE  Grows /\ (status = "done" => UNCHANGED <<stored, status>>)
<1>0. /\ rpc # "idle" => status = "running"
      /\ sink \in Logs /\ \A w \in Writers : task[w].data \in Logs
      /\ <<Note>> \in Logs /\ {"runner", "upload", "janitor", "cancel"} \subseteq Writers
  BY NoteIsALog DEF IInv, RowInv, Types, WriterType, TaskType, Writers
<1>1. CASE UNCHANGED <<stored, status>>
  BY <1>1 DEF Grows
<1>2. CASE status # "done" /\ \E more \in Logs : stored' = stored \o more
  BY <1>2 DEF Grows
<1>3. CASE status # "done" /\ UNCHANGED stored
  BY <1>3 DEF Grows
<1>4. CASE RunnerNext
  <2>1. CASE RunnerClaim \/ Finish
    BY <1>0, <1>3, <2>1 DEF RunnerClaim, Finish
  <2>2. CASE Flush
    BY <1>0, <1>2, <2>2 DEF Flush, Store
  <2>3. CASE RunnerNote
    BY <1>0, <1>2, <2>3 DEF RunnerNote, Store
  <2>4. CASE Requeue
    BY <1>0, <1>2, <2>4 DEF Requeue, Store
  <2>5. CASE Write \/ RunnerSeed \/ RunnerPublish \/ Abandon \/ StopRunner
    BY <1>1, <2>5 DEF Write, RunnerSeed, RunnerPublish, Abandon, StopRunner, dbVars
  <2> QED  BY <1>4, <2>1, <2>2, <2>3, <2>4, <2>5 DEF RunnerNext
<1>5. CASE AgentNext
  <2>1. CASE AgentClaim \/ (AgentFinish /\ AgentOwns)
    BY <1>3, <2>1 DEF AgentClaim, AgentFinish, AgentOwns
  <2>2. CASE UploadAppend /\ AgentOwns
    <3>1. status # "done"
      BY <2>2 DEF AgentOwns
    <3>2. stored' \in {stored, stored \o task["upload"].data}
      BY <2>2 DEF UploadAppend, Store
    <3> QED  BY <1>0, <1>2, <1>3, <3>1, <3>2
  <2>3. CASE (AgentFinish \/ UploadAppend) /\ ~AgentOwns
    BY <1>1, <2>3 DEF AgentFinish, UploadAppend
  <2>4. CASE AgentOutput \/ AgentSend \/ UploadCompare \/ UploadSeed \/ UploadPublish \/ UploadAnswer
    BY <1>1, <2>4 DEF AgentOutput, AgentSend, UploadCompare, UploadSeed, UploadPublish, UploadAnswer, dbVars
  <2>5. CASE \E q \in reqs : UploadOpen(q)
    BY <1>1, <2>5 DEF UploadOpen, dbVars
  <2> QED  BY <1>5, <2>1, <2>2, <2>3, <2>4, <2>5 DEF AgentNext, UploadNext
<1>6. CASE OutcomeNext
  <2>1. CASE JanitorFail \/ CancelPending \/ FailPending
    BY <1>0, <1>2, <2>1 DEF JanitorFail, CancelPending, FailPending, Store
  <2>2. CASE JanitorMirror \/ CancelPublish
    BY <1>1, <2>2 DEF JanitorMirror, CancelPublish, dbVars
  <2> QED  BY <1>6, <2>1, <2>2 DEF OutcomeNext
<1>7. CASE (\E w \in Writers : End(w)) \/ TopicExpires
  BY <1>1, <1>7 DEF End, TopicExpires, dbVars
<1>8. CASE \E r \in Readers : Connect(r) \/ Disconnect(r) \/ StreamNext(r)
  BY <1>1, <1>8 DEF Connect, Disconnect, StreamNext, StreamSubscribe, Reread, Replay, Final, StreamLog, StreamEnd,
     StreamClosed, dbVars
<1>9. CASE Restart
  BY <1>0, <1>1, <1>2, <1>9 DEF Restart, Store
<1>10. CASE UNCHANGED vars
  BY <1>1, <1>10 DEF vars, dbVars
<1> QED  BY <1>4, <1>5, <1>6, <1>7, <1>8, <1>9, <1>10 DEF Next

(* The log keeps its type and does not get shorter.                        *)
LEMMA Longer ==
  ASSUME DbType, Grows
  PROVE  stored' \in Logs /\ Len(stored) \in Nat /\ Len(stored') \in Nat /\ Len(stored) <= Len(stored')
<1>1. stored \in Logs /\ Len(stored) \in Nat
  BY LenProperties DEF DbType, Logs
<1>2. \A more \in Logs : /\ stored \o more \in Logs /\ Len(more) \in Nat
                       /\ Len(stored \o more) = Len(stored) + Len(more)
  BY <1>1, Joined DEF Logs
<1>3. CASE UNCHANGED stored
  BY <1>1, <1>3
<1>4. ASSUME NEW more \in Logs, stored' = stored \o more
      PROVE  stored' \in Logs /\ Len(stored') \in Nat /\ Len(stored) <= Len(stored')
  BY <1>1, <1>2, <1>4
<1> QED  BY <1>1, <1>3, <1>4 DEF Grows

(* The note of an outcome is where its writer publishes it.                *)
LEMMA NotePublished ==
  ASSUME DbType, Noted
  PROVE  Len(stored) - 1 \in Nat /\ <<Note>> \in Logs /\ Agrees(Len(stored) - 1, <<Note>>)
<1>1. Len(stored) \in Nat \ {0}
  BY EmptySeq DEF DbType, Noted, Logs
<1>2. (Len(stored) - 1) + 1 = Len(stored)
  BY <1>1
<1> QED  BY <1>1, <1>2, NoteIsALog DEF Agrees, Noted

(* The steps, on the bus.                                                  *)
LEMMA BusStep ==
  ASSUME IInv, [Next]_vars
  PROVE  BusType' /\ BusInv'
<1>0. BusType /\ DbType /\ BusInv /\ Grows
  BY Growing DEF IInv, Types
<1>1. CASE topic' \in {topic, Opened, NoTopic} /\ UNCHANGED <<chan, subs>>
  BY <1>0, <1>1, QueuesKept
<1>2. ASSUME NEW w \in Writers, UNCHANGED dbVars, task[w].pc = "publish", PublishAt(task[w].start, task[w].data),
             w \in {"runner", "upload"}
      PROVE  BusType' /\ BusInv'
  <2>1. PICK start \in Nat, data \in Logs : start = task[w].start /\ data = task[w].data
    BY DEF IInv, Types, WriterType, TaskType
  <2>2. Agrees(start, data) /\ PublishAt(start, data)
    BY <1>2, <2>1 DEF IInv, TaskInv, TaskOK, Writers
  <2> QED  BY <1>0, <1>2, <2>2, Publishing DEF dbVars
<1>3. ASSUME NEW start, start = Len(stored) - 1, Noted, PublishAt(start, <<Note>>), UNCHANGED dbVars
      PROVE  BusType' /\ BusInv'
  <2>1. start \in Nat /\ <<Note>> \in Logs /\ Agrees(start, <<Note>>)
    BY <1>0, <1>3, NotePublished
  <2> QED  BY <1>0, <1>3, <2>1, Publishing DEF dbVars
<1>4. ASSUME NEW w \in {"runner", "upload"}, task[w].pc = "seed", SeedUpTo(task[w].start), UNCHANGED dbVars
      PROVE  BusType' /\ BusInv'
  <2>1. PICK start \in Nat, data \in Logs : start = task[w].start /\ data = task[w].data
    BY DEF IInv, Types, WriterType, TaskType, Writers
  <2>2. start <= Len(stored)
    <3>1. Len(stored) \in Nat /\ Len(data) \in Nat
      BY <1>0, <2>1, LenProperties DEF DbType, Logs
    <3>2. Agrees(start, data) \/ start <= Len(stored)
      BY <1>4, <2>1 DEF IInv, TaskInv, TaskOK, Writers
    <3> QED  BY <3>1, <3>2 DEF Agrees
  <2> QED  BY <1>0, <1>4, <2>1, <2>2, Seeding DEF dbVars
<1>5. ASSUME NEW r \in Readers, StreamSubscribe(r) \/ Unsubscribe(r), UNCHANGED dbVars
      PROVE  BusType' /\ BusInv'
  <2>1. /\ topic' \in {topic, Opened} /\ subs' \subseteq Readers /\ chan' = [chan EXCEPT ![r] = <<>>]
    BY <1>0, <1>5 DEF StreamSubscribe, Subscribe, Unsubscribe, BusType
  <2>2. /\ <<>> \in Seq(EventType) /\ Len(<<>>) = 0 /\ \A q \in Readers : Len(chan[q]) \in Nat
    BY <1>0, EmptySeq, LenProperties DEF BusType
  <2>3. /\ chan' \in [Readers -> Seq(EventType)]
        /\ \A q \in Readers : chan'[q] = IF q = r THEN <<>> ELSE chan[q]
    BY <1>0, <2>1, <2>2 DEF BusType
  <2>4. \A q \in Readers : Len(chan'[q]) <= Len(chan[q])
    BY <2>2, <2>3
  <2>5. \A q \in Readers : \A i \in 1 .. Len(chan'[q]) : \E j \in 1 .. Len(chan[q]) : chan'[q][i] = chan[q][j]
    BY <2>2, <2>3
  <2> QED  BY <1>0, <2>1, <2>3, <2>4, <2>5, BusKept
<1>6. ASSUME NEW r \in Readers, StreamLog(r)
      PROVE  BusType' /\ BusInv'
  <2>1. UNCHANGED <<topic, subs>> /\ chan' = [chan EXCEPT ![r] = Tail(@)] /\ chan[r] # <<>>
    BY <1>6 DEF StreamLog
  <2>2. /\ \A q \in Readers : Len(chan[q]) \in Nat
        /\ Tail(chan[r]) \in Seq(EventType) /\ Len(Tail(chan[r])) = Len(chan[r]) - 1
        /\ \A i \in 1 .. Len(Tail(chan[r])) : Tail(chan[r])[i] = chan[r][i + 1]
    BY <1>0, <2>1, LenProperties, HeadTailProperties DEF BusType
  <2>3. /\ chan' \in [Readers -> Seq(EventType)]
        /\ \A q \in Readers : chan'[q] = IF q = r THEN Tail(chan[r]) ELSE chan[q]
    BY <1>0, <2>1, <2>2 DEF BusType
  <2>4. \A q \in Readers : Len(chan'[q]) <= Len(chan[q])
    BY <2>2, <2>3
  <2>5. \A q \in Readers : \A i \in 1 .. Len(chan'[q]) : \E j \in 1 .. Len(chan[q]) : chan'[q][i] = chan[q][j]
    <3>1. \A i \in 1 .. Len(Tail(chan[r])) : i + 1 \in 1 .. Len(chan[r])
      BY <2>2
    <3> QED  BY <2>2, <2>3, <3>1
  <2>6. subs' \subseteq Readers
    BY <1>0, <2>1 DEF BusType
  <2> QED  BY <1>0, <2>1, <2>3, <2>4, <2>5, <2>6, BusKept
<1>7. CASE RunnerNext
  <2>1. CASE RunnerSeed
    BY <1>4, <2>1 DEF RunnerSeed
  <2>2. CASE RunnerPublish
    BY <1>2, <2>2 DEF RunnerPublish, Writers
  <2>3. CASE ~(RunnerSeed \/ RunnerPublish)
    BY <1>1, <1>7, <2>3 DEF RunnerNext, RunnerClaim, Write, Flush, RunnerNote, Finish, Abandon, StopRunner, Requeue, busVars
  <2> QED  BY <2>1, <2>2, <2>3
<1>8. CASE AgentNext
  <2>1. CASE UploadSeed
    BY <1>1, <1>4, <2>1 DEF UploadSeed, busVars
  <2>2. CASE UploadPublish
    BY <1>2, <2>2 DEF UploadPublish, Writers
  <2>3. CASE ~(UploadSeed \/ UploadPublish)
    BY <1>1, <1>8, <2>3 DEF AgentNext, UploadNext, AgentClaim, AgentOutput, AgentSend, AgentFinish, UploadOpen,
       UploadCompare, UploadAppend, UploadAnswer, busVars
  <2> QED  BY <2>1, <2>2, <2>3
<1>9. CASE OutcomeNext
  <2>1. CASE JanitorMirror
    <3>1. Noted
      BY <2>1 DEF JanitorMirror, IInv, TaskInv, TaskOK, Writers
    <3>2. CASE UNCHANGED busVars
      BY <1>1, <3>2 DEF busVars
    <3>3. CASE PublishAt(Len(stored) - 1, <<Note>>)
      BY <1>3, <2>1, <3>1, <3>3 DEF JanitorMirror
    <3> QED  BY <2>1, <3>2, <3>3 DEF JanitorMirror
  <2>2. CASE CancelPublish
    <3>1. Noted
      BY <2>2 DEF CancelPublish, IInv, TaskInv, TaskOK, Writers
    <3> QED  BY <1>3, <2>2, <3>1 DEF CancelPublish
  <2>3. CASE JanitorFail \/ CancelPending \/ FailPending
    BY <1>1, <2>3 DEF JanitorFail, CancelPending, FailPending, busVars
  <2> QED  BY <1>9, <2>1, <2>2, <2>3 DEF OutcomeNext
<1>10. ASSUME NEW w \in Writers, End(w)
       PROVE  BusType' /\ BusInv'
  <2>1. status = "done" /\ PublishEnd /\ UNCHANGED <<stored, status>>
    BY <1>10 DEF End, IInv, TaskInv, TaskOK, dbVars
  <2> QED  BY <1>0, <2>1, Closing
<1>11. CASE TopicExpires
  BY <1>1, <1>11 DEF TopicExpires, Expire
<1>12. ASSUME NEW r \in Readers, Connect(r) \/ Disconnect(r) \/ StreamNext(r)
       PROVE  BusType' /\ BusInv'
  <2>1. CASE Connect(r) \/ Reread(r) \/ Replay(r)
    BY <1>1, <2>1 DEF Connect, Reread, Replay, busVars
  <2>2. CASE Disconnect(r) \/ Final(r) \/ StreamEnd(r) \/ StreamClosed(r)
    <3>1. Unsubscribe(r) /\ UNCHANGED dbVars
      BY <2>2 DEF Disconnect, Final, StreamEnd, StreamClosed, TellEnd, Leave
    <3> QED  BY <1>5, <3>1
  <2>3. CASE StreamSubscribe(r)
    BY <1>5, <2>3 DEF StreamSubscribe
  <2> QED  BY <1>6, <1>12, <2>1, <2>2, <2>3 DEF StreamNext
<1>13. CASE Restart
  <2>1. topic' = NoTopic /\ chan' = [r \in Readers |-> <<>>] /\ subs' = {}
    BY <1>13 DEF Restart
  <2>2. <<>> \in Seq(EventType) /\ Len(<<>>) = 0 /\ \A q \in Readers : Len(chan[q]) \in Nat
    BY <1>0, EmptySeq, LenProperties DEF BusType
  <2>3. /\ chan' \in [Readers -> Seq(EventType)]
        /\ \A r \in Readers : Len(chan'[r]) <= Len(chan[r]) /\ Len(chan'[r]) = 0
    BY <2>1, <2>2
  <2>4. \A q \in Readers : \A i \in 1 .. Len(chan'[q]) : \E j \in 1 .. Len(chan[q]) : chan'[q][i] = chan[q][j]
    BY <2>3
  <2> QED  BY <1>0, <2>1, <2>3, <2>4, BusKept
<1>14. CASE UNCHANGED vars
  BY <1>1, <1>14 DEF vars, busVars
<1> QED  BY <1>7, <1>8, <1>9, <1>10, <1>11, <1>12, <1>13, <1>14 DEF Next

-------------------------------------------------------------------------------
(* The steps, on the writers                                               *)

(* What a writer has to do changes, and no other's.                        *)
Others(w) == \A v \in Writers : v # w => task'[v] = task[v]
(* The three ways to change what a writer has to do.                       *)
LEMMA Tasks ==
  ASSUME task \in [Writers -> TaskType], NEW w \in Writers,
         NEW pc \in {"idle", "compare", "seed", "append", "publish", "answer", "mirror", "end"},
         NEW start \in Nat, NEW data \in Logs
  PROVE  /\ ToDo(w, pc, start, data) =>
              /\ task' \in [Writers -> TaskType] /\ Others(w)
              /\ task'[w].pc = pc /\ task'[w].start = start /\ task'[w].data = data
         /\ Then(w, pc) =>
              /\ task' \in [Writers -> TaskType] /\ Others(w)
              /\ task'[w].pc = pc /\ task'[w].start = task[w].start /\ task'[w].data = task[w].data
         /\ Done(w) =>
              /\ task' \in [Writers -> TaskType] /\ Others(w)
              /\ task'[w].pc = "idle" /\ task'[w].data = <<>>
<1>1. ASSUME ToDo(w, pc, start, data)
      PROVE  /\ task' \in [Writers -> TaskType] /\ Others(w)
             /\ task'[w].pc = pc /\ task'[w].start = start /\ task'[w].data = data
  <2> DEFINE t == [pc |-> pc, start |-> start, data |-> data]
  <2>1. t \in TaskType /\ t.pc = pc /\ t.start = start /\ t.data = data
    BY DEF TaskType
  <2>2. task' = [task EXCEPT ![w] = t]
    BY <1>1 DEF ToDo
  <2> HIDE DEF t
  <2> QED  BY <2>1, <2>2 DEF Others
<1>2. ASSUME Then(w, pc)
      PROVE  /\ task' \in [Writers -> TaskType] /\ Others(w)
             /\ task'[w].pc = pc /\ task'[w].start = task[w].start /\ task'[w].data = task[w].data
  <2> DEFINE t == [task[w] EXCEPT !.pc = pc]
  <2>1. t \in TaskType /\ t.pc = pc /\ t.start = task[w].start /\ t.data = task[w].data
    BY DEF TaskType
  <2>2. task' = [task EXCEPT ![w] = t]
    BY <1>2 DEF Then
  <2> HIDE DEF t
  <2> QED  BY <2>1, <2>2 DEF Others
<1>3. ASSUME Done(w)
      PROVE  /\ task' \in [Writers -> TaskType] /\ Others(w)
             /\ task'[w].pc = "idle" /\ task'[w].data = <<>>
  <2>1. Rest \in TaskType /\ Rest.pc = "idle" /\ Rest.data = <<>>
    BY PartEmpty DEF Rest, TaskType
  <2>2. task' = [task EXCEPT ![w] = Rest]
    BY <1>3 DEF Done
  <2> QED  BY <2>1, <2>2 DEF Others
<1> QED  BY <1>1, <1>2, <1>3

(* The row keeps its type, and what is known of it stays true.             *)
LEMMA RowStep ==
  ASSUME IInv, [Next]_vars
  PROVE  /\ DbType'
         /\ rpc' # "idle" => status' = "running" /\ owner' = "server"
         /\ owner' = "agent" => status' # "pending"
         /\ aoff' <= Len(stored')
<1>0. /\ DbType /\ RowInv /\ stored' \in Logs /\ Len(stored) \in Nat /\ Len(stored') \in Nat /\ aoff \in Nat
      /\ aoff <= Len(stored') /\ MaxRequeues \in Nat /\ rpc \in {"idle", "building", "ending"}
  BY Growing, Longer, StreamConstants DEF IInv, Types, RowInv, AgentType, WriterType
<1>1. CASE UNCHANGED <<status, owner, requeues, aoff>> /\ rpc' \in {rpc, "idle"}
  BY <1>0, <1>1 DEF DbType, RowInv
<1>2. CASE status' = "done" /\ rpc' = "idle" /\ UNCHANGED <<owner, requeues, aoff>>
  BY <1>0, <1>2 DEF DbType
<1>3. CASE Requeue
  <2>1. status' = "pending" /\ rpc' = "idle" /\ owner' = "server" /\ requeues' = requeues + 1
        /\ requeues < MaxRequeues /\ aoff' = aoff
    BY <1>0, <1>3 DEF Requeue, RowInv, agentVars
  <2>2. requeues' \in 0 .. MaxRequeues
    BY <1>0, <2>1 DEF DbType
  <2> QED  BY <1>0, <2>1, <2>2 DEF DbType
<1>4. CASE RunnerClaim
  <2>1. status' = "running" /\ owner' = "server" /\ UNCHANGED <<requeues, aoff>>
    BY <1>4 DEF RunnerClaim, agentVars
  <2> QED  BY <1>0, <2>1 DEF DbType
<1>5. CASE AgentClaim
  <2>1. status' = "running" /\ owner' = "agent" /\ rpc' = "idle" /\ UNCHANGED <<requeues, stored>>
        /\ aoff' = Len(stored)
    BY <1>0, <1>5 DEF AgentClaim, runnerVars, RowInv
  <2> QED  BY <1>0, <2>1 DEF DbType
<1>6. CASE RunnerNote
  BY <1>0, <1>6 DEF RunnerNote, agentVars, RowInv, DbType
<1>7. CASE RunnerNext
  BY <1>0, <1>1, <1>2, <1>3, <1>4, <1>6, <1>7 DEF RunnerNext, Write, Flush, RunnerSeed, RunnerPublish, Finish, Abandon,
     StopRunner, dbVars, runnerVars, agentVars
<1>8. CASE AgentFinish /\ AgentOwns
  <2>1. status' = "done" /\ rpc = "idle"
    BY <1>0, <1>8 DEF AgentFinish, AgentOwns, RowInv
  <2> QED  BY <1>2, <1>8, <2>1 DEF AgentFinish, runnerVars
<1>9. CASE AgentNext
  <2>1. CASE AgentOutput \/ AgentSend \/ UploadNext \/ \E q \in reqs : UploadOpen(q)
    BY <1>1, <2>1 DEF AgentOutput, AgentSend, UploadOpen, UploadNext, UploadCompare, UploadSeed,
       UploadAppend, UploadPublish, UploadAnswer, dbVars, runnerVars, agentVars
  <2>2. CASE AgentFinish /\ ~AgentOwns
    BY <1>1, <2>2 DEF AgentFinish, runnerVars
  <2> QED  BY <1>5, <1>8, <1>9, <2>1, <2>2 DEF AgentNext
<1>10. CASE OutcomeNext
  <2>1. CASE JanitorFail \/ CancelPending \/ FailPending
    <3>1. rpc = "idle"
      BY <1>0, <2>1 DEF JanitorFail, CancelPending, FailPending, RowInv
    <3> QED  BY <1>2, <2>1, <3>1 DEF JanitorFail, CancelPending, FailPending, runnerVars, agentVars
  <2>2. CASE JanitorMirror \/ CancelPublish
    BY <1>1, <2>2 DEF JanitorMirror, CancelPublish, dbVars, runnerVars, agentVars
  <2> QED  BY <1>10, <2>1, <2>2 DEF OutcomeNext
<1>11. CASE (\E w \in Writers : End(w)) \/ TopicExpires
  BY <1>1, <1>11 DEF End, TopicExpires, dbVars, runnerVars, agentVars
<1>12. CASE \E r \in Readers : Connect(r) \/ Disconnect(r) \/ StreamNext(r)
  BY <1>1, <1>12 DEF Connect, Disconnect, StreamNext, StreamSubscribe, Reread, Replay, Final, StreamLog, StreamEnd,
     StreamClosed, dbVars, runnerVars, agentVars
<1>13. CASE Restart
  <2>1. rpc' = "idle" /\ UNCHANGED <<owner, aoff>>
    BY <1>13 DEF Restart
  <2>2. CASE status = "running" /\ owner = "server" /\ requeues < MaxRequeues
    <3>1. status' = "pending" /\ requeues' = requeues + 1
      BY <1>13, <2>2 DEF Restart
    <3>2. requeues' \in 0 .. MaxRequeues
      BY <1>0, <2>2, <3>1 DEF DbType
    <3> QED  BY <1>0, <2>1, <2>2, <3>1, <3>2 DEF DbType
  <2>3. CASE status = "running" /\ owner = "server" /\ ~(requeues < MaxRequeues)
    BY <1>2, <1>13, <2>1, <2>3 DEF Restart
  <2>4. CASE ~(status = "running" /\ owner = "server")
    BY <1>1, <1>13, <2>1, <2>4 DEF Restart
  <2> QED  BY <2>2, <2>3, <2>4
<1>14. CASE UNCHANGED vars
  BY <1>1, <1>14 DEF vars, dbVars, runnerVars, agentVars
<1> QED  BY <1>7, <1>9, <1>10, <1>11, <1>12, <1>13, <1>14 DEF Next

(* A writer that does nothing still has right what it has to do.           *)
LEMMA TaskKept ==
  ASSUME IInv, [Next]_vars, NEW w \in Writers, task'[w] = task[w]
  PROVE  TaskOK(w)'
<1>0. /\ DbType /\ Grows /\ Len(stored) \in Nat /\ Len(stored') \in Nat /\ Len(stored) <= Len(stored')
      /\ status = "done" => UNCHANGED <<stored, status>>
  BY Growing, Longer DEF IInv, Types
<1>1. PICK start \in Nat, data \in Logs : start = task[w].start /\ data = task[w].data
  BY DEF IInv, Types, WriterType, TaskType
<1>2. TaskOK(w)
  BY DEF IInv, TaskInv
<1>3. Agrees(start, data) => Agrees(start, data)'
  BY <1>0, StaysInTheLog
<1>4. Noted => Noted'
  BY <1>0 DEF Noted
<1>5. start <= Len(stored) => start <= Len(stored')
  BY <1>0
<1>6. /\ task'[w].pc = "end" => status' = "done"
      /\ w = "upload" /\ task'[w].pc \in {"seed", "append"} => task'[w].start <= Len(stored')
      /\ w \in {"janitor", "cancel"} /\ task'[w].pc \in {"mirror", "publish"} => Noted'
  BY <1>0, <1>1, <1>2, <1>4, <1>5 DEF TaskOK
<1>7. Agrees(start, data) <=> Agrees(task[w].start, task[w].data)
  BY <1>1
<1>8. Agrees(start, data)' <=> Agrees(task[w].start, task[w].data)'
  BY <1>1 DEF Agrees
<1>9. /\ w \in {"runner", "upload"} /\ task'[w].pc = "publish" => Agrees(task[w].start, task[w].data)'
      /\ w = "runner" /\ task'[w].pc = "seed" => Agrees(task[w].start, task[w].data)'
  BY <1>2, <1>3, <1>7, <1>8 DEF TaskOK
<1> QED  BY <1>6, <1>9 DEF TaskOK

(* One writer does something, and has right what is left to do.            *)
LEMMA TaskDone ==
  ASSUME IInv, [Next]_vars, NEW w \in Writers, Others(w), TaskOK(w)'
  PROVE  TaskInv'
BY TaskKept DEF TaskInv, Others

(* Nothing is left to publish, or it was stored by this very step.         *)
LEMMA TaskEasy ==
  ASSUME NEW w \in Writers, task'[w].pc \in {"idle", "compare", "answer"}
         \/ (task'[w].pc = "end" /\ status' = "done")
  PROVE  TaskOK(w)'
BY DEF TaskOK

(* What was stored by this step is where it is to be published.            *)
LEMMA TaskStored ==
  ASSUME DbType, NEW w \in {"runner", "upload"}, NEW data \in Logs, stored' = stored \o data,
         task'[w].pc = "publish" \/ (w = "runner" /\ task'[w].pc = "seed"),
         task'[w].start = Len(stored), task'[w].data = data
  PROVE  TaskOK(w)'
<1>1. PICK start \in Nat : start = Len(stored)
  BY LenProperties DEF DbType, Logs
<1>2. Agrees(start, data)'
  BY <1>1, PartAdded, AgreesIsPart DEF DbType
<1>3. Agrees(task[w].start, task[w].data)'
  BY <1>1, <1>2 DEF Agrees
<1> QED  BY <1>3 DEF TaskOK

(* A note that was stored with an outcome by this step ends the log.       *)
LEMMA TaskNoted ==
  ASSUME DbType, NEW w \in {"janitor", "cancel"}, stored' = stored \o <<Note>>, status' = "done",
         task'[w].pc \in {"mirror", "publish"}
  PROVE  TaskOK(w)'
<1>1. /\ stored' \in Logs /\ Len(stored') = Len(stored) + 1 /\ Len(stored) \in Nat
      /\ stored'[Len(stored) + 1] = Note
  BY NoteIsALog, Joined DEF DbType, Logs
<1>2. stored' # <<>>
  BY <1>1, PartEmpty
<1> QED  BY <1>1, <1>2 DEF TaskOK, Noted

(* The steps of the runner.                                                *)
LEMMA RunnerTasks ==
  ASSUME IInv, RunnerNext
  PROVE  WriterType' /\ TaskInv'
<1>0. /\ DbType /\ WriterType /\ [Next]_vars /\ "runner" \in Writers /\ task \in [Writers -> TaskType]
      /\ Len(stored) \in Nat /\ sink \in Logs /\ rpc \in {"idle", "building", "ending"}
      /\ phase \in {"up", "stopping"} /\ made \in 0 .. MaxBytes
  BY LenProperties DEF IInv, Types, DbType, WriterType, Writers, Next, Logs
<1>1. ASSUME UNCHANGED task
      PROVE  TaskInv'
  BY <1>0, <1>1, TaskKept DEF TaskInv
<1>2. CASE RunnerClaim \/ Abandon \/ StopRunner
  BY <1>0, <1>1, <1>2, PartEmpty DEF RunnerClaim, Abandon, StopRunner, WriterType
<1>3. CASE Write
  <2>1. made' \in 0 .. MaxBytes /\ made' \in Bytes /\ sink' = Append(sink, made') /\ UNCHANGED <<phase, rpc, task>>
    BY <1>0, <1>3, StreamConstants DEF Write, Bytes
  <2>2. sink' \in Logs
    BY <1>0, <2>1, AppendProperties DEF Logs
  <2> QED  BY <1>0, <1>1, <2>1, <2>2 DEF WriterType
<1>4. CASE Flush
  <2>1. PICK data \in Logs : data = sink
    BY <1>0
  <2>2. PICK start \in Nat : start = Len(stored)
    BY <1>0
  <2>3. ToDo("runner", "seed", start, data) /\ stored' = stored \o data /\ sink' = <<>> /\ UNCHANGED <<phase, rpc, made>>
    BY <1>4, <2>1, <2>2 DEF Flush, Store
  <2>4. /\ task' \in [Writers -> TaskType] /\ Others("runner") /\ task'["runner"].pc = "seed"
        /\ task'["runner"].start = start /\ task'["runner"].data = data
    BY <1>0, <2>3, Tasks
  <2> QED  BY <1>0, <2>2, <2>3, <2>4, TaskStored, TaskDone, PartEmpty DEF WriterType
<1>5. CASE RunnerNote \/ Requeue
  <2>1. PICK start \in Nat : start = Len(stored)
    BY <1>0
  <2>2. PICK pc \in {"seed", "publish"} : ToDo("runner", pc, start, <<Note>>)
    BY <1>5, <2>1 DEF RunnerNote, Requeue
  <2>3. stored' = stored \o <<Note>> /\ UNCHANGED <<phase, sink, made>> /\ rpc' \in {"idle", "ending"}
    BY <1>5 DEF RunnerNote, Requeue, Store
  <2>4. /\ task' \in [Writers -> TaskType] /\ Others("runner") /\ task'["runner"].pc = pc
        /\ task'["runner"].start = start /\ task'["runner"].data = <<Note>>
    BY <1>0, <2>2, NoteIsALog, Tasks
  <2> QED  BY <1>0, <2>1, <2>3, <2>4, NoteIsALog, TaskStored, TaskDone DEF WriterType
<1>6. CASE RunnerSeed
  <2>1. Then("runner", "publish") /\ UNCHANGED <<phase, rpc, sink, made>> /\ task["runner"].pc = "seed"
    BY <1>6 DEF RunnerSeed, runnerVars
  <2>2. PICK start \in Nat, data \in Logs : start = task["runner"].start /\ data = task["runner"].data
    BY <1>0 DEF TaskType
  <2>3. /\ task' \in [Writers -> TaskType] /\ Others("runner") /\ task'["runner"].pc = "publish"
        /\ task'["runner"].start = start /\ task'["runner"].data = data
    BY <1>0, <2>1, <2>2, Tasks
  <2>4. Agrees(start, data)
    BY <1>0, <2>1, <2>2 DEF IInv, TaskInv, TaskOK
  <2>5. Agrees(task["runner"].start, task["runner"].data)'
    BY <1>6, <2>3, <2>4 DEF RunnerSeed, dbVars, Agrees
  <2>6. TaskOK("runner")'
    BY <2>3, <2>5 DEF TaskOK
  <2> QED  BY <1>0, <2>1, <2>3, <2>6, TaskDone DEF WriterType
<1>7. CASE RunnerPublish
  <2>1. Done("runner") /\ UNCHANGED <<phase, rpc, sink, made>>
    BY <1>7 DEF RunnerPublish, runnerVars
  <2>2. task' \in [Writers -> TaskType] /\ Others("runner") /\ task'["runner"].pc = "idle"
    BY <1>0, <2>1, PartEmpty, Tasks
  <2> QED  BY <1>0, <2>1, <2>2, TaskEasy, TaskDone DEF WriterType
<1>8. CASE Finish
  <2>1. Then("runner", "end") /\ UNCHANGED <<phase, sink, made>> /\ rpc' = "idle" /\ status' = "done"
    BY <1>8 DEF Finish
  <2>2. task' \in [Writers -> TaskType] /\ Others("runner") /\ task'["runner"].pc = "end"
    BY <1>0, <2>1, PartEmpty, Tasks
  <2> QED  BY <1>0, <2>1, <2>2, TaskEasy, TaskDone DEF WriterType
<1> QED  BY <1>2, <1>3, <1>4, <1>5, <1>6, <1>7, <1>8 DEF RunnerNext

-------------------------------------------------------------------------------
(* The steps, on the agent                                                 *)

(* What an upload still has to send or to answer is right.                 *)
UploadSent ==
  /\ task["upload"].pc \in {"compare", "seed", "append"} => Sent(task["upload"])
  /\ task["upload"].pc \in {"publish", "answer"} => aoff <= task["upload"].start

AgentInv == AgentType /\ SendInv /\ NotYours

(* A step of someone else, which may end the upload.                       *)
LEMMA AgentKept ==
  ASSUME IInv, UNCHANGED <<owner, apc, alog, aoff, acked>>, reqs' \subseteq reqs,
         task'["upload"] = task["upload"] \/ task'["upload"].pc = "idle"
  PROVE  AgentInv'
<1>1. AgentType /\ SendInv /\ NotYours
  BY DEF IInv, Types, RowInv, NotYours
<1>2. AgentType' /\ NotYours'
  BY <1>1 DEF AgentType, NotYours
<1>3. \A q \in reqs' : Sent(q)'
  BY <1>1 DEF SendInv, Sent, Part
<1>4. CASE task'["upload"].pc = "idle"
  BY <1>2, <1>3, <1>4 DEF SendInv, AgentInv
<1>5. CASE task'["upload"] = task["upload"]
  BY <1>1, <1>2, <1>3, <1>5 DEF SendInv, Sent, Part, AgentInv
<1> QED  BY <1>4, <1>5

(* A step of an upload, on a row that is an agent's.                       *)
LEMMA AgentMoves ==
  ASSUME IInv, owner' = "agent", UNCHANGED <<alog, aoff>>, reqs' \subseteq reqs,
         apc' \in {"idle", "building"}, acked' \in Nat, UploadSent'
  PROVE  AgentInv'
<1>1. AgentType /\ SendInv
  BY DEF IInv, Types
<1>2. AgentType' /\ NotYours'
  BY <1>1 DEF AgentType, NotYours
<1>3. \A q \in reqs' : Sent(q)'
  BY <1>1 DEF SendInv, Sent, Part
<1> QED  BY <1>2, <1>3 DEF SendInv, UploadSent, AgentInv

(* What the agent takes from an answer is a length of its own log.         *)
LEMMA Answered ==
  ASSUME AgentType, NEW len \in Nat, aoff <= len, AnswerLen(len)
  PROVE  acked' \in Nat /\ apc' \in {"idle", "building"}
<1>1. len - aoff \in Nat
  BY DEF AgentType
<1> QED  BY <1>1 DEF AnswerLen, AgentType

(* The steps of the agent and of its uploads.                              *)
LEMMA AgentSteps ==
  ASSUME IInv, AgentNext
  PROVE  WriterType' /\ TaskInv' /\ AgentInv'
<1>0. /\ DbType /\ WriterType /\ AgentType /\ [Next]_vars /\ "upload" \in Writers
      /\ task \in [Writers -> TaskType] /\ stored \in Logs /\ Len(stored) \in Nat
      /\ sink \in Logs /\ rpc \in {"idle", "building", "ending"}
      /\ phase \in {"up", "stopping"} /\ made \in 0 .. MaxBytes /\ TaskInv /\ SendInv /\ RowInv
      /\ apc \in {"idle", "building"} /\ alog \in Logs /\ aoff \in Nat /\ acked \in Nat /\ aoff <= Len(stored)
  BY LenProperties DEF IInv, Types, DbType, WriterType, AgentType, Writers, Next, Logs, RowInv
<1>1. ASSUME UNCHANGED task
      PROVE  TaskInv'
  BY <1>0, <1>1, TaskKept DEF TaskInv
<1>2. PICK start \in Nat, data \in Logs : start = task["upload"].start /\ data = task["upload"].data
  BY <1>0 DEF TaskType
<1>3. Len(data) \in Nat /\ start + Len(data) \in Nat
  BY LenProperties DEF Logs
<1>4. task["upload"].pc # "idle" => owner = "agent"
  BY <1>0 DEF RowInv, NotYours, DbType
<1>5. task["upload"].pc \in {"compare", "seed", "append"} => aoff <= start /\ Part(alog, start - aoff, data)
  BY <1>0, <1>2 DEF SendInv, Sent
<1>6. task["upload"].pc \in {"publish", "answer"} => aoff <= start
  BY <1>0, <1>2 DEF SendInv
<1>7. CASE AgentClaim
  <2>1. /\ status = "pending" /\ owner' = "agent" /\ apc' = "building" /\ alog' = <<>> /\ aoff' = Len(stored) /\ acked' = 0
        /\ reqs' = {} /\ UNCHANGED <<phase, rpc, sink, task, made>>
    BY <1>7 DEF AgentClaim, runnerVars
  <2>2. task["upload"].pc = "idle"
    BY <1>0, <2>1 DEF RowInv, NotYours, DbType
  <2>3. AgentInv'
    BY <1>0, <2>1, <2>2, PartEmpty DEF AgentInv, AgentType, SendInv, NotYours
  <2> QED  BY <1>0, <1>1, <2>1, <2>3 DEF WriterType
<1>8. CASE AgentOutput
  <2>1. PICK byte : byte = made'
    OBVIOUS
  <2>2. /\ byte \in 0 .. MaxBytes /\ byte \in Bytes /\ apc = "building" /\ alog' = Append(alog, byte)
        /\ UNCHANGED <<owner, phase, rpc, sink, task, apc, aoff, acked, reqs>>
    BY <1>0, <1>8, <2>1, StreamConstants DEF AgentOutput, Bytes, dbVars, runnerVars
  <2>3. <<byte>> \in Logs /\ alog' = alog \o <<byte>> /\ alog' \in Logs
    BY <1>0, <2>2, AppendIsConcat, AppendProperties DEF Logs
  <2>4. owner' = "agent"
    BY <1>0, <2>2 DEF RowInv, NotYours, DbType
  <2>5. ASSUME NEW from \in Nat, NEW text \in Logs, aoff <= from, Part(alog, from - aoff, text)
        PROVE  Part(alog', from - aoff, text)
    <3>1. from - aoff \in Nat
      BY <1>0, <2>5
    <3> QED  BY <1>0, <2>3, <2>5, <3>1, PartGrows
  <2>6. \A q \in reqs' : Sent(q)'
    <3>1. ASSUME NEW q \in reqs
          PROVE  aoff <= q.start /\ Part(alog', q.start - aoff, q.data)
      <4>1. q.start \in Nat /\ q.data \in Logs /\ Sent(q)
        BY <1>0 DEF AgentType, Upload, SendInv
      <4> QED  BY <2>5, <4>1 DEF Sent
    <3> QED  BY <2>2, <3>1 DEF Sent
  <2>7. UploadSent'
    <3>1. task["upload"].pc \in {"compare", "seed", "append"} => aoff <= start /\ Part(alog', start - aoff, data)
      BY <1>5, <2>5
    <3> QED  BY <1>2, <1>6, <2>2, <3>1 DEF UploadSent, Sent
  <2>8. AgentInv'
    BY <1>0, <2>2, <2>3, <2>4, <2>6, <2>7 DEF AgentInv, AgentType, SendInv, NotYours, UploadSent
  <2> QED  BY <1>0, <1>1, <2>1, <2>2, <2>8 DEF WriterType
<1>9. CASE AgentSend
  <2>1. PICK n \in acked + 1 .. Len(alog) :
          reqs' = reqs \cup {[start |-> aoff + acked, data |-> SubSeq(alog, acked + 1, n)]}
    BY <1>9 DEF AgentSend
  <2>2. /\ apc = "building" /\ UNCHANGED <<owner, phase, rpc, sink, task, made, apc, alog, aoff, acked>>
    BY <1>9 DEF AgentSend, dbVars, runnerVars
  <2>3. PICK from \in Nat, text \in {SubSeq(alog, acked + 1, n)} : from = aoff + acked
    <3>1. aoff + acked \in Nat
      BY <1>0
    <3> QED  BY <3>1
  <2>4. n \in Nat /\ acked <= n /\ n <= Len(alog)
    BY <1>0, <2>1
  <2>5. text \in Logs /\ Part(alog, acked, text)
    <3>1. SubSeq(alog, acked + 1, n) \in Logs /\ Part(alog, acked, SubSeq(alog, acked + 1, n))
      BY <1>0, <2>4, PartSliced
    <3> QED  BY <3>1
  <2>6. aoff <= from /\ from - aoff = acked
    BY <1>0, <2>3
  <2>7. PICK new : new = [start |-> from, data |-> text]
    OBVIOUS
  <2>8. new \in Upload /\ new.start = from /\ new.data = text
    BY <2>5, <2>7 DEF Upload
  <2>9. Sent(new)
    BY <2>5, <2>6, <2>8 DEF Sent
  <2>10. reqs' = reqs \cup {new}
    BY <2>1, <2>3, <2>7
  <2>11. \A q \in reqs' : Sent(q)'
    BY <1>0, <2>2, <2>9, <2>10 DEF SendInv, Sent
  <2>12. owner' = "agent"
    BY <1>0, <2>2 DEF RowInv, NotYours, DbType
  <2>13. AgentType' /\ NotYours'
    BY <1>0, <2>2, <2>8, <2>10, <2>12 DEF AgentType, NotYours
  <2>14. SendInv'
    BY <1>0, <2>2, <2>11 DEF SendInv, Sent
  <2> QED  BY <1>0, <1>1, <2>2, <2>13, <2>14 DEF WriterType, AgentInv
<1>10. ASSUME NEW q \in reqs, UploadOpen(q)
       PROVE  WriterType' /\ TaskInv' /\ AgentInv'
  <2>1. PICK from \in Nat, text \in Logs : from = q.start /\ text = q.data
    BY <1>0 DEF AgentType, Upload
  <2>2. /\ UNCHANGED <<owner, phase, rpc, sink, made, alog, aoff>> /\ reqs' \subseteq reqs /\ task["upload"].pc = "idle"
        /\ acked' = acked
    BY <1>10 DEF UploadOpen, dbVars, runnerVars, Free, AnswerStop
  <2>3. owner' = "agent" /\ apc' \in {"idle", "building"}
    BY <1>0, <1>10, <2>2 DEF RowInv, NotYours, DbType, UploadOpen, AnswerStop
  <2>4. CASE ToDo("upload", "compare", from, text)
    <3>1. /\ task' \in [Writers -> TaskType] /\ Others("upload") /\ task'["upload"].pc = "compare"
          /\ task'["upload"].start = from /\ task'["upload"].data = text
      BY <1>0, <2>4, Tasks
    <3>2. aoff <= from /\ Part(alog, from - aoff, text)
      BY <1>0, <2>1 DEF SendInv, Sent
    <3>3. UploadSent'
      BY <2>2, <3>1, <3>2 DEF UploadSent, Sent
    <3>4. AgentInv'
      BY <1>0, <2>2, <2>3, <3>3, AgentMoves
    <3> QED  BY <1>0, <2>2, <3>1, <3>4, TaskEasy, TaskDone DEF WriterType
  <2>5. CASE UNCHANGED task
    <3>1. UploadSent'
      BY <2>2, <2>5 DEF UploadSent
    <3> QED  BY <1>0, <1>1, <2>2, <2>3, <2>5, <3>1, AgentMoves DEF WriterType
  <2> QED  BY <1>10, <2>1, <2>4, <2>5 DEF UploadOpen
<1>11. CASE AgentFinish
  <2>1. /\ UNCHANGED <<owner, phase, rpc, sink, made, alog, aoff, acked, reqs>> /\ apc' \in {"idle", "building"}
        /\ apc = "building" /\ task["upload"].pc = "idle"
    BY <1>11 DEF AgentFinish, runnerVars, Free
  <2>2. owner' = "agent"
    BY <1>0, <2>1 DEF RowInv, NotYours, DbType
  <2>3. CASE status' = "done" /\ Then("upload", "end")
    <3>1. task' \in [Writers -> TaskType] /\ Others("upload") /\ task'["upload"].pc = "end"
      BY <1>0, <2>3, PartEmpty, Tasks
    <3>2. AgentInv'
      BY <1>0, <2>1, <2>2, <3>1, AgentMoves DEF UploadSent
    <3> QED  BY <1>0, <2>1, <2>3, <3>1, <3>2, TaskEasy, TaskDone DEF WriterType
  <2>4. CASE UNCHANGED task
    <3>1. UploadSent'
      BY <2>1, <2>4 DEF UploadSent
    <3> QED  BY <1>0, <1>1, <2>1, <2>2, <2>4, <3>1, AgentMoves DEF WriterType
  <2> QED  BY <1>11, <2>3, <2>4 DEF AgentFinish
<1>12. ASSUME UploadNext
       PROVE  UNCHANGED <<owner, phase, rpc, sink, made, alog, aoff, reqs>> /\ owner' = "agent"
  BY <1>0, <1>4, <1>12 DEF UploadNext, UploadCompare, UploadSeed, UploadAppend, UploadPublish, UploadAnswer,
     dbVars, runnerVars, agentVars
<1>13. ASSUME UploadNext, acked' \in Nat, apc' \in {"idle", "building"}, Done("upload")
       PROVE  WriterType' /\ TaskInv' /\ AgentInv'
  <2>1. task' \in [Writers -> TaskType] /\ Others("upload") /\ task'["upload"].pc = "idle"
    BY <1>0, <1>13, PartEmpty, Tasks
  <2>2. AgentInv'
    BY <1>12, <1>13, <2>1, AgentMoves DEF UploadSent
  <2> QED  BY <1>0, <1>12, <1>13, <2>1, <2>2, TaskEasy, TaskDone DEF WriterType
<1>14. ASSUME UploadNext, UNCHANGED <<acked, apc>>, task' \in [Writers -> TaskType], Others("upload"),
              UploadSent', TaskOK("upload")'
       PROVE  WriterType' /\ TaskInv' /\ AgentInv'
  BY <1>0, <1>12, <1>14, AgentMoves, TaskDone DEF WriterType
<1>15. CASE UploadCompare
  <2>0. UploadNext /\ task["upload"].pc = "compare" /\ UNCHANGED stored
    BY <1>15 DEF UploadNext, UploadCompare, dbVars
  <2>1. PICK m : m = IF Len(stored) - start < Len(data) THEN Len(stored) - start ELSE Len(data)
    OBVIOUS
  <2>2. Overlap(task["upload"]) = m
    BY <1>2, <2>1 DEF Overlap
  <2>3. CASE AnswerLen(Len(stored)) /\ Done("upload")
    BY <1>0, <1>13, <2>0, <2>3, Answered
  <2>4. PICK len \in Nat : len = Len(stored)
    BY <1>0
  <2>5. CASE /\ start <= len /\ start + Len(data) > len
             /\ ToDo("upload", "seed", len, SubSeq(data, m + 1, Len(data)))
             /\ UNCHANGED <<acked, apc>>
    <3>1. m \in Nat /\ m <= Len(data) /\ m = len - start
      BY <1>3, <2>1, <2>4, <2>5
    <3>2. start - aoff \in Nat /\ (start - aoff) + m = len - aoff /\ aoff <= len /\ Part(alog, start - aoff, data)
      BY <1>0, <1>5, <2>0, <2>4, <3>1
    <3>3. PICK cut : cut = SubSeq(data, m + 1, Len(data))
      OBVIOUS
    <3>4. cut \in Logs /\ Part(alog, (start - aoff) + m, cut)
      <4>1. PICK from \in Nat : from = start - aoff
        BY <3>2
      <4>2. Part(alog, from, data)
        BY <3>2, <4>1
      <4>3. cut \in Logs /\ Part(alog, from + m, cut)
        <5>1. Len(data) \in Nat /\ Len(data) <= Len(data) /\ m \in Nat /\ m <= Len(data) /\ alog \in Logs
          BY <1>0, <1>3, <3>1
        <5> QED  BY <3>3, <4>2, <5>1, PartCut
      <4> QED  BY <4>1, <4>3
    <3>5. /\ task' \in [Writers -> TaskType] /\ Others("upload") /\ task'["upload"].pc = "seed"
          /\ task'["upload"].start = len /\ task'["upload"].data = cut
      <4>1. ToDo("upload", "seed", len, cut)
        BY <2>5, <3>3
      <4> QED  BY <1>0, <3>4, <4>1, Tasks
    <3>6. UploadSent'
      BY <1>12, <2>0, <3>2, <3>4, <3>5 DEF UploadSent, Sent
    <3>7. TaskOK("upload")'
      BY <2>0, <2>4, <3>5 DEF TaskOK
    <3> QED  BY <1>14, <2>0, <2>5, <3>5, <3>6, <3>7
  <2>6. CASE ToDo("upload", "answer", len, <<>>) /\ UNCHANGED <<acked, apc>>
    <3>1. /\ task' \in [Writers -> TaskType] /\ Others("upload") /\ task'["upload"].pc = "answer"
          /\ task'["upload"].start = len
      BY <1>0, <2>6, PartEmpty, Tasks
    <3>2. UploadSent'
      BY <1>0, <1>12, <2>0, <2>4, <3>1 DEF UploadSent
    <3> QED  BY <1>0, <1>14, <2>0, <2>6, <3>1, <3>2, TaskEasy
  <2> QED  BY <1>2, <1>15, <2>2, <2>3, <2>4, <2>5, <2>6 DEF UploadCompare
<1>16. CASE UploadSeed
  <2>1. UploadNext /\ UNCHANGED <<acked, apc, stored>> /\ task["upload"].pc = "seed" /\ Then("upload", "append")
    BY <1>16 DEF UploadNext, UploadSeed, agentVars, dbVars
  <2>2. /\ task' \in [Writers -> TaskType] /\ Others("upload") /\ task'["upload"].pc = "append"
        /\ task'["upload"].start = start /\ task'["upload"].data = data
    BY <1>0, <1>2, <2>1, PartEmpty, Tasks
  <2>3. start <= Len(stored)
    BY <1>0, <1>2, <2>1 DEF TaskInv, TaskOK
  <2>4. TaskOK("upload")'
    BY <2>1, <2>2, <2>3 DEF TaskOK
  <2>5. UploadSent'
    BY <1>5, <1>12, <2>1, <2>2 DEF UploadSent, Sent
  <2> QED  BY <1>14, <2>1, <2>2, <2>4, <2>5
<1>17. CASE UploadAppend
  <2>0. UploadNext /\ task["upload"].pc = "append"
    BY <1>17 DEF UploadNext, UploadAppend
  <2>1. CASE AnswerLen(Len(stored)) /\ Done("upload")
    BY <1>0, <1>13, <2>0, <2>1, Answered
  <2>2. CASE Len(stored) = start /\ Store(data) /\ Then("upload", "publish") /\ UNCHANGED <<acked, apc>>
    <3>1. /\ task' \in [Writers -> TaskType] /\ Others("upload") /\ task'["upload"].pc = "publish"
          /\ task'["upload"].start = start /\ task'["upload"].data = data
      BY <1>0, <1>2, <2>2, PartEmpty, Tasks
    <3>2. stored' = stored \o data
      BY <2>2 DEF Store
    <3>3. TaskOK("upload")'
      BY <1>0, <2>2, <3>1, <3>2, TaskStored
    <3>4. UploadSent'
      BY <1>5, <1>12, <2>0, <3>1 DEF UploadSent
    <3> QED  BY <1>14, <2>0, <2>2, <3>1, <3>3, <3>4
  <2> QED  BY <1>2, <1>17, <2>1, <2>2 DEF UploadAppend
<1>18. CASE UploadPublish
  <2>1. UploadNext /\ UNCHANGED <<acked, apc>> /\ task["upload"].pc = "publish" /\ Then("upload", "answer")
    BY <1>18 DEF UploadNext, UploadPublish, agentVars
  <2>2. /\ task' \in [Writers -> TaskType] /\ Others("upload") /\ task'["upload"].pc = "answer"
        /\ task'["upload"].start = start
    BY <1>0, <1>2, <2>1, PartEmpty, Tasks
  <2>3. UploadSent'
    BY <1>6, <1>12, <2>1, <2>2 DEF UploadSent
  <2> QED  BY <1>0, <1>14, <2>1, <2>2, <2>3, TaskEasy
<1>19. CASE UploadAnswer
  <2>1. UploadNext /\ task["upload"].pc = "answer" /\ Done("upload")
    BY <1>19 DEF UploadNext, UploadAnswer
  <2>2. acked' \in Nat /\ apc' \in {"idle", "building"}
    <3>1. CASE AnswerLen(start + Len(data))
      <4>1. aoff <= start + Len(data)
        BY <1>0, <1>3, <1>6, <2>1
      <4> QED  BY <1>0, <1>3, <3>1, <4>1, Answered
    <3>2. CASE AnswerStop
      BY <1>0, <3>2 DEF AnswerStop
    <3> QED  BY <1>2, <1>19, <3>1, <3>2 DEF UploadAnswer
  <2> QED  BY <1>13, <2>1, <2>2
<1> QED  BY <1>7, <1>8, <1>9, <1>10, <1>11, <1>15, <1>16, <1>17, <1>18, <1>19 DEF AgentNext, UploadNext

(* The steps of whoever decides the build.                                 *)
LEMMA OutcomeTasks ==
  ASSUME IInv, OutcomeNext
  PROVE  WriterType' /\ TaskInv' /\ task'["upload"] = task["upload"]
<1>0. /\ DbType /\ WriterType /\ [Next]_vars /\ {"upload", "janitor", "cancel"} \subseteq Writers
      /\ task \in [Writers -> TaskType] /\ TaskInv
  BY DEF IInv, Types, WriterType, Writers, Next
<1>1. UNCHANGED <<phase, rpc, sink, made>>
  BY DEF OutcomeNext, JanitorFail, JanitorMirror, CancelPending, CancelPublish, FailPending, runnerVars
<1>2. ASSUME NEW w \in {"janitor", "cancel"}, NEW pc \in {"mirror", "publish"}, Then(w, pc),
             status' = "done", Store(<<Note>>)
      PROVE  WriterType' /\ TaskInv' /\ task'["upload"] = task["upload"]
  <2>1. task' \in [Writers -> TaskType] /\ Others(w) /\ task'[w].pc = pc
    BY <1>0, <1>2, PartEmpty, Tasks
  <2>2. TaskOK(w)'
    BY <1>0, <1>2, <2>1, TaskNoted DEF Store
  <2> QED  BY <1>0, <1>1, <2>1, <2>2, TaskDone DEF WriterType, Others
<1>3. ASSUME NEW w \in {"janitor", "cancel"}, task[w].pc \in {"mirror", "publish"}, Then(w, "end"), UNCHANGED dbVars
      PROVE  WriterType' /\ TaskInv' /\ task'["upload"] = task["upload"]
  <2>1. task' \in [Writers -> TaskType] /\ Others(w) /\ task'[w].pc = "end"
    BY <1>0, <1>3, PartEmpty, Tasks
  <2>2. status' = "done"
    BY <1>0, <1>3 DEF TaskInv, TaskOK, Noted, dbVars
  <2> QED  BY <1>0, <1>1, <2>1, <2>2, TaskEasy, TaskDone DEF WriterType, Others
<1>4. CASE FailPending
  <2>1. UNCHANGED task
    BY <1>4 DEF FailPending
  <2> QED  BY <1>0, <1>1, <2>1, TaskKept DEF TaskInv, WriterType
<1>5. CASE JanitorFail \/ CancelPending
  BY <1>2, <1>5 DEF JanitorFail, CancelPending
<1>6. CASE JanitorMirror \/ CancelPublish
  BY <1>3, <1>6 DEF JanitorMirror, CancelPublish
<1> QED  BY <1>4, <1>5, <1>6 DEF OutcomeNext

(* All steps, on the writers and on the agent.                             *)
LEMMA WriterStep ==
  ASSUME IInv, [Next]_vars
  PROVE  WriterType' /\ TaskInv' /\ AgentInv'
<1>0. /\ DbType /\ WriterType /\ RowInv /\ "upload" \in Writers /\ "runner" \in Writers
      /\ task \in [Writers -> TaskType]
  BY DEF IInv, Types, WriterType, Writers
<1>1. CASE RunnerNext
  <2>1. WriterType' /\ TaskInv'
    BY <1>1, RunnerTasks
  <2>2. task'["upload"] = task["upload"]
    BY <1>0, <1>1 DEF RunnerNext, RunnerClaim, Write, Flush, RunnerSeed, RunnerPublish, RunnerNote, Finish, Abandon,
       StopRunner, Requeue, ToDo, Then, Done
  <2>3. UNCHANGED owner
    BY <1>0, <1>1 DEF RowInv, DbType, RunnerNext, RunnerClaim, Write, Flush, RunnerSeed, RunnerPublish, RunnerNote,
       Finish, Abandon, StopRunner, Requeue, dbVars
  <2>4. UNCHANGED agentVars
    BY <1>1 DEF RunnerNext, RunnerClaim, Write, Flush, RunnerSeed, RunnerPublish, RunnerNote,
       Finish, Abandon, StopRunner, Requeue
  <2> QED  BY <2>1, <2>2, <2>3, <2>4, AgentKept DEF agentVars
<1>2. CASE AgentNext
  BY <1>2, AgentSteps
<1>3. CASE OutcomeNext
  <2>1. UNCHANGED <<owner, agentVars>>
    BY <1>3 DEF OutcomeNext, JanitorFail, JanitorMirror, CancelPending, CancelPublish, FailPending, dbVars
  <2> QED  BY <1>3, <2>1, OutcomeTasks, AgentKept DEF agentVars
<1>4. ASSUME NEW w \in Writers, End(w)
      PROVE  WriterType' /\ TaskInv' /\ AgentInv'
  <2>1. Done(w) /\ UNCHANGED <<owner, phase, rpc, sink, made, agentVars>>
    BY <1>4 DEF End, dbVars, runnerVars
  <2>2. task' \in [Writers -> TaskType] /\ Others(w) /\ task'[w].pc = "idle"
    BY <1>0, <2>1, PartEmpty, Tasks
  <2>3. TaskOK(w)'
    BY <2>2, TaskEasy
  <2>4. AgentInv'
    BY <1>0, <2>1, <2>2, AgentKept DEF agentVars, Others
  <2> QED  BY <1>0, <2>1, <2>2, <2>3, <2>4, TaskDone DEF WriterType
<1>5. CASE UNCHANGED <<owner, runnerVars, task, made, agentVars>>
  <2>1. WriterType' /\ TaskInv'
    BY <1>0, <1>5, TaskKept DEF WriterType, TaskInv, runnerVars
  <2> QED  BY <1>5, <2>1, AgentKept DEF agentVars
<1>6. CASE TopicExpires
  BY <1>5, <1>6 DEF TopicExpires, dbVars
<1>7. CASE \E r \in Readers : Connect(r) \/ Disconnect(r) \/ StreamNext(r)
  BY <1>5, <1>7 DEF Connect, Disconnect, StreamNext, StreamSubscribe, Reread, Replay, Final, StreamLog, StreamEnd,
     StreamClosed, dbVars
<1>8. CASE Restart
  <2>1. /\ task' = [w \in Writers |-> Rest] /\ phase' = "up" /\ rpc' = "idle" /\ sink' = <<>> /\ reqs' = {}
        /\ UNCHANGED <<owner, made, apc, alog, aoff, acked>>
    BY <1>8 DEF Restart
  <2>2. Rest \in TaskType /\ Rest.pc = "idle"
    BY PartEmpty DEF Rest, TaskType
  <2>3. task' \in [Writers -> TaskType] /\ \A w \in Writers : task'[w].pc = "idle"
    BY <2>1, <2>2
  <2>4. TaskInv'
    BY <2>3, TaskEasy DEF TaskInv
  <2>5. AgentInv'
    BY <1>0, <2>1, <2>3, AgentKept
  <2> QED  BY <1>0, <2>1, <2>3, <2>4, <2>5, PartEmpty DEF WriterType
<1>9. CASE UNCHANGED vars
  BY <1>5, <1>9 DEF vars, dbVars
<1> QED  BY <1>1, <1>2, <1>3, <1>4, <1>6, <1>7, <1>8, <1>9 DEF Next

-------------------------------------------------------------------------------
(* The steps, on what the agent's uploads have stored                      *)

(* The first n bytes of the agent's log are stored from its offset on.     *)
Uploaded(log, agents, off, n) ==
  n <= Len(agents) /\ \A i \in 1 .. n : agents[i] = log[off + i]

(* UploadsStoredOnce, byte by byte, of a log, a status and an agent's log. *)
Once(log, stat, agents, off) ==
  LET n == Len(log) - off IN
  \/ Uploaded(log, agents, off, n)
  \/ stat = "done" /\ log[Len(log)] = Note /\ n > 0 /\ Uploaded(log, agents, off, n - 1)

(* The first bytes of the agent's log as a slice, and one by one.          *)
LEMMA OncePart ==
  ASSUME NEW log \in Logs, NEW agents \in Logs, NEW off \in Nat, NEW n \in Nat, off + n <= Len(log)
  PROVE  Uploaded(log, agents, off, n) <=> n <= Len(agents) /\ Part(log, off, SubSeq(agents, 1, n))
<1>1. CASE n <= Len(agents)
  <2>1. PICK cut : cut = SubSeq(agents, 0 + 1, n)
    OBVIOUS
  <2>2. Len(cut) = n /\ \A i \in 1 .. n : cut[i] = agents[i]
    <3>1. /\ cut \in Seq(Bytes) /\ Len(cut) = n - 0
          /\ \A i \in 1 .. n - 0 : cut[i] = agents[0 + i]
      BY <1>1, <2>1, Sliced DEF Logs
    <3>2. n - 0 = n /\ \A i \in 1 .. n : 0 + i = i
      OBVIOUS
    <3> QED  BY <3>1, <3>2
  <2>3. cut = SubSeq(agents, 1, n)
    BY <2>1
  <2> QED  BY <1>1, <2>2, <2>3 DEF Uploaded, Part
<1> QED  BY <1>1 DEF Uploaded

(* Both disjuncts of UploadsStoredOnce, as slices and byte by byte.        *)
LEMMA OnceParts ==
  ASSUME NEW log \in Logs, NEW stat, NEW agents \in Logs, NEW off \in Nat, off <= Len(log)
  PROVE  Once(log, stat, agents, off) <=>
           LET n == Len(log) - off IN
           \/ n <= Len(agents) /\ Part(log, off, SubSeq(agents, 1, n))
           \/ /\ stat = "done" /\ log[Len(log)] = Note
              /\ n - 1 <= Len(agents)
              /\ Part(log, off, SubSeq(agents, 1, n - 1))
<1>1. Len(log) \in Nat /\ Len(agents) \in Nat
  BY LenProperties DEF Logs
<1>2. PICK n \in Nat : n = Len(log) - off
  BY <1>1
<1>3. off + n <= Len(log)
  BY <1>1, <1>2
<1>4. Uploaded(log, agents, off, n) <=> n <= Len(agents) /\ Part(log, off, SubSeq(agents, 1, n))
  BY <1>3, OncePart
<1>5. CASE n > 0
  <2>1. PICK m \in Nat : m = n - 1
    BY <1>5
  <2>2. off + m <= Len(log)
    BY <1>1, <1>3, <2>1
  <2>3. Uploaded(log, agents, off, m) <=> m <= Len(agents) /\ Part(log, off, SubSeq(agents, 1, m))
    BY <2>2, OncePart
  <2> QED  BY <1>2, <1>4, <1>5, <2>1, <2>3 DEF Once
<1>6. CASE n = 0
  <2>1. Uploaded(log, agents, off, n)
    BY <1>1, <1>6 DEF Uploaded
  <2> QED  BY <1>2, <1>4, <2>1 DEF Once
<1> QED  BY <1>5, <1>6

(* UploadsStoredOnce is what Once says of the variables, now and after a   *)
(* step.                                                                   *)
LEMMA OnceWords ==
  ASSUME DbType, AgentType, aoff <= Len(stored), DbType', AgentType', aoff' <= Len(stored')
  PROVE  /\ UploadsStoredOnce <=> (owner = "agent" => Once(stored, status, alog, aoff))
         /\ UploadsStoredOnce' <=> (owner' = "agent" => Once(stored', status', alog', aoff'))
<1>1. UploadsStoredOnce <=> (owner = "agent" => Once(stored, status, alog, aoff))
  <2>1. Once(stored, status, alog, aoff) <=>
          LET n == Len(stored) - aoff IN
          \/ n <= Len(alog) /\ Part(stored, aoff, SubSeq(alog, 1, n))
          \/ /\ status = "done" /\ stored[Len(stored)] = Note
             /\ n - 1 <= Len(alog)
             /\ Part(stored, aoff, SubSeq(alog, 1, n - 1))
    BY OnceParts DEF DbType, AgentType
  <2> QED  BY <2>1 DEF UploadsStoredOnce, Agrees, Part
<1>2. UploadsStoredOnce' <=> (owner' = "agent" => Once(stored', status', alog', aoff'))
  <2>1. Once(stored', status', alog', aoff') <=>
          LET n == Len(stored') - aoff' IN
          \/ n <= Len(alog') /\ Part(stored', aoff', SubSeq(alog', 1, n))
          \/ /\ status' = "done" /\ stored'[Len(stored')] = Note
             /\ n - 1 <= Len(alog')
             /\ Part(stored', aoff', SubSeq(alog', 1, n - 1))
    BY OnceParts DEF DbType, AgentType
  <2> QED  BY <2>1 DEF UploadsStoredOnce, Agrees, Part
<1> QED  BY <1>1, <1>2

(* An upload is stored behind the others.                                  *)
LEMMA OnceAdded ==
  ASSUME NEW log \in Logs, NEW agents \in Logs, NEW off \in Nat, off <= Len(log), NEW data \in Logs,
         Uploaded(log, agents, off, Len(log) - off), Part(agents, Len(log) - off, data)
  PROVE  Uploaded(log \o data, agents, off, Len(log \o data) - off)
<1>1. /\ Len(log) \in Nat /\ Len(data) \in Nat /\ Len(log \o data) = Len(log) + Len(data) /\ Len(agents) \in Nat
      /\ \A i \in 1 .. Len(log) : (log \o data)[i] = log[i]
      /\ \A i \in 1 .. Len(data) : (log \o data)[Len(log) + i] = data[i]
  BY Joined, LenProperties DEF Logs
<1>2. PICK n \in Nat : n = Len(log) - off
  <2>1. Len(log) - off \in Nat
    BY <1>1
  <2> QED  BY <2>1
<1>3. Len(log \o data) - off = n + Len(data)
  BY <1>1, <1>2
<1>4. n + Len(data) <= Len(agents)
  BY <1>2 DEF Part
<1>5. ASSUME NEW i \in 1 .. n + Len(data)
      PROVE  agents[i] = (log \o data)[off + i]
  <2>1. CASE i <= n
    <3>1. i \in 1 .. n /\ off + i \in 1 .. Len(log)
      BY <1>1, <1>2, <2>1
    <3> QED  BY <1>1, <1>2, <3>1 DEF Uploaded
  <2>2. CASE ~(i <= n)
    <3>1. PICK j \in 1 .. Len(data) : j = i - n
      BY <1>1, <2>2
    <3>2. n + j = i /\ Len(log) + j = off + i
      BY <1>1, <1>2, <3>1
    <3>3. data[j] = agents[n + j]
      BY <1>2 DEF Part
    <3> QED  BY <1>1, <3>2, <3>3
  <2> QED  BY <2>1, <2>2
<1> QED  BY <1>3, <1>4, <1>5 DEF Uploaded

(* Once remains as it is when the agent's log or the stored one grows.     *)
LEMMA OnceKept ==
  ASSUME NEW log \in Logs, NEW agents \in Logs, NEW off \in Nat, NEW n \in Int, off + n <= Len(log),
         NEW more \in Logs, NEW output \in Logs, Uploaded(log, agents, off, n)
  PROVE  /\ Uploaded(log, agents \o output, off, n) /\ Uploaded(log \o more, agents, off, n)
<1>1. /\ Len(agents) \in Nat /\ Len(output) \in Nat /\ Len(agents \o output) = Len(agents) + Len(output)
      /\ \A i \in 1 .. Len(agents) : (agents \o output)[i] = agents[i]
      /\ Len(log) \in Nat /\ \A i \in 1 .. Len(log) : (log \o more)[i] = log[i]
  BY Joined DEF Logs
<1>2. n <= Len(agents \o output) /\ n <= Len(agents)
  BY <1>1 DEF Uploaded
<1>3. \A i \in 1 .. n : i \in 1 .. Len(agents) /\ off + i \in 1 .. Len(log)
  BY <1>1, <1>2
<1> QED  BY <1>1, <1>2, <1>3 DEF Uploaded

(* What a step does to the log of an agent's build.                        *)
LEMMA OnceSteps ==
  ASSUME IInv, [Next]_vars, owner' = "agent"
  PROVE  \/ AgentClaim
         \/ /\ owner = "agent" /\ UNCHANGED <<stored, aoff>>
            /\ UNCHANGED alog \/ \E byte \in Bytes : alog' = alog \o <<byte>>
         \/ /\ owner = "agent" /\ status = "running" /\ UNCHANGED <<alog, aoff>>
            /\ \/ \E data \in Logs : Part(alog, Len(stored) - aoff, data) /\ stored' = stored \o data
               \/ stored' = stored \o <<Note>> /\ status' = "done"
<1>0. DbType /\ AgentType /\ WriterType /\ RowInv /\ SendInv /\ (owner = "agent" => status # "pending")
      /\ (owner = "agent" => rpc = "idle")
  BY DEF IInv, Types, RowInv
<1>1. CASE RunnerNext
  <2>1. owner = "agent"
    BY <1>1 DEF RunnerNext, RunnerClaim, Write, Flush, RunnerSeed, RunnerPublish, RunnerNote, Finish, Abandon,
       StopRunner, Requeue, dbVars
  <2> QED  BY <1>0, <1>1, <2>1 DEF RunnerNext, RunnerClaim, Write, Flush, RunnerSeed, RunnerPublish, RunnerNote,
           Finish, Abandon, StopRunner, Requeue, dbVars, agentVars
<1>2. CASE UploadAppend
  <2>1. UNCHANGED <<owner, alog, aoff>>
    BY <1>2 DEF UploadAppend
  <2>2. CASE UNCHANGED stored
    BY <2>1, <2>2
  <2>3. CASE AgentOwns /\ Len(stored) = task["upload"].start /\ stored' = stored \o task["upload"].data
    <3>1. PICK data \in Logs : data = task["upload"].data
      BY <1>0 DEF WriterType, TaskType, Writers
    <3>2. Part(alog, Len(stored) - aoff, data)
      BY <1>0, <1>2, <2>3, <3>1 DEF UploadAppend, SendInv, Sent
    <3> QED  BY <2>1, <2>3, <3>1, <3>2 DEF AgentOwns
  <2> QED  BY <1>2, <2>2, <2>3 DEF UploadAppend, Store
<1>3. CASE AgentOutput
  <2>1. PICK byte : byte = made'
    OBVIOUS
  <2>2. byte \in Bytes /\ alog' = Append(alog, byte) /\ UNCHANGED <<owner, stored, aoff>>
    BY <1>0, <1>3, <2>1, StreamConstants DEF AgentOutput, WriterType, Bytes, dbVars
  <2>3. alog' = alog \o <<byte>>
    BY <1>0, <2>2, AppendIsConcat DEF AgentType, Logs
  <2> QED  BY <2>2, <2>3
<1>4. CASE AgentNext
  <2>1. CASE ~(AgentClaim \/ AgentOutput \/ UploadAppend)
    BY <1>4, <2>1 DEF AgentNext, AgentSend, AgentFinish, UploadOpen, UploadNext, UploadCompare, UploadSeed,
       UploadPublish, UploadAnswer, dbVars, agentVars
  <2> QED  BY <1>2, <1>3, <2>1
<1>5. CASE OutcomeNext
  <2>1. owner = "agent" /\ UNCHANGED <<alog, aoff>>
    BY <1>5 DEF OutcomeNext, JanitorFail, JanitorMirror, CancelPending, CancelPublish, FailPending, dbVars, agentVars
  <2>2. CASE JanitorFail
    BY <2>1, <2>2 DEF JanitorFail, Store
  <2>3. CASE JanitorMirror \/ CancelPublish
    BY <2>1, <2>3 DEF JanitorMirror, CancelPublish, dbVars
  <2> QED  BY <1>0, <1>5, <2>1, <2>2, <2>3 DEF OutcomeNext, CancelPending, FailPending
<1>6. CASE UNCHANGED <<dbVars, agentVars>>
  BY <1>6 DEF dbVars, agentVars
<1>7. CASE \E w \in Writers : End(w)
  BY <1>6, <1>7 DEF End
<1>8. CASE TopicExpires
  BY <1>6, <1>8 DEF TopicExpires
<1>9. CASE \E r \in Readers : Connect(r) \/ Disconnect(r) \/ StreamNext(r)
  BY <1>6, <1>9 DEF Connect, Disconnect, StreamNext, StreamSubscribe, Reread, Replay, Final, StreamLog, StreamEnd,
     StreamClosed
<1>10. CASE Restart
  BY <1>10 DEF Restart
<1>11. CASE UNCHANGED vars
  BY <1>6, <1>11 DEF vars
<1> QED  BY <1>1, <1>4, <1>5, <1>7, <1>8, <1>9, <1>10, <1>11 DEF Next

(* The agent's bytes stay stored once and in order.                        *)
LEMMA OnceStep ==
  ASSUME IInv, [Next]_vars
  PROVE  UploadsStoredOnce'
<1>0. /\ DbType /\ AgentType /\ aoff <= Len(stored) /\ DbType' /\ AgentType' /\ aoff' <= Len(stored')
      /\ UploadsStoredOnce /\ (status = "done" => status' = "done" /\ UNCHANGED stored)
  BY RowStep, WriterStep, Growing DEF IInv, Types, RowInv, AgentInv, Grows
<1>1. /\ stored \in Logs /\ alog \in Logs /\ aoff \in Nat /\ Len(stored) \in Nat /\ Len(stored') \in Nat
      /\ stored' \in Logs /\ Len(alog) \in Nat
  BY <1>0, LenProperties DEF DbType, AgentType, Logs
<1>2. SUFFICES ASSUME owner' = "agent"
               PROVE  Once(stored', status', alog', aoff')
  BY <1>0, OnceWords
<1>3. owner = "agent" => Once(stored, status, alog, aoff)
  BY <1>0, OnceWords
<1>4. CASE AgentClaim
  <2>1. aoff' = Len(stored) /\ UNCHANGED stored /\ alog' = <<>>
    BY <1>4 DEF AgentClaim
  <2>2. Len(stored') - aoff' = 0 /\ Len(alog') = 0
    BY <1>1, <2>1, PartEmpty
  <2> QED  BY <2>2 DEF Once, Uploaded
<1>5. CASE /\ owner = "agent" /\ UNCHANGED <<stored, aoff>>
           /\ UNCHANGED alog \/ \E byte \in Bytes : alog' = alog \o <<byte>>
  <2>1. CASE UNCHANGED alog
    BY <1>0, <1>3, <1>5, <2>1 DEF Once
  <2>2. ASSUME NEW byte \in Bytes, alog' = alog \o <<byte>>
        PROVE  Once(stored', status', alog', aoff')
    <3>1. PICK n \in Int : n = Len(stored) - aoff
      <4>1. Len(stored) - aoff \in Int
        BY <1>1
      <4> QED  BY <4>1
    <3>2. aoff + n <= Len(stored) /\ aoff + (n - 1) <= Len(stored) /\ n - 1 \in Int
      BY <1>1, <3>1
    <3>3. <<byte>> \in Logs
      BY DEF Logs
    <3>4. \A k \in {n, n - 1} : Uploaded(stored, alog, aoff, k) => Uploaded(stored, alog', aoff, k)
      BY <1>1, <2>2, <3>2, <3>3, OnceKept
    <3> QED  BY <1>0, <1>3, <1>5, <3>1, <3>4 DEF Once
  <2> QED  BY <1>5, <2>1, <2>2
<1>6. ASSUME owner = "agent", status = "running", UNCHANGED <<alog, aoff>>,
             NEW data \in Logs, Part(alog, Len(stored) - aoff, data), stored' = stored \o data
      PROVE  Once(stored', status', alog', aoff')
  <2>1. Uploaded(stored, alog, aoff, Len(stored) - aoff)
    BY <1>3, <1>6 DEF Once
  <2>2. Uploaded(stored', alog, aoff, Len(stored') - aoff)
    BY <1>0, <1>1, <1>6, <2>1, OnceAdded
  <2> QED  BY <1>6, <2>2 DEF Once
<1>7. CASE owner = "agent" /\ status = "running" /\ UNCHANGED <<alog, aoff>> /\ stored' = stored \o <<Note>> /\ status' = "done"
  <2>1. PICK n \in Nat : n = Len(stored) - aoff
    <3>1. Len(stored) - aoff \in Nat
      BY <1>0, <1>1
    <3> QED  BY <3>1
  <2>2. Uploaded(stored, alog, aoff, n) /\ aoff + n <= Len(stored)
    BY <1>1, <1>3, <1>7, <2>1 DEF Once
  <2>3. Len(stored') = Len(stored) + 1 /\ stored'[Len(stored) + 1] = Note
    BY <1>1, <1>7, NoteIsALog, Joined DEF Logs
  <2>4. Uploaded(stored', alog, aoff, n)
    BY <1>1, <1>7, <2>2, NoteIsALog, OnceKept
  <2>5. (Len(stored') - aoff) - 1 = n /\ Len(stored') - aoff > 0 /\ stored'[Len(stored')] = Note
    BY <1>1, <2>1, <2>3
  <2> QED  BY <1>7, <2>4, <2>5 DEF Once
<1> QED  BY <1>2, <1>4, <1>5, <1>6, <1>7, OnceSteps

-------------------------------------------------------------------------------
(* The steps, on the pages of the readers                                  *)

(* What holds of one reader.                                               *)
PageOK(r) ==
  /\ StreamOK(r)
  /\ Agrees(0, got[r])
  /\ r \in heard => status = "done" /\ Len(got[r]) = Len(stored)

(* A reader that does nothing still has the log on its page.               *)
LEMMA PageKept ==
  ASSUME IInv, [Next]_vars, NEW r \in Readers, stream'[r] = stream[r], got'[r] = got[r],
         r \in heard' <=> r \in heard
  PROVE  PageOK(r)'
<1>0. DbType /\ Grows /\ got[r] \in Logs /\ PageOK(r) /\ (status = "done" => status' = "done" /\ UNCHANGED stored)
  BY Growing DEF IInv, Types, ReaderType, PageInv, StreamInv, ReaderSeesTheLog, NothingAfterTheEnd, PageOK, Grows
<1>1. PICK g \in Logs, k \in Nat : g = got[r] /\ k = 0
  BY <1>0
<1>2. Agrees(k, g)'
  BY <1>0, <1>1, StaysInTheLog DEF PageOK
<1>3. Agrees(0, got[r])'
  BY <1>1, <1>2 DEF Agrees
<1>4. StreamOK(r)'
  BY <1>0 DEF PageOK, StreamOK
<1> QED  BY <1>0, <1>3, <1>4 DEF PageOK

(* A reader's stream goes on, to s, with the page g.                       *)
LEMMA PageSet ==
  ASSUME IInv, [Next]_vars, NEW r \in Readers, UNCHANGED <<stored, status>>,
         NEW s \in StreamType, NEW g \in Logs, Part(stored, 0, g),
         stream' = [stream EXCEPT ![r] = s], got' = [got EXCEPT ![r] = g],
         heard' = heard \/ (heard' = heard \cup {r} /\ status = "done" /\ Len(g) = Len(stored)),
         r \notin heard, r \in heard' => s.pc = "off",
         s.pc # "off" => s.from <= Len(g),
         s.pc \in {"subscribe", "reread", "replay"} => s.from = Len(g),
         s.pc \in {"stream", "final"} => s.sent = Len(g),
         s.fin \/ s.pc = "final" => status = "done"
  PROVE  ReaderType' /\ PageInv'
<1>1. ReaderType
  BY DEF IInv, Types
<1>2. ReaderType'
  BY <1>1 DEF ReaderType
<1>3. /\ stream'[r] = s /\ got'[r] = g
      /\ \A q \in Readers : q # r => stream'[q] = stream[q] /\ got'[q] = got[q] /\ (q \in heard' <=> q \in heard)
  BY <1>1 DEF ReaderType
<1>4. Agrees(0, got[r])'
  BY <1>3 DEF Agrees, Part
<1>5. PageOK(r)'
  BY <1>3, <1>4 DEF PageOK, StreamOK
<1>6. \A q \in Readers : PageOK(q)'
  BY <1>3, <1>5, PageKept
<1> QED  BY <1>2, <1>6 DEF PageOK, PageInv, StreamInv, ReaderSeesTheLog, NothingAfterTheEnd, ReaderType

(* A page goes on where it ended.                                          *)
LEMMA PageJoined ==
  ASSUME NEW log \in Logs, NEW g \in Logs, NEW more \in Logs, Part(log, 0, g), Part(log, Len(g), more)
  PROVE  g \o more \in Logs /\ Len(g \o more) = Len(g) + Len(more) /\ Part(log, 0, g \o more)
<1>1. PICK z \in Nat : z = 0
  OBVIOUS
<1>2. z + Len(g) = Len(g)
  BY <1>1, LenProperties DEF Logs
<1>3. Part(log, z, g) /\ Part(log, z + Len(g), more)
  BY <1>1, <1>2
<1>4. g \o more \in Logs /\ Len(g \o more) = Len(g) + Len(more) /\ Part(log, z, g \o more)
  BY <1>3, PartJoined
<1> QED  BY <1>1, <1>4

(* The rest of the log, added to a page.                                   *)
LEMMA RestOfTheLog ==
  ASSUME NEW log \in Logs, NEW g \in Logs, Part(log, 0, g)
  PROVE  LET more == SubSeq(log, Len(g) + 1, Len(log))
             all  == g \o more
         IN  all \in Logs /\ Len(all) = Len(log) /\ Part(log, 0, all) /\ Len(g) <= Len(all)
<1>1. Len(log) \in Nat /\ Len(g) \in Nat /\ 0 + Len(g) = Len(g)
  BY LenProperties DEF Logs
<1>2. Len(g) <= Len(log)
  BY <1>1 DEF Part
<1>3. PICK more : more = SubSeq(log, Len(g) + 1, Len(log))
  OBVIOUS
<1>4. more \in Logs /\ Len(more) = Len(log) - Len(g) /\ Part(log, Len(g), more)
  BY <1>1, <1>2, <1>3, PartSliced
<1>5. g \o more \in Logs /\ Len(g \o more) = Len(g) + Len(more) /\ Part(log, 0, g \o more)
  BY <1>4, PageJoined
<1>6. Len(g \o more) = Len(log)
  BY <1>1, <1>4, <1>5
<1> QED  BY <1>2, <1>3, <1>5, <1>6

(* A reader is told the outcome.                                           *)
LEMMA Telling ==
  ASSUME IInv, [Next]_vars, NEW r \in Readers, stream[r].pc \in {"stream", "final"}, TellEnd(r),
         UNCHANGED <<stored, status>>, status = "done"
  PROVE  ReaderType' /\ PageInv'
<1>1. /\ stored \in Logs /\ got[r] \in Logs /\ Part(stored, 0, got[r]) /\ stream[r].sent = Len(got[r]) /\ r \notin heard
  BY DEF IInv, Types, DbType, ReaderType, PageInv, StreamInv, StreamOK, ReaderSeesTheLog, Agrees, Part
<1>2. PICK g : g = got[r] \o SubSeq(stored, Len(got[r]) + 1, Len(stored))
  OBVIOUS
<1>3. g \in Logs /\ Len(g) = Len(stored) /\ Part(stored, 0, g)
  BY <1>1, <1>2, RestOfTheLog
<1>4. stream' = [stream EXCEPT ![r] = Off] /\ heard' = heard \cup {r} /\ got' = [got EXCEPT ![r] = g]
  BY <1>1, <1>2 DEF TellEnd, Leave, StoredTail, Slice
<1>5. Off \in StreamType /\ Off.pc = "off" /\ Off.fin = FALSE
  BY DEF Off, StreamType
<1>6. PICK s \in StreamType : s = Off
  BY <1>5
<1> QED  BY <1>1, <1>3, <1>4, <1>5, <1>6, PageSet

(* A page after its connection broke.                                      *)
LEMMA PageReceived ==
  ASSUME NEW log \in Logs, NEW g \in Logs, Part(log, 0, g), NEW n \in Nat, n <= Len(g)
  PROVE  SubSeq(g, 1, n) \in Logs /\ Part(log, 0, SubSeq(g, 1, n))
<1>1. PICK z \in Nat : z = 0 /\ z + 1 = 1 /\ 0 + z = 0
  OBVIOUS
<1>2. SubSeq(g, z + 1, n) \in Logs /\ Part(log, 0 + z, SubSeq(g, z + 1, n))
  BY <1>1, PartCut
<1> QED  BY <1>1, <1>2

(* What StreamLog reads from the log before an event, and then takes of    *)
(* the event.                                                              *)
Fill(log, sent, start, data) ==
  IF start > sent /\ start + Len(data) > sent THEN SubSeq(log, sent + 1, Len(log)) ELSE <<>>

Fresh(now, start, data) ==
  IF start <= now /\ start + Len(data) > now THEN SubSeq(data, now - start + 1, Len(data)) ELSE <<>>

(* An event of the log reaches the page: nothing of it is there already,   *)
(* and nothing before it is missing.                                       *)
LEMMA LogPiece ==
  ASSUME NEW log \in Logs, NEW g \in Logs, Part(log, 0, g),
         NEW start \in Nat, NEW data \in Logs, Part(log, start, data),
         NEW fill, fill = Fill(log, Len(g), start, data),
         NEW now, now = Len(g) + Len(fill),
         NEW rest, rest = Fresh(now, start, data)
  PROVE  LET all == g \o fill \o rest IN
         /\ all \in Logs /\ Part(log, 0, all)
         /\ now + Len(rest) \in Nat /\ Len(all) = now + Len(rest) /\ Len(g) <= Len(all)
<1>1. /\ Len(log) \in Nat /\ Len(g) \in Nat /\ Len(data) \in Nat /\ 0 + Len(g) = Len(g)
      /\ Len(g) <= Len(log) /\ start + Len(data) <= Len(log) /\ <<>> \in Logs /\ Len(<<>>) = 0
  <2>1. /\ Len(log) \in Nat /\ Len(g) \in Nat /\ Len(data) \in Nat /\ <<>> \in Logs /\ Len(<<>>) = 0
    BY LenProperties, PartEmpty DEF Logs
  <2> QED  BY <2>1 DEF Part
<1>2. /\ fill \in {SubSeq(log, Len(g) + 1, Len(log)), <<>>}
      /\ rest = IF start <= now /\ start + Len(data) > now THEN SubSeq(data, now - start + 1, Len(data)) ELSE <<>>
  BY DEF Fill, Fresh
<1>3. fill \in Logs /\ Part(log, Len(g), fill) /\ Len(fill) \in {0, Len(log) - Len(g)}
  <2>1. CASE fill = SubSeq(log, Len(g) + 1, Len(log))
    <3>1. PICK from \in Nat, to \in Nat : from = Len(g) /\ to = Len(log)
      BY <1>1
    <3>2. from <= to /\ to <= Len(log)
      BY <1>1, <3>1
    <3>3. PICK more : more = SubSeq(log, from + 1, to)
      OBVIOUS
    <3>4. more \in Logs /\ Len(more) = to - from /\ Part(log, from, more)
      BY <3>2, <3>3, PartSliced
    <3>5. fill = more
      BY <2>1, <3>1, <3>3
    <3> QED  BY <3>1, <3>4, <3>5
  <2>2. CASE fill = <<>>
    BY <1>1, <2>2, PartEmpty
  <2> QED  BY <1>2, <2>1, <2>2
<1>4. Len(fill) \in Nat /\ now \in Nat /\ now <= Len(log) /\ now = Len(g) + Len(fill)
  BY <1>1, <1>3
<1>5. rest \in Logs /\ Len(rest) \in Nat /\ Part(log, now, rest)
  <2>1. CASE start <= now /\ start + Len(data) > now
    <3>1. PICK m : m = now - start
      OBVIOUS
    <3>2. m \in Nat /\ m <= Len(data) /\ Len(data) <= Len(data) /\ start + m = now
      BY <1>1, <1>4, <2>1, <3>1
    <3>3. rest = SubSeq(data, m + 1, Len(data))
      BY <1>2, <2>1, <3>1
    <3>4. rest \in Logs /\ Part(log, start + m, rest)
      <4>1. PICK k \in Nat : k = Len(data)
        BY <1>1
      <4>2. m \in Nat /\ m <= k /\ k <= Len(data)
        BY <3>2, <4>1
      <4>3. SubSeq(data, m + 1, k) \in Logs /\ Part(log, start + m, SubSeq(data, m + 1, k))
        BY <4>2, PartCut
      <4> QED  BY <3>3, <4>1, <4>3
    <3> QED  BY <3>2, <3>4, LenProperties DEF Logs
  <2>2. CASE ~(start <= now /\ start + Len(data) > now)
    <3>1. rest = <<>>
      BY <1>2, <2>2
    <3> QED  BY <1>1, <1>4, <3>1, PartEmpty
  <2> QED  BY <2>1, <2>2
<1>6. PICK page : page = g \o fill
  OBVIOUS
<1>7. page \in Logs /\ Len(page) = now /\ Part(log, 0, page)
  BY <1>3, <1>4, <1>6, PageJoined
<1>8. page \o rest \in Logs /\ Len(page \o rest) = now + Len(rest) /\ Part(log, 0, page \o rest)
  BY <1>5, <1>7, PageJoined
<1>9. now + Len(rest) \in Nat /\ Len(g) <= now + Len(rest)
  BY <1>1, <1>4, <1>5
<1> QED  BY <1>6, <1>8, <1>9

(* The steps of one reader.                                                *)
LEMMA ReaderStep ==
  ASSUME IInv, [Next]_vars, NEW r \in Readers, Connect(r) \/ Disconnect(r) \/ StreamNext(r)
  PROVE  ReaderType' /\ PageInv'
<1>0. /\ DbType /\ BusType /\ stored \in Logs /\ Len(stored) \in Nat /\ stream[r] \in StreamType /\ got[r] \in Logs
      /\ stream \in [Readers -> StreamType] /\ got \in [Readers -> Logs] /\ Len(got[r]) \in Nat
      /\ StreamOK(r) /\ Part(stored, 0, got[r]) /\ (stream[r].pc # "off" => r \notin heard)
  BY LenProperties DEF IInv, Types, DbType, Logs, ReaderType, PageInv, StreamInv, StreamOK, ReaderSeesTheLog, Agrees, Part
<1>1. UNCHANGED <<stored, status>>
  BY DEF Connect, Disconnect, StreamNext, StreamSubscribe, Reread, Replay, Final, StreamLog, StreamEnd, StreamClosed, dbVars
<1>2. PICK g \in Logs : g = got[r]
  BY <1>0
<1>3. got = [got EXCEPT ![r] = g]
  BY <1>0, <1>2
<1>4. CASE Connect(r)
  <2>1. PICK fin \in BOOLEAN, pc \in {"replay", "subscribe"} :
          fin = (status = "done") /\ pc = IF status = "done" THEN "replay" ELSE "subscribe"
    OBVIOUS
  <2>2. PICK s : s = [pc |-> pc, from |-> Len(g), sent |-> 0, fin |-> fin]
    OBVIOUS
  <2>3. s \in StreamType /\ s.pc = pc /\ s.from = Len(g) /\ s.fin = fin
    BY <1>0, <1>2, <2>2 DEF StreamType
  <2>4. stream' = [stream EXCEPT ![r] = s] /\ got' = [got EXCEPT ![r] = g] /\ heard' = heard /\ r \notin heard
    BY <1>2, <1>3, <1>4, <2>1, <2>2 DEF Connect
  <2>5. s.from <= Len(g)
    BY <1>0, <1>2, <2>3
  <2> QED  BY <1>0, <1>1, <1>2, <2>1, <2>3, <2>4, <2>5, PageSet
<1>5. CASE StreamSubscribe(r)
  <2>1. PICK s : s = [stream[r] EXCEPT !.pc = "reread"]
    OBVIOUS
  <2>2. s \in StreamType /\ s.pc = "reread" /\ s.from = stream[r].from /\ s.fin = stream[r].fin
    BY <1>0, <2>1 DEF StreamType
  <2>3. stream' = [stream EXCEPT ![r] = s] /\ got' = [got EXCEPT ![r] = g] /\ heard' = heard /\ stream[r].pc = "subscribe"
    BY <1>3, <1>5, <2>1 DEF StreamSubscribe, Goes, At
  <2>4. s.from = Len(g) /\ s.from <= Len(g) /\ (s.fin => status = "done") /\ r \notin heard
    BY <1>0, <1>2, <2>2, <2>3 DEF StreamOK
  <2> QED  BY <1>0, <1>1, <1>2, <2>2, <2>3, <2>4, PageSet
<1>6. CASE Reread(r)
  <2>0. PICK fin \in BOOLEAN : fin = (status = "done")
    OBVIOUS
  <2>1. PICK s : s = [stream[r] EXCEPT !.pc = "replay", !.fin = fin]
    OBVIOUS
  <2>2. s \in StreamType /\ s.pc = "replay" /\ s.from = stream[r].from /\ s.fin = fin
    BY <1>0, <2>1 DEF StreamType
  <2>3. stream' = [stream EXCEPT ![r] = s] /\ got' = [got EXCEPT ![r] = g] /\ heard' = heard /\ stream[r].pc = "reread"
    BY <1>0, <1>3, <1>6, <2>0, <2>1 DEF Reread, At
  <2>4. s.from = Len(g) /\ s.from <= Len(g) /\ (s.fin => status = "done") /\ r \notin heard
    BY <1>0, <1>2, <2>0, <2>2, <2>3 DEF StreamOK
  <2> QED  BY <1>0, <1>1, <1>2, <2>2, <2>3, <2>4, PageSet
<1>7. CASE Replay(r)
  <2>1. PICK all : all = g \o SubSeq(stored, Len(g) + 1, Len(stored))
    OBVIOUS
  <2>2. all \in Logs /\ Len(all) = Len(stored) /\ Part(stored, 0, all) /\ Len(g) <= Len(all)
    BY <1>0, <1>2, <2>1, RestOfTheLog
  <2>3. PICK pc \in {"final", "stream"}, len \in Nat :
          pc = (IF stream[r].fin THEN "final" ELSE "stream") /\ len = Len(stored)
    BY <1>0
  <2>4. PICK s : s = [stream[r] EXCEPT !.pc = pc, !.sent = len]
    OBVIOUS
  <2>5. s \in StreamType /\ s.pc = pc /\ s.from = stream[r].from /\ s.sent = len /\ s.fin = stream[r].fin
    BY <1>0, <2>3, <2>4 DEF StreamType
  <2>6. stream[r].pc = "replay" /\ stream[r].from = Len(g) /\ (stream[r].fin => status = "done") /\ r \notin heard
    BY <1>0, <1>2, <1>7 DEF Replay, At, StreamOK
  <2>7. stream' = [stream EXCEPT ![r] = s] /\ heard' = heard
    BY <1>0, <1>7, <2>3, <2>4 DEF Replay
  <2>8. got' = [got EXCEPT ![r] = all]
    BY <1>2, <1>7, <2>1, <2>6 DEF Replay, Slice
  <2>9. /\ s.from <= Len(all) /\ s.sent = Len(all) /\ (s.fin \/ s.pc = "final" => status = "done")
    BY <2>2, <2>3, <2>5, <2>6
  <2> QED  BY <1>0, <1>1, <2>2, <2>3, <2>5, <2>6, <2>7, <2>8, <2>9, PageSet
<1>8. CASE Final(r)
  <2>1. stream[r].pc = "final" /\ status = "done" /\ TellEnd(r)
    BY <1>0, <1>8 DEF Final, At, StreamOK
  <2> QED  BY <1>1, <2>1, Telling
<1>9. ASSUME chan[r] # <<>>
      PROVE  Head(chan[r]) \in EventType /\ EventOK(Head(chan[r]))
  <2>1. Len(chan[r]) \in Nat \ {0} /\ Head(chan[r]) = chan[r][1]
    BY <1>0, <1>9, EmptySeq, LenProperties DEF BusType
  <2>2. 1 \in 1 .. Len(chan[r])
    BY <2>1
  <2> QED  BY <1>0, <2>1, <2>2, ElementOfSeq DEF IInv, BusInv, QueueInv, BusType
<1>10. CASE StreamLog(r)
  <2>1. PICK e \in EventType : e = Head(chan[r]) /\ EventOK(e)
    BY <1>9, <1>10 DEF StreamLog
  <2>2. PICK start \in Nat, data \in Logs : start = e.start /\ data = e.data
    BY <2>1 DEF EventType
  <2>3. Part(stored, start, data) /\ stream[r].pc = "stream" /\ stream[r].sent = Len(g) /\ r \notin heard
        /\ stream[r].from <= Len(g) /\ (stream[r].fin => status = "done")
    BY <1>0, <1>2, <1>10, <2>1, <2>2 DEF StreamLog, At, EventOK, Agrees, Part, StreamOK
  <2>4. PICK fill : fill = Fill(stored, Len(g), start, data)
    OBVIOUS
  <2>5. PICK now : now = Len(g) + Len(fill)
    OBVIOUS
  <2>6. PICK rest : rest = Fresh(now, start, data)
    OBVIOUS
  <2>7. PICK all : all = g \o fill \o rest
    OBVIOUS
  <2>8. all \in Logs /\ Part(stored, 0, all) /\ now + Len(rest) \in Nat /\ Len(all) = now + Len(rest) /\ Len(g) <= Len(all)
    <3>1. Part(stored, 0, g) /\ Part(stored, start, data) /\ stored \in Logs
      BY <1>0, <1>2, <2>3
    <3> QED  BY <2>4, <2>5, <2>6, <2>7, <3>1, LogPiece
  <2>9. PICK len \in Nat : len = now + Len(rest)
    BY <2>8
  <2>10. /\ got' = [got EXCEPT ![r] = got[r] \o fill \o rest] /\ heard' = heard
         /\ stream' = [stream EXCEPT ![r].sent = len]
    BY <1>10, <2>1, <2>2, <2>3, <2>4, <2>5, <2>6, <2>9 DEF StreamLog, StoredTail, Slice, Fill, Fresh
  <2>11. PICK s : s = [stream[r] EXCEPT !.sent = len]
    OBVIOUS
  <2>12. s \in StreamType /\ s.pc = "stream" /\ s.from = stream[r].from /\ s.sent = len /\ s.fin = stream[r].fin
    BY <1>0, <2>3, <2>11 DEF StreamType
  <2>13. got' = [got EXCEPT ![r] = all] /\ stream' = [stream EXCEPT ![r] = s]
    BY <1>0, <1>2, <2>7, <2>10, <2>11
  <2>14. s.from <= Len(all)
    <3>1. Len(all) \in Nat /\ Len(g) \in Nat /\ s.from \in Nat
      BY <1>0, <1>2, <2>8, <2>12 DEF StreamType
    <3> QED  BY <2>3, <2>8, <2>12, <3>1
  <2>15. /\ r \notin heard /\ heard' = heard /\ s.pc = "stream" /\ s.sent = Len(all)
         /\ s.fin => status = "done"
    BY <2>3, <2>8, <2>9, <2>10, <2>12
  <2> QED  BY <1>1, <2>8, <2>12, <2>13, <2>14, <2>15, PageSet
<1>11. CASE StreamEnd(r)
  <2>1. stream[r].pc = "stream" /\ status = "done" /\ TellEnd(r)
    BY <1>9, <1>11 DEF StreamEnd, At, EventOK
  <2> QED  BY <1>1, <2>1, Telling
<1>12. ASSUME NEW all \in Logs, Part(stored, 0, all), stream[r].pc # "off",
              stream' = [stream EXCEPT ![r] = Off], got' = [got EXCEPT ![r] = all], heard' = heard
       PROVE  ReaderType' /\ PageInv'
  <2>1. Off \in StreamType /\ Off.pc = "off" /\ Off.fin = FALSE
    BY DEF Off, StreamType
  <2>2. PICK s \in StreamType : s = Off
    BY <2>1
  <2> QED  BY <1>0, <1>1, <1>12, <2>1, <2>2, PageSet
<1>13. CASE StreamClosed(r)
  <2>1. stream[r].pc = "stream"
    BY <1>13 DEF StreamClosed, At
  <2>2. CASE status = "done"
    BY <1>1, <1>13, <2>1, <2>2, Telling DEF StreamClosed
  <2>3. CASE status # "done"
    BY <1>0, <1>2, <1>3, <1>12, <1>13, <2>1, <2>3 DEF StreamClosed, Leave
  <2> QED  BY <2>2, <2>3
<1>14. CASE Disconnect(r)
  <2>1. stream[r].pc # "off" /\ heard' = heard /\ stream' = [stream EXCEPT ![r] = Off]
    BY <1>14 DEF Disconnect, At, Leave
  <2>2. PICK n \in stream[r].from .. Len(got[r]) : got' = [got EXCEPT ![r] = SubSeq(got[r], 1, n)]
    BY <1>14 DEF Disconnect, Received
  <2>3. n \in Nat /\ n <= Len(g) /\ stream[r].from \in Nat
    BY <1>0, <1>2, <2>2 DEF StreamType
  <2>4. PICK all : all = SubSeq(g, 1, n)
    OBVIOUS
  <2>5. all \in Logs /\ Part(stored, 0, all)
    BY <1>0, <1>2, <2>3, <2>4, PageReceived
  <2> QED  BY <1>2, <1>12, <2>1, <2>2, <2>4, <2>5
<1> QED  BY <1>4, <1>5, <1>6, <1>7, <1>8, <1>10, <1>11, <1>13, <1>14 DEF StreamNext

(* All steps, on the pages.                                                *)
LEMMA PageStep ==
  ASSUME IInv, [Next]_vars
  PROVE  ReaderType' /\ PageInv'
<1>0. /\ DbType /\ DbType' /\ ReaderType /\ Grows /\ (status = "done" => status' = "done" /\ UNCHANGED stored)
      /\ \A r \in Readers : PageOK(r)
  BY RowStep, Growing DEF IInv, Types, ReaderType, PageInv, StreamInv, ReaderSeesTheLog, NothingAfterTheEnd, PageOK, Grows
<1>1. ASSUME ReaderType', \A r \in Readers : PageOK(r)'
      PROVE  ReaderType' /\ PageInv'
  BY <1>1 DEF PageOK, PageInv, StreamInv, ReaderSeesTheLog, NothingAfterTheEnd, ReaderType
<1>2. CASE UNCHANGED readerVars
  <2>1. \A r \in Readers : PageOK(r)'
    BY <1>2, PageKept DEF readerVars
  <2> QED  BY <1>0, <1>1, <1>2, <2>1 DEF ReaderType, readerVars
<1>3. CASE RunnerNext
  BY <1>2, <1>3 DEF RunnerNext, RunnerClaim, Write, Flush, RunnerSeed, RunnerPublish, RunnerNote, Finish, Abandon,
     StopRunner, Requeue
<1>4. CASE AgentNext
  BY <1>2, <1>4 DEF AgentNext, AgentClaim, AgentOutput, AgentSend, AgentFinish, UploadOpen, UploadNext, UploadCompare,
     UploadSeed, UploadAppend, UploadPublish, UploadAnswer
<1>5. CASE OutcomeNext
  BY <1>2, <1>5 DEF OutcomeNext, JanitorFail, JanitorMirror, CancelPending, CancelPublish, FailPending
<1>6. CASE (\E w \in Writers : End(w)) \/ TopicExpires
  BY <1>2, <1>6 DEF End, TopicExpires
<1>7. CASE \E r \in Readers : Connect(r) \/ Disconnect(r) \/ StreamNext(r)
  BY <1>7, ReaderStep
<1>8. CASE Restart
  <2>1. /\ stream' = [r \in Readers |-> Off] /\ heard' = heard
        /\ got' \in [Readers -> UNION {Received(r) : r \in Readers}]
        /\ \A r \in Readers : got'[r] \in IF At(r, "off") THEN {got[r]} ELSE Received(r)
    BY <1>8 DEF Restart
  <2>2. Off \in StreamType /\ Off.pc = "off" /\ Off.fin = FALSE
    BY DEF Off, StreamType
  <2>3. stream' \in [Readers -> StreamType] /\ \A r \in Readers : stream'[r] = Off
    BY <2>1, <2>2
  <2>4. ASSUME NEW r \in Readers
        PROVE  got'[r] \in Logs /\ Agrees(0, got[r])' /\ (At(r, "off") => got'[r] = got[r])
    <3>1. PICK g \in Logs : g = got[r]
      BY <1>0 DEF ReaderType
    <3>2. Part(stored, 0, g) /\ (~At(r, "off") => stream[r].from \in Nat)
      BY <1>0, <3>1 DEF PageOK, Agrees, Part, ReaderType, StreamType
    <3>3. PICK all : all = got'[r]
      OBVIOUS
    <3>4. all \in Logs /\ Part(stored, 0, all)
      <4>1. CASE At(r, "off")
        BY <2>1, <3>1, <3>2, <3>3, <4>1
      <4>2. CASE ~At(r, "off")
        <5>1. all \in Received(r)
          BY <2>1, <3>3, <4>2
        <5>2. PICK n \in stream[r].from .. Len(got[r]) : all = SubSeq(got[r], 1, n)
          BY <5>1 DEF Received
        <5>3. n \in Nat /\ n <= Len(g)
          BY <3>1, <3>2, <4>2, <5>2, LenProperties DEF Logs
        <5> QED  BY <1>0, <3>1, <3>2, <5>2, <5>3, PageReceived DEF DbType
      <4> QED  BY <4>1, <4>2
    <3>5. PICK z \in Nat : z = 0
      OBVIOUS
    <3>6. Agrees(z, all)'
      BY <1>0, <3>4, <3>5, AgreesIsPart, StaysInTheLog
    <3>7. Agrees(0, got[r])'
      BY <3>3, <3>5, <3>6 DEF Agrees
    <3> QED  BY <2>1, <3>3, <3>4, <3>7
  <2>5. got' \in [Readers -> Logs]
    BY <2>1, <2>4
  <2>6. ReaderType'
    BY <1>0, <2>1, <2>3, <2>5 DEF ReaderType
  <2>7. ASSUME NEW r \in Readers
        PROVE  PageOK(r)'
    <3>1. StreamOK(r)'
      BY <2>2, <2>3 DEF StreamOK
    <3>2. r \in heard => At(r, "off") /\ status = "done" /\ Len(got[r]) = Len(stored)
      BY <1>0 DEF PageOK, StreamOK, At
    <3>3. r \in heard' => status' = "done" /\ Len(got'[r]) = Len(stored')
      BY <1>0, <2>1, <2>4, <3>2
    <3> QED  BY <2>4, <3>1, <3>3 DEF PageOK
  <2> QED  BY <1>1, <2>6, <2>7
<1>9. CASE UNCHANGED vars
  BY <1>2, <1>9 DEF vars
<1> QED  BY <1>3, <1>4, <1>5, <1>6, <1>7, <1>8, <1>9 DEF Next

-------------------------------------------------------------------------------
(* The theorems                                                            *)

(* The invariant holds at first.                                           *)
LEMMA InitHolds == Init => IInv
<1> SUFFICES ASSUME Init PROVE IInv
  OBVIOUS
<1>1. /\ <<>> \in Logs /\ Len(<<>>) = 0 /\ <<>> \in Seq(EventType)
      /\ Retained \in Nat /\ Room \in Nat /\ MaxRequeues \in Nat /\ MaxBytes \in Nat
  BY PartEmpty, EmptySeq, BusConstants, StreamConstants
<1>2. Rest \in TaskType /\ Rest.pc = "idle" /\ Off \in StreamType /\ Off.pc = "off" /\ Off.fin = FALSE
  BY <1>1 DEF Rest, TaskType, Off, StreamType
<1>3. /\ stored = <<>> /\ status = "pending" /\ owner = "server" /\ requeues = 0 /\ phase = "up" /\ rpc = "idle"
      /\ sink = <<>> /\ task = [w \in Writers |-> Rest] /\ made = 0 /\ apc = "idle" /\ alog = <<>> /\ aoff = 0
      /\ acked = 0 /\ reqs = {} /\ stream = [r \in Readers |-> Off] /\ got = [r \in Readers |-> <<>>] /\ heard = {}
      /\ topic = NoTopic /\ chan = [r \in Readers |-> <<>>] /\ subs = {}
  BY DEF Init, BusInit
<1>4. topic \in TopicType /\ topic.base = 0 /\ topic.buf = <<>>
  BY <1>1, <1>3 DEF NoTopic, TopicType
<1>5. BusType
  BY <1>1, <1>3, <1>4 DEF BusType
<1>6. /\ \A w \in Writers : task[w] = Rest
      /\ \A r \in Readers : stream[r] = Off /\ got[r] = <<>> /\ chan[r] = <<>>
      /\ task \in [Writers -> TaskType] /\ stream \in [Readers -> StreamType] /\ got \in [Readers -> Logs]
  BY <1>1, <1>2, <1>3
<1>7. DbType /\ WriterType /\ AgentType /\ ReaderType
  BY <1>1, <1>3, <1>6 DEF DbType, WriterType, AgentType, ReaderType
<1>8. Agrees(0, <<>>)
  BY <1>1, <1>3 DEF Agrees
<1>9. RowInv /\ TaskInv /\ SendInv
  BY <1>1, <1>2, <1>3, <1>6 DEF RowInv, NotYours, TaskInv, TaskOK, SendInv, Writers
<1>10. UploadsStoredOnce
  BY <1>3 DEF UploadsStoredOnce
<1>11. BusInv
  BY <1>1, <1>4, <1>6, <1>8 DEF BusInv, BusMirrorsTheLog, QueueInv
<1>12. PageInv
  BY <1>1, <1>2, <1>3, <1>6, <1>8 DEF PageInv, StreamInv, StreamOK, ReaderSeesTheLog, NothingAfterTheEnd
<1> QED  BY <1>5, <1>7, <1>9, <1>10, <1>11, <1>12 DEF IInv, Types

(* Every step keeps every part of the invariant.                           *)
LEMMA StepHolds == IInv /\ [Next]_vars => IInv'
<1> SUFFICES ASSUME IInv, [Next]_vars PROVE IInv'
  OBVIOUS
<1>1. BusType' /\ BusInv'
  BY BusStep
<1>2. WriterType' /\ TaskInv' /\ AgentType' /\ SendInv' /\ NotYours'
  BY WriterStep DEF AgentInv
<1>3. DbType' /\ RowInv'
  BY RowStep, <1>2 DEF RowInv, NotYours
<1>4. UploadsStoredOnce'
  BY OnceStep
<1>5. ReaderType' /\ PageInv'
  BY PageStep
<1> QED  BY <1>1, <1>2, <1>3, <1>4, <1>5 DEF IInv, Types

(* The inductive invariant holds in every reachable state, for every       *)
(* number of readers, every size of the topic and of the queues, and every *)
(* amount of output.                                                       *)
THEOREM Invariance == Spec => []IInv
<1>1. Init => IInv
  BY InitHolds
<1>2. IInv /\ [Next]_vars => IInv'
  BY StepHolds
<1> QED  BY <1>1, <1>2, PTL DEF Spec

(* Every variable keeps its type, the topic never holds more than          *)
(* logbus.MaxRetainedBytes and no channel more than its buffer.            *)
THEOREM TypeCorrect == Spec => []TypeOK
<1>1. IInv => TypeOK
  BY DEF IInv, Types, TypeOK, BusType, TopicType, DbType, WriterType, AgentType, ReaderType, Upload
<1> QED  BY <1>1, Invariance, PTL

(* The topic is a piece of the stored log, whoever publishes: the mirror   *)
(* the handlers of logbus.go keep is never ahead of the database and never *)
(* out of place.                                                           *)
THEOREM TopicMirrorsTheLog == Spec => []BusMirrorsTheLog
<1>1. IInv => BusMirrorsTheLog
  BY DEF IInv, BusInv
<1> QED  BY <1>1, Invariance, PTL

(* What a reader has received is a prefix of the stored log, over replays, *)
(* dropped events and connections that break.                              *)
THEOREM PagesShowTheLog == Spec => []ReaderSeesTheLog
<1>1. IInv => ReaderSeesTheLog
  BY DEF IInv, PageInv
<1> QED  BY <1>1, Invariance, PTL

(* A reader that was told the outcome has the whole log.                   *)
THEOREM OutcomeComesLast == Spec => []NothingAfterTheEnd
<1>1. IInv => NothingAfterTheEnd
  BY DEF IInv, PageInv
<1> QED  BY <1>1, Invariance, PTL

(* The agent's bytes are stored once and in order, whatever requests were  *)
(* repeated and whatever answers were lost.                                *)
THEOREM EveryByteOnce == Spec => []UploadsStoredOnce
<1>1. IInv => UploadsStoredOnce
  BY DEF IInv
<1> QED  BY <1>1, Invariance, PTL

(* No step writes to the log of a build that has an outcome.               *)
THEOREM FrozenLog == Spec => LogIsFrozen
<1>1. IInv /\ [Next]_vars => [status = "done" => stored' = stored]_vars
  <2>1. ASSUME IInv, [Next]_vars, status = "done"
        PROVE  stored' = stored
    BY <2>1, Growing
  <2> QED  BY <2>1
<1> QED  BY <1>1, Invariance, PTL DEF Spec, LogIsFrozen
===============================================================================
