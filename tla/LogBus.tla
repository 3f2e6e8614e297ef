-------------------------------- MODULE LogBus --------------------------------
(***************************************************************************)
(* The topic of one build on the in-memory log bus: the newest bytes of    *)
(* the build's log at their absolute offsets, and the bounded event queue  *)
(* of every subscriber.  Every operation runs under Bus.mu, hence one      *)
(* step.  The subscribers are the event streams of the readers, one each.  *)
(***************************************************************************)
EXTENDS Integers, Sequences

CONSTANTS
  Readers,      (* who may subscribe                                       *)
  Retained,     (* logbus.MaxRetainedBytes                                 *)
  Room          (* logbus.subBuffer, the capacity of a subscriber's queue  *)

ASSUME BusConstants == Retained \in Nat \ {0} /\ Room \in Nat

VARIABLES
  topic,        (* state, absolute offset of the first byte kept, bytes    *)
  chan,         (* chan[r]: the events queued for r                        *)
  subs          (* whose channels are open                                 *)

busVars == <<topic, chan, subs>>

NoTopic == [state |-> "none", base |-> 0, buf |-> <<>>]

BusInit ==
  /\ topic = NoTopic
  /\ chan  = [r \in Readers |-> <<>>]
  /\ subs  = {}

(* topicLocked creates the topic on first use.                             *)
Opened == [topic EXCEPT !.state = IF @ = "none" THEN "open" ELSE @]

Length == topic.base + Len(topic.buf)

(* appendTail keeps the newest bytes of a log that now ends at end.  (The  *)
(* mutant keeps all.)                                                      *)
Unbounded(s) == s

Newest(s) == IF Len(s) <= Retained THEN s ELSE SubSeq(s, Len(s) - Retained + 1, Len(s))

Holding(end, s) ==
  [state |-> "open", base |-> end - Len(Newest(s)), buf |-> Newest(s)]

LogEvent(start, data) == [kind |-> "log", start |-> start, data |-> data]
EndEvent == [kind |-> "end", start |-> 0, data |-> <<>>]

HasRoom(r) == Len(chan[r]) < Room

Queued(event) ==
  [r \in Readers |-> IF r \in subs /\ HasRoom(r) THEN Append(chan[r], event) ELSE chan[r]]

(* Committed bytes at their offset.  What the topic already holds is       *)
(* trimmed; a subscriber without room is dropped; and a gap, a prefix the  *)
(* topic never saw, drops them all, because they must read it from the     *)
(* database.  (The mutant bridges the gap.)                                *)
PublishOverGap(start, data) ==
  LET fresh == IF start > Length THEN data ELSE SubSeq(data, Length - start + 1, Len(data)) IN
  IF topic.state = "closed" \/ Length >= start + Len(data)
  THEN topic' = Opened /\ UNCHANGED <<chan, subs>>
  ELSE /\ topic' = Holding(Length + Len(fresh), topic.buf \o fresh)
       /\ chan'  = Queued(LogEvent(Length, fresh))
       /\ subs'  = {r \in subs : HasRoom(r)}

PublishAt(start, data) ==
  LET fresh == SubSeq(data, Length - start + 1, Len(data)) IN
  \/ /\ topic.state = "closed" \/ Length >= start + Len(data)
     /\ topic' = Opened
     /\ UNCHANGED <<chan, subs>>
  \/ /\ topic.state # "closed"
     /\ start <= Length /\ Length < start + Len(data)
     /\ topic' = Holding(start + Len(data), topic.buf \o fresh)
     /\ chan'  = Queued(LogEvent(Length, fresh))
     /\ subs'  = {r \in subs : HasRoom(r)}
  \/ /\ topic.state # "closed"
     /\ start > Length
     /\ topic' = Holding(start + Len(data), data)
     /\ subs'  = {}
     /\ UNCHANGED chan

(* A terminal status closes the topic and every subscriber's channel; the  *)
(* event itself is lost to a subscriber without room.                      *)
PublishEnd ==
  IF topic.state = "closed"
  THEN UNCHANGED busVars
  ELSE /\ topic' = [topic EXCEPT !.state = "closed"]
       /\ chan'  = Queued(EndEvent)
       /\ subs'  = {}

(* Installs a suffix of the stored log without publishing it, unless the   *)
(* topic has got further by itself.                                        *)
SeedAt(start, data) ==
  /\ topic' = IF topic.state = "closed" \/ start + Len(data) <= Length
              THEN Opened
              ELSE Holding(start + Len(data), data)
  /\ UNCHANGED <<chan, subs>>

Subscribe(r) ==
  /\ topic' = Opened
  /\ chan'  = [chan EXCEPT ![r] = <<>>]
  /\ subs'  = IF topic.state = "closed" THEN subs \ {r} ELSE subs \cup {r}

Unsubscribe(r) ==
  /\ chan' = [chan EXCEPT ![r] = <<>>]
  /\ subs' = subs \ {r}
  /\ UNCHANGED topic

(* A closed topic is kept for a while and then deleted.                    *)
Expire ==
  /\ topic.state = "closed"
  /\ topic' = NoTopic
  /\ UNCHANGED <<chan, subs>>
===============================================================================
