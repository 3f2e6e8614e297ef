----------------------------- MODULE LiveHubProofs -----------------------------
(***************************************************************************)
(* The safety properties of LiveHub, for every set of pages, snapshots and *)
(* sampling loops and every depth of the queues.                           *)
(***************************************************************************)
EXTENDS LiveHub, SequenceTheorems, TLAPS

(* TypeOK by subscriber and by goroutine.                                  *)
ConnOK(s) == s \in ConnType /\ Len(s.queue) <= Buffer /\ (s.open => s.on)
LoopOK(g) == g \in LoopType /\ (g.pc = "publish" => g.snap # None)

IInv == TypeOK /\ OneLoopServes /\ InStep

-------------------------------------------------------------------------------
(* What is sent                                                            *)

(* A subscriber is sent the snapshot or closed; one that was not open is   *)
(* left alone.                                                             *)
LEMMA Sending ==
  ASSUME NEW s, ConnOK(s), NEW snap \in Snapshots
  PROVE  /\ ConnOK(Send(s, snap))
         /\ Send(s, snap).open => s.open /\ Send(s, snap).sent = snap
<1> USE HubConstants
<1> DEFINE q == Append(s.queue, snap)
<1>1. s.queue \in Seq(Snapshots) /\ Len(s.queue) \in Nat
  BY DEF ConnOK, ConnType
<1>2. q \in Seq(Snapshots) /\ Len(q) = Len(s.queue) + 1
  BY <1>1
<1>3. CASE ~s.open
  BY <1>3 DEF Send
<1>4. CASE s.open /\ HasRoom(s)
  <2>1. Send(s, snap) = [s EXCEPT !.queue = q, !.sent = snap]
    BY <1>4 DEF Send
  <2>2. Len(q) <= Buffer
    BY <1>1, <1>2, <1>4 DEF HasRoom
  <2> HIDE DEF q
  <2> QED  BY <1>2, <1>4, <2>1, <2>2 DEF ConnOK, ConnType
<1>5. CASE s.open /\ ~HasRoom(s)
  BY <1>5 DEF Send, ConnOK, ConnType
<1> QED  BY <1>3, <1>4, <1>5

(* A subscription begins with an empty queue, in which the last snapshot   *)
(* finds room.                                                             *)
LEMMA Beginning ==
  /\ ConnOK(NoConn) /\ ConnOK(NewConn) /\ NewConn.open /\ NewConn.sent = None
  /\ \A snap \in Snapshots :
       /\ ConnOK(Send(NewConn, snap))
       /\ Send(NewConn, snap).open /\ Send(NewConn, snap).sent = snap
<1> USE HubConstants
<1>1. <<>> \in Seq(Snapshots) /\ Len(<<>>) = 0
  OBVIOUS
<1>2. /\ NoConn \in ConnType /\ NoConn.queue = <<>> /\ NoConn.sent = None /\ ~NoConn.open
      /\ NewConn \in ConnType /\ NewConn.queue = <<>> /\ NewConn.sent = None
      /\ NewConn.open /\ NewConn.on
  <2>1. NoConn \in ConnType /\ NoConn.queue = <<>> /\ NoConn.sent = None /\ ~NoConn.open
    BY <1>1 DEF NoConn, ConnType
  <2> QED  BY <2>1 DEF NewConn, ConnType
<1>3. ConnOK(NoConn) /\ ConnOK(NewConn) /\ NewConn.open /\ NewConn.sent = None
  BY <1>1, <1>2 DEF ConnOK, ConnType
<1>4. HasRoom(NewConn)
  BY <1>1, <1>2 DEF HasRoom
<1>5. ASSUME NEW snap \in Snapshots
      PROVE  Send(NewConn, snap).open /\ Send(NewConn, snap).sent = snap
  <2>1. Send(NewConn, snap) = [NewConn EXCEPT !.queue = Append(@, snap), !.sent = snap]
    BY <1>3, <1>4 DEF Send
  <2> QED  BY <1>2, <2>1
<1> QED  BY <1>3, <1>5, Sending

-------------------------------------------------------------------------------
(* Types                                                                   *)

(* TypeOK is the types of the variables, subscribers and loops.            *)
LEMMA TypeParts ==
  TypeOK <=> /\ db \in Snapshots \cup {None}
             /\ last \in Snapshots \cup {None} /\ serving \in Loops \cup {None}
             /\ loop \in [Loops -> LoopType] /\ \A l \in Loops : LoopOK(loop[l])
             /\ conn \in [Pages -> ConnType] /\ \A c \in Pages : ConnOK(conn[c])
             /\ page \in [Pages -> PageType]
BY DEF TypeOK, LoopOK, ConnOK

(* A snapshot is what the builds are, or any as long as they change.       *)
LEMMA SamplesAreSnapshots == TypeOK => Sampled \subseteq Snapshots
BY DEF TypeOK, Sampled, calm

(* A page that loses its socket, and a new page.                           *)
LEMMA PageTypes ==
  ASSUME NEW c \in Pages, NEW p \in PageType
  PROVE  Lost(p) \in PageType /\ NewPage(c) \in PageType
<1>1. Lost(p) \in PageType
  <2>1. (p.late /\ ~p.on) \in BOOLEAN
    OBVIOUS
  <2>2. (IF p.on THEN None ELSE p.shown) \in Snapshots \cup {None}
    BY DEF PageType
  <2> QED  BY <2>1, <2>2 DEF Lost, PageType
<1>2. NewPage(c) \in PageType
  <2>1. (c \in Impatient) \in BOOLEAN
    OBVIOUS
  <2> QED  BY <2>1, Zenon DEF NewPage, PageType
<1> QED  BY <1>1, <1>2

(* A loop that starts takes a free place.                                  *)
LEMMA Starting ==
  ASSUME TypeOK, StartLoop
  PROVE  \E l \in Loops : /\ loop[l].pc = "none" /\ serving' = l
                          /\ loop' = [loop EXCEPT ![l] = [pc |-> "start", snap |-> None, told |-> FALSE]]
BY DEF StartLoop, Alive, NoLoop

(* TypeOK holds at first, and every action keeps it.                       *)
LEMMA InitType == Init => TypeOK
<1> SUFFICES ASSUME Init PROVE TypeOK
  OBVIOUS
<1>1. \A l \in Loops : LoopOK(loop[l])
  BY DEF Init, NoLoop, LoopOK, LoopType
<1>2. \A c \in Pages : ConnOK(conn[c])
  BY Beginning DEF Init
<1>3. \A c \in Pages : NewPage(c) \in PageType
  <2>1. \A c \in Pages : (c \in Impatient) \in BOOLEAN
    OBVIOUS
  <2> QED  BY <2>1, Zenon DEF NewPage, PageType
<1>4. loop \in [Loops -> LoopType] /\ conn \in [Pages -> ConnType]
  <2>1. loop = [l \in Loops |-> NoLoop] /\ conn = [c \in Pages |-> NoConn]
    BY DEF Init
  <2>2. NoConn \in ConnType /\ NoLoop \in LoopType
    BY Beginning DEF NoLoop, LoopType, ConnOK
  <2> QED  BY <2>1, <2>2
<1>5. page \in [Pages -> PageType]
  BY <1>3 DEF Init
<1>6. db = None /\ last = None /\ serving = None
  BY DEF Init
<1> QED  BY <1>1, <1>2, <1>4, <1>5, <1>6, TypeParts

(* The sampling goroutines.                                                *)
LEMMA LoopTypes ==
  ASSUME TypeOK, NEW l \in Loops, LoopNext(l) \/ SampleFails(l)
  PROVE  TypeOK'
<1> USE HubConstants
<1>0. loop[l] \in LoopType
  BY DEF TypeOK
<1>1. CASE Sample(l)
  <2>1. PICK snap \in Sampled : loop' = [loop EXCEPT ![l].pc = "publish", ![l].snap = snap]
    BY <1>1 DEF Sample
  <2>2. snap \in Snapshots /\ snap # None
    BY SamplesAreSnapshots
  <2> DEFINE g == [loop[l] EXCEPT !.pc = "publish", !.snap = snap]
  <2>3. LoopOK(g)
    BY <1>0, <2>2 DEF LoopOK, LoopType
  <2>4. loop' = [loop EXCEPT ![l] = g]
    BY <2>1 DEF TypeOK
  <2> HIDE DEF g
  <2> QED  BY <1>1, <2>3, <2>4 DEF Sample, TypeOK, LoopOK, hubVars
<1>2. CASE SampleFails(l)
  BY <1>0, <1>2 DEF SampleFails, TypeOK, LoopType, hubVars
<1>3. CASE Publish(l)
  <2>1. loop[l].snap \in Snapshots
    BY <1>0, <1>3 DEF Publish, TypeOK, LoopType
  <2> DEFINE g == [loop[l] EXCEPT !.pc = "wait", !.snap = None]
  <2>2. LoopOK(g)
    BY <1>0 DEF LoopOK, LoopType
  <2>3. loop' = [loop EXCEPT ![l] = g]
    BY <1>3 DEF Publish, TypeOK
  <2>4. \A c \in Pages : ConnOK(Send(conn[c], loop[l].snap))
    BY <2>1, TypeParts, Sending
  <2>5. conn' \in [Pages -> ConnType] /\ \A c \in Pages : ConnOK(conn'[c])
    BY <1>3, <2>4, TypeParts DEF Publish, Fan, ConnOK
  <2>6. loop' \in [Loops -> LoopType] /\ \A k \in Loops : LoopOK(loop'[k])
    <3> HIDE DEF g
    <3> QED  BY <2>2, <2>3, TypeParts DEF LoopOK
  <2>7. UNCHANGED <<db, serving, page>> /\ last' = loop[l].snap
    BY <1>3 DEF Publish
  <2> QED  BY <2>1, <2>5, <2>6, <2>7 DEF TypeOK, LoopOK, ConnOK
<1>4. CASE LoopStops(l)
  BY <1>4 DEF LoopStops, TypeOK, LoopType, NoLoop, hubVars
<1> QED  BY <1>1, <1>2, <1>3, <1>4 DEF LoopNext

(* A handler that subscribes.                                              *)
LEMMA SubscribeType ==
  ASSUME TypeOK, NEW c \in Pages, Subscribe(c)
  PROVE  TypeOK'
<1> USE HubConstants
<1>1. PICK s : ConnOK(s) /\ Joins(c, s)
  BY Beginning DEF Subscribe, TypeOK
<1>2. conn' \in [Pages -> ConnType] /\ \A d \in Pages : ConnOK(conn'[d])
  BY <1>1, TypeParts DEF Joins, ConnOK
<1>3. page' \in [Pages -> PageType]
  BY <1>1 DEF Joins, TypeOK, PageType
<1>4. /\ last' \in Snapshots \cup {None} /\ serving' \in Loops \cup {None}
      /\ loop' \in [Loops -> LoopType] /\ \A l \in Loops : LoopOK(loop'[l])
  <2>1. CASE UNCHANGED <<hubVars, loop>>
    BY <2>1, TypeParts DEF hubVars
  <2>2. CASE StartLoop /\ last' = None
    <3> DEFINE g == [pc |-> "start", snap |-> None, told |-> FALSE]
    <3>1. PICK l \in Loops : serving' = l /\ loop' = [loop EXCEPT ![l] = g]
      BY <2>2, Starting
    <3>2. LoopOK(g) /\ g \in LoopType
      BY DEF LoopOK, LoopType
    <3> HIDE DEF g
    <3> QED  BY <2>2, <3>1, <3>2, TypeParts
  <2> QED  BY <2>1, <2>2 DEF Subscribe
<1>5. db' = db
  BY DEF Subscribe
<1> QED  BY <1>2, <1>3, <1>4, <1>5, TypeParts DEF TypeOK, LoopOK, ConnOK

(* A handler that writes.                                                  *)
LEMMA WriteType ==
  ASSUME TypeOK, NEW c \in Pages, Write(c)
  PROVE  TypeOK'
<1> USE HubConstants
<1> DEFINE q == conn[c].queue
           s == [conn[c] EXCEPT !.queue = Tail(q)]
<1>1. ConnOK(conn[c]) /\ conn[c] \in ConnType /\ q \in Seq(Snapshots) /\ q # <<>> /\ Len(q) <= Buffer
  BY TypeParts DEF Write, ConnOK, ConnType
<1>2. /\ Head(q) \in Snapshots /\ Tail(q) \in Seq(Snapshots)
      /\ Len(Tail(q)) = Len(q) - 1 /\ Len(q) \in Nat
  BY <1>1
<1>3. ConnOK(s)
  <2> DEFINE t == Tail(q)
  <2>1. t \in Seq(Snapshots) /\ Len(t) <= Buffer
    BY <1>1, <1>2
  <2>3. s = [conn[c] EXCEPT !.queue = t]
    OBVIOUS
  <2> HIDE DEF t, s
  <2>2. s \in ConnType /\ s.queue = t /\ s.open = conn[c].open /\ s.on = conn[c].on
    BY <1>1, <2>1, <2>3 DEF ConnType
  <2> QED  BY <1>1, <2>1, <2>2 DEF ConnOK
<1>4. conn' = [conn EXCEPT ![c] = s]
  BY DEF Write, TypeOK
<1>5. conn' \in [Pages -> ConnType] /\ \A d \in Pages : ConnOK(conn'[d])
  <2> HIDE DEF s
  <2> QED  BY <1>3, <1>4, TypeParts DEF ConnOK
<1>6. page' \in [Pages -> PageType]
  <2> DEFINE g == [page[c] EXCEPT !.shown = Head(q), !.late = FALSE]
  <2>1. page' = page \/ page' = [page EXCEPT ![c] = g]
    BY DEF Write
  <2>2. g \in PageType
    <3> HIDE DEF q
    <3> QED  BY <1>2 DEF TypeOK, PageType
  <2> HIDE DEF g
  <2> QED  BY <2>1, <2>2 DEF TypeOK
<1>7. UNCHANGED <<db, hubVars, loop>>
  BY DEF Write
<1> QED  BY <1>5, <1>6, <1>7 DEF TypeOK, ConnOK, hubVars

(* A handler that returns.                                                 *)
LEMMA UnsubscribeType ==
  ASSUME TypeOK, NEW c \in Pages, Unsubscribe(c)
  PROVE  TypeOK'
<1> USE HubConstants
<1>1. conn' \in [Pages -> ConnType] /\ \A d \in Pages : ConnOK(conn'[d])
  BY Beginning, TypeParts DEF Unsubscribe, ConnOK
<1>2. page' \in [Pages -> PageType]
  BY PageTypes DEF Unsubscribe, TypeOK
<1>3. /\ serving' \in Loops \cup {None}
      /\ loop' \in [Loops -> LoopType] /\ \A l \in Loops : LoopOK(loop'[l])
  <2>1. CASE LastToGo(c)
    <3> DEFINE g == [loop[serving] EXCEPT !.told = TRUE]
    <3>1. serving \in Loops /\ serving' = None /\ loop' = [loop EXCEPT ![serving] = g]
      BY <2>1 DEF Unsubscribe, LastToGo, TypeOK
    <3>2. LoopOK(g) /\ g \in LoopType
      BY <3>1, TypeParts DEF LoopOK, LoopType
    <3> HIDE DEF g
    <3> QED  BY <3>1, <3>2, TypeParts
  <2>2. CASE ~LastToGo(c)
    BY <2>2, TypeParts DEF Unsubscribe
  <2> QED  BY <2>1, <2>2
<1>4. UNCHANGED <<db, last>>
  BY DEF Unsubscribe
<1> QED  BY <1>1, <1>2, <1>3, <1>4, TypeParts DEF TypeOK, LoopOK, ConnOK

(* What a page does by itself.                                             *)
LEMMA PagesType ==
  ASSUME TypeOK, NEW c \in Pages, Leave(c) \/ Fetch(c) \/ Fetched(c)
  PROVE  TypeOK'
<1>1. page' \in [Pages -> PageType]
  <2>1. CASE Leave(c)
    BY <2>1, PageTypes DEF Leave, TypeOK
  <2>2. CASE Fetch(c)
    BY <2>2, SamplesAreSnapshots DEF Fetch, TypeOK, PageType
  <2>3. CASE Fetched(c)
    BY <2>3 DEF Fetched, TypeOK, PageType
  <2> QED  BY <2>1, <2>2, <2>3
<1>2. UNCHANGED <<db, hubVars, loop, conn>>
  BY DEF Leave, Fetch, Fetched
<1> QED  BY <1>1, <1>2 DEF TypeOK, hubVars

(* The process is restarted.                                               *)
LEMMA RestartType ==
  ASSUME TypeOK, Restart
  PROVE  TypeOK'
<1>1. \A l \in Loops : LoopOK(loop'[l])
  BY DEF Restart, NoLoop, LoopOK, LoopType
<1>2. \A c \in Pages : ConnOK(conn'[c])
  BY Beginning DEF Restart
<1>3. \A c \in Pages : page'[c] \in PageType
  BY PageTypes DEF Restart, TypeOK
<1> QED  BY <1>1, <1>2, <1>3 DEF Restart, TypeOK, LoopOK, ConnOK

-------------------------------------------------------------------------------
(* The loop that serves                                                    *)

Serves(l) == Alive(l) /\ ~loop[l].told

(* A loop that starts serves, and no other does.                           *)
LEMMA StartServes ==
  ASSUME TypeOK, OneLoopServes, serving = None, StartLoop
  PROVE  serving' # None /\ \A l \in Loops : Serves(l)' <=> serving' = l
<1>1. PICK l \in Loops :
        /\ loop[l].pc = "none" /\ serving' = l
        /\ loop' = [loop EXCEPT ![l] = [pc |-> "start", snap |-> None, told |-> FALSE]]
  BY Starting
<1>2. \A k \in Loops : ~Serves(k)
  BY HubConstants DEF OneLoopServes, Serves
<1> QED  BY <1>1, <1>2, HubConstants DEF Serves, Alive, TypeOK

(* Every step leaves one loop that serves, or none for nobody.             *)
LEMMA ServesStep ==
  ASSUME TypeOK, OneLoopServes, [Next]_vars
  PROVE  OneLoopServes'
<1> USE HubConstants
<1>1. ASSUME NEW l \in Loops, LoopNext(l) \/ SampleFails(l)
      PROVE  OneLoopServes'
  <2>1. serving' = serving
    BY <1>1 DEF LoopNext, Sample, SampleFails, Publish, LoopStops, hubVars
  <2>2. \A k \in Loops : Serves(k)' <=> Serves(k)
    <3>1. CASE Sample(l)
      BY <3>1 DEF Sample, Serves, Alive, TypeOK, LoopType
    <3>2. CASE SampleFails(l) \/ Publish(l)
      BY <3>2 DEF SampleFails, Publish, Serves, Alive, TypeOK, LoopType
    <3>3. CASE LoopStops(l)
      BY <3>3 DEF LoopStops, NoLoop, Serves, Alive, TypeOK
    <3> QED  BY <1>1, <3>1, <3>2, <3>3 DEF LoopNext
  <2>3. \A c \in Pages : Subscribed(c)' => Subscribed(c)
    <3>1. CASE Publish(l)
      <4>1. loop[l].snap \in Snapshots
        BY <3>1 DEF Publish, TypeOK, LoopType
      <4>2. \A c \in Pages : Send(conn[c], loop[l].snap).open => conn[c].open
        BY <4>1, TypeParts, Sending
      <4> QED  BY <3>1, <4>2 DEF Publish, Fan, Subscribed
    <3>2. CASE ~Publish(l)
      BY <1>1, <3>2 DEF LoopNext, Sample, SampleFails, LoopStops, Subscribed
    <3> QED  BY <3>1, <3>2
  <2> QED  BY <2>1, <2>2, <2>3 DEF OneLoopServes, Serves
<1>2. ASSUME NEW c \in Pages, Subscribe(c)
      PROVE  OneLoopServes'
  <2>1. CASE serving = None /\ StartLoop
    BY <2>1, StartServes DEF OneLoopServes, Serves
  <2>2. CASE serving # None /\ UNCHANGED <<hubVars, loop>>
    BY <2>2 DEF OneLoopServes, hubVars, Alive
  <2> QED  BY <1>2, <2>1, <2>2 DEF Subscribe
<1>3. ASSUME NEW c \in Pages, Write(c)
      PROVE  OneLoopServes'
  <2>1. \A d \in Pages : Subscribed(d)' = Subscribed(d)
    BY <1>3 DEF Write, Subscribed, TypeOK
  <2> QED  BY <1>3, <2>1 DEF Write, OneLoopServes, hubVars, Alive
<1>4. ASSUME NEW c \in Pages, Unsubscribe(c)
      PROVE  OneLoopServes'
  <2>1. ~Subscribed(c)' /\ \A d \in Pages \ {c} : Subscribed(d)' = Subscribed(d)
    BY <1>4 DEF Unsubscribe, Subscribed, NoConn, TypeOK
  <2>2. CASE LastToGo(c)
    <3>1. /\ serving \in Loops /\ serving' = None
          /\ loop' = [loop EXCEPT ![serving].told = TRUE]
      BY <1>4, <2>2 DEF Unsubscribe, LastToGo, TypeOK
    <3>2. \A d \in Pages : ~Subscribed(d)'
      BY <2>1, <2>2 DEF LastToGo
    <3>3. \A k \in Loops : ~Serves(k)'
      BY <3>1 DEF OneLoopServes, Serves, Alive, TypeOK, LoopType
    <3> QED  BY <3>1, <3>2, <3>3 DEF OneLoopServes, Serves
  <2>3. CASE ~LastToGo(c)
    <3>1. UNCHANGED <<serving, loop>>
      BY <1>4, <2>3 DEF Unsubscribe
    <3>2. ASSUME NEW d \in Pages, Subscribed(d)' PROVE serving # None
      BY <2>1, <3>2 DEF OneLoopServes
    <3> QED  BY <3>1, <3>2 DEF OneLoopServes, Alive
  <2> QED  BY <2>2, <2>3
<1>5. ASSUME UNCHANGED <<hubVars, loop, conn>>
      PROVE  OneLoopServes'
  BY <1>5 DEF OneLoopServes, hubVars, Alive, Subscribed
<1>6. CASE Restart
  BY <1>6 DEF Restart, OneLoopServes, Alive, NoLoop, NoConn, Subscribed
<1>7. ASSUME NEW c \in Pages, Leave(c) \/ Fetch(c) \/ Fetched(c)
      PROVE  OneLoopServes'
  BY <1>5, <1>7 DEF Leave, Fetch, Fetched
<1>8. CASE CalmDown
  BY <1>5, <1>8 DEF CalmDown
<1>9. CASE UNCHANGED vars
  BY <1>5, <1>9 DEF vars, hubVars
<1> QED  BY <1>1, <1>2, <1>3, <1>4, <1>6, <1>7, <1>8, <1>9 DEF Next, Connection

-------------------------------------------------------------------------------
(* The hub's memory and the subscribers'                                   *)

(* Every step leaves the hub and its subscribers in step.                  *)
LEMMA InStepStep ==
  ASSUME TypeOK, OneLoopServes, InStep, [Next]_vars
  PROVE  InStep'
<1> USE HubConstants
<1>1. ASSUME NEW l \in Loops, Publish(l)
      PROVE  InStep'
  <2>1. loop[l].snap \in Snapshots /\ last' = loop[l].snap
    BY <1>1 DEF Publish, TypeOK, LoopType
  <2>2. CASE loop[l].snap = last
    BY <1>1, <2>1, <2>2 DEF Publish, InStep, Subscribed
  <2>3. CASE loop[l].snap # last
    <3>1. \A c \in Pages : conn'[c] = Send(conn[c], loop[l].snap)
      BY <1>1, <2>3 DEF Publish, Fan
    <3>2. \A c \in Pages : Send(conn[c], loop[l].snap).open => Send(conn[c], loop[l].snap).sent = loop[l].snap
      BY <2>1, TypeParts, Sending
    <3> QED  BY <2>1, <3>1, <3>2 DEF InStep, Subscribed
  <2> QED  BY <2>2, <2>3
<1>2. ASSUME NEW c \in Pages, Subscribe(c)
      PROVE  InStep'
  <2>1. CASE serving = None
    <3>1. Joins(c, NewConn) /\ last' = None
      BY <1>2, <2>1 DEF Subscribe
    <3>2. \A d \in Pages : ~Subscribed(d)
      BY <2>1 DEF OneLoopServes
    <3> QED  BY <3>1, <3>2, Beginning DEF Joins, InStep, Subscribed, TypeOK
  <2>2. CASE serving # None /\ last = None
    <3>1. Joins(c, NewConn) /\ last' = last
      BY <1>2, <2>2 DEF Subscribe, hubVars
    <3> QED  BY <2>2, <3>1, Beginning DEF Joins, InStep, Subscribed, TypeOK
  <2>3. CASE serving # None /\ last # None
    <3>1. Joins(c, Send(NewConn, last)) /\ last' = last
      BY <1>2, <2>3 DEF Subscribe, hubVars
    <3>2. Send(NewConn, last).sent = last
      BY <2>3, Beginning DEF TypeOK
    <3> QED  BY <3>1, <3>2 DEF Joins, InStep, Subscribed, TypeOK
  <2> QED  BY <2>1, <2>2, <2>3
<1>3. ASSUME NEW c \in Pages, Write(c)
      PROVE  InStep'
  <2>1. \A d \in Pages : conn'[d].open = conn[d].open /\ conn'[d].sent = conn[d].sent
    BY <1>3 DEF Write, TypeOK, ConnType
  <2> QED  BY <1>3, <2>1 DEF Write, InStep, Subscribed, hubVars
<1>4. ASSUME NEW c \in Pages, Unsubscribe(c)
      PROVE  InStep'
  BY <1>4 DEF Unsubscribe, InStep, Subscribed, NoConn, TypeOK
<1>5. ASSUME UNCHANGED <<hubVars, conn>>
      PROVE  InStep'
  BY <1>5 DEF InStep, hubVars, Subscribed
<1>6. CASE Restart
  BY <1>6 DEF Restart, InStep, NoConn, Subscribed
<1>7. ASSUME NEW l \in Loops, Sample(l) \/ SampleFails(l) \/ LoopStops(l)
      PROVE  InStep'
  BY <1>5, <1>7 DEF Sample, SampleFails, LoopStops
<1>8. ASSUME NEW c \in Pages, Leave(c) \/ Fetch(c) \/ Fetched(c)
      PROVE  InStep'
  BY <1>5, <1>8 DEF Leave, Fetch, Fetched
<1>9. CASE CalmDown
  BY <1>5, <1>9 DEF CalmDown
<1>10. CASE UNCHANGED vars
  BY <1>5, <1>10 DEF vars, hubVars
<1> QED
  BY <1>1, <1>2, <1>3, <1>4, <1>6, <1>7, <1>8, <1>9, <1>10 DEF Next, Connection, LoopNext

-------------------------------------------------------------------------------

(* Every step keeps the types.                                             *)
LEMMA TypeStep ==
  ASSUME TypeOK, [Next]_vars
  PROVE  TypeOK'
<1>1. CASE CalmDown
  BY <1>1 DEF CalmDown, TypeOK, hubVars
<1>2. CASE UNCHANGED vars
  BY <1>2 DEF vars, TypeOK
<1> QED
  BY <1>1, <1>2, LoopTypes, SubscribeType, WriteType, UnsubscribeType, PagesType, RestartType
  DEF Next, Connection

(* Every reachable state is well typed, no queue outgrows its channel, one *)
(* loop serves and everybody is in step.                                   *)
THEOREM Invariance == Spec => []IInv
<1>1. Init => IInv
  <2> SUFFICES ASSUME Init PROVE OneLoopServes /\ InStep
    BY InitType DEF IInv
  <2> QED  BY HubConstants DEF Init, OneLoopServes, InStep, Subscribed, Alive, NoLoop, NoConn
<1>2. IInv /\ [Next]_vars => IInv'
  BY TypeStep, ServesStep, InStepStep DEF IInv
<1> QED  BY <1>1, <1>2, PTL DEF Spec

(* Every variable of the hub keeps its type, and every queue its bound.    *)
THEOREM TypeCorrect == Spec => []TypeOK
BY Invariance, PTL DEF IInv

(* Whoever is subscribed is served by one loop that goes on sampling: no   *)
(* order of arrivals and departures stops it or leaves two running.        *)
THEOREM OneLoop == Spec => []OneLoopServes
BY Invariance, PTL DEF IInv

(* The hub's "no change" is right for every subscriber, whatever late      *)
(* snapshot an old loop has published.                                     *)
THEOREM EverybodyInStep == Spec => []InStep
BY Invariance, PTL DEF IInv
===============================================================================
