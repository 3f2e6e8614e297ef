------------------------------- MODULE LiveHub -------------------------------
(***************************************************************************)
(* The live feed of the list pages: live.Hub, the socket handlers that     *)
(* subscribe to it, and the pages with their fallback to polling.          *)
(*                                                                         *)
(* A snapshot is a value of Snapshots.  Hub.mu makes each of Subscribe, of *)
(* the function it returns and of the second half of publish one step; the *)
(* first half of publish, the sampling, is outside the lock.               *)
(***************************************************************************)
EXTENDS Naturals, Sequences

CONSTANTS
  Pages,       (* the list pages in browsers, each with a socket at a time *)
  Impatient,   (* those whose first socket may take long enough to open    *)
               (* that they ask with plain GETs meanwhile                  *)
  Snapshots,   (* what the recent builds may look like                     *)
  Loops,       (* sampling goroutines alive at a time (a bound); each new  *)
               (* one takes the lowest number that is free                 *)
  Buffer,      (* subBuffer                                                *)
  None         (* no snapshot, no loop                                     *)

ASSUME HubConstants ==
  /\ Snapshots # {} /\ Loops # {} /\ Loops \subseteq Nat /\ Buffer \in Nat \ {0}
  /\ Impatient \subseteq Pages
  /\ None \notin Snapshots \cup Loops

VARIABLES
  db,          (* the recent builds as they stay, None while they change   *)
  last,        (* Hub.last                                                 *)
  serving,     (* the loop whose stop channel Hub.stop is, None: ~running  *)
  loop,        (* the sampling goroutines                                  *)
  conn,        (* the socket handler of each page, with its subscription   *)
  page         (* the pages                                                *)

vars == <<db, last, serving, loop, conn, page>>

(* Where a goroutine is in loop and publish, the snapshot it has in hand,  *)
(* and whether its stop channel is closed.                                 *)
NoLoop == [pc |-> "none", snap |-> None, told |-> FALSE]
Alive(l) == loop[l].pc # "none"

(* on: the handler runs.  open: its channel is in Hub.subs and not closed. *)
(* queue: what the channel holds.  sent: the last snapshot put into it.    *)
NoConn == [on |-> FALSE, open |-> FALSE, queue |-> <<>>, sent |-> None]
Subscribed(c) == conn[c].open

(* on: its socket is open.  shown: the last snapshot applied, None again   *)
(* when the socket is lost: what it still shows then is to be replaced.    *)
(* timer: the fallback polls.  fetch: the answer to its plain GET, on the way.  late: *)
(* what it shows is such an answer, applied when it had had a socket.      *)
Lost(p) == [p EXCEPT !.on = FALSE, !.shown = IF p.on THEN None ELSE @, !.late = p.late /\ ~p.on]
NewPage(c) == [on |-> FALSE, shown |-> None, timer |-> c \in Impatient, fetch |-> None, late |-> FALSE]

Init ==
  /\ db = None
  /\ last = None /\ serving = None
  /\ loop = [l \in Loops |-> NoLoop]
  /\ conn = [c \in Pages |-> NoConn]
  /\ page = [c \in Pages |-> NewPage(c)]

hubVars == <<last, serving>>

(* From here on no build changes, no page comes or goes and no connection  *)
(* breaks.                                                                 *)
calm == db # None

-------------------------------------------------------------------------------
(* The sampling goroutines *)

(* Snapshot: several queries, so that while builds change it may be any    *)
(* mixture of what was and what is.                                        *)
Sampled == IF calm THEN {db} ELSE Snapshots

(* The loop samples first and then at every tick, a tick that is ready     *)
(* together with the closed stop channel included: select takes either.    *)
Sample(l) ==
  /\ loop[l].pc \in {"start", "wait"}
  /\ \E snap \in Sampled : loop' = [loop EXCEPT ![l].pc = "publish", ![l].snap = snap]
  /\ UNCHANGED <<db, hubVars, conn, page>>

(* A query is refused: nothing is published this time.                     *)
SampleFails(l) ==
  /\ loop[l].pc = "start"
  /\ loop' = [loop EXCEPT ![l].pc = "wait"]
  /\ UNCHANGED <<db, hubVars, conn, page>>

(* (The mutant is off by one.)                                             *)
RoomForOneMore(s) == Len(s.queue) <= Buffer
HasRoom(s) == Len(s.queue) < Buffer

(* A subscriber with room gets the snapshot, one without is closed.  (The  *)
(* mutant skips it this once.)                                             *)
SendOrSkip(s, snap) ==
  IF s.open /\ HasRoom(s) THEN [s EXCEPT !.queue = Append(@, snap), !.sent = snap] ELSE s

Send(s, snap) ==
  IF ~s.open THEN s
  ELSE IF HasRoom(s) THEN [s EXCEPT !.queue = Append(@, snap), !.sent = snap]
  ELSE [s EXCEPT !.open = FALSE, !.sent = None]

Fan(snap) == [c \in Pages |-> Send(conn[c], snap)]

Publish(l) ==
  /\ loop[l].pc = "publish"
  /\ loop' = [loop EXCEPT ![l].pc = "wait", ![l].snap = None]
  /\ last' = loop[l].snap
  /\ conn' = IF loop[l].snap = last THEN conn ELSE Fan(loop[l].snap)
  /\ UNCHANGED <<db, serving, page>>

LoopStops(l) ==
  /\ loop[l].pc = "wait" /\ loop[l].told
  /\ loop' = [loop EXCEPT ![l] = NoLoop]
  /\ UNCHANGED <<db, hubVars, conn, page>>

-------------------------------------------------------------------------------
(* The socket handlers *)

NewConn == [NoConn EXCEPT !.on = TRUE, !.open = TRUE]
Joins(c, s) ==
  /\ ~page[c].on /\ ~conn[c].on
  /\ conn' = [conn EXCEPT ![c] = s]
  /\ page' = [page EXCEPT ![c].on = TRUE, ![c].timer = FALSE]

StartLoop ==
  \E l \in Loops :
    /\ ~Alive(l) /\ \A k \in Loops : k < l => Alive(k)
    /\ serving' = l
    /\ loop' = [loop EXCEPT ![l] = [NoLoop EXCEPT !.pc = "start"]]

(* A page's socket is accepted and handleLive subscribes.  The first       *)
(* subscriber forgets the last snapshot and starts a loop; another one is  *)
(* sent the last snapshot, if there is one.  (The mutant does not forget.) *)
SubscribeKeeping(c) ==
  /\ \/ serving = None /\ StartLoop /\ Joins(c, NewConn)
     \/ serving # None /\ Joins(c, IF last = None THEN NewConn ELSE Send(NewConn, last))
                       /\ UNCHANGED <<serving, loop>>
  /\ UNCHANGED <<db, last>>

Subscribe(c) ==
  /\ \/ serving = None /\ StartLoop /\ Joins(c, NewConn) /\ last' = None
     \/ serving # None /\ Joins(c, IF last = None THEN NewConn ELSE Send(NewConn, last))
                       /\ UNCHANGED <<hubVars, loop>>
  /\ UNCHANGED db

(* The handler takes a snapshot from its channel and writes it; a page     *)
(* that has gone without a word does not see it.                           *)
Write(c) ==
  /\ conn[c].on /\ conn[c].queue # <<>>
  /\ conn' = [conn EXCEPT ![c].queue = Tail(@)]
  /\ page' = IF page[c].on
             THEN [page EXCEPT ![c].shown = Head(conn[c].queue), ![c].late = FALSE]
             ELSE page
  /\ UNCHANGED <<db, hubVars, loop>>

(* The subscriber is the last one.  (The mutant does not count those left.)*)
AnyoneIsLast(c) == serving # None
LastToGo(c) == serving # None /\ \A d \in Pages \ {c} : ~Subscribed(d)

(* handleLive returns: its channel is closed and read to the end, the page *)
(* has gone, or (while things are not calm) a write or a ping fails.  The  *)
(* last one to unsubscribe tells the loop to stop.                         *)
Unsubscribe(c) ==
  /\ conn[c].on
  /\ \/ ~conn[c].open /\ conn[c].queue = <<>>
     \/ ~page[c].on
     \/ ~calm
  /\ conn' = [conn EXCEPT ![c] = NoConn]
  /\ page' = [page EXCEPT ![c] = Lost(@)]
  /\ IF LastToGo(c)
     THEN /\ loop' = [loop EXCEPT ![serving].told = TRUE]
          /\ serving' = None
     ELSE UNCHANGED <<serving, loop>>
  /\ UNCHANGED <<db, last>>

-------------------------------------------------------------------------------
(* The pages: initListLive *)

(* The connection breaks and the page will connect again, or the page is   *)
(* closed and another is opened; the handler does not learn of it at once. *)
Leave(c) ==
  /\ ~calm
  /\ \/ page[c].on /\ page' = [page EXCEPT ![c] = Lost(@)]
     \/ page' = [page EXCEPT ![c] = NewPage(c)]
  /\ UNCHANGED <<db, hubVars, loop, conn>>

(* Until its first socket opens a page asks with a plain GET now and then. *)
(* The handler samples for each such request.                              *)
Fetch(c) ==
  /\ page[c].timer /\ page[c].fetch = None
  /\ \E snap \in Sampled : page' = [page EXCEPT ![c].fetch = snap]
  /\ UNCHANGED <<db, hubVars, loop, conn>>

(* The answer is applied whenever it comes; opening the socket stops the   *)
(* timer and not the request.                                              *)
Fetched(c) ==
  /\ page[c].fetch # None
  /\ page' = [page EXCEPT ![c].shown = page[c].fetch, ![c].fetch = None,
                          ![c].late = ~page[c].timer]
  /\ UNCHANGED <<db, hubVars, loop, conn>>

-------------------------------------------------------------------------------
(* The rest of the server *)

(* The process ends and is started again.                                  *)
Restart ==
  /\ ~calm
  /\ last' = None /\ serving' = None
  /\ loop' = [l \in Loops |-> NoLoop]
  /\ conn' = [c \in Pages |-> NoConn]
  /\ page' = [c \in Pages |-> Lost(page[c])]
  /\ UNCHANGED db

(* The builds have come to what they stay.                                 *)
CalmDown ==
  /\ ~calm
  /\ db' \in Snapshots
  /\ UNCHANGED <<hubVars, loop, conn, page>>

-------------------------------------------------------------------------------

Connection(c) == Subscribe(c) \/ Write(c) \/ Unsubscribe(c)
LoopNext(l) == Sample(l) \/ Publish(l) \/ LoopStops(l)

Next ==
  \/ \E l \in Loops : LoopNext(l) \/ SampleFails(l)
  \/ \E c \in Pages :
       Connection(c) \/ Leave(c) \/ Fetch(c) \/ Fetched(c)
  \/ Restart \/ CalmDown

Spec == Init /\ [][Next]_vars

(* Goroutines go on and queries are not refused for ever; of two ready     *)
(* channels select does not always take the ticker.  A page that is left   *)
(* alone connects again, its handler notices that it has gone, and a plain *)
(* GET is answered.                                                        *)
Fairness ==
  /\ \A l \in Loops : WF_vars(LoopNext(l)) /\ SF_vars(LoopStops(l))
  /\ \A c \in Pages : WF_vars(Connection(c))
  /\ \A c \in Impatient : WF_vars(Fetched(c))

FairSpec == Spec /\ Fairness

-------------------------------------------------------------------------------
(* Properties *)

LoopType == [pc : {"none", "start", "publish", "wait"},
             snap : Snapshots \cup {None}, told : BOOLEAN]
ConnType == [on : BOOLEAN, open : BOOLEAN, queue : Seq(Snapshots), sent : Snapshots \cup {None}]
PageType == [on : BOOLEAN, shown : Snapshots \cup {None}, timer : BOOLEAN,
             fetch : Snapshots \cup {None}, late : BOOLEAN]

(* Every variable has the type of what it stands for, no queue outgrows    *)
(* its channel, and only a handler has a subscription.                     *)
TypeOK ==
  /\ db \in Snapshots \cup {None}
  /\ last \in Snapshots \cup {None} /\ serving \in Loops \cup {None}
  /\ loop \in [Loops -> LoopType]
  /\ conn \in [Pages -> ConnType]
  /\ page \in [Pages -> PageType]
  /\ \A l \in Loops : loop[l].pc = "publish" => loop[l].snap # None
  /\ \A c \in Pages : Len(conn[c].queue) <= Buffer /\ (conn[c].open => conn[c].on)

(* While anybody is subscribed there is a loop that has not been told to   *)
(* stop, and never two: a loop that overlaps its successor is on its way   *)
(* out, and no goroutine goes on sampling for nobody.                      *)
OneLoopServes ==
  /\ (\E c \in Pages : Subscribed(c)) => serving # None
  /\ \A l \in Loops : (Alive(l) /\ ~loop[l].told) <=> serving = l

(* What a subscriber was sent last is what the hub remembers: a comparison *)
(* with it that says "no change" is right for every subscriber, the one    *)
(* that joined after an idle period and the one that met an old loop's     *)
(* late snapshot included.                                                 *)
InStep == \A c \in Pages : Subscribed(c) => conn[c].sent = last

(* Once the builds stay as they are, every page that stays open shows them *)
(* in the end: after drops, reconnects, refused queries, torn or late      *)
(* snapshots.  Only a page whose fallback's answer came after the socket's *)
(* has to wait for the next change.                                        *)
PageIsRight(c) == ~page[c].late => page[c].shown = db
PagesCatchUp == <>calm => <>[](\A c \in Pages : PageIsRight(c))

(* The doc of the feed: applying whatever arrived last is always right.  It *)
(* does not hold: the fallback's answer may arrive after the socket's.     *)
NewestWins == <>calm => <>[](\A c \in Pages : page[c].shown = db)
===============================================================================
