------------------------------ MODULE OutboxProofs ------------------------------
(***************************************************************************)
(* The safety properties of Outbox, for every finite set of builds, every  *)
(* limit of the table and every number of changes and edits.               *)
(***************************************************************************)
EXTENDS Outbox, FiniteSetTheorems, TLAPS

(* Where the worker has a notification in hand, and which it has taken     *)
(* from the table and not dealt with.                                      *)
Unsent   == {"look", "reread", "mute", "compose", "check", "gate", "post"}
Carrying == Unsent \cup {"receipt", "answer", "retry"}
Taken == batch \cup (IF worker.pc \in Carrying THEN {worker.n} ELSE {})

(* A row tells of something that has happened, and only what is no longer  *)
(* pending has a receipt.                                                  *)
RowInv ==
  /\ \A e \in Events : row[e].state = "none" => row[e] = NoRow
  /\ \A e \in Events : row[e].state = "pending" => ~row[e].receipt
  /\ \A b \in Builds : row[b].state # "none" => b \in ended
  /\ \A r \in Alerts : row[r].state # "none" => r <= revision

(* What the worker does fits what it has in hand, which it has once.       *)
HandInv ==
  /\ worker.pc \in Carrying => worker.n \in Snapshot
  /\ worker.pc \in Unsent => worker.n.state = "pending"
  /\ worker.pc = "receipt" => worker.n.state = "submitted"
  /\ worker.pc = "answer" => worker.reply # "none"
  /\ worker.pc = "answer" /\ worker.n.state = "submitted" => worker.reply # "refused"
  /\ worker.pc = "compose" => worker.n.payload = 0
  /\ worker.pc \in {"check", "reread", "gate", "post"} => worker.n.payload # 0
  /\ \A n, m \in batch : n.event = m.event => n = m
  /\ worker.pc \in Carrying => \A n \in batch : n.event # worker.n.event

(* What was taken as pending has not been accepted since; what was taken   *)
(* as submitted has its receipt; and the text taken is the text of the     *)
(* row, and the only one that was sent.                                    *)
TakenOK(n) ==
  LET r == row[n.event] IN
  /\ r.state # "none"
  /\ n.state = "pending" => r.state # "submitted" /\ ~r.receipt
  /\ n.state = "submitted" => r.receipt \/ r.state = "gone"
  /\ r.state # "gone" => r.payload = n.payload
  /\ posted[n.event] \subseteq {n.payload} \ {0}
TakenInv == \A n \in Taken : TakenOK(n)

(* One text was sent for an event, the one its row holds.                  *)
PostedInv ==
  \A e \in Events :
    /\ row[e].state # "gone" => posted[e] \subseteq {row[e].payload} \ {0}
    /\ \E text \in 0 .. MaxSecrets : posted[e] \subseteq {text}

(* What was retired stays so, and nobody is sending it.                    *)
VoidInv == \A e \in void : row[e].state \in Retired \cup {"gone"} /\ ~Sending(e)

(* TypeOK is what it says of the table and what it says of the rest.       *)
Tables == [Events -> RowType]
TableType ==
  /\ row \in Tables /\ void \subseteq Events
  /\ \A e \in Events : row[e].state \in {"submitted", "delivered"} => row[e].receipt
MemType ==
  /\ enabled \in BOOLEAN /\ allowed \in BOOLEAN /\ capture \in BOOLEAN /\ secrets \in 1 .. MaxSecrets
  /\ ended \subseteq Builds /\ revision \in 0 .. MaxRevisions
  /\ key \in BOOLEAN /\ held \subseteq {"relay", "route"}
  /\ worker \in [pc : Steps, n : Snapshot \cup {None},
                 reply : Settled \cup {"none", "submitted", "refused", "unclear"}]
  /\ batch \subseteq Snapshot
  /\ posted \in [Events -> SUBSET (0 .. MaxSecrets)]

TableInv == TableType /\ RowInv /\ TakenInv /\ PostedInv /\ VoidInv /\ OutboxIsBounded
IInv == TableInv /\ MemType /\ HandInv /\ PendingIsAllowed

-------------------------------------------------------------------------------
(* Tables                                                                  *)

Absent == {"none", "gone"}

(* What the operators on the table do to a row that is nobody's business:  *)
(* nothing, or they retire it, or it is removed.                           *)
Fades(r, s) ==
  /\ s \in RowType
  /\ \/ s = r
     \/ s = Gone /\ r.state # "none"
     \/ /\ r.state = "pending" /\ s.state \in Retired
        /\ s.payload = r.payload /\ s.receipt = r.receipt

(* There are finitely many events, at least as many as rows.               *)
LEMMA EventsFinite ==
  /\ IsFiniteSet(Events) /\ Cardinality(Events) \in Nat
  /\ \A rows : IsFiniteSet(Present(rows)) /\ Cardinality(Present(rows)) \in Nat
<1>1. IsFiniteSet(Alerts)
  BY FS_Interval, OutboxConstants DEF Alerts
<1>2. IsFiniteSet(Events)
  BY <1>1, FS_Union, OutboxConstants DEF Events
<1>3. \A rows : Present(rows) \in SUBSET Events
  BY DEF Present
<1> QED  BY <1>2, <1>3, FS_Subset, FS_CardinalityType

(* The rows that never were and the ones that are no more.                 *)
LEMMA EmptyRows ==
  /\ NoRow \in RowType /\ NoRow.state = "none" /\ NoRow.payload = 0 /\ ~NoRow.receipt /\ NoRow.age = 0
  /\ Gone \in RowType /\ Gone.state = "gone" /\ ~Gone.receipt
<1>1. NoRow \in RowType /\ NoRow.state = "none" /\ NoRow.payload = 0 /\ ~NoRow.receipt /\ NoRow.age = 0
  <2>1. 0 \in 0 .. Cardinality(Events) /\ 0 \in 0 .. MaxSecrets /\ 0 \in 0 .. Week
    BY EventsFinite, OutboxConstants DEF Week
  <2> QED  BY <2>1 DEF NoRow, RowType
<1>2. Gone \in RowType /\ Gone.state = "gone" /\ Gone.receipt = NoRow.receipt
  BY <1>1 DEF Gone, RowType
<1> QED  BY <1>1, <1>2

(* Of natural numbers there is a smallest.                                 *)
LEMMA Smallest ==
  ASSUME NEW T, T \subseteq Nat, T # {}
  PROVE  \E m \in T : \A n \in T : m <= n
<1> DEFINE Initial == {0 .. n : n \in T}
<1>1. IsWellFoundedOn(StrictSubsetOrdering(Nat), FiniteSubsetsOf(Nat))
  BY FS_StrictSubsetOrderingWellFounded
<1>2. Initial \subseteq FiniteSubsetsOf(Nat) /\ Initial # {}
  <2>1. \A n \in T : IsFiniteSet(0 .. n) /\ 0 .. n \subseteq Nat
    BY FS_Interval
  <2> QED  BY <2>1 DEF FiniteSubsetsOf
<1>3. PICK S \in Initial : \A U \in Initial : ~(<<U, S>> \in StrictSubsetOrdering(Nat))
  BY <1>1, <1>2, WFMin
<1>4. PICK m \in T : S = 0 .. m
  OBVIOUS
<1>5. ASSUME NEW n \in T, n < m
      PROVE  FALSE
  <2>1. 0 .. n \in Initial
    OBVIOUS
  <2>2. 0 .. n \subseteq Nat /\ S \subseteq Nat
    BY <1>4
  <2>3. 0 .. n \subseteq S /\ m \in S /\ m \notin 0 .. n
    BY <1>4, <1>5
  <2>4. <<0 .. n, S>> \in StrictSubsetOrdering(Nat)
    BY <2>2, <2>3 DEF StrictSubsetOrdering
  <2> QED  BY <1>3, <2>1, <2>4
<1> QED  BY <1>5

(* The first row of some rows is one of them.                              *)
LEMMA FirstIsOne ==
  ASSUME NEW rows \in Tables, NEW S, S \subseteq Events, S # {}
  PROVE  First(rows, S) \in S
<1> DEFINE T == {rows[e].id : e \in S}
<1>1. T \subseteq Nat /\ T # {}
  BY EventsFinite DEF Tables, RowType
<1>2. PICK m \in T : \A n \in T : m <= n
  BY <1>1, Smallest
<1>3. PICK e \in S : rows[e].id = m
  OBVIOUS
<1>4. \A f \in S : rows[e].id <= rows[f].id
  BY <1>2, <1>3
<1> QED  BY <1>4 DEF First

(* A table that is trimmed loses a row at most, and none that was never    *)
(* captured; one row too many is made good.                                *)
LEMMA Trimming ==
  ASSUME NEW rows \in Tables
  PROVE  /\ Trim(rows) \in Tables
         /\ \A e \in Events : \/ Trim(rows)[e] = rows[e]
                              \/ Trim(rows)[e] = Gone /\ rows[e].state \notin Absent
         /\ Cardinality(Present(rows)) <= Limit + 1 => Cardinality(Present(Trim(rows))) <= Limit
<1> DEFINE completed == {e \in Present(rows) : ~IsQueued(rows, e)}
           S == IF completed # {} THEN completed ELSE Present(rows)
           x == First(rows, S)
<1>0. Limit \in Nat \ {0} /\ Cardinality(Present(rows)) \in Nat
  BY EventsFinite, OutboxConstants
<1>1. CASE Cardinality(Present(rows)) <= Limit
  BY <1>0, <1>1 DEF Trim
<1>2. CASE ~(Cardinality(Present(rows)) <= Limit)
  <2>1. Present(rows) # {}
    BY <1>0, <1>2, FS_EmptySet
  <2>2. S # {} /\ S \subseteq Present(rows) /\ Present(rows) \subseteq Events
    BY <2>1 DEF Present
  <2>3. x \in Present(rows)
    <3> HIDE DEF S
    <3> QED  BY <2>2, FirstIsOne
  <2>4. Trim(rows) = [rows EXCEPT ![x] = Gone]
    BY <1>2 DEF Trim
  <2> HIDE DEF x
  <2>5. x \in Events /\ rows[x].state \notin Absent
    BY <2>3 DEF Present, Absent
  <2>6. /\ Trim(rows) \in Tables
        /\ \A e \in Events : Trim(rows)[e] = IF e = x THEN Gone ELSE rows[e]
    BY <2>4, <2>5, EmptyRows DEF Tables
  <2>7. Present(Trim(rows)) = Present(rows) \ {x}
    BY <2>5, <2>6, EmptyRows DEF Present
  <2>8. Cardinality(Present(Trim(rows))) = Cardinality(Present(rows)) - 1
    BY <2>3, <2>7, EventsFinite, FS_RemoveElement
  <2> QED  BY <1>0, <2>5, <2>6, <2>8
<1> QED  BY <1>1, <1>2

(* Rows that are retired fade.                                             *)
LEMMA Retiring ==
  ASSUME NEW rows \in Tables, NEW S, NEW s \in Retired
  PROVE  /\ Retire(rows, S, s) \in Tables
         /\ \A e \in Events : Fades(rows[e], Retire(rows, S, s)[e])
         /\ \A e \in S \cap Events : Retire(rows, S, s)[e].state # "pending"
<1>1. ASSUME NEW e \in Events
      PROVE  /\ Fades(rows[e], Retire(rows, S, s)[e])
             /\ e \in S => Retire(rows, S, s)[e].state # "pending"
  <2>0. rows[e] \in RowType
    BY DEF Tables
  <2>1. CASE e \in S /\ rows[e].state = "pending"
    <3> DEFINE r == [rows[e] EXCEPT !.state = s, !.due = FALSE]
    <3>1. Retire(rows, S, s)[e] = r
      BY <2>1 DEF Retire
    <3>2. r \in RowType /\ r.state = s /\ r.payload = rows[e].payload /\ r.receipt = rows[e].receipt
      BY <2>0 DEF RowType
    <3> HIDE DEF r
    <3> QED  BY <2>1, <3>1, <3>2 DEF Fades, Retired
  <2>2. CASE ~(e \in S /\ rows[e].state = "pending")
    BY <2>0, <2>2 DEF Retire, Fades
  <2> QED  BY <2>1, <2>2
<1>2. Retire(rows, S, s) = [e \in Events |-> Retire(rows, S, s)[e]]
  BY DEF Retire
<1>3. \A e \in Events : Retire(rows, S, s)[e] \in RowType
  BY <1>1 DEF Fades
<1> QED  BY <1>1, <1>2, <1>3 DEF Tables

(* So do the rows of a table that is pruned.                               *)
LEMMA Pruning ==
  ASSUME row \in Tables, RowInv, OutboxIsBounded,
         NEW old, old = {e \in Events : row[e].age = Week}
  PROVE  /\ Pruned(old) \in Tables
         /\ \A e \in Events : Fades(row[e], Pruned(old)[e])
<1> DEFINE rows == [e \in Events |->
                      IF e \in old THEN Gone
                      ELSE IF Expired(e) THEN [row[e] EXCEPT !.state = "expired", !.due = FALSE]
                      ELSE row[e]]
<1>1. ASSUME NEW e \in Events
      PROVE  Fades(row[e], rows[e])
  <2>0. row[e] \in RowType
    BY DEF Tables
  <2>1. CASE e \in old
    <3>1. row[e].age = Week
      BY <2>1
    <3>2. row[e].state # "none"
      BY <3>1, EmptyRows DEF RowInv, Week
    <3> QED  BY <2>1, <3>2, EmptyRows DEF Fades
  <2>2. CASE e \notin old /\ Expired(e)
    <3> DEFINE r == [row[e] EXCEPT !.state = "expired", !.due = FALSE]
    <3>1. r \in RowType /\ r.state = "expired" /\ r.payload = row[e].payload /\ r.receipt = row[e].receipt
      BY <2>0 DEF RowType, Retired
    <3>2. rows[e] = r
      BY <2>2
    <3> HIDE DEF r, rows
    <3> QED  BY <2>2, <3>1, <3>2 DEF Fades, Retired, Expired
  <2>3. CASE e \notin old /\ ~Expired(e)
    BY <2>0, <2>3 DEF Fades
  <2> QED  BY <2>1, <2>2, <2>3
<1>2. rows \in Tables
  <2>1. \A e \in Events : rows[e] \in RowType
    BY <1>1 DEF Fades
  <2> QED  BY <2>1 DEF Tables
<1>3. Pruned(old) = Trim(rows)
  BY DEF Pruned
<1> HIDE DEF rows
<1>4. \A e \in Events : Pruned(old)[e] = rows[e] \/ (Pruned(old)[e] = Gone /\ rows[e].state \notin Absent)
  BY <1>2, <1>3, Trimming
<1>5. ASSUME NEW e \in Events, Pruned(old)[e] = Gone, rows[e].state \notin Absent
      PROVE  Fades(row[e], Pruned(old)[e])
  BY <1>1, <1>5, EmptyRows DEF Fades, Absent
<1> QED  BY <1>1, <1>2, <1>3, <1>4, <1>5, Trimming

(* An outcome of what is in hand is written to a row that has none yet.    *)
LEMMA Updating ==
  ASSUME NEW e \in Events, row \in Tables, NEW s \in Queued \cup Retired \cup Settled
  PROVE  /\ Update(e, s) \in Tables
         /\ \A f \in Events : f # e => Update(e, s)[f] = row[f]
         /\ \/ row[e].state \notin Queued /\ Update(e, s)[e] = row[e]
            \/ /\ row[e].state \in Queued /\ Update(e, s)[e].state = s
               /\ Update(e, s)[e].payload = row[e].payload
               /\ Update(e, s)[e].receipt = row[e].receipt
               /\ Update(e, s)[e].agent = row[e].agent
<1>1. CASE row[e].state \in Queued
  <2> DEFINE r == [row[e] EXCEPT !.state = s, !.due = FALSE]
  <2>1. r \in RowType /\ r.state = s /\ r.payload = row[e].payload /\ r.receipt = row[e].receipt /\ r.agent = row[e].agent
    BY DEF Tables, RowType
  <2>2. Update(e, s) = [row EXCEPT ![e] = r]
    BY <1>1 DEF Update
  <2> HIDE DEF r
  <2> QED  BY <1>1, <2>1, <2>2 DEF Tables
<1>2. CASE row[e].state \notin Queued
  BY <1>2 DEF Update
<1> QED  BY <1>1, <1>2

-------------------------------------------------------------------------------
(* What happens to the table                                               *)

(* Whatever is taken is an event's.                                        *)
LEMMA TakenType ==
  ASSUME MemType, HandInv
  PROVE  Taken \subseteq Snapshot /\ \A n \in Taken : n.event \in Events
BY DEF MemType, HandInv, Taken, Snapshot

(* No more rows than before.                                               *)
LEMMA NoNewRow ==
  ASSUME OutboxIsBounded,
         \A e \in Events : row[e].state \in Absent => row'[e].state \in Absent
  PROVE  OutboxIsBounded'
<1>1. Present(row') \subseteq Present(row)
  BY DEF Present, Absent
<1>2. Cardinality(Present(row')) <= Cardinality(Present(row))
  BY <1>1, EventsFinite, FS_Subset
<1> QED  BY <1>2, EventsFinite, OutboxConstants DEF OutboxIsBounded

(* Rows fade, and the worker goes on with no more than it has, or not.     *)
LEMMA Fading ==
  ASSUME TableInv, MemType, HandInv,
         NEW rows \in Tables, \A e \in Events : Fades(row[e], rows[e]), Write(rows),
         UNCHANGED <<posted, factVars>>, Taken' \subseteq Taken,
         \A e \in Events : Sending(e)' => Sending(e) \/ rows[e].state = "pending"
  PROVE  TableInv'
<1>0. row' = rows /\ row \in Tables /\ UNCHANGED <<posted, ended, revision>>
  BY DEF Write, TableInv, TableType, factVars
<1>1. TableType'
  BY <1>0, EmptyRows DEF TableInv, TableType, Write, Fades, Retired
<1>2. RowInv'
  BY <1>0, EmptyRows DEF TableInv, RowInv, Fades, Retired, Events
<1>3. TakenInv'
  <2>1. ASSUME NEW n \in Taken'
        PROVE  TakenOK(n)'
    <3>1. n \in Taken /\ n.event \in Events
      BY <2>1, TakenType
    <3>2. TakenOK(n) /\ Fades(row[n.event], row'[n.event])
      BY <3>1, <1>0 DEF TableInv, TakenInv
    <3> QED  BY <1>0, <3>2, EmptyRows DEF TakenOK, Fades, Retired
  <2> QED  BY <2>1 DEF TakenInv
<1>4. PostedInv'
  BY <1>0, EmptyRows DEF TableInv, PostedInv, Fades, Retired
<1>5. VoidInv'
  <2>1. ASSUME NEW e \in void'
        PROVE  row'[e].state \in Retired \cup {"gone"} /\ ~Sending(e)'
    <3>0. e \in Events /\ Fades(row[e], row'[e])
      BY <1>0, <1>1 DEF TableType
    <3>1. CASE e \in void
      <4>1. row[e].state \in Retired \cup {"gone"} /\ ~Sending(e)
        BY <3>1 DEF TableInv, VoidInv
      <4> QED  BY <1>0, <3>0, <4>1, EmptyRows DEF Fades, Retired
    <3>2. CASE row[e].state = "pending" /\ rows[e].state \in Retired /\ ~Sending(e)
      BY <1>0, <3>0, <3>2 DEF Retired
    <3> QED  BY <3>1, <3>2 DEF Write
  <2> QED  BY <2>1 DEF VoidInv
<1>6. OutboxIsBounded'
  <2>1. \A e \in Events : row[e].state \in Absent => row'[e].state \in Absent
    BY <1>0, EmptyRows DEF Fades, Absent
  <2> QED  BY <2>1, NoNewRow DEF TableInv
<1> QED  BY <1>1, <1>2, <1>3, <1>4, <1>5, <1>6 DEF TableInv

(* A table that stays fades too.                                           *)
LEMMA Staying ==
  ASSUME TableInv
  PROVE  /\ row \in Tables /\ \A e \in Events : Fades(row[e], row[e])
         /\ Write(row) <=> UNCHANGED rowVars
<1>1. row \in Tables
  BY DEF TableInv, TableType
<1>2. \A e \in Events : row[e].state = "pending" => row[e].state \notin Retired
  BY DEF Retired
<1> QED  BY <1>1, <1>2 DEF Tables, Fades, Write, rowVars

(* An event is captured that never was; a row may go for it.               *)
LEMMA Capturing ==
  ASSUME TableInv, MemType, HandInv, PendingIsAllowed,
         NEW e \in Events, row[e].state = "none",
         NEW agent \in BOOLEAN, NEW payload \in 0 .. MaxSecrets, Write(Capture(e, agent, payload)),
         ended \subseteq ended', revision <= revision', revision' \in Nat,
         e \in Builds => e \in ended', e \in Alerts => e <= revision',
         UNCHANGED <<posted, memVars, switchVars>>
  PROVE  TableInv' /\ PendingIsAllowed'
<1> DEFINE id == Cardinality({f \in Events : row[f].state # "none"}) + 1
           new == [NoRow EXCEPT !.state = "pending", !.id = id, !.agent = agent,
                                !.payload = payload, !.due = TRUE]
           rows == IF Allows(agent) THEN [row EXCEPT ![e] = new] ELSE row
<1>0. row \in Tables /\ UNCHANGED <<posted, worker, batch, enabled, allowed, capture>>
  BY DEF TableInv, TableType, memVars, switchVars
<1>1. id \in 0 .. Cardinality(Events)
  <2> DEFINE S == {f \in Events : row[f].state # "none"}
  <2>1. S \subseteq Events \ {e}
    OBVIOUS
  <2>2. IsFiniteSet(Events \ {e}) /\ Cardinality(Events \ {e}) = Cardinality(Events) - 1
    BY EventsFinite, FS_RemoveElement
  <2> HIDE DEF S
  <2>3. IsFiniteSet(S) /\ Cardinality(S) <= Cardinality(Events \ {e})
    BY <2>1, <2>2, FS_Subset
  <2>4. Cardinality(S) \in Nat
    BY <2>3, FS_CardinalityType
  <2> QED  BY <2>2, <2>3, <2>4, EventsFinite DEF S
<1>2. /\ new \in RowType /\ new.state = "pending" /\ ~new.receipt /\ new.agent = agent
      /\ new.payload = payload
  <2> HIDE DEF id
  <2> QED  BY <1>1, EmptyRows DEF RowType, Queued
<1>3. Capture(e, agent, payload) = Trim(rows)
  BY DEF Capture
<1> HIDE DEF new, id
<1>4. /\ rows \in Tables /\ \A f \in Events : f # e => rows[f] = row[f]
      /\ rows[e] = row[e] \/ (Allows(agent) /\ rows[e] = new)
  BY <1>0, <1>2 DEF Tables
<1> HIDE DEF rows
<1>5. Cardinality(Present(rows)) <= Limit + 1
  <2> DEFINE P == Present(row)
             U == P \cup {e}
  <2>1. Present(rows) \subseteq U
    BY <1>4 DEF Present
  <2>0. IsFiniteSet(P) /\ Cardinality(P) \in Nat
    BY EventsFinite
  <2>2. IsFiniteSet(U) /\ Cardinality(U) <= Cardinality(P) + 1
    <3> HIDE DEF P
    <3>1. Cardinality(U) = IF e \in P THEN Cardinality(P) ELSE Cardinality(P) + 1
      BY <2>0, FS_AddElement
    <3> QED  BY <2>0, <3>1, FS_AddElement
  <2> HIDE DEF U
  <2>3. Cardinality(Present(rows)) <= Cardinality(U) /\ Cardinality(U) \in Nat
    BY <2>1, <2>2, FS_Subset, FS_CardinalityType
  <2> QED  BY <2>0, <2>2, <2>3, EventsFinite, OutboxConstants DEF TableInv, OutboxIsBounded
<1>6. /\ row' \in Tables
      /\ \A f \in Events : row'[f] = rows[f] \/ (row'[f] = Gone /\ rows[f].state \notin Absent)
      /\ OutboxIsBounded'
  BY <1>3, <1>4, <1>5, Trimming DEF Write, OutboxIsBounded
<1>7. \A f \in Events : f # e => row'[f] = row[f] \/ (row'[f] = Gone /\ row[f].state \notin Absent)
  BY <1>4, <1>6
<1>8. row'[e] = row[e] \/ row'[e] = Gone \/ (Allows(agent) /\ row'[e] = new)
  BY <1>4, <1>6
<1>9. void' = void
  <2>1. \A f \in Events : row[f].state = "pending" => row'[f].state \notin Retired
    BY <1>7, EmptyRows DEF Retired
  <2> QED  BY <2>1 DEF Write
<1>10. TableType'
  BY <1>2, <1>6, <1>7, <1>8, <1>9, EmptyRows DEF TableInv, TableType
<1>11. RowInv'
  <2>1. \A f \in Events : row'[f].state = "none" => row'[f] = NoRow
    BY <1>2, <1>7, <1>8, EmptyRows DEF TableInv, RowInv
  <2>2. \A f \in Events : row'[f].state = "pending" => ~row'[f].receipt
    BY <1>2, <1>7, <1>8, EmptyRows DEF TableInv, RowInv
  <2>3. \A b \in Builds : row'[b].state # "none" => b \in ended'
    BY <1>7 DEF TableInv, RowInv, Events, Absent
  <2>4. \A r \in Alerts : row'[r].state # "none" => r <= revision'
    <3>1. revision \in Nat /\ Alerts \subseteq Nat
      BY OutboxConstants DEF MemType, Alerts
    <3> QED  BY <1>7, <3>1 DEF TableInv, RowInv, Events, Absent
  <2> QED  BY <2>1, <2>2, <2>3, <2>4 DEF RowInv
<1>12. TakenInv'
  <2>1. ASSUME NEW n \in Taken'
        PROVE  TakenOK(n)'
    <3>1. n \in Taken /\ n.event \in Events
      BY <1>0, TakenType DEF Taken
    <3>2. TakenOK(n) /\ n.event # e
      BY <3>1 DEF TableInv, TakenInv, TakenOK
    <3> QED  BY <1>0, <1>7, <3>1, <3>2, EmptyRows DEF TakenOK
  <2> QED  BY <2>1 DEF TakenInv
<1>13. PostedInv'
  <2>1. posted[e] = {}
    BY EmptyRows DEF TableInv, PostedInv, RowInv
  <2> QED  BY <1>0, <1>7, <1>8, <2>1, EmptyRows DEF TableInv, PostedInv
<1>14. VoidInv'
  <2>1. ASSUME NEW f \in void
        PROVE  row'[f].state \in Retired \cup {"gone"} /\ ~Sending(f)'
    <3>1. f \in Events /\ f # e
      BY DEF TableInv, TableType, VoidInv, Retired
    <3> QED  BY <1>0, <1>7, <3>1, EmptyRows DEF TableInv, VoidInv, Sending
  <2> QED  BY <1>9, <2>1 DEF VoidInv
<1>15. PendingIsAllowed'
  BY <1>0, <1>2, <1>7, <1>8, EmptyRows DEF PendingIsAllowed, Allowed, Allows
<1> QED  BY <1>6, <1>10, <1>11, <1>12, <1>13, <1>14, <1>15 DEF TableInv

(* What is in hand gets an outcome or another try, and is put down.        *)
LEMMA Settling ==
  ASSUME TableInv, MemType, HandInv, PendingIsAllowed,
         worker.pc \in Carrying, Done, UNCHANGED <<batch, posted, factVars, switchVars>>,
         NEW rows \in Tables, Write(rows),
         \A e \in Events : e # Now => rows[e] = row[e],
         \/ rows[Now] = row[Now]
         \/ /\ row[Now].state \notin Absent /\ rows[Now].state \notin Absent
            /\ rows[Now].payload = row[Now].payload
            /\ rows[Now].state = "pending" =>
                 row[Now].state = "pending" /\ ~rows[Now].receipt /\ rows[Now].agent = row[Now].agent
            /\ rows[Now].state \in {"submitted", "delivered"} => rows[Now].receipt
            /\ row[Now].state \in Queued \/ Sending(Now)
  PROVE  TableInv' /\ PendingIsAllowed'
<1>0. /\ row' = rows /\ UNCHANGED <<posted, ended, revision, enabled, allowed, capture, batch>>
      /\ worker'.pc = "next"
  BY DEF Write, factVars, switchVars, Done, Idle
<1>1. Now \in Events /\ row \in Tables
  BY DEF HandInv, Snapshot, TableInv, TableType, Now
<1>2. TableType'
  BY <1>0, <1>1 DEF TableInv, TableType, Write
<1>3. RowInv'
  BY <1>0, <1>1 DEF TableInv, RowInv, Absent, Events
<1>4. TakenInv'
  <2>1. ASSUME NEW n \in Taken'
        PROVE  TakenOK(n)'
    <3>1. n \in batch /\ n \in Taken
      BY <1>0 DEF Taken, Carrying, Unsent
    <3>2. n.event \in Events /\ n.event # Now
      BY <3>1, TakenType DEF HandInv, Now
    <3> QED  BY <1>0, <3>1, <3>2 DEF TableInv, TakenInv, TakenOK
  <2> QED  BY <2>1 DEF TakenInv
<1>5. PostedInv'
  BY <1>0, <1>1 DEF TableInv, PostedInv, Absent
<1>6. VoidInv'
  <2>1. ASSUME NEW e \in void'
        PROVE  row'[e].state \in Retired \cup {"gone"} /\ ~Sending(e)'
    <3>0. e \in Events /\ ~Sending(e)'
      BY <1>0, <1>2 DEF TableType, Sending
    <3>1. CASE e \in void
      <4>1. row[e].state \in Retired \cup {"gone"} /\ ~Sending(e)
        BY <3>1 DEF TableInv, VoidInv
      <4>2. row'[e] = row[e]
        BY <1>0, <3>0, <4>1 DEF Queued, Retired
      <4> QED  BY <3>0, <4>1, <4>2
    <3>2. CASE rows[e].state \in Retired
      BY <1>0, <3>0, <3>2
    <3> QED  BY <3>1, <3>2 DEF Write
  <2> QED  BY <2>1 DEF VoidInv
<1>7. OutboxIsBounded'
  <2>1. \A e \in Events : row[e].state \in Absent => row'[e].state \in Absent
    BY <1>0, <1>1
  <2> QED  BY <2>1, NoNewRow DEF TableInv
<1>8. PendingIsAllowed'
  BY <1>0, <1>1 DEF PendingIsAllowed, Allowed, Allows
<1> QED  BY <1>2, <1>3, <1>4, <1>5, <1>6, <1>7, <1>8 DEF TableInv

-------------------------------------------------------------------------------
(* The steps, on the table                                                 *)

(* What is pending and fades is not pending any more.                      *)
LEMMA Pending ==
  ASSUME PendingIsAllowed,
         \A e \in Events : Fades(row[e], row'[e]),
         \A e \in Events : row'[e].state = "pending" /\ enabled /\ capture =>
                             enabled' /\ capture' /\ (row[e].agent /\ allowed => allowed')
  PROVE  PendingIsAllowed'
<1>1. \A e \in Events : row'[e].state = "pending" => row'[e] = row[e]
  BY EmptyRows DEF Fades, Retired
<1> QED  BY <1>1 DEF PendingIsAllowed, Allowed, Allows

(* A step that leaves the table and the switches alone.                    *)
LEMMA Elsewhere ==
  ASSUME TableInv, MemType, HandInv, PendingIsAllowed,
         UNCHANGED <<rowVars, posted, factVars>>, UNCHANGED <<enabled, allowed, capture>>,
         Taken' \subseteq Taken, \A e \in Events : Sending(e)' => Sending(e)
  PROVE  TableInv' /\ PendingIsAllowed'
<1>1. Write(row) /\ row \in Tables /\ \A e \in Events : Fades(row[e], row[e])
  BY Staying
<1>2. TableInv'
  BY <1>1, Fading
<1> QED  BY <1>2 DEF PendingIsAllowed, Allowed, Allows, rowVars

(* The trigger on an outcome and the observer of the agent.                *)
LEMMA OutcomeTable ==
  ASSUME IInv, NEW b \in Builds, Outcome(b)
  PROVE  TableInv' /\ PendingIsAllowed'
<1>1. PICK agent \in BOOLEAN : Write(Capture(b, agent, 0))
  BY DEF Outcome
<1>2. b \in Events /\ row[b].state = "none" /\ b \notin Alerts
  BY OutboxConstants DEF IInv, TableInv, RowInv, Events, Outcome
<1>3. /\ ended \subseteq ended' /\ b \in ended' /\ revision <= revision' /\ revision' \in Nat
      /\ UNCHANGED <<posted, memVars, switchVars>> /\ 0 \in 0 .. MaxSecrets
  BY OutboxConstants DEF Outcome, IInv, MemType
<1> QED  BY <1>1, <1>2, <1>3, Capturing DEF IInv

(* The observer of the agent captures a change, or passes it over.         *)
LEMMA ObserveTable ==
  ASSUME IInv, ObserveChange
  PROVE  TableInv' /\ PendingIsAllowed'
<1>0. PICK r : r = revision + 1
  OBVIOUS
<1>1. revision \in Nat /\ secrets \in 0 .. MaxSecrets /\ MaxRevisions \in Nat
  BY OutboxConstants DEF IInv, MemType
<1>2. r \in Alerts /\ r \in Events /\ r \notin Builds /\ row[r].state = "none"
  <2>1. r \in Alerts
    BY <1>0, <1>1 DEF ObserveChange, Alerts
  <2> QED  BY <1>0, <1>1, <2>1, OutboxConstants DEF Events, IInv, TableInv, RowInv
<1>3. /\ ended' = ended /\ revision' = r /\ revision <= r /\ r \in Nat
      /\ UNCHANGED <<posted, memVars, switchVars>>
  BY <1>0, <1>1 DEF ObserveChange
<1>4. CASE Write(Capture(r, TRUE, secrets))
  <2>1. PICK text : text = secrets
    OBVIOUS
  <2>2. text \in 0 .. MaxSecrets /\ Write(Capture(r, TRUE, text))
    BY <1>1, <1>4, <2>1
  <2>3. ended \subseteq ended' /\ r <= revision' /\ revision <= revision' /\ revision' \in Nat
    BY <1>3
  <2> QED  BY <1>2, <1>3, <2>2, <2>3, Capturing DEF IInv
<1>5. CASE Write(row)
  <2>1. row' = row /\ void' = void
    BY <1>5, Staying DEF IInv, rowVars
  <2>2. UNCHANGED <<posted, worker, batch, enabled, allowed, capture, ended>>
    BY <1>3 DEF memVars, switchVars
  <2>3. TableType' /\ TakenInv' /\ PostedInv' /\ VoidInv' /\ OutboxIsBounded' /\ PendingIsAllowed'
    BY <2>1, <2>2 DEF IInv, TableInv, TableType, TakenInv, TakenOK, Taken, PostedInv, VoidInv, Sending,
                      OutboxIsBounded, PendingIsAllowed, Allowed, Allows
  <2>4. RowInv'
    <3>1. \A q \in Alerts : q <= revision => q <= r
      BY <1>0, <1>1 DEF Alerts
    <3> QED  BY <1>3, <2>1, <3>1 DEF IInv, TableInv, RowInv
  <2> QED  BY <2>3, <2>4 DEF TableInv
<1> QED  BY <1>0, <1>4, <1>5 DEF ObserveChange

(* The switches retire what they forbid.                                   *)
LEMMA SwitchTable ==
  ASSUME IInv, SwitchProject \/ SwitchAgent
  PROVE  TableInv' /\ PendingIsAllowed'
<1>0. row \in Tables /\ \A e \in Events : Fades(row[e], row[e])
  BY Staying DEF IInv
<1>1. /\ UNCHANGED <<posted, factVars>> /\ Taken' = Taken /\ \A e \in Events : Sending(e)' <=> Sending(e)
      /\ UNCHANGED capture
  BY DEF SwitchProject, SwitchAgent, memVars, Taken, Sending
<1>2. CASE SwitchProject
  <2> DEFINE rows == IF enabled /\ ~enabled' THEN Retire(row, Events, "muted") ELSE row
  <2>1. /\ rows \in Tables /\ \A e \in Events : Fades(row[e], rows[e])
        /\ (enabled /\ ~enabled') => \A e \in Events : rows[e].state # "pending"
    BY <1>0, Retiring DEF Retired
  <2>2. Write(rows) /\ row' = rows /\ UNCHANGED allowed
    BY <1>2 DEF SwitchProject, Write
  <2> HIDE DEF rows
  <2>3. TableInv'
    BY <1>1, <2>1, <2>2, Fading DEF IInv
  <2> QED  BY <1>1, <2>1, <2>2, <2>3, Pending DEF IInv, Allows
<1>3. CASE SwitchAgent
  <2> DEFINE S == {e \in Events : row[e].agent}
             rows == IF allowed /\ allowed' THEN row ELSE Retire(row, S, "muted")
  <2>1. /\ rows \in Tables /\ \A e \in Events : Fades(row[e], rows[e])
        /\ ~(allowed /\ allowed') => \A e \in S : rows[e].state # "pending"
    BY <1>0, Retiring DEF Retired
  <2>2. Write(rows) /\ row' = rows /\ UNCHANGED enabled
    BY <1>3 DEF SwitchAgent, Write
  <2> HIDE DEF rows
  <2>3. TableInv'
    BY <1>1, <2>1, <2>2, Fading DEF IInv
  <2> QED  BY <1>1, <2>1, <2>2, <2>3, Pending DEF IInv, Allows
<1> QED  BY <1>2, <1>3

(* So does the relay's refusal of a route, and the want of a key.          *)
LEMMA CaptureTable ==
  ASSUME IInv, NEW on \in BOOLEAN, SetCapture(on),
         UNCHANGED <<posted, factVars, enabled, allowed>>, Taken' \subseteq Taken,
         \A e \in Events : Sending(e)' => Sending(e)
  PROVE  TableInv' /\ PendingIsAllowed'
<1> DEFINE rows == IF on THEN row ELSE Retire(row, Events, "suppressed")
<1>0. row \in Tables /\ \A e \in Events : Fades(row[e], row[e])
  BY Staying DEF IInv
<1>1. /\ rows \in Tables /\ \A e \in Events : Fades(row[e], rows[e])
      /\ ~on => \A e \in Events : rows[e].state # "pending"
  BY <1>0, Retiring DEF Retired
<1>2. Write(rows) /\ row' = rows /\ capture' = on
  BY DEF SetCapture, Write
<1> HIDE DEF rows
<1>3. TableInv'
  BY <1>1, <1>2, Fading DEF IInv
<1> QED  BY <1>1, <1>2, <1>3, Pending DEF IInv, Allows

(* The pruning and the worker's own gate.                                  *)
LEMMA PruneTable ==
  ASSUME IInv, Prune
  PROVE  TableInv' /\ PendingIsAllowed'
<1> DEFINE old == {e \in Events : row[e].age = Week}
<1>1. Pruned(old) \in Tables /\ \A e \in Events : Fades(row[e], Pruned(old)[e])
  BY Pruning DEF IInv, TableInv, TableType
<1>2. Write(Pruned(old)) /\ row' = Pruned(old)
  BY DEF Prune, Write
<1>3. /\ UNCHANGED <<posted, factVars, enabled, allowed, capture, batch>>
      /\ worker' = [worker EXCEPT !.pc = IF key THEN "observe" ELSE "disable"]
  BY DEF Prune, Goto, switchVars
<1>4. worker'.pc \in {"observe", "disable"}
  BY <1>3 DEF IInv, MemType
<1>5. Taken' \subseteq Taken /\ \A e \in Events : ~Sending(e)'
  BY <1>3, <1>4 DEF Taken, Carrying, Unsent, Sending
<1> HIDE DEF old
<1>6. TableInv'
  BY <1>1, <1>2, <1>3, <1>5, Fading DEF IInv
<1> QED  BY <1>1, <1>2, <1>3, <1>6, Pending DEF IInv, Allows

(* The worker's last check retires what may not be sent, or lets it pass.  *)
LEMMA GateTable ==
  ASSUME IInv, Gate
  PROVE  TableInv' /\ PendingIsAllowed'
<1> DEFINE rows == IF Allowed(Now) THEN row ELSE Retire(row, {Now}, "muted")
           passes == Allowed(Now) /\ row[Now].state = "pending"
<1>0. row \in Tables /\ \A e \in Events : Fades(row[e], row[e])
  BY Staying DEF IInv
<1>1. rows \in Tables /\ \A e \in Events : Fades(row[e], rows[e])
  BY <1>0, Retiring DEF Retired
<1>2. /\ Write(rows) /\ row' = rows /\ UNCHANGED <<posted, factVars, enabled, allowed, capture, batch>>
      /\ IF passes THEN Goto("post") ELSE Done
      /\ worker.pc = "gate"
  BY DEF Gate, Write, switchVars, At
<1>3. passes => rows = row
  OBVIOUS
<1> HIDE DEF rows
<1>4. CASE passes
  <2>1. worker'.pc = "post" /\ worker'.n = worker.n
    BY <1>2, <1>4 DEF Goto, IInv, MemType
  <2>2. Taken' \subseteq Taken /\ \A e \in Events : Sending(e)' => rows[e].state = "pending"
    BY <1>2, <1>3, <1>4, <2>1 DEF Taken, Carrying, Unsent, Sending, Now
  <2>3. TableInv'
    BY <1>1, <1>2, <2>2, Fading DEF IInv
  <2> QED  BY <1>1, <1>2, <2>3, Pending DEF IInv, Allows
<1>5. CASE ~passes
  <2>1. worker'.pc = "next"
    BY <1>2, <1>5 DEF Done, Idle
  <2>2. Taken' \subseteq Taken /\ \A e \in Events : ~Sending(e)'
    BY <1>2, <2>1 DEF Taken, Carrying, Unsent, Sending
  <2>3. TableInv'
    BY <1>1, <1>2, <2>2, Fading DEF IInv
  <2> QED  BY <1>1, <1>2, <2>3, Pending DEF IInv, Allows
<1> QED  BY <1>4, <1>5

(* Outcomes and tries.                                                     *)
LEMMA UpdateTable ==
  ASSUME IInv, worker.pc \in Carrying, Done, UNCHANGED <<batch, posted, factVars, switchVars>>,
         NEW s \in Retired \cup {"failed", "submitted", "delivered", "pending"}, Write(Update(Now, s)),
         s \in {"submitted", "delivered"} => worker.n.state = "submitted",
         s = "pending" => worker.n.state = "pending"
  PROVE  TableInv' /\ PendingIsAllowed'
<1> DEFINE rows == Update(Now, s)
<1>0. Now \in Events /\ row \in Tables /\ s \in Queued \cup Retired \cup Settled
  BY DEF IInv, HandInv, Snapshot, TableInv, TableType, Now, Queued, Settled
<1>1. /\ rows \in Tables /\ \A e \in Events : e # Now => rows[e] = row[e]
      /\ \/ row[Now].state \notin Queued /\ rows[Now] = row[Now]
         \/ /\ row[Now].state \in Queued /\ rows[Now].state = s
            /\ rows[Now].payload = row[Now].payload
            /\ rows[Now].receipt = row[Now].receipt
            /\ rows[Now].agent = row[Now].agent
  BY <1>0, Updating
<1>2. TakenOK(worker.n) /\ worker.n.state \in Queued
  BY DEF IInv, TableInv, TakenInv, Taken, HandInv, Snapshot
<1>3. /\ worker.n.state = "pending" => row[Now].state # "submitted" /\ ~row[Now].receipt
      /\ worker.n.state = "submitted" => row[Now].receipt \/ row[Now].state = "gone"
  BY <1>2 DEF TakenOK, Now
<1> HIDE DEF rows
<1>4. CASE row[Now].state \notin Queued /\ rows[Now] = row[Now]
  BY <1>1, <1>4, Settling DEF IInv, rows
<1>5. CASE /\ row[Now].state \in Queued /\ rows[Now].state = s
           /\ rows[Now].payload = row[Now].payload
           /\ rows[Now].receipt = row[Now].receipt
           /\ rows[Now].agent = row[Now].agent
  <2>1. row[Now].state \notin Absent /\ rows[Now].state \notin Absent
    BY <1>5 DEF Queued, Absent, Retired
  <2>2. rows[Now].state = "pending" => row[Now].state = "pending" /\ ~rows[Now].receipt
    BY <1>3, <1>5 DEF Queued
  <2>3. rows[Now].state \in {"submitted", "delivered"} => rows[Now].receipt
    BY <1>3, <1>5 DEF Queued
  <2>4. Write(rows)
    BY DEF rows
  <2> QED  BY <1>1, <1>5, <2>1, <2>2, <2>3, <2>4, Settling DEF IInv
<1> QED  BY <1>1, <1>4, <1>5

(* The outcomes the worker writes fit what it has in hand.                 *)
LEMMA SettleTable ==
  ASSUME IInv, Mute \/ Follow \/ Refused \/ Retry
  PROVE  TableInv' /\ PendingIsAllowed'
<1>1. Done /\ UNCHANGED <<batch, posted, factVars, switchVars>> /\ worker.pc \in Carrying
  BY DEF Mute, Follow, Refused, Retry, At, Carrying, Unsent
<1>2. CASE Mute
  <2>1. Write(Update(Now, "muted"))
    BY <1>2 DEF Mute
  <2> QED  BY <1>1, <2>1, UpdateTable DEF Retired
<1>3. CASE Follow
  <2>1. PICK s : s = worker.reply
    OBVIOUS
  <2>2. /\ Write(Update(Now, s)) /\ worker.n.state = "submitted" /\ worker.pc = "answer" /\ s # "unclear"
        /\ s # "none" /\ s # "refused"
    BY <1>3, <2>1 DEF Follow, At, IInv, HandInv
  <2>3. s \in {"delivered", "failed", "submitted"}
    BY <2>1, <2>2 DEF IInv, MemType, Settled
  <2> QED  BY <1>1, <2>2, <2>3, UpdateTable
<1>4. CASE Refused
  <2>1. Write(Update(Now, "failed"))
    BY <1>4 DEF Refused
  <2> QED  BY <1>1, <2>1, UpdateTable
<1>5. CASE Retry
  <2>1. PICK s : s = worker.n.state
    OBVIOUS
  <2>2. Write(Update(Now, s))
    BY <1>5, <2>1 DEF Retry
  <2>3. s \in {"pending", "submitted"}
    BY <1>1, <2>1 DEF IInv, HandInv, Snapshot, Queued
  <2> QED  BY <1>1, <2>1, <2>2, <2>3, UpdateTable
<1> QED  BY <1>2, <1>3, <1>4, <1>5

(* A receipt is recorded, for a row that was muted meanwhile too.          *)
LEMMA RecordTable ==
  ASSUME IInv, Record
  PROVE  TableInv' /\ PendingIsAllowed'
<1> DEFINE r == [row[Now] EXCEPT !.state = worker.reply, !.receipt = TRUE, !.due = FALSE]
           counts == ~row[Now].receipt /\ row[Now].state \in {"pending", "muted", "suppressed"}
           rows == IF counts THEN [row EXCEPT ![Now] = r] ELSE row
<1>0. /\ worker.pc \in Carrying /\ Done /\ UNCHANGED <<batch, posted, factVars, switchVars>>
      /\ Now \in Events /\ row \in Tables /\ row[Now] \in RowType
      /\ worker.reply \in {"delivered", "failed", "submitted"} /\ Sending(Now)
  BY DEF Record, At, Carrying, IInv, HandInv, Snapshot, TableInv, TableType, Tables, Now, Settled, Sending
<1>1. r \in RowType /\ r.state = worker.reply /\ r.receipt /\ r.payload = row[Now].payload
  BY <1>0 DEF RowType, Queued, Settled
<1>2. Write(rows)
  BY DEF Record
<1> HIDE DEF r
<1>3. /\ rows \in Tables /\ \A e \in Events : e # Now => rows[e] = row[e]
      /\ rows[Now] = IF counts THEN r ELSE row[Now]
  BY <1>0, <1>1 DEF Tables
<1> HIDE DEF rows
<1>4. CASE counts
  <2>1. rows[Now].state \in {"delivered", "failed", "submitted"} /\ row[Now].state \notin Absent
    BY <1>0, <1>1, <1>3, <1>4 DEF Absent
  <2>2. rows[Now].state # "pending" /\ rows[Now].state \notin Absent
    BY <2>1 DEF Absent
  <2> QED  BY <1>0, <1>1, <1>2, <1>3, <1>4, <2>1, <2>2, Settling DEF IInv
<1>5. CASE ~counts
  BY <1>0, <1>2, <1>3, <1>5, Settling DEF IInv
<1> QED  BY <1>4, <1>5

(* The worker goes on, or stops, and writes nothing.                       *)
LEMMA WorkTable ==
  ASSUME IInv, EditSecrets \/ ObserveDone \/ Take \/ SweepEnds \/ Look \/ Reread \/ AskReceipt
               \/ Unclear \/ Released
  PROVE  TableInv' /\ PendingIsAllowed'
<1>1. UNCHANGED <<rowVars, posted, factVars>> /\ UNCHANGED <<enabled, allowed, capture>>
  BY DEF EditSecrets, ObserveDone, Take, SweepEnds, Look, Reread, AskReceipt, Unclear, Released, switchVars
<1>2. Taken' \subseteq Taken /\ \A e \in Events : Sending(e)' => Sending(e)
  <2>1. CASE EditSecrets \/ Released
    BY <2>1 DEF EditSecrets, Released, memVars, Taken, Sending
  <2>2. CASE Take
    <3>1. PICK n \in batch : batch' = batch \ {n} /\ worker'.n = n /\ worker'.pc \in {"receipt", "look"}
      BY <2>2 DEF Take
    <3> QED  BY <3>1 DEF Taken, Sending
  <2>3. CASE SweepEnds \/ (ObserveDone /\ worker' = Idle)
    <3>1. worker'.pc = "idle" /\ batch' \subseteq batch
      BY <2>3 DEF SweepEnds, ObserveDone, Idle
    <3> QED  BY <3>1 DEF Taken, Sending, Carrying, Unsent
  <2>4. CASE ObserveDone /\ worker' # Idle
    <3>1. worker'.pc = "route" /\ batch' = batch
      BY <2>4 DEF ObserveDone, Goto, IInv, MemType
    <3> QED  BY <3>1 DEF Taken, Sending, Carrying, Unsent
  <2>5. CASE Look \/ Reread \/ Unclear
    <3>1. /\ worker'.pc \notin {"post", "answer"} /\ worker'.n = worker.n /\ batch' = batch
          /\ worker.pc \in Carrying
      BY <2>5 DEF Look, Reread, Unclear, Goto, At, Carrying, Unsent, IInv, MemType
    <3> QED  BY <3>1 DEF Taken, Sending
  <2>6. CASE AskReceipt
    <3>1. /\ worker'.n = worker.n /\ batch' = batch /\ worker.pc = "receipt"
      BY <2>6 DEF AskReceipt, At, IInv, MemType
    <3>2. worker.n.state = "submitted" /\ worker.pc \in Carrying
      BY <3>1 DEF IInv, HandInv, Carrying
    <3> QED  BY <3>1, <3>2 DEF Taken, Sending
  <2> QED  BY <2>1, <2>2, <2>3, <2>4, <2>5, <2>6
<1> QED  BY <1>1, <1>2, Elsewhere DEF IInv

(* The route is asked, and capture follows the answer.                     *)
LEMMA RouteTable ==
  ASSUME IInv, AskRoute \/ CheckRoute
  PROVE  TableInv' /\ PendingIsAllowed'
<1>1. /\ UNCHANGED <<posted, factVars, enabled, allowed, batch>>
      /\ \/ SetCapture(TRUE) \/ SetCapture(FALSE)
         \/ UNCHANGED <<rowVars, capture>>
  BY DEF AskRoute, CheckRoute, RouteGood, RouteGone, RouteUnknown
<1>2. /\ worker'.n = worker.n /\ worker'.pc \notin {"post", "answer"}
      /\ worker'.pc \in Carrying => worker.pc \in Carrying
  BY DEF AskRoute, CheckRoute, RouteGood, RouteGone, RouteUnknown, Goto, At, IInv, MemType, Carrying, Unsent
<1>3. Taken' \subseteq Taken /\ \A e \in Events : ~Sending(e)'
  BY <1>1, <1>2 DEF Taken, Sending
<1> QED  BY <1>1, <1>3, CaptureTable, Elsewhere DEF IInv

(* A sweep without a key and a restart stop the worker.                    *)
LEMMA StopTable ==
  ASSUME IInv, Disable \/ Restart
  PROVE  TableInv' /\ PendingIsAllowed'
<1>1. /\ UNCHANGED <<posted, factVars, enabled, allowed>> /\ batch' \subseteq batch /\ worker'.pc = "idle"
      /\ SetCapture(FALSE) \/ UNCHANGED <<rowVars, capture>>
  <2>1. CASE Disable
    BY <2>1 DEF Disable, Idle
  <2>2. CASE Restart /\ key'
    BY <2>2 DEF Restart, Idle
  <2>3. CASE Restart /\ ~key'
    BY <2>3 DEF Restart, Idle
  <2> QED  BY <2>1, <2>2, <2>3
<1>2. Taken' \subseteq Taken /\ \A e \in Events : ~Sending(e)'
  BY <1>1 DEF Taken, Sending, Carrying, Unsent
<1> QED  BY <1>1, <1>2, CaptureTable, Elsewhere DEF IInv

(* Time changes when a row is due and how old it is.                       *)
LEMMA TimeTable ==
  ASSUME IInv, NEW e \in Events, ComesDue(e) \/ Ages(e)
  PROVE  TableInv' /\ PendingIsAllowed'
<1>1. PICK r \in RowType :
        /\ row' = [row EXCEPT ![e] = r]
        /\ r.state = row[e].state /\ r.payload = row[e].payload
        /\ r.receipt = row[e].receipt /\ r.agent = row[e].agent
  <2>0. row \in Tables /\ row[e] \in RowType
    BY DEF IInv, TableInv, TableType, Tables
  <2>1. CASE ComesDue(e)
    <3> DEFINE r == [row[e] EXCEPT !.due = TRUE]
    <3>1. row' = [row EXCEPT ![e] = r]
      BY <2>1 DEF ComesDue
    <3>2. /\ r \in RowType /\ r.state = row[e].state /\ r.payload = row[e].payload
          /\ r.receipt = row[e].receipt /\ r.agent = row[e].agent
      BY <2>0 DEF RowType
    <3> HIDE DEF r
    <3> QED  BY <3>1, <3>2
  <2>2. CASE Ages(e)
    <3> DEFINE r == [row[e] EXCEPT !.age = @ + 1]
    <3>1. row' = [row EXCEPT ![e] = r]
      BY <2>2 DEF Ages
    <3>2. row[e].age + 1 \in 0 .. Week
      BY <2>0, <2>2 DEF Ages, RowType, Week
    <3>3. /\ r \in RowType /\ r.state = row[e].state /\ r.payload = row[e].payload
          /\ r.receipt = row[e].receipt /\ r.agent = row[e].agent
      BY <2>0, <3>2 DEF RowType
    <3> HIDE DEF r
    <3> QED  BY <3>1, <3>3
  <2> QED  BY <2>1, <2>2
<1>2. /\ row \in Tables /\ row' \in Tables
      /\ \A f \in Events : /\ f # e => row'[f] = row[f]
                           /\ row'[f].state = row[f].state /\ row'[f].payload = row[f].payload
                           /\ row'[f].receipt = row[f].receipt /\ row'[f].agent = row[f].agent
  BY <1>1 DEF IInv, TableInv, TableType, Tables
<1>3. row[e].state # "none"
  BY DEF ComesDue, Ages, Queued, Present
<1>4. /\ UNCHANGED <<void, posted, worker, batch, ended, revision, enabled, allowed, capture>>
  BY DEF ComesDue, Ages, memVars, factVars, switchVars
<1>5. TableType'
  BY <1>2, <1>4 DEF IInv, TableInv, TableType
<1>6. RowInv'
  BY <1>2, <1>3, <1>4 DEF IInv, TableInv, RowInv, Events
<1>7. TakenInv'
  <2>1. Taken' = Taken /\ \A n \in Taken : n.event \in Events
    BY <1>4, TakenType DEF IInv, Taken
  <2> QED  BY <1>2, <1>4, <2>1 DEF IInv, TableInv, TakenInv, TakenOK
<1>8. PostedInv' /\ VoidInv'
  BY <1>2, <1>4 DEF IInv, TableInv, TableType, PostedInv, VoidInv, Sending
<1>9. OutboxIsBounded'
  BY <1>2, NoNewRow DEF IInv, TableInv
<1>10. PendingIsAllowed'
  BY <1>2, <1>4 DEF IInv, PendingIsAllowed, Allowed, Allows
<1> QED  BY <1>5, <1>6, <1>7, <1>8, <1>9, <1>10 DEF TableInv

(* What is due is read.                                                    *)
LEMMA DueTable ==
  ASSUME IInv, Due
  PROVE  TableInv' /\ PendingIsAllowed'
<1>1. /\ UNCHANGED <<row, void, posted, ended, revision, enabled, allowed, capture>>
      /\ worker'.pc = "first"
  BY DEF Due, rowVars, factVars, switchVars, Goto, IInv, MemType
<1>2. ASSUME NEW n \in Taken'
      PROVE  TakenOK(n)
  <2>1. n \in batch'
    BY <1>1 DEF Taken, Carrying, Unsent
  <2>2. PICK e \in Events : row[e].state \in Queued
                            /\ n = [event |-> e, state |-> row[e].state, payload |-> row[e].payload]
    BY <2>1 DEF Due
  <2>3. n.event = e /\ n.state = row[e].state /\ n.payload = row[e].payload
    BY <2>2
  <2>4. posted[e] \subseteq {row[e].payload} \ {0}
    BY <2>2 DEF IInv, TableInv, PostedInv, Queued
  <2>5. /\ row[e].state = "pending" => ~row[e].receipt
        /\ row[e].state = "submitted" => row[e].receipt
    BY DEF IInv, TableInv, TableType, RowInv
  <2> QED  BY <2>2, <2>3, <2>4, <2>5 DEF TakenOK, Queued
<1>3. TakenInv'
  BY <1>1, <1>2 DEF TakenInv, TakenOK
<1>4. VoidInv'
  BY <1>1 DEF IInv, TableInv, VoidInv, Sending
<1>5. TableType' /\ RowInv' /\ PostedInv' /\ OutboxIsBounded' /\ PendingIsAllowed'
  BY <1>1 DEF IInv, TableInv, TableType, RowInv, PostedInv, OutboxIsBounded, PendingIsAllowed, Allowed, Allows
<1> QED  BY <1>3, <1>4, <1>5 DEF TableInv

(* The text is made, for the row and for the worker.                       *)
LEMMA ComposeTable ==
  ASSUME IInv, Compose
  PROVE  TableInv' /\ PendingIsAllowed'
<1> DEFINE n == worker.n
           r == [row[Now] EXCEPT !.payload = secrets]
           rows == IF row[Now].payload = 0 /\ row[Now].state # "gone" THEN [row EXCEPT ![Now] = r] ELSE row
<1>0. /\ worker.pc = "compose" /\ n \in Snapshot /\ n.payload = 0 /\ Now = n.event /\ Now \in Events
      /\ row \in Tables /\ row[Now] \in RowType /\ secrets \in 0 .. MaxSecrets /\ secrets # 0
  BY OutboxConstants DEF Compose, At, IInv, HandInv, Carrying, Unsent, TableInv, TableType, Tables, MemType, Now, Snapshot
<1>1. /\ worker'.pc = "check" /\ worker'.n.event = n.event /\ worker'.n.state = n.state
      /\ worker'.n.payload = secrets
  <2> DEFINE m == [n EXCEPT !.payload = secrets]
  <2>1. m.event = n.event /\ m.state = n.state /\ m.payload = secrets
    BY <1>0 DEF Snapshot
  <2>2. worker' = [worker EXCEPT !.pc = "check", !.n = m]
    BY DEF Compose
  <2> HIDE DEF m
  <2>3. worker'.pc = "check" /\ worker'.n = m
    BY <2>2 DEF IInv, MemType
  <2> QED  BY <2>1, <2>3
<1>2. /\ UNCHANGED <<batch, posted, ended, revision, enabled, allowed, capture, secrets>>
      /\ Write(rows) /\ row' = rows
  BY DEF Compose, factVars, switchVars, Write
<1>3. /\ r \in RowType /\ r.state = row[Now].state /\ r.payload = secrets
      /\ r.receipt = row[Now].receipt /\ r.agent = row[Now].agent
  BY <1>0 DEF RowType
<1> HIDE DEF r
<1>4. n \in Taken /\ TakenOK(n)
  BY <1>0 DEF IInv, TableInv, TakenInv, Taken, Carrying, Unsent
<1>5. /\ row[Now].state # "none" /\ posted[Now] = {}
      /\ row[Now].state # "gone" => row[Now].payload = 0
  BY <1>0, <1>4 DEF TakenOK
<1>6. /\ rows \in Tables /\ \A f \in Events : f # Now => rows[f] = row[f]
      /\ rows[Now].state = row[Now].state /\ rows[Now].receipt = row[Now].receipt
      /\ rows[Now].agent = row[Now].agent
      /\ row[Now].state # "gone" => rows[Now].payload = secrets
  BY <1>0, <1>3, <1>5 DEF Tables
<1> HIDE DEF rows, n
<1>7. \A f \in Events : /\ row'[f].state = row[f].state /\ row'[f].receipt = row[f].receipt
                        /\ row'[f].agent = row[f].agent
                        /\ f # Now => row'[f] = row[f]
  BY <1>2, <1>6
<1>8. void' = void
  BY <1>2, <1>6 DEF Write, Retired
<1>9. TableType'
  BY <1>2, <1>6, <1>7, <1>8 DEF IInv, TableInv, TableType
<1>10. RowInv'
  BY <1>2, <1>5, <1>7 DEF IInv, TableInv, RowInv, Events
<1>11. TakenInv'
  <2>1. ASSUME NEW m \in batch
        PROVE  TakenOK(m)'
    <3>1. m \in Taken /\ m.event \in Events /\ m.event # Now
      BY <1>0, <2>1, TakenType DEF IInv, HandInv, Taken, Carrying, Unsent, Now
    <3> QED  BY <1>2, <1>7, <3>1 DEF IInv, TableInv, TakenInv, TakenOK
  <2>2. TakenOK(n)
    BY <1>4
  <2>3. PICK m : m = worker'.n
    OBVIOUS
  <2>4. TakenOK(m)'
    <3>1. m.event = Now /\ m.state = n.state /\ m.payload = secrets /\ posted'[Now] = {}
      BY <1>0, <1>1, <1>2, <1>5, <2>3
    <3> QED  BY <1>0, <1>2, <1>5, <1>6, <1>7, <2>2, <3>1 DEF TakenOK
  <2>5. Taken' \subseteq batch \cup {m}
    BY <1>2, <2>3 DEF Taken
  <2> QED  BY <2>1, <2>4, <2>5 DEF TakenInv
<1>12. PostedInv'
  BY <1>2, <1>5, <1>7 DEF IInv, TableInv, PostedInv
<1>13. VoidInv'
  BY <1>1, <1>7, <1>8 DEF IInv, TableInv, TableType, VoidInv, Sending
<1>14. OutboxIsBounded'
  BY <1>7, NoNewRow DEF IInv, TableInv
<1>15. PendingIsAllowed'
  BY <1>2, <1>7 DEF IInv, PendingIsAllowed, Allowed, Allows
<1> QED  BY <1>9, <1>10, <1>11, <1>12, <1>13, <1>14, <1>15 DEF TableInv

(* It is sent.                                                             *)
LEMMA PostTable ==
  ASSUME IInv, Post
  PROVE  TableInv' /\ PendingIsAllowed'
<1> PICK n : n = worker.n
  OBVIOUS
<1>0. /\ worker.pc = "post" /\ n \in Snapshot /\ n.payload \in 0 .. MaxSecrets /\ n.payload # 0
      /\ Now = n.event /\ Now \in Events /\ n \in Taken
  BY DEF Post, At, IInv, HandInv, Carrying, Unsent, Now, Snapshot, Taken
<1>1. /\ UNCHANGED <<row, void, batch, ended, revision, enabled, allowed, capture>>
      /\ worker'.pc = "answer" /\ worker'.n = n
      /\ posted' = [posted EXCEPT ![Now] = @ \cup {n.payload}]
  BY DEF Post, rowVars, factVars, switchVars, IInv, MemType
<1>2. TakenOK(n)
  BY <1>0 DEF IInv, TableInv, TakenInv
<1>3. /\ posted'[Now] = posted[Now] \cup {n.payload} /\ \A e \in Events : e # Now => posted'[e] = posted[e]
  BY <1>0, <1>1 DEF IInv, MemType
<1>4. posted'[Now] \subseteq {n.payload} \ {0}
  BY <1>0, <1>2, <1>3 DEF TakenOK
<1>5. TakenInv'
  <2>1. TakenOK(n)'
    BY <1>0, <1>1, <1>2, <1>4 DEF TakenOK
  <2>2. ASSUME NEW m \in batch
        PROVE  TakenOK(m)'
    <3>1. m \in Taken /\ m.event \in Events /\ m.event # Now
      BY <1>0, <2>2, TakenType DEF IInv, HandInv, Taken, Carrying, Unsent, Now
    <3> QED  BY <1>1, <1>3, <3>1 DEF IInv, TableInv, TakenInv, TakenOK
  <2>3. Taken' \subseteq batch \cup {n}
    BY <1>1 DEF Taken
  <2> QED  BY <2>1, <2>2, <2>3 DEF TakenInv
<1>6. PostedInv'
  <2>1. row[Now].state # "gone" => row[Now].payload = n.payload
    BY <1>0, <1>2 DEF TakenOK
  <2> QED  BY <1>0, <1>1, <1>3, <1>4, <2>1 DEF IInv, TableInv, PostedInv
<1>7. VoidInv'
  BY <1>0, <1>1 DEF IInv, TableInv, VoidInv, Sending
<1>8. TableType' /\ RowInv' /\ OutboxIsBounded' /\ PendingIsAllowed'
  BY <1>1 DEF IInv, TableInv, TableType, RowInv, OutboxIsBounded, PendingIsAllowed, Allowed, Allows
<1> QED  BY <1>5, <1>6, <1>7, <1>8 DEF TableInv

(* Every step, then, keeps what is known of the table.                     *)
LEMMA TableStep == IInv /\ [Next]_vars => TableInv' /\ PendingIsAllowed'
<1> SUFFICES ASSUME IInv, [Next]_vars
             PROVE  TableInv' /\ PendingIsAllowed'
  OBVIOUS
<1>1. CASE UNCHANGED vars
  BY <1>1, Elsewhere DEF vars, IInv, memVars, switchVars, Taken, Sending
<1>2. ASSUME NEW b \in Builds, Outcome(b)
      PROVE  TableInv' /\ PendingIsAllowed'
  BY <1>2, OutcomeTable
<1>3. CASE SwitchProject \/ SwitchAgent
  BY <1>3, SwitchTable
<1>4. CASE WorkerNext
  BY <1>4, PruneTable, StopTable, ObserveTable, WorkTable, RouteTable, DueTable, SettleTable, ComposeTable,
     GateTable, PostTable, RecordTable DEF WorkerNext
<1>5. ASSUME NEW e \in Events, ComesDue(e) \/ Ages(e)
      PROVE  TableInv' /\ PendingIsAllowed'
  BY <1>5, TimeTable
<1>6. CASE EditSecrets \/ Released
  BY <1>6, WorkTable
<1>7. CASE Restart
  BY <1>7, StopTable
<1> QED  BY <1>1, <1>2, <1>3, <1>4, <1>5, <1>6, <1>7 DEF Next

-------------------------------------------------------------------------------
(* The steps, on the worker and the rest                                   *)

WorkerType == [pc : Steps, n : Snapshot \cup {None},
               reply : Settled \cup {"none", "submitted", "refused", "unclear"}]

(* The worker idles, goes on with what it has, and puts it down.           *)
LEMMA Moves ==
  ASSUME worker \in WorkerType
  PROVE  /\ Idle \in WorkerType /\ Idle.pc = "idle"
         /\ [Idle EXCEPT !.pc = "next"] \in WorkerType /\ [Idle EXCEPT !.pc = "next"].pc = "next"
         /\ \A pc \in Steps : /\ [worker EXCEPT !.pc = pc] \in WorkerType
                              /\ [worker EXCEPT !.pc = pc].pc = pc
                              /\ [worker EXCEPT !.pc = pc].n = worker.n
<1>1. Idle \in WorkerType /\ Idle.pc = "idle"
  BY DEF Idle, WorkerType, Steps
<1>2. [Idle EXCEPT !.pc = "next"] \in WorkerType /\ [Idle EXCEPT !.pc = "next"].pc = "next"
  BY <1>1 DEF WorkerType, Steps
<1>3. ASSUME NEW pc \in Steps
      PROVE  /\ [worker EXCEPT !.pc = pc] \in WorkerType
             /\ [worker EXCEPT !.pc = pc].pc = pc
             /\ [worker EXCEPT !.pc = pc].n = worker.n
  BY DEF WorkerType
<1> QED  BY <1>1, <1>2, <1>3

(* The worker's hand is empty.                                             *)
LEMMA EmptyHand ==
  ASSUME HandInv, worker'.pc \notin Carrying, batch' \subseteq batch
  PROVE  HandInv'
BY DEF HandInv, Carrying, Unsent

(* Or it holds what it held, and that fits the step.                       *)
LEMMA SameHand ==
  ASSUME HandInv, worker.pc \in Carrying, worker'.n = worker.n, batch' = batch,
         worker'.pc \in Unsent => worker.n.state = "pending",
         worker'.pc # "receipt",
         worker'.pc = "answer" => worker'.reply # "none"
                                  /\ (worker.n.state = "submitted" => worker'.reply # "refused"),
         worker'.pc = "compose" => worker.n.payload = 0,
         worker'.pc \in {"check", "reread", "gate", "post"} => worker.n.payload # 0
  PROVE  HandInv'
BY DEF HandInv, Carrying

(* The type of the worker and what is in its hand.                         *)
LEMMA HandStep ==
  ASSUME IInv, [Next]_vars
  PROVE  worker' \in WorkerType /\ batch' \subseteq Snapshot /\ HandInv'
<1>0. worker \in WorkerType /\ batch \subseteq Snapshot /\ HandInv
  BY DEF IInv, MemType, WorkerType
<1>1. CASE UNCHANGED <<worker, batch>>
  BY <1>0, <1>1 DEF HandInv
<1>2. CASE /\ \/ worker' = Idle \/ Done
              \/ \E pc \in Steps \ Carrying : worker' = [worker EXCEPT !.pc = pc]
           /\ batch' \subseteq batch
  <2>1. worker' \in WorkerType /\ worker'.pc \notin Carrying
    BY <1>0, <1>2, Moves DEF Done, Carrying, Unsent
  <2> QED  BY <1>0, <1>2, <2>1, EmptyHand
<1>3. CASE Due
  <2>1. worker' = [worker EXCEPT !.pc = "first"]
    BY <1>3 DEF Due, Goto
  <2>2. worker' \in WorkerType /\ worker'.pc = "first"
    BY <1>0, <2>1, Moves DEF Steps
  <2>3. batch' \subseteq Snapshot
    <3>1. ASSUME NEW e \in Events, row[e].state \in Queued
          PROVE  [event |-> e, state |-> row[e].state, payload |-> row[e].payload] \in Snapshot
      BY <3>1 DEF IInv, TableInv, TableType, Tables, RowType, Snapshot
    <3> QED  BY <1>3, <3>1 DEF Due
  <2>4. \A n, m \in batch' : n.event = m.event => n = m
    <3>1. ASSUME NEW n \in batch'
          PROVE  n = [event |-> n.event, state |-> row[n.event].state, payload |-> row[n.event].payload]
      BY <1>3 DEF Due
    <3> QED  BY <3>1
  <2> QED  BY <2>2, <2>3, <2>4 DEF HandInv, Carrying, Unsent
<1>4. CASE Take
  <2>1. PICK n \in batch :
          /\ batch' = batch \ {n}
          /\ worker' = [pc |-> IF n.state = "submitted" THEN "receipt" ELSE "look", n |-> n, reply |-> "none"]
    BY <1>4 DEF Take
  <2>2. n \in Snapshot /\ n.state \in Queued
    BY <1>0 DEF Snapshot
  <2>3. /\ worker' \in WorkerType /\ worker'.n = n
        /\ \/ worker'.pc = "receipt" /\ n.state = "submitted"
           \/ worker'.pc = "look" /\ n.state = "pending"
    BY <2>1, <2>2 DEF WorkerType, Steps, Queued
  <2> QED  BY <1>0, <2>1, <2>2, <2>3 DEF HandInv, Carrying, Unsent
<1>5. CASE Look \/ Reread \/ Gate \/ CheckRoute
  <2>1. PICK pc \in Steps \ {"receipt", "answer"} :
          /\ \/ worker' = [worker EXCEPT !.pc = pc]
             \/ Done
          /\ worker.pc \in Unsent /\ batch' = batch
          /\ pc = "compose" => worker.n.payload = 0
          /\ pc \in {"check", "reread", "gate", "post"} => worker.n.payload # 0
    <3>1. CASE Look
      BY <3>1 DEF Look, Goto, At, Unsent, Steps
    <3>2. CASE Reread
      BY <1>0, <3>2 DEF Reread, Goto, At, Unsent, Steps, HandInv
    <3>3. CASE Gate
      BY <1>0, <3>3 DEF Gate, Goto, Done, At, Unsent, Steps, HandInv
    <3>4. CASE CheckRoute
      BY <1>0, <3>4 DEF CheckRoute, RouteGood, RouteGone, RouteUnknown, Goto, At, Unsent, Steps, HandInv
    <3> QED  BY <1>5, <3>1, <3>2, <3>3, <3>4
  <2>2. CASE Done
    BY <1>2, <2>1, <2>2
  <2>3. CASE worker' = [worker EXCEPT !.pc = pc]
    <3>1. worker' \in WorkerType /\ worker'.pc = pc /\ worker'.n = worker.n
      BY <1>0, <2>3, Moves
    <3> QED  BY <1>0, <2>1, <3>1, SameHand DEF HandInv, Carrying
  <2> QED  BY <2>1, <2>2, <2>3
<1>6. CASE Compose
  <2> DEFINE m == [worker.n EXCEPT !.payload = secrets]
  <2>1. /\ worker.pc = "compose" /\ worker.n \in Snapshot /\ worker.n.state = "pending"
        /\ secrets \in 0 .. MaxSecrets /\ secrets # 0 /\ batch' = batch
    BY <1>0, <1>6, OutboxConstants DEF Compose, At, HandInv, Carrying, Unsent, IInv, MemType
  <2>2. m \in Snapshot /\ m.event = worker.n.event /\ m.state = "pending" /\ m.payload = secrets
    BY <2>1 DEF Snapshot
  <2>3. worker' = [worker EXCEPT !.pc = "check", !.n = m]
    BY <1>6 DEF Compose
  <2> HIDE DEF m
  <2>4. worker' \in WorkerType /\ worker'.pc = "check" /\ worker'.n = m
    BY <1>0, <2>2, <2>3 DEF WorkerType, Steps
  <2> QED  BY <1>0, <2>1, <2>2, <2>4 DEF HandInv, Carrying, Unsent
<1>7. CASE Post \/ AskReceipt \/ Unclear
  <2>1. PICK pc \in {"answer", "retry"}, reply \in Settled \cup {"none", "submitted", "refused", "unclear"} :
          /\ worker' = [worker EXCEPT !.pc = pc, !.reply = reply]
          /\ worker.pc \in Carrying /\ batch' = batch
          /\ pc = "answer" => reply # "none" /\ (worker.n.state = "submitted" => reply # "refused")
    <3>1. CASE Post
      <4>1. worker.pc = "post" /\ worker.n.state = "pending" /\ worker.pc \in Carrying
        BY <1>0, <3>1 DEF Post, At, HandInv, Unsent, Carrying
      <4> QED  BY <3>1, <4>1 DEF Post, Settled
    <3>2. CASE AskReceipt
      <4>1. worker.pc \in Carrying
        BY <3>2 DEF AskReceipt, At, Carrying
      <4> QED  BY <3>2, <4>1 DEF AskReceipt, Settled
    <3>3. CASE Unclear
      BY <3>3 DEF Unclear, At, Carrying
    <3> QED  BY <1>7, <3>1, <3>2, <3>3
  <2>2. worker' \in WorkerType /\ worker'.pc = pc /\ worker'.n = worker.n /\ worker'.reply = reply
    BY <1>0, <2>1 DEF WorkerType, Steps
  <2> QED  BY <1>0, <2>1, <2>2, SameHand DEF Unsent
<1>8. CASE Prune \/ ObserveDone \/ AskRoute
  <2>1. \E pc \in Steps \ Carrying : worker' = [worker EXCEPT !.pc = pc] \/ worker' = Idle
    <3>1. {"observe", "disable", "route", "due"} \subseteq Steps \ Carrying
      BY DEF Steps, Carrying, Unsent
    <3> QED  BY <1>8, <3>1 DEF Prune, ObserveDone, AskRoute, RouteGood, RouteGone, RouteUnknown, Goto
  <2>2. batch' \subseteq batch
    BY <1>8 DEF Prune, ObserveDone, AskRoute
  <2> QED  BY <1>2, <2>1, <2>2
<1>9. CASE Disable \/ SweepEnds \/ Restart \/ Mute \/ Record \/ Follow \/ Refused \/ Retry
  BY <1>2, <1>9 DEF Disable, SweepEnds, Restart, Mute, Record, Follow, Refused, Retry
<1>10. CASE UNCHANGED vars
  BY <1>1, <1>10 DEF vars, memVars
<1>11. CASE \E b \in Builds : Outcome(b)
  BY <1>1, <1>11 DEF Outcome, memVars
<1>12. CASE SwitchProject \/ SwitchAgent \/ EditSecrets \/ ObserveChange \/ Released
  BY <1>1, <1>12 DEF SwitchProject, SwitchAgent, EditSecrets, ObserveChange, Released, memVars
<1>13. CASE \E e \in Events : ComesDue(e) \/ Ages(e)
  BY <1>1, <1>13 DEF ComesDue, Ages, memVars
<1> QED  BY <1>3, <1>4, <1>5, <1>6, <1>7, <1>8, <1>9, <1>10, <1>11, <1>12, <1>13 DEF Next, WorkerNext

(* The types of the rest.                                                  *)
LEMMA MemStep ==
  ASSUME IInv, [Next]_vars
  PROVE  MemType'
<1>0. MemType
  BY DEF IInv
<1>1. worker' \in WorkerType /\ batch' \subseteq Snapshot
  BY HandStep
<1>2. ended' \subseteq Builds /\ revision' \in 0 .. MaxRevisions
  <2>1. CASE \E b \in Builds : Outcome(b)
    BY <1>0, <2>1 DEF MemType, Outcome
  <2>2. CASE ObserveChange
    BY <1>0, <2>2, OutboxConstants DEF MemType, ObserveChange
  <2>3. CASE UNCHANGED factVars
    BY <1>0, <2>3 DEF MemType, factVars
  <2>4. CASE UNCHANGED vars
    BY <2>3, <2>4 DEF vars
  <2> QED  BY <2>1, <2>2, <2>3, <2>4 DEF Next, WorkerNext, SwitchProject, SwitchAgent, EditSecrets, Prune, Disable,
              ObserveDone, AskRoute, Due, Take, SweepEnds, Look, Reread, Mute, Compose, CheckRoute, Gate,
              Post, AskReceipt, Record, Follow, Refused, Unclear, Retry, ComesDue, Ages, Released, Restart
<1>3. posted' \in [Events -> SUBSET (0 .. MaxSecrets)]
  <2>1. CASE Post
    <3>1. worker.n.payload \in 0 .. MaxSecrets
      BY <2>1 DEF Post, At, IInv, HandInv, Carrying, Unsent, Snapshot
    <3> QED  BY <1>0, <2>1, <3>1 DEF MemType, Post
  <2>2. CASE UNCHANGED posted
    BY <1>0, <2>2 DEF MemType
  <2>3. CASE UNCHANGED vars
    BY <2>2, <2>3 DEF vars
  <2> QED  BY <2>1, <2>2, <2>3 DEF Next, WorkerNext, Outcome, SwitchProject, SwitchAgent, EditSecrets, Prune, Disable,
              ObserveChange, ObserveDone, AskRoute, Due, Take, SweepEnds, Look, Reread, Mute, Compose, CheckRoute,
              Gate, AskReceipt, Record, Follow, Refused, Unclear, Retry, ComesDue, Ages, Released, Restart
<1>4. enabled' \in BOOLEAN /\ allowed' \in BOOLEAN /\ secrets' \in 1 .. MaxSecrets
  <2>1. CASE SwitchProject \/ SwitchAgent
    BY <1>0, <2>1 DEF MemType, SwitchProject, SwitchAgent
  <2>2. CASE EditSecrets
    BY <1>0, <2>2, OutboxConstants DEF MemType, EditSecrets
  <2>3. CASE UNCHANGED <<enabled, allowed, secrets>>
    BY <1>0, <2>3 DEF MemType
  <2>4. CASE UNCHANGED vars
    BY <2>3, <2>4 DEF vars, switchVars
  <2> QED  BY <2>1, <2>2, <2>3, <2>4 DEF Next, WorkerNext, Outcome, Prune, Disable, ObserveChange,
              ObserveDone, AskRoute, Due, Take, SweepEnds, Look, Reread, Mute, Compose, CheckRoute, Gate,
              Post, AskReceipt, Record, Follow, Refused, Unclear, Retry, ComesDue, Ages, Released, Restart, switchVars
<1>5. capture' \in BOOLEAN
  <2>1. CASE AskRoute \/ CheckRoute \/ Disable \/ Restart
    BY <1>0, <2>1 DEF MemType, AskRoute, CheckRoute, RouteGood, RouteGone, RouteUnknown, Disable, Restart, SetCapture
  <2>2. CASE UNCHANGED capture
    BY <1>0, <2>2 DEF MemType
  <2>3. CASE UNCHANGED vars
    BY <2>2, <2>3 DEF vars, switchVars
  <2> QED  BY <2>1, <2>2, <2>3 DEF Next, WorkerNext, Outcome, SwitchProject, SwitchAgent, EditSecrets, Prune, ObserveChange,
              ObserveDone, Due, Take, SweepEnds, Look, Reread, Mute, Compose, Gate,
              Post, AskReceipt, Record, Follow, Refused, Unclear, Retry, ComesDue, Ages, Released, switchVars
<1>6. key' \in BOOLEAN /\ held' \subseteq {"relay", "route"}
  <2>1. CASE AskRoute \/ CheckRoute \/ Unclear \/ Released
    BY <1>0, <2>1 DEF MemType, AskRoute, CheckRoute, RouteGood, RouteGone, RouteUnknown, Unclear, Released
  <2>2. CASE Restart
    BY <1>0, <2>2 DEF MemType, Restart
  <2>3. CASE UNCHANGED <<key, held>>
    BY <1>0, <2>3 DEF MemType
  <2>4. CASE UNCHANGED vars
    BY <2>3, <2>4 DEF vars, memVars
  <2> QED  BY <2>1, <2>2, <2>3, <2>4 DEF Next, WorkerNext, Outcome, SwitchProject, SwitchAgent, EditSecrets, Prune,
              ObserveChange, Disable, ObserveDone, Due, Take, SweepEnds, Look, Reread, Mute, Compose, Gate,
              Post, AskReceipt, Record, Follow, Refused, Retry, ComesDue, Ages, memVars
<1> QED  BY <1>1, <1>2, <1>3, <1>4, <1>5, <1>6 DEF MemType, WorkerType

-------------------------------------------------------------------------------
(* The theorems                                                            *)

(* The system begins with an empty table and an idle worker.               *)
LEMMA InitHolds == Init => IInv
<1> SUFFICES ASSUME Init
             PROVE  IInv
  OBVIOUS
<1>1. worker = Idle /\ worker.pc = "idle" /\ worker \in WorkerType /\ batch = {}
  BY DEF Init, Idle, WorkerType, Steps
<1>2. MemType
  <2>1. 1 \in 1 .. MaxSecrets /\ 0 \in 0 .. MaxRevisions
    BY OutboxConstants
  <2>2. capture \in BOOLEAN /\ key \in BOOLEAN
    BY DEF Init
  <2> QED  BY <1>1, <2>1, <2>2 DEF Init, MemType, WorkerType
<1>3. HandInv
  BY <1>1 DEF HandInv, Carrying, Unsent
<1>4. \A e \in Events : row[e] = NoRow
  BY DEF Init
<1>5. TableType /\ RowInv /\ PendingIsAllowed
  BY <1>4, EmptyRows DEF Init, TableType, Tables, RowInv, PendingIsAllowed, Events
<1>6. TakenInv
  BY <1>1 DEF TakenInv, Taken, Carrying, Unsent
<1>7. PostedInv /\ VoidInv
  BY OutboxConstants DEF Init, PostedInv, VoidInv
<1>8. OutboxIsBounded
  <2>1. Present(row) = {}
    BY <1>4, EmptyRows DEF Present
  <2> QED  BY <2>1, FS_EmptySet, OutboxConstants DEF OutboxIsBounded
<1> QED  BY <1>2, <1>3, <1>5, <1>6, <1>7, <1>8 DEF IInv, TableInv

(* IInv holds in every state of every run.                                 *)
THEOREM Invariance == Spec => []IInv
<1>1. Init => IInv
  BY InitHolds
<1>2. IInv /\ [Next]_vars => IInv'
  BY TableStep, MemStep, HandStep DEF IInv
<1> QED  BY <1>1, <1>2, PTL DEF Spec

(* Every variable keeps its type, and what is followed or delivered has    *)
(* its receipt.                                                            *)
THEOREM TypeCorrect == Spec => []TypeOK
<1>1. IInv => TypeOK
  BY DEF IInv, TableInv, TableType, Tables, MemType, TypeOK
<1> QED  BY <1>1, Invariance, PTL

(* What is pending may be sent as the switches are.                        *)
THEOREM PendingMayBeSent == Spec => []PendingIsAllowed
<1>1. IInv => PendingIsAllowed
  BY DEF IInv
<1> QED  BY <1>1, Invariance, PTL

(* All tries of an event carry the same text.                              *)
THEOREM OneMessage == Spec => []SameMessage
<1>1. IInv => SameMessage
  <2> SUFFICES ASSUME IInv, NEW e \in Events
               PROVE  Cardinality(posted[e]) <= 1
    BY DEF SameMessage
  <2>1. PICK text : posted[e] \subseteq {text}
    BY DEF IInv, TableInv, PostedInv
  <2>2. IsFiniteSet({text}) /\ Cardinality({text}) = 1
    BY FS_Singleton
  <2> QED  BY <2>1, <2>2, FS_Subset
<1> QED  BY <1>1, Invariance, PTL

(* The table keeps to its limit.                                           *)
THEOREM TableIsBounded == Spec => []OutboxIsBounded
<1>1. IInv => OutboxIsBounded
  BY DEF IInv, TableInv
<1> QED  BY <1>1, Invariance, PTL

(* What was retired while nobody was sending it is not sent and stays      *)
(* retired, or is removed.                                                 *)
THEOREM CanceledForGood == Spec => CanceledStays
<1>1. IInv /\ IInv' /\ [Next]_vars => [\A e \in void : ~Posting(e) /\ row'[e].state \in Retired \cup {"gone"}]_vars
  <2> SUFFICES ASSUME IInv, IInv', [Next]_vars, NEW e \in void
               PROVE  ~Posting(e) /\ row'[e].state \in Retired \cup {"gone"}
    OBVIOUS
  <2>1. ~Posting(e)
    BY DEF IInv, TableInv, VoidInv, HandInv, Posting, Sending, Unsent
  <2>2. e \in void'
    BY DEF Next, WorkerNext, Outcome, SwitchProject, SwitchAgent, EditSecrets, Prune, ObserveChange, Disable,
           ObserveDone, AskRoute, CheckRoute, RouteGood, RouteGone, RouteUnknown, SetCapture, Due, Take, SweepEnds,
           Look, Reread, Mute, Compose, Gate, Post, AskReceipt, Record, Follow, Refused, Unclear, Retry, ComesDue,
           Ages, Released, Restart, Write, rowVars, vars
  <2>3. row'[e].state \in Retired \cup {"gone"}
    BY <2>2 DEF IInv, TableInv, VoidInv
  <2> QED  BY <2>1, <2>3
<1> QED  BY <1>1, Invariance, PTL DEF Spec, CanceledStays

(* What has its receipt is not submitted again.                            *)
THEOREM AcceptedOnce == Spec => ReceiptEndsSending
<1>1. IInv => [\A e \in Events : row[e].receipt => ~Posting(e)]_vars
  <2> SUFFICES ASSUME IInv, NEW e \in Events, Posting(e)
               PROVE  ~row[e].receipt
    OBVIOUS
  <2>1. worker.n \in Taken /\ worker.n.state = "pending" /\ worker.n.event = e
    BY DEF IInv, HandInv, Posting, Unsent, Carrying, Taken
  <2> QED  BY <2>1 DEF IInv, TableInv, TakenInv, TakenOK
<1> QED  BY <1>1, Invariance, PTL DEF ReceiptEndsSending
===============================================================================
