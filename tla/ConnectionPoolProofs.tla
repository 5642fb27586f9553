------------------------ MODULE ConnectionPoolProofs ------------------------
(***************************************************************************)
(* With fewer concurrent deletions than connections, the pool never gets   *)
(* stuck, whatever their number.  A queueing request holds at most its     *)
(* transaction's connection, and only deletions hold one while they queue: *)
(* were every connection held by a queueing request, there would be at     *)
(* least as many deletions as connections.                                 *)
(***************************************************************************)
EXTENDS ConnectionPool, FiniteSetTheorems, SequenceTheorems, TLAPS

InQueue == \A i \in 1..Len(queue) : at[queue[i]] \in Waiting
Once    == \A i, j \in 1..Len(queue) : queue[i] = queue[j] => i = j

\* What a request holds at each await.
Holdings ==
    \A p \in Procs :
        /\ at[p] \in {"start", "wantRow", "row", "wantTx", "ended"} => tx[p] = None
        /\ at[p] \notin {"row", "zones", "config"} => stmt[p] = None
        /\ p \in Readers => at[p] \in {"start", "wantRow", "row", "ended"}

\* A connection has one holder at most, so that holders can be counted by it.
NotShared ==
    \A p, q \in Procs, k \in Connections : Owns(p, k) /\ Owns(q, k) => p = q

PoolInv == PoolTypeOK /\ InQueue /\ Once /\ Holdings /\ NotShared

\* Nobody has asked for a connection yet.
LEMMA PoolInit == Init => PoolInv
<1> SUFFICES ASSUME Init PROVE PoolInv OBVIOUS
<1>1. PoolTypeOK BY DEF Init, PoolTypeOK, Stages
<1>2. InQueue /\ Once BY DEF Init, InQueue, Once
<1>3. Holdings BY DEF Init, Holdings
<1>4. NotShared
  BY PoolAssumption DEF Init, NotShared, Owns
<1> QED BY <1>1, <1>2, <1>3, <1>4 DEF PoolInv

\* Joining the queue, by a request that is not in it.
LEMMA AskKeepsQueue ==
    ASSUME PoolInv, NEW p \in Procs, NEW from, NEW want \in Waiting,
           from \cap Waiting = {}, Ask(p, from, want)
    PROVE  at' \in [Procs -> Stages] /\ queue' \in Seq(Procs) /\ InQueue' /\ Once'
<1> USE DEF PoolInv
<1>1. at' \in [Procs -> Stages] BY DEF Ask, Move, PoolTypeOK, Stages
<1>2. /\ queue' \in Seq(Procs) /\ queue' = Append(queue, p)
      /\ Len(queue') = Len(queue) + 1 /\ Len(queue) \in Nat
      /\ \A i \in 1..Len(queue) : queue'[i] = queue[i] /\ queue[i] \in Procs
      /\ queue'[Len(queue) + 1] = p
  BY DEF Ask, PoolTypeOK
<1>3. \A i \in 1..Len(queue) : queue[i] # p
  BY DEF Ask, Move, InQueue, PoolTypeOK
<1>4. InQueue'
  <2> SUFFICES ASSUME NEW i \in 1..Len(queue') PROVE at'[queue'[i]] \in Waiting
    BY DEF InQueue
  <2>1. CASE i \in 1..Len(queue)
    BY <1>2, <1>3, <2>1 DEF InQueue, Ask, Move, PoolTypeOK
  <2>2. CASE i = Len(queue) + 1 BY <1>2, <2>2 DEF Ask, Move, PoolTypeOK
  <2> QED BY <1>2, <2>1, <2>2
<1>5. Once'
  <2> SUFFICES ASSUME NEW i \in 1..Len(queue'), NEW j \in 1..Len(queue'),
                      queue'[i] = queue'[j]
               PROVE  i = j
    BY DEF Once
  <2> QED BY <1>2, <1>3 DEF Once
<1> QED BY <1>1, <1>2, <1>4, <1>5

\* A step that neither joins nor leaves the queue.
LEMMA MoveKeepsQueue ==
    ASSUME PoolInv, NEW p \in Procs, NEW from, NEW to \in Stages,
           from \cap Waiting = {}, Move(p, from, to), UNCHANGED queue
    PROVE  at' \in [Procs -> Stages] /\ queue' \in Seq(Procs) /\ InQueue' /\ Once'
<1> USE DEF PoolInv
<1>1. at' \in [Procs -> Stages] BY DEF Move, PoolTypeOK
<1>2. \A i \in 1..Len(queue) : queue[i] \in Procs /\ queue[i] # p
  BY DEF Move, InQueue, PoolTypeOK
<1>3. InQueue' BY <1>2 DEF InQueue, Move, PoolTypeOK
<1> QED BY <1>1, <1>3 DEF Once, PoolTypeOK

\* The head of the queue gets a free connection.
LEMMA GrantInv == ASSUME PoolInv, Grant PROVE PoolInv'
<1> USE DEF PoolInv
<1> DEFINE p == Head(queue)
<1>1. /\ queue # <<>> /\ queue' = Tail(queue) /\ at' = [at EXCEPT ![p] = Granted[@]]
  BY DEF Grant
<1>2. PICK k \in Connections :
        /\ Free(k)
        /\ IF at[p] = "wantTx"
           THEN tx' = [tx EXCEPT ![p] = k] /\ UNCHANGED stmt
           ELSE stmt' = [stmt EXCEPT ![p] = k] /\ UNCHANGED tx
  BY DEF Grant
<1>3. /\ Len(queue) \in Nat /\ Len(queue) > 0 /\ Len(queue') = Len(queue) - 1
      /\ queue' \in Seq(Procs) /\ p = queue[1]
      /\ \A i \in 1..Len(queue') : queue'[i] = queue[i + 1] /\ i + 1 \in 1..Len(queue)
      /\ \A i \in 1..Len(queue) : queue[i] \in Procs
  BY <1>1 DEF PoolTypeOK
<1>4. p \in Procs /\ at[p] \in Waiting BY <1>3 DEF InQueue
<1>5. at'[p] = Granted[at[p]] /\ \A q \in Procs : q # p => at'[q] = at[q]
  BY <1>1, <1>4 DEF PoolTypeOK
<1>6. /\ at[p] = "wantRow" => at'[p] = "row"
      /\ at[p] = "wantTx" => at'[p] = "inTx"
      /\ at[p] = "wantZones" => at'[p] = "zones"
      /\ at[p] = "wantConfig" => at'[p] = "config"
  BY <1>5 DEF Granted
<1> HIDE DEF p
<1>7. PoolTypeOK'
  <2>1. at'[p] \in Stages BY <1>4, <1>6 DEF Waiting, Stages
  <2>2. at' \in [Procs -> Stages] BY <1>1, <1>5, <2>1 DEF PoolTypeOK
  <2> QED BY <1>2, <1>3, <2>2 DEF PoolTypeOK
<1>8. \A i \in 1..Len(queue') : queue'[i] # p
  BY <1>3 DEF Once
<1>9. InQueue' BY <1>3, <1>5, <1>8 DEF InQueue
<1>10. Once' BY <1>3 DEF Once
<1>11. Holdings'
  <2> SUFFICES ASSUME NEW q \in Procs
      PROVE /\ at'[q] \in {"start", "wantRow", "row", "wantTx", "ended"} => tx'[q] = None
            /\ at'[q] \notin {"row", "zones", "config"} => stmt'[q] = None
            /\ q \in Readers => at'[q] \in {"start", "wantRow", "row", "ended"}
    BY DEF Holdings
  <2>1. CASE q # p BY <1>2, <1>5, <2>1 DEF Holdings, PoolTypeOK
  <2>2. CASE q = p BY <1>2, <1>4, <1>6, <2>2 DEF Holdings, PoolTypeOK, Waiting
  <2> QED BY <2>1, <2>2
<1>12. NotShared'
  BY <1>2, <1>4, PoolAssumption DEF NotShared, Owns, Free, PoolTypeOK
<1> QED BY <1>7, <1>9, <1>10, <1>11, <1>12

\* A step of a request between two requests for a connection.
LEMMA StepInv == ASSUME PoolInv, NEW p \in Procs, Start(p) \/ Step(p) PROVE PoolInv'
<1> USE DEF PoolInv
<1>1. /\ at' \in [Procs -> Stages] /\ queue' \in Seq(Procs) /\ InQueue' /\ Once'
  <2>1. CASE Start(p) \/ RowFound(p) \/ ReadZones(p) \/ ReadConfig(p)
    BY <2>1, AskKeepsQueue DEF Start, RowFound, ReadZones, ReadConfig, Waiting
  <2>2. CASE RowMissing(p) \/ AskBot(p) \/ AlreadyGone(p) \/ SendDelete(p)
             \/ Deleted(p) \/ Fail(p) \/ Finish(p)
    BY <2>2, MoveKeepsQueue DEF RowMissing, AskBot, AlreadyGone, SendDelete,
      Deleted, Fail, Finish, Waiting, Stages
  <2> QED BY <2>1, <2>2 DEF Step
<1> USE DEF Start, Step, RowFound, RowMissing, ReadZones, AskBot, ReadConfig,
      AlreadyGone, SendDelete, Deleted, Fail, Finish, Ask, Move, ReleaseStmt,
      ReleaseTx
<1>2. /\ tx' \in [Procs -> Connections \cup {None}]
      /\ stmt' \in [Procs -> Connections \cup {None}]
      /\ \A q \in Procs : tx'[q] \in {tx[q], None} /\ stmt'[q] \in {stmt[q], None}
  BY DEF PoolTypeOK
<1>3. Holdings' BY PoolAssumption DEF Holdings, PoolTypeOK
<1>4. NotShared'
  BY <1>2, PoolAssumption DEF NotShared, Owns
<1> QED BY <1>1, <1>2, <1>3, <1>4 DEF PoolTypeOK

\* Every step keeps the invariant.
LEMMA PoolNext == ASSUME PoolInv, [Next]_pvars PROVE PoolInv'
<1>1. CASE UNCHANGED pvars
  BY <1>1 DEF pvars, PoolInv, PoolTypeOK, InQueue, Once, Holdings,
    NotShared, Owns
<1> QED BY <1>1, StepInv, GrantInv DEF Next, AllEnded

\* The invariant holds throughout, whatever the size of the pool.
THEOREM PoolInvariance == Spec => []PoolInv
<1> QED BY PoolInit, PoolNext, PTL DEF Spec

\* Every variable of the pool keeps its type: a request is at a stage its kind has,
\* and what it holds are connections of the pool.
THEOREM PoolTypeCorrect == Spec => []PoolTypeOK
<1>1. PoolInv => PoolTypeOK BY DEF PoolInv
<1> QED BY <1>1, PoolInvariance, PTL

\* Every ended request has given its connections back.
THEOREM NothingLeaks == Spec => []EndedHoldNothing
<1>1. PoolInv => EndedHoldNothing BY DEF PoolInv, Holdings, EndedHoldNothing
<1> QED BY <1>1, PoolInvariance, PTL

\* The counting argument: full and stuck needs a deletion per connection.
LEMMA Room ==
    ASSUME PoolInv, Cardinality(Deletions) < Cardinality(Connections)
    PROVE  PoolNotStuck
<1> SUFFICES ASSUME ~PoolNotStuck PROVE FALSE OBVIOUS
<1>1. \A k \in Connections : \E p \in Deletions : tx[p] = k
  <2> SUFFICES ASSUME NEW k \in Connections PROVE \E p \in Deletions : tx[p] = k
    OBVIOUS
  <2>1. PICK p \in Procs : Owns(p, k) BY DEF PoolNotStuck, Free
  <2>2. at[p] \in Waiting BY <2>1 DEF PoolNotStuck
  <2>3. stmt[p] = None BY <2>2 DEF PoolInv, Holdings, Waiting
  <2>4. tx[p] = k BY <2>1, <2>3, PoolAssumption DEF Owns
  <2>5. p \notin Readers
    BY <2>2, <2>4, PoolAssumption DEF PoolInv, Holdings, Waiting
  <2> QED BY <2>4, <2>5 DEF Procs
<1> DEFINE f == [k \in Connections |-> CHOOSE p \in Deletions : tx[p] = k]
<1>2. f \in [Connections -> Deletions] /\ \A k \in Connections : tx[f[k]] = k
  BY <1>1
<1> HIDE DEF f
<1>3. \E k, l \in Connections : k # l /\ f[k] = f[l]
  BY <1>2, FS_PigeonHole, PoolAssumption
<1> QED BY <1>2, <1>3

\* With fewer concurrent deletions than connections there is always a connection
\* that is free or in the hands of a request that can go on.
THEOREM RoomIsEnough ==
    ASSUME Cardinality(Deletions) < Cardinality(Connections)
    PROVE  Spec => []PoolNotStuck
<1>1. PoolInv => PoolNotStuck BY Room
<1> QED BY <1>1, PoolInvariance, PTL
=============================================================================
