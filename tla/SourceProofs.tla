---------------------------- MODULE SourceProofs ----------------------------
(***************************************************************************)
(* Proofs about SourcePrepare: a source that succeeds has sent its whole   *)
(* table, for every table, pool and set of failing rows.                   *)
(***************************************************************************)
EXTENDS SourcePrepare, DataLemmas

(* The workers the WaitGroup still counts: all that did not get to the     *)
(* end, those that failed among them.                                      *)
Counting == {w \in Worker : pool[w] # "end"}

TypeInv == TypeOK /\ wg = Cardinality(Counting)

LEMMA WorkerCount == Cardinality(Worker) \in Nat
  BY SourceAssumption, FS_CardinalityType

LEMMA CountingFinite ==
  IsFiniteSet(Counting) /\ Cardinality(Counting) \in 0 .. Cardinality(Worker)
  <1>1. Counting \in SUBSET Worker BY DEF Counting
  <1>2. IsFiniteSet(Counting) /\ Cardinality(Counting) <= Cardinality(Worker)
        BY <1>1, SourceAssumption, FS_Subset
  <1> QED BY <1>2, WorkerCount, FS_CardinalityType

LEMMA TypeInit == Init => TypeInv
  <1> SUFFICES ASSUME Init PROVE TypeInv OBVIOUS
  <1>1. wg = Cardinality(Worker) /\ Counting = Worker BY DEF Init, Counted, Counting
  <1>2. wg \in 0 .. Cardinality(Worker) BY <1>1, WorkerCount
  <1>3. /\ pool = [w \in Worker |-> "range"] /\ task = [w \in Worker |-> NoUid]
        /\ \A w \in Worker : pool[w] = "range" /\ task[w] = NoUid
        BY DEF Init
  <1>4. /\ unfed = Uid /\ rows = <<>> /\ encRows = <<>> /\ out = <<>>
        /\ rowsClosed = FALSE /\ encClosed = FALSE /\ who \in Users /\ user = "range"
        BY DEF Init
  <1>5. rows \in Seq(Uid) /\ encRows \in Seq(Uid) /\ out \in Seq(Uid) BY <1>4
  <1>6. /\ pool \in [Worker -> {"range", "encrypt", "returned", "end"}]
        /\ task \in [Worker -> Uid \union {NoUid}]
        BY <1>3
  <1> QED BY <1>1, <1>2, <1>3, <1>4, <1>5, <1>6 DEF TypeInv, TypeOK

(* A worker's step: the WaitGroup goes down with the worker that ends.     *)
LEMMA TypeWorker == ASSUME TypeInv, NEW w \in Worker, WorkerStep(w) PROVE TypeInv'
  <1> USE SourceAssumption DEF TypeInv, TypeOK
  <1>1. CASE Take(w)
    <2>1. Head(rows) \in Uid /\ Tail(rows) \in Seq(Uid) BY <1>1 DEF Take
    <2>2. pool' = [pool EXCEPT ![w] = "encrypt"] /\ task' = [task EXCEPT ![w] = Head(rows)]
          /\ rows' = Tail(rows) /\ wg' = wg
          BY <1>1 DEF Take, Received
    <2>3. Counting' = Counting BY <1>1, <2>2 DEF Take, Counting
    <2> QED BY <1>1, <2>1, <2>2, <2>3 DEF Take
  <1>2. CASE Encrypt(w)
    <2>1. task[w] \in Uid BY <1>2 DEF Encrypt
    <2>2. Counting' = Counting BY <1>2 DEF Encrypt, Counting
    <2>3. encRows' \in Seq(Uid) BY <1>2, <2>1 DEF Encrypt
    <2> QED BY <1>2, <2>2, <2>3 DEF Encrypt
  <1>3. CASE EncryptErr(w)
    <2>1. Counting' = Counting BY <1>3 DEF EncryptErr, Counting
    <2> QED BY <1>3, <2>1 DEF EncryptErr
  <1>4. CASE WorkerEnd(w)
    <2>1. w \in Counting /\ Counting' = Counting \ {w} BY <1>4 DEF WorkerEnd, Counting
    <2>2. Cardinality(Counting') = Cardinality(Counting) - 1
          BY <2>1, CountingFinite, FS_RemoveElement
    <2>3. wg' = Cardinality(Counting') BY <1>4, <2>2 DEF WorkerEnd, Done
    <2>4. wg' \in 0 .. Cardinality(Worker)
      <3>1. IsFiniteSet(Counting') BY <2>1, CountingFinite, FS_Subset
      <3>2. Cardinality(Counting') \in Nat BY <3>1, FS_CardinalityType
      <3> QED BY <2>2, <2>3, <3>2, CountingFinite, WorkerCount
    <2> QED BY <1>4, <2>3, <2>4 DEF WorkerEnd
  <1> QED BY <1>1, <1>2, <1>3, <1>4 DEF WorkerStep

LEMMA TypeNext == ASSUME TypeInv, [Next]_vars PROVE TypeInv'
  <1> USE SourceAssumption DEF TypeInv, TypeOK, Counting
  <1>1. ASSUME NEW u \in Uid, Feed(u) PROVE TypeInv' BY <1>1 DEF Feed
  <1>2. CASE FeedClose BY <1>2 DEF FeedClose
  <1>3. CASE FeedWait BY <1>3 DEF FeedWait
  <1>4. CASE Use
    <2>1. Head(encRows) \in Uid /\ Tail(encRows) \in Seq(Uid) BY <1>4 DEF Use
    <2> QED BY <1>4, <2>1 DEF Use
  <1>5. CASE UseEnd \/ StreamErr BY <1>5 DEF UseEnd, StreamErr
  <1>6. CASE UNCHANGED vars BY <1>6 DEF vars
  <1>7. ASSUME NEW w \in Worker, WorkerStep(w) PROVE TypeInv' BY <1>7, TypeWorker
  <1> QED BY <1>1, <1>2, <1>3, <1>4, <1>5, <1>6, <1>7 DEF Next, Feeder, UserStep

(* Every variable keeps its type; in particular the WaitGroup never goes   *)
(* below zero, which would be a panic.                                     *)
THEOREM TypeCorrect == Spec => []TypeOK
  <1>1. TypeInv => TypeOK BY DEF TypeInv
  <1> QED BY <1>1, TypeInit, TypeNext, PTL DEF Spec

-----------------------------------------------------------------------------
(* Where an unfailed row is; what follows from a closed channel.           *)
Somewhere(u) == \/ u \in unfed \/ u \in Range(rows) \/ u \in Range(encRows) \/ u \in Range(out)
                \/ \E w \in Worker : task[w] = u

NoneLost == (\A w \in Worker : pool[w] # "returned") => \A u \in Uid : Somewhere(u)

Drained == /\ rowsClosed => unfed = {}
           /\ \A w \in Worker : pool[w] = "end" => rowsClosed /\ rows = <<>>
           /\ encClosed => \A w \in Worker : pool[w] = "end"
           /\ user = "ok" => encClosed /\ encRows = <<>>

LEMMA DrainedNext == ASSUME TypeInv, TypeInv', Drained, [Next]_vars PROVE Drained'
  <1> USE DEF TypeInv, TypeOK, Drained
  <1>1. ASSUME NEW u \in Uid, Feed(u) PROVE Drained' BY <1>1 DEF Feed
  <1>2. CASE FeedClose BY <1>2 DEF FeedClose
  <1>3. CASE FeedWait
    <2>1. IsFiniteSet(Counting) /\ Cardinality(Counting) = 0
          BY <1>3, CountingFinite DEF FeedWait, AllDone
    <2>2. Counting = {} BY <2>1, FS_EmptySet
    <2>3. \A w \in Worker : pool[w] = "end" BY <2>2 DEF Counting
    <2> QED BY <1>3, <2>3 DEF FeedWait
  <1>4. CASE Use \/ UseEnd \/ StreamErr BY <1>4 DEF Use, UseEnd, StreamErr
  <1>5. ASSUME NEW w \in Worker, WorkerStep(w) PROVE Drained'
        BY <1>5 DEF WorkerStep, Take, Encrypt, EncryptErr, WorkerEnd, Received
  <1>6. CASE UNCHANGED vars BY <1>6 DEF vars
  <1> QED BY <1>1, <1>2, <1>3, <1>4, <1>5, <1>6 DEF Next, Feeder, UserStep

LEMMA NoneLostNext == ASSUME TypeInv, TypeInv', NoneLost, [Next]_vars PROVE NoneLost'
  <1> USE DEF TypeInv, TypeOK
  <1> SUFFICES ASSUME \A w \in Worker : pool'[w] # "returned", NEW u \in Uid
               PROVE  Somewhere(u)'
      BY DEF NoneLost
  <1>1. \A w \in Worker : pool[w] # "returned"
        BY DEF Next, Feeder, UserStep, WorkerStep, Feed, FeedClose, FeedWait, Take, Encrypt,
               EncryptErr, WorkerEnd, Use, UseEnd, StreamErr, vars
  <1>2. Somewhere(u) BY <1>1 DEF NoneLost
  <1>3. ASSUME NEW v \in Uid, Feed(v) PROVE Somewhere(u)'
        BY <1>2, <1>3, RangeSeq DEF Feed, Somewhere
  <1>4. CASE FeedClose \/ FeedWait \/ UseEnd \/ StreamErr \/ UNCHANGED vars
        BY <1>2, <1>4 DEF FeedClose, FeedWait, UseEnd, StreamErr, vars, Somewhere
  <1>5. CASE Use
    <2>1. Head(encRows) \in Uid BY <1>5 DEF Use
    <2> QED BY <1>2, <1>5, <2>1, RangeSeq DEF Use, Somewhere
  <1>6. ASSUME NEW w \in Worker, Take(w) PROVE Somewhere(u)'
    <2>1. /\ rows' = Tail(rows) /\ rows # <<>> /\ task[w] = NoUid
          /\ task' = [task EXCEPT ![w] = Head(rows)] /\ UNCHANGED <<unfed, encRows, out>>
          BY <1>6 DEF Take, Received
    <2>2. Range(rows) = {Head(rows)} \union Range(rows') BY <2>1, RangeSeq
    <2>3. task'[w] = Head(rows) /\ \A v \in Worker : v # w => task'[v] = task[v] BY <2>1
    <2>4. u # NoUid BY SourceAssumption
    <2> QED BY <1>2, <2>1, <2>2, <2>3, <2>4 DEF Somewhere
  <1>7. ASSUME NEW w \in Worker, Encrypt(w) PROVE Somewhere(u)'
    <2>1. /\ encRows' = Append(encRows, task[w]) /\ task[w] \in Uid
          /\ task' = [task EXCEPT ![w] = NoUid] /\ UNCHANGED <<unfed, rows, out>>
          BY <1>7 DEF Encrypt
    <2>2. Range(encRows') = Range(encRows) \union {task[w]} BY <2>1, RangeSeq
    <2>3. \A v \in Worker : v # w => task'[v] = task[v] BY <2>1
    <2> QED BY <1>2, <2>1, <2>2, <2>3 DEF Somewhere
  <1>8. ASSUME NEW w \in Worker, EncryptErr(w) \/ WorkerEnd(w) PROVE Somewhere(u)'
        BY <1>2, <1>8 DEF EncryptErr, WorkerEnd, Somewhere
  <1> QED BY <1>3, <1>4, <1>5, <1>6, <1>7, <1>8 DEF Next, Feeder, UserStep, WorkerStep

(* A user that gets to the end of the channel without an error has taken   *)
(* every row of the table: main has sent them all when it ends the stream. *)
THEOREM WholeTableSent == Spec => []WholeTable
  <1>1. Init => NoneLost /\ Drained
        BY SourceAssumption DEF Init, NoneLost, Somewhere, Drained
  <1>2. TypeInv /\ NoneLost /\ Drained => WholeTable
    <2> SUFFICES ASSUME TypeInv, NoneLost, Drained, user = "ok" PROVE Range(out) = Uid
        BY DEF WholeTable
    <2>1. /\ encRows = <<>> /\ \A w \in Worker : pool[w] = "end" /\ task[w] = NoUid
          /\ unfed = {} /\ rows = <<>>
          BY SourceAssumption DEF TypeInv, TypeOK, Drained
    <2>2. \A u \in Uid : u \in Range(out)
      <3> SUFFICES ASSUME NEW u \in Uid PROVE u \in Range(out) OBVIOUS
      <3>1. Somewhere(u) BY <2>1 DEF NoneLost
      <3>2. u # NoUid BY SourceAssumption
      <3> QED BY <2>1, <3>1, <3>2, RangeSeq DEF Somewhere, TypeInv, TypeOK
    <2>3. Range(out) \subseteq Uid BY RangeSeq DEF TypeInv, TypeOK
    <2> QED BY <2>2, <2>3
  <1> QED BY <1>1, <1>2, TypeInit, TypeNext, DrainedNext, NoneLostNext, PTL DEF Spec

-----------------------------------------------------------------------------
(* The places of a row, counted.                                           *)
Unfed(u) == IF u \in unfed THEN 1 ELSE 0

PlacesSum(u) ==
  /\ Places(u) = Unfed(u) + Count(rows, u) + Count(task, u)
                 + Count(encRows, u) + Count(out, u)
  /\ Unfed(u) \in Nat /\ Count(rows, u) \in Nat /\ Count(task, u) \in Nat
  /\ Count(encRows, u) \in Nat /\ Count(out, u) \in Nat

PlacesSums == \A u \in Uid : PlacesSum(u)

LEMMA PlacesCounted == TypeInv => PlacesSums
  <1> SUFFICES ASSUME TypeInv, NEW u \in Uid PROVE PlacesSum(u) BY DEF PlacesSums
  <1>1. Cardinality(unfed \intersect {u}) = Unfed(u)
    <2>1. CASE u \in unfed
      <3>1. unfed \intersect {u} = {u} BY <2>1
      <3> QED BY <2>1, <3>1, FS_Singleton DEF Unfed
    <2>2. CASE u \notin unfed
      <3>1. unfed \intersect {u} = {} BY <2>2
      <3> QED BY <2>2, <3>1, FS_EmptySet DEF Unfed
    <2> QED BY <2>1, <2>2
  <1>2. Cardinality({w \in Worker : task[w] = u}) = Count(task, u)
    <2>1. DOMAIN task = Worker BY DEF TypeInv, TypeOK
    <2> QED BY <2>1 DEF Count, At
  <1>3. Places(u) = Unfed(u) + Count(rows, u) + Count(task, u) + Count(encRows, u) + Count(out, u)
        BY <1>1, <1>2 DEF Places, Count, At
  <1>4. ASSUME NEW s \in Seq(Uid) PROVE Count(s, u) \in Nat
    <2>1. Count(Append(s, u), u) = Count(s, u) + One(u, u) /\ Count(s, u) \in Nat
          BY CountAppend
    <2> QED BY <2>1
  <1>5. Count(task, u) \in Nat
    <2>1. IsFiniteSet(DOMAIN task) BY SourceAssumption DEF TypeInv, TypeOK
    <2> QED BY <2>1, CountIsNat
  <1>6. Unfed(u) \in Nat BY DEF Unfed
  <1>7. rows \in Seq(Uid) /\ encRows \in Seq(Uid) /\ out \in Seq(Uid)
        BY DEF TypeInv, TypeOK
  <1>8. Count(rows, u) \in Nat /\ Count(encRows, u) \in Nat /\ Count(out, u) \in Nat
        BY <1>4, <1>7
  <1> QED BY <1>3, <1>5, <1>6, <1>8 DEF PlacesSum

(* A worker's row changes.                                                 *)
LEMMA TaskDiffers ==
  ASSUME TypeInv, NEW w \in Worker, NEW v, task' = [task EXCEPT ![w] = v]
  PROVE  /\ w \in DOMAIN task /\ DifferAt(task, task', w) /\ task'[w] = v
         /\ IsFiniteSet(DOMAIN task)
  BY SourceAssumption DEF TypeInv, TypeOK, DifferAt

LEMMA TaskCounted ==
  ASSUME NEW w \in DOMAIN task, NEW u, IsFiniteSet(DOMAIN task), DifferAt(task, task', w)
  PROVE  Count(task', u) = Count(task, u) - One(task[w], u) + One(task'[w], u)
  BY CountExcept

(* The places of a row before and after a step.                            *)
LEMMA PlacesTwice ==
  ASSUME TypeInv, TypeInv', NEW u \in Uid
  PROVE  /\ Places(u) = Unfed(u) + Count(rows, u) + Count(task, u)
                        + Count(encRows, u) + Count(out, u)
         /\ Places(u)' = Unfed(u)' + Count(rows', u) + Count(task', u)
                         + Count(encRows', u) + Count(out', u)
         /\ Unfed(u) \in Nat /\ Count(rows, u) \in Nat /\ Count(task, u) \in Nat
         /\ Count(encRows, u) \in Nat /\ Count(out, u) \in Nat
         /\ Unfed(u)' \in Nat /\ Count(rows', u) \in Nat /\ Count(task', u) \in Nat
         /\ Count(encRows', u) \in Nat /\ Count(out', u) \in Nat
         /\ Places(u) \in Nat /\ Places(u)' \in Nat
  <1>1. PlacesSum(u) BY PlacesCounted DEF PlacesSums
  <1>2. TypeInv' => PlacesSums' BY PlacesCounted, PTL
  <1>3. PlacesSum(u)' BY <1>2 DEF PlacesSums
  <1>4. /\ Count(rows, u)' = Count(rows', u) /\ Count(task, u)' = Count(task', u)
        /\ Count(encRows, u)' = Count(encRows', u) /\ Count(out, u)' = Count(out', u)
        BY DEF Count, At
  <1>5. /\ Places(u)' = Unfed(u)' + Count(rows', u) + Count(task', u)
                        + Count(encRows', u) + Count(out', u)
        /\ Unfed(u)' \in Nat /\ Count(rows', u) \in Nat /\ Count(task', u) \in Nat
        /\ Count(encRows', u) \in Nat /\ Count(out', u) \in Nat
        BY <1>3, <1>4 DEF PlacesSum
  <1>6. Places(u)' \in Nat BY <1>5
  <1>7. Places(u) \in Nat BY <1>1 DEF PlacesSum
  <1> QED BY <1>1, <1>5, <1>6, <1>7 DEF PlacesSum

(* Only a failing worker drops a row, and it does not come back.           *)
LEMMA RowDropped ==
  ASSUME TypeInv, TypeInv', NEW w \in Worker, EncryptErr(w), NEW u \in Uid
  PROVE  Places(u)' = Places(u) - One(task[w], u)
  <1>1. task' = [task EXCEPT ![w] = NoUid] /\ UNCHANGED <<unfed, rows, encRows, out>>
        BY DEF EncryptErr
  <1>2. Count(task', u) = Count(task, u) - One(task[w], u) + One(NoUid, u)
        BY <1>1, TaskCounted, TaskDiffers
  <1>3. One(NoUid, u) = 0 /\ One(task[w], u) \in Int BY SourceAssumption DEF One
  <1>4. Unfed(u)' = Unfed(u) BY <1>1 DEF Unfed
  <1>5. /\ Count(rows', u) = Count(rows, u) /\ Count(encRows', u) = Count(encRows, u)
        /\ Count(out', u) = Count(out, u)
        BY <1>1
  <1>6. Count(task', u) = Count(task, u) - One(task[w], u) BY <1>2, <1>3, PlacesTwice
  <1> QED BY <1>3, <1>4, <1>5, <1>6, PlacesTwice

(* No other step changes the number of a row's places.                     *)
LEMMA PlacesStep ==
  ASSUME TypeInv, TypeInv', [Next]_vars, NEW u \in Uid
  PROVE  \/ Places(u)' = Places(u) /\ Failed' = Failed
         \/ \E w \in Worker : EncryptErr(w)
  <1>1. One(NoUid, u) = 0 /\ \A v : One(v, u) \in Int BY SourceAssumption DEF One
  <1>2. rows \in Seq(Uid) /\ encRows \in Seq(Uid) /\ out \in Seq(Uid) BY DEF TypeInv, TypeOK
  <1>3. ASSUME NEW v \in Uid, Feed(v) PROVE Places(u)' = Places(u) /\ Failed' = Failed
    <2>1. Unfed(u)' = Unfed(u) - One(v, u) BY <1>3 DEF Feed, Unfed, One
    <2>2. Count(rows', u) = Count(rows, u) + One(v, u) BY <1>2, <1>3, CountAppend DEF Feed
    <2>3. UNCHANGED <<pool, task, encRows, out>> BY <1>3 DEF Feed
    <2>4. Places(u)' = Places(u) BY PlacesTwice, <1>1, <2>1, <2>2, <2>3
    <2> QED BY <2>3, <2>4 DEF Failed
  <1>4. CASE FeedClose \/ FeedWait \/ UseEnd \/ StreamErr \/ UNCHANGED vars
    <2>1. UNCHANGED <<unfed, rows, pool, task, encRows, out>>
          BY <1>4 DEF FeedClose, FeedWait, UseEnd, StreamErr, vars
    <2> QED BY PlacesTwice, <2>1 DEF Unfed, Failed
  <1>5. CASE Use
    <2>1. Count(encRows, u) = Count(encRows', u) + One(Head(encRows), u)
          BY <1>2, <1>5, CountTail DEF Use
    <2>2. Head(encRows) \in Uid BY <1>2, <1>5 DEF Use
    <2>3. Count(out', u) = Count(out, u) + One(Head(encRows), u)
          BY <1>2, <1>5, <2>2, CountAppend DEF Use
    <2>4. UNCHANGED <<unfed, rows, pool, task>> BY <1>5 DEF Use
    <2>5. Unfed(u)' = Unfed(u) /\ Failed' = Failed BY <2>4 DEF Unfed, Failed
    <2>6. Places(u)' = Places(u) BY PlacesTwice, <1>1, <2>1, <2>3, <2>4, <2>5
    <2> QED BY <2>5, <2>6
  <1>6. ASSUME NEW w \in Worker, Take(w) PROVE Places(u)' = Places(u) /\ Failed' = Failed
    <2>1. /\ rows' = Tail(rows) /\ rows # <<>> /\ task[w] = NoUid
          /\ task' = [task EXCEPT ![w] = Head(rows)] /\ UNCHANGED <<unfed, encRows, out>>
          BY <1>6 DEF Take, Received, TypeInv, TypeOK
    <2>2. Count(rows, u) = Count(rows', u) + One(Head(rows), u) BY <1>2, <2>1, CountTail
    <2>3. Count(task', u) = Count(task, u) - One(NoUid, u) + One(Head(rows), u)
          BY <2>1, TaskCounted, TaskDiffers
    <2>4. Unfed(u)' = Unfed(u) BY <2>1 DEF Unfed
    <2>5. Places(u)' = Places(u) BY PlacesTwice, <1>1, <2>1, <2>2, <2>3, <2>4
    <2>6. Failed' = Failed BY <1>6 DEF Take, Failed, TypeInv, TypeOK
    <2> QED BY <2>5, <2>6
  <1>7. ASSUME NEW w \in Worker, Encrypt(w) PROVE Places(u)' = Places(u) /\ Failed' = Failed
    <2>1. /\ encRows' = Append(encRows, task[w]) /\ task[w] \in Uid
          /\ task' = [task EXCEPT ![w] = NoUid] /\ UNCHANGED <<unfed, rows, out>>
          BY <1>7 DEF Encrypt, TypeInv, TypeOK
    <2>2. Count(encRows', u) = Count(encRows, u) + One(task[w], u)
          BY <1>2, <2>1, CountAppend
    <2>3. Count(task', u) = Count(task, u) - One(task[w], u) + One(NoUid, u)
          BY <2>1, TaskCounted, TaskDiffers
    <2>4. Unfed(u)' = Unfed(u) BY <2>1 DEF Unfed
    <2>5. Places(u)' = Places(u) BY PlacesTwice, <1>1, <2>1, <2>2, <2>3, <2>4
    <2>6. Failed' = Failed BY <1>7 DEF Encrypt, Failed, TypeInv, TypeOK
    <2> QED BY <2>5, <2>6
  <1>8. ASSUME NEW w \in Worker, WorkerEnd(w) PROVE Places(u)' = Places(u) /\ Failed' = Failed
    <2>1. UNCHANGED <<unfed, rows, task, encRows, out>> BY <1>8 DEF WorkerEnd
    <2>2. Failed' = Failed BY <1>8 DEF WorkerEnd, Failed, TypeInv, TypeOK
    <2> QED BY PlacesTwice, <2>1, <2>2 DEF Unfed
  <1> QED BY <1>3, <1>4, <1>5, <1>6, <1>7, <1>8
          DEF Next, Feeder, UserStep, WorkerStep

Lost == {u \in Uid : Places(u) = 0}

LEMMA FailedStep ==
  ASSUME TypeInv, [Next]_vars, \A w \in Worker : ~EncryptErr(w)
  PROVE  Failed' = Failed
  <1> USE DEF TypeInv, TypeOK, Failed
  <1>1. ASSUME NEW w \in Worker, WorkerStep(w) PROVE Failed' = Failed
        BY <1>1 DEF WorkerStep, Take, Encrypt, WorkerEnd
  <1>2. ASSUME NEW u \in Uid, Feed(u) PROVE Failed' = Failed BY <1>2 DEF Feed
  <1> QED BY <1>1, <1>2 DEF Next, Feeder, UserStep, FeedClose, FeedWait, Use, UseEnd,
                            StreamErr, vars

LEMMA OnceNext == ASSUME TypeInv, TypeInv', EveryRowOnce, [Next]_vars PROVE EveryRowOnce'
  <1>1. \A u \in Uid : Places(u) = 1 \/ (u \in MayFail /\ Places(u) = 0) BY DEF EveryRowOnce
  <1>2. Cardinality(Lost) = Cardinality(Failed) BY DEF EveryRowOnce, Lost
  <1>3. CASE \E w \in Worker : EncryptErr(w)
    <2> PICK w \in Worker : EncryptErr(w) BY <1>3
    <2> PICK v : v = task[w] OBVIOUS
    <2>1. /\ v \in MayFail /\ v \in Uid /\ pool[w] = "encrypt"
          /\ pool' = [pool EXCEPT ![w] = "returned"]
          BY SourceAssumption DEF EncryptErr
    <2>2. \A u \in Uid : Places(u)' = Places(u) - One(v, u) /\ Places(u)' \in Nat
          BY RowDropped, PlacesTwice
    <2>3. Places(v) = 1 /\ Places(v)' = 0
      <3>1. Places(v)' = Places(v) - 1 /\ Places(v)' \in Nat BY <2>1, <2>2 DEF One
      <3>2. Places(v) = 1 \/ Places(v) = 0 BY <1>1, <2>1
      <3> QED BY <3>1, <3>2
    <2>4. ASSUME NEW u \in Uid, u # v PROVE Places(u)' = Places(u)
      <3>1. Places(u) \in Nat BY <1>1
      <3>2. One(v, u) = 0 BY <2>4 DEF One
      <3> QED BY <2>2, <3>1, <3>2
    <2>5. Lost' = Lost \union {v} /\ v \notin Lost BY <2>1, <2>3, <2>4 DEF Lost
    <2>6. Failed' = Failed \union {w} /\ w \notin Failed
          BY <2>1 DEF Failed, TypeInv, TypeOK
    <2>7. IsFiniteSet(Lost)
      <3>1. Lost \in SUBSET Uid BY DEF Lost
      <3> QED BY <3>1, FS_Subset, SourceAssumption
    <2>8. IsFiniteSet(Failed)
      <3>1. Failed \in SUBSET Worker BY DEF Failed
      <3> QED BY <3>1, FS_Subset, SourceAssumption
    <2>9. Cardinality(Lost') = Cardinality(Lost) + 1 BY <2>5, <2>7, FS_AddElement
    <2>10. Cardinality(Failed') = Cardinality(Failed) + 1 BY <2>6, <2>8, FS_AddElement
    <2>11. \A u \in Uid : Places(u)' = 1 \/ (u \in MayFail /\ Places(u)' = 0)
           BY <1>1, <2>1, <2>3, <2>4
    <2>12. Cardinality(Lost') = Cardinality(Failed') BY <1>2, <2>9, <2>10
    <2> QED BY <2>11, <2>12 DEF EveryRowOnce, Lost
  <1>4. CASE \A w \in Worker : ~EncryptErr(w)
    <2>1. \A u \in Uid : Places(u)' = Places(u) BY <1>4, PlacesStep
    <2>2. Lost' = Lost BY <2>1 DEF Lost
    <2>3. Failed' = Failed BY <1>4, FailedStep
    <2> QED BY <1>1, <1>2, <2>1, <2>2, <2>3 DEF EveryRowOnce, Lost
  <1> QED BY <1>3, <1>4

(* A row is fed, encrypted and used once, whatever the workers' pace: it   *)
(* is in one place, or a worker has failed on it, and every failed worker  *)
(* has failed on a row of its own (PrepareStream and its users).           *)
THEOREM EachRowOnce == Spec => []EveryRowOnce
  <1>1. Init => EveryRowOnce
    <2> SUFFICES ASSUME Init PROVE EveryRowOnce OBVIOUS
    <2>1. TypeInv BY TypeInit
    <2>2. ASSUME NEW u \in Uid PROVE Places(u) = 1
      <3>1. Unfed(u) = 1 BY DEF Init, Unfed
      <3>2. Count(rows, u) = 0 /\ Count(encRows, u) = 0 /\ Count(out, u) = 0
            BY CountEmpty DEF Init
      <3>3. At(task, u) = {} BY SourceAssumption DEF Init, At
      <3>4. Count(task, u) = 0 BY <3>3, FS_EmptySet DEF Count
      <3>5. PlacesSum(u) BY <2>1, PlacesCounted DEF PlacesSums
      <3> QED BY <3>1, <3>2, <3>4, <3>5 DEF PlacesSum
    <2>3. {u \in Uid : Places(u) = 0} = {} BY <2>2
    <2>4. Failed = {} BY DEF Init, Failed
    <2> QED BY <2>2, <2>3, <2>4 DEF EveryRowOnce
  <1> QED BY <1>1, TypeInit, TypeNext, OnceNext, PTL DEF Spec
=============================================================================
