------------------------- MODULE HelperServerProofs -------------------------
(***************************************************************************)
(* Proofs about HelperServer, for any sources, tables, calls, workers,     *)
(* permutation and set of breakable connections: its invariants, first on  *)
(* the sources' side and then on the receiver's, and that the helper       *)
(* implements JoinRelay when the tables have the announced size.           *)
(***************************************************************************)
EXTENDS HelperServer, FiniteSetTheorems, TLAPS

-----------------------------------------------------------------------------
(* The strengthenings that make the invariants inductive.                  *)

(* A call that was let in carries the id of a source.                      *)
OpenCalls == \A p \in PushRPC : ppc[p] \notin {"new", "err"} => SrcOf[p] \in Client

TypeInv == TypeOK /\ OpenCalls

LEMMA CapType == Cap \in Nat
  BY FlagsAssumption DEF Cap

(* The type invariant and OpenCalls hold initially.                        *)
LEMMA TypeInit == Init => TypeInv
  <1> SUFFICES ASSUME Init PROVE TypeInv OBVIOUS
  <1>1. 0 \in 0 .. Cap BY CapType
  <1>2. TypeOK BY <1>1 DEF Init, TypeOK
  <1>3. OpenCalls BY DEF Init, OpenCalls
  <1> QED BY <1>2, <1>3 DEF TypeInv

(* A step of a PushRows handler preserves them.                            *)
LEMMA TypePush == ASSUME TypeInv, NEW p \in PushRPC, PushStep(p) PROVE TypeInv'
  <1> USE DEF TypeInv, TypeOK, OpenCalls, convVars, pullVars
  <1>1. CASE PushReject(p) BY <1>1 DEF PushReject
  <1>2. CASE PushOpen(p) BY <1>2 DEF PushOpen
  <1>3. CASE Recv(p)
    <2>1. PICK u \in Unsent(p) : /\ cur' = [cur EXCEPT ![p] = Received(p, u)]
                                 /\ got' = [got EXCEPT ![p] = @ \union {u}]
          BY <1>3 DEF Recv
    <2>2. u \in Uid BY <1>3 DEF Recv, Unsent, Uid
    <2>3. Received(p, u) \in Row /\ Received(p, u) # NoRow
          BY <2>2, CallAssumption DEF Received, Row
    <2> QED BY <1>3, <2>1, <2>2, <2>3 DEF Recv
  <1>4. CASE RecvEOF(p) BY <1>4 DEF RecvEOF
  <1>5. CASE RecvErr(p) BY <1>5 DEF RecvErr
  <1>6. CASE \E w \in Worker : Give(p, w)
        BY <1>6 DEF Give
  <1>7. CASE GiveClosed(p) BY <1>7 DEF GiveClosed, pushVars
  <1>8. CASE Reply(p) BY <1>8 DEF Reply
  <1>9. CASE ReplyErr(p) BY <1>9 DEF ReplyErr
  <1>10. CASE Finish(p)
         BY <1>10 DEF Finish, StillExpected, AllReceived
  <1> QED BY <1>1, <1>2, <1>3, <1>4, <1>5, <1>6, <1>7, <1>8, <1>9, <1>10
          DEF PushStep

(* So does a step of the conversion.                                       *)
LEMMA TypeConv ==
  ASSUME TypeInv, EmitStep \/ \E w \in Worker : WorkerStep(w) PROVE TypeInv'
  <1> USE DEF TypeInv, TypeOK, OpenCalls, convVars, pullVars, pushVars
  <1>1. CASE EmitStep BY <1>1 DEF EmitStep, Emit
  <1>2. ASSUME NEW w \in Worker, Insert(w) PROVE TypeInv'
    <2>1. permIndex' \in 0 .. Cap BY <1>2, CapType DEF Insert, Advanced
    <2> QED BY <1>2, <2>1 DEF Insert
  <1>3. ASSUME NEW w \in Worker, InsertFull(w) PROVE TypeInv'
        BY <1>3 DEF InsertFull
  <1>4. ASSUME NEW w \in Worker, WorkerExit(w) PROVE TypeInv'
        BY <1>4 DEF WorkerExit
  <1> QED BY <1>1, <1>2, <1>3, <1>4 DEF WorkerStep

(* So does a step of a PullRows handler, of its client, or of main.        *)
LEMMA TypePull ==
  ASSUME TypeInv,
         \/ \E q \in PullRPC : PullStep(q) \/ ReceiverClose(q) \/ ReceiverLost(q)
         \/ MainStep
  PROVE TypeInv'
  <1> USE DEF TypeInv, TypeOK, OpenCalls, convVars, pullVars, pushVars
  <1>1. ASSUME NEW q \in PullRPC, PullStep(q) PROVE TypeInv'
    <2>1. CASE PullOpen(q) BY <2>1 DEF PullOpen
    <2>2. CASE PullTake(q) BY <2>2 DEF PullTake
    <2>3. CASE PullSend(q)
      <3>1. next[q] + 1 \in 0 .. Cap BY <2>3, CapType DEF PullSend
      <3> QED BY <2>3, <3>1 DEF PullSend
    <2>4. CASE PullSendMissing(q) BY <2>4 DEF PullSendMissing
    <2>5. CASE PullErr(q) BY <2>5 DEF PullErr
    <2>6. CASE PullDone(q) BY <2>6 DEF PullDone
    <2> QED BY <1>1, <2>1, <2>2, <2>3, <2>4, <2>5, <2>6 DEF PullStep
  <1>2. ASSUME NEW q \in PullRPC, ReceiverClose(q) \/ ReceiverLost(q) PROVE TypeInv'
        BY <1>2 DEF ReceiverClose, ReceiverLost
  <1>3. CASE MainStep
        BY <1>3 DEF MainStep, MainStart, MainStop, MainDrain, MainExit
  <1> QED BY <1>1, <1>2, <1>3

(* Every state of the helper is type-correct, and every handler that was   *)
(* let in serves one of the expected sources.                              *)
LEMMA TypeInvariant == Spec => []TypeInv
  <1>1. ASSUME TypeInv, [Next]_vars PROVE TypeInv'
    <2>1. CASE UNCHANGED vars
          BY <1>1, <2>1 DEF TypeInv, TypeOK, OpenCalls, vars, pushVars, convVars, pullVars
    <2>2. CASE Next BY <1>1, <2>2, TypePush, TypeConv, TypePull DEF Next
    <2> QED BY <1>1, <2>1, <2>2
  <1> QED BY <1>1, TypeInit, PTL DEF Spec

(* Every variable keeps its type: the handlers, workers and channels of    *)
(* cmd/helper/main.go never leave the states their code has.               *)
THEOREM TypeCorrect == Spec => []TypeOK
  <1>1. TypeInv => TypeOK BY DEF TypeInv
  <1> QED BY <1>1, TypeInvariant, PTL

-----------------------------------------------------------------------------
(* Rows on their way.  The positions of the table that are filled are the  *)
(* first permIndex ones of the permutation, and the row in a handler's     *)
(* hands came on its own call.                                             *)
FilledSlots ==
  \A k \in Slot :
     res[k] # NoRow <=> \E j \in Slot : j < permIndex /\ RowPerm[j] = k

OwnRow == \A p \in PushRPC : cur[p] # NoRow => cur[p].push = p

RowInv == TypeInv /\ FilledSlots /\ OwnRow /\ RowsAccounted

LEMMA RowInit == Init => RowInv
  <1> SUFFICES ASSUME Init PROVE RowInv OBVIOUS
  <1>1. TypeInv BY TypeInit
  <1>2. FilledSlots BY CapType DEF Init, FilledSlots, Slot
  <1>3. OwnRow BY DEF Init, OwnRow
  <1>4. \A r \in Row : ~InHandler(r) /\ ~InWorker(r) /\ ~InTable(r) /\ got[r.push] = {}
        BY CallAssumption DEF Init, InHandler, InWorker, InTable, Row
  <1>5. NothingLost BY <1>4 DEF NothingLost
  <1>6. NothingTwice BY CallAssumption DEF Init, NothingTwice, InHandler, InWorker, InTable
  <1> QED BY <1>1, <1>2, <1>3, <1>5, <1>6 DEF RowInv, RowsAccounted

(* The variables that say where the rows are.                              *)
rowVars == <<ppc, cur, got, work, res, permIndex>>

(* A received row is new: it enters its handler's hands, and no other      *)
(* place.                                                                  *)
LEMMA RowRecv ==
  ASSUME RowInv, TypeInv', NEW p \in PushRPC, Recv(p) PROVE RowInv'
  <1> USE DEF RowInv, RowsAccounted
  <1>1. PICK u \in Unsent(p) : /\ cur' = [cur EXCEPT ![p] = Received(p, u)]
                               /\ got' = [got EXCEPT ![p] = @ \union {u}]
        BY DEF Recv
  <1> DEFINE new == [push |-> p, uid |-> u]
  <1>2. /\ u \in Uid /\ u \notin got[p]
        BY DEF Recv, Unsent, Uid, TypeInv, OpenCalls
  <1>3. /\ new \in Row /\ new # NoRow /\ new.push = p /\ new.uid = u
        BY <1>2, CallAssumption DEF Row
  <1>4. /\ cur[p] = NoRow /\ cur \in [PushRPC -> Row \union {NoRow}]
        /\ got \in [PushRPC -> SUBSET Uid]
        BY DEF Recv, TypeInv, TypeOK
  <1>5. UNCHANGED <<work, res, permIndex>>
        BY DEF Recv, convVars
  <1>6. cur' = [cur EXCEPT ![p] = new] /\ got' = [got EXCEPT ![p] = @ \union {u}]
        BY <1>1 DEF Received
  <1>7. FilledSlots' BY <1>5 DEF FilledSlots
  <1>8. OwnRow' BY <1>3, <1>4, <1>6 DEF OwnRow
  <1>9. \A r \in Row : r = new <=> r.push = p /\ r.uid = u
        BY <1>3 DEF Row
  <1>10. ASSUME NEW r \in Row
         PROVE  /\ InHandler(r)' <=> InHandler(r) \/ r = new
                /\ (r.uid \in got[r.push])' <=> r.uid \in got[r.push] \/ r = new
                /\ InWorker(r)' <=> InWorker(r)
                /\ InTable(r)' <=> InTable(r)
    <2>1. r # NoRow /\ r.push \in PushRPC BY CallAssumption DEF Row
    <2>2. InHandler(r)' <=> InHandler(r) \/ r = new
          BY <1>4, <1>6, <2>1 DEF InHandler
    <2>3. (r.uid \in got[r.push])' <=> r.uid \in got[r.push] \/ r = new
          BY <1>4, <1>6, <1>9, <2>1
    <2> QED BY <1>5, <2>2, <2>3 DEF InWorker, InTable
  <1>11. ~InHandler(new) /\ ~InWorker(new) /\ ~InTable(new)
         BY <1>2, <1>3 DEF NothingLost
  <1>12. NothingLost' BY <1>10 DEF NothingLost
  <1>13. NothingTwice' BY <1>5, <1>10, <1>11 DEF NothingTwice
  <1> QED BY <1>7, <1>8, <1>12, <1>13

(* The rendezvous moves the row from the handler's hands to the worker's.  *)
LEMMA RowGive ==
  ASSUME RowInv, TypeInv', NEW p \in PushRPC, NEW w \in Worker, Give(p, w)
  PROVE  RowInv'
  <1> USE DEF RowInv, RowsAccounted
  <1> DEFINE moved == cur[p]
  <1>1. /\ moved \in Row /\ moved # NoRow /\ moved.push = p
        /\ cur \in [PushRPC -> Row \union {NoRow}]
        /\ work \in [Worker -> Row \union {NoRow}] /\ work[w] = NoRow
        BY DEF Give, TypeInv, TypeOK, OwnRow
  <1>2. /\ cur' = [cur EXCEPT ![p] = NoRow]
        /\ work' = [work EXCEPT ![w] = moved]
        /\ UNCHANGED <<got, res, permIndex>>
        BY DEF Give
  <1>3. FilledSlots' BY <1>2 DEF FilledSlots
  <1>4. OwnRow' BY <1>1, <1>2 DEF OwnRow
  <1>5. ASSUME NEW r \in Row
        PROVE  /\ InHandler(r)' <=> InHandler(r) /\ r # moved
               /\ InWorker(r)' <=> InWorker(r) \/ r = moved
               /\ InTable(r)' <=> InTable(r)
    <2>1. r # NoRow BY CallAssumption
    <2>2. \A o \in PushRPC : cur[o] = r => r.push = o BY <2>1 DEF OwnRow
    <2>3. InHandler(r)' <=> InHandler(r) /\ r # moved
          BY <1>1, <1>2, <2>1, <2>2 DEF InHandler
    <2>4. InWorker(r)' <=> InWorker(r) \/ r = moved
          BY <1>1, <1>2, <2>1 DEF InWorker
    <2> QED BY <1>2, <2>3, <2>4 DEF InTable
  <1>6. InHandler(moved) BY DEF InHandler
  <1>7. NothingLost' BY <1>2, <1>5, <1>6 DEF NothingLost
  <1>8. ASSUME NEW r \in Row, NEW v \in Worker, NEW x \in Worker,
               work'[v] = r, work'[x] = r
        PROVE  v = x
    <2>1. r # NoRow BY CallAssumption
    <2>2. CASE r = moved
          BY <1>1, <1>2, <1>6, <1>8, <2>1, <2>2 DEF NothingTwice, InWorker
    <2>3. CASE r # moved
          BY <1>1, <1>2, <1>8, <2>1, <2>3 DEF NothingTwice
    <2> QED BY <2>2, <2>3
  <1>9. NothingTwice' BY <1>1, <1>2, <1>5, <1>6, <1>8 DEF NothingTwice
  <1> QED BY <1>3, <1>4, <1>7, <1>9

(* The position a row is stored at was free.                               *)
LEMMA RowInsert ==
  ASSUME RowInv, TypeInv', NEW w \in Worker, Insert(w) PROVE RowInv'
  <1> USE DEF RowInv, RowsAccounted
  <1> DEFINE moved == work[w]
             slot == RowPerm[permIndex]
  <1>1. /\ moved \in Row /\ moved # NoRow
        /\ work \in [Worker -> Row \union {NoRow}]
        /\ res \in [Slot -> Row \union {NoRow}]
        /\ permIndex \in Nat
        BY CapType DEF Insert, TypeInv, TypeOK
  <1>2. permIndex \in Slot /\ Slot \subseteq Int
        BY <1>1, CapType DEF Insert, Slot
  <1>3. slot \in Slot BY <1>2, PermAssumption
  <1>4. /\ res' = [res EXCEPT ![slot] = moved]
        /\ permIndex' = permIndex + 1
        /\ work' = [work EXCEPT ![w] = NoRow]
        /\ UNCHANGED <<cur, got>>
        BY DEF Insert, Advanced, pushVars
  <1>5. res[slot] = NoRow
    <2>1. \A j \in Slot : j < permIndex => RowPerm[j] # slot
          BY <1>2, PermAssumption
    <2> QED BY <1>3, <2>1 DEF FilledSlots
  <1>6. FilledSlots'
    <2> SUFFICES ASSUME NEW k \in Slot
                 PROVE  res'[k] # NoRow <=>
                          \E j \in Slot : j < permIndex + 1 /\ RowPerm[j] = k
        BY <1>4 DEF FilledSlots
    <2>1. \A j \in Slot : j < permIndex + 1 <=> j < permIndex \/ j = permIndex
          BY <1>1, <1>2
    <2>2. (\E j \in Slot : j < permIndex + 1 /\ RowPerm[j] = k)
            <=> (\E j \in Slot : j < permIndex /\ RowPerm[j] = k) \/ k = slot
          BY <1>2, <2>1
    <2>3. res'[k] # NoRow <=> res[k] # NoRow \/ k = slot
          BY <1>1, <1>3, <1>4
    <2> QED BY <2>2, <2>3 DEF FilledSlots
  <1>7. OwnRow' BY <1>4 DEF OwnRow
  <1>8. InWorker(moved) BY DEF InWorker
  <1>9. ASSUME NEW r \in Row
        PROVE  /\ InHandler(r)' <=> InHandler(r)
               /\ InWorker(r)' <=> InWorker(r) /\ r # moved
               /\ InTable(r)' <=> InTable(r) \/ r = moved
    <2>1. r # NoRow BY CallAssumption
    <2>2. \A x \in Worker : work[x] = r /\ r = moved => x = w
          BY <1>1 DEF NothingTwice
    <2>3. InWorker(r)' <=> InWorker(r) /\ r # moved
          BY <1>1, <1>4, <2>1, <2>2 DEF InWorker
    <2>4. InTable(r)' <=> InTable(r) \/ r = moved
          BY <1>1, <1>3, <1>4, <1>5, <2>1 DEF InTable
    <2> QED BY <1>4, <2>3, <2>4 DEF InHandler
  <1>10. NothingLost' BY <1>4, <1>8, <1>9, <1>1 DEF NothingLost
  <1>11. ASSUME NEW r \in Row, NEW j \in Slot, NEW k \in Slot, res'[j] = r, res'[k] = r
         PROVE  j = k
    <2>1. r # NoRow BY CallAssumption
    <2>2. CASE r = moved
          BY <1>1, <1>3, <1>4, <1>8, <1>11, <2>1, <2>2 DEF NothingTwice, InTable
    <2>3. CASE r # moved
          BY <1>1, <1>3, <1>4, <1>11, <2>1, <2>3 DEF NothingTwice
    <2> QED BY <2>2, <2>3
  <1>12. ASSUME NEW r \in Row, NEW v \in Worker, NEW x \in Worker,
                work'[v] = r, work'[x] = r
         PROVE  v = x
    <2>1. r # NoRow BY CallAssumption
    <2> QED BY <1>1, <1>4, <1>12, <2>1 DEF NothingTwice
  <1>13. NothingTwice' BY <1>8, <1>9, <1>11, <1>12, <1>1 DEF NothingTwice
  <1> QED BY <1>6, <1>7, <1>10, <1>13

(* The other steps leave the rows where they are.                          *)
LEMMA RowOther ==
  ASSUME RowInv, TypeInv', UNCHANGED <<cur, got, work, res, permIndex>> PROVE RowInv'
  BY DEF RowInv, RowsAccounted, FilledSlots, OwnRow, NothingLost, NothingTwice,
         InHandler, InWorker, InTable

LEMMA RowNext == ASSUME RowInv, TypeInv', [Next]_vars PROVE RowInv'
  <1> USE DEF pushVars, convVars, pullVars
  <1>1. ASSUME NEW p \in PushRPC, PushStep(p) PROVE RowInv'
    <2>1. CASE Recv(p) BY <2>1, RowRecv
    <2>2. CASE \E w \in Worker : Give(p, w) BY <2>2, RowGive
    <2>3. CASE PushReject(p) \/ PushOpen(p) \/ RecvEOF(p) \/ RecvErr(p) \/ GiveClosed(p)
          BY <2>3, RowOther DEF PushReject, PushOpen, RecvEOF, RecvErr, GiveClosed
    <2>4. CASE Reply(p) \/ ReplyErr(p) \/ Finish(p)
          BY <2>4, RowOther DEF Reply, ReplyErr, Finish
    <2> QED BY <1>1, <2>1, <2>2, <2>3, <2>4 DEF PushStep
  <1>2. ASSUME NEW w \in Worker, WorkerStep(w) PROVE RowInv'
    <2>1. CASE Insert(w) BY <2>1, RowInsert
    <2>2. CASE InsertFull(w) \/ WorkerExit(w)
          BY <2>2, RowOther DEF InsertFull, WorkerExit
    <2> QED BY <1>2, <2>1, <2>2 DEF WorkerStep
  <1>3. CASE EmitStep BY <1>3, RowOther DEF EmitStep, Emit
  <1>4. ASSUME NEW q \in PullRPC, PullStep(q) PROVE RowInv'
    <2>1. CASE PullOpen(q) \/ PullTake(q) \/ PullSend(q)
          BY <2>1, RowOther DEF PullOpen, PullTake, PullSend
    <2>2. CASE PullSendMissing(q) \/ PullErr(q) \/ PullDone(q)
          BY <2>2, RowOther DEF PullSendMissing, PullErr, PullDone
    <2> QED BY <1>4, <2>1, <2>2 DEF PullStep
  <1>5. ASSUME NEW q \in PullRPC, ReceiverClose(q) \/ ReceiverLost(q) PROVE RowInv'
        BY <1>5, RowOther DEF ReceiverClose, ReceiverLost
  <1>6. CASE MainStep
        BY <1>6, RowOther DEF MainStep, MainStart, MainStop, MainDrain, MainExit
  <1>7. CASE UNCHANGED vars BY <1>7, RowOther DEF vars
  <1> QED BY <1>1, <1>2, <1>3, <1>4, <1>5, <1>6, <1>7 DEF Next

(* For every schedule and every set of broken streams, a row the helper    *)
(* received is in exactly one place, and any other row in none.            *)
THEOREM RowsSafe == Spec => []RowsAccounted
  <1>1. RowInv /\ TypeInv' /\ [Next]_vars => RowInv' BY RowNext
  <1>2. RowInv => RowsAccounted BY DEF RowInv
  <1> QED BY <1>1, <1>2, RowInit, TypeInvariant, PTL DEF Spec

-----------------------------------------------------------------------------
(* Complete tables.  A handler past its last row has received the whole    *)
(* table of its source; a source that is no longer expected had such a     *)
(* handler; the channel closes only when none is expected; a worker leaves *)
(* only then and with empty hands; the table leaves after the workers.     *)
PastLastRow(p) == ppc[p] \in {"reply", "finish", "ok"}

WholeTable == \A p \in PushRPC : PastLastRow(p) => Table[SrcOf[p]] \subseteq got[p]

RecordedBy == \A c \in Client \ expected :
                 \E p \in PushRPC : SrcOf[p] = c /\ ppc[p] = "ok"

ClosedLast == closed => expected = {}

IdleGone == \A w \in Worker \ alive : closed /\ work[w] = NoRow

EmittedLast == emitted => alive = {}

TableInv == WholeTable /\ RecordedBy /\ ClosedLast /\ IdleGone /\ EmittedLast

LEMMA TableInit == Init => TableInv
  BY DEF Init, TableInv, WholeTable, PastLastRow, RecordedBy, ClosedLast, IdleGone,
         EmittedLast

(* A step of a handler.  Only Finish records a source, and only RecvEOF    *)
(* ends a table.                                                           *)
LEMMA TablePush ==
  ASSUME TypeInv, TableInv, NEW p \in PushRPC, PushStep(p) PROVE TableInv'
  <1> USE DEF TableInv, convVars, pullVars, pushVars
  <1>1. /\ ppc \in [PushRPC -> {"new", "recv", "give", "reply", "finish", "ok", "err"}]
        /\ got \in [PushRPC -> SUBSET Uid]
        /\ work \in [Worker -> Row \union {NoRow}] /\ alive \subseteq Worker
        BY DEF TypeInv, TypeOK
  <1>2. ASSUME UNCHANGED <<expected, closed, alive, work, emitted, got>>,
               NEW to \in {"new", "recv", "give", "err"}, ppc[p] # "ok",
               ppc' = [ppc EXCEPT ![p] = to]
        PROVE  TableInv'
    <2>1. WholeTable' BY <1>1, <1>2 DEF WholeTable, PastLastRow
    <2>2. RecordedBy'
      <3>1. \A o \in PushRPC : ppc[o] = "ok" => ppc'[o] = "ok" BY <1>1, <1>2
      <3> QED BY <1>2, <3>1 DEF RecordedBy
    <2>3. ClosedLast' /\ IdleGone' /\ EmittedLast'
          BY <1>2 DEF ClosedLast, IdleGone, EmittedLast
    <2> QED BY <2>1, <2>2, <2>3
  <1>3. CASE PushReject(p) \/ PushOpen(p) \/ RecvErr(p) \/ ReplyErr(p)
        BY <1>2, <1>3 DEF PushReject, PushOpen, RecvErr, ReplyErr
  <1>4. CASE Recv(p)
    <2>1. /\ ppc[p] = "recv" /\ ppc' = [ppc EXCEPT ![p] = "give"]
          /\ UNCHANGED <<expected, closed, alive, work, emitted>>
          /\ \E u \in Unsent(p) : got' = [got EXCEPT ![p] = @ \union {u}]
          BY <1>4 DEF Recv
    <2>2. WholeTable' BY <1>1, <2>1 DEF WholeTable, PastLastRow
    <2>3. RecordedBy'
      <3>1. \A o \in PushRPC : ppc[o] = "ok" => ppc'[o] = "ok" BY <1>1, <2>1
      <3> QED BY <2>1, <3>1 DEF RecordedBy
    <2>4. ClosedLast' /\ IdleGone' /\ EmittedLast'
          BY <2>1 DEF ClosedLast, IdleGone, EmittedLast
    <2> QED BY <2>2, <2>3, <2>4
  <1>5. CASE RecvEOF(p) \/ Reply(p)
    <2>1. /\ ppc[p] # "ok"
          /\ \E to \in {"reply", "finish"} : ppc' = [ppc EXCEPT ![p] = to]
          /\ UNCHANGED <<expected, closed, alive, work, emitted, got>>
          BY <1>5 DEF RecvEOF, Reply
    <2>2. Table[SrcOf[p]] \subseteq got[p]
          BY <1>5 DEF RecvEOF, Reply, Ended, Unsent, WholeTable, PastLastRow
    <2>3. WholeTable' BY <1>1, <2>1, <2>2 DEF WholeTable, PastLastRow
    <2>4. RecordedBy'
      <3>1. \A o \in PushRPC : ppc[o] = "ok" => ppc'[o] = "ok" BY <1>1, <2>1
      <3> QED BY <2>1, <3>1 DEF RecordedBy
    <2>5. ClosedLast' /\ IdleGone' /\ EmittedLast'
          BY <2>1 DEF ClosedLast, IdleGone, EmittedLast
    <2> QED BY <2>3, <2>4, <2>5
  <1>6. ASSUME NEW w \in Worker, Give(p, w) PROVE TableInv'
    <2>1. /\ ppc[p] = "give" /\ ppc' = [ppc EXCEPT ![p] = "recv"]
          /\ w \in alive /\ work' = [work EXCEPT ![w] = cur[p]]
          /\ UNCHANGED <<expected, closed, alive, emitted, got>>
          BY <1>6 DEF Give
    <2>2. WholeTable' BY <1>1, <2>1 DEF WholeTable, PastLastRow
    <2>3. RecordedBy'
      <3>1. \A o \in PushRPC : ppc[o] = "ok" => ppc'[o] = "ok" BY <1>1, <2>1
      <3> QED BY <2>1, <3>1 DEF RecordedBy
    <2>4. IdleGone' BY <1>1, <2>1 DEF IdleGone
    <2>5. ClosedLast' /\ EmittedLast' BY <2>1 DEF ClosedLast, EmittedLast
    <2> QED BY <2>2, <2>3, <2>4, <2>5
  <1>7. CASE GiveClosed(p)
        BY <1>7 DEF GiveClosed, WholeTable, PastLastRow, RecordedBy, ClosedLast,
                    IdleGone, EmittedLast
  <1>8. CASE Finish(p)
    <2>1. /\ ppc[p] = "finish" /\ ppc' = [ppc EXCEPT ![p] = "ok"]
          /\ expected' = expected \ {SrcOf[p]}
          /\ closed' = (closed \/ expected' = {})
          /\ UNCHANGED <<alive, work, emitted, got>>
          BY <1>8 DEF Finish, StillExpected, AllReceived
    <2>2. WholeTable' BY <1>1, <2>1 DEF WholeTable, PastLastRow
    <2>3. RecordedBy'
      <3>1. \A o \in PushRPC : ppc[o] = "ok" => ppc'[o] = "ok" BY <1>1, <2>1
      <3>2. ppc'[p] = "ok" BY <1>1, <2>1
      <3> QED BY <2>1, <3>1, <3>2 DEF RecordedBy
    <2>4. ClosedLast' BY <2>1 DEF ClosedLast
    <2>5. IdleGone' /\ EmittedLast' BY <2>1 DEF IdleGone, EmittedLast
    <2> QED BY <2>2, <2>3, <2>4, <2>5
  <1> QED BY <1>3, <1>4, <1>5, <1>6, <1>7, <1>8 DEF PushStep

(* A step of the conversion.                                               *)
LEMMA TableConv ==
  ASSUME TypeInv, TableInv, EmitStep \/ \E w \in Worker : WorkerStep(w) PROVE TableInv'
  <1> USE DEF TableInv, pushVars, convVars, pullVars
  <1>1. work \in [Worker -> Row \union {NoRow}] /\ alive \subseteq Worker
        BY DEF TypeInv, TypeOK
  <1>2. UNCHANGED <<expected, closed, ppc, got>> => WholeTable' /\ RecordedBy' /\ ClosedLast'
        BY DEF WholeTable, PastLastRow, RecordedBy, ClosedLast
  <1>3. CASE EmitStep BY <1>2, <1>3 DEF EmitStep, Emit, WorkersDone, IdleGone, EmittedLast
  <1>4. ASSUME NEW w \in Worker, WorkerStep(w) PROVE TableInv'
    <2>1. UNCHANGED <<expected, closed, ppc, got, emitted>>
          BY <1>4 DEF WorkerStep, Insert, InsertFull, WorkerExit
    <2>2. IdleGone' /\ EmittedLast'
          BY <1>1, <1>4 DEF WorkerStep, Insert, InsertFull, WorkerExit, IdleGone, EmittedLast
    <2> QED BY <1>2, <2>1, <2>2
  <1> QED BY <1>3, <1>4

LEMMA TableOther ==
  ASSUME TableInv, UNCHANGED <<expected, closed, ppc, got, alive, work, emitted>>
  PROVE  TableInv'
  BY DEF TableInv, WholeTable, PastLastRow, RecordedBy, ClosedLast, IdleGone, EmittedLast

LEMMA TableNext == ASSUME TypeInv, TableInv, [Next]_vars PROVE TableInv'
  <1> USE DEF pushVars, convVars, pullVars
  <1>1. ASSUME NEW q \in PullRPC, PullStep(q) \/ ReceiverClose(q) \/ ReceiverLost(q)
        PROVE  UNCHANGED <<expected, closed, ppc, got, alive, work, emitted>>
        BY <1>1 DEF PullStep, PullOpen, PullTake, PullSend, PullSendMissing, PullErr,
                    PullDone, ReceiverClose, ReceiverLost
  <1>2. ASSUME MainStep \/ UNCHANGED vars
        PROVE  UNCHANGED <<expected, closed, ppc, got, alive, work, emitted>>
        BY <1>2 DEF MainStep, MainStart, MainStop, MainDrain, MainExit, vars
  <1> QED BY <1>1, <1>2, TablePush, TableConv, TableOther DEF Next

(* When the table is emitted, every source's table is in it.               *)
LEMMA EmittedComplete == TypeInv /\ RowInv /\ TableInv => TableComplete
  <1> SUFFICES ASSUME TypeInv, RowInv, TableInv, emitted, NEW c \in Client
               PROVE  \E p \in PushRPC : Stored(c, p)
      BY DEF TableComplete
  <1>1. closed /\ expected = {} /\ \A w \in Worker : work[w] = NoRow
        BY CallAssumption DEF TableInv, EmittedLast, IdleGone, ClosedLast
  <1>2. PICK p \in PushRPC : SrcOf[p] = c /\ ppc[p] = "ok"
        BY <1>1 DEF TableInv, RecordedBy
  <1>3. Table[c] \subseteq got[p]
        BY <1>2 DEF TableInv, WholeTable, PastLastRow
  <1>4. ASSUME NEW u \in Table[c]
        PROVE  \E k \in Slot : res[k] = [push |-> p, uid |-> u]
    <2> DEFINE r == [push |-> p, uid |-> u]
    <2>1. r \in Row /\ r.push = p /\ r.uid \in got[r.push] /\ r # NoRow
          BY <1>3, CallAssumption DEF Row, Uid
    <2>2. ~InWorker(r) BY <1>1, <2>1 DEF InWorker
    <2>3. cur[p] = NoRow BY <1>2 DEF TypeInv, TypeOK
    <2>4. ~InHandler(r) BY <2>1, <2>3 DEF InHandler, RowInv, OwnRow
    <2>5. InTable(r) BY <2>1, <2>2, <2>4 DEF RowInv, RowsAccounted, NothingLost
    <2> QED BY <2>5 DEF InTable
  <1> QED BY <1>2, <1>4 DEF Stored

(* Broken or repeated streams never let an incomplete table out.           *)
THEOREM TableSafe == Spec => []TableComplete
  <1>1. TypeInv /\ TableInv /\ [Next]_vars => TableInv' BY TableNext
  <1>2. RowInv /\ TypeInv' /\ [Next]_vars => RowInv' BY RowNext
  <1> QED BY <1>1, <1>2, EmittedComplete, RowInit, TableInit, TypeInvariant, PTL DEF Spec

(* If the table has as many positions as the sources have rows, a complete *)
(* table is exact: choosing a position for every row is an injection       *)
(* between sets of one cardinality, hence onto.                            *)
LEMMA CompleteIsExact == TypeInv /\ TableComplete => ExactTable
  <1> SUFFICES ASSUME TypeInv, TableComplete, FullTables, emitted
               PROVE  /\ \A k \in Slot : res[k] # NoRow /\ RowAt(k) \in AllRows
                      /\ \A x \in AllRows : \E k \in Slot : RowAt(k) = x
                      /\ \A j, k \in Slot : RowAt(j) = RowAt(k) => j = k
      BY DEF ExactTable
  <1> DEFINE Holds(x, k) == res[k] # NoRow /\ RowAt(k) = x
             F == [x \in AllRows |-> CHOOSE k \in Slot : Holds(x, k)]
  <1>1. ASSUME NEW x \in AllRows PROVE \E k \in Slot : Holds(x, k)
    <2>1. x = <<x[1], x[2]>> /\ x[1] \in Client /\ x[2] \in Table[x[1]]
          BY DEF AllRows
    <2>2. PICK p \in PushRPC : Stored(x[1], p) BY <2>1 DEF TableComplete
    <2>3. PICK k \in Slot : res[k] = [push |-> p, uid |-> x[2]]
          BY <2>1, <2>2 DEF Stored
    <2>4. res[k] \in Row BY <2>1, <2>3 DEF Row, Uid
    <2>5. res[k] # NoRow BY <2>4, CallAssumption
    <2>6. RowAt(k) = x BY <2>1, <2>2, <2>3 DEF RowAt, Stored
    <2> QED BY <2>5, <2>6
  <1>2. \A x \in AllRows : F[x] \in Slot /\ Holds(x, F[x]) BY <1>1
  <1>3. F \in [AllRows -> Slot] BY <1>2
  <1>4. \A x, y \in AllRows : F[x] = F[y] => x = y BY <1>2
  <1>5. F \in Injection(AllRows, Slot) BY <1>3, <1>4 DEF Injection, IsInjective
  <1>6. IsFiniteSet(Slot) /\ Cardinality(Slot) = Cap
    <2>1. 0 \in Int /\ Cap - 1 \in Int BY CapType
    <2>2. IsFiniteSet(0 .. Cap - 1)
          /\ Cardinality(0 .. Cap - 1) = IF 0 > Cap - 1 THEN 0 ELSE Cap - 1 - 0 + 1
          BY <2>1, FS_Interval
    <2> QED BY <2>2, CapType DEF Slot
  <1>7. F \in Surjection(AllRows, Slot)
        BY <1>5, <1>6, FS_Injection DEF FullTables
  <1>8. \A k \in Slot : \E x \in AllRows : F[x] = k
        BY <1>7 DEF Surjection
  <1>9. \A k \in Slot : res[k] # NoRow /\ RowAt(k) \in AllRows BY <1>2, <1>8
  <1>10. \A x \in AllRows : \E k \in Slot : RowAt(k) = x BY <1>2
  <1>11. ASSUME NEW j \in Slot, NEW k \in Slot, RowAt(j) = RowAt(k) PROVE j = k
    <2>1. PICK x \in AllRows : F[x] = j BY <1>8
    <2>2. PICK y \in AllRows : F[y] = k BY <1>8
    <2>3. RowAt(j) = x /\ RowAt(k) = y BY <1>2, <2>1, <2>2
    <2> QED BY <1>11, <2>1, <2>2, <2>3
  <1> QED BY <1>9, <1>10, <1>11

(* With tables of the announced size the helper is fail-stop: whatever is  *)
(* broken, retried or opened twice, an emitted table holds every row of    *)
(* every source exactly once, and nothing else.                            *)
THEOREM FailStop == Spec => []ExactTable
  BY TypeInvariant, TableSafe, CompleteIsExact, PTL

-----------------------------------------------------------------------------
(* The one table.  It leaves convTables with the call that takes it, and   *)
(* only that call ever sends.                                              *)
Taken(q) == qpc[q] \in {"send", "ok", "err"}

TableOnce == /\ convTables => emitted /\ \A q \in PullRPC : ~Taken(q)
             /\ \A q \in PullRPC : Taken(q) => emitted
             /\ \A q, r \in PullRPC : Taken(q) /\ Taken(r) => q = r

SentByTaker == \A q \in PullRPC : ~Taken(q) => next[q] = 0

(* What was sent was in the table, and `stop' follows the last row.        *)
SentFull == /\ \A q \in PullRPC : \A k \in Slot : k < next[q] => res[k] # NoRow
            /\ stop => \E q \in PullRPC : next[q] = Cap

(* Only the call that took the table signals the end.                      *)
StopByTaker == stop => \E q \in PullRPC : qpc[q] = "ok"

PullInv == TableOnce /\ SentByTaker /\ SentFull /\ StopByTaker

LEMMA PullInit == Init => PullInv
  <1> SUFFICES ASSUME Init PROVE PullInv OBVIOUS
  <1>1. \A q \in PullRPC : ~Taken(q) /\ next[q] = 0 BY DEF Init, Taken
  <1>2. \A q \in PullRPC : \A k \in Slot : ~(k < next[q])
        BY <1>1, CapType DEF Slot
  <1> QED BY <1>1, <1>2 DEF Init, PullInv, TableOnce, SentByTaker, SentFull, StopByTaker

(* Once the table has left, no source is expected and no worker writes.    *)
LEMMA EmittedQuiet ==
  ASSUME TypeInv, TableInv, emitted
  PROVE  expected = {} /\ \A w \in Worker : work[w] = NoRow
  BY CallAssumption DEF TableInv, EmittedLast, IdleGone, ClosedLast

(* A filled position of the table is never emptied.                        *)
LEMMA FilledStays ==
  ASSUME TypeInv, [Next]_vars, NEW k \in Slot, res[k] # NoRow PROVE res'[k] # NoRow
  <1> USE DEF pushVars, convVars, pullVars
  <1>1. res \in [Slot -> Row \union {NoRow}] BY DEF TypeInv, TypeOK
  <1>2. ASSUME NEW w \in Worker, Insert(w) PROVE res'[k] # NoRow
        BY <1>1, <1>2 DEF Insert
  <1>3. ASSUME NEW w \in Worker, InsertFull(w) \/ WorkerExit(w) PROVE res' = res
        BY <1>3 DEF InsertFull, WorkerExit
  <1>4. CASE EmitStep \/ MainStep \/ UNCHANGED vars
        BY <1>4 DEF EmitStep, Emit, MainStep, MainStart, MainStop, MainDrain, MainExit, vars
  <1>5. ASSUME NEW p \in PushRPC, PushStep(p) PROVE res' = res
        BY <1>5 DEF PushStep, PushReject, PushOpen, Recv, RecvEOF, RecvErr, Give, GiveClosed,
                    Reply, ReplyErr, Finish
  <1>6. ASSUME NEW q \in PullRPC, PullStep(q) \/ ReceiverClose(q) \/ ReceiverLost(q)
        PROVE  res' = res
        BY <1>6 DEF PullStep, PullOpen, PullTake, PullSend, PullSendMissing, PullErr, PullDone,
                    ReceiverClose, ReceiverLost
  <1> QED BY <1>2, <1>3, <1>4, <1>5, <1>6 DEF Next, WorkerStep

(* The table does not change once it has left.                             *)
LEMMA Frozen ==
  ASSUME TypeInv, TableInv, [Next]_vars, emitted PROVE res' = res /\ emitted'
  <1> USE DEF pushVars, convVars, pullVars
  <1>1. ASSUME NEW w \in Worker, WorkerStep(w) PROVE res' = res /\ emitted'
        BY <1>1, EmittedQuiet DEF WorkerStep, Insert, InsertFull, WorkerExit
  <1>2. CASE EmitStep \/ MainStep \/ UNCHANGED vars
        BY <1>2 DEF EmitStep, Emit, MainStep, MainStart, MainStop, MainDrain, MainExit, vars
  <1>3. ASSUME NEW p \in PushRPC, PushStep(p) PROVE res' = res /\ emitted'
        BY <1>3 DEF PushStep, PushReject, PushOpen, Recv, RecvEOF, RecvErr, Give, GiveClosed,
                    Reply, ReplyErr, Finish
  <1>4. ASSUME NEW q \in PullRPC, PullStep(q) \/ ReceiverClose(q) \/ ReceiverLost(q)
        PROVE  res' = res /\ emitted'
        BY <1>4 DEF PullStep, PullOpen, PullTake, PullSend, PullSendMissing, PullErr, PullDone,
                    ReceiverClose, ReceiverLost
  <1> QED BY <1>1, <1>2, <1>3, <1>4 DEF Next

(* The variables of the receiver's side change only in its own steps.      *)
LEMMA PullQuiet ==
  ASSUME \/ \E p \in PushRPC : PushStep(p)
         \/ \E w \in Worker : WorkerStep(w)
         \/ \E q \in PullRPC : ReceiverClose(q) \/ ReceiverLost(q)
         \/ MainStep
         \/ UNCHANGED vars
  PROVE  UNCHANGED <<convTables, qpc, next, stop, emitted>>
  <1> USE DEF pushVars, convVars, pullVars
  <1>1. ASSUME NEW w \in Worker, WorkerStep(w)
        PROVE  UNCHANGED <<convTables, qpc, next, stop, emitted>>
        BY <1>1 DEF WorkerStep, Insert, InsertFull, WorkerExit
  <1>2. CASE MainStep \/ UNCHANGED vars
        BY <1>2 DEF MainStep, MainStart, MainStop, MainDrain, MainExit, vars
  <1>3. ASSUME NEW p \in PushRPC, PushStep(p)
        PROVE  UNCHANGED <<convTables, qpc, next, stop, emitted>>
        BY <1>3 DEF PushStep, PushReject, PushOpen, Recv, RecvEOF, RecvErr, Give, GiveClosed,
                    Reply, ReplyErr, Finish
  <1>4. ASSUME NEW q \in PullRPC, ReceiverClose(q) \/ ReceiverLost(q)
        PROVE  UNCHANGED <<convTables, qpc, next, stop, emitted>>
        BY <1>4 DEF ReceiverClose, ReceiverLost
  <1> QED BY <1>1, <1>2, <1>3, <1>4

LEMMA PullNext == ASSUME TypeInv, TypeInv', PullInv, [Next]_vars PROVE PullInv'
  <1> USE DEF PullInv
  <1>1. /\ qpc \in [PullRPC -> {"new", "wait", "send", "ok", "err"}]
        /\ next \in [PullRPC -> 0 .. Cap] /\ Cap \in Nat
        BY CapType DEF TypeInv, TypeOK
  <1>2. \A k \in Slot : res[k] # NoRow => res'[k] # NoRow BY FilledStays
  <1>3. CASE UNCHANGED <<convTables, qpc, next, stop, emitted>>
        BY <1>2, <1>3 DEF TableOnce, SentByTaker, SentFull, StopByTaker, Taken
  <1>4. CASE EmitStep
    <2>1. /\ ~emitted /\ emitted' /\ convTables' /\ UNCHANGED <<qpc, next, stop>>
          BY <1>4 DEF EmitStep, Emit
    <2> QED BY <1>2, <2>1 DEF TableOnce, SentByTaker, SentFull, StopByTaker, Taken
  <1>5. ASSUME NEW q \in PullRPC, PullStep(q) PROVE PullInv'
    <2>0. UNCHANGED emitted
          BY <1>5 DEF PullStep, PullOpen, PullTake, PullSend, PullSendMissing, PullErr, PullDone,
                      convVars
    <2>1. CASE PullOpen(q) \/ PullErr(q)
      <3>1. /\ \E to \in {"wait", "err"} : qpc' = [qpc EXCEPT ![q] = to]
            /\ UNCHANGED <<convTables, next, stop>>
            /\ Taken(q)' <=> Taken(q)
            /\ qpc[q] # "ok"
            BY <1>1, <2>1 DEF PullOpen, PullErr, Taken
      <3>2. \A r \in PullRPC : Taken(r)' <=> Taken(r) BY <1>1, <3>1 DEF Taken
      <3>3. StopByTaker' BY <1>1, <3>1 DEF StopByTaker
      <3> QED BY <1>2, <2>0, <3>1, <3>2, <3>3 DEF TableOnce, SentByTaker, SentFull
    <2>2. CASE PullTake(q)
      <3>1. /\ convTables /\ ~convTables' /\ qpc' = [qpc EXCEPT ![q] = "send"]
            /\ UNCHANGED <<next, stop>>
            BY <2>2 DEF PullTake
      <3>2. \A r \in PullRPC : Taken(r)' <=> r = q BY <1>1, <3>1 DEF Taken, TableOnce
      <3>3. StopByTaker' BY <3>1 DEF StopByTaker, TableOnce, Taken
      <3> QED BY <1>2, <2>0, <3>1, <3>2, <3>3 DEF TableOnce, SentByTaker, SentFull
    <2>3. CASE PullSend(q)
      <3>1. /\ next' = [next EXCEPT ![q] = @ + 1] /\ next[q] < Cap /\ res[next[q]] # NoRow
            /\ UNCHANGED <<convTables, qpc, stop>> /\ qpc[q] = "send"
            BY <2>3 DEF PullSend, Missing
      <3>2. \A r \in PullRPC : Taken(r)' <=> Taken(r) BY <3>1 DEF Taken
      <3>3. TableOnce' /\ SentByTaker'
            BY <1>1, <2>0, <3>1, <3>2 DEF TableOnce, SentByTaker, Taken
      <3>4. \A r \in PullRPC : \A k \in Slot : k < next'[r] => res'[k] # NoRow
        <4> SUFFICES ASSUME NEW r \in PullRPC, NEW k \in Slot, k < next'[r]
                     PROVE  res[k] # NoRow
            BY <1>2
        <4>1. k \in Int /\ next[r] \in Nat BY <1>1, CapType DEF Slot
        <4>2. k < next[r] \/ (r = q /\ k = next[q]) BY <1>1, <3>1, <4>1
        <4> QED BY <3>1, <4>2 DEF SentFull
      <3>5. stop' => \E r \in PullRPC : next'[r] = Cap
        <4> SUFFICES ASSUME stop PROVE \E r \in PullRPC : next'[r] = Cap BY <3>1
        <4>1. PICK r \in PullRPC : next[r] = Cap BY DEF SentFull
        <4>2. r # q BY <3>1, <4>1, <1>1
        <4> QED BY <1>1, <3>1, <4>1, <4>2
      <3> QED BY <3>1, <3>3, <3>4, <3>5 DEF SentFull, StopByTaker
    <2>4. CASE PullSendMissing(q)
          BY <1>3, <2>0, <2>4 DEF PullSendMissing, pullVars
    <2>5. CASE PullDone(q)
      <3>1. /\ qpc' = [qpc EXCEPT ![q] = "ok"] /\ qpc[q] = "send" /\ next[q] = Cap
            /\ UNCHANGED <<convTables, next>>
            BY <2>5 DEF PullDone, ClosedByReceiver
      <3>2. \A r \in PullRPC : Taken(r)' <=> Taken(r) BY <1>1, <3>1 DEF Taken
      <3>3. TableOnce' /\ SentByTaker' BY <2>0, <3>1, <3>2 DEF TableOnce, SentByTaker
      <3>4. SentFull' BY <1>2, <3>1 DEF SentFull
      <3>5. StopByTaker' BY <1>1, <3>1 DEF StopByTaker
      <3> QED BY <3>3, <3>4, <3>5
    <2> QED BY <1>5, <2>1, <2>2, <2>3, <2>4, <2>5 DEF PullStep
  <1> QED BY <1>3, <1>4, <1>5, PullQuiet DEF Next

LEMMA PullSafe == Spec => []PullInv
  <1>1. TypeInv /\ TypeInv' /\ PullInv /\ [Next]_vars => PullInv' BY PullNext
  <1> QED BY <1>1, PullInit, TypeInvariant, PTL DEF Spec

(* Whatever arrives, the helper tells its main goroutine that the receiver *)
(* was served only when the table it sent had a row at every position.     *)
THEOREM FullyServed == Spec => []ServedFull
  <1>1. PullInv => ServedFull
    <2> SUFFICES ASSUME PullInv, stop, NEW k \in Slot PROVE res[k] # NoRow BY DEF ServedFull
    <2>1. PICK q \in PullRPC : next[q] = Cap BY DEF PullInv, SentFull
    <2>2. k < next[q] BY <2>1, CapType DEF Slot
    <2> QED BY <2>2 DEF PullInv, SentFull
  <1> QED BY <1>1, PullSafe, PTL

-----------------------------------------------------------------------------
(* What was sent, as a sequence.                                           *)

LEMMA SentByOne ==
  ASSUME TypeInv, PullInv, NEW q \in PullRPC, Taken(q)
  PROVE  Sent = [k \in 1 .. next[q] |-> RowAt(k - 1)]
  <1>1. next \in [PullRPC -> 0 .. Cap] /\ Cap \in Nat BY CapType DEF TypeInv, TypeOK
  <1>2. \A r \in PullRPC : r # q => next[r] = 0
        BY DEF PullInv, TableOnce, SentByTaker
  <1>3. {k \in 1 .. Cap : \E r \in PullRPC : k <= next[r]} = 1 .. next[q]
        BY <1>1, <1>2
  <1> QED BY <1>3 DEF Sent

LEMMA SentByNone ==
  ASSUME TypeInv, PullInv, \A q \in PullRPC : ~Taken(q)
  PROVE  Sent = <<>>
  <1>1. \A q \in PullRPC : next[q] = 0 BY DEF PullInv, SentByTaker
  <1>2. {k \in 1 .. Cap : \E r \in PullRPC : k <= next[r]} = {} BY <1>1, CapType
  <1>3. Sent = [k \in {} |-> RowAt(k - 1)] BY <1>2 DEF Sent
  <1> QED BY <1>3

(* While no row is sent, what was sent stays.                              *)
LEMMA SentStays ==
  ASSUME TypeInv, TypeInv', TableInv, PullInv, PullInv', [Next]_vars,
         UNCHANGED next
  PROVE  Sent' = Sent
  <1>1. CASE \E q \in PullRPC : Taken(q)
    <2>1. emitted BY <1>1 DEF PullInv, TableOnce
    <2>2. res' = res BY <2>1, Frozen
    <2> QED BY <2>2 DEF Sent, RowAt
  <1>2. CASE \A q \in PullRPC : ~Taken(q)
    <2>1. \A q \in PullRPC : next[q] = 0 BY <1>2 DEF PullInv, SentByTaker
    <2>2. {k \in 1 .. Cap : \E r \in PullRPC : k <= next[r]} = {} BY <2>1, CapType
    <2>3. Sent = [k \in {} |-> RowAt(k - 1)] BY <2>2 DEF Sent
    <2>4. Sent' = [k \in {} |-> RowAt(k - 1)'] BY <2>2 DEF Sent
    <2> QED BY <2>3, <2>4
  <1> QED BY <1>1, <1>2

(* A step in which nothing is sent records at most a source.               *)
LEMMA PushRelay ==
  ASSUME TypeInv, NEW p \in PushRPC, PushStep(p), Sent' = Sent
  PROVE  [Relay!Next]_(Relay!vars)
  <1>1. UNCHANGED stop
        BY DEF PushStep, PushReject, PushOpen, Recv, RecvEOF, RecvErr, Give, GiveClosed, Reply,
               ReplyErr, Finish, pullVars
  <1>2. CASE Finish(p)
    <2>1. /\ SrcOf[p] \in Client /\ expected \subseteq Client
          /\ expected' = expected \ {SrcOf[p]}
          BY <1>2 DEF Finish, StillExpected, TypeInv, TypeOK, OpenCalls
    <2>2. CASE SrcOf[p] \in expected
      <3>1. Relay!Record(SrcOf[p]) BY <1>1, <2>1, <2>2 DEF Relay!Record
      <3> QED BY <2>1, <3>1 DEF Relay!Next
    <2>3. CASE SrcOf[p] \notin expected
      <3>1. expected' = expected BY <2>1, <2>3
      <3> QED BY <1>1, <3>1 DEF Relay!vars
    <2> QED BY <2>2, <2>3
  <1>3. CASE UNCHANGED expected BY <1>1, <1>3 DEF Relay!vars
  <1>4. Finish(p) \/ UNCHANGED expected
        BY DEF PushStep, PushReject, PushOpen, Recv, RecvEOF, RecvErr, Give, GiveClosed, Reply,
               ReplyErr, pushVars
  <1> QED BY <1>2, <1>3, <1>4

(* A step of the receiver's handler delivers a row, ends, or is invisible. *)
LEMMA PullRelay ==
  ASSUME TypeInv, TypeInv', TableInv, PullInv, PullInv', ExactTable, FullTables,
         NEW q \in PullRPC, PullStep(q)
  PROVE  [Relay!Next]_(Relay!vars)
  <1> USE DEF convVars, pullVars, pushVars
  <1>1. [Next]_vars /\ UNCHANGED expected
        BY DEF Next, PullStep, PullOpen, PullTake, PullSend, PullSendMissing, PullErr, PullDone
  <1>2. CASE PullSend(q)
    <2> DEFINE n == next[q]
    <2>1. /\ qpc[q] = "send" /\ n < Cap /\ next' = [next EXCEPT ![q] = n + 1]
          /\ UNCHANGED <<qpc, stop, res>>
          BY <1>2 DEF PullSend
    <2>2. n \in Nat /\ n \in Slot /\ next'[q] = n + 1
          BY <2>1, CapType DEF TypeInv, TypeOK, Slot
    <2>3. Taken(q) /\ Taken(q)' /\ emitted
          BY <2>1 DEF Taken, PullInv, TableOnce
    <2>4. expected = {} BY <2>3, EmittedQuiet
    <2>5. Sent = [k \in 1 .. n |-> RowAt(k - 1)] BY <2>3, SentByOne
    <2>6. Sent' = [k \in 1 .. n + 1 |-> RowAt(k - 1)]
      <3>1. {k \in 1 .. Cap : \E r \in PullRPC : k <= next'[r]} = 1 .. n + 1
        <4>1. next' \in [PullRPC -> 0 .. Cap] /\ Cap \in Nat BY CapType DEF TypeInv, TypeOK
        <4>2. \A r \in PullRPC : r # q => next'[r] = 0
              BY <2>3 DEF PullInv, TableOnce, SentByTaker
        <4> QED BY <2>2, <4>1, <4>2
      <3> QED BY <2>1, <3>1 DEF Sent, RowAt
    <2>7. Sent' = Append(Sent, RowAt(n)) BY <2>2, <2>5, <2>6
    <2>8. RowAt(n) \in AllRows /\ \A j \in Slot : RowAt(j) = RowAt(n) => j = n
          BY <2>2, <2>3 DEF ExactTable
    <2>9. RowAt(n) \notin Range(Sent)
      <3> SUFFICES ASSUME NEW k \in 1 .. n, RowAt(k - 1) = RowAt(n) PROVE FALSE
          BY <2>5 DEF Range
      <3>1. k - 1 \in Slot /\ k - 1 # n BY <2>1, <2>2, CapType DEF Slot
      <3> QED BY <2>8, <3>1
    <2>10. Relay!Deliver(RowAt(n))
           BY <1>1, <2>1, <2>4, <2>7, <2>9 DEF Relay!Deliver, Range, Relay!Range
    <2> QED BY <2>8, <2>10 DEF Relay!Next
  <1>3. CASE PullDone(q)
    <2>1. /\ next[q] = Cap /\ qpc[q] = "send" /\ stop' /\ UNCHANGED next
          BY <1>3 DEF PullDone, ClosedByReceiver
    <2>2. Sent' = Sent BY <1>1, <2>1, SentStays
    <2>3. Len(Sent) = Cap
      <3>1. Sent = [k \in 1 .. Cap |-> RowAt(k - 1)] BY <2>1, SentByOne DEF Taken
      <3> QED BY <3>1, CapType
    <2>4. CASE stop BY <1>1, <2>1, <2>2, <2>4 DEF Relay!vars, TypeInv, TypeOK
    <2>5. CASE ~stop
      <3>1. Relay!Finish BY <1>1, <2>1, <2>2, <2>3, <2>5 DEF Relay!Finish, TypeInv, TypeOK
      <3> QED BY <3>1 DEF Relay!Next
    <2> QED BY <2>4, <2>5
  <1>4. CASE PullOpen(q) \/ PullTake(q) \/ PullSendMissing(q) \/ PullErr(q)
    <2>1. UNCHANGED <<next, stop>>
          BY <1>4 DEF PullOpen, PullTake, PullSendMissing, PullErr
    <2>2. Sent' = Sent BY <1>1, <2>1, SentStays
    <2> QED BY <1>1, <2>1, <2>2 DEF Relay!vars
  <1> QED BY <1>2, <1>3, <1>4 DEF PullStep

LEMMA RelayNext ==
  ASSUME TypeInv, TypeInv', TableInv, PullInv, PullInv', ExactTable, FullTables, [Next]_vars
  PROVE  [Relay!Next]_(Relay!vars)
  <1> USE DEF convVars, pullVars, pushVars
  <1>1. ASSUME NEW p \in PushRPC, PushStep(p) PROVE [Relay!Next]_(Relay!vars)
    <2>1. UNCHANGED next BY <1>1, PullQuiet
    <2>2. Sent' = Sent BY <2>1, SentStays
    <2> QED BY <1>1, <2>2, PushRelay
  <1>2. ASSUME NEW q \in PullRPC, PullStep(q) PROVE [Relay!Next]_(Relay!vars)
        BY <1>2, PullRelay
  <1>3. CASE \/ EmitStep \/ MainStep \/ UNCHANGED vars
             \/ \E w \in Worker : WorkerStep(w)
             \/ \E q \in PullRPC : ReceiverClose(q) \/ ReceiverLost(q)
    <2>1. UNCHANGED <<next, stop, expected>>
          BY <1>3 DEF EmitStep, Emit, MainStep, MainStart, MainStop, MainDrain, MainExit,
                      WorkerStep, Insert, InsertFull, WorkerExit, ReceiverClose, ReceiverLost, vars
    <2>2. Sent' = Sent BY <2>1, SentStays
    <2> QED BY <2>1, <2>2 DEF Relay!vars
  <1> QED BY <1>1, <1>2, <1>3 DEF Next

(* The helper implements JoinRelay when the tables have the announced      *)
(* size, whatever streams break, are retried or opened twice, and however  *)
(* many receivers come and go.                                             *)
THEOREM ImplementsRelay == FullTables => (Spec => RelaySpec)
  <1> SUFFICES ASSUME FullTables PROVE Spec => RelaySpec OBVIOUS
  <1>1. Init => Relay!Init
    <2> SUFFICES ASSUME Init PROVE Relay!Init OBVIOUS
    <2>1. TypeInv /\ PullInv BY TypeInit, PullInit
    <2>2. Sent = <<>> BY <2>1, SentByNone DEF Init, Taken
    <2> QED BY <2>2 DEF Init, Relay!Init
  <1>2. TypeInv /\ TypeInv' /\ TableInv /\ PullInv /\ PullInv' /\ ExactTable /\ [Next]_vars
           => [Relay!Next]_(Relay!vars)
        BY RelayNext
  <1>3. TypeInv /\ TableInv /\ [Next]_vars => TableInv' BY TableNext
  <1> QED BY <1>1, <1>2, <1>3, TableInit, TypeInvariant, PullSafe, FailStop, PTL
          DEF Spec, RelaySpec, Relay!Spec

-----------------------------------------------------------------------------
(* Panics.  A handler has only received rows of its source's table.        *)
RowsOfTables ==
  \A p \in PushRPC : got[p] # {} => SrcOf[p] \in Client /\ got[p] \subseteq Table[SrcOf[p]]

LEMMA RowsOfTablesSafe == Spec => []RowsOfTables
  <1>1. Init => RowsOfTables BY DEF Init, RowsOfTables
  <1>2. ASSUME TypeInv, RowsOfTables, [Next]_vars PROVE RowsOfTables'
    <2> USE DEF pushVars, convVars, pullVars
    <2>1. ASSUME NEW p \in PushRPC, Recv(p) PROVE RowsOfTables'
      <3>1. PICK u \in Unsent(p) : got' = [got EXCEPT ![p] = @ \union {u}]
            BY <2>1 DEF Recv
      <3>2. SrcOf[p] \in Client /\ u \in Table[SrcOf[p]] /\ got \in [PushRPC -> SUBSET Uid]
            BY <1>2, <2>1 DEF Recv, Unsent, TypeInv, TypeOK, OpenCalls
      <3> QED BY <1>2, <3>1, <3>2 DEF RowsOfTables
    <2>2. ASSUME NEW p \in PushRPC, PushStep(p), ~Recv(p) PROVE got' = got
          BY <2>2 DEF PushStep, PushReject, PushOpen, RecvEOF, RecvErr, Give, GiveClosed, Reply,
                      ReplyErr, Finish
    <2>3. ASSUME \/ EmitStep \/ MainStep \/ UNCHANGED vars
                 \/ \E w \in Worker : WorkerStep(w)
          PROVE  got' = got
          BY <2>3 DEF EmitStep, Emit, MainStep, MainStart, MainStop, MainDrain, MainExit,
                      WorkerStep, Insert, InsertFull, WorkerExit, vars
    <2>4. ASSUME NEW q \in PullRPC, PullStep(q) \/ ReceiverClose(q) \/ ReceiverLost(q)
          PROVE  got' = got
          BY <2>4 DEF PullStep, PullOpen, PullTake, PullSend, PullSendMissing, PullErr, PullDone,
                      ReceiverClose, ReceiverLost
    <2> QED BY <1>2, <2>1, <2>2, <2>3, <2>4 DEF Next, RowsOfTables
  <1> QED BY <1>1, <1>2, TypeInvariant, PTL DEF Spec

LEMMA SlotFinite == IsFiniteSet(Slot) /\ Cardinality(Slot) = Cap
  <1>1. 0 \in Int /\ Cap - 1 \in Int BY CapType
  <1>2. IsFiniteSet(0 .. Cap - 1)
        /\ Cardinality(0 .. Cap - 1) = IF 0 > Cap - 1 THEN 0 ELSE Cap - 1 - 0 + 1
        BY <1>1, FS_Interval
  <1> QED BY <1>2, CapType DEF Slot

LEMMA ClientFinite == IsFiniteSet(Client) /\ Client = Range(Sources)
  <1> DEFINE f == [i \in 1 .. Len(Sources) |-> Sources[i]]
  <1>1. Len(Sources) \in Nat /\ Sources \in [1 .. Len(Sources) -> Client]
        BY FlagsAssumption
  <1>2. Client = {Sources[i] : i \in 1 .. Len(Sources)}
        BY <1>1, DOMAIN Sources = 1 .. Len(Sources) DEF Client, Range
  <1>3. f \in Surjection(1 .. Len(Sources), Client) BY <1>1, <1>2 DEF Surjection
  <1>4. IsFiniteSet(1 .. Len(Sources)) BY <1>1, FS_Interval
  <1> QED BY <1>3, <1>4, FS_Surjection DEF Client

LEMMA AllRowsFinite == IsFiniteSet(AllRows)
  <1>1. IsFiniteSet(Client \X Uid) BY ClientFinite, TableAssumption, FS_Product
  <1> QED BY <1>1, FS_Subset DEF AllRows

(* A row in the table or in a worker's hands is a row of a source.         *)
LEMMA RowOfSource ==
  ASSUME RowInv, RowsOfTables, NEW r \in Row, InWorker(r) \/ InTable(r)
  PROVE  SrcOf[r.push] \in Client /\ <<SrcOf[r.push], r.uid>> \in AllRows
  <1>1. r.push \in PushRPC /\ r.uid \in Uid BY DEF Row
  <1>2. r.uid \in got[r.push] BY DEF RowInv, RowsAccounted, NothingLost
  <1> QED BY <1>1, <1>2 DEF RowsOfTables, AllRows

(* With one call of each source there is a place for every row.            *)
LEMMA RoomForAll ==
  ASSUME OneCallEach, FullTables, RowInv, RowsOfTables,
         NEW w \in Worker, work[w] # NoRow
  PROVE  permIndex < Cap
  <1> SUFFICES ASSUME permIndex = Cap PROVE FALSE
      BY CapType DEF RowInv, TypeInv, TypeOK
  <1>1. RowPerm \in Injection(Slot, Slot)
        BY PermAssumption DEF Injection, IsInjective
  <1>2. RowPerm \in Surjection(Slot, Slot) BY <1>1, SlotFinite, FS_Injection
  <1>3. \A j \in Slot : j < permIndex BY CapType DEF Slot
  <1>4. \A k \in Slot : \E j \in Slot : RowPerm[j] = k BY <1>2 DEF Surjection
  <1>5. ASSUME NEW k \in Slot
        PROVE  res[k] \in Row /\ InTable(res[k]) /\ RowAt(k) \in AllRows
    <2>1. res[k] # NoRow BY <1>3, <1>4 DEF RowInv, FilledSlots
    <2>2. res[k] \in Row BY <2>1 DEF RowInv, TypeInv, TypeOK
    <2> QED BY <2>2, RowOfSource DEF InTable, RowAt
  <1>6. ASSUME NEW r \in Row, NEW s \in Row, InTable(r), InWorker(s) \/ InTable(s),
               SrcOf[r.push] = SrcOf[s.push], r.uid = s.uid
        PROVE  r = s
    <2>1. r.push = s.push BY <1>6, RowOfSource DEF Row, OneCallEach
    <2> QED BY <1>6, <2>1 DEF Row
  <1> DEFINE G == [k \in Slot |-> RowAt(k)]
  <1>7. G \in Injection(Slot, AllRows)
    <2>1. G \in [Slot -> AllRows] BY <1>5
    <2>2. ASSUME NEW j \in Slot, NEW k \in Slot, RowAt(j) = RowAt(k) PROVE j = k
      <3>1. res[j] = res[k] BY <1>5, <1>6, <2>2 DEF RowAt
      <3> QED BY <1>5, <3>1 DEF RowInv, RowsAccounted, NothingTwice
    <2> QED BY <2>1, <2>2 DEF Injection, IsInjective
  <1>8. G \in Surjection(Slot, AllRows)
        BY <1>7, AllRowsFinite, SlotFinite, FS_Injection DEF FullTables
  <1> DEFINE r == work[w]
  <1>9. r \in Row /\ InWorker(r) BY DEF RowInv, TypeInv, TypeOK, InWorker
  <1>10. PICK k \in Slot : RowAt(k) = <<SrcOf[r.push], r.uid>>
         BY <1>8, <1>9, RowOfSource DEF Surjection
  <1>11. res[k] = r BY <1>5, <1>6, <1>9, <1>10 DEF RowAt
  <1> QED BY <1>5, <1>9, <1>11 DEF RowInv, RowsAccounted, NothingTwice

NoCrash == crash = "none"

LEMMA NoCrashNext ==
  ASSUME OneCallEach, FullTables, RowInv, TableInv, PullInv, RowsOfTables, ExactTable,
         NoCrash, [Next]_vars
  PROVE  NoCrash'
  <1> USE DEF NoCrash, pushVars, convVars, pullVars
  <1>1. ASSUME NEW p \in PushRPC, PushStep(p) PROVE NoCrash'
    <2>1. ASSUME closed, ppc[p] \in {"give", "finish"} PROVE FALSE
      <3>1. SrcOf[p] \in Client /\ expected = {}
            BY <2>1 DEF RowInv, TypeInv, OpenCalls, TableInv, ClosedLast
      <3>2. PICK o \in PushRPC : SrcOf[o] = SrcOf[p] /\ ppc[o] = "ok"
            BY <3>1 DEF TableInv, RecordedBy
      <3> QED BY <2>1, <3>1, <3>2 DEF OneCallEach
    <2>2. CASE Finish(p) BY <2>1, <2>2 DEF Finish
    <2>3. CASE GiveClosed(p) BY <2>1, <2>3 DEF GiveClosed
    <2> QED BY <1>1, <2>2, <2>3 DEF PushStep, PushReject, PushOpen, Recv, RecvEOF, RecvErr,
                                    Give, Reply, ReplyErr
  <1>2. ASSUME NEW w \in Worker, WorkerStep(w) PROVE NoCrash'
    <2>1. ~InsertFull(w)
      <3> SUFFICES ASSUME InsertFull(w) PROVE FALSE OBVIOUS
      <3>1. permIndex < Cap /\ permIndex \in Nat
            BY RoomForAll, CapType DEF InsertFull, RowInv, TypeInv, TypeOK
      <3> QED BY <3>1, CapType DEF InsertFull
    <2> QED BY <1>2, <2>1 DEF WorkerStep, Insert, WorkerExit
  <1>3. ASSUME NEW q \in PullRPC, PullStep(q) PROVE NoCrash'
    <2>1. CASE PullSendMissing(q)
      <3>1. next[q] \in Slot
            BY <2>1, CapType DEF PullSendMissing, RowInv, TypeInv, TypeOK, Slot
      <3>2. emitted BY <2>1 DEF PullSendMissing, PullInv, TableOnce, Taken
      <3> QED BY <2>1, <3>1, <3>2 DEF PullSendMissing, Missing, ExactTable
    <2>2. CASE PullDone(q)
      <3>1. ~stop BY <2>2 DEF PullDone, PullInv, StopByTaker, TableOnce, Taken
      <3> QED BY <2>2, <3>1 DEF PullDone
    <2> QED BY <1>3, <2>1, <2>2 DEF PullStep, PullOpen, PullTake, PullSend, PullErr
  <1>4. ASSUME NEW q \in PullRPC, ReceiverClose(q) \/ ReceiverLost(q) PROVE NoCrash'
        BY <1>4 DEF ReceiverClose, ReceiverLost
  <1>5. CASE EmitStep \/ MainStep \/ UNCHANGED vars
        BY <1>5 DEF EmitStep, Emit, MainStep, MainStart, MainStop, MainDrain, MainExit, vars
  <1> QED BY <1>1, <1>2, <1>3, <1>4, <1>5 DEF Next

(* No panic of the helper is reachable when every source makes one call,   *)
(* which may break at any moment, and the tables have the announced size.  *)
LEMMA HelperNeverPanics == OneCallEach /\ FullTables => (Spec => []NoCrash)
  <1> SUFFICES ASSUME OneCallEach, FullTables PROVE Spec => []NoCrash OBVIOUS
  <1>1. Init => NoCrash BY DEF Init, NoCrash
  <1>2. RowInv /\ TableInv /\ PullInv /\ RowsOfTables /\ ExactTable /\ NoCrash /\ [Next]_vars
           => NoCrash'
        BY NoCrashNext
  <1>3. TypeInv /\ TableInv /\ [Next]_vars => TableInv' BY TableNext
  <1>4. RowInv /\ TypeInv' /\ [Next]_vars => RowInv' BY RowNext
  <1> QED BY <1>1, <1>2, <1>3, <1>4, TableInit, RowInit, TypeInvariant, PullSafe,
             RowsOfTablesSafe, FailStop, PTL DEF Spec
=============================================================================
