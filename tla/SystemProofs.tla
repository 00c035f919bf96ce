---------------------------- MODULE SystemProofs ----------------------------
(***************************************************************************)
(* Proofs about the deployed system: what the helper alone guarantees      *)
(* carries over, the helper waits for its receiver, and with tables of the *)
(* announced size the system implements the private join.                  *)
(***************************************************************************)
EXTENDS System, HelperServerProofs

(* A step of the system is a step of the helper, or leaves it alone.       *)
LEMMA SysStep == ASSUME [SysNext]_sysVars PROVE [Next]_vars
  <1>1. ASSUME NEW q \in PullRPC, ReceiverStep(q) PROVE [Next]_vars
        BY <1>1 DEF ReceiverStep, RecvRow, RecvAll, RecvFails, JoinTables, JoinPanics, Next
  <1>2. CASE KillHelper \/ UNCHANGED sysVars BY <1>2 DEF KillHelper, sysVars
  <1> QED BY <1>1, <1>2 DEF SysNext, Alive, ConnectionLost, Next

LEMMA SysRefines == SysSpec => Spec
  <1>1. SysInit => Init BY DEF SysInit
  <1> QED BY <1>1, SysStep, PTL DEF SysSpec, Spec

(* A helper's step leaves the receivers' state alone, and unsends no row.  *)
LEMMA NextGrows ==
  ASSUME TypeInv, [Next]_vars, NEW q \in PullRPC PROVE next'[q] >= next[q]
  <1> USE DEF pushVars, convVars, pullVars
  <1>1. next \in [PullRPC -> 0 .. Cap] BY DEF TypeInv, TypeOK
  <1>2. next[q] \in Nat BY <1>1, CapType
  <1>3. CASE UNCHANGED next BY <1>2, <1>3
  <1>4. ASSUME NEW r \in PullRPC, PullStep(r) PROVE next'[q] >= next[q]
        BY <1>1, <1>2, <1>4 DEF PullStep, PullOpen, PullTake, PullSend, PullSendMissing, PullErr,
                                PullDone
  <1>5. CASE EmitStep BY <1>3, <1>5 DEF EmitStep, Emit
  <1> QED BY <1>3, <1>4, <1>5, PullQuiet DEF Next

LEMMA SysTypeNext ==
  ASSUME TypeInv, TypeInv', SysTypeOK, [SysNext]_sysVars PROVE SysTypeOK'
  <1> USE DEF SysTypeOK
  <1>1. /\ next \in [PullRPC -> 0 .. Cap] /\ next' \in [PullRPC -> 0 .. Cap] /\ Cap \in Nat
        /\ \A q \in PullRPC : next'[q] >= next[q]
        BY CapType, SysStep, NextGrows DEF TypeInv, TypeOK
  <1>2. CASE UNCHANGED <<killed, recVars>> BY <1>1, <1>2 DEF recVars
  <1>3. CASE KillHelper BY <1>1, <1>3 DEF KillHelper, recVars
  <1>4. ASSUME NEW q \in PullRPC, ReceiverStep(q) PROVE SysTypeOK'
    <2>1. CASE RecvRow(q)
      <3>1. /\ rec[q] = "run" /\ rcv[q] < next[q] /\ next' = next
            /\ rcv' = [rcv EXCEPT ![q] = @ + 1] /\ UNCHANGED <<rec, killed>>
            BY <2>1 DEF RecvRow, vars, pullVars
      <3>2. rcv[q] + 1 \in 0 .. Cap /\ rcv[q] + 1 <= next[q] BY <1>1, <3>1
      <3> QED BY <1>1, <3>1, <3>2
    <2>2. CASE RecvAll(q)
      <3>1. /\ rcv[q] = Cap /\ rec' = [rec EXCEPT ![q] = "join"] /\ UNCHANGED <<rcv, killed>>
            /\ next' = next
            BY <2>2 DEF RecvAll, AllReceivedBy, ReceiverClose, vars, pullVars
      <3> QED BY <1>1, <3>1
    <2>3. CASE RecvFails(q) \/ JoinTables(q) \/ JoinPanics(q)
      <3>1. UNCHANGED <<rcv, killed, next>>
            BY <2>3 DEF RecvFails, JoinTables, JoinPanics, vars, pullVars
      <3>2. \E to \in {"ok", "panicked", "failed"} :
               /\ rec' = [rec EXCEPT ![q] = to]
               /\ to # "failed" => rec[q] = "join"
            BY <2>3 DEF RecvFails, JoinTables, JoinPanics
      <3> QED BY <1>1, <3>1, <3>2
    <2> QED BY <1>4, <2>1, <2>2, <2>3 DEF ReceiverStep
  <1> QED BY <1>2, <1>3, <1>4 DEF SysNext, Alive, ConnectionLost, sysVars

(* Every variable of the system keeps its type; no receiver has more rows  *)
(* than were sent to it.                                                   *)
THEOREM SysTypeCorrect == SysSpec => []SysTypeOK
  <1>1. SysInit => SysTypeOK
    <2> SUFFICES ASSUME SysInit PROVE SysTypeOK OBVIOUS
    <2>1. /\ killed = FALSE /\ rcv = [q \in PullRPC |-> 0] /\ next = [q \in PullRPC |-> 0]
          /\ rec = [q \in PullRPC |-> "run"]
          BY DEF SysInit, Init
    <2>2. 0 \in 0 .. Cap BY CapType
    <2>3. rcv \in [PullRPC -> 0 .. Cap] /\ rec \in [PullRPC -> {"run"}] BY <2>1, <2>2
    <2>4. \A q \in PullRPC : rcv[q] <= next[q] /\ rec[q] = "run" BY <2>1
    <2> QED BY <2>1, <2>3, <2>4 DEF SysTypeOK
  <1> QED BY <1>1, SysTypeNext, SysRefines, TypeInvariant, PTL DEF SysSpec

-----------------------------------------------------------------------------
(* A connection ends when its receiver has all rows or when it may break.  *)
GoneInv == /\ \A q \in gone : rcv[q] = Cap \/ q \in Breakable
           /\ \A q \in PullRPC : qpc[q] = "ok" => q \in gone

LEMMA GoneNext ==
  ASSUME TypeInv, SysTypeOK, GoneInv, [SysNext]_sysVars PROVE GoneInv'
  <1> USE DEF GoneInv, pushVars, convVars, pullVars
  <1>1. /\ qpc \in [PullRPC -> {"new", "wait", "send", "ok", "err"}] /\ gone \subseteq PullRPC
        /\ next \in [PullRPC -> 0 .. Cap] /\ rcv \in [PullRPC -> 0 .. Cap] /\ Cap \in Nat
        BY CapType DEF TypeInv, TypeOK, SysTypeOK
  <1>2. CASE UNCHANGED <<qpc, gone, rcv>> BY <1>2
  <1>3. ASSUME NEW q \in PullRPC, Alive(PullStep(q)) PROVE GoneInv'
    <2>1. UNCHANGED <<rcv, gone>>
          BY <1>3 DEF Alive, recVars, PullStep, PullOpen, PullTake, PullSend, PullSendMissing,
                      PullErr, PullDone
    <2>2. \A r \in PullRPC : qpc'[r] = "ok" => qpc[r] = "ok" \/ r \in gone
          BY <1>1, <1>3 DEF Alive, PullStep, PullOpen, PullTake, PullSend, PullSendMissing,
                            PullErr, PullDone, ClosedByReceiver
    <2> QED BY <2>1, <2>2
  <1>4. ASSUME NEW q \in PullRPC, ReceiverStep(q) PROVE GoneInv'
    <2>1. CASE RecvRow(q)
      <3>1. /\ rcv' = [rcv EXCEPT ![q] = @ + 1] /\ rcv[q] < next[q] /\ UNCHANGED <<qpc, gone>>
            BY <2>1 DEF RecvRow, vars
      <3>2. rcv[q] # Cap BY <1>1, <3>1
      <3> QED BY <1>1, <3>1, <3>2
    <2>2. CASE RecvAll(q)
      <3>1. rcv[q] = Cap /\ UNCHANGED <<rcv, qpc>> /\ (gone' = gone \/ gone' = gone \union {q})
            BY <2>2 DEF RecvAll, AllReceivedBy, ReceiverClose, vars
      <3> QED BY <3>1
    <2>3. CASE RecvFails(q) \/ JoinTables(q) \/ JoinPanics(q)
          BY <1>2, <2>3 DEF RecvFails, JoinTables, JoinPanics, vars
    <2> QED BY <1>4, <2>1, <2>2, <2>3 DEF ReceiverStep
  <1>5. ASSUME NEW q \in PullRPC, ConnectionLost(q) PROVE GoneInv'
        BY <1>1, <1>5 DEF ConnectionLost, Alive, ReceiverLost, recVars
  <1>6. ASSUME NEW p \in PushRPC, Alive(PushStep(p)) PROVE UNCHANGED <<qpc, gone, rcv>>
        BY <1>6 DEF Alive, recVars, PushStep, PushReject, PushOpen, Recv, RecvEOF, RecvErr, Give,
                    GiveClosed, Reply, ReplyErr, Finish
  <1>7. ASSUME NEW w \in Worker, Alive(WorkerStep(w)) PROVE UNCHANGED <<qpc, gone, rcv>>
        BY <1>7 DEF Alive, recVars, WorkerStep, Insert, InsertFull, WorkerExit
  <1>8. CASE Alive(EmitStep) \/ Alive(MainStep) \/ KillHelper \/ UNCHANGED sysVars
        BY <1>2, <1>8 DEF Alive, recVars, EmitStep, Emit, MainStep, MainStart, MainStop, MainDrain,
                    MainExit, KillHelper, sysVars, vars
  <1> QED BY <1>2, <1>3, <1>4, <1>5, <1>6, <1>7, <1>8 DEF SysNext

(* The helper signals its end only when the receiver it served has all its *)
(* rows, or had a connection that could break.                             *)
THEOREM WaitsForReceiver == SysSpec => []NoEarlyShutdown
  <1>1. SysInit => GoneInv BY DEF SysInit, Init, GoneInv
  <1>2. PullInv /\ GoneInv => NoEarlyShutdown
        BY DEF PullInv, StopByTaker, GoneInv, NoEarlyShutdown
  <1> QED BY <1>1, <1>2, GoneNext, SysTypeCorrect, SysRefines, TypeInvariant, PullSafe, PTL
          DEF SysSpec

-----------------------------------------------------------------------------
(* A receiver that joins got as many rows as the table has positions, so   *)
(* it was sent the one table, and every position was filled.               *)
Joining(q) == rec[q] \in {"join", "ok", "panicked"}

LEMMA JoiningSent ==
  ASSUME TypeInv, PullInv, SysTypeOK, NEW q \in PullRPC, Joining(q)
  PROVE  Taken(q) /\ emitted /\ \A k \in Slot : res[k] # NoRow
  <1>1. /\ next \in [PullRPC -> 0 .. Cap] /\ rcv \in [PullRPC -> 0 .. Cap]
        /\ rcv[q] = Cap /\ rcv[q] <= next[q]
        BY DEF TypeInv, TypeOK, SysTypeOK, Joining
  <1>2. Cap \in Nat /\ Cap > 0 BY FlagsAssumption, CapType DEF Cap
  <1>3. next[q] = Cap BY <1>1, <1>2
  <1>4. Taken(q) /\ emitted BY <1>2, <1>3 DEF PullInv, SentByTaker, TableOnce
  <1>5. \A k \in Slot : k < next[q] BY <1>2, <1>3 DEF Slot
  <1> QED BY <1>4, <1>5 DEF PullInv, SentFull

Plain == Promise!Join

(* The plain join, in terms of the tables' key sets.                       *)
LEMMA JoinByKey ==
  Plain = {<<u, [c \in Client |-> <<c, u>>]>> : u \in {u \in Uid : \A c \in Client : u \in Table[c]}}
  <1> DEFINE T == [c \in Client |-> [u \in Table[c] |-> <<c, u>>]]
  <1>1. \A c \in Client : DOMAIN T[c] = Table[c] /\ \A u \in Table[c] : T[c][u] = <<c, u>>
        OBVIOUS
  <1>2. Promise!Keys = Uid BY <1>1 DEF Promise!Keys, Uid
  <1>3. \A u : Promise!Holders(u) = Client <=> \A c \in Client : u \in Table[c]
        BY <1>1 DEF Promise!Holders
  <1>4. ASSUME NEW u, \A c \in Client : u \in Table[c]
        PROVE  [c \in Client |-> T[c][u]] = [c \in Client |-> <<c, u>>]
        BY <1>1, <1>4
  <1> QED BY <1>2, <1>3, <1>4 DEF Plain, Promise!Join

(* The rows a receiver writes are rows of the plain join: each group that  *)
(* opened has a row of every source.                                       *)
LEMMA JoinedPlain ==
  ASSUME RowInv, RowsOfTables, \A k \in Slot : res[k] # NoRow,
         NEW q \in PullRPC, \A u \in Complete(q) : Opens(Group(q, u))
  PROVE  JoinedRows(q) \subseteq Plain
  <1>1. ASSUME NEW k \in Slot PROVE RowAt(k) \in AllRows
    <2>1. res[k] \in Row BY DEF RowInv, TypeInv, TypeOK
    <2> QED BY <2>1, RowOfSource DEF InTable, RowAt
  <1>2. ASSUME NEW u \in Complete(q), NEW c \in Client PROVE u \in Table[c]
    <2>1. PICK k \in Group(q, u) : RowAt(k)[1] = c
      <3>1. PICK i \in DOMAIN Sources : Sources[i] = c BY DEF Client, Range
      <3>2. PICK k \in Group(q, u) : Numbered(RowAt(k)[1], i) BY <1>2 DEF Opens
      <3> QED BY <3>1, <3>2 DEF Numbered
    <2>2. k \in Slot /\ RowAt(k)[2] = u BY <2>1 DEF Group
    <2> QED BY <1>1, <2>1, <2>2 DEF AllRows
  <1>3. Complete(q) \subseteq Uid BY DEF Complete
  <1> QED BY <1>2, <1>3, JoinByKey DEF JoinedRows

OutInv == out \in Seq(SUBSET Plain)

LEMMA OutNext ==
  ASSUME RowInv, RowsOfTables, PullInv, SysTypeOK, OutInv, [SysNext]_sysVars PROVE OutInv'
  <1>1. ASSUME NEW q \in PullRPC, JoinTables(q) PROVE OutInv'
    <2>1. \A k \in Slot : res[k] # NoRow
          BY <1>1, JoiningSent DEF RowInv, JoinTables, Joining
    <2>2. JoinedRows(q) \in SUBSET Plain BY <1>1, <2>1, JoinedPlain DEF JoinTables
    <2>3. out' = Append(out, JoinedRows(q)) BY <1>1 DEF JoinTables
    <2>4. out' \in Seq(SUBSET Plain) BY <2>2, <2>3 DEF OutInv
    <2>5. Plain' = Plain BY JoinByKey DEF Plain, Promise!Join, Promise!Keys, Promise!Holders
    <2> QED BY <2>4, <2>5 DEF OutInv
  <1>2. out' = out \/ \E q \in PullRPC : JoinTables(q)
        BY DEF SysNext, Alive, ConnectionLost, KillHelper, ReceiverStep, RecvRow, RecvAll,
               RecvFails, JoinPanics, recVars, sysVars
  <1>3. Plain' = Plain BY DEF Plain, Promise!Join, Promise!Keys, Promise!Holders
  <1> QED BY <1>1, <1>2, <1>3 DEF OutInv

LEMMA RowInvSafe == Spec => []RowInv
  <1>1. RowInv /\ TypeInv' /\ [Next]_vars => RowInv' BY RowNext
  <1> QED BY <1>1, RowInit, TypeInvariant, PTL DEF Spec

(* Whatever the sizes of the tables and however often a source connects    *)
(* again, no receiver writes a row that is not in the join.                *)
THEOREM NothingInvented == SysSpec => []OnlyPlainRows
  <1>1. SysInit => OutInv BY DEF SysInit, OutInv
  <1>2. OutInv => OnlyPlainRows
    <2> SUFFICES ASSUME OutInv, NEW i \in DOMAIN out PROVE out[i] \subseteq Promise!Join
        BY DEF OnlyPlainRows
    <2>1. out[i] \in SUBSET Plain BY DEF OutInv
    <2> QED BY <2>1 DEF Plain
  <1> QED BY <1>1, <1>2, OutNext, SysTypeCorrect, SysRefines, RowInvSafe, RowsOfTablesSafe,
             PullSafe, PTL DEF SysSpec

-----------------------------------------------------------------------------
(* With distinct ids and tables of the announced size, the groups that the *)
(* receiver opens are those of the keys that every source has.             *)

LEMMA ClientCount == ASSUME DistinctIds PROVE Cardinality(Client) = Len(Sources)
  <1> DEFINE n == Len(Sources)
  <1>1. n \in Nat /\ Sources \in [1 .. n -> Client] /\ DOMAIN Sources = 1 .. n
        BY FlagsAssumption
  <1>2. Client = {Sources[i] : i \in 1 .. n} BY <1>1 DEF Client, Range
  <1>3. Sources \in Bijection(1 .. n, Client)
        BY <1>1, <1>2 DEF DistinctIds, Bijection, Injection, Surjection, IsInjective
  <1>4. IsFiniteSet(1 .. n) /\ Cardinality(1 .. n) = n BY <1>1, FS_Interval
  <1>5. ExistsBijection(1 .. n, Client) BY <1>3 DEF ExistsBijection
  <1> QED BY <1>4, <1>5, FS_Bijection

Holding(u) == {c \in Client : u \in Table[c]}

LEMMA GroupOfHolders ==
  ASSUME ExactTable, FullTables, emitted, NEW u \in Uid,
         NEW q \in PullRPC, rcv[q] = Cap
  PROVE  /\ {RowAt(k)[1] : k \in Group(q, u)} = Holding(u)
         /\ Cardinality(Group(q, u)) = Cardinality(Holding(u))
  <1> DEFINE G == Group(q, u)
             f == [k \in G |-> RowAt(k)[1]]
  <1>0. G = {k \in Slot : RowAt(k)[2] = u} BY CapType DEF Group, Slot
  <1> HIDE DEF G
  <1>1. ASSUME NEW k \in G
        PROVE  RowAt(k) = <<RowAt(k)[1], u>> /\ RowAt(k)[1] \in Holding(u) /\ k \in Slot
    <2>1. RowAt(k) \in AllRows /\ RowAt(k)[2] = u /\ k \in Slot
          BY <1>0, <1>1 DEF ExactTable
    <2> QED BY <2>1 DEF AllRows, Holding
  <1>2. ASSUME NEW c \in Holding(u) PROVE \E k \in G : RowAt(k)[1] = c
    <2>1. <<c, u>> \in AllRows BY <1>2 DEF AllRows, Holding
    <2>2. PICK k \in Slot : RowAt(k) = <<c, u>> BY <2>1 DEF ExactTable
    <2> QED BY <1>0, <2>2
  <1>3. \A j, k \in G : RowAt(j)[1] = RowAt(k)[1] => j = k
        BY <1>1 DEF ExactTable
  <1>4. f \in Bijection(G, Holding(u))
        BY <1>1, <1>2, <1>3 DEF Bijection, Injection, Surjection, IsInjective
  <1>5. IsFiniteSet(G) BY SlotFinite, FS_Subset, <1>0
  <1>6. ExistsBijection(G, Holding(u)) BY <1>4 DEF ExistsBijection
  <1>7. Cardinality(G) = Cardinality(Holding(u)) BY <1>5, <1>6, FS_Bijection
  <1> QED BY <1>1, <1>2, <1>7 DEF G

LEMMA CompleteKeys ==
  ASSUME ExactTable, FullTables, DistinctIds, emitted, NEW u \in Uid,
         NEW q \in PullRPC, rcv[q] = Cap
  PROVE  /\ u \in Complete(q) <=> \A c \in Client : u \in Table[c]
         /\ u \in Complete(q) => Opens(Group(q, u))
  <1>1. u \in Complete(q) <=> Cardinality(Holding(u)) = Cardinality(Client)
        BY GroupOfHolders, ClientCount DEF Complete, Joinable
  <1>2. Holding(u) \subseteq Client BY DEF Holding
  <1>3. Cardinality(Holding(u)) = Cardinality(Client) <=> Holding(u) = Client
        BY <1>2, ClientFinite, FS_Subset
  <1>4. ASSUME Holding(u) = Client PROVE Opens(Group(q, u))
    <2> SUFFICES ASSUME NEW i \in DOMAIN Sources
                 PROVE  \E k \in Group(q, u) : Numbered(RowAt(k)[1], i)
        BY DEF Opens
    <2>1. Sources[i] \in Holding(u) BY <1>4 DEF Client, Range
    <2>2. PICK k \in Group(q, u) : RowAt(k)[1] = Sources[i] BY <2>1, GroupOfHolders
    <2>3. \A j \in DOMAIN Sources : Sources[j] = Sources[i] => j <= i
          BY FlagsAssumption DEF DistinctIds
    <2> QED BY <2>2, <2>3 DEF Numbered
  <1> QED BY <1>1, <1>3, <1>4 DEF Holding

LEMMA JoinedIsPlain ==
  ASSUME ExactTable, FullTables, DistinctIds, emitted, NEW q \in PullRPC, rcv[q] = Cap
  PROVE  JoinedRows(q) = Plain
  <1>1. Complete(q) = {u \in Uid : \A c \in Client : u \in Table[c]}
        BY CompleteKeys DEF Complete
  <1> QED BY <1>1, JoinByKey DEF JoinedRows

-----------------------------------------------------------------------------
(* Only the receiver that was sent the one table writes a result.          *)
OneResult == out # <<>> => \E q \in PullRPC : rec[q] = "ok"

LEMMA PublishStep ==
  ASSUME FullTables, DistinctIds, TypeInv, PullInv, SysTypeOK, ExactTable, OneResult,
         NEW q \in PullRPC, JoinTables(q)
  PROVE  OneResult' /\ Promise!Publish
  <1>1. rec[q] = "join" /\ rec' = [rec EXCEPT ![q] = "ok"] /\ out' = Append(out, JoinedRows(q))
        BY DEF JoinTables
  <1>2. Taken(q) /\ emitted BY <1>1, JoiningSent DEF Joining
  <1>3. out = <<>>
    <2> SUFFICES ASSUME NEW r \in PullRPC, rec[r] = "ok" PROVE FALSE BY DEF OneResult
    <2>1. Taken(r) BY JoiningSent DEF Joining
    <2> QED BY <1>1, <1>2, <2>1 DEF PullInv, TableOnce
  <1>4. out' = <<Plain>>
    <2>1. rcv[q] = Cap BY <1>1 DEF SysTypeOK
    <2> QED BY <1>1, <1>2, <1>3, <2>1, JoinedIsPlain
  <1>5. Published = Unpublished BY <1>3 DEF Published
  <1>6. Published' = Plain BY <1>4 DEF Published
  <1>7. OneResult' BY <1>1 DEF OneResult, SysTypeOK
  <1> QED BY <1>5, <1>6, <1>7 DEF Promise!Publish, Plain

LEMMA PublishNext ==
  ASSUME FullTables, DistinctIds, TypeInv, PullInv, SysTypeOK, ExactTable, OneResult,
         [SysNext]_sysVars
  PROVE  OneResult' /\ [Promise!Publish]_Published
  <1>1. CASE \E q \in PullRPC : JoinTables(q) BY <1>1, PublishStep
  <1>2. CASE ~\E q \in PullRPC : JoinTables(q)
    <2>1. out' = out
          BY <1>2 DEF SysNext, Alive, ConnectionLost, KillHelper, ReceiverStep, RecvRow, RecvAll,
                      RecvFails, JoinPanics, recVars, sysVars
    <2>2. \A q \in PullRPC : rec[q] = "ok" => rec'[q] = "ok"
          BY <1>2 DEF SysNext, Alive, ConnectionLost, KillHelper, ReceiverStep, RecvRow, RecvAll,
                      RecvFails, JoinPanics, recVars, sysVars, SysTypeOK
    <2> QED BY <2>1, <2>2 DEF OneResult, Published
  <1> QED BY <1>1, <1>2

(* The system implements the private join: whatever breaks, dies or is     *)
(* tried again, at most one result is written, and it is the plain join.   *)
THEOREM ImplementsJoin == FullTables /\ DistinctIds => (SysSpec => JoinSpec)
  <1> SUFFICES ASSUME FullTables, DistinctIds PROVE SysSpec => JoinSpec OBVIOUS
  <1>1. SysInit => OneResult /\ Promise!Init
        BY DEF SysInit, OneResult, Promise!Init, Published
  <1>2. TypeInv /\ PullInv /\ SysTypeOK /\ ExactTable /\ OneResult /\ [SysNext]_sysVars
           => OneResult' /\ [Promise!Publish]_Published
        BY PublishNext
  <1> QED BY <1>1, <1>2, SysRefines, SysTypeCorrect, TypeInvariant, PullSafe, FailStop, PTL
          DEF SysSpec, JoinSpec, Promise!Spec

(* No panic of the helper or of a receiver is reachable when every source  *)
(* makes one call, the ids are distinct and the tables have the announced  *)
(* size, whatever breaks or dies.                                          *)
THEOREM NobodyPanics == OneCallEach /\ FullTables /\ DistinctIds => (SysSpec => []NoPanic)
  <1> SUFFICES ASSUME OneCallEach, FullTables, DistinctIds PROVE SysSpec => []NoPanic OBVIOUS
  <1> DEFINE Calm == \A q \in PullRPC : rec[q] # "panicked"
  <1>1. SysInit => Calm BY DEF SysInit
  <1>2. ASSUME TypeInv, PullInv, SysTypeOK, ExactTable, Calm, [SysNext]_sysVars PROVE Calm'
    <2>1. ASSUME NEW q \in PullRPC, JoinPanics(q) PROVE FALSE
      <3>1. emitted BY <1>2, <2>1, JoiningSent DEF JoinPanics, Joining
      <3>2. PICK u \in Complete(q) : ~Opens(Group(q, u)) BY <2>1 DEF JoinPanics
      <3>3. rcv[q] = Cap BY <1>2, <2>1 DEF JoinPanics, SysTypeOK
      <3> QED BY <1>2, <3>1, <3>2, <3>3, CompleteKeys DEF Complete
    <2> QED BY <1>2, <2>1 DEF SysNext, Alive, ConnectionLost, KillHelper, ReceiverStep, RecvRow,
                    RecvAll, RecvFails, JoinTables, recVars, sysVars, SysTypeOK
  <1>3. NoCrash /\ Calm => NoPanic BY DEF NoCrash, NoPanic
  <1> QED BY <1>1, <1>2, <1>3, SysRefines, SysTypeCorrect, TypeInvariant, PullSafe, FailStop,
             HelperNeverPanics, PTL DEF SysSpec
=============================================================================
