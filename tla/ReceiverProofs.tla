--------------------------- MODULE ReceiverProofs ---------------------------
(***************************************************************************)
(* Proofs about ReceiverPipeline: no converter ever sends on the closed    *)
(* channel, and for a stream in which no source repeats a key the receiver *)
(* implements the private join, for every stream and pool.                 *)
(***************************************************************************)
EXTENDS ReceiverPipeline, DataLemmas

LEMMA Flags ==
  /\ Len(Sources) \in Nat /\ Len(Sources) >= 2 /\ DOMAIN Sources = 1 .. Len(Sources)
  /\ \A j \in 1 .. Len(Sources) : Sources[j] \in Client
  /\ \A c \in Client : \E j \in 1 .. Len(Sources) : Sources[j] = c
  /\ NumRows \in Nat /\ NumRows > 0 /\ None \notin RowNo
  /\ \A i \in RowNo : Stream[i].src \in 1 .. Len(Sources) /\ Stream[i].key \in Keys
  <1>1. Len(Sources) \in Nat /\ DOMAIN Sources = 1 .. Len(Sources) /\ Len(Sources) >= 2
        BY FlagsAssumption
  <1>2. Client = {Sources[j] : j \in 1 .. Len(Sources)} BY <1>1 DEF Client, Range
  <1>3. NumRows \in Nat /\ NumRows > 0 /\ None \notin RowNo
        BY StreamAssumption DEF NumRows, RowNo, None
  <1>4. \A i \in RowNo : Stream[i].src \in 1 .. Len(Sources) /\ Stream[i].key \in Keys
        BY StreamAssumption DEF RowNo, NumRows, Keys
  <1> QED BY <1>1, <1>2, <1>3, <1>4

-----------------------------------------------------------------------------
(* The type invariant, with what each goroutine of the pools holds.        *)
HoldInv == \A w \in Worker : /\ conv[w] = "put" <=> hold[w] # None
                             /\ grp[w] = "put" <=> grpHold[w] # None
                             /\ main = "spawn" => grp[w] = "unborn"

TypeInv == TypeOK /\ HoldInv

LEMMA TypeInit == Init => TypeInv
  <1> SUFFICES ASSUME Init PROVE TypeInv OBVIOUS
  <1>1. /\ conv = [w \in Worker |-> "unborn"] /\ hold = [w \in Worker |-> None]
        /\ grp = [w \in Worker |-> "unborn"] /\ grpHold = [w \in Worker |-> None]
        /\ dec = [w \in Worker |-> "unborn"] /\ decHold = [w \in Worker |-> {}]
        /\ groups = [k \in Keys |-> {}]
        BY DEF Init
  <1>2. {w \in Worker : conv[w] \in {"range", "put"}} = {} BY <1>1
  <1>3. wg = Cardinality({w \in Worker : conv[w] \in {"range", "put"}})
        BY <1>2, FS_EmptySet DEF Init
  <1>4. rc \in 0 .. NumRows /\ inRowApi \in Seq(RowNo) /\ inRows \in Seq(RowNo)
        BY Flags DEF Init
  <1>5. HoldInv BY <1>1 DEF HoldInv
  <1>6. /\ conv \in [Worker -> {"unborn"}] /\ grp \in [Worker -> {"unborn"}]
        /\ dec \in [Worker -> {"unborn"}] /\ hold \in [Worker -> {None}]
        /\ grpHold \in [Worker -> {None}] /\ decHold \in [Worker -> SUBSET RowNo]
        /\ groups \in [Keys -> SUBSET RowNo]
        BY <1>1
  <1> QED BY <1>3, <1>4, <1>5, <1>6 DEF Init, TypeInv, TypeOK

(* The WaitGroup counts the converters at work.                            *)
LEMMA TypeConv ==
  ASSUME TypeInv, NEW w \in Worker, Converter(w) \/ Spawn(w) PROVE TypeInv'
  <1> USE DEF TypeInv, TypeOK, HoldInv, readVars, convVars, grpVars, decVars
  <1> DEFINE B == {v \in Worker : conv[v] \in {"range", "put"}}
  <1>1. IsFiniteSet(B) BY PoolAssumption, FS_Subset
  <1>2. CASE ConvTake(w)
    <2>1. Head(inRowApi) \in RowNo /\ Tail(inRowApi) \in Seq(RowNo) BY <1>2 DEF ConvTake
    <2>2. B' = B BY <1>2 DEF ConvTake
    <2> QED BY <1>2, <2>1, <2>2, Flags DEF ConvTake
  <1>3. CASE ConvPut(w)
    <2>1. hold[w] \in RowNo BY <1>3 DEF ConvPut
    <2>2. inRows' \in Seq(RowNo) BY <1>3, <2>1 DEF ConvPut
    <2>3. B' = B BY <1>3 DEF ConvPut
    <2> QED BY <1>3, <2>2, <2>3 DEF ConvPut
  <1>4. CASE ConvDone(w)
    <2>1. w \in B /\ B' = B \ {w} BY <1>4 DEF ConvDone
    <2>2. wg' = Cardinality(B') BY <1>1, <1>4, <2>1, FS_RemoveElement DEF ConvDone
    <2>3. /\ conv' \in [Worker -> {"unborn", "range", "put", "once", "wait", "woken", "close", "end"}]
          /\ \A v \in Worker : conv'[v] = "put" <=> conv[v] = "put"
          BY <1>4 DEF ConvDone
    <2>4. UNCHANGED <<readVars, hold, once, inRows, rowsClosed, grpVars, decVars, main, crash>>
          BY <1>4 DEF ConvDone
    <2> QED BY <2>2, <2>3, <2>4
  <1>5. CASE OnceEnter(w) \/ OnceWake(w) \/ OnceClose(w) \/ OnceSkip(w)
    <2>1. B' = B BY <1>5 DEF OnceEnter, OnceWake, OnceClose, OnceSkip
    <2>2. /\ conv' \in [Worker -> {"unborn", "range", "put", "once", "wait", "woken", "close", "end"}]
          /\ \A v \in Worker : conv'[v] = "put" <=> conv[v] = "put"
          BY <1>5 DEF OnceEnter, OnceWake, OnceClose, OnceSkip
    <2>3. /\ rowsClosed' \in BOOLEAN /\ once' \in {"free", "busy", "done"}
          /\ crash' \in {"none", "RecvFailed", "SendOnClosed", "DecryptFailed", "WaitGroupReused"}
          BY <1>5 DEF OnceEnter, OnceWake, OnceClose, OnceSkip
    <2>4. UNCHANGED <<readVars, hold, wg, inRows, grpVars, decVars, main>>
          BY <1>5 DEF OnceEnter, OnceWake, OnceClose, OnceSkip
    <2> QED BY <2>1, <2>2, <2>3, <2>4
  <1>6. CASE Spawn(w)
    <2>1. w \notin B /\ B' = B \union {w} BY <1>6 DEF Spawn
    <2>2. wg' = Cardinality(B') BY <1>1, <1>6, <2>1, FS_AddElement DEF Spawn, Counted
    <2> QED BY <1>6, <2>2 DEF Spawn
  <1> QED BY <1>2, <1>3, <1>4, <1>5, <1>6 DEF Converter

LEMMA TypeNext == ASSUME TypeInv, [Next]_vars PROVE TypeInv'
  <1> USE DEF TypeInv, TypeOK, HoldInv, readVars, convVars, grpVars, decVars
  <1>1. CASE Reader
    <2>1. CASE Recv
      <3>1. rc + 1 \in RowNo /\ rc + 1 \in 0 .. NumRows BY <2>1, Flags DEF Recv, RowNo
      <3>2. inRowApi' \in Seq(RowNo) BY <2>1, <3>1 DEF Recv
      <3> QED BY <2>1, <3>1, <3>2 DEF Recv
    <2>2. CASE RecvAll BY <2>2 DEF RecvAll, ClosedAfterLast
    <2>3. CASE RecvErr BY <2>3 DEF RecvErr
    <2> QED BY <1>1, <2>1, <2>2, <2>3 DEF Reader
  <1>2. ASSUME NEW w \in Worker, Unblinder(w) PROVE TypeInv'
    <2>1. CASE GrpTake(w)
      <3>1. Head(inRows) \in RowNo /\ Tail(inRows) \in Seq(RowNo) BY <2>1 DEF GrpTake
      <3> QED BY <2>1, <3>1, Flags DEF GrpTake
    <2>2. CASE GrpPut(w)
      <3>1. grpHold[w] \in RowNo BY <2>2 DEF GrpPut
      <3>2. groups' \in [Keys -> SUBSET RowNo] BY <2>2, <3>1, Flags DEF GrpPut, Appended
      <3> QED BY <2>2, <3>2 DEF GrpPut
    <2>3. CASE GrpEnd(w) BY <2>3 DEF GrpEnd
    <2> QED BY <1>2, <2>1, <2>2, <2>3 DEF Unblinder
  <1>3. ASSUME NEW w \in Worker, Decrypter(w) PROVE TypeInv'
        BY <1>3 DEF Decrypter, Decrypt, DecEnd
  <1>4. CASE StartGrouping \/ StartIntersect \/ CloseTasks \/ WriteResult
    <2>1. CASE StartGrouping
      <3>1. grp' = [w \in Worker |-> "range"] /\ \A w \in Worker : grp'[w] = "range"
            BY <2>1 DEF StartGrouping
      <3> QED BY <2>1, <3>1 DEF StartGrouping
    <2>2. CASE StartIntersect
      <3>1. dec' = [w \in Worker |-> "range"] BY <2>2 DEF StartIntersect
      <3> QED BY <2>2, <3>1 DEF StartIntersect
    <2> QED BY <1>4, <2>1, <2>2 DEF CloseTasks, WriteResult
  <1>5. ASSUME NEW k \in Keys, SkipGroup(k) \/ \E w \in Worker : SendGroup(k, w) PROVE TypeInv'
    <2>1. visited' \subseteq Keys BY <1>5 DEF SkipGroup, SendGroup
    <2>2. CASE SkipGroup(k) BY <2>1, <2>2 DEF SkipGroup
    <2>3. ASSUME NEW w \in Worker, SendGroup(k, w) PROVE TypeInv'
      <3>1. groups[k] \in SUBSET RowNo OBVIOUS
      <3>2. decHold' \in [Worker -> SUBSET RowNo] BY <2>3, <3>1 DEF SendGroup
      <3> QED BY <2>1, <2>3, <3>2 DEF SendGroup
    <2> QED BY <1>5, <2>2, <2>3
  <1>6. CASE UNCHANGED vars BY <1>6 DEF vars
  <1> QED BY <1>1, <1>2, <1>3, <1>4, <1>5, <1>6, TypeConv DEF Next, Main

(* Every variable keeps its type, and the WaitGroup always counts the      *)
(* converters that are started and not done.                               *)
THEOREM TypeCorrect == Spec => []TypeOK
  <1>1. TypeInv => TypeOK BY DEF TypeInv
  <1> QED BY <1>1, TypeInit, TypeNext, PTL DEF Spec

-----------------------------------------------------------------------------
(* What follows from a closed channel: nothing is left in it, and nobody   *)
(* has anything more to put into it.                                       *)
Drained ==
  /\ apiClosed => rc = NumRows
  /\ \A w \in Worker : conv[w] \in {"once", "wait", "woken", "close", "end"}
                         => apiClosed /\ inRowApi = <<>>
  /\ rowsClosed => \E w \in Worker : conv[w] = "end"
  /\ rowsClosed \/ (\E w \in Worker : conv[w] \in {"woken", "close"})
       => \A v \in Worker : conv[v] # "put"
  /\ \A w \in Worker : grp[w] = "end" => rowsClosed /\ inRows = <<>>
  /\ crash # "SendOnClosed"

LEMMA NoneBusy ==
  ASSUME TypeInv, wg = 0 PROVE \A v \in Worker : conv[v] \notin {"range", "put"}
  <1> DEFINE B == {v \in Worker : conv[v] \in {"range", "put"}}
  <1>1. IsFiniteSet(B) /\ Cardinality(B) = 0
        BY PoolAssumption, FS_Subset DEF TypeInv, TypeOK
  <1>2. B = {} BY <1>1, FS_EmptySet
  <1> QED BY <1>2

LEMMA NoneBusyPrime ==
  ASSUME TypeInv', wg' = 0 PROVE \A v \in Worker : conv'[v] \notin {"range", "put"}
  <1> DEFINE B == {v \in Worker : conv'[v] \in {"range", "put"}}
  <1>1. IsFiniteSet(B) /\ Cardinality(B) = 0
        BY PoolAssumption, FS_Subset DEF TypeInv, TypeOK
  <1>2. B = {} BY <1>1, FS_EmptySet
  <1> QED BY <1>2

LEMMA DrainedConv ==
  ASSUME TypeInv, TypeInv', Drained, NEW w \in Worker, Converter(w) PROVE Drained'
  <1> USE DEF TypeInv, TypeOK, HoldInv, readVars, convVars, grpVars, decVars
  <1>1. CASE ConvTake(w)
    <2>1. /\ inRowApi # <<>> /\ conv[w] = "range" /\ conv' = [conv EXCEPT ![w] = "put"]
          /\ UNCHANGED <<rc, apiClosed, inRows, rowsClosed, grp, crash>>
          BY <1>1 DEF ConvTake
    <2>2. ~rowsClosed /\ \A v \in Worker : conv[v] \notin {"once", "wait", "woken", "close", "end"}
          BY <2>1 DEF Drained
    <2>3. \A v \in Worker : conv'[v] \notin {"once", "wait", "woken", "close", "end"}
          BY <2>1, <2>2
    <2> QED BY <2>1, <2>2, <2>3 DEF Drained
  <1>2. CASE ConvPut(w)
    <2>1. ~rowsClosed BY <1>2 DEF ConvPut, Drained
    <2> QED BY <1>2, <2>1 DEF ConvPut, Drained
  <1>3. CASE ConvDone(w)
    <2>1. /\ conv'[w] = "once" /\ apiClosed /\ inRowApi = <<>> /\ conv[w] = "range"
          /\ \A v \in Worker \ {w} : conv'[v] = conv[v] \/ (conv'[v] = "woken" /\ wg' = 0)
          /\ UNCHANGED <<rc, apiClosed, inRowApi, inRows, rowsClosed, grp, crash>>
          BY <1>3 DEF ConvDone
    <2>2. rowsClosed => \E v \in Worker : conv'[v] = "end"
      <3> SUFFICES ASSUME rowsClosed PROVE \E v \in Worker : conv'[v] = "end" OBVIOUS
      <3>1. PICK v \in Worker : conv[v] = "end" BY DEF Drained
      <3>2. conv'[v] = "end" BY <1>3, <3>1 DEF ConvDone
      <3> QED BY <3>2
    <2>3. ASSUME NEW v \in Worker, conv'[v] = "put" PROVE conv[v] = "put"
          BY <2>1, <2>3
    <2>4. ASSUME NEW v \in Worker, conv'[v] \in {"woken", "close"}, wg' # 0
          PROVE  conv[v] \in {"woken", "close"}
          BY <2>1, <2>4
    <2>5. wg' = 0 => \A v \in Worker : conv'[v] # "put" BY NoneBusyPrime
    <2> QED BY <2>1, <2>2, <2>3, <2>4, <2>5 DEF Drained
  <1>4. CASE OnceEnter(w)
    <2>1. wg = 0 => \A v \in Worker : conv[v] \notin {"range", "put"} BY NoneBusy
    <2> QED BY <1>4, <2>1 DEF OnceEnter, Drained, AllDone
  <1>5. CASE OnceWake(w) \/ OnceClose(w) \/ OnceSkip(w)
        BY <1>5 DEF OnceWake, OnceClose, OnceSkip, Drained
  <1> QED BY <1>1, <1>2, <1>3, <1>4, <1>5 DEF Converter

LEMMA DrainedNext == ASSUME TypeInv, TypeInv', Drained, [Next]_vars PROVE Drained'
  <1> USE DEF TypeInv, TypeOK, HoldInv, readVars, convVars, grpVars, decVars
  <1>1. CASE Reader
    <2>1. ~apiClosed /\ \A w \in Worker : conv[w] \notin {"once", "wait", "woken", "close", "end"}
          BY <1>1 DEF Reader, Recv, RecvAll, RecvErr, Drained
    <2> QED BY <1>1, <2>1 DEF Reader, Recv, RecvAll, RecvErr, Drained
  <1>2. ASSUME NEW w \in Worker, Unblinder(w) PROVE Drained'
    <2>1. CASE GrpTake(w) BY <2>1 DEF GrpTake, Drained
    <2>2. CASE GrpPut(w) BY <2>2 DEF GrpPut, Drained
    <2>3. CASE GrpEnd(w) BY <2>3 DEF GrpEnd, Drained
    <2> QED BY <1>2, <2>1, <2>2, <2>3 DEF Unblinder
  <1>3. ASSUME NEW w \in Worker, Decrypter(w) PROVE Drained'
        BY <1>3 DEF Decrypter, Decrypt, DecEnd, Drained
  <1>4. ASSUME NEW w \in Worker, Spawn(w) PROVE Drained'
        BY <1>4 DEF Spawn, Drained
  <1>5. CASE StartGrouping \/ StartIntersect \/ CloseTasks \/ WriteResult
        BY <1>5 DEF StartGrouping, StartIntersect, CloseTasks, WriteResult, Drained
  <1>6. ASSUME NEW k \in Keys, SkipGroup(k) \/ \E w \in Worker : SendGroup(k, w) PROVE Drained'
        BY <1>6 DEF SkipGroup, SendGroup, Drained
  <1>7. CASE UNCHANGED vars BY <1>7 DEF vars, Drained
  <1> QED BY <1>1, <1>2, <1>3, <1>4, <1>5, <1>6, <1>7, DrainedConv DEF Next, Main

-----------------------------------------------------------------------------
(* Every downloaded row is somewhere, and in no group but its own.         *)
Somewhere(i) ==
  \/ i \in Range(inRowApi) \/ i \in Range(inRows) \/ i \in groups[Stream[i].key]
  \/ \E w \in Worker : hold[w] = i \/ grpHold[w] = i

NoneLost == \A i \in 1 .. rc : Somewhere(i)

OwnGroup == \A k \in Keys : \A i \in groups[k] : Stream[i].key = k

LEMMA OwnGroupNext == ASSUME TypeInv, OwnGroup, [Next]_vars PROVE OwnGroup'
  <1> USE DEF TypeInv, TypeOK, HoldInv, readVars, convVars, grpVars, decVars, OwnGroup
  <1>1. ASSUME NEW w \in Worker, GrpPut(w) PROVE OwnGroup'
    <2>1. grpHold[w] \in RowNo BY <1>1 DEF GrpPut
    <2> QED BY <1>1, <2>1, Flags DEF GrpPut, Appended
  <1>2. CASE groups' = groups BY <1>2
  <1>3. groups' = groups \/ \E w \in Worker : GrpPut(w)
    <2>1. CASE Reader BY <2>1 DEF Reader, Recv, RecvAll, RecvErr
    <2>2. ASSUME NEW w \in Worker, Converter(w) PROVE groups' = groups
          BY <2>2 DEF Converter, ConvTake, ConvPut, ConvDone, OnceEnter, OnceWake,
                      OnceClose, OnceSkip
    <2>3. ASSUME NEW w \in Worker, Unblinder(w) PROVE groups' = groups \/ GrpPut(w)
          BY <2>3 DEF Unblinder, GrpTake, GrpEnd
    <2>4. ASSUME NEW w \in Worker, Decrypter(w) PROVE groups' = groups
          BY <2>4 DEF Decrypter, Decrypt, DecEnd
    <2>5. CASE Main
          BY <2>5 DEF Main, Spawn, StartGrouping, StartIntersect, SkipGroup, SendGroup,
                      CloseTasks, WriteResult
    <2>6. CASE UNCHANGED vars BY <2>6 DEF vars
    <2> QED BY <2>1, <2>2, <2>3, <2>4, <2>5, <2>6 DEF Next
  <1> QED BY <1>1, <1>2, <1>3

LEMMA NoneLostNext ==
  ASSUME TypeInv, TypeInv', Drained, NoneLost, [Next]_vars PROVE NoneLost'
  <1> USE DEF TypeInv, TypeOK, HoldInv, readVars, convVars, grpVars, decVars
  <1>1. CASE Reader
    <2>1. CASE Recv
      <3>1. /\ rc' = rc + 1 /\ rc + 1 \in RowNo /\ inRowApi' = Append(inRowApi, rc + 1)
            /\ UNCHANGED <<hold, inRows, grpHold, groups>>
            BY <2>1, Flags DEF Recv, RowNo
      <3>2. Range(inRowApi') = Range(inRowApi) \union {rc + 1} BY <3>1, RangeSeq
      <3>3. \A i \in 1 .. rc' : i \in 1 .. rc \/ i = rc + 1 BY <3>1
      <3> QED BY <3>1, <3>2, <3>3 DEF NoneLost, Somewhere
    <2>2. CASE RecvAll \/ RecvErr BY <2>2 DEF RecvAll, RecvErr, NoneLost, Somewhere
    <2> QED BY <1>1, <2>1, <2>2 DEF Reader
  <1> SUFFICES ASSUME ~Reader, NEW i \in 1 .. rc, rc' = rc, i \in RowNo, Somewhere(i)
               PROVE  Somewhere(i)'
    <2>1. ~Reader => rc' = rc
          BY DEF Next, Main, Converter, ConvTake, ConvPut, ConvDone, OnceEnter, OnceWake,
                 OnceClose, OnceSkip, Unblinder, GrpTake, GrpPut, GrpEnd, Decrypter, Decrypt,
                 DecEnd, Spawn, StartGrouping, StartIntersect, SkipGroup, SendGroup,
                 CloseTasks, WriteResult, vars
    <2>2. \A i \in 1 .. rc : i \in RowNo BY Flags DEF RowNo
    <2> QED BY <1>1, <2>1, <2>2 DEF NoneLost
  <1>0. i # None /\ Stream[i].key \in Keys BY Flags
  <1>2. ASSUME NEW w \in Worker, ConvTake(w) PROVE Somewhere(i)'
    <2>1. /\ inRowApi' = Tail(inRowApi) /\ inRowApi # <<>> /\ hold[w] = None
          /\ hold' = [hold EXCEPT ![w] = Head(inRowApi)] /\ UNCHANGED <<inRows, grpHold, groups>>
          BY <1>2 DEF ConvTake
    <2>2. Range(inRowApi) = {Head(inRowApi)} \union Range(inRowApi') BY <2>1, RangeSeq
    <2>3. hold'[w] = Head(inRowApi) /\ \A v \in Worker : v # w => hold'[v] = hold[v] BY <2>1
    <2> QED BY <1>0, <2>1, <2>2, <2>3 DEF Somewhere
  <1>3. ASSUME NEW w \in Worker, ConvPut(w) PROVE Somewhere(i)'
    <2>1. /\ inRows' = Append(inRows, hold[w]) /\ hold[w] \in RowNo
          /\ hold' = [hold EXCEPT ![w] = None] /\ UNCHANGED <<inRowApi, grpHold, groups>>
          BY <1>3 DEF ConvPut, Drained
    <2>2. Range(inRows') = Range(inRows) \union {hold[w]} BY <2>1, RangeSeq
    <2>3. \A v \in Worker : v # w => hold'[v] = hold[v] BY <2>1
    <2> QED BY <2>1, <2>2, <2>3 DEF Somewhere
  <1>4. ASSUME NEW w \in Worker, ConvDone(w) \/ OnceEnter(w) \/ OnceWake(w)
                                 \/ OnceClose(w) \/ OnceSkip(w)
        PROVE  Somewhere(i)'
        BY <1>4 DEF ConvDone, OnceEnter, OnceWake, OnceClose, OnceSkip, Somewhere
  <1>5. ASSUME NEW w \in Worker, GrpTake(w) PROVE Somewhere(i)'
    <2>1. /\ inRows' = Tail(inRows) /\ inRows # <<>> /\ grpHold[w] = None
          /\ grpHold' = [grpHold EXCEPT ![w] = Head(inRows)]
          /\ UNCHANGED <<inRowApi, hold, groups>>
          BY <1>5 DEF GrpTake
    <2>2. Range(inRows) = {Head(inRows)} \union Range(inRows') BY <2>1, RangeSeq
    <2>3. grpHold'[w] = Head(inRows) /\ \A v \in Worker : v # w => grpHold'[v] = grpHold[v]
          BY <2>1
    <2> QED BY <1>0, <2>1, <2>2, <2>3 DEF Somewhere
  <1>6. ASSUME NEW w \in Worker, GrpPut(w) PROVE Somewhere(i)'
    <2>1. /\ grpHold[w] \in RowNo /\ Stream[grpHold[w]].key \in Keys
          /\ groups' = [groups EXCEPT ![Stream[grpHold[w]].key] = @ \union {grpHold[w]}]
          /\ grpHold' = [grpHold EXCEPT ![w] = None] /\ UNCHANGED <<inRowApi, inRows, hold>>
          BY <1>6, Flags DEF GrpPut, Appended
    <2>2. /\ grpHold[w] \in groups'[Stream[grpHold[w]].key]
          /\ \A k \in Keys : groups[k] \subseteq groups'[k]
          BY <2>1
    <2>3. \A v \in Worker : v # w => grpHold'[v] = grpHold[v] BY <2>1
    <2> QED BY <1>0, <2>1, <2>2, <2>3 DEF Somewhere
  <1>7. ASSUME NEW w \in Worker, GrpEnd(w) \/ Decrypter(w) PROVE Somewhere(i)'
        BY <1>7 DEF GrpEnd, Decrypter, Decrypt, DecEnd, Somewhere
  <1>8. CASE Main
        BY <1>8 DEF Main, Spawn, StartGrouping, StartIntersect, SkipGroup, SendGroup,
                    CloseTasks, WriteResult, Somewhere
  <1>9. CASE UNCHANGED vars BY <1>9 DEF vars, Somewhere
  <1> QED BY <1>2, <1>3, <1>4, <1>5, <1>6, <1>7, <1>8, <1>9 DEF Next, Converter, Unblinder

-----------------------------------------------------------------------------
(* The places of a row, counted.                                           *)
Grouped(i) == IF i \in groups[Stream[i].key] THEN 1 ELSE 0
Arrived(i) == IF i <= rc THEN 1 ELSE 0

HoldersSum(i) ==
  /\ Holders(i) = Count(inRowApi, i) + Count(hold, i) + Count(inRows, i)
                  + Count(grpHold, i) + Grouped(i)
  /\ Count(inRowApi, i) \in Nat /\ Count(hold, i) \in Nat /\ Count(inRows, i) \in Nat
  /\ Count(grpHold, i) \in Nat /\ Grouped(i) \in Nat

HoldersSums == \A i \in RowNo : HoldersSum(i)

LEMMA HoldersCounted == TypeInv /\ OwnGroup => HoldersSums
  <1> SUFFICES ASSUME TypeInv, OwnGroup, NEW i \in RowNo PROVE HoldersSum(i)
      BY DEF HoldersSums
  <1> DEFINE K == {k \in Keys : i \in groups[k]}
  <1>1. Cardinality(K) = Grouped(i)
    <2>1. Stream[i].key \in Keys /\ \A k \in K : k = Stream[i].key BY Flags DEF OwnGroup
    <2>2. CASE i \in groups[Stream[i].key]
      <3>1. K = {Stream[i].key} BY <2>1, <2>2
      <3> QED BY <2>2, <3>1, FS_Singleton DEF Grouped
    <2>3. CASE i \notin groups[Stream[i].key]
      <3>1. K = {} BY <2>1, <2>3
      <3> QED BY <2>3, <3>1, FS_EmptySet DEF Grouped
    <2> QED BY <2>2, <2>3
  <1>2. DOMAIN hold = Worker /\ DOMAIN grpHold = Worker BY DEF TypeInv, TypeOK
  <1>3. IsFiniteSet(DOMAIN hold) /\ IsFiniteSet(DOMAIN grpHold) BY <1>2, PoolAssumption
  <1>4. /\ Cardinality({w \in Worker : hold[w] = i}) = Count(hold, i)
        /\ Cardinality({w \in Worker : grpHold[w] = i}) = Count(grpHold, i)
        BY <1>2 DEF Count, At
  <1>5. Count(hold, i) \in Nat /\ Count(grpHold, i) \in Nat BY <1>3, CountIsNat
  <1>6. ASSUME NEW s \in Seq(RowNo) PROVE Count(s, i) \in Nat
    <2>1. IsFiniteSet(1 .. Len(s)) /\ DOMAIN s = 1 .. Len(s) BY FS_Interval
    <2> QED BY <2>1, CountIsNat
  <1>7. inRowApi \in Seq(RowNo) /\ inRows \in Seq(RowNo) BY DEF TypeInv, TypeOK
  <1>8. Count(inRowApi, i) \in Nat /\ Count(inRows, i) \in Nat BY <1>6, <1>7
  <1>9. /\ Cardinality({n \in DOMAIN inRowApi : inRowApi[n] = i}) = Count(inRowApi, i)
        /\ Cardinality({n \in DOMAIN inRows : inRows[n] = i}) = Count(inRows, i)
        BY DEF Count, At
  <1>10. Holders(i) = Count(inRowApi, i) + Count(hold, i) + Count(inRows, i)
                      + Count(grpHold, i) + Grouped(i)
    <2> HIDE DEF K
    <2> QED BY <1>1, <1>4, <1>9 DEF Holders, K
  <1>11. Grouped(i) \in Nat BY DEF Grouped
  <1> QED BY <1>5, <1>8, <1>10, <1>11 DEF HoldersSum

(* Row i's places before and after a step.                                 *)
LEMMA HoldersTwice ==
  ASSUME TypeInv, TypeInv', OwnGroup, OwnGroup', NEW i \in RowNo
  PROVE  /\ Holders(i) = Count(inRowApi, i) + Count(hold, i) + Count(inRows, i)
                         + Count(grpHold, i) + Grouped(i)
         /\ Holders(i)' = Count(inRowApi', i) + Count(hold', i) + Count(inRows', i)
                          + Count(grpHold', i) + Grouped(i)'
         /\ Count(inRowApi, i) \in Nat /\ Count(hold, i) \in Nat /\ Count(inRows, i) \in Nat
         /\ Count(grpHold, i) \in Nat /\ Grouped(i) \in Nat
         /\ Count(inRowApi', i) \in Nat /\ Count(hold', i) \in Nat /\ Count(inRows', i) \in Nat
         /\ Count(grpHold', i) \in Nat /\ Grouped(i)' \in Nat
  <1>1. HoldersSum(i) BY HoldersCounted DEF HoldersSums
  <1>2. TypeInv' /\ OwnGroup' => HoldersSums' BY HoldersCounted, PTL
  <1>3. HoldersSum(i)' BY <1>2 DEF HoldersSums
  <1>4. /\ Count(inRowApi, i)' = Count(inRowApi', i) /\ Count(hold, i)' = Count(hold', i)
        /\ Count(inRows, i)' = Count(inRows', i) /\ Count(grpHold, i)' = Count(grpHold', i)
        BY DEF Count, At
  <1>5. /\ Holders(i)' = Count(inRowApi', i) + Count(hold', i) + Count(inRows', i)
                         + Count(grpHold', i) + Grouped(i)'
        /\ Count(inRowApi', i) \in Nat /\ Count(hold', i) \in Nat /\ Count(inRows', i) \in Nat
        /\ Count(grpHold', i) \in Nat /\ Grouped(i)' \in Nat
        BY <1>3, <1>4 DEF HoldersSum
  <1> QED BY <1>1, <1>5 DEF HoldersSum

(* What a worker of the two pools takes or puts down.                      *)
LEMMA HoldCounted ==
  ASSUME NEW f, NEW g, NEW w \in Worker, NEW i, DOMAIN f = Worker, DifferAt(f, g, w)
  PROVE  Count(g, i) = Count(f, i) - One(f[w], i) + One(g[w], i)
  <1>1. w \in DOMAIN f OBVIOUS
  <1>2. IsFiniteSet(DOMAIN f) BY PoolAssumption
  <1> QED BY <1>1, <1>2, CountExcept

Once == \A i \in RowNo : Holders(i) = Arrived(i)

LEMMA OnceConv ==
  ASSUME TypeInv, TypeInv', Drained, OwnGroup, OwnGroup', NEW w \in Worker, Converter(w),
         NEW i \in RowNo
  PROVE  Holders(i)' = Holders(i)
  <1>1. i # None BY Flags
  <1>2. One(None, i) = 0 /\ \A v : One(v, i) \in Nat BY <1>1 DEF One
  <1>3. CASE ConvTake(w)
    <2>1. /\ inRowApi' = Tail(inRowApi) /\ inRowApi # <<>> /\ hold[w] = None
          /\ hold' = [hold EXCEPT ![w] = Head(inRowApi)] /\ UNCHANGED <<inRows, grpHold, groups>>
          BY <1>3 DEF ConvTake,
             TypeInv, TypeOK, HoldInv, readVars, convVars, grpVars, decVars
    <2>2. Count(inRowApi, i) = Count(inRowApi', i) + One(Head(inRowApi), i)
          BY <2>1, CountTail DEF TypeInv, TypeOK
    <2>3. DOMAIN hold = Worker /\ DifferAt(hold, hold', w) /\ hold'[w] = Head(inRowApi)
          BY <2>1, ExceptDiffers DEF TypeInv, TypeOK
    <2>4. Count(hold', i) = Count(hold, i) + One(Head(inRowApi), i)
      <3>1. Count(hold', i) = Count(hold, i) - One(hold[w], i) + One(hold'[w], i)
            BY <2>3, HoldCounted
      <3> QED BY <1>2, <2>1, <2>3, <3>1, HoldersTwice
    <2>5. Grouped(i)' = Grouped(i) BY <2>1 DEF Grouped
    <2>6. Count(inRows', i) = Count(inRows, i) /\ Count(grpHold', i) = Count(grpHold, i) BY <2>1
    <2>7. One(Head(inRowApi), i) \in Nat BY <1>2
    <2> QED BY <2>2, <2>4, <2>5, <2>6, <2>7, HoldersTwice
  <1>4. CASE ConvPut(w)
    <2>1. /\ inRows' = Append(inRows, hold[w]) /\ hold[w] \in RowNo
          /\ hold' = [hold EXCEPT ![w] = None] /\ UNCHANGED <<inRowApi, grpHold, groups>>
          BY <1>4 DEF ConvPut, Drained,
             TypeInv, TypeOK, HoldInv, readVars, convVars, grpVars, decVars
    <2>2. Count(inRows', i) = Count(inRows, i) + One(hold[w], i) BY <2>1, CountAppend DEF TypeInv, TypeOK
    <2>3. DOMAIN hold = Worker /\ DifferAt(hold, hold', w) /\ hold'[w] = None
          BY <2>1, ExceptDiffers DEF TypeInv, TypeOK
    <2>4. Count(hold', i) = Count(hold, i) - One(hold[w], i)
      <3>1. Count(hold', i) = Count(hold, i) - One(hold[w], i) + One(hold'[w], i)
            BY <2>3, HoldCounted
      <3> QED BY <1>2, <2>3, <3>1, HoldersTwice
    <2>5. Grouped(i)' = Grouped(i) BY <2>1 DEF Grouped
    <2>6. Count(inRowApi', i) = Count(inRowApi, i) /\ Count(grpHold', i) = Count(grpHold, i) BY <2>1
    <2>7. One(hold[w], i) \in Nat BY <1>2
    <2> QED BY <2>2, <2>4, <2>5, <2>6, <2>7, HoldersTwice
  <1>5. CASE ConvDone(w) \/ OnceEnter(w) \/ OnceWake(w) \/ OnceClose(w) \/ OnceSkip(w)
    <2>1. UNCHANGED <<inRowApi, hold, inRows, grpHold, groups>>
          BY <1>5 DEF ConvDone, OnceEnter, OnceWake, OnceClose, OnceSkip,
             TypeInv, TypeOK, HoldInv, readVars, convVars, grpVars, decVars
    <2>2. Grouped(i)' = Grouped(i) BY <2>1 DEF Grouped
    <2> QED BY <2>1, <2>2, HoldersTwice
  <1> QED BY <1>3, <1>4, <1>5 DEF Converter

LEMMA OnceGroup ==
  ASSUME TypeInv, TypeInv', OwnGroup, OwnGroup', Once, NEW w \in Worker, Unblinder(w),
         NEW i \in RowNo
  PROVE  Holders(i)' = Holders(i)
  <1>1. i # None /\ Stream[i].key \in Keys BY Flags
  <1>2. One(None, i) = 0 /\ \A v : One(v, i) \in Nat BY <1>1 DEF One
  <1>3. CASE GrpTake(w)
    <2>1. /\ inRows' = Tail(inRows) /\ inRows # <<>> /\ grpHold[w] = None
          /\ grpHold' = [grpHold EXCEPT ![w] = Head(inRows)]
          /\ UNCHANGED <<inRowApi, hold, groups>>
          BY <1>3 DEF GrpTake,
             TypeInv, TypeOK, HoldInv, readVars, convVars, grpVars, decVars
    <2>2. Count(inRows, i) = Count(inRows', i) + One(Head(inRows), i) BY <2>1, CountTail DEF TypeInv, TypeOK
    <2>3. DOMAIN grpHold = Worker /\ DifferAt(grpHold, grpHold', w) /\ grpHold'[w] = Head(inRows)
          BY <2>1, ExceptDiffers DEF TypeInv, TypeOK
    <2>4. Count(grpHold', i) = Count(grpHold, i) + One(Head(inRows), i)
      <3>1. Count(grpHold', i) = Count(grpHold, i) - One(grpHold[w], i) + One(grpHold'[w], i)
            BY <2>3, HoldCounted
      <3> QED BY <1>2, <2>1, <2>3, <3>1, HoldersTwice
    <2>5. Grouped(i)' = Grouped(i) BY <2>1 DEF Grouped
    <2>6. Count(inRowApi', i) = Count(inRowApi, i) /\ Count(hold', i) = Count(hold, i) BY <2>1
    <2>7. One(Head(inRows), i) \in Nat BY <1>2
    <2> QED BY <2>2, <2>4, <2>5, <2>6, <2>7, HoldersTwice
  <1>4. CASE GrpPut(w)
    <2>1. /\ grpHold[w] \in RowNo /\ Stream[grpHold[w]].key \in Keys
          /\ groups' = [groups EXCEPT ![Stream[grpHold[w]].key] = @ \union {grpHold[w]}]
          /\ grpHold' = [grpHold EXCEPT ![w] = None] /\ UNCHANGED <<inRowApi, inRows, hold>>
          BY <1>4, Flags DEF GrpPut, Appended,
             TypeInv, TypeOK, HoldInv, readVars, convVars, grpVars, decVars
    <2>2. DOMAIN grpHold = Worker /\ DifferAt(grpHold, grpHold', w) /\ grpHold'[w] = None
          BY <2>1, ExceptDiffers DEF TypeInv, TypeOK
    <2>3. Count(grpHold', i) = Count(grpHold, i) - One(grpHold[w], i)
      <3>1. Count(grpHold', i) = Count(grpHold, i) - One(grpHold[w], i) + One(grpHold'[w], i)
            BY <2>2, HoldCounted
      <3> QED BY <1>2, <2>2, <3>1, HoldersTwice
    <2>4. Grouped(i)' = Grouped(i) + One(grpHold[w], i)
      <3>1. CASE grpHold[w] # i
        <4>1. i \in groups'[Stream[i].key] <=> i \in groups[Stream[i].key]
              BY <1>1, <2>1, <3>1 DEF TypeInv, TypeOK
        <4>2. One(grpHold[w], i) = 0 BY <3>1 DEF One
        <4> QED BY <4>1, <4>2 DEF Grouped
      <3>2. CASE grpHold[w] = i
        <4>1. One(grpHold[w], i) = 1 BY <3>2 DEF One
        <4>2. Count(grpHold, i) >= 1 BY <2>3, <4>1, HoldersTwice
        <4>3. Holders(i) \in 0 .. 1 BY DEF Once, Arrived
        <4>4. Grouped(i) = 0
          <5>1. Grouped(i) = 0 \/ Grouped(i) = 1 BY DEF Grouped
          <5> QED BY <4>2, <4>3, <5>1, HoldersTwice
        <4>5. i \in groups'[Stream[i].key] BY <1>1, <2>1, <3>2 DEF TypeInv, TypeOK
        <4>6. Grouped(i)' = 1 BY <4>5 DEF Grouped
        <4> QED BY <4>1, <4>4, <4>6
      <3> QED BY <3>1, <3>2
    <2>5. /\ Count(inRowApi', i) = Count(inRowApi, i) /\ Count(hold', i) = Count(hold, i)
          /\ Count(inRows', i) = Count(inRows, i)
          BY <2>1
    <2>6. One(grpHold[w], i) \in Nat BY <1>2
    <2> QED BY <2>3, <2>4, <2>5, <2>6, HoldersTwice
  <1>5. CASE GrpEnd(w)
    <2>1. UNCHANGED <<inRowApi, hold, inRows, grpHold, groups>> BY <1>5 DEF GrpEnd,
             TypeInv, TypeOK, HoldInv, readVars, convVars, grpVars, decVars
    <2>2. Grouped(i)' = Grouped(i) BY <2>1 DEF Grouped
    <2> QED BY <2>1, <2>2, HoldersTwice
  <1> QED BY <1>3, <1>4, <1>5 DEF Unblinder

LEMMA OnceNext ==
  ASSUME TypeInv, TypeInv', Drained, OwnGroup, OwnGroup', Once, [Next]_vars PROVE Once'
  <1> SUFFICES ASSUME NEW i \in RowNo PROVE Holders(i)' = Arrived(i)' BY DEF Once
  <1>1. Holders(i) = Arrived(i) BY DEF Once
  <1>2. CASE Reader
    <2>1. CASE Recv
      <3>1. /\ rc' = rc + 1 /\ rc + 1 \in RowNo /\ inRowApi' = Append(inRowApi, rc + 1)
            /\ inRowApi \in Seq(RowNo) /\ UNCHANGED <<hold, inRows, grpHold, groups>>
            BY <2>1, Flags DEF Recv, RowNo, TypeInv, TypeOK, convVars, grpVars
      <3>2. Count(inRowApi', i) = Count(inRowApi, i) + One(rc + 1, i) BY <3>1, CountAppend
      <3>3. Arrived(i)' = Arrived(i) + One(rc + 1, i)
        <4>1. rc \in Int /\ i \in Int BY Flags DEF TypeInv, TypeOK, RowNo
        <4> QED BY <3>1, <4>1 DEF Arrived, One
      <3>4. Grouped(i)' = Grouped(i) BY <3>1 DEF Grouped
      <3>5. One(rc + 1, i) \in Nat BY DEF One
      <3>6. /\ Count(hold', i) = Count(hold, i) /\ Count(inRows', i) = Count(inRows, i)
            /\ Count(grpHold', i) = Count(grpHold, i)
            BY <3>1
      <3>7. Holders(i)' = Holders(i) + One(rc + 1, i)
            BY <3>2, <3>4, <3>5, <3>6, HoldersTwice
      <3> QED BY <1>1, <3>3, <3>7
    <2>2. CASE RecvAll \/ RecvErr
      <3>1. UNCHANGED <<rc, inRowApi, hold, inRows, grpHold, groups>>
            BY <2>2 DEF RecvAll, RecvErr, readVars, convVars, grpVars
      <3>2. Grouped(i)' = Grouped(i) /\ Arrived(i)' = Arrived(i) BY <3>1 DEF Grouped, Arrived
      <3> QED BY <1>1, <3>1, <3>2, HoldersTwice
    <2> QED BY <1>2, <2>1, <2>2 DEF Reader
  <1>3. ASSUME NEW w \in Worker, Converter(w) PROVE Holders(i)' = Arrived(i)'
    <2>1. rc' = rc
          BY <1>3 DEF Converter, ConvTake, ConvPut, ConvDone, OnceEnter, OnceWake, OnceClose,
                      OnceSkip, readVars
    <2> QED BY <1>1, <1>3, <2>1, OnceConv DEF Arrived
  <1>4. ASSUME NEW w \in Worker, Unblinder(w) PROVE Holders(i)' = Arrived(i)'
    <2>1. rc' = rc BY <1>4 DEF Unblinder, GrpTake, GrpPut, GrpEnd, readVars
    <2> QED BY <1>1, <1>4, <2>1, OnceGroup DEF Arrived
  <1>5. CASE Main \/ (\E w \in Worker : Decrypter(w)) \/ UNCHANGED vars
    <2>1. UNCHANGED <<rc, inRowApi, hold, inRows, grpHold, groups>>
          BY <1>5 DEF Main, Spawn, StartGrouping, StartIntersect, SkipGroup, SendGroup,
                      CloseTasks, WriteResult, Decrypter, Decrypt, DecEnd, vars,
                      readVars, convVars, grpVars
    <2>2. Grouped(i)' = Grouped(i) /\ Arrived(i)' = Arrived(i) BY <2>1 DEF Grouped, Arrived
    <2> QED BY <1>1, <2>1, <2>2, HoldersTwice
  <1> QED BY <1>2, <1>3, <1>4, <1>5 DEF Next

(* No downloaded row is lost or processed twice between the reader and the *)
(* groups, and each reaches the group of its own pseudonym: NewReceiver's  *)
(* pools hand every row on once, whatever the interleaving.                *)
THEOREM EachRowOnce == Spec => []EveryRowOnce
  <1> DEFINE Inv == TypeInv /\ Drained /\ OwnGroup /\ Once
  <1>1. Init => Inv
    <2> SUFFICES ASSUME Init PROVE Inv OBVIOUS
    <2>1. TypeInv BY TypeInit
    <2>2. Drained BY DEF Init, Drained
    <2>3. OwnGroup BY DEF Init, OwnGroup
    <2>4. ASSUME NEW i \in RowNo PROVE Holders(i) = Arrived(i)
      <3>1. i # None /\ Stream[i].key \in Keys /\ i \in 1 .. NumRows BY Flags DEF RowNo
      <3>2. Count(inRowApi, i) = 0 /\ Count(inRows, i) = 0 BY CountEmpty DEF Init
      <3>3. At(hold, i) = {} /\ At(grpHold, i) = {} BY <3>1 DEF Init, At
      <3>4. Count(hold, i) = 0 /\ Count(grpHold, i) = 0 BY <3>3, FS_EmptySet DEF Count
      <3>5. Grouped(i) = 0 BY <3>1 DEF Init, Grouped
      <3>6. Arrived(i) = 0 BY <3>1 DEF Init, Arrived
      <3>7. HoldersSum(i) BY <2>1, <2>3, HoldersCounted DEF HoldersSums
      <3> QED BY <3>2, <3>4, <3>5, <3>6, <3>7 DEF HoldersSum
    <2> QED BY <2>1, <2>2, <2>3, <2>4 DEF Once
  <1>2. Inv /\ [Next]_vars => Inv'
        BY TypeNext, DrainedNext, OwnGroupNext, OnceNext
  <1>3. Inv => EveryRowOnce BY DEF Once, Arrived, OwnGroup, EveryRowOnce
  <1> QED BY <1>1, <1>2, <1>3, PTL DEF Spec

-----------------------------------------------------------------------------
(* What the theorems assume of the rows, which the receiver cannot check:  *)
(* no source has sent two rows of one key (CheckUIDs there), ...           *)
NoRepeats == \A i, j \in RowNo : Stream[i].key = Stream[j].key /\ Stream[i].src = Stream[j].src
                                   => i = j

(* ... and of its flags: no id is given twice.                             *)
DistinctIds == \A i, j \in 1 .. Len(Sources) : Sources[i] = Sources[j] => i = j

(* A group of one key has as many rows as there are sources exactly when   *)
(* its hints unmask it.                                                    *)
LEMMA CompleteGroup ==
  ASSUME NoRepeats, NEW k, NEW S \in SUBSET RowNo, \A i \in S : Stream[i].key = k
  PROVE  Joinable(S) <=> Unmasked(S)
  <1> DEFINE n == Len(Sources)
             f == [i \in S |-> Stream[i].src]
  <1>1. n \in Nat /\ n >= 2 BY Flags
  <1>2. IsFiniteSet(1 .. n) /\ Cardinality(1 .. n) = n BY <1>1, FS_Interval
  <1>3. f \in [S -> 1 .. n] BY Flags
  <1>4. \A i, j \in S : f[i] = f[j] => i = j BY DEF NoRepeats
  <1>5. f \in Injection(S, 1 .. n) BY <1>3, <1>4 DEF Injection, IsInjective
  <1>6. Cardinality(S) = n <=> f \in Surjection(S, 1 .. n) BY <1>2, <1>5, FS_Injection
  <1>7. f \in Surjection(S, 1 .. n) <=> {Stream[i].src : i \in S} = 1 .. n
        BY <1>3 DEF Surjection
  <1> QED BY <1>6, <1>7 DEF Joinable, Unmasked

(* The intersection starts when the groups are final, and no group that    *)
(* should be decrypted is skipped.                                         *)
Late ==
  /\ main \in {"spawn", "group"} =>
       /\ visited = {} /\ ~decClosed /\ joined = {} /\ \A w \in Worker : dec[w] = "unborn"
  /\ main \in {"intersect", "done"} => \A w \in Worker : grp[w] = "end"
  /\ \A w \in Worker : dec[w] = "end" => decClosed
  /\ main = "done" => \A w \in Worker : dec[w] = "end"
  /\ decClosed => \A k \in Keys \ visited : groups[k] = {}
  /\ \A w \in Worker : dec[w] = "put" =>
       \E k \in visited : decHold[w] = groups[k] /\ Joinable(groups[k])
  /\ crash # "DecryptFailed"

Entry(k) == <<k, Columns(groups[k])>>

Joins ==
  /\ \A x \in joined : \E k \in visited : Joinable(groups[k]) /\ x = Entry(k)
  /\ \A k \in visited : Joinable(groups[k]) =>
       Entry(k) \in joined \/ \E w \in Worker : dec[w] = "put" /\ decHold[w] = groups[k]

(* The step of a decrypter that has a group.                               *)
LEMMA Decrypted ==
  ASSUME TypeInv, OwnGroup, Late, NoRepeats, NEW w \in Worker, Decrypt(w)
  PROVE  \E k \in visited : /\ decHold[w] = groups[k] /\ Joinable(groups[k])
                            /\ joined' = joined \union {Entry(k)} /\ crash' = crash
  <1> USE DEF TypeInv, TypeOK
  <1>1. PICK k \in visited : decHold[w] = groups[k] /\ Joinable(groups[k])
        BY DEF Decrypt, Late
  <1>2. k \in Keys /\ groups[k] \in SUBSET RowNo /\ \A i \in groups[k] : Stream[i].key = k
        BY DEF OwnGroup
  <1>3. Unmasked(groups[k]) BY <1>1, <1>2, CompleteGroup
  <1>4. groups[k] # {} BY <1>3, Flags DEF Unmasked
  <1>5. KeyOf(groups[k]) = k BY <1>2, <1>4 DEF KeyOf
  <1> QED BY <1>1, <1>3, <1>5 DEF Decrypt, Entry

(* No step but a decrypter's and main's touches the intersection.          *)
LEMMA Elsewhere ==
  ASSUME TypeInv, [Next]_vars, ~Main, \A w \in Worker : ~Decrypter(w)
  PROVE  /\ UNCHANGED <<decVars, main>>
         /\ crash' \in {crash, "RecvFailed", "SendOnClosed", "WaitGroupReused"}
         /\ (\E w \in Worker : grp[w] # "end") \/ UNCHANGED <<grp, groups>>
         /\ \A w \in Worker : grp[w] = "end" => grp'[w] = "end"
  <1> USE DEF TypeInv, TypeOK, readVars, convVars, grpVars, decVars
  <1>1. CASE Reader BY <1>1 DEF Reader, Recv, RecvAll, RecvErr
  <1>2. ASSUME NEW w \in Worker, Converter(w)
        PROVE  UNCHANGED <<decVars, main, grpVars>>
               /\ crash' \in {crash, "RecvFailed", "SendOnClosed", "WaitGroupReused"}
        BY <1>2 DEF Converter, ConvTake, ConvPut, ConvDone, OnceEnter, OnceWake, OnceClose,
                    OnceSkip
  <1>3. ASSUME NEW w \in Worker, Unblinder(w)
        PROVE  /\ UNCHANGED <<decVars, main, crash>> /\ grp[w] # "end"
               /\ \A v \in Worker : grp[v] = "end" => grp'[v] = "end"
        BY <1>3 DEF Unblinder, GrpTake, GrpPut, GrpEnd
  <1>4. CASE UNCHANGED vars BY <1>4 DEF vars
  <1> QED BY <1>1, <1>2, <1>3, <1>4 DEF Next

LEMMA LateNext ==
  ASSUME TypeInv, TypeInv', OwnGroup, Late, NoRepeats, [Next]_vars PROVE Late'
  <1> USE DEF TypeInv, TypeOK, HoldInv, readVars, convVars, grpVars, decVars
  <1>1. ASSUME NEW w \in Worker, Decrypt(w) PROVE Late'
    <2>1. /\ dec[w] = "put" /\ dec' = [dec EXCEPT ![w] = "range"] /\ crash' = crash
          /\ decHold' = [decHold EXCEPT ![w] = {}]
          /\ UNCHANGED <<grpVars, visited, decClosed, main>>
          BY <1>1, Decrypted DEF Decrypt
    <2>2. main \notin {"spawn", "group", "done"} BY <2>1 DEF Late
    <2> QED BY <2>1, <2>2 DEF Late
  <1>2. ASSUME NEW w \in Worker, DecEnd(w) PROVE Late'
    <2>1. main \notin {"spawn", "group"} BY <1>2 DEF DecEnd, Late
    <2> QED BY <1>2, <2>1 DEF DecEnd, Late
  <1>3. ASSUME NEW w \in Worker, Spawn(w) PROVE Late' BY <1>3 DEF Spawn, Late
  <1>4. CASE StartGrouping BY <1>4 DEF StartGrouping, Late
  <1>5. CASE StartIntersect BY <1>5 DEF StartIntersect, Late
  <1>6. ASSUME NEW k \in Keys, SkipGroup(k) PROVE Late' BY <1>6 DEF SkipGroup, Late
  <1>7. ASSUME NEW k \in Keys, NEW w \in Worker, SendGroup(k, w) PROVE Late'
    <2>1. /\ visited' = visited \union {k} /\ Joinable(groups[k]) /\ main = "intersect"
          /\ decHold' = [decHold EXCEPT ![w] = groups[k]]
          /\ dec' = [dec EXCEPT ![w] = "put"] /\ ~decClosed
          /\ UNCHANGED <<grpVars, decClosed, joined, main, crash>>
          BY <1>7 DEF SendGroup
    <2>2. ASSUME NEW v \in Worker, dec'[v] = "put"
          PROVE  \E j \in visited' : decHold'[v] = groups'[j] /\ Joinable(groups'[j])
          BY <2>1, <2>2 DEF Late
    <2> QED BY <2>1, <2>2 DEF Late
  <1>8. CASE CloseTasks BY <1>8 DEF CloseTasks, Late
  <1>9. CASE WriteResult BY <1>9 DEF WriteResult, Late
  <1>10. CASE ~Main /\ \A w \in Worker : ~Decrypter(w)
    <2>1. main' = main /\ dec' = dec /\ decHold' = decHold /\ visited' = visited
          /\ decClosed' = decClosed /\ joined' = joined
          BY <1>10, Elsewhere
    <2>2. main \in {"intersect", "done"} => UNCHANGED <<grp, groups>>
          BY <1>10, Elsewhere DEF Late
    <2>3. main \in {"spawn", "group"} \/ main \in {"intersect", "done"} OBVIOUS
    <2>4. crash' # "DecryptFailed" BY <1>10, Elsewhere DEF Late
    <2> QED BY <2>1, <2>2, <2>3, <2>4 DEF Late
  <1> QED BY <1>1, <1>2, <1>3, <1>4, <1>5, <1>6, <1>7, <1>8, <1>9, <1>10
          DEF Next, Main, Decrypter

LEMMA JoinsNext ==
  ASSUME TypeInv, TypeInv', OwnGroup, Late, Joins, NoRepeats, [Next]_vars PROVE Joins'
  <1> USE DEF TypeInv, TypeOK, HoldInv, readVars, convVars, grpVars, decVars
  <1>1. ASSUME NEW w \in Worker, Decrypt(w) PROVE Joins'
    <2>1. PICK k \in visited : /\ decHold[w] = groups[k] /\ Joinable(groups[k])
                               /\ joined' = joined \union {Entry(k)}
          BY <1>1, Decrypted
    <2>2. /\ groups' = groups /\ visited' = visited
          /\ \A v \in Worker : v # w => dec'[v] = dec[v] /\ decHold'[v] = decHold[v]
          BY <1>1 DEF Decrypt
    <2>3. ASSUME NEW j \in visited, groups[j] = groups[k] PROVE j = k
      <3>1. j \in Keys /\ k \in Keys OBVIOUS
      <3>2. Unmasked(groups[k]) BY <2>1, <3>1, CompleteGroup DEF OwnGroup
      <3>3. groups[k] # {} BY <3>2, Flags DEF Unmasked
      <3>4. PICK i \in groups[k] : TRUE BY <3>3
      <3>5. Stream[i].key = k /\ Stream[i].key = j BY <2>3, <3>1, <3>4 DEF OwnGroup
      <3> QED BY <3>5
    <2>4. ASSUME NEW j \in visited, Joinable(groups[j])
          PROVE  Entry(j) \in joined' \/ \E v \in Worker : dec'[v] = "put" /\ decHold'[v] = groups[j]
          BY <2>1, <2>2, <2>3, <2>4 DEF Joins
    <2>5. \A j \in visited : Entry(j)' = Entry(j) BY <2>2 DEF Entry
    <2> QED BY <2>1, <2>2, <2>4, <2>5 DEF Joins
  <1>2. ASSUME NEW w \in Worker, DecEnd(w) PROVE Joins' BY <1>2 DEF DecEnd, Joins, Entry
  <1>3. CASE main \in {"spawn", "group"} /\ Main
    <2>1. visited' = {} /\ joined' = {}
          BY <1>3 DEF Main, Late, Spawn, StartGrouping, StartIntersect, SkipGroup, SendGroup,
                      CloseTasks, WriteResult
    <2> QED BY <2>1 DEF Joins
  <1>4. ASSUME NEW k \in Keys, SkipGroup(k) PROVE Joins' BY <1>4 DEF SkipGroup, Joins, Entry
  <1>5. ASSUME NEW k \in Keys, NEW w \in Worker, SendGroup(k, w) PROVE Joins'
    <2>1. /\ visited' = visited \union {k} /\ dec[w] = "range"
          /\ decHold' = [decHold EXCEPT ![w] = groups[k]]
          /\ dec' = [dec EXCEPT ![w] = "put"]
          /\ UNCHANGED <<groups, joined>>
          BY <1>5 DEF SendGroup
    <2>2. dec'[w] = "put" /\ decHold'[w] = groups[k] BY <2>1
    <2>3. \A v \in Worker : dec[v] = "put" => dec'[v] = "put" /\ decHold'[v] = decHold[v]
          BY <2>1
    <2>4. \A j \in Keys : Entry(j)' = Entry(j)
      <3>1. groups' = groups BY <2>1
      <3> QED BY <3>1 DEF Entry
    <2>5. ASSUME NEW j \in visited', Joinable(groups[j])
          PROVE  Entry(j) \in joined \/ \E v \in Worker : dec'[v] = "put" /\ decHold'[v] = groups[j]
          BY <2>1, <2>2, <2>3, <2>5 DEF Joins
    <2>6. ASSUME NEW x \in joined PROVE \E j \in visited' : Joinable(groups[j]) /\ x = Entry(j)
          BY <2>1 DEF Joins
    <2>7. groups' = groups /\ joined' = joined /\ visited' \subseteq Keys BY <2>1
    <2>8. \A x \in joined' : \E j \in visited' : Joinable(groups'[j]) /\ x = Entry(j)'
          BY <2>4, <2>6, <2>7
    <2>9. \A j \in visited' : Joinable(groups'[j]) =>
            Entry(j)' \in joined' \/ \E v \in Worker : dec'[v] = "put" /\ decHold'[v] = groups'[j]
          BY <2>4, <2>5, <2>7
    <2> QED BY <2>8, <2>9 DEF Joins
  <1>6. CASE CloseTasks \/ WriteResult
    <2>1. UNCHANGED <<groups, visited, dec, decHold, joined>>
          BY <1>6 DEF CloseTasks, WriteResult
    <2>2. \A k \in Keys : Entry(k)' = Entry(k) BY <2>1 DEF Entry
    <2> QED BY <2>1, <2>2 DEF Joins
  <1>7. CASE ~Main /\ \A w \in Worker : ~Decrypter(w)
    <2>1. dec' = dec /\ decHold' = decHold /\ visited' = visited /\ joined' = joined
          BY <1>7, Elsewhere
    <2>2. CASE main \in {"spawn", "group"} BY <2>1, <2>2 DEF Late, Joins
    <2>3. CASE main \in {"intersect", "done"}
      <3>1. groups' = groups BY <1>7, <2>3, Elsewhere DEF Late
      <3> QED BY <2>1, <3>1 DEF Joins, Entry
    <2> QED BY <2>2, <2>3
  <1> QED BY <1>1, <1>2, <1>3, <1>4, <1>5, <1>6, <1>7
          DEF Next, Main, Decrypter, Spawn, StartGrouping, StartIntersect

-----------------------------------------------------------------------------
(* The inductive invariant of the safety theorem, and what the refinement  *)
(* needs besides.                                                          *)
RowInv == TypeInv /\ Drained /\ NoneLost /\ OwnGroup
JoinInv == RowInv /\ Late /\ Joins

LEMMA JoinInit == Init => JoinInv
  <1> SUFFICES ASSUME Init PROVE JoinInv OBVIOUS
  <1>1. TypeInv BY TypeInit
  <1>2. Drained BY DEF Init, Drained
  <1>3. NoneLost /\ OwnGroup BY DEF Init, NoneLost, OwnGroup
  <1>4. Late /\ Joins BY DEF Init, Late, Joins
  <1> QED BY <1>1, <1>2, <1>3, <1>4 DEF JoinInv, RowInv

LEMMA JoinNext == ASSUME NoRepeats, JoinInv, [Next]_vars PROVE JoinInv'
  <1> USE DEF JoinInv, RowInv
  <1>1. TypeInv' BY TypeNext
  <1>2. Drained' /\ NoneLost' /\ OwnGroup' BY <1>1, DrainedNext, NoneLostNext, OwnGroupNext
  <1>3. Late' /\ Joins' BY <1>1, LateNext, JoinsNext
  <1> QED BY <1>1, <1>2, <1>3

(* No converter sends on inRows after the one that ended first has closed  *)
(* it, and every group with a row per source decrypts, if no source has    *)
(* sent two rows of one key.                                               *)
THEOREM PanicFree == NoRepeats => (Spec => []NeverPanics)
  <1> SUFFICES ASSUME NoRepeats PROVE Spec => []NeverPanics OBVIOUS
  <1>1. JoinInv => NeverPanics BY DEF JoinInv, RowInv, Drained, Late, NeverPanics
  <1>2. JoinInv /\ [Next]_vars => JoinInv' BY JoinNext
  <1> QED BY <1>1, <1>2, JoinInit, PTL DEF Spec

(* When the grouping is over, every group has all of its rows.             *)
Rows(k) == {i \in RowNo : Stream[i].key = k}

LEMMA WholeGroups ==
  ASSUME RowInv, \A w \in Worker : grp[w] = "end" PROVE \A k \in Keys : groups[k] = Rows(k)
  <1> USE DEF RowInv, TypeInv, TypeOK, HoldInv
  <1>1. rowsClosed /\ inRows = <<>> BY PoolAssumption DEF Drained
  <1>2. rc = NumRows /\ inRowApi = <<>> BY <1>1 DEF Drained
  <1>3. \A w \in Worker : hold[w] = None /\ grpHold[w] = None BY <1>1 DEF Drained
  <1>4. ASSUME NEW i \in RowNo PROVE i \in groups[Stream[i].key]
    <2>1. Somewhere(i) BY <1>2 DEF NoneLost, RowNo
    <2>2. i # None BY Flags
    <2>3. Range(inRowApi) = {} /\ Range(inRows) = {} BY <1>1, <1>2, RangeSeq
    <2> QED BY <1>3, <2>1, <2>2, <2>3 DEF Somewhere
  <1> QED BY <1>4 DEF OwnGroup, Rows

LEMMA Published ==
  ASSUME NoRepeats, DistinctIds, JoinInv, main = "intersect", \A w \in Worker : dec[w] = "end"
  PROVE  joined = Promise!Join
  <1> USE DEF JoinInv, RowInv, TypeInv, TypeOK
  <1>1. \A k \in Keys : groups[k] = Rows(k) BY WholeGroups DEF Late
  <1>2. decClosed /\ \A w \in Worker : dec[w] # "put" BY PoolAssumption DEF Late
  <1>3. ASSUME NEW k \in Keys, Joinable(Rows(k)) PROVE k \in visited
    <2>1. Unmasked(Rows(k)) BY <1>3, CompleteGroup DEF Rows
    <2>2. Rows(k) # {} BY <2>1, Flags DEF Unmasked
    <2> QED BY <1>1, <1>2, <2>2 DEF Late
  <1>4. joined = {<<k, Columns(Rows(k))>> : k \in {k \in Keys : Joinable(Rows(k))}}
    <2>1. ASSUME NEW x \in joined
          PROVE  \E k \in Keys : Joinable(Rows(k)) /\ x = <<k, Columns(Rows(k))>>
          BY <1>1 DEF Joins, Entry
    <2>2. ASSUME NEW k \in Keys, Joinable(Rows(k)) PROVE <<k, Columns(Rows(k))>> \in joined
          BY <1>1, <1>2, <1>3, <2>2 DEF Joins, Entry
    <2> QED BY <2>1, <2>2
  <1> DEFINE Its(c) == {i \in RowNo : Sources[Stream[i].src] = c}
  <1>5. \A c \in Client : DOMAIN TableOf[c] = {Stream[i].key : i \in Its(c)} BY DEF TableOf
  <1>6. Promise!Keys = Keys
    <2>1. \A i \in RowNo : Sources[Stream[i].src] \in Client /\ i \in Its(Sources[Stream[i].src])
          BY Flags
    <2>2. Promise!Keys \subseteq Keys BY <1>5 DEF Promise!Keys, Keys
    <2>3. ASSUME NEW i \in RowNo PROVE Stream[i].key \in Promise!Keys
      <3> DEFINE c == Sources[Stream[i].src]
      <3>1. c \in Client /\ Stream[i].key \in DOMAIN TableOf[c] BY <1>5, <2>1
      <3> QED BY <3>1 DEF Promise!Keys
    <2> QED BY <2>2, <2>3 DEF Keys
  <1>7. ASSUME NEW k \in Keys PROVE Promise!Holders(k) = Client <=> Joinable(Rows(k))
    <2>1. Promise!Holders(k) = {c \in Client : \E i \in Rows(k) : Sources[Stream[i].src] = c}
          BY <1>5 DEF Promise!Holders, Rows
    <2>2. ASSUME Promise!Holders(k) = Client, NEW j \in 1 .. Len(Sources)
          PROVE  \E i \in Rows(k) : Stream[i].src = j
      <3>1. Sources[j] \in Client BY Flags
      <3>2. PICK i \in Rows(k) : Sources[Stream[i].src] = Sources[j] BY <2>1, <2>2, <3>1
      <3>3. Stream[i].src \in 1 .. Len(Sources) BY Flags DEF Rows
      <3> QED BY <3>2, <3>3 DEF DistinctIds
    <2>3. ASSUME Unmasked(Rows(k)), NEW c \in Client
          PROVE  \E i \in Rows(k) : Sources[Stream[i].src] = c
      <3>1. PICK j \in 1 .. Len(Sources) : Sources[j] = c BY Flags
      <3>2. PICK i \in Rows(k) : Stream[i].src = j BY <2>3 DEF Unmasked
      <3> QED BY <3>1, <3>2
    <2>4. Promise!Holders(k) = Client <=> Unmasked(Rows(k))
      <3>1. \A i \in Rows(k) : Stream[i].src \in 1 .. Len(Sources) BY Flags DEF Rows
      <3>2. Promise!Holders(k) = Client => Unmasked(Rows(k)) BY <2>2, <3>1 DEF Unmasked
      <3>3. Unmasked(Rows(k)) => Promise!Holders(k) = Client BY <2>1, <2>3
      <3> QED BY <3>2, <3>3
    <2>5. Joinable(Rows(k)) <=> Unmasked(Rows(k)) BY CompleteGroup DEF Rows
    <2> QED BY <2>4, <2>5
  <1>8. ASSUME NEW k \in Keys, Joinable(Rows(k))
        PROVE  Columns(Rows(k)) = [c \in Client |-> TableOf[c][k]]
    <2>1. Promise!Holders(k) = Client BY <1>7, <1>8
    <2>2. ASSUME NEW c \in Client PROVE Columns(Rows(k))[c] = TableOf[c][k]
      <3> DEFINE its == {i \in Rows(k) : Sources[Stream[i].src] = c}
      <3>1. k \in DOMAIN TableOf[c] BY <2>1 DEF Promise!Holders
      <3>2. PICK i \in Its(c) : Stream[i].key = k BY <1>5, <3>1
      <3>3. \A j \in RowNo : Sources[Stream[j].src] = c /\ Stream[j].key = k => j = i
            BY <3>2, Flags DEF DistinctIds, NoRepeats
      <3>4. its = {i} BY <3>2, <3>3 DEF Rows
      <3>5. Columns(Rows(k))[c] = Stream[i].val
        <4>1. (CHOOSE j \in its : TRUE) = i BY <3>4
        <4>2. Columns(Rows(k))[c] = IF its = {} THEN "" ELSE Stream[CHOOSE j \in its : TRUE].val
              BY DEF Columns
        <4> QED BY <3>4, <4>1, <4>2
      <3>6. (CHOOSE j \in Its(c) : Stream[j].key = k) = i BY <3>2, <3>3
      <3>7. k \in {Stream[j].key : j \in Its(c)} BY <3>2
      <3>8. TableOf[c][k] = Stream[CHOOSE j \in Its(c) : Stream[j].key = k].val
            BY <3>7 DEF TableOf
      <3> QED BY <3>5, <3>6, <3>8
    <2>3. Columns(Rows(k)) = [c \in Client |-> Columns(Rows(k))[c]] BY DEF Columns
    <2> QED BY <2>2, <2>3
  <1> QED BY <1>4, <1>6, <1>7, <1>8 DEF Promise!Join

(* The receiver publishes the join of the tables the rows stand for, once  *)
(* and whatever the interleaving of its pools.                             *)
THEOREM ImplementsJoin == NoRepeats /\ DistinctIds => (Spec => JoinSpec)
  <1> SUFFICES ASSUME NoRepeats, DistinctIds PROVE Spec => JoinSpec OBVIOUS
  <1> DEFINE out == IF main = "done" THEN joined ELSE Unpublished
  <1>1. Init => Promise!Init BY DEF Init, Promise!Init
  <1>2. JoinInv /\ [Next]_vars => [Promise!Publish]_out
    <2> SUFFICES ASSUME JoinInv, [Next]_vars PROVE [Promise!Publish]_out OBVIOUS
    <2> USE DEF readVars, convVars, grpVars, decVars
    <2>1. CASE WriteResult
      <3>1. joined = Promise!Join BY <2>1, Published DEF WriteResult
      <3>2. main = "intersect" /\ main' = "done" /\ joined' = joined BY <2>1 DEF WriteResult
      <3> QED BY <3>1, <3>2 DEF Promise!Publish
    <2>2. CASE main = "done"
      <3>1. \A w \in Worker : dec[w] = "end" BY <2>2 DEF JoinInv, Late
      <3>2. ~Main BY <2>2 DEF Main, Spawn, StartGrouping, StartIntersect, SkipGroup, SendGroup,
                             CloseTasks, WriteResult
      <3>3. \A w \in Worker : ~Decrypter(w) BY <3>1 DEF Decrypter, Decrypt, DecEnd
      <3>4. joined' = joined /\ main' = main BY <3>2, <3>3, Elsewhere DEF JoinInv, RowInv
      <3> QED BY <3>4
    <2>3. CASE main # "done" /\ ~WriteResult
      <3>1. main' # "done"
        <4>1. CASE Main
              BY <2>3, <4>1 DEF Main, Spawn, StartGrouping, StartIntersect, SkipGroup, SendGroup,
                                CloseTasks
        <4>2. ASSUME NEW w \in Worker, Decrypter(w) PROVE main' = main
              BY <4>2 DEF Decrypter, Decrypt, DecEnd
        <4>3. CASE ~Main /\ \A w \in Worker : ~Decrypter(w)
              BY <2>3, <4>3, Elsewhere DEF JoinInv, RowInv
        <4> QED BY <2>3, <4>1, <4>2, <4>3
      <3> QED BY <2>3, <3>1
    <2> QED BY <2>1, <2>2, <2>3
  <1>3. JoinInv /\ [Next]_vars => JoinInv' BY JoinNext
  <1> QED BY <1>1, <1>2, <1>3, JoinInit, PTL DEF Spec, JoinSpec, Promise!Spec
=============================================================================
