-------------------------- MODULE ReferenceProofs ---------------------------
(***************************************************************************)
(* Proofs about ReferenceJoins, for any sources, any size of the tables,   *)
(* and any order in which the maps are read.                               *)
(***************************************************************************)
EXTENDS ReferenceJoins, DataLemmas

-----------------------------------------------------------------------------
(* The sources.                                                            *)
LEMMA SourcesAre ==
  /\ N \in Nat /\ N >= 2 /\ DOMAIN Sources = 1 .. N
  /\ Source = {Sources[i] : i \in 1 .. N}
  /\ \A i, j \in 1 .. N : Sources[i] = Sources[j] => i = j
  /\ Sources[1] \in Source /\ Sources[2] \in Source /\ Sources[1] # Sources[2]
  <1>1. Sources \in Seq(Source) /\ IsInjective(Sources) /\ N >= 2 BY ReferenceAssumption
  <1>2. Len(Sources) \in Nat /\ DOMAIN Sources = 1 .. Len(Sources) BY <1>1
  <1>3. N \in Nat /\ DOMAIN Sources = 1 .. N BY <1>2 DEF N
  <1>4. Source = {Sources[i] : i \in 1 .. N} BY <1>3 DEF Source, Range
  <1>5. \A i, j \in 1 .. N : Sources[i] = Sources[j] => i = j BY <1>1, <1>3 DEF IsInjective
  <1>6. 1 \in 1 .. N /\ 2 \in 1 .. N BY <1>1, <1>3
  <1> QED BY <1>1, <1>3, <1>4, <1>5, <1>6

LEMMA SourcesCounted == IsFiniteSet(Source) /\ Cardinality(Source) = N
  <1>1. IsFiniteSet(1 .. N) /\ Cardinality(1 .. N) = N BY SourcesAre, FS_Interval
  <1>2. Sources \in Bijection(1 .. N, Source)
    <2>1. Sources \in [1 .. N -> Source] BY ReferenceAssumption DEF N
    <2>2. \A t \in Source : \E i \in 1 .. N : Sources[i] = t BY SourcesAre
    <2> QED BY <2>1, <2>2, ReferenceAssumption DEF Bijection, Injection, Surjection
  <1> QED BY <1>1, <1>2, FS_Bijection DEF ExistsBijection

LEMMA InCommon ==
  ASSUME NEW ts, NEW k
  PROVE  k \in CommonKeys(ts) <=> \A s \in Source : k \in DOMAIN ts[s]
  BY SourcesAre DEF CommonKeys

-----------------------------------------------------------------------------
(* Types.  What the reference join works with is empty until the tables    *)
(* are generated, and keys are to be removed only in gen_data's loop.      *)
Idle ==
  phase \in {"generate", "refused", "rename"} =>
     /\ \A s \in Source : unread[s] = {}
     /\ partJoin = {} /\ joined = <<>>

RemovingOnly ==
  /\ phase # "rename" => toRemove = {}
  /\ program = "test" => phase \in {"generate", "group", "join", "compare", "done"}
  /\ program = "experiment" => phase \in {"generate", "refused", "rename", "done"}

TypeInv == TypeOK /\ DOMAIN unread = Source /\ Idle /\ RemovingOnly

LEMMA TypeInit == Init => TypeInv
  <1> SUFFICES ASSUME Init PROVE TypeInv OBVIOUS
  <1>1. /\ program \in {"test", "experiment"}
        /\ nRows \in 0 .. MaxRows /\ size \in 0 .. MaxRows
        /\ DOMAIN tables = Source /\ toRemove = {} /\ phase = "generate"
        /\ DOMAIN unread = Source /\ \A s \in Source : unread[s] = {}
        /\ partJoin = {} /\ joined = <<>>
        BY DEF Init
  <1> QED BY <1>1 DEF TypeInv, TypeOK, Idle, RemovingOnly

LEMMA TypeNext == TypeInv /\ [Next]_vars => TypeInv'
  <1> SUFFICES ASSUME TypeInv, [Next]_vars PROVE TypeInv' OBVIOUS
  <1>1. CASE GenTestTables
    <2>1. /\ phase = "generate" /\ program = "test" /\ phase' = "group"
          /\ DOMAIN tables' = Source /\ DOMAIN unread' = Source
          /\ \A s \in Source : unread'[s] = DOMAIN tables'[s]
          /\ UNCHANGED <<program, nRows, size, toRemove, partJoin>>
          BY <1>1 DEF GenTestTables
    <2>2. toRemove = {} /\ partJoin = {} BY <2>1 DEF TypeInv, Idle, RemovingOnly
    <2> QED BY <2>1, <2>2 DEF TypeInv, TypeOK, Idle, RemovingOnly
  <1>2. CASE GenerateTables
    <2>1. /\ phase = "generate" /\ program = "experiment"
          /\ DOMAIN tables' = Source /\ phase' \in {"refused", "rename"}
          /\ phase' = "refused" => toRemove' = toRemove
          /\ phase' = "rename" => toRemove' \subseteq {DataKey(i) : i \in 0 .. nRows - 1}
          /\ \A s \in Source : DOMAIN tables'[s] = {DataKey(i) : i \in 0 .. nRows - 1}
          /\ UNCHANGED <<program, nRows, size, unread, partJoin, joined>>
          BY <1>2 DEF GenerateTables
    <2>2. toRemove = {} /\ partJoin = {} /\ joined = <<>> /\ \A s \in Source : unread[s] = {}
          BY <2>1 DEF TypeInv, Idle, RemovingOnly
    <2>3. toRemove' \subseteq CommonKeys(tables')
      <3> SUFFICES ASSUME NEW k \in toRemove' PROVE k \in CommonKeys(tables') OBVIOUS
      <3>1. \A s \in Source : k \in DOMAIN tables'[s] BY <2>1, <2>2
      <3> QED BY <3>1, InCommon
    <2> QED BY <2>1, <2>2, <2>3 DEF TypeInv, TypeOK, Idle, RemovingOnly
  <1>3. ASSUME NEW k \in toRemove, Rename(k) PROVE TypeInv'
    <2>1. PICK some \in SomeTables :
             tables' = [s \in Source |-> IF s \in some THEN Renamed(tables[s], k) ELSE tables[s]]
          BY <1>3 DEF Rename
    <2>2. /\ phase = "rename" /\ toRemove' = toRemove \ {k}
          /\ UNCHANGED <<program, nRows, size, unread, partJoin, joined, phase>>
          BY <1>3 DEF Rename
    <2>3. \A s \in Source : DOMAIN tables[s] \ {k} \subseteq DOMAIN tables'[s]
          BY <2>1 DEF Renamed
    <2>4. toRemove' \subseteq CommonKeys(tables')
      <3> SUFFICES ASSUME NEW x \in toRemove' PROVE x \in CommonKeys(tables') OBVIOUS
      <3>1. x \in CommonKeys(tables) /\ x # k BY <2>2 DEF TypeInv, TypeOK
      <3>2. \A s \in Source : x \in DOMAIN tables'[s] BY <2>3, <3>1, InCommon
      <3> QED BY <3>2, InCommon
    <2>5. /\ DOMAIN tables' = Source /\ partJoin = {} /\ joined = <<>>
          /\ \A s \in Source : unread[s] = {}
          BY <2>1, <2>2 DEF TypeInv, Idle
    <2> QED BY <2>2, <2>4, <2>5 DEF TypeInv, TypeOK, Idle, RemovingOnly
  <1>4. CASE JoinTables
    <2>1. /\ phase = "rename" /\ toRemove = {} /\ phase' = "done"
          /\ UNCHANGED <<program, nRows, size, tables, toRemove, unread, partJoin>>
          BY <1>4 DEF JoinTables
    <2> QED BY <2>1 DEF TypeInv, TypeOK, Idle, RemovingOnly
  <1>5. ASSUME NEW s \in Source, NEW k \in unread[s], Read(s, k) PROVE TypeInv'
    <2> DEFINE e == <<k, s, tables[s][k]>>
    <2>1. /\ phase = "group" /\ partJoin' = partJoin \union {e}
          /\ \A t \in Source : unread'[t] = IF t = s THEN unread[t] \ {k} ELSE unread[t]
          /\ DOMAIN unread' = Source
          /\ UNCHANGED <<program, nRows, size, tables, toRemove, joined, phase>>
          BY <1>5 DEF Read, TypeInv
    <2>2. e[1] = k /\ e[2] = s OBVIOUS
    <2>3. k \in DOMAIN tables[s] /\ k \notin unread'[s] BY <2>1 DEF TypeInv, TypeOK
    <2>4. \A x \in partJoin : ~(x[1] = k /\ x[2] = s) BY DEF TypeInv, TypeOK
    <2> HIDE DEF e
    <2>5. \A x \in partJoin' : x[2] \in Source /\ x[1] \in DOMAIN tables[x[2]] \ unread'[x[2]]
          BY <2>1, <2>2, <2>3 DEF TypeInv, TypeOK
    <2>6. \A x, y \in partJoin' : x[1] = y[1] /\ x[2] = y[2] => x = y
          BY <2>1, <2>2, <2>4 DEF TypeInv, TypeOK
    <2>7. \A t \in Source : unread'[t] \subseteq DOMAIN tables[t]
          BY <2>1 DEF TypeInv, TypeOK
    <2> QED BY <2>1, <2>5, <2>6, <2>7 DEF TypeInv, TypeOK, Idle, RemovingOnly
  <1>6. CASE GroupEnd \/ JoinEnd \/ Compare
    <2>1. /\ phase \in {"group", "join", "compare"} /\ phase' \in {"join", "compare", "done"}
          /\ UNCHANGED <<program, nRows, size, tables, toRemove, unread, partJoin, joined>>
          BY <1>6 DEF GroupEnd, JoinEnd, Compare
    <2>2. program = "test" BY <2>1 DEF TypeInv, TypeOK, RemovingOnly
    <2> QED BY <2>1, <2>2 DEF TypeInv, TypeOK, Idle, RemovingOnly
  <1>7. ASSUME NEW k, InsertRow(k) PROVE TypeInv'
    <2>1. /\ phase = "join" /\ partJoin' \subseteq partJoin
          /\ UNCHANGED <<program, nRows, size, tables, toRemove, unread, phase>>
          BY <1>7 DEF InsertRow
    <2> QED BY <2>1 DEF TypeInv, TypeOK, Idle, RemovingOnly
  <1>8. CASE UNCHANGED vars
        BY <1>8 DEF vars, TypeInv, TypeOK, Idle, RemovingOnly
  <1> QED BY <1>1, <1>2, <1>3, <1>4, <1>5, <1>6, <1>7, <1>8 DEF Next

(* The type invariant: keys are removed only where they are in all tables, *)
(* and a group has at most one value of each source (IntersectSimple's     *)
(* maps of maps, and gen_data's loop).                                     *)
THEOREM Typed == Spec => []TypeOK
  <1>1. TypeInv => TypeOK BY DEF TypeInv
  <1> QED BY <1>1, TypeInit, TypeNext, PTL DEF Spec

-----------------------------------------------------------------------------
(* The generators.                                                         *)

(* Keys that differ only in a number are as many as the numbers.           *)
LEMMA NumberedKeys ==
  ASSUME NEW a, NEW n \in Nat
  PROVE  /\ IsFiniteSet({<<a, i>> : i \in 0 .. n - 1})
         /\ Cardinality({<<a, i>> : i \in 0 .. n - 1}) = n
  <1> DEFINE I == 0 .. n - 1
             K == {<<a, i>> : i \in I}
             f == [i \in I |-> <<a, i>>]
  <1>1. IsFiniteSet(I) /\ Cardinality(I) = n
    <2>1. n - 1 \in Int OBVIOUS
    <2>2. IsFiniteSet(I) /\ Cardinality(I) = IF 0 > n - 1 THEN 0 ELSE n - 1 - 0 + 1
          BY <2>1, FS_Interval
    <2> HIDE DEF I
    <2> QED BY <2>2
  <1>2. f \in Bijection(I, K)
    <2>1. f \in [I -> K] OBVIOUS
    <2>2. \A i, j \in I : f[i] = f[j] => i = j OBVIOUS
    <2>3. \A k \in K : \E i \in I : f[i] = k OBVIOUS
    <2> HIDE DEF I, K, f
    <2> QED BY <2>1, <2>2, <2>3 DEF Bijection, Injection, Surjection, IsInjective
  <1> HIDE DEF I, K, f
  <1>3. IsFiniteSet(K) /\ Cardinality(K) = n BY <1>1, <1>2, FS_Bijection DEF ExistsBijection
  <1> QED BY <1>3 DEF K, I

DataKeys == {DataKey(i) : i \in 0 .. nRows - 1}
JoinKeys == {JoinKey(i) : i \in 0 .. size - 1}
OwnKeys(s) == {OwnKey(s, i) : i \in 0 .. OwnRows(nRows, size) - 1}

(* The test's tables stay as they are generated.                           *)
TestTables ==
  program = "test" /\ phase # "generate" =>
     \A s \in Source : tables[s] = GenTestTable(s, nRows, size)

(* The experiments' have nRows rows, and a key that was renamed is not     *)
(* renamed again; every round takes one from the common keys.              *)
OldOrRenamed(s) ==
  \A k \in DOMAIN tables[s] :
     k \in DataKeys \/ \E i \in 0 .. nRows - 1 : k = <<"removed", i>> /\ DataKey(i) \notin toRemove

ExpTables ==
  program = "experiment" /\ phase \notin {"generate", "refused"} =>
     /\ toRemove \subseteq DataKeys
     /\ \A s \in Source : /\ OldOrRenamed(s)
                          /\ IsFiniteSet(DOMAIN tables[s])
                          /\ Cardinality(DOMAIN tables[s]) = nRows
     /\ size > 0 => Cardinality(CommonKeys(tables)) = size + Cardinality(toRemove)

TablesInv == TypeInv /\ TestTables /\ ExpTables

(* What a round of postprocess_tables does to a table and the common keys. *)
LEMMA RenameOne ==
  ASSUME NEW t, IsFiniteSet(DOMAIN t), NEW k \in DOMAIN t, RemovedKey(k) \notin DOMAIN t
  PROVE  /\ DOMAIN Renamed(t, k) = (DOMAIN t \ {k}) \union {RemovedKey(k)}
         /\ IsFiniteSet(DOMAIN Renamed(t, k))
         /\ Cardinality(DOMAIN Renamed(t, k)) = Cardinality(DOMAIN t)
  <1> DEFINE D == DOMAIN t
             R == D \ {k}
             new == RemovedKey(k)
  <1>1. DOMAIN Renamed(t, k) = R \union {new} BY DEF Renamed
  <1>2. k \in D /\ new \notin R /\ IsFiniteSet(D) OBVIOUS
  <1> HIDE DEF D, new
  <1>3. IsFiniteSet(R) /\ Cardinality(R) = Cardinality(D) - 1 BY <1>2, FS_RemoveElement
  <1>4. Cardinality(D) \in Nat BY <1>2, FS_CardinalityType
  <1> HIDE DEF R
  <1>5. /\ IsFiniteSet(R \union {new})
        /\ Cardinality(R \union {new}) = Cardinality(R) + 1
        BY <1>2, <1>3, FS_AddElement
  <1> QED BY <1>1, <1>3, <1>4, <1>5 DEF D, R, new

LEMMA RenameTables ==
  ASSUME TablesInv, NEW k \in toRemove, Rename(k) PROVE ExpTables'
  <1>1. PICK some \in SomeTables :
           tables' = [s \in Source |-> IF s \in some THEN Renamed(tables[s], k) ELSE tables[s]]
        BY DEF Rename
  <1>2. /\ phase = "rename" /\ phase' = "rename" /\ toRemove' = toRemove \ {k}
        /\ UNCHANGED <<program, nRows, size>>
        BY DEF Rename
  <1>3. program = "experiment" BY <1>2 DEF TablesInv, TypeInv, TypeOK, RemovingOnly
  <1>4. /\ toRemove \subseteq DataKeys
        /\ \A s \in Source : /\ OldOrRenamed(s)
                             /\ IsFiniteSet(DOMAIN tables[s])
                             /\ Cardinality(DOMAIN tables[s]) = nRows
        /\ size > 0 => Cardinality(CommonKeys(tables)) = size + Cardinality(toRemove)
        BY <1>2, <1>3 DEF TablesInv, ExpTables
  <1>5. PICK i \in 0 .. nRows - 1 : k = DataKey(i) BY <1>4 DEF DataKeys
  <1> DEFINE new == RemovedKey(k)
  <1>6. new = <<"removed", i>> /\ k = <<"key", i>> /\ new # k
        BY <1>5 DEF RemovedKey, DataKey
  <1>7. ASSUME NEW s \in Source PROVE new \notin DOMAIN tables[s]
    <2> SUFFICES ASSUME new \in DOMAIN tables[s] PROVE FALSE OBVIOUS
    <2>1. new \notin DataKeys BY <1>6 DEF DataKeys, DataKey
    <2>2. PICK j \in 0 .. nRows - 1 : new = <<"removed", j>> /\ DataKey(j) \notin toRemove
          BY <1>4, <2>1 DEF OldOrRenamed
    <2>3. i = j BY <1>6, <2>2
    <2> QED BY <1>5, <2>2, <2>3
  <1>8. k \in CommonKeys(tables) BY DEF TablesInv, TypeInv, TypeOK
  <1>9. \A s \in Source : k \in DOMAIN tables[s] BY <1>8, InCommon
  <1>10. \A s \in Source :
            /\ DOMAIN tables'[s] = IF s \in some THEN (DOMAIN tables[s] \ {k}) \union {new}
                                   ELSE DOMAIN tables[s]
            /\ IsFiniteSet(DOMAIN tables'[s])
            /\ Cardinality(DOMAIN tables'[s]) = nRows
    <2> SUFFICES ASSUME NEW s \in Source
                 PROVE  /\ DOMAIN tables'[s] =
                             IF s \in some THEN (DOMAIN tables[s] \ {k}) \union {new}
                             ELSE DOMAIN tables[s]
                        /\ IsFiniteSet(DOMAIN tables'[s])
                        /\ Cardinality(DOMAIN tables'[s]) = nRows
        OBVIOUS
    <2>1. CASE s \in some
      <3>1. tables'[s] = Renamed(tables[s], k) BY <1>1, <2>1
      <3>2. /\ DOMAIN Renamed(tables[s], k) = (DOMAIN tables[s] \ {k}) \union {new}
            /\ IsFiniteSet(DOMAIN Renamed(tables[s], k))
            /\ Cardinality(DOMAIN Renamed(tables[s], k)) = Cardinality(DOMAIN tables[s])
            BY <1>4, <1>7, <1>9, RenameOne
      <3> QED BY <1>4, <2>1, <3>1, <3>2
    <2>2. CASE s \notin some
      <3>1. tables'[s] = tables[s] BY <1>1, <2>2
      <3> QED BY <1>4, <2>2, <3>1
    <2> QED BY <2>1, <2>2
  <1> HIDE DEF new
  <1>11. CommonKeys(tables') = CommonKeys(tables) \ {k}
    <2>1. PICK a \in Source : a \in some BY DEF SomeTables
    <2>2. PICK b \in Source : b \notin some BY DEF SomeTables
    <2>3. ASSUME NEW x \in CommonKeys(tables') PROVE x \in CommonKeys(tables) \ {k}
      <3>1. \A s \in Source : x \in DOMAIN tables'[s] BY <2>3, InCommon
      <3>2. x # new BY <1>7, <1>10, <2>2, <3>1
      <3>3. x # k BY <1>6, <1>10, <2>1, <3>1
      <3>4. \A s \in Source : x \in DOMAIN tables[s] BY <1>10, <3>1, <3>2
      <3> QED BY <3>3, <3>4, InCommon
    <2>4. ASSUME NEW x \in CommonKeys(tables), x # k PROVE x \in CommonKeys(tables')
      <3>1. \A s \in Source : x \in DOMAIN tables[s] BY <2>4, InCommon
      <3>2. \A s \in Source : x \in DOMAIN tables'[s] BY <1>10, <2>4, <3>1
      <3> QED BY <3>2, InCommon
    <2> QED BY <2>3, <2>4
  <1>12. ASSUME size > 0
         PROVE  Cardinality(CommonKeys(tables')) = size + Cardinality(toRemove')
    <2>1. IsFiniteSet(CommonKeys(tables))
      <3>1. CommonKeys(tables) \in SUBSET DOMAIN tables[Sources[1]] BY DEF CommonKeys
      <3>2. IsFiniteSet(DOMAIN tables[Sources[1]]) BY <1>4, SourcesAre
      <3> QED BY <3>1, <3>2, FS_Subset
    <2>2. IsFiniteSet(toRemove)
      <3>1. toRemove \in SUBSET CommonKeys(tables) BY DEF TablesInv, TypeInv, TypeOK
      <3> QED BY <2>1, <3>1, FS_Subset
    <2>3. Cardinality(CommonKeys(tables')) = Cardinality(CommonKeys(tables)) - 1
          BY <1>8, <1>11, <2>1, FS_RemoveElement
    <2>4. Cardinality(toRemove') = Cardinality(toRemove) - 1
          BY <1>2, <2>2, FS_RemoveElement
    <2>5. Cardinality(toRemove) \in Nat /\ size \in Nat
          BY <2>2, FS_CardinalityType, ReferenceAssumption DEF TablesInv, TypeInv, TypeOK
    <2> QED BY <1>4, <1>12, <2>3, <2>4, <2>5
  <1>13. ASSUME NEW s \in Source PROVE OldOrRenamed(s)'
    <2> SUFFICES ASSUME NEW x \in DOMAIN tables'[s]
                 PROVE  \/ x \in DataKeys
                        \/ \E j \in 0 .. nRows - 1 : x = <<"removed", j>>
                                                     /\ DataKey(j) \notin toRemove'
        BY <1>2 DEF OldOrRenamed, DataKeys
    <2>1. CASE x = new
      <3>1. x = <<"removed", i>> /\ DataKey(i) \notin toRemove' BY <1>2, <1>5, <1>6, <2>1
      <3> QED BY <3>1
    <2>2. CASE x # new
      <3>1. x \in DOMAIN tables[s] BY <1>10, <2>2
      <3> QED BY <1>2, <1>4, <3>1 DEF OldOrRenamed
    <2> QED BY <2>1, <2>2
  <1>14. toRemove' \subseteq DataKeys' BY <1>2, <1>4 DEF DataKeys
  <1> QED BY <1>2, <1>10, <1>12, <1>13, <1>14 DEF ExpTables

LEMMA GenerateTablesInv ==
  ASSUME TablesInv, GenerateTables PROVE ExpTables'
  <1>1. /\ phase = "generate" /\ program = "experiment" /\ phase' \in {"refused", "rename"}
        /\ \A s \in Source : DOMAIN tables'[s] = DataKeys
        /\ UNCHANGED <<program, nRows, size>>
        BY DEF GenerateTables, DataKeys
  <1> SUFFICES ASSUME phase' = "rename" PROVE ExpTables'
      BY <1>1 DEF ExpTables
  <1>2. ~(size > 0 /\ nRows <= size) BY DEF GenerateTables
  <1>3. PICK ks \in SUBSET DataKeys :
           /\ Cardinality(ks) = IF size = 0 THEN 0 ELSE nRows - size
           /\ toRemove' = ks
        BY DEF GenerateTables, DataKeys
  <1>4. nRows \in Nat /\ size \in Nat
        BY ReferenceAssumption DEF TablesInv, TypeInv, TypeOK
  <1>5. IsFiniteSet(DataKeys) /\ Cardinality(DataKeys) = nRows
        BY <1>4, NumberedKeys DEF DataKeys, DataKey
  <1>6. CommonKeys(tables') = DataKeys
    <2>1. \A k : k \in CommonKeys(tables') <=> \A s \in Source : k \in DOMAIN tables'[s]
          BY InCommon
    <2> QED BY <1>1, <2>1, SourcesAre
  <1>7. DataKeys' = DataKeys BY <1>1 DEF DataKeys
  <1>8. \A s \in Source : OldOrRenamed(s)' BY <1>1, <1>7 DEF OldOrRenamed
  <1>9. size > 0 => Cardinality(CommonKeys(tables')) = size + Cardinality(toRemove')
        BY <1>2, <1>3, <1>4, <1>5, <1>6
  <1> QED BY <1>1, <1>3, <1>5, <1>7, <1>8, <1>9 DEF ExpTables

LEMMA TablesInit == Init => TablesInv
  <1>1. Init => TestTables /\ ExpTables BY DEF Init, TestTables, ExpTables
  <1> QED BY <1>1, TypeInit DEF TablesInv

LEMMA TablesNext == TablesInv /\ [Next]_vars => TablesInv'
  <1> SUFFICES ASSUME TablesInv, [Next]_vars PROVE TestTables' /\ ExpTables'
      BY TypeNext DEF TablesInv
  <1>1. CASE GenTestTables
    <2>1. /\ program' = "test" /\ UNCHANGED <<nRows, size>>
          /\ \A s \in Source : tables'[s] = GenTestTable(s, nRows, size)
          BY <1>1 DEF GenTestTables
    <2> QED BY <2>1 DEF TestTables, ExpTables
  <1>2. CASE GenerateTables
    <2>1. program' = "experiment" BY <1>2 DEF GenerateTables
    <2> QED BY <1>2, <2>1, GenerateTablesInv DEF TestTables
  <1>3. ASSUME NEW k \in toRemove, Rename(k) PROVE TestTables' /\ ExpTables'
    <2>1. phase = "rename" /\ program' = program BY <1>3 DEF Rename
    <2>2. program' # "test" BY <2>1 DEF TablesInv, TypeInv, RemovingOnly
    <2> QED BY <1>3, <2>2, RenameTables DEF TestTables
  <1>4. ASSUME /\ UNCHANGED <<program, nRows, size, tables, toRemove>>
               /\ phase' = phase \/ phase \notin {"generate", "refused"}
        PROVE  TestTables' /\ ExpTables'
    <2>1. phase' = phase \/ phase \notin {"generate", "refused"} BY <1>4
    <2>2. program = "test" => TestTables'
      <3>1. phase = "refused" => program # "test" BY DEF TablesInv, TypeInv, RemovingOnly
      <3> QED BY <1>4, <3>1 DEF TablesInv, TestTables
    <2>3. program # "test" => TestTables' BY <1>4 DEF TestTables
    <2>4. ExpTables' BY <1>4 DEF TablesInv, ExpTables, OldOrRenamed, DataKeys
    <2> QED BY <2>2, <2>3, <2>4
  <1> QED BY <1>1, <1>2, <1>3, <1>4
          DEF Next, vars, JoinTables, Read, GroupEnd, InsertRow, JoinEnd, Compare

(* The keys of the test's tables.                                          *)
LEMMA TestKeys ==
  ASSUME nRows \in Nat, size \in Nat, NEW s \in Source
  PROVE  /\ DOMAIN GenTestTable(s, nRows, size) = JoinKeys \union OwnKeys(s)
         /\ IsFiniteSet(JoinKeys) /\ Cardinality(JoinKeys) = size
         /\ IsFiniteSet(DOMAIN GenTestTable(s, nRows, size))
         /\ size <= nRows => Cardinality(DOMAIN GenTestTable(s, nRows, size)) = nRows
         /\ \A i \in 0 .. size - 1 :
               GenTestTable(s, nRows, size)[JoinKey(i)] = <<<<"value", i>>>>
  <1> DEFINE D == DOMAIN GenTestTable(s, nRows, size)
  <1>1. D = JoinKeys \union OwnKeys(s) BY DEF GenTestTable, JoinKeys, OwnKeys
  <1>2. IsFiniteSet(JoinKeys) /\ Cardinality(JoinKeys) = size
        BY NumberedKeys DEF JoinKeys, JoinKey
  <1>3. IsFiniteSet(OwnKeys(s))
    <2>1. CASE size <= nRows
      <3>1. nRows - size \in Nat BY <2>1
      <3> QED BY <3>1, NumberedKeys DEF OwnKeys, OwnKey, OwnRows
    <2>2. CASE size > nRows
      <3>1. OwnKeys(s) = {} BY <2>2 DEF OwnKeys, OwnRows
      <3> QED BY <3>1, FS_EmptySet
    <2> QED BY <2>1, <2>2
  <1>4. JoinKeys \cap OwnKeys(s) = {}
        BY ReferenceAssumption DEF JoinKeys, JoinKey, OwnKeys, OwnKey
  <1> HIDE DEF D
  <1>5. IsFiniteSet(D) BY <1>1, <1>2, <1>3, FS_Union
  <1>6. ASSUME size <= nRows PROVE Cardinality(D) = nRows
    <2>1. nRows - size \in Nat BY <1>6
    <2>2. Cardinality(OwnKeys(s)) = nRows - size
          BY <2>1, NumberedKeys DEF OwnKeys, OwnKey, OwnRows
    <2>3. Cardinality(D) = Cardinality(JoinKeys) + Cardinality(OwnKeys(s))
                             - Cardinality(JoinKeys \cap OwnKeys(s))
          BY <1>1, <1>2, <1>3, FS_Union
    <2>4. Cardinality(JoinKeys \cap OwnKeys(s)) = 0 BY <1>4, FS_EmptySet
    <2> QED BY <1>2, <2>1, <2>2, <2>3, <2>4
  <1>7. \A i \in 0 .. size - 1 :
           GenTestTable(s, nRows, size)[JoinKey(i)] = <<<<"value", i>>>>
    <2> SUFFICES ASSUME NEW i \in 0 .. size - 1
                 PROVE  GenTestTable(s, nRows, size)[JoinKey(i)] = <<<<"value", i>>>>
        OBVIOUS
    <2>1. JoinKey(i)[1] # s /\ JoinKey(i)[2] = i BY ReferenceAssumption DEF JoinKey
    <2>2. JoinKey(i) \in {JoinKey(j) : j \in 0 .. size - 1} OBVIOUS
    <2> HIDE DEF JoinKey
    <2> QED BY <2>1, <2>2 DEF GenTestTable
  <1> QED BY <1>1, <1>2, <1>5, <1>6, <1>7 DEF D

LEMMA TestCommon ==
  ASSUME nRows \in Nat, size \in Nat,
         \A s \in Source : tables[s] = GenTestTable(s, nRows, size)
  PROVE  CommonKeys(tables) = JoinKeys
  <1>1. \A s \in Source : DOMAIN tables[s] = JoinKeys \union OwnKeys(s) BY TestKeys
  <1>2. ASSUME NEW k \in CommonKeys(tables) PROVE k \in JoinKeys
    <2>1. k \in DOMAIN tables[Sources[1]] /\ k \in DOMAIN tables[Sources[2]]
          BY SourcesAre, InCommon
    <2>2. \A s \in Source : k \in OwnKeys(s) => k[1] = s BY DEF OwnKeys, OwnKey
    <2> QED BY <1>1, <2>1, <2>2, SourcesAre
  <1>3. ASSUME NEW k \in JoinKeys PROVE k \in CommonKeys(tables)
        BY <1>1, InCommon
  <1> QED BY <1>2, <1>3

(* The generators do what they are asked, for tables and joins of any size *)
(* and whatever keys and tables are drawn: each table has nRows rows, and  *)
(* `size' keys are in all of them (GenTestTable; generate_tables and       *)
(* postprocess_tables).                                                    *)
THEOREM OrdersFilled == Spec => []AsOrdered
  <1>1. TablesInv => AsOrdered
    <2> SUFFICES ASSUME TablesInv, phase \in {"group", "join", "compare", "done"},
                        IF program = "test" THEN size <= nRows ELSE size > 0
                 PROVE  /\ \A s \in Source : Cardinality(DOMAIN tables[s]) = nRows
                        /\ Cardinality(CommonKeys(tables)) = size
        BY DEF AsOrdered
    <2>1. nRows \in Nat /\ size \in Nat /\ program \in {"test", "experiment"}
          BY ReferenceAssumption DEF TablesInv, TypeInv, TypeOK
    <2>2. CASE program = "test"
      <3>1. \A s \in Source : tables[s] = GenTestTable(s, nRows, size)
            BY <2>2 DEF TablesInv, TestTables
      <3>2. CommonKeys(tables) = JoinKeys BY <2>1, <3>1, TestCommon
      <3>3. Cardinality(JoinKeys) = size BY <2>1, SourcesAre, TestKeys
      <3>4. \A s \in Source : Cardinality(DOMAIN GenTestTable(s, nRows, size)) = nRows
            BY <2>1, <2>2, TestKeys
      <3> QED BY <3>1, <3>2, <3>3, <3>4
    <2>3. CASE program = "experiment"
      <3>1. toRemove = {} BY <2>3 DEF TablesInv, TypeInv, RemovingOnly
      <3>2. Cardinality(toRemove) = 0 BY <3>1, FS_EmptySet
      <3> QED BY <2>1, <2>3, <3>2 DEF TablesInv, ExpTables
    <2> QED BY <2>1, <2>2, <2>3
  <1> QED BY <1>1, TablesInit, TablesNext, PTL DEF Spec

-----------------------------------------------------------------------------
(* The joins.                                                              *)

(* A sequence of the elements of a finite set.                             *)
LEMMA SetInOrder ==
  ASSUME NEW S, IsFiniteSet(S)
  PROVE  /\ SetToSeq(S) \in Seq(S) /\ Range(SetToSeq(S)) = S
         /\ IsInjective(SetToSeq(S))
  <1> DEFINE n == Cardinality(S)
             q == SetToSeq(S)
  <1>1. n \in Nat /\ ExistsBijection(1 .. n, S) BY FS_CardinalityType
  <1>2. \E f \in [1 .. n -> S] : IsInjective(f)
        BY <1>1 DEF ExistsBijection, Bijection, Injection
  <1>3. q \in [1 .. n -> S] /\ IsInjective(q) BY <1>2 DEF SetToSeq
  <1> HIDE DEF q
  <1>4. q \in Injection(1 .. n, S) BY <1>3 DEF Injection
  <1>5. Cardinality(1 .. n) = n BY <1>1, FS_Interval
  <1> HIDE DEF n
  <1>6. q \in Surjection(1 .. n, S) BY <1>4, <1>5, FS_Injection DEF n
  <1>7. Range(q) = S BY <1>3, <1>6 DEF Surjection, Range
  <1>8. q \in Seq(S) BY <1>1, <1>3
  <1> QED BY <1>3, <1>7, <1>8 DEF q

LEMMA AppendOnce ==
  ASSUME NEW s, s \in Seq(Range(s)), NEW e
  PROVE  /\ Append(s, e) \in Seq(Range(Append(s, e)))
         /\ Range(Append(s, e)) = Range(s) \union {e}
         /\ IsInjective(s) /\ e \notin Range(s) => IsInjective(Append(s, e))
  <1> DEFINE a == Append(s, e)
             S == Range(s) \union {e}
  <1>1. s \in Seq(S) BY SeqMonotonic
  <1>2. e \in S OBVIOUS
  <1> HIDE DEF S
  <1>3. a \in Seq(S) BY <1>1, <1>2
  <1>4. Range(a) = Range(s) \union {e} BY <1>1, <1>2, RangeSeq
  <1>5. /\ Len(s) \in Nat /\ DOMAIN s = 1 .. Len(s) /\ DOMAIN a = 1 .. Len(s) + 1
        /\ a[Len(s) + 1] = e /\ \A i \in 1 .. Len(s) : a[i] = s[i]
        BY <1>1, <1>2
  <1> HIDE DEF a
  <1>6. ASSUME IsInjective(s), e \notin Range(s) PROVE IsInjective(a)
    <2>1. \A i \in 1 .. Len(s) : s[i] # e BY <1>5, <1>6 DEF Range
    <2>2. \A i, j \in 1 .. Len(s) : s[i] = s[j] => i = j BY <1>5, <1>6 DEF IsInjective
    <2>3. \A i \in DOMAIN a : i \in 1 .. Len(s) \/ i = Len(s) + 1 BY <1>5
    <2> QED BY <1>5, <2>1, <2>2, <2>3 DEF IsInjective
  <1> QED BY <1>3, <1>4, <1>6 DEF a, S

(* What IntersectSimple has read is what its groups hold, until a row is   *)
(* made of them; the rows are those of the common keys that are done.      *)
Entry(k, s) == <<k, s, tables[s][k]>>
Pending == {x[1] : x \in partJoin}
JoinRows(keys) == {<<k, RowOf(tables, k)>> : k \in keys}

GroupsHold ==
  /\ phase \in {"group", "join"} => \A x \in partJoin : x = Entry(x[1], x[2])
  /\ phase = "group" =>
        \A s \in Source : \A k \in DOMAIN tables[s] \ unread[s] : Entry(k, s) \in partJoin
  /\ phase = "join" =>
        \A s \in Source : \A k \in DOMAIN tables[s] : k \in Pending => Entry(k, s) \in partJoin

RowsSoFar ==
  /\ joined \in Seq(Range(joined)) /\ IsInjective(joined)
  /\ phase = "group" => joined = <<>>
  /\ phase = "join" => Range(joined) = JoinRows(CommonKeys(tables) \ Pending)
  /\ phase \in {"compare", "done"} => Range(joined) = JoinRows(CommonKeys(tables))

JoinInv == TablesInv /\ GroupsHold /\ RowsSoFar

LEMMA EmptyRows == <<>> \in Seq(Range(<<>>)) /\ IsInjective(<<>>) /\ Range(<<>>) = {}
  BY DEF IsInjective, Range

LEMMA JoinInit == Init => JoinInv
  <1>1. Init => joined = <<>> /\ phase = "generate" BY DEF Init
  <1>2. Init => GroupsHold /\ RowsSoFar BY <1>1, EmptyRows DEF GroupsHold, RowsSoFar
  <1> QED BY <1>2, TablesInit DEF JoinInv

LEMMA ReadInv ==
  ASSUME JoinInv, NEW s \in Source, NEW k \in unread[s], Read(s, k)
  PROVE  GroupsHold' /\ RowsSoFar'
  <1>1. /\ phase = "group" /\ phase' = "group" /\ partJoin' = partJoin \union {Entry(k, s)}
        /\ \A t \in Source : unread'[t] = IF t = s THEN unread[t] \ {k} ELSE unread[t]
        /\ UNCHANGED <<tables, joined>>
        BY DEF Read, Entry, JoinInv, TablesInv, TypeInv
  <1>2. \A x \in partJoin : x = Entry(x[1], x[2]) BY <1>1 DEF JoinInv, GroupsHold
  <1>3. Entry(k, s)[1] = k /\ Entry(k, s)[2] = s BY DEF Entry
  <1>4. \A l, t : Entry(l, t)' = Entry(l, t) BY <1>1 DEF Entry
  <1>5. \A t \in Source : \A l \in DOMAIN tables[t] \ unread[t] : Entry(l, t) \in partJoin
        BY <1>1 DEF JoinInv, GroupsHold
  <1>6. \A x \in partJoin' : x = Entry(x[1], x[2])' BY <1>1, <1>2, <1>3, <1>4
  <1>7. \A t \in Source : \A l \in DOMAIN tables[t] \ unread'[t] : Entry(l, t) \in partJoin'
        BY <1>1, <1>5
  <1>8. GroupsHold'
    <2>1. \A t \in Source : \A l \in DOMAIN tables'[t] \ unread'[t] : Entry(l, t)' \in partJoin'
          BY <1>1, <1>4, <1>7
    <2> QED BY <1>1, <1>6, <2>1 DEF GroupsHold
  <1>9. RowsSoFar' BY <1>1 DEF JoinInv, RowsSoFar
  <1> QED BY <1>8, <1>9

LEMMA GroupEndInv ==
  ASSUME JoinInv, GroupEnd PROVE GroupsHold' /\ RowsSoFar'
  <1>1. /\ phase = "group" /\ phase' = "join" /\ \A s \in Source : unread[s] = {}
        /\ UNCHANGED <<tables, partJoin, joined>>
        BY DEF GroupEnd
  <1>2. /\ \A x \in partJoin : x = Entry(x[1], x[2])
        /\ \A s \in Source : \A k \in DOMAIN tables[s] : Entry(k, s) \in partJoin
        BY <1>1 DEF JoinInv, GroupsHold
  <1>3. \A k, s : Entry(k, s)' = Entry(k, s) BY <1>1 DEF Entry
  <1>4. GroupsHold' BY <1>1, <1>2, <1>3 DEF GroupsHold
  <1>5. CommonKeys(tables) \ Pending = {}
    <2> SUFFICES ASSUME NEW k \in CommonKeys(tables) PROVE k \in Pending OBVIOUS
    <2>1. k \in DOMAIN tables[Sources[1]] BY InCommon, SourcesAre
    <2>2. Entry(k, Sources[1]) \in partJoin BY <1>2, <2>1, SourcesAre
    <2>3. Entry(k, Sources[1])[1] = k BY DEF Entry
    <2> QED BY <2>2, <2>3 DEF Pending
  <1>6. JoinRows(CommonKeys(tables) \ Pending) = {} BY <1>5 DEF JoinRows
  <1>7. joined = <<>> BY <1>1 DEF JoinInv, RowsSoFar
  <1>8. RowsSoFar'
    <2>1. (JoinRows(CommonKeys(tables) \ Pending))' = JoinRows(CommonKeys(tables) \ Pending)
          BY <1>1 DEF JoinRows, Pending
    <2> QED BY <1>1, <1>6, <1>7, <2>1, EmptyRows DEF RowsSoFar
  <1> QED BY <1>4, <1>8

(* A group is complete exactly if its key is common, and then its columns  *)
(* are the row of the key.                                                 *)
LEMMA GroupIsRow ==
  ASSUME JoinInv, phase = "join", NEW k, Group(k) # {}
  PROVE  /\ HasAll(Group(k)) <=> k \in CommonKeys(tables)
         /\ k \in CommonKeys(tables) => Columns(Group(k)) = RowOf(tables, k)
  <1> DEFINE Holders == {s \in Source : k \in DOMAIN tables[s]}
             f == [s \in Holders |-> Entry(k, s)]
  <1>1. /\ \A x \in partJoin : x = Entry(x[1], x[2])
        /\ \A s \in Source : k \in DOMAIN tables[s] => Entry(k, s) \in partJoin
        /\ \A x \in partJoin : x[2] \in Source /\ x[1] \in DOMAIN tables[x[2]]
        /\ DOMAIN tables = Source
    <2>1. k \in Pending BY DEF Group, Pending
    <2> QED BY <2>1 DEF JoinInv, GroupsHold, TablesInv, TypeInv, TypeOK
  <1>2. \A s : Entry(k, s)[1] = k /\ Entry(k, s)[2] = s /\ Entry(k, s)[3] = tables[s][k]
        BY DEF Entry
  <1>3. Group(k) = {Entry(k, s) : s \in Holders}
    <2>1. ASSUME NEW x \in Group(k) PROVE x[2] \in Holders /\ x = Entry(k, x[2])
          BY <1>1 DEF Group
    <2>2. ASSUME NEW s \in Holders PROVE Entry(k, s) \in Group(k)
          BY <1>1, <1>2 DEF Group
    <2> QED BY <2>1, <2>2
  <1>4. f \in Bijection(Holders, Group(k))
    <2>1. f \in [Holders -> Group(k)] BY <1>3
    <2>2. \A s, t \in Holders : f[s] = f[t] => s = t BY <1>2
    <2>3. \A x \in Group(k) : \E s \in Holders : f[s] = x BY <1>3
    <2> HIDE DEF f, Holders
    <2> QED BY <2>1, <2>2, <2>3 DEF Bijection, Injection, Surjection, IsInjective
  <1>5. Holders \in SUBSET Source OBVIOUS
  <1>6. Holders = Source <=> k \in CommonKeys(tables) BY InCommon
  <1> HIDE DEF Holders, f
  <1>7. IsFiniteSet(Holders) BY <1>5, SourcesCounted, FS_Subset
  <1>8. Cardinality(Group(k)) = Cardinality(Holders)
        BY <1>4, <1>7, FS_Bijection DEF ExistsBijection
  <1>9. Cardinality(Holders) = Cardinality(Source) <=> Holders = Source
        BY <1>5, SourcesCounted, FS_Subset
  <1>10. HasAll(Group(k)) <=> k \in CommonKeys(tables)
         BY <1>1, <1>6, <1>8, <1>9 DEF HasAll
  <1>11. ASSUME k \in CommonKeys(tables) PROVE Columns(Group(k)) = RowOf(tables, k)
    <2>1. \A s \in Source : Entry(k, s) \in Group(k) BY <1>3, <1>6, <1>11
    <2>2. \A x \in Group(k) : x = Entry(k, x[2]) BY <1>1 DEF Group
    <2>3. ASSUME NEW i \in 1 .. N
          PROVE  (IF \E x \in Group(k) : x[2] = Sources[i]
                  THEN (CHOOSE x \in Group(k) : x[2] = Sources[i])[3] ELSE <<>>)
                 = tables[Sources[i]][k]
      <3>1. Sources[i] \in Source BY SourcesAre
      <3>2. \E x \in Group(k) : x[2] = Sources[i] BY <1>2, <2>1, <3>1
      <3>3. PICK x \in Group(k) : x[2] = Sources[i]
                                  /\ x = CHOOSE y \in Group(k) : y[2] = Sources[i]
            BY <3>2
      <3>4. x[3] = tables[Sources[i]][k] BY <1>2, <2>2, <3>3
      <3> QED BY <3>2, <3>3, <3>4
    <2> QED BY <2>3 DEF Columns, RowOf
  <1> QED BY <1>10, <1>11

LEMMA InsertRowInv ==
  ASSUME JoinInv, NEW k, InsertRow(k) PROVE GroupsHold' /\ RowsSoFar'
  <1>1. /\ phase = "join" /\ phase' = "join" /\ Group(k) # {}
        /\ partJoin' = partJoin \ Group(k) /\ UNCHANGED tables
        /\ joined' = IF HasAll(Group(k)) THEN Append(joined, <<k, Columns(Group(k))>>) ELSE joined
        BY DEF InsertRow
  <1>2. \A l, s : Entry(l, s)' = Entry(l, s) /\ Entry(l, s)[1] = l BY <1>1 DEF Entry
  <1>3. k \in Pending /\ Pending' = Pending \ {k}
        BY <1>1 DEF Pending, Group
  <1>4. /\ \A x \in partJoin : x = Entry(x[1], x[2])
        /\ \A s \in Source : \A l \in DOMAIN tables[s] : l \in Pending => Entry(l, s) \in partJoin
        BY <1>1 DEF JoinInv, GroupsHold
  <1>5. \A s \in Source : \A l \in DOMAIN tables[s] : l \in Pending' => Entry(l, s) \in partJoin'
        BY <1>1, <1>2, <1>3, <1>4 DEF Group
  <1>6. GroupsHold' BY <1>1, <1>2, <1>4, <1>5 DEF GroupsHold
  <1>7. /\ joined \in Seq(Range(joined)) /\ IsInjective(joined)
        /\ Range(joined) = JoinRows(CommonKeys(tables) \ Pending)
        BY <1>1 DEF JoinInv, RowsSoFar
  <1>8. (JoinRows(CommonKeys(tables) \ Pending))' = JoinRows(CommonKeys(tables) \ (Pending \ {k}))
        BY <1>1, <1>3 DEF JoinRows
  <1>9. CASE k \in CommonKeys(tables)
    <2> DEFINE row == <<k, RowOf(tables, k)>>
    <2>1. joined' = Append(joined, row) BY <1>1, <1>9, GroupIsRow
    <2>2. row \notin Range(joined)
      <3>1. \A r \in JoinRows(CommonKeys(tables) \ Pending) : r[1] # k BY <1>3 DEF JoinRows
      <3>2. row[1] = k OBVIOUS
      <3> HIDE DEF row
      <3> QED BY <1>7, <3>1, <3>2
    <2>3. JoinRows(CommonKeys(tables) \ (Pending \ {k}))
            = JoinRows(CommonKeys(tables) \ Pending) \union {row}
          BY <1>3, <1>9 DEF JoinRows
    <2> HIDE DEF row
    <2>4. /\ joined' \in Seq(Range(joined')) /\ Range(joined') = Range(joined) \union {row}
          /\ IsInjective(joined')
          BY <1>7, <2>1, <2>2, AppendOnce
    <2>5. RowsSoFar' BY <1>1, <1>7, <1>8, <2>3, <2>4 DEF RowsSoFar
    <2> QED BY <1>6, <2>5
  <1>10. CASE k \notin CommonKeys(tables)
    <2>1. joined' = joined BY <1>1, <1>10, GroupIsRow
    <2>2. CommonKeys(tables) \ (Pending \ {k}) = CommonKeys(tables) \ Pending BY <1>10
    <2>3. RowsSoFar' BY <1>1, <1>7, <1>8, <2>1, <2>2 DEF RowsSoFar
    <2> QED BY <1>6, <2>3
  <1> QED BY <1>9, <1>10

LEMMA JoinEndInv ==
  ASSUME JoinInv, JoinEnd \/ Compare PROVE GroupsHold' /\ RowsSoFar'
  <1>1. /\ phase \in {"join", "compare"} /\ phase' \in {"compare", "done"}
        /\ phase = "join" => partJoin = {}
        /\ UNCHANGED <<tables, joined>>
        BY DEF JoinEnd, Compare
  <1>2. phase = "join" => CommonKeys(tables) \ Pending = CommonKeys(tables)
        BY <1>1 DEF Pending
  <1>3. Range(joined) = JoinRows(CommonKeys(tables))
        BY <1>1, <1>2 DEF JoinInv, RowsSoFar
  <1>4. (JoinRows(CommonKeys(tables)))' = JoinRows(CommonKeys(tables)) BY <1>1 DEF JoinRows
  <1>5. RowsSoFar' BY <1>1, <1>3, <1>4 DEF JoinInv, RowsSoFar
  <1> QED BY <1>1, <1>5 DEF GroupsHold

(* gen_data's join_tables.                                                 *)
LEMMA JoinTablesInv ==
  ASSUME JoinInv, JoinTables PROVE GroupsHold' /\ RowsSoFar'
  <1> DEFINE S == JoinRows(CommonKeys(tables))
  <1>1. /\ phase = "rename" /\ phase' = "done" /\ UNCHANGED tables
        /\ joined' = SetToSeq(S)
        BY DEF JoinTables, JoinRows
  <1>2. program = "experiment" BY <1>1 DEF JoinInv, TablesInv, TypeInv, TypeOK, RemovingOnly
  <1>3. IsFiniteSet(CommonKeys(tables))
    <2>1. CommonKeys(tables) \in SUBSET DOMAIN tables[Sources[1]] BY DEF CommonKeys
    <2>2. IsFiniteSet(DOMAIN tables[Sources[1]])
          BY <1>1, <1>2, SourcesAre DEF JoinInv, TablesInv, ExpTables
    <2> QED BY <2>1, <2>2, FS_Subset
  <1>4. IsFiniteSet(S)
    <2> DEFINE C == CommonKeys(tables)
               f == [k \in C |-> <<k, RowOf(tables, k)>>]
    <2>1. f \in Surjection(C, S)
      <3>1. \A k \in C : f[k] \in S BY DEF JoinRows
      <3>2. \A r \in S : \E k \in C : f[k] = r BY DEF JoinRows
      <3>3. f \in [C -> S] BY <3>1
      <3> HIDE DEF f, C, S
      <3> QED BY <3>2, <3>3 DEF Surjection
    <2> HIDE DEF f, S
    <2> QED BY <1>3, <2>1, FS_Surjection
  <1> HIDE DEF S
  <1>5. joined' \in Seq(S) /\ Range(joined') = S /\ IsInjective(joined')
        BY <1>1, <1>4, SetInOrder
  <1>6. S = (JoinRows(CommonKeys(tables)))' BY <1>1 DEF S, JoinRows
  <1>7. RowsSoFar' BY <1>1, <1>5, <1>6 DEF RowsSoFar
  <1> QED BY <1>1, <1>7 DEF GroupsHold

LEMMA JoinNext == JoinInv /\ [Next]_vars => JoinInv'
  <1> SUFFICES ASSUME JoinInv, [Next]_vars PROVE GroupsHold' /\ RowsSoFar'
      BY TablesNext DEF JoinInv
  <1>1. CASE GenTestTables
    <2>1. /\ phase = "generate" /\ phase' = "group" /\ UNCHANGED <<partJoin, joined>>
          /\ \A s \in Source : unread'[s] = DOMAIN tables'[s]
          BY <1>1 DEF GenTestTables
    <2>2. partJoin = {} /\ joined = <<>> BY <2>1 DEF JoinInv, TablesInv, TypeInv, Idle
    <2> QED BY <2>1, <2>2, EmptyRows DEF GroupsHold, RowsSoFar
  <1>2. ASSUME phase' \in {"generate", "refused", "rename"}, UNCHANGED joined
        PROVE  GroupsHold' /\ RowsSoFar'
        BY <1>2 DEF JoinInv, GroupsHold, RowsSoFar
  <1>3. CASE GenerateTables BY <1>2, <1>3 DEF GenerateTables
  <1>4. ASSUME NEW k \in toRemove, Rename(k) PROVE GroupsHold' /\ RowsSoFar'
        BY <1>2, <1>4 DEF Rename
  <1>5. CASE UNCHANGED vars
    <2>1. UNCHANGED <<tables, unread, partJoin, joined, phase>> BY <1>5 DEF vars
    <2>2. GroupsHold' BY <2>1 DEF JoinInv, GroupsHold, Entry, Pending
    <2>3. RowsSoFar' BY <2>1 DEF JoinInv, RowsSoFar, JoinRows, Pending
    <2> QED BY <2>2, <2>3
  <1> QED BY <1>1, <1>3, <1>4, <1>5, JoinTablesInv, ReadInv, GroupEndInv,
             InsertRowInv, JoinEndInv
          DEF Next

(* IntersectSimple, in whatever order it reads the maps and makes rows,    *)
(* and gen_data's join_tables give each common key one row, with the value *)
(* of each source in its column.                                           *)
THEOREM JoinsEqual == Spec => []JoinsAgree
  <1>1. JoinInv => JoinsAgree BY DEF JoinInv, RowsSoFar, JoinsAgree, JoinRows
  <1> QED BY <1>1, JoinInit, JoinNext, PTL DEF Spec

-----------------------------------------------------------------------------
(* The comparison.                                                         *)

(* Flat of the first columns, one more each time.                          *)
Flats(row, n, V, L) ==
  /\ n \in Nat /\ n >= 1 /\ Bar \in V /\ row \in [1 .. n -> Seq(V)]
  /\ L \in [0 .. n - 1 -> Seq(V)] /\ L[0] = row[1]
  /\ \A j \in 1 .. n - 1 : L[j] = L[j - 1] \o <<Bar>> \o row[j + 1]

LEMMA Largest ==
  ASSUME NEW j \in Nat, j >= 1 PROVE Max(1 .. j) = j
  <1>1. j \in 1 .. j /\ \A y \in 1 .. j : j >= y OBVIOUS
  <1>2. \A x \in 1 .. j : (\A y \in 1 .. j : x >= y) => x = j OBVIOUS
  <1> DEFINE s == 1 .. j
  <1>3. j \in s /\ (\A y \in s : j >= y) /\ \A x \in s : (\A y \in s : x >= y) => x = j
        BY <1>1, <1>2
  <1> HIDE DEF s
  <1>4. Max(s) = j BY <1>3 DEF Max
  <1> QED BY <1>4 DEF s

LEMMA FlatIsLast ==
  ASSUME NEW n \in Nat, n >= 1, NEW V, Bar \in V, NEW row \in [1 .. n -> Seq(V)]
  PROVE  \E L : Flats(row, n, V, L) /\ Flat(row) = L[n - 1]
  <1> DEFINE S == 1 .. n - 1
             q == Tail(row)
             c == [s \in SUBSET S |-> Max(s)]
             F == [p \in S \X Seq(V) |-> p[2] \o <<Bar>> \o q[p[1]]]
             h == Head(row)
             Body(it) == [s \in SUBSET S |->
                            IF s = {} THEN h
                            ELSE it[s \ {Max(s)}] \o <<Bar>> \o q[Max(s)]]
  <1>1. /\ IsFiniteSet(S) /\ n - 1 \in Nat
    <2>1. n - 1 \in Int /\ n - 1 \in Nat OBVIOUS
    <2> QED BY <2>1, FS_Interval
  <1>2. /\ DOMAIN q = S /\ h = row[1] /\ h \in Seq(V)
        /\ \A i \in S : q[i] = row[i + 1] /\ q[i] \in Seq(V)
    <2>1. row \in Seq(Seq(V)) /\ Len(row) = n OBVIOUS
    <2> QED BY <2>1
  <1> HIDE DEF q, h
  <1>3. \A s \in SUBSET S : s # {} => Max(s) \in s
    <2> SUFFICES ASSUME NEW s \in SUBSET S, s # {} PROVE Max(s) \in s OBVIOUS
    <2>1. \E x \in s : \A y \in s : x >= y BY <1>1, Greatest
    <2> QED BY <2>1 DEF Max
  <1>4. Chooser(S, c) BY <1>3 DEF Chooser
  <1>5. F \in [S \X Seq(V) -> Seq(V)] BY <1>2
  <1>6. PICK it : IsFold(S, Seq(V), h, c, F, it)
    <2> HIDE DEF S, c, F
    <2> QED BY <1>1, <1>2, <1>4, <1>5, FoldExists
  <1>7. it = Body(it)
    <2>1. /\ it \in [SUBSET S -> Seq(V)]
          /\ \A s \in SUBSET S : it[s] = IF s = {} THEN h ELSE F[<<c[s], it[s \ {c[s]}]>>]
      <3> HIDE DEF S, c, F
      <3> QED BY <1>6 DEF IsFold, FoldBody
    <2>2. ASSUME NEW s \in SUBSET S, s # {}
          PROVE  F[<<c[s], it[s \ {c[s]}]>>] = it[s \ {Max(s)}] \o <<Bar>> \o q[Max(s)]
      <3>1. c[s] = Max(s) /\ Max(s) \in S BY <1>3, <2>2
      <3>2. it[s \ {Max(s)}] \in Seq(V) BY <2>1
      <3> QED BY <3>1, <3>2
    <2>3. \A s \in SUBSET S : it[s] = IF s = {} THEN h
                                      ELSE it[s \ {Max(s)}] \o <<Bar>> \o q[Max(s)]
          BY <2>1, <2>2
    <2>4. it = [s \in SUBSET S |-> it[s]] BY <2>1
    <2> QED BY <2>3, <2>4
  <1>8. PICK i : i = Body(i) /\ Flat(row) = i[S]
    <2>1. DOMAIN q = S BY <1>2
    <2>2. Flat(row) = FoldLeft(LAMBDA acc, v : acc \o <<Bar>> \o v, h, q) BY DEF Flat, q, h
    <2> HIDE DEF S
    <2> QED BY <1>7, <2>1, <2>2 DEF FoldLeft, MapThenFoldSet
  <1>9. /\ i[{}] = h
        /\ \A s \in SUBSET S : s # {} => i[s] = i[s \ {Max(s)}] \o <<Bar>> \o q[Max(s)]
        BY <1>8
  <1> DEFINE L == [j \in 0 .. n - 1 |-> i[1 .. j]]
             T == {j \in Nat : j <= n - 1 => L[j] \in Seq(V)}
  <1>10. L[0] = row[1]
    <2>1. 1 .. 0 = {} /\ 0 \in 0 .. n - 1 BY <1>1
    <2>2. L[0] = i[1 .. 0] BY <2>1
    <2> QED BY <1>2, <1>9, <2>1, <2>2
  <1>11. ASSUME NEW j \in 1 .. n - 1 PROVE L[j] = L[j - 1] \o <<Bar>> \o row[j + 1]
    <2> DEFINE s == 1 .. j
    <2>1. j \in Nat /\ j >= 1 /\ j <= n - 1 /\ n \in Nat OBVIOUS
    <2>2. Max(s) = j BY <2>1, Largest
    <2>6. s \in SUBSET S /\ s # {}
      <3>1. j \in s /\ \A x \in s : x \in S BY <2>1
      <3> HIDE DEF s, S
      <3> QED BY <3>1
    <2>3. s \ {j} = 1 .. j - 1 OBVIOUS
    <2>4. i[s] = i[1 .. j - 1] \o <<Bar>> \o q[j]
      <3> HIDE DEF s
      <3> QED BY <1>9, <2>2, <2>3, <2>6
    <2>5. L[j] = i[s] /\ L[j - 1] = i[1 .. j - 1] OBVIOUS
    <2> HIDE DEF L, s
    <2> QED BY <1>2, <2>4, <2>5
  <1> HIDE DEF L
  <1>12. \A j \in 0 .. n - 1 : L[j] \in Seq(V)
    <2>1. 0 \in T BY <1>2, <1>10
    <2>2. ASSUME NEW j \in Nat, j < n - 1, j \in T PROVE j + 1 \in T
      <3>1. j + 1 \in 1 .. n - 1 /\ j + 2 \in 1 .. n /\ L[j] \in Seq(V) BY <2>2
      <3> DEFINE k == j + 1
      <3>2. k - 1 = j /\ k + 1 = j + 2 OBVIOUS
      <3>3. L[k] = L[k - 1] \o <<Bar>> \o row[k + 1]
        <4>1. k \in 1 .. n - 1 BY <3>1
        <4> HIDE DEF k
        <4> QED BY <1>11, <4>1
      <3>4. row[j + 2] \in Seq(V) /\ <<Bar>> \in Seq(V) BY <3>1
      <3>5. L[j + 1] \in Seq(V) BY <3>1, <3>2, <3>3, <3>4
      <3> QED BY <3>5
    <2> HIDE DEF T
    <2>3. 0 .. n - 1 \subseteq T BY <1>1, <2>1, <2>2, NatInduct
    <2> QED BY <2>3 DEF T
  <1>13. Flat(row) = L[n - 1]
    <2>1. n - 1 \in 0 .. n - 1 BY <1>1
    <2>2. L[n - 1] = i[1 .. n - 1] BY <2>1 DEF L
    <2> QED BY <1>8, <2>2
  <1>14. L \in [0 .. n - 1 -> Seq(V)] BY <1>12 DEF L
  <1>15. Flats(row, n, V, L) BY <1>10, <1>11, <1>14 DEF Flats
  <1> QED BY <1>13, <1>15

(* One more column: a separator and the value.                             *)
Grows(s, v, t) ==
  /\ Len(t) = Len(s) + 1 + Len(v)
  /\ t[Len(s) + 1] = Bar
  /\ \A m \in 1 .. Len(s) : t[m] = s[m]
  /\ \A m \in 1 .. Len(v) : t[Len(s) + 1 + m] = v[m]

LEMMA OneMoreColumn ==
  ASSUME NEW n \in Nat, NEW V, NEW row, NEW L, Flats(row, n, V, L), NEW j \in 1 .. n - 1
  PROVE  Grows(L[j - 1], row[j + 1], L[j])
  <1> DEFINE s == L[j - 1]
             v == row[j + 1]
  <1>1. row \in [1 .. n -> Seq(V)] /\ Bar \in V BY DEF Flats
  <1>11. j - 1 \in 0 .. n - 1 /\ j + 1 \in 1 .. n BY <1>1
  <1>2. s \in Seq(V) /\ v \in Seq(V) /\ <<Bar>> \in Seq(V) BY <1>1, <1>11 DEF Flats
  <1>3. L[j] = (s \o <<Bar>>) \o v BY DEF Flats
  <1> HIDE DEF s, v
  <1> DEFINE t == s \o <<Bar>>
  <1>4. /\ t \in Seq(V) /\ Len(t) = Len(s) + 1 /\ t[Len(s) + 1] = Bar
        /\ \A m \in 1 .. Len(s) : t[m] = s[m]
        BY <1>2
  <1>5. Len(s) \in Nat /\ Len(v) \in Nat BY <1>2
  <1> HIDE DEF t
  <1>6. /\ Len(L[j]) = Len(t) + Len(v)
        /\ \A m \in 1 .. Len(t) : L[j][m] = t[m]
        /\ \A m \in 1 .. Len(v) : L[j][Len(t) + m] = v[m]
    <2>1. L[j] = t \o v BY <1>3 DEF t
    <2>2. /\ Len(t \o v) = Len(t) + Len(v)
          /\ \A m \in 1 .. Len(t) + Len(v) :
                (t \o v)[m] = IF m <= Len(t) THEN t[m] ELSE v[m - Len(t)]
          BY <1>2, <1>4, ConcatProperties
    <2>3. Len(t) \in Nat /\ Len(v) \in Nat BY <1>4, <1>5
    <2>4. \A m \in 1 .. Len(t) : L[j][m] = t[m] BY <2>1, <2>2, <2>3
    <2>5. ASSUME NEW m \in 1 .. Len(v) PROVE L[j][Len(t) + m] = v[m]
      <3>1. /\ Len(t) + m \in 1 .. Len(t) + Len(v) /\ ~(Len(t) + m <= Len(t))
            /\ Len(t) + m - Len(t) = m
            BY <2>3
      <3> QED BY <2>1, <2>2, <3>1
    <2> QED BY <2>1, <2>2, <2>4, <2>5
  <1>7. Len(L[j]) = Len(s) + 1 + Len(v) BY <1>4, <1>5, <1>6
  <1>8. L[j][Len(s) + 1] = Bar BY <1>4, <1>5, <1>6
  <1>9. \A m \in 1 .. Len(s) : L[j][m] = s[m] BY <1>4, <1>5, <1>6
  <1>10. \A m \in 1 .. Len(v) : L[j][Len(s) + 1 + m] = v[m] BY <1>4, <1>5, <1>6
  <1>12. Grows(s, v, L[j]) BY <1>7, <1>8, <1>9, <1>10 DEF Grows
  <1> QED BY <1>12 DEF s, v

LEMMA FlatLengths ==
  ASSUME NEW n \in Nat, NEW V, NEW row, NEW L, Flats(row, n, V, L)
  PROVE  /\ n >= 1
         /\ \A j \in 0 .. n - 1 : L[j] \in Seq(V) /\ Len(L[j]) \in Nat
         /\ \A i \in 1 .. n : row[i] \in Seq(V) /\ Len(row[i]) \in Nat
  <1>1. \A j \in 0 .. n - 1 : L[j] \in Seq(V) BY DEF Flats
  <1>2. \A i \in 1 .. n : row[i] \in Seq(V) BY DEF Flats
  <1>3. n >= 1 BY DEF Flats
  <1>4. \A s \in Seq(V) : Len(s) \in Nat OBVIOUS
  <1> QED BY <1>1, <1>2, <1>3, <1>4

(* The first columns are where they are in the whole row.                  *)
Begins(s, t) == Len(s) <= Len(t) /\ \A m \in 1 .. Len(s) : t[m] = s[m]

LEMMA GrowsBegins ==
  ASSUME NEW s, NEW v, NEW t, Grows(s, v, t),
         Len(s) \in Nat, Len(v) \in Nat, Len(t) \in Nat
  PROVE  Begins(s, t) /\ Begins(t, t)
  <1>1. \A a, b, c \in Nat : c = a + 1 + b => a <= c OBVIOUS
  <1>2. Len(s) <= Len(t) BY <1>1 DEF Grows
  <1>3. Begins(s, t) BY <1>2 DEF Grows, Begins
  <1>4. \A a \in Nat : a <= a OBVIOUS
  <1>5. Begins(t, t) BY <1>4 DEF Begins
  <1> QED BY <1>3, <1>5

LEMMA FlatBegins ==
  ASSUME NEW n \in Nat, NEW V, NEW row, NEW L, Flats(row, n, V, L)
  PROVE  \A j \in 0 .. n - 1 : Begins(L[j], L[n - 1])
  <1> DEFINE T == {d \in Nat : d <= n - 1 => \A j \in 0 .. d : Begins(L[j], L[d])}
  <1>1. /\ n >= 1 /\ \A j \in 0 .. n - 1 : Len(L[j]) \in Nat
        /\ \A i \in 1 .. n : Len(row[i]) \in Nat
        BY FlatLengths
  <1>2. 0 \in T
    <2>1. \A j \in 0 .. 0 : j = 0 OBVIOUS
    <2>2. Begins(L[0], L[0])
      <3>1. 0 \in 0 .. n - 1 BY <1>1
      <3> QED BY <1>1, <3>1 DEF Begins
    <2> QED BY <2>1, <2>2
  <1>3. ASSUME NEW d \in Nat, d < n - 1, d \in T PROVE d + 1 \in T
    <2> DEFINE e == d + 1
    <2>1. e \in 1 .. n - 1 /\ e - 1 = d /\ d \in 0 .. n - 1 /\ e \in 0 .. n - 1 /\ e + 1 \in 1 .. n
          BY <1>1, <1>3
    <2> HIDE DEF e
    <2>2. Grows(L[d], row[e + 1], L[e])
      <3>1. Grows(L[e - 1], row[e + 1], L[e]) BY <2>1, OneMoreColumn
      <3> QED BY <2>1, <3>1
    <2>3. Len(row[e + 1]) \in Nat /\ Len(L[d]) \in Nat /\ Len(L[e]) \in Nat BY <1>1, <2>1
    <2>4. Begins(L[d], L[e]) /\ Begins(L[e], L[e]) BY <2>2, <2>3, GrowsBegins
    <2>5. \A j \in 0 .. d : Begins(L[j], L[d]) BY <1>3
    <2>6. ASSUME NEW j \in 0 .. e PROVE Begins(L[j], L[e])
      <3>1. CASE j = e BY <2>4, <3>1
      <3>2. CASE j # e
        <4>1. j \in 0 .. d /\ j \in 0 .. n - 1 BY <1>1, <2>1, <3>2
        <4>2. Len(L[j]) \in Nat /\ Len(L[d]) \in Nat /\ Len(L[e]) \in Nat BY <1>1, <2>1, <4>1
        <4>3. Begins(L[j], L[d]) BY <2>5, <4>1
        <4> QED BY <2>4, <4>2, <4>3 DEF Begins
      <3> QED BY <3>1, <3>2
    <2> QED BY <2>6 DEF e
  <1>4. n - 1 \in Nat BY <1>1
  <1> HIDE DEF T
  <1>5. 0 .. n - 1 \subseteq T BY <1>2, <1>3, <1>4, NatInduct
  <1>6. n - 1 \in T BY <1>4, <1>5
  <1> QED BY <1>6 DEF T

(* A row that has the same value, one token, in every column.              *)
Plain(n, v) == [i \in 1 .. n |-> <<v>>]

LEMMA PlainFlat ==
  ASSUME NEW n \in Nat, n >= 1, NEW V, NEW v, NEW L, Flats(Plain(n, v), n, V, L)
  PROVE  /\ Len(L[n - 1]) = 2 * n - 1
         /\ \A j \in 0 .. n - 1 : L[n - 1][2 * j + 1] = v
  <1> DEFINE row == Plain(n, v)
             T == {j \in Nat : j <= n - 1 => Len(L[j]) = 2 * j + 1}
  <1>1. \A i \in 1 .. n : row[i] = <<v>> BY DEF Plain
  <1>2. Flats(row, n, V, L) OBVIOUS
  <1>3. L[0] = <<v>> BY <1>1, <1>2 DEF Flats
  <1> HIDE DEF row
  <1>4. \A j \in 1 .. n - 1 : /\ Len(L[j]) = Len(L[j - 1]) + 2
                              /\ L[j][Len(L[j - 1]) + 2] = v
    <2> SUFFICES ASSUME NEW j \in 1 .. n - 1
                 PROVE  Len(L[j]) = Len(L[j - 1]) + 2 /\ L[j][Len(L[j - 1]) + 2] = v
        OBVIOUS
    <2>1. Grows(L[j - 1], row[j + 1], L[j]) BY <1>2, OneMoreColumn
    <2>2. row[j + 1] = <<v>> BY <1>1
    <2>3. Len(row[j + 1]) = 1 /\ row[j + 1][1] = v BY <2>2
    <2>4. j - 1 \in 0 .. n - 1 OBVIOUS
    <2>5. Len(L[j - 1]) \in Nat BY <1>2, <2>4, FlatLengths
    <2> DEFINE a == Len(L[j - 1])
               t == L[j]
    <2>6. Len(t) = a + 1 + 1 /\ \A m \in 1 .. 1 : t[a + 1 + m] = v
      <3>1. 1 \in 1 .. 1 /\ \A m \in 1 .. 1 : m = 1 OBVIOUS
      <3> QED BY <2>1, <2>3, <3>1 DEF Grows
    <2>7. a \in Nat BY <2>5
    <2> HIDE DEF a, t
    <2>8. t[a + 1 + 1] = v
      <3>1. 1 \in 1 .. 1 OBVIOUS
      <3> QED BY <2>6, <3>1
    <2>9. a + 1 + 1 = a + 2 BY <2>7
    <2> QED BY <2>6, <2>8, <2>9 DEF a, t
  <1>5. \A j \in 0 .. n - 1 : Len(L[j]) = 2 * j + 1
    <2>1. 0 \in T BY <1>3
    <2>2. ASSUME NEW j \in Nat, j < n - 1, j \in T PROVE j + 1 \in T
      <3> DEFINE k == j + 1
      <3>1. k \in 1 .. n - 1 /\ k - 1 = j BY <2>2
      <3> HIDE DEF k
      <3>2. Len(L[k]) = Len(L[j]) + 2 BY <1>4, <3>1
      <3>3. Len(L[j]) = 2 * j + 1 BY <2>2
      <3> QED BY <3>2, <3>3 DEF k
    <2>3. n - 1 \in Nat OBVIOUS
    <2> HIDE DEF T
    <2>4. 0 .. n - 1 \subseteq T BY <2>1, <2>2, <2>3, NatInduct
    <2> QED BY <2>4 DEF T
  <1>6. ASSUME NEW j \in 0 .. n - 1 PROVE L[n - 1][2 * j + 1] = v
    <2>1. Begins(L[j], L[n - 1]) BY <1>2, FlatBegins
    <2>2. L[j][2 * j + 1] = v
      <3>1. CASE j = 0 BY <1>3, <3>1
      <3>2. CASE j # 0
        <4>1. j \in 1 .. n - 1 /\ j - 1 \in 0 .. n - 1 BY <3>2
        <4>2. Len(L[j - 1]) = 2 * (j - 1) + 1 BY <1>5, <4>1
        <4>3. Len(L[j - 1]) + 2 = 2 * j + 1 BY <4>2
        <4> QED BY <1>4, <4>1, <4>3
      <3> QED BY <3>1, <3>2
    <2>3. 2 * j + 1 \in 1 .. Len(L[j]) BY <1>5
    <2> QED BY <2>1, <2>2, <2>3 DEF Begins
  <1>7. Len(L[n - 1]) = 2 * n - 1 BY <1>5
  <1> QED BY <1>6, <1>7

(* Numbers that grow at least by two, as they are odd but for the last.    *)
Spaced(n, l, w) ==
  /\ \A j \in 0 .. n - 1 : l[j] \in Nat
  /\ \A j \in 1 .. n - 1 : w[j] \in Nat /\ l[j] = l[j - 1] + 1 + w[j]
  /\ \A j \in 1 .. n - 1 : \E h \in 1 .. n - 1 : l[j - 1] + 1 = 2 * h
  /\ l[n - 1] = 2 * n - 1

LEMMA SpacedExactly ==
  ASSUME NEW n \in Nat, n >= 1, NEW l, NEW w, Spaced(n, l, w)
  PROVE  \A j \in 0 .. n - 1 : l[j] = 2 * j + 1
  <1> DEFINE Low == {j \in Nat : j < n - 1 => l[j] >= 2 * j + 1}
             High == {d \in Nat : d <= n - 1 => l[n - 1 - d] <= 2 * (n - 1 - d) + 1}
  <1>1. /\ \A j \in 0 .. n - 1 : l[j] \in Nat
        /\ \A j \in 1 .. n - 1 : w[j] \in Nat /\ l[j] = l[j - 1] + 1 + w[j]
        /\ \A j \in 1 .. n - 1 : \E h \in 1 .. n - 1 : l[j - 1] + 1 = 2 * h
        /\ l[n - 1] = 2 * n - 1
        BY DEF Spaced
  <1>2. n - 1 \in Nat OBVIOUS
  <1>3. 0 .. n - 1 \subseteq Low
    <2>1. ASSUME NEW j \in Nat, j < n - 1, l[j] >= 2 * j PROVE l[j] >= 2 * j + 1
      <3> DEFINE k == j + 1
      <3>1. k \in 1 .. n - 1 /\ k - 1 = j /\ j \in 0 .. n - 1 BY <2>1
      <3> HIDE DEF k
      <3>2. \E h \in 1 .. n - 1 : l[k - 1] + 1 = 2 * h BY <1>1, <3>1
      <3>3. PICK h \in 1 .. n - 1 : l[j] + 1 = 2 * h BY <3>1, <3>2
      <3>4. l[j] \in Nat BY <1>1, <3>1
      <3> QED BY <2>1, <3>3, <3>4
    <2>2. 0 \in Low
      <3>1. 0 \in 0 .. n - 1 OBVIOUS
      <3>2. l[0] >= 2 * 0 BY <1>1, <3>1
      <3> QED BY <2>1, <3>2
    <2>3. ASSUME NEW j \in Nat, j < n - 1, j \in Low PROVE j + 1 \in Low
      <3> SUFFICES ASSUME j + 1 < n - 1 PROVE l[j + 1] >= 2 * (j + 1) + 1 OBVIOUS
      <3>1. j + 1 \in 1 .. n - 1 /\ j + 1 - 1 = j /\ j \in 0 .. n - 1 /\ j + 1 \in Nat
            BY <2>3
      <3>2. l[j] >= 2 * j + 1 BY <2>3
      <3>3. w[j + 1] \in Nat /\ l[j + 1] = l[j] + 1 + w[j + 1] BY <1>1, <3>1
      <3>4. l[j] \in Nat BY <1>1, <3>1
      <3>5. l[j + 1] >= 2 * (j + 1) BY <3>2, <3>3, <3>4
      <3> QED BY <2>1, <3>1, <3>5
    <2> HIDE DEF Low
    <2> QED BY <1>2, <2>2, <2>3, NatInduct
  <1>4. 0 .. n - 1 \subseteq High
    <2>1. 0 \in High
      <3>1. n - 1 - 0 = n - 1 OBVIOUS
      <3> QED BY <1>1, <3>1
    <2>2. ASSUME NEW d \in Nat, d < n - 1, d \in High PROVE d + 1 \in High
      <3> DEFINE k == n - 1 - d
      <3>1. /\ k \in 1 .. n - 1 /\ k - 1 = n - 1 - (d + 1) /\ k - 1 \in 0 .. n - 1
            /\ k \in Nat
            BY <2>2
      <3>2. l[k] <= 2 * k + 1 BY <2>2
      <3> HIDE DEF k
      <3>3. w[k] \in Nat /\ l[k] = l[k - 1] + 1 + w[k] BY <1>1, <3>1
      <3>4. PICK h \in 1 .. n - 1 : l[k - 1] + 1 = 2 * h BY <1>1, <3>1
      <3>5. l[k - 1] \in Nat BY <1>1, <3>1
      <3>6. l[k - 1] + 1 <= 2 * k + 1 BY <3>1, <3>2, <3>3, <3>5
      <3>7. l[k - 1] <= 2 * (k - 1) + 1 BY <3>1, <3>4, <3>5, <3>6
      <3>8. l[n - 1 - (d + 1)] <= 2 * (n - 1 - (d + 1)) + 1 BY <3>1, <3>7
      <3> QED BY <3>8
    <2> HIDE DEF High
    <2> QED BY <1>2, <2>1, <2>2, NatInduct
  <1>5. ASSUME NEW j \in 0 .. n - 1 PROVE l[j] = 2 * j + 1
    <2>1. CASE j = n - 1 BY <1>1, <2>1
    <2>2. CASE j # n - 1
      <3>1. j \in Low /\ j < n - 1 BY <1>3, <2>2
      <3>2. l[j] >= 2 * j + 1 BY <3>1
      <3> DEFINE d == n - 1 - j
      <3>3. d \in 0 .. n - 1 /\ n - 1 - d = j OBVIOUS
      <3> HIDE DEF d
      <3>4. d \in High BY <1>4, <3>3
      <3>5. l[n - 1 - d] <= 2 * (n - 1 - d) + 1 BY <3>3, <3>4
      <3>6. l[j] <= 2 * j + 1 BY <3>3, <3>5
      <3>7. l[j] \in Nat BY <1>1
      <3> QED BY <3>2, <3>6, <3>7
    <2> QED BY <2>1, <2>2
  <1> QED BY <1>5

(* No other row reads as a plain one, whatever values it has: where its    *)
(* values are joined, the plain one has a separator.                       *)
LEMMA OnlyPlain ==
  ASSUME NEW n \in Nat, n >= 1, NEW V, Bar \in V, NEW v \in V, v # Bar,
         NEW row \in [1 .. n -> Seq(V)], Flat(row) = Flat(Plain(n, v))
  PROVE  row = Plain(n, v)
  <1>1. Plain(n, v) \in [1 .. n -> Seq(V)] BY DEF Plain
  <1>2. PICK P : Flats(Plain(n, v), n, V, P) /\ Flat(Plain(n, v)) = P[n - 1]
        BY <1>1, FlatIsLast
  <1>3. PICK L : Flats(row, n, V, L) /\ Flat(row) = L[n - 1] BY FlatIsLast
  <1> DEFINE A == L[n - 1]
             l == [j \in 0 .. n - 1 |-> Len(L[j])]
             w == [j \in 1 .. n - 1 |-> Len(row[j + 1])]
  <1>4. Len(A) = 2 * n - 1 /\ \A j \in 0 .. n - 1 : A[2 * j + 1] = v
    <2>1. A = P[n - 1] BY <1>2, <1>3
    <2> HIDE DEF A
    <2> QED BY <1>2, <2>1, PlainFlat
  <1>5. \A j \in 0 .. n - 1 : Begins(L[j], A) BY <1>3, FlatBegins
  <1>6. /\ \A j \in 0 .. n - 1 : l[j] = Len(L[j]) /\ l[j] \in Nat
        /\ \A j \in 1 .. n - 1 : w[j] = Len(row[j + 1]) /\ w[j] \in Nat
        /\ l[n - 1] = Len(A)
    <2>1. /\ \A j \in 0 .. n - 1 : Len(L[j]) \in Nat
          /\ \A i \in 1 .. n : Len(row[i]) \in Nat
          BY <1>3, FlatLengths
    <2>2. n - 1 \in 0 .. n - 1 /\ \A j \in 1 .. n - 1 : j + 1 \in 1 .. n OBVIOUS
    <2> QED BY <2>1, <2>2
  <1> HIDE DEF A, l, w
  <1>7. \A j \in 1 .. n - 1 : /\ l[j] = l[j - 1] + 1 + w[j]
                              /\ L[j][l[j - 1] + 1] = Bar
                              /\ \A m \in 1 .. w[j] : L[j][l[j - 1] + 1 + m] = row[j + 1][m]
    <2> SUFFICES ASSUME NEW j \in 1 .. n - 1
                 PROVE  /\ l[j] = l[j - 1] + 1 + w[j]
                        /\ L[j][l[j - 1] + 1] = Bar
                        /\ \A m \in 1 .. w[j] : L[j][l[j - 1] + 1 + m] = row[j + 1][m]
        OBVIOUS
    <2>1. Grows(L[j - 1], row[j + 1], L[j]) BY <1>3, OneMoreColumn
    <2>2. j \in 0 .. n - 1 /\ j - 1 \in 0 .. n - 1 OBVIOUS
    <2>3. l[j] = Len(L[j]) /\ l[j - 1] = Len(L[j - 1]) /\ w[j] = Len(row[j + 1])
          BY <1>6, <2>2
    <2> QED BY <2>1, <2>3 DEF Grows
  <1>8. \A p \in 1 .. 2 * n - 1 : A[p] = Bar => \E h \in 1 .. n - 1 : p = 2 * h
    <2> SUFFICES ASSUME NEW p \in 1 .. 2 * n - 1, A[p] = Bar
                 PROVE  \E h \in 1 .. n - 1 : p = 2 * h
        OBVIOUS
    <2>1. \E h \in 0 .. n - 1 : p = 2 * h \/ p = 2 * h + 1
      <3>1. p \div 2 \in 0 .. n - 1 /\ (p = 2 * (p \div 2) \/ p = 2 * (p \div 2) + 1) OBVIOUS
      <3> QED BY <3>1
    <2>2. PICK h \in 0 .. n - 1 : p = 2 * h \/ p = 2 * h + 1 BY <2>1
    <2>3. p = 2 * h BY <1>4, <2>2
    <2>4. h \in 1 .. n - 1 BY <2>3
    <2> QED BY <2>3, <2>4
  <1>9. ASSUME NEW j \in 1 .. n - 1 PROVE \E h \in 1 .. n - 1 : l[j - 1] + 1 = 2 * h
    <2> DEFINE p == l[j - 1] + 1
    <2>1. j \in 0 .. n - 1 /\ j - 1 \in 0 .. n - 1 OBVIOUS
    <2>2. l[j] \in Nat /\ w[j] \in Nat /\ l[j - 1] \in Nat /\ l[j] = Len(L[j])
          BY <1>6, <2>1
    <2>3. l[j] <= 2 * n - 1 BY <1>4, <1>5, <2>1, <2>2 DEF Begins
    <2>4. l[j] = l[j - 1] + 1 + w[j] BY <1>7
    <2>5. p \in 1 .. l[j] /\ p \in 1 .. 2 * n - 1 BY <2>2, <2>3, <2>4
    <2>6. L[j][p] = Bar BY <1>7
    <2> HIDE DEF p
    <2>7. A[p] = Bar BY <1>5, <2>1, <2>2, <2>5, <2>6 DEF Begins
    <2>8. \E h \in 1 .. n - 1 : p = 2 * h BY <1>8, <2>5, <2>7
    <2> QED BY <2>8 DEF p
  <1>10. Spaced(n, l, w) BY <1>4, <1>6, <1>7, <1>9 DEF Spaced
  <1>11. \A j \in 0 .. n - 1 : l[j] = 2 * j + 1 BY <1>10, SpacedExactly
  <1>12. ASSUME NEW i \in 1 .. n PROVE row[i] = <<v>>
    <2>1. row[i] \in Seq(V) OBVIOUS
    <2>2. Len(row[i]) = 1 /\ row[i][1] = v
      <3>1. CASE i = 1
        <4>1. L[0] = row[1] /\ 0 \in 0 .. n - 1 BY <1>3 DEF Flats
        <4>2. Len(L[0]) = 1
          <5>1. l[0] = 2 * 0 + 1 BY <1>11, <4>1
          <5>2. l[0] = Len(L[0]) BY <1>6, <4>1
          <5>3. 2 * 0 + 1 = 1 OBVIOUS
          <5> QED BY <5>1, <5>2, <5>3
        <4>3. Begins(L[0], A) /\ 1 \in 1 .. Len(L[0]) BY <1>5, <4>1, <4>2
        <4>4. A[1] = L[0][1] BY <4>3 DEF Begins
        <4>5. A[2 * 0 + 1] = v BY <1>4, <4>1
        <4>6. A[1] = v BY <4>5
        <4> QED BY <3>1, <4>1, <4>2, <4>4, <4>6
      <3>2. CASE i # 1
        <4> DEFINE j == i - 1
        <4>1. /\ j \in 1 .. n - 1 /\ j + 1 = i /\ j - 1 \in 0 .. n - 1 /\ j \in 0 .. n - 1
              /\ j \in Nat
              BY <3>2
        <4> HIDE DEF j
        <4>2. /\ l[j] = l[j - 1] + 1 + w[j]
              /\ \A m \in 1 .. w[j] : L[j][l[j - 1] + 1 + m] = row[i][m]
              BY <1>7, <4>1
        <4>3. l[j] = 2 * j + 1 /\ l[j - 1] = 2 * (j - 1) + 1 BY <1>11, <4>1
        <4>4. w[j] \in Nat /\ w[j] = Len(row[i]) BY <1>6, <4>1
        <4>5. w[j] = 1
          <5>1. \A a \in Nat : 2 * j + 1 = 2 * (j - 1) + 1 + 1 + a => a = 1 BY <4>1
          <5>2. 2 * j + 1 = 2 * (j - 1) + 1 + 1 + w[j] BY <4>2, <4>3
          <5> QED BY <4>4, <5>1, <5>2
        <4>6. l[j - 1] + 1 + 1 = 2 * j + 1 BY <4>1, <4>3
        <4>7. L[j][2 * j + 1] = row[i][1] BY <4>2, <4>5, <4>6
        <4>8. Begins(L[j], A) /\ 2 * j + 1 \in 1 .. Len(L[j]) BY <1>5, <1>6, <4>1, <4>3
        <4>9. A[2 * j + 1] = L[j][2 * j + 1] BY <4>8 DEF Begins
        <4>10. A[2 * j + 1] = v BY <1>4, <4>1
        <4> QED BY <4>4, <4>5, <4>7, <4>9, <4>10
      <3> QED BY <3>1, <3>2
    <2> QED BY <2>1, <2>2
  <1> QED BY <1>12 DEF Plain

(* What the comparison was given, and its answer.                          *)
VerdictInv ==
  verdict # <<>> =>
     /\ phase = "done" /\ program = "test"
     /\ verdict[1] \in Headings
     /\ verdict[2] \in Seq(Range(Rows) \union Strange)
     /\ verdict[3] = EqualContents(Sources, Rows, verdict[1], verdict[2])

CompareInv == JoinInv /\ VerdictInv

LEMMA CompareInit == Init => CompareInv
  <1>1. Init => verdict = <<>> BY DEF Init
  <1> QED BY <1>1, JoinInit DEF CompareInv, VerdictInv

LEMMA CompareNext == CompareInv /\ [Next]_vars => CompareInv'
  <1> SUFFICES ASSUME CompareInv, [Next]_vars PROVE VerdictInv'
      BY JoinNext DEF CompareInv
  <1>1. CASE Compare
    <2>1. /\ phase = "compare" /\ phase' = "done" /\ program' = program /\ joined' = joined
          BY <1>1 DEF Compare
    <2>2. program = "test"
          BY <2>1 DEF CompareInv, JoinInv, TablesInv, TypeInv, TypeOK, RemovingOnly
    <2>3. PICK ids \in Headings, t2 \in SeqOf(Range(Rows) \union Strange, Len(Rows) + 1) :
                 verdict' = <<ids, t2, EqualContents(Sources, Rows, ids, t2)>>
          BY <1>1 DEF Compare
    <2>4. t2 \in Seq(Range(Rows) \union Strange)
      <3> DEFINE S == Range(Rows) \union Strange
                 n == Len(Rows) + 1
      <3>1. n \in Int
        <4>1. joined \in Seq(Range(joined)) BY DEF CompareInv, JoinInv, RowsSoFar
        <4>2. DOMAIN joined = 1 .. Len(joined) /\ Len(joined) \in Nat BY <4>1
        <4>3. Len(Rows) = Len(joined) BY <4>2 DEF Rows
        <4> QED BY <4>2, <4>3
      <3> HIDE DEF S, n
      <3>2. PICK m \in 0 .. n : t2 \in [1 .. m -> S] BY <2>3 DEF SeqOf, S, n
      <3>3. m \in Nat BY <3>1
      <3>4. t2 \in Seq(S) BY <3>2, <3>3
      <3> QED BY <3>4 DEF S
    <2>5. Rows' = Rows BY <2>1 DEF Rows
    <2>6. /\ verdict'[1] = ids /\ verdict'[2] = t2
          /\ verdict'[3] = EqualContents(Sources, Rows, ids, t2)
          BY <2>3
    <2> QED BY <2>1, <2>2, <2>4, <2>5, <2>6 DEF VerdictInv
  <1>2. CASE phase = "done" /\ phase' = "done" /\ UNCHANGED <<program, joined, verdict>>
    <2>1. Rows' = Rows BY <1>2 DEF Rows
    <2> QED BY <1>2, <2>1 DEF CompareInv, VerdictInv
  <1>3. CASE phase # "done" /\ UNCHANGED verdict
        BY <1>3 DEF CompareInv, VerdictInv
  <1>4. CASE UNCHANGED vars
    <2>1. UNCHANGED <<program, joined, verdict, phase>> BY <1>4 DEF vars
    <2>2. Rows' = Rows BY <2>1 DEF Rows
    <2> QED BY <2>1, <2>2 DEF CompareInv, VerdictInv
  <1> QED BY <1>1, <1>3, <1>4
          DEF Next, GenTestTables, GenerateTables, Rename, JoinTables, Read, GroupEnd,
              InsertRow, JoinEnd

(* The rows of the test's join differ, and each has one value, in which    *)
(* there is no separator, in every column.                                 *)
LEMMA TestRows ==
  ASSUME JoinInv, phase = "done", program = "test"
  PROVE  /\ Rows \in Seq(Range(Rows)) /\ IsInjective(Rows)
         /\ Range(Rows) = {RowOf(tables, k) : k \in CommonKeys(tables)}
         /\ \A r \in Range(Rows) : \E i \in 0 .. MaxRows : r = Plain(N, <<"value", i>>)
  <1>1. /\ nRows \in Nat /\ size \in Nat /\ size <= MaxRows /\ MaxRows \in Nat
        /\ \A s \in Source : tables[s] = GenTestTable(s, nRows, size)
        BY ReferenceAssumption DEF JoinInv, TablesInv, TypeInv, TypeOK, TestTables
  <1>2. CommonKeys(tables) = JoinKeys BY <1>1, TestCommon
  <1>3. ASSUME NEW i \in 0 .. size - 1
        PROVE  RowOf(tables, JoinKey(i)) = Plain(N, <<"value", i>>)
    <2>1. ASSUME NEW c \in 1 .. N PROVE tables[Sources[c]][JoinKey(i)] = <<<<"value", i>>>>
      <3>1. Sources[c] \in Source BY SourcesAre
      <3>2. GenTestTable(Sources[c], nRows, size)[JoinKey(i)] = <<<<"value", i>>>>
            BY <1>1, <3>1, TestKeys
      <3> QED BY <1>1, <3>1, <3>2
    <2> QED BY <2>1 DEF RowOf, Plain
  <1>4. /\ joined \in Seq(Range(joined)) /\ IsInjective(joined)
        /\ Range(joined) = {<<k, RowOf(tables, k)>> : k \in CommonKeys(tables)}
        BY DEF JoinInv, RowsSoFar, JoinRows
  <1>5. DOMAIN joined = 1 .. Len(joined) /\ Len(joined) \in Nat BY <1>4
  <1>6. \A j \in DOMAIN joined : \E i \in 0 .. size - 1 :
           joined[j] = <<JoinKey(i), Plain(N, <<"value", i>>)>>
    <2> SUFFICES ASSUME NEW j \in DOMAIN joined
                 PROVE  \E i \in 0 .. size - 1 :
                           joined[j] = <<JoinKey(i), Plain(N, <<"value", i>>)>>
        OBVIOUS
    <2>1. joined[j] \in Range(joined) BY DEF Range
    <2>2. PICK k \in CommonKeys(tables) : joined[j] = <<k, RowOf(tables, k)>> BY <1>4, <2>1
    <2>3. PICK i \in 0 .. size - 1 : k = JoinKey(i) BY <1>2 DEF JoinKeys
    <2> QED BY <1>3, <2>2, <2>3
  <1>7. DOMAIN Rows = 1 .. Len(joined) /\ \A j \in DOMAIN Rows : Rows[j] = joined[j][2]
        BY <1>5 DEF Rows
  <1>8. Rows \in Seq(Range(Rows))
    <2>1. \A j \in 1 .. Len(joined) : Rows[j] \in Range(Rows) BY <1>7 DEF Range
    <2>2. Rows = [j \in 1 .. Len(joined) |-> Rows[j]] BY <1>5 DEF Rows
    <2>3. Rows \in [1 .. Len(joined) -> Range(Rows)] BY <2>1, <2>2
    <2> QED BY <1>5, <2>3
  <1>9. IsInjective(Rows)
    <2>1. ASSUME NEW a \in DOMAIN joined, NEW b \in DOMAIN joined, joined[a][2] = joined[b][2]
          PROVE  a = b
      <3>1. PICK i \in 0 .. size - 1 : joined[a] = <<JoinKey(i), Plain(N, <<"value", i>>)>>
            BY <1>6
      <3>2. PICK j \in 0 .. size - 1 : joined[b] = <<JoinKey(j), Plain(N, <<"value", j>>)>>
            BY <1>6
      <3>3. Plain(N, <<"value", i>>) = Plain(N, <<"value", j>>) BY <2>1, <3>1, <3>2
      <3>4. Plain(N, <<"value", i>>)[1] = <<<<"value", i>>>>
            /\ Plain(N, <<"value", j>>)[1] = <<<<"value", j>>>>
            BY SourcesAre DEF Plain
      <3>5. <<<<"value", i>>>> = <<<<"value", j>>>> BY <3>3, <3>4
      <3>6. i = j BY <3>5
      <3>7. joined[a] = joined[b] BY <3>1, <3>2, <3>6
      <3> QED BY <1>4, <3>7 DEF IsInjective
    <2>2. \A a, b \in DOMAIN joined : joined[a][2] = joined[b][2] => a = b BY <2>1
    <2> QED BY <1>5, <1>7, <2>2 DEF IsInjective
  <1>10. Range(Rows) = {RowOf(tables, k) : k \in CommonKeys(tables)}
    <2>1. ASSUME NEW r \in Range(Rows) PROVE \E k \in CommonKeys(tables) : r = RowOf(tables, k)
      <3>1. PICK j \in DOMAIN joined : r = joined[j][2] BY <1>5, <1>7 DEF Range
      <3>2. joined[j] \in Range(joined) BY DEF Range
      <3>3. PICK k \in CommonKeys(tables) : joined[j] = <<k, RowOf(tables, k)>> BY <1>4, <3>2
      <3> QED BY <3>1, <3>3
    <2>2. ASSUME NEW k \in CommonKeys(tables) PROVE RowOf(tables, k) \in Range(Rows)
      <3>1. <<k, RowOf(tables, k)>> \in Range(joined) BY <1>4
      <3>2. PICK j \in DOMAIN joined : joined[j] = <<k, RowOf(tables, k)>> BY <3>1 DEF Range
      <3>3. j \in DOMAIN Rows /\ Rows[j] = RowOf(tables, k) BY <1>5, <1>7, <3>2
      <3> QED BY <3>3 DEF Range
    <2> QED BY <2>1, <2>2
  <1>11. ASSUME NEW r \in Range(Rows) PROVE \E i \in 0 .. MaxRows : r = Plain(N, <<"value", i>>)
    <2>1. PICK j \in DOMAIN joined : r = joined[j][2] BY <1>5, <1>7 DEF Range
    <2>2. PICK i \in 0 .. size - 1 : joined[j] = <<JoinKey(i), Plain(N, <<"value", i>>)>>
          BY <1>6
    <2>3. i \in 0 .. MaxRows BY <1>1
    <2> QED BY <2>1, <2>2, <2>3
  <1> QED BY <1>8, <1>9, <1>10, <1>11

(* The comparison of the ids is an equality: both tables have N columns.   *)
LEMMA SameIds == ASSUME NEW ids \in Headings PROVE SameColumns(Sources, ids) <=> ids = Sources
  <1>1. ids \in [1 .. N -> Source] BY ReferenceAssumption
  <1>2. Sources \in [1 .. N -> Source]
        BY SourcesAre, ReferenceAssumption
  <1>3. ASSUME SameColumns(Sources, ids) PROVE ids = Sources
    <2>1. \A i \in 1 .. N : ids[i] = Sources[i] BY <1>3, SourcesAre DEF SameColumns
    <2>2. ids = [i \in 1 .. N |-> ids[i]] BY <1>1
    <2>3. Sources = [i \in 1 .. N |-> Sources[i]] BY <1>2
    <2> QED BY <2>1, <2>2, <2>3
  <1> QED BY <1>3 DEF SameColumns

(* Sequences without repetition.                                           *)
LEMMA OnceCounted ==
  ASSUME NEW s, s \in Seq(Range(s)), IsInjective(s)
  PROVE  /\ IsFiniteSet(Range(s)) /\ Cardinality(Range(s)) = Len(s) /\ Len(s) \in Nat
  <1> DEFINE n == Len(s)
             R == Range(s)
  <1>1. n \in Nat /\ DOMAIN s = 1 .. n /\ s \in [1 .. n -> R] OBVIOUS
  <1>2. \A r \in R : \E i \in 1 .. n : s[i] = r BY <1>1 DEF Range
  <1> HIDE DEF n, R
  <1>3. s \in Bijection(1 .. n, R)
        BY <1>1, <1>2 DEF Bijection, Injection, Surjection
  <1>4. IsFiniteSet(1 .. n) /\ Cardinality(1 .. n) = n BY <1>1, FS_Interval
  <1>5. IsFiniteSet(R) /\ Cardinality(R) = n BY <1>3, <1>4, FS_Bijection DEF ExistsBijection
  <1> QED BY <1>1, <1>5 DEF n, R

LEMMA SeqOfItsRange ==
  ASSUME NEW S, NEW s \in Seq(S)
  PROVE  s \in Seq(Range(s)) /\ DOMAIN s = 1 .. Len(s) /\ Range(s) \subseteq S
  <1>1. Len(s) \in Nat /\ DOMAIN s = 1 .. Len(s) /\ \A i \in 1 .. Len(s) : s[i] \in S OBVIOUS
  <1>2. \A i \in 1 .. Len(s) : s[i] \in Range(s) BY <1>1 DEF Range
  <1>3. s = [i \in 1 .. Len(s) |-> s[i]] BY <1>1
  <1>4. s \in [1 .. Len(s) -> Range(s)] BY <1>2, <1>3
  <1>5. s \in Seq(Range(s)) BY <1>1, <1>4
  <1>6. Range(s) \subseteq S BY <1>1 DEF Range
  <1> QED BY <1>1, <1>5, <1>6

(* EqualContents accepts the rows of the join in any order: it does not    *)
(* depend on the order in which the maps of either side were read.         *)
THEOREM AcceptsAnyOrder == Spec => []AcceptsTheJoin
  <1>1. CompareInv => AcceptsTheJoin
    <2> SUFFICES ASSUME CompareInv, verdict # <<>>, IsTheJoin(verdict[1], verdict[2])
                 PROVE  EqualContents(Sources, Rows, verdict[1], verdict[2])
        BY DEF AcceptsTheJoin, CompareInv, VerdictInv
    <2> DEFINE ids == verdict[1]
               t == verdict[2]
    <2>1. JoinInv /\ phase = "done" /\ program = "test" BY DEF CompareInv, VerdictInv
    <2>2. t \in Seq(Range(Rows) \union Strange) BY DEF CompareInv, VerdictInv
    <2>3. t \in Seq(Range(t)) BY <2>2, SeqOfItsRange
    <2>4. /\ IsInjective(t) /\ Range(t) = {RowOf(tables, k) : k \in CommonKeys(tables)}
          /\ SameColumns(Sources, ids)
          BY SameIds DEF IsTheJoin, CompareInv, VerdictInv
    <2> HIDE DEF ids, t
    <2>5. /\ Rows \in Seq(Range(Rows)) /\ IsInjective(Rows)
          /\ Range(Rows) = {RowOf(tables, k) : k \in CommonKeys(tables)}
          BY <2>1, TestRows
    <2>6. Range(t) = Range(Rows) BY <2>4, <2>5
    <2>7. Len(Rows) = Cardinality(Range(Rows)) BY <2>5, OnceCounted
    <2>8. Len(t) = Cardinality(Range(t)) BY <2>3, <2>4, OnceCounted
    <2>9. ASSUME NEW i \in DOMAIN t PROVE Flat(t[i]) \in {Flat(Rows[j]) : j \in DOMAIN Rows}
      <3>1. t[i] \in Range(Rows) BY <2>6 DEF Range
      <3>2. PICK j \in DOMAIN Rows : Rows[j] = t[i] BY <3>1 DEF Range
      <3> QED BY <3>2
    <2>10. Len(Rows) = Len(t) BY <2>6, <2>7, <2>8
    <2>11. EqualContents(Sources, Rows, ids, t) BY <2>4, <2>9, <2>10 DEF EqualContents
    <2> QED BY <2>11 DEF ids, t
  <1> QED BY <1>1, CompareInit, CompareNext, PTL DEF Spec

(* If EqualContents accepts a table without repeated rows, it has exactly  *)
(* the rows of the join, under its ids.  It compares one way only, and     *)
(* rows joined by a separator that values may contain: this is enough,     *)
(* because rows are counted, and GenTestTables' values have no separator.  *)
THEOREM AcceptsNothingElse == Spec => []AcceptsOnlyTheJoin
  <1>1. CompareInv => AcceptsOnlyTheJoin
    <2> SUFFICES ASSUME CompareInv, verdict # <<>>, IsInjective(verdict[2]),
                        EqualContents(Sources, Rows, verdict[1], verdict[2])
                 PROVE  IsTheJoin(verdict[1], verdict[2])
        BY DEF AcceptsOnlyTheJoin, CompareInv, VerdictInv
    <2> DEFINE ids == verdict[1]
               t == verdict[2]
    <2>1. JoinInv /\ phase = "done" /\ program = "test" BY DEF CompareInv, VerdictInv
    <2>2. t \in Seq(Range(Rows) \union Strange) BY DEF CompareInv, VerdictInv
    <2>3. /\ t \in Seq(Range(t)) /\ DOMAIN t = 1 .. Len(t)
          /\ Range(t) \subseteq Range(Rows) \union Strange
          BY <2>2, SeqOfItsRange
    <2>4. /\ Len(Rows) = Len(t)
          /\ \A i \in DOMAIN t : Flat(t[i]) \in {Flat(Rows[j]) : j \in DOMAIN Rows}
          /\ ids = Sources
          BY SameIds DEF EqualContents, CompareInv, VerdictInv
    <2>5. IsInjective(t) OBVIOUS
    <2> HIDE DEF ids, t
    <2>6. /\ Rows \in Seq(Range(Rows)) /\ IsInjective(Rows)
          /\ Range(Rows) = {RowOf(tables, k) : k \in CommonKeys(tables)}
          /\ \A r \in Range(Rows) : \E i \in 0 .. MaxRows : r = Plain(N, <<"value", i>>)
          BY <2>1, TestRows
    <2>7. ASSUME NEW r \in Range(t) PROVE r \in Range(Rows)
      <3>1. PICK j \in DOMAIN Rows : Flat(r) = Flat(Rows[j]) BY <2>4 DEF Range
      <3>2. Rows[j] \in Range(Rows) BY DEF Range
      <3>3. PICK i \in 0 .. MaxRows : Rows[j] = Plain(N, <<"value", i>>) BY <2>6, <3>2
      <3>4. CASE r \in Strange
        <4> DEFINE v == <<"value", i>>
                   V == {Bar, v} \union UNION {Range(r[c]) : c \in 1 .. N}
        <4>1. /\ r \in [1 .. N -> Range(r)]
              /\ \A c \in 1 .. N : r[c] \in Seq(Range(r[c]))
              BY <3>4, ReferenceAssumption
        <4>2. v # Bar BY ReferenceAssumption
        <4>3. Bar \in V /\ v \in V OBVIOUS
        <4>4. \A c \in 1 .. N : Range(r[c]) \subseteq V OBVIOUS
        <4> HIDE DEF v, V
        <4>5. \A c \in 1 .. N : r[c] \in Seq(V) BY <4>1, <4>4, SeqMonotonic
        <4>6. r \in [1 .. N -> Seq(V)] BY <4>1, <4>5
        <4>7. Flat(r) = Flat(Plain(N, v)) BY <3>1, <3>3 DEF v
        <4>8. N \in Nat /\ N >= 1 BY SourcesAre
        <4>9. r = Plain(N, v) BY <4>2, <4>3, <4>6, <4>7, <4>8, OnlyPlain
        <4> QED BY <3>2, <3>3, <4>9 DEF v
      <3>5. CASE r \notin Strange BY <2>3, <3>5
      <3> QED BY <3>4, <3>5
    <2>8. Range(t) \in SUBSET Range(Rows) BY <2>7
    <2>9. IsFiniteSet(Range(Rows)) /\ Cardinality(Range(Rows)) = Len(Rows)
          BY <2>6, OnceCounted
    <2>10. Cardinality(Range(t)) = Len(t) BY <2>3, <2>5, OnceCounted
    <2>11. Range(t) = Range(Rows)
      <3> DEFINE A == Range(t)
                 B == Range(Rows)
      <3>1. A \in SUBSET B /\ IsFiniteSet(B) /\ Cardinality(A) = Cardinality(B)
            BY <2>4, <2>8, <2>9, <2>10
      <3> HIDE DEF A, B
      <3>2. A = B BY <3>1, FS_Subset
      <3> QED BY <3>2 DEF A, B
    <2>12. IsTheJoin(ids, t) BY <2>4, <2>5, <2>6, <2>11 DEF IsTheJoin
    <2> QED BY <2>12 DEF ids, t
  <1> QED BY <1>1, CompareInit, CompareNext, PTL DEF Spec
=============================================================================
