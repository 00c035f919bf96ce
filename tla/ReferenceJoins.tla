--------------------------- MODULE ReferenceJoins ---------------------------
(***************************************************************************)
(* What the protocol is judged by.                                         *)
(*                                                                         *)
(* The end-to-end test and the local demo generate tables (GenTestTables), *)
(* join them in plain (IntersectSimple) and compare the result with that   *)
(* of the protocol (EqualContents): src/mppj-go/table.go.  The experiments *)
(* generate theirs with src/mppj-exps/gen_data.py, which also joins them,  *)
(* and compare sets of rows.  Maps are iterated in any order, and random   *)
(* draws are choices.                                                      *)
(*                                                                         *)
(* A value is a sequence of tokens, so that joining values with a          *)
(* separator, which a value might contain, is what it is in the code.      *)
(***************************************************************************)
EXTENDS Integers, FiniteSets, Functions, Sequences, SequencesExt

CONSTANTS Sources,   \* the sources, in the order of the columns
          MaxRows,   \* bound on the parameters of the generators
          Draws,     \* the values of random.randint
          Bar,       \* the separator of the values of a row
          Strange,   \* rows no generator makes, which a wrong join might
          Headings   \* the ids a table compared with the join may have

Source == Range(Sources)
N == Len(Sources)

(* A source that is named like the keys GenTestTables shares would have    *)
(* its own keys taken for shared ones.  The values GenTestTables shares    *)
(* have no separator.  A JoinTable has an id for each column and Insert    *)
(* gives every row all columns; the tables compared have as many as there  *)
(* are sources.                                                            *)
ASSUME ReferenceAssumption ==
  /\ Sources \in Seq(Source) /\ IsInjective(Sources) /\ N >= 2
  /\ "join_key" \notin Source
  /\ MaxRows \in Nat
  /\ \A i \in 0 .. MaxRows : <<"value", i>> # Bar
  /\ \A r \in Strange : /\ r \in [1 .. N -> Range(r)]
                        /\ \A i \in 1 .. N : r[i] \in Seq(Range(r[i]))
  /\ Headings \subseteq [1 .. N -> Source]

VARIABLES
  program,      \* "test" or "experiment"
  nRows, size,  \* the generator's parameters: rows per table, rows to join
  tables,       \* the generated tables: maps from keys to values
  toRemove,     \* gen_data: keys that are to be removed from the join
  unread,       \* IntersectSimple: the keys it has not read, by table
  partJoin,     \* IntersectSimple: the values grouped by key, as a set
  joined,       \* the rows of the reference join
  verdict,      \* ids and rows compared with it, and EqualContents' answer
  phase

vars == <<program, nRows, size, tables, toRemove, unread, partJoin, joined, verdict, phase>>

-----------------------------------------------------------------------------
(* The generators.                                                         *)

JoinKey(i)    == <<"join_key", i>>
OwnKey(s, i)  == <<s, i>>
DataKey(i)    == <<"key", i>>
RemovedKey(k) == <<"removed", k[2]>>

(* GenTestTable: the shared keys first, then the source's own, up to nRows *)
(* rows; the values are numbered.  The mutant does not deduct the former.  *)
OwnRowsAll(n, shared) == n
OwnRows(n, shared) == n - shared

GenTestTable(s, n, shared) ==
  LET own == OwnRows(n, shared)
  IN  [k \in {JoinKey(i) : i \in 0 .. shared - 1} \union {OwnKey(s, i) : i \in 0 .. own - 1} |->
         IF k[1] = s THEN <<<<"non_join_value", shared + k[2]>>>> ELSE <<<<"value", k[2]>>>>]

(* The tables a key is renamed in: at least one, and not all.  The mutant  *)
(* may take all.                                                           *)
AnyTables == (SUBSET Source) \ {{}}
SomeTables == (SUBSET Source) \ {{}, Source}

(* The table with key k renamed.  The mutant drops the key after it.       *)
RenamedNext(t, k) ==
  [x \in (DOMAIN t \ {DataKey(k[2] + 1)}) \union {RemovedKey(k)} |->
     IF x = RemovedKey(k) THEN t[k] ELSE t[x]]
Renamed(t, k) ==
  [x \in (DOMAIN t \ {k}) \union {RemovedKey(k)} |-> IF x = RemovedKey(k) THEN t[k] ELSE t[x]]

-----------------------------------------------------------------------------
(* The joins and the comparison.                                           *)

Group(k) == {x \in partJoin : x[1] = k}

(* len(vals) == len(tables).  The mutant does not compare.                 *)
AnySize(group) == TRUE
HasAll(group) == Cardinality(group) = Cardinality(DOMAIN tables)

(* Insert: each value in the column of its source.                         *)
Columns(group) ==
  [i \in 1 .. N |-> IF \E x \in group : x[2] = Sources[i]
                    THEN (CHOOSE x \in group : x[2] = Sources[i])[3] ELSE <<>>]

(* join_tables: the keys common to all tables, in any order.               *)
CommonKeys(ts) == {k \in DOMAIN ts[Sources[1]] : \A s \in Source : k \in DOMAIN ts[s]}
RowOf(ts, k) == [i \in 1 .. N |-> ts[Sources[i]][k]]

(* strings.Join(row, "|").                                                 *)
Flat(row) == FoldLeft(LAMBDA acc, v : acc \o <<Bar>> \o v, Head(row), Tail(row))

(* The sourceids of the two tables, column by column.                      *)
SameColumns(ids1, ids2) == \A i \in DOMAIN ids1 : ids1[i] = ids2[i]

(* EqualContents: the same number of rows, the same columns, and every row *)
(* of the second table is, joined by the separator, one of the first.  One *)
(* mutant skips the count, the other compares row by row.                  *)
NotCounted(ids1, t1, ids2, t2) ==
  /\ SameColumns(ids1, ids2)
  /\ \A i \in DOMAIN t2 : Flat(t2[i]) \in {Flat(t1[j]) : j \in DOMAIN t1}
RowByRow(ids1, t1, ids2, t2) ==
  /\ Len(t1) = Len(t2) /\ SameColumns(ids1, ids2)
  /\ \A i \in DOMAIN t2 : Flat(t2[i]) = Flat(t1[i])
EqualContents(ids1, t1, ids2, t2) ==
  /\ Len(t1) = Len(t2)
  /\ SameColumns(ids1, ids2)
  /\ \A i \in DOMAIN t2 : Flat(t2[i]) \in {Flat(t1[j]) : j \in DOMAIN t1}

-----------------------------------------------------------------------------
Init ==
  /\ program \in {"test", "experiment"}
  /\ nRows \in 0 .. MaxRows /\ size \in 0 .. MaxRows
  /\ tables = [s \in Source |-> <<>>]
  /\ toRemove = {}
  /\ unread = [s \in Source |-> {}] /\ partJoin = {}
  /\ joined = <<>>
  /\ verdict = <<>>
  /\ phase = "generate"

GenTestTables ==
  /\ phase = "generate" /\ program = "test"
  /\ tables' = [s \in Source |-> GenTestTable(s, nRows, size)]
  /\ unread' = [s \in Source |-> DOMAIN tables'[s]]
  /\ phase' = "group"
  /\ UNCHANGED <<program, nRows, size, toRemove, partJoin, joined, verdict>>

(* generate_tables: every table has the same keys.  postprocess_tables     *)
(* then chooses the keys to remove, does nothing if `size' is zero, and    *)
(* refuses one that is not smaller than the tables.                        *)
GenerateTables ==
  /\ phase = "generate" /\ program = "experiment"
  /\ \E r \in [Source \X (0 .. nRows - 1) -> Draws] :
        tables' = [s \in Source |-> [k \in {DataKey(i) : i \in 0 .. nRows - 1} |->
                                       <<<<"val", s, r[s, k[2]]>>>>]]
  /\ IF size > 0 /\ nRows <= size
     THEN phase' = "refused" /\ UNCHANGED toRemove
     ELSE /\ phase' = "rename"
          /\ \E ks \in SUBSET {DataKey(i) : i \in 0 .. nRows - 1} :
                /\ Cardinality(ks) = IF size = 0 THEN 0 ELSE nRows - size
                /\ toRemove' = ks
  /\ UNCHANGED <<program, nRows, size, unread, partJoin, joined, verdict>>

(* One round of postprocess_tables' loop.                                  *)
Rename(k) ==
  /\ phase = "rename" /\ k \in toRemove
  /\ \E some \in SomeTables :
        tables' = [s \in Source |-> IF s \in some THEN Renamed(tables[s], k) ELSE tables[s]]
  /\ toRemove' = toRemove \ {k}
  /\ UNCHANGED <<program, nRows, size, unread, partJoin, joined, verdict, phase>>

JoinTables ==
  /\ phase = "rename" /\ toRemove = {}
  /\ joined' = SetToSeq({<<k, RowOf(tables, k)>> : k \in CommonKeys(tables)})
  /\ phase' = "done"
  /\ UNCHANGED <<program, nRows, size, tables, toRemove, unread, partJoin, verdict>>

(* IntersectSimple reads one table after the other, in any order.          *)
Read(s, k) ==
  /\ phase = "group" /\ k \in unread[s]
  /\ \A t \in Source \ {s} : unread[t] \in {{}, DOMAIN tables[t]}
  /\ unread' = [unread EXCEPT ![s] = @ \ {k}]
  /\ partJoin' = partJoin \union {<<k, s, tables[s][k]>>}
  /\ UNCHANGED <<program, nRows, size, tables, toRemove, joined, verdict, phase>>

GroupEnd ==
  /\ phase = "group" /\ \A s \in Source : unread[s] = {}
  /\ phase' = "join"
  /\ UNCHANGED <<program, nRows, size, tables, toRemove, unread, partJoin, joined, verdict>>

(* A row is kept with its key, which the JoinTable does not have.          *)
InsertRow(k) ==
  /\ phase = "join" /\ Group(k) # {}
  /\ partJoin' = partJoin \ Group(k)
  /\ joined' = IF HasAll(Group(k)) THEN Append(joined, <<k, Columns(Group(k))>>) ELSE joined
  /\ UNCHANGED <<program, nRows, size, tables, toRemove, unread, verdict, phase>>

JoinEnd ==
  /\ phase = "join" /\ partJoin = {}
  /\ phase' = "compare"
  /\ UNCHANGED <<program, nRows, size, tables, toRemove, unread, partJoin, joined, verdict>>

Rows == [i \in DOMAIN joined |-> joined[i][2]]

(* The result under test may be any table.                                 *)
Compare ==
  /\ phase = "compare"
  /\ \E ids \in Headings, t2 \in SeqOf(Range(Rows) \union Strange, Len(Rows) + 1) :
        verdict' = <<ids, t2, EqualContents(Sources, Rows, ids, t2)>>
  /\ phase' = "done"
  /\ UNCHANGED <<program, nRows, size, tables, toRemove, unread, partJoin, joined>>

Next == \/ GenTestTables \/ GenerateTables
        \/ (\E k \in toRemove : Rename(k)) \/ JoinTables
        \/ (\E s \in Source : \E k \in unread[s] : Read(s, k)) \/ GroupEnd
        \/ (\E x \in partJoin : InsertRow(x[1])) \/ JoinEnd
        \/ Compare

Spec == Init /\ [][Next]_vars

-----------------------------------------------------------------------------
(* The type invariant; a group has at most one value of each source.       *)
TypeOK ==
  /\ program \in {"test", "experiment"}
  /\ nRows \in 0 .. MaxRows /\ size \in 0 .. MaxRows
  /\ DOMAIN tables = Source
  /\ \A s \in Source : unread[s] \subseteq DOMAIN tables[s]
  /\ toRemove \subseteq CommonKeys(tables)
  /\ \A x \in partJoin : x[2] \in Source /\ x[1] \in DOMAIN tables[x[2]] \ unread[x[2]]
  /\ \A x, y \in partJoin : x[1] = y[1] /\ x[2] = y[2] => x = y
  /\ phase \in {"generate", "refused", "rename", "group", "join", "compare", "done"}

(* The generators do what they are asked: every table has exactly nRows    *)
(* rows, and exactly `size' keys are in all tables.  (GenTestTables gives  *)
(* larger tables if asked to share more; gen_data shares all for 0.)       *)
AsOrdered ==
  (/\ phase \in {"group", "join", "compare", "done"}
   /\ IF program = "test" THEN size <= nRows ELSE size > 0)
  => /\ \A s \in Source : Cardinality(DOMAIN tables[s]) = nRows
     /\ Cardinality(CommonKeys(tables)) = size

(* IntersectSimple, in whatever order it reads the maps, gives each common *)
(* key one row, with each value in the column of its source: it agrees     *)
(* with gen_data's join_tables.                                            *)
JoinsAgree ==
  phase \in {"compare", "done"} =>
     /\ IsInjective(joined)
     /\ Range(joined) = {<<k, RowOf(tables, k)>> : k \in CommonKeys(tables)}

IsTheJoin(ids, t2) == /\ ids = Sources
                      /\ IsInjective(t2)
                      /\ Range(t2) = {RowOf(tables, k) : k \in CommonKeys(tables)}

(* If EqualContents accepts a table without repeated rows, that table has  *)
(* exactly the rows of the join, under the ids of the sources they are of. *)
(* (It compares one way only, which is enough because rows are counted and *)
(* GenTestTables' rows differ; a table that repeats one row in place of    *)
(* another is accepted.)                                                   *)
AcceptsOnlyTheJoin ==
  (verdict # <<>> /\ IsInjective(verdict[2]) /\ ~IsTheJoin(verdict[1], verdict[2]))
     => ~verdict[3]

(* EqualContents accepts the rows of the join in any order.                *)
AcceptsTheJoin == (verdict # <<>> /\ IsTheJoin(verdict[1], verdict[2])) => verdict[3]
=============================================================================
