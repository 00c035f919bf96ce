-------------------------- MODULE ReceiverPipeline --------------------------
(***************************************************************************)
(* The receiver process (src/mppj-go/cmd/receiver/main.go and              *)
(* party_receiver.go): a reader goroutine downloads the helper's rows, a   *)
(* pool of converters decodes them, a pool of unblinders groups them by    *)
(* the pseudonym of their key, and a pool of decrypters turns each group   *)
(* with as many rows as there are sources into one row of the join.        *)
(*                                                                         *)
(* The pools share one set of worker names: each pool has NumCPU           *)
(* goroutines.  A row is its position in the helper's stream; what the     *)
(* code finds out about it by decrypting is Stream[i].                     *)
(***************************************************************************)
EXTENDS Integers, FiniteSets, Sequences, Functions

CONSTANTS Sources,     \* the -sources flag, in the helper's order
          Stream,      \* the rows the helper sends: [key, src, val]
          Worker,      \* the goroutines of a pool
          Reliable,    \* the connection to the helper does not fail
          Unpublished  \* nothing has been written to the output yet

Client  == Range(Sources)
NumRows == Len(Stream)
RowNo   == 1 .. NumRows
Keys    == {Stream[i].key : i \in RowNo}

(* main's check of its flags; src is the position of a source in Sources.  *)
ASSUME FlagsAssumption == Sources \in Seq(Client) /\ Len(Sources) >= 2
ASSUME StreamAssumption ==
  /\ Stream \in Seq(Range(Stream)) /\ Len(Stream) > 0
  /\ \A i \in 1 .. Len(Stream) : Stream[i].src \in 1 .. Len(Sources)
ASSUME PoolAssumption ==
  /\ Worker # {} /\ IsFiniteSet(Worker) /\ Reliable \in BOOLEAN

VARIABLES
  rc,            \* rows received by the reader
  inRowApi,      \* the buffered channel from the reader to the converters
  apiClosed,     \* that channel is closed
  conv, hold,    \* where each converter is, and the row it has
  wg, once,      \* the converters' WaitGroup and Once
  inRows,        \* the buffered channel from the converters to the grouping
  rowsClosed,    \* that channel is closed
  grp, grpHold,  \* where each unblinder is, and the row it has
  groups,        \* the rows of each pseudonym
  visited,       \* the pseudonyms the intersection has looked at
  decClosed,     \* the channel decryptTasks is closed
  dec, decHold,  \* where each decrypter is, and the group it has
  joined,        \* the rows of the join, each with its key
  main,          \* where the main goroutine is
  crash          \* "none", or what ended the process

readVars == <<rc, inRowApi, apiClosed>>
convVars == <<conv, hold, wg, once>>
grpVars  == <<grp, grpHold, groups>>
decVars  == <<visited, decClosed, dec, decHold, joined>>
vars == <<readVars, convVars, inRows, rowsClosed, grpVars, decVars, main, crash>>

None == 0

Running == crash = "none"

-----------------------------------------------------------------------------
(* Operators the actions are built from.                                   *)

(* wg.Add(1) precedes the go statement.  The mutant leaves it out.         *)
NotCounted(n) == n
Counted(n) == n + 1

(* close(inRowApi) after the last row.  The mutant leaves it open.         *)
LeftOpen == FALSE
ClosedAfterLast == TRUE

(* wg.Wait() returns.  The mutant does not wait for the other converters.  *)
NoWait(n) == TRUE
AllDone(n) == n = 0

(* len(group) == len(r.sourceIDs).                                         *)
Joinable(rows) == Cardinality(rows) = Len(Sources)

(* The product of the hints unmasks the keys exactly when the group has    *)
(* one row of each source; a wrong key makes decryptGroup panic.           *)
Unmasked(rows) == {Stream[i].src : i \in rows} = 1 .. Len(Sources)

(* The row decryptGroup and Insert make of a group: a column with no value *)
(* stays empty.  The mutant attributes the values in reverse order.        *)
SwappedColumns(rows) ==
  [c \in Client |->
     LET its == {i \in rows : Sources[Len(Sources) + 1 - Stream[i].src] = c}
     IN  IF its = {} THEN "" ELSE Stream[CHOOSE i \in its : TRUE].val]
Columns(rows) ==
  [c \in Client |->
     LET its == {i \in rows : Sources[Stream[i].src] = c}
     IN  IF its = {} THEN "" ELSE Stream[CHOOSE i \in its : TRUE].val]

(* The key of a group, which the receiver sees only as a pseudonym.        *)
KeyOf(rows) == Stream[CHOOSE i \in rows : TRUE].key

(* The rows of a pseudonym when one more has arrived.  The mutant is a map *)
(* that keeps the last row of a pseudonym.                                 *)
Overwritten(rows, i) == {i}
Appended(rows, i) == rows \union {i}

Init ==
  /\ rc = 0 /\ inRowApi = <<>> /\ apiClosed = FALSE
  /\ conv = [w \in Worker |-> "unborn"] /\ hold = [w \in Worker |-> None]
  /\ wg = 0 /\ once = "free"
  /\ inRows = <<>> /\ rowsClosed = FALSE
  /\ grp = [w \in Worker |-> "unborn"] /\ grpHold = [w \in Worker |-> None]
  /\ groups = [k \in Keys |-> {}]
  /\ visited = {} /\ decClosed = FALSE
  /\ dec = [w \in Worker |-> "unborn"] /\ decHold = [w \in Worker |-> {}]
  /\ joined = {}
  /\ main = "spawn"
  /\ crash = "none"

-----------------------------------------------------------------------------
(* The reader.                                                             *)

(* A row arrives and goes into inRowApi, which has room for all of them.   *)
Recv ==
  /\ ~apiClosed /\ rc < NumRows
  /\ rc' = rc + 1
  /\ inRowApi' = Append(inRowApi, rc + 1)
  /\ UNCHANGED <<apiClosed, convVars, inRows, rowsClosed, grpVars, decVars, main, crash>>

(* The announced number of rows is there: the connection is closed, then   *)
(* the channel.                                                            *)
RecvAll ==
  /\ ~apiClosed /\ rc = NumRows
  /\ apiClosed' = ClosedAfterLast
  /\ UNCHANGED <<rc, inRowApi, convVars, inRows, rowsClosed, grpVars, decVars, main, crash>>

(* An error, or the end of the stream before the announced number of rows. *)
RecvErr ==
  /\ ~Reliable
  /\ ~apiClosed /\ rc < NumRows
  /\ crash' = "RecvFailed"
  /\ UNCHANGED <<readVars, convVars, inRows, rowsClosed, grpVars, decVars, main>>

-----------------------------------------------------------------------------
(* The converters and main's loop that starts them.                        *)

Spawn(w) ==
  /\ main = "spawn" /\ conv[w] = "unborn"
  /\ wg' = Counted(wg)
  /\ conv' = [conv EXCEPT ![w] = "range"]
  /\ UNCHANGED <<readVars, hold, once, inRows, rowsClosed, grpVars, decVars, main, crash>>

ConvTake(w) ==
  /\ conv[w] = "range" /\ inRowApi # <<>>
  /\ hold' = [hold EXCEPT ![w] = Head(inRowApi)]
  /\ inRowApi' = Tail(inRowApi)
  /\ conv' = [conv EXCEPT ![w] = "put"]
  /\ UNCHANGED <<rc, apiClosed, wg, once, inRows, rowsClosed, grpVars, decVars, main, crash>>

(* inRows has room for all rows; a send on it after its close panics.      *)
ConvPut(w) ==
  /\ conv[w] = "put"
  /\ inRows' = IF rowsClosed THEN inRows ELSE Append(inRows, hold[w])
  /\ crash' = IF rowsClosed THEN "SendOnClosed" ELSE crash
  /\ hold' = [hold EXCEPT ![w] = None]
  /\ conv' = [conv EXCEPT ![w] = "range"]
  /\ UNCHANGED <<readVars, wg, once, rowsClosed, grpVars, decVars, main>>

(* The channel is closed and drained: wg.Done(), which wakes the waiter    *)
(* when the counter reaches zero.                                          *)
ConvDone(w) ==
  /\ conv[w] = "range" /\ inRowApi = <<>> /\ apiClosed
  /\ wg' = wg - 1
  /\ conv' = [v \in Worker |-> IF v = w THEN "once"
                               ELSE IF conv[v] = "wait" /\ wg' = 0 THEN "woken"
                               ELSE conv[v]]
  /\ UNCHANGED <<readVars, hold, once, inRows, rowsClosed, grpVars, decVars, main, crash>>

(* The first converter in once.Do calls wg.Wait(): it goes on at once if   *)
(* the counter is zero, and waits for the others if not.                   *)
OnceEnter(w) ==
  /\ conv[w] = "once" /\ once = "free"
  /\ once' = "busy"
  /\ conv' = [conv EXCEPT ![w] = IF AllDone(wg) THEN "close" ELSE "wait"]
  /\ UNCHANGED <<readVars, hold, wg, inRows, rowsClosed, grpVars, decVars, main, crash>>

(* sync.WaitGroup.Wait checks the counter again when it is woken, and      *)
(* panics if it was raised in between.                                     *)
OnceWake(w) ==
  /\ conv[w] = "woken"
  /\ conv' = [conv EXCEPT ![w] = "close"]
  /\ crash' = IF wg = 0 THEN crash ELSE "WaitGroupReused"
  /\ UNCHANGED <<readVars, hold, wg, once, inRows, rowsClosed, grpVars, decVars, main>>

OnceClose(w) ==
  /\ conv[w] = "close"
  /\ rowsClosed' = TRUE
  /\ once' = "done"
  /\ conv' = [conv EXCEPT ![w] = "end"]
  /\ UNCHANGED <<readVars, hold, wg, inRows, grpVars, decVars, main, crash>>

(* The others leave once.Do when the first has returned from it.           *)
OnceSkip(w) ==
  /\ conv[w] = "once" /\ once = "done"
  /\ conv' = [conv EXCEPT ![w] = "end"]
  /\ UNCHANGED <<readVars, hold, wg, once, inRows, rowsClosed, grpVars, decVars, main, crash>>

-----------------------------------------------------------------------------
(* JoinTablesStream: grouping by pseudonym.                                *)

(* All converters are started: main calls JoinTablesStream.                *)
StartGrouping ==
  /\ main = "spawn" /\ \A w \in Worker : conv[w] # "unborn"
  /\ main' = "group"
  /\ grp' = [w \in Worker |-> "range"]
  /\ UNCHANGED <<readVars, convVars, inRows, rowsClosed, grpHold, groups, decVars, crash>>

GrpTake(w) ==
  /\ grp[w] = "range" /\ inRows # <<>>
  /\ grpHold' = [grpHold EXCEPT ![w] = Head(inRows)]
  /\ inRows' = Tail(inRows)
  /\ grp' = [grp EXCEPT ![w] = "put"]
  /\ UNCHANGED <<readVars, convVars, rowsClosed, groups, decVars, main, crash>>

(* Under the mutex, the row joins the group of its unblinded pseudonym.    *)
GrpPut(w) ==
  /\ grp[w] = "put"
  /\ groups' = [groups EXCEPT ![Stream[grpHold[w]].key] = Appended(@, grpHold[w])]
  /\ grpHold' = [grpHold EXCEPT ![w] = None]
  /\ grp' = [grp EXCEPT ![w] = "range"]
  /\ UNCHANGED <<readVars, convVars, inRows, rowsClosed, decVars, main, crash>>

GrpEnd(w) ==
  /\ grp[w] = "range" /\ inRows = <<>> /\ rowsClosed
  /\ grp' = [grp EXCEPT ![w] = "end"]
  /\ UNCHANGED <<readVars, convVars, inRows, rowsClosed, grpHold, groups, decVars, main, crash>>

-----------------------------------------------------------------------------
(* intersectHint: decrypting the complete groups.                          *)

StartIntersect ==
  /\ main = "group" /\ \A w \in Worker : grp[w] = "end"
  /\ main' = "intersect"
  /\ dec' = [w \in Worker |-> "range"]
  /\ UNCHANGED <<readVars, convVars, inRows, rowsClosed, grpVars, visited, decClosed,
                 decHold, joined, crash>>

(* main looks at the next group: a complete one goes to an idle decrypter, *)
(* over an unbuffered channel ...                                          *)
SendGroup(k, w) ==
  /\ main = "intersect" /\ ~decClosed
  /\ k \in Keys \ visited /\ groups[k] # {}
  /\ Joinable(groups[k])
  /\ dec[w] = "range"
  /\ visited' = visited \union {k}
  /\ decHold' = [decHold EXCEPT ![w] = groups[k]]
  /\ dec' = [dec EXCEPT ![w] = "put"]
  /\ UNCHANGED <<readVars, convVars, inRows, rowsClosed, grpVars, decClosed, joined, main, crash>>

(* ... and any other is skipped.                                           *)
SkipGroup(k) ==
  /\ main = "intersect" /\ ~decClosed
  /\ k \in Keys \ visited /\ groups[k] # {}
  /\ ~Joinable(groups[k])
  /\ visited' = visited \union {k}
  /\ UNCHANGED <<readVars, convVars, inRows, rowsClosed, grpVars, decClosed, dec, decHold,
                 joined, main, crash>>

CloseTasks ==
  /\ main = "intersect" /\ ~decClosed
  /\ \A k \in Keys \ visited : groups[k] = {}
  /\ decClosed' = TRUE
  /\ UNCHANGED <<readVars, convVars, inRows, rowsClosed, grpVars, visited, dec, decHold,
                 joined, main, crash>>

(* decryptGroup, and Insert under the mutex.                               *)
Decrypt(w) ==
  /\ dec[w] = "put"
  /\ IF Unmasked(decHold[w])
     THEN /\ joined' = joined \union {<<KeyOf(decHold[w]), Columns(decHold[w])>>}
          /\ crash' = crash
     ELSE /\ joined' = joined
          /\ crash' = "DecryptFailed"
  /\ dec' = [dec EXCEPT ![w] = "range"]
  /\ decHold' = [decHold EXCEPT ![w] = {}]
  /\ UNCHANGED <<readVars, convVars, inRows, rowsClosed, grpVars, visited, decClosed, main>>

DecEnd(w) ==
  /\ dec[w] = "range" /\ decClosed
  /\ dec' = [dec EXCEPT ![w] = "end"]
  /\ UNCHANGED <<readVars, convVars, inRows, rowsClosed, grpVars, visited, decClosed, decHold,
                 joined, main, crash>>

(* wg.Wait() in intersectHint, then main writes the table.                 *)
WriteResult ==
  /\ main = "intersect" /\ \A w \in Worker : dec[w] = "end"
  /\ main' = "done"
  /\ UNCHANGED <<readVars, convVars, inRows, rowsClosed, grpVars, decVars, crash>>

-----------------------------------------------------------------------------
Reader == Running /\ (Recv \/ RecvAll \/ RecvErr)

Converter(w) == /\ Running
                /\ \/ ConvTake(w) \/ ConvPut(w) \/ ConvDone(w)
                   \/ OnceEnter(w) \/ OnceWake(w) \/ OnceClose(w) \/ OnceSkip(w)

Unblinder(w) == Running /\ (GrpTake(w) \/ GrpPut(w) \/ GrpEnd(w))

Decrypter(w) == Running /\ (Decrypt(w) \/ DecEnd(w))

Main == /\ Running
        /\ \/ \E w \in Worker : Spawn(w)
           \/ StartGrouping \/ StartIntersect
           \/ \E k \in Keys : SkipGroup(k) \/ \E w \in Worker : SendGroup(k, w)
           \/ CloseTasks \/ WriteResult

Next == \/ Reader
        \/ \E w \in Worker : Converter(w) \/ Unblinder(w) \/ Decrypter(w)
        \/ Main

Spec == Init /\ [][Next]_vars

(* The Go scheduler runs every goroutine that can run, and a helper that   *)
(* has announced its rows goes on sending them.                            *)
Fairness == /\ WF_vars(Reader)
            /\ \A w \in Worker : /\ WF_vars(Converter(w))
                                 /\ WF_vars(Unblinder(w))
                                 /\ WF_vars(Decrypter(w))
            /\ WF_vars(Main)

FairSpec == Spec /\ Fairness

-----------------------------------------------------------------------------
(* The type invariant: every variable has its type; the WaitGroup counts   *)
(* the converters that have been started and are not done.                 *)
TypeOK ==
  /\ rc \in 0 .. NumRows
  /\ inRowApi \in Seq(RowNo) /\ inRows \in Seq(RowNo)
  /\ apiClosed \in BOOLEAN /\ rowsClosed \in BOOLEAN /\ decClosed \in BOOLEAN
  /\ conv \in [Worker -> {"unborn", "range", "put", "once", "wait", "woken", "close", "end"}]
  /\ hold \in [Worker -> RowNo \union {None}]
  /\ once \in {"free", "busy", "done"}
  /\ wg = Cardinality({w \in Worker : conv[w] \in {"range", "put"}})
  /\ grp \in [Worker -> {"unborn", "range", "put", "end"}]
  /\ grpHold \in [Worker -> RowNo \union {None}]
  /\ groups \in [Keys -> SUBSET RowNo]
  /\ visited \subseteq Keys
  /\ dec \in [Worker -> {"unborn", "range", "put", "end"}]
  /\ decHold \in [Worker -> SUBSET RowNo]
  /\ main \in {"spawn", "group", "intersect", "done"}
  /\ crash \in {"none", "RecvFailed", "SendOnClosed", "DecryptFailed",
                "WaitGroupReused"}

(* The number of places where row i is on its way through the pools.       *)
Holders(i) == Cardinality({n \in DOMAIN inRowApi : inRowApi[n] = i})
            + Cardinality({w \in Worker : hold[w] = i})
            + Cardinality({n \in DOMAIN inRows : inRows[n] = i})
            + Cardinality({w \in Worker : grpHold[w] = i})
            + Cardinality({k \in Keys : i \in groups[k]})

(* No downloaded row is lost or processed twice between the reader and the *)
(* groups, whatever the interleaving of the two pools, and no row reaches  *)
(* the group of another pseudonym.                                         *)
EveryRowOnce ==
  crash = "none" =>
     /\ \A i \in RowNo : Holders(i) = IF i <= rc THEN 1 ELSE 0
     /\ \A k \in Keys : \A i \in groups[k] : Stream[i].key = k

(* inRows is closed by the first converter that ends, while others may     *)
(* still hold a row or may not even have been started: no converter ever   *)
(* sends on it after its close, and no group fails to decrypt.             *)
NeverPanics == crash \notin {"SendOnClosed", "DecryptFailed"}

(* The receiver keeps the protocol's promise: what it writes is the join   *)
(* of the tables that the helper's rows stand for, and it writes it once.  *)
TableOf == [c \in Client |->
              LET its == {i \in RowNo : Sources[Stream[i].src] = c}
              IN  [k \in {Stream[i].key : i \in its} |->
                     Stream[CHOOSE i \in its : Stream[i].key = k].val]]

Promise == INSTANCE PrivateJoin WITH
              out <- IF main = "done" THEN joined ELSE Unpublished

JoinSpec == Promise!Spec

(* The receiver ends: the pools, the WaitGroup and the Once never wait for *)
(* each other for ever.  It writes its result, loses its connection, or    *)
(* panics in wg.Wait (see ExitsCleanly).                                   *)
EventuallyEnds == <>(main = "done" \/ crash \in {"RecvFailed", "WaitGroupReused"})

(* What the experiments check of a receiver whose helper did not fail: its *)
(* exit code is 0.  It is not when the rows are all decoded before main    *)
(* has started its last converter: wg.Add then meets a wg.Wait that has    *)
(* been woken but has not returned.                                        *)
ExitsCleanly == crash = "none"
=============================================================================
