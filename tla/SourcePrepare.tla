--------------------------- MODULE SourcePrepare ---------------------------
(***************************************************************************)
(* A data source encrypting its table (PrepareStream in                    *)
(* src/mppj-go/party_datasource.go) and its two users: Prepare, which      *)
(* collects the encrypted rows in a slice, and the main function of        *)
(* cmd/source, which sends them to the helper.                             *)
(*                                                                         *)
(* A feeder goroutine puts the rows of the table, in a random order, into  *)
(* the buffered channel `rows'; a pool of workers encrypts them into the   *)
(* buffered channel `encRows'; the feeder closes that channel when the     *)
(* workers' WaitGroup is back to zero.                                     *)
(***************************************************************************)
EXTENDS Integers, FiniteSets, Sequences, Functions

CONSTANTS Uid,      \* the keys of the table
          MayFail,  \* the rows whose encryption may return an error
          Worker,   \* the goroutines of the pool
          Users,    \* who uses the rows: "Prepare" or "main"
          Reliable, \* the stream to the helper does not fail
          NoUid     \* "no row in hand"

ASSUME SourceAssumption ==
  /\ IsFiniteSet(Uid) /\ MayFail \subseteq Uid /\ NoUid \notin Uid
  /\ IsFiniteSet(Worker) /\ Worker # {}
  /\ Users \subseteq {"Prepare", "main"} /\ Reliable \in BOOLEAN

VARIABLES
  unfed,       \* rows the feeder has not put into `rows' yet
  rows,        \* the channel from the feeder to the workers
  rowsClosed,  \* it is closed
  pool, task,  \* where each worker is, and the row it has
  wg,          \* the workers' WaitGroup
  encRows,     \* the channel from the workers to the user
  encClosed,   \* it is closed
  out,         \* the encrypted rows the user has taken, in order
  who,         \* the user of this execution
  user         \* where the user is

vars == <<unfed, rows, rowsClosed, pool, task, wg, encRows, encClosed, out, who, user>>

(* wg.Wait() of the feeder returns.  The mutant does not wait.             *)
NoWait(n) == TRUE
AllDone(n) == n = 0

(* for task := range rows.  The mutant peeks at the channel.               *)
Peeked(ch) == ch
Received(ch) == Tail(ch)

(* wg.Done() at the end of a worker.  The mutant forgets it.               *)
NotDone(n) == n
Done(n) == n - 1

(* wg.Add(1) for every worker.  The mutant forgets it.                     *)
NotCounted == 0
Counted == Cardinality(Worker)

(* The check at the end of Prepare.                                        *)
CountMatches(n) == n = Cardinality(Uid)

Init ==
  /\ unfed = Uid
  /\ rows = <<>> /\ rowsClosed = FALSE
  /\ pool = [w \in Worker |-> "range"] /\ task = [w \in Worker |-> NoUid]
  /\ wg = Counted
  /\ encRows = <<>> /\ encClosed = FALSE
  /\ out = <<>>
  /\ who \in Users /\ user = "range"

-----------------------------------------------------------------------------
(* The feeder: `rows' has room for the whole table.                        *)

Feed(u) ==
  /\ u \in unfed
  /\ unfed' = unfed \ {u}
  /\ rows' = Append(rows, u)
  /\ UNCHANGED <<rowsClosed, pool, task, wg, encRows, encClosed, out, who, user>>

FeedClose ==
  /\ unfed = {} /\ ~rowsClosed
  /\ rowsClosed' = TRUE
  /\ UNCHANGED <<unfed, rows, pool, task, wg, encRows, encClosed, out, who, user>>

FeedWait ==
  /\ rowsClosed /\ AllDone(wg) /\ ~encClosed
  /\ encClosed' = TRUE
  /\ UNCHANGED <<unfed, rows, rowsClosed, pool, task, wg, encRows, out, who, user>>

-----------------------------------------------------------------------------
(* A worker.                                                               *)

Take(w) ==
  /\ pool[w] = "range" /\ rows # <<>>
  /\ task' = [task EXCEPT ![w] = Head(rows)]
  /\ rows' = Received(rows)
  /\ pool' = [pool EXCEPT ![w] = "encrypt"]
  /\ UNCHANGED <<unfed, rowsClosed, wg, encRows, encClosed, out, who, user>>

(* The row is encrypted and put into encRows, which has room for all.      *)
Encrypt(w) ==
  /\ pool[w] = "encrypt"
  /\ encRows' = Append(encRows, task[w])
  /\ task' = [task EXCEPT ![w] = NoUid]
  /\ pool' = [pool EXCEPT ![w] = "range"]
  /\ UNCHANGED <<unfed, rows, rowsClosed, wg, encClosed, out, who, user>>

(* The encryption fails (no point for the value): the worker returns       *)
(* without wg.Done().                                                      *)
EncryptErr(w) ==
  /\ pool[w] = "encrypt" /\ task[w] \in MayFail
  /\ task' = [task EXCEPT ![w] = NoUid]
  /\ pool' = [pool EXCEPT ![w] = "returned"]
  /\ UNCHANGED <<unfed, rows, rowsClosed, wg, encRows, encClosed, out, who, user>>

WorkerEnd(w) ==
  /\ pool[w] = "range" /\ rows = <<>> /\ rowsClosed
  /\ wg' = Done(wg)
  /\ pool' = [pool EXCEPT ![w] = "end"]
  /\ UNCHANGED <<unfed, rows, rowsClosed, task, encRows, encClosed, out, who, user>>

-----------------------------------------------------------------------------
(* The user of the encrypted rows.                                         *)

(* Prepare stores the row; main sends it.                                  *)
Use ==
  /\ user = "range" /\ encRows # <<>>
  /\ out' = Append(out, Head(encRows))
  /\ encRows' = Tail(encRows)
  /\ UNCHANGED <<unfed, rows, rowsClosed, pool, task, wg, encClosed, who, user>>

(* Prepare compares the number of rows; main closes its side of the stream *)
(* and waits for the helper's answer.                                      *)
UseEnd ==
  /\ user = "range" /\ encRows = <<>> /\ encClosed
  /\ user' = IF who = "main" \/ CountMatches(Len(out)) THEN "ok" ELSE "err"
  /\ UNCHANGED <<unfed, rows, rowsClosed, pool, task, wg, encRows, encClosed, out, who>>

(* A send fails, or the helper answers with an error: main is fatal.       *)
StreamErr ==
  /\ user = "range" /\ who = "main" /\ ~Reliable
  /\ user' = "err"
  /\ UNCHANGED <<unfed, rows, rowsClosed, pool, task, wg, encRows, encClosed, out, who>>

-----------------------------------------------------------------------------
Feeder == (\E u \in Uid : Feed(u)) \/ FeedClose \/ FeedWait

WorkerStep(w) == Take(w) \/ Encrypt(w) \/ EncryptErr(w) \/ WorkerEnd(w)

UserStep == Use \/ UseEnd

Next == Feeder \/ (\E w \in Worker : WorkerStep(w)) \/ UserStep \/ StreamErr

Spec == Init /\ [][Next]_vars

(* The Go scheduler runs every goroutine that can run.                     *)
FairSpec == /\ Spec
            /\ WF_vars(Feeder) /\ WF_vars(UserStep)
            /\ \A w \in Worker : WF_vars(WorkerStep(w))

-----------------------------------------------------------------------------
(* The type invariant; a worker that has a row is encrypting it.           *)
TypeOK ==
  /\ unfed \subseteq Uid
  /\ rows \in Seq(Uid) /\ encRows \in Seq(Uid) /\ out \in Seq(Uid)
  /\ rowsClosed \in BOOLEAN /\ encClosed \in BOOLEAN
  /\ pool \in [Worker -> {"range", "encrypt", "returned", "end"}]
  /\ task \in [Worker -> Uid \union {NoUid}]
  /\ \A w \in Worker : pool[w] = "encrypt" <=> task[w] # NoUid
  /\ wg \in 0 .. Cardinality(Worker)
  /\ who \in Users /\ user \in {"range", "ok", "err"}

(* Every row of the table goes through the pool once: it is in exactly one *)
(* place, or it is the row on which a worker has failed.                   *)
Places(u) == Cardinality(unfed \intersect {u})
           + Cardinality({n \in DOMAIN rows : rows[n] = u})
           + Cardinality({w \in Worker : task[w] = u})
           + Cardinality({n \in DOMAIN encRows : encRows[n] = u})
           + Cardinality({n \in DOMAIN out : out[n] = u})

Failed == {w \in Worker : pool[w] = "returned"}

EveryRowOnce ==
  /\ \A u \in Uid : Places(u) = 1 \/ (u \in MayFail /\ Places(u) = 0)
  /\ Cardinality({u \in Uid : Places(u) = 0}) = Cardinality(Failed)

(* The channel of encrypted rows is closed after the last of them: a user  *)
(* that sees it closed, and succeeds, has the whole table, so main ends    *)
(* the stream to the helper with every row sent.                           *)
WholeTable == user = "ok" => Range(out) = Uid

(* Unless an encryption fails, feeder, pool and user never wait for each   *)
(* other for ever: the user gets to the end of the rows, or to an error.   *)
(* (A worker that fails leaves the WaitGroup raised, and the feeder, and   *)
(* so the user, wait for ever.)                                            *)
EndsUnlessFailed == <>(user # "range" \/ Failed # {})
=============================================================================
