------------------------------- MODULE System -------------------------------
(***************************************************************************)
(* The deployed system: the helper process of HelperServer, the receiver   *)
(* process behind each PullRows call (src/mppj-go/cmd/receiver/main.go),   *)
(* the connections between them, and an environment that may kill the      *)
(* helper.  A source process is the client of one PushRows call and has no *)
(* state that its handler does not show: it is answered, or it fails.      *)
(*                                                                         *)
(* Rows are in flight between the handler's Send and the receiver's Recv.  *)
(* A receiver that has all the announced rows closes the connection, which *)
(* is what the helper waits for, and joins the rows (ReceiverPipeline has  *)
(* that in detail); one that cannot get them all ends without a result.    *)
(***************************************************************************)
EXTENDS HelperServer

CONSTANTS Mortal,       \* the helper process may be killed
          Unpublished   \* no result has been written

ASSUME MortalAssumption == Mortal \in BOOLEAN

VARIABLES killed,  \* the helper was killed
          rcv,     \* the number of rows each receiver has got
          rec,     \* where each receiver process is
          out      \* the results the receivers have written, in order

recVars == <<rcv, rec, out>>
sysVars == <<vars, killed, recVars>>

(* The helper answers.                                                     *)
Up == Running /\ ~killed

(* The stream of receiver q ends in an error: its connection is broken, or *)
(* the helper is gone or no longer accepts its call.                       *)
Severed(q) == q \in gone \/ ~Up \/ (qpc[q] = "new" /\ ~Serving)

(* The rows of one uid that receiver q has got, which share their          *)
(* pseudonym: the helper sends its table from the first position on.       *)
Group(q, u) == {k \in Slot : k < rcv[q] /\ RowAt(k)[2] = u}

(* len(group) == len(r.sourceIDs).                                         *)
Joinable(rows) == Cardinality(rows) = Len(Sources)

(* The helper numbers the rows of a source by the last position of its id  *)
(* in Sources, the one that stays in the map.                              *)
Numbered(c, i) == Sources[i] = c /\ \A j \in DOMAIN Sources : Sources[j] = c => j <= i

(* The hints of a group unmask it exactly if it has a row for each         *)
(* position of Sources (MaskedJoin); the receiver panics otherwise.  If an *)
(* id is given twice, no group has.  The mutant goes on anyhow.            *)
OpensAnyhow(rows) == TRUE
Opens(rows) == \A i \in DOMAIN Sources : \E k \in rows : Numbered(RowAt(k)[1], i)

Complete(q) == {u \in Uid : Joinable(Group(q, u))}

(* No source id is given twice (SourceList.Set does not look).             *)
DistinctIds == \A i, j \in DOMAIN Sources : Sources[i] = Sources[j] => i = j

(* What q makes of the rows it has got, all of them or not; the value of   *)
(* source c for key u stands for itself.                                   *)
JoinedRows(q) == {<<u, [c \in Client |-> <<c, u>>]>> : u \in Complete(q)}

(* rc >= numRows.  The mutant compares before it counts.                   *)
AllButOneReceived(q) == rcv[q] + 1 = Cap
AllReceivedBy(q) == rcv[q] = Cap

SysInit == /\ Init
           /\ killed = FALSE
           /\ rcv = [q \in PullRPC |-> 0]
           /\ rec = [q \in PullRPC |-> "run"]
           /\ out = <<>>

-----------------------------------------------------------------------------
(* The environment: the helper takes its own steps until it is killed, and *)
(* a receiver's connection may be lost.                                    *)
Alive(step) == ~killed /\ step /\ UNCHANGED <<killed, recVars>>

ConnectionLost(q) == Alive(ReceiverLost(q))

KillHelper ==
  /\ Mortal /\ Up
  /\ killed' = TRUE
  /\ UNCHANGED <<vars, recVars>>

-----------------------------------------------------------------------------
(* A receiver process.                                                     *)

(* A row that was sent arrives; it may do so after the connection broke.   *)
RecvRow(q) ==
  /\ rec[q] = "run" /\ rcv[q] < next[q]
  /\ rcv' = [rcv EXCEPT ![q] = @ + 1]
  /\ UNCHANGED <<vars, killed, rec, out>>

(* The announced number of rows is there: the connection is closed.        *)
RecvAll(q) ==
  /\ rec[q] = "run" /\ AllReceivedBy(q)
  /\ rec' = [rec EXCEPT ![q] = "join"]
  /\ \/ ReceiverClose(q)
     \/ (q \in gone \/ ~Up) /\ UNCHANGED vars
  /\ UNCHANGED <<killed, rcv, out>>

(* PullRows, Header or Recv returns an error: log.Fatal.                   *)
RecvFails(q) ==
  /\ rec[q] = "run" /\ rcv[q] < Cap
  /\ Severed(q)
  /\ rec' = [rec EXCEPT ![q] = "failed"]
  /\ UNCHANGED <<vars, killed, rcv, out>>

(* JoinTablesStream, and the result is written.  (How the receiver's own   *)
(* goroutines may crash on the way is in ReceiverPipeline: ExitsCleanly.)  *)
JoinTables(q) ==
  /\ rec[q] = "join"
  /\ \A u \in Complete(q) : Opens(Group(q, u))
  /\ rec' = [rec EXCEPT ![q] = "ok"]
  /\ out' = Append(out, JoinedRows(q))
  /\ UNCHANGED <<vars, killed, rcv>>

(* A group of the right size that lacks a source: decryptGroup panics.     *)
JoinPanics(q) ==
  /\ rec[q] = "join"
  /\ \E u \in Complete(q) : ~Opens(Group(q, u))
  /\ rec' = [rec EXCEPT ![q] = "panicked"]
  /\ UNCHANGED <<vars, killed, rcv, out>>

ReceiverStep(q) == \/ RecvRow(q) \/ RecvAll(q) \/ RecvFails(q)
                   \/ JoinTables(q) \/ JoinPanics(q)

-----------------------------------------------------------------------------
SysNext == \/ \E p \in PushRPC : Alive(PushStep(p))
           \/ \E w \in Worker : Alive(WorkerStep(w))
           \/ Alive(EmitStep)
           \/ \E q \in PullRPC : Alive(PullStep(q))
           \/ Alive(MainStep)
           \/ \E q \in PullRPC : ReceiverStep(q) \/ ConnectionLost(q)
           \/ KillHelper

SysSpec == SysInit /\ [][SysNext]_sysVars

(* Every goroutine and every process runs, and every client makes its      *)
(* call.  Nothing makes a connection break or the helper die.              *)
SysFairness == /\ \A p \in PushRPC : WF_sysVars(Alive(PushStep(p)))
               /\ \A w \in Worker : WF_sysVars(Alive(WorkerStep(w)))
               /\ WF_sysVars(Alive(EmitStep))
               /\ \A q \in PullRPC : /\ WF_sysVars(Alive(PullStep(q)))
                                     /\ WF_sysVars(ReceiverStep(q))
               /\ WF_sysVars(Alive(MainStep))

FairSysSpec == SysSpec /\ SysFairness

-----------------------------------------------------------------------------
(* The type invariant of what System adds: no receiver has more rows than  *)
(* were sent to it, and one that stopped reading by itself has them all.   *)
SysTypeOK ==
  /\ killed \in BOOLEAN
  /\ rcv \in [PullRPC -> 0 .. Cap]
  /\ rec \in [PullRPC -> {"run", "join", "ok", "panicked", "failed"}]
  /\ \A q \in PullRPC : /\ rcv[q] <= next[q]
                        /\ rec[q] \in {"join", "ok", "panicked"} => rcv[q] = Cap

(* The system keeps the protocol's promise when the tables have the        *)
(* announced size: whatever breaks, dies or is tried again, at most one    *)
(* result is ever written, and it is the plain join of the tables.         *)
Published == IF out = <<>> THEN Unpublished
             ELSE IF Len(out) = 1 THEN out[1] ELSE out

Promise == INSTANCE PrivateJoin WITH
             TableOf <- [c \in Client |-> [u \in Table[c] |-> <<c, u>>]],
             out <- Published

JoinSpec == Promise!Spec

(* With tables of any size and sources that connect again, a table that is *)
(* too short may be filled up by rows that came twice, and the receiver    *)
(* then misses rows of the join or panics; but it never writes a row that  *)
(* is not in the join.                                                     *)
OnlyPlainRows == \A i \in DOMAIN out : out[i] \subseteq Promise!Join

(* The helper does not signal its end, and then cut the connection, before *)
(* the receiver it serves has all its rows.  (A receiver whose connection  *)
(* breaks after the last Send cannot be told from one that closes it.)     *)
NoEarlyShutdown ==
  stop => \E q \in PullRPC : qpc[q] = "ok" /\ (rcv[q] = Cap \/ q \in Breakable)

(* With one call per source and tables of the announced size, no panic of  *)
(* the helper's handlers or of a receiver's decryption is reachable,       *)
(* whatever breaks or dies and however many receivers connect.             *)
NoPanic == crash = "none" /\ \A q \in PullRPC : rec[q] # "panicked"

(* If besides nothing breaks or dies and there is one receiver, it writes  *)
(* its result and the helper shuts down: handlers, workers, channels,      *)
(* streams and the two processes never wait for each other for ever.       *)
EventuallyServed == <>(main = "exit" /\ \A q \in PullRPC : rec[q] = "ok")

(* A helper that was neither killed nor panicked may run for ever, for one *)
(* of three reasons only: every call of some expected source has failed;   *)
(* the one table went to a receiver that was lost; or GracefulStop waits   *)
(* for a PullRows call that waits for a second table.                      *)
SourceMissing == \E c \in expected : \A p \in PushRPC : SrcOf[p] = c => ppc[p] = "err"
TableSpent    == \E q \in PullRPC : qpc[q] = "err" /\ emitted /\ ~convTables
SecondWaits   == main = "drain" /\ \E q \in PullRPC : qpc[q] = "wait"

WaitsOnlyFor == <>(~Up \/ SourceMissing \/ TableSpent \/ SecondWaits)
=============================================================================
