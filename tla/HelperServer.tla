---------------------------- MODULE HelperServer ----------------------------
(***************************************************************************)
(* The helper process of the multi-party private join                      *)
(* (src/mppj-go/cmd/helper/main.go and party_helper.go).                   *)
(*                                                                         *)
(* Every source streams its encrypted table into one PushRows call; the    *)
(* handlers hand the rows over an unbuffered channel to a pool of          *)
(* conversion workers, which store them at permuted positions of one       *)
(* output table.  When the last expected source has finished, its handler  *)
(* closes the channel, the workers drain, and the table goes through a     *)
(* one-place channel to whichever PullRows handler takes it first.  The    *)
(* main goroutine waits for `start', then for `stop', then shuts down.     *)
(*                                                                         *)
(* Encryption is abstract here: a converted row is identified by the call  *)
(* it arrived on and its uid (the crypto has a module of its own).         *)
(***************************************************************************)
EXTENDS Integers, FiniteSets, Sequences, Functions

CONSTANTS Sources,    \* the -sources flag: a sequence of source ids
          Table,      \* Table[c] : the uids of the table of source c
          NRows,      \* the -nrows flag: rows per source
          RowPerm,    \* rand.Perm: the output position of the k-th row
          PushRPC,    \* the PushRows calls of an execution
          SrcOf,      \* SrcOf[p] : the source id in the metadata of call p
          PullRPC,    \* the PullRows calls of an execution
          Worker,     \* the conversion workers
          Breakable,  \* the calls whose connection may fail
          NoID,       \* the metadata carries no source id
          NoRow       \* the zero value of a row; "no row in hand"

Client == Range(Sources)
Uid    == UNION {Table[c] : c \in Client}
Row    == [push : PushRPC, uid : Uid]
Cap    == NRows * Len(Sources)
Slot   == 0 .. Cap - 1

(* What main checks of its flags (no check that the ids are distinct), and *)
(* what the environment of the process is.                                 *)
ASSUME FlagsAssumption ==
  /\ Sources \in Seq(Client) /\ Len(Sources) >= 2
  /\ NRows \in Nat \ {0}

ASSUME CallAssumption ==
  /\ NoID \notin Client
  /\ PushRPC \intersect PullRPC = {}
  /\ Breakable \subseteq PushRPC \union PullRPC
  /\ Worker # {} /\ IsFiniteSet(Worker)
  /\ NoRow \notin Row

ASSUME TableAssumption == IsFiniteSet(Uid)

ASSUME PermAssumption ==
  /\ RowPerm \in [Slot -> Slot]
  /\ \A i, j \in Slot : RowPerm[i] = RowPerm[j] => i = j

VARIABLES
  expected,    \* sources whose table is not complete yet (a map's key set)
  closed,      \* the incomingEncRows channel is closed
  ppc,         \* where each PushRows handler is
  cur,         \* the row each PushRows handler has just received
  got,         \* the uids each PushRows handler has received so far
  work,        \* the row each conversion worker is converting
  alive,       \* the workers still ranging over the channel
  res,         \* the output table under construction
  permIndex,   \* the number of rows stored in it
  emitted,     \* the conversion goroutine has sent the table to convTables
  convTables,  \* the one-place channel convTables holds the table
  qpc,         \* where each PullRows handler is
  next,        \* the number of rows each PullRows handler has sent
  gone,        \* PullRows calls whose client has closed or died
  start, stop, \* the channels `start' and `stop' are closed
  main,        \* where the main goroutine is
  crash        \* "none", or the panic that ended the process

pushVars == <<expected, closed, ppc, cur, got, start>>
convVars == <<work, alive, res, permIndex, emitted>>
pullVars == <<convTables, qpc, next, gone, stop>>
vars     == <<pushVars, convVars, pullVars, main, crash>>

-----------------------------------------------------------------------------
(* State of the process, as predicates and expressions the actions use.    *)

(* The process runs: no goroutine has panicked and main has not returned.  *)
(* Each step below is one of a running process.                            *)
Running == crash = "none" /\ main # "exit"

(* The server accepts new calls: GracefulStop has not been called.         *)
Serving == main \in {"start", "stop", "linger"}

(* A handler is running (GracefulStop waits until none is).                *)
Active == \/ \E p \in PushRPC : ppc[p] \in {"recv", "give", "reply", "finish"}
          \/ \E q \in PullRPC : qpc[q] \in {"wait", "send"}

(* What stream.Recv may still return to call p: its source iterates a map, *)
(* so its rows come in any order.                                          *)
Unsent(p) == Table[SrcOf[p]] \ got[p]

(* The row decoded from the message with uid u on call p.  The mutant      *)
(* forgets to return when the decoding failed and goes on with a zero row. *)
ReceivedUnchecked(p, u) == NoRow
Received(p, u) == [push |-> p, uid |-> u]

(* stream.Recv returns io.EOF.  The mutant takes any end for an EOF.       *)
EndedAnyhow(p) == TRUE
Ended(p) == Unsent(p) = {}

(* delete(expected, c).  The mutant forgets it.                            *)
KeptExpected(c) == expected
StillExpected(c) == expected \ {c}

(* len(expected) == 0.  The mutant closes the channel one table early.     *)
ReceivedAllButOne(rest) == Cardinality(rest) <= 1
AllReceived(rest) == rest = {}

(* permIndex++.  The mutant forgets it.                                    *)
NotAdvanced(k) == k
Advanced(k) == k + 1

(* wg.Wait() returns.  The mutant waits for the channel to close instead.  *)
ChannelClosed == closed
WorkersDone == alive = {}

(* GetEncRowWithHintMsg panics on the zero value of a row (its points are  *)
(* nil).  The mutant sends the zero row.                                   *)
NeverMissing(row) == FALSE
Missing(row) == row = NoRow

(* A send fails once the client is gone: the handler returns there and     *)
(* `stop' stays open.  One mutant closes `stop' whenever the client goes,  *)
(* the other does not wait for it to go.                                   *)
ClientGone(q) == q \in gone
AllSent(q) == next[q] = Cap
ClosedByReceiver(q) == q \in gone /\ next[q] = Cap

-----------------------------------------------------------------------------
Init == /\ expected = Client
        /\ closed = FALSE
        /\ ppc = [p \in PushRPC |-> "new"]
        /\ cur = [p \in PushRPC |-> NoRow]
        /\ got = [p \in PushRPC |-> {}]
        /\ start = FALSE
        /\ work = [w \in Worker |-> NoRow]
        /\ alive = Worker
        /\ res = [k \in Slot |-> NoRow]
        /\ permIndex = 0
        /\ emitted = FALSE
        /\ convTables = FALSE
        /\ qpc = [q \in PullRPC |-> "new"]
        /\ next = [q \in PullRPC |-> 0]
        /\ gone = {}
        /\ stop = FALSE
        /\ main = "start"
        /\ crash = "none"

-----------------------------------------------------------------------------
(* PushRows, the handler of a source's stream.                             *)

(* A call without an id, with an unknown one, or from a source whose table *)
(* is already complete is refused.                                         *)
PushReject(p) ==
  /\ Serving
  /\ ppc[p] = "new"
  /\ SrcOf[p] \notin expected
  /\ ppc' = [ppc EXCEPT ![p] = "err"]
  /\ UNCHANGED <<expected, closed, cur, got, start, convVars, pullVars, main, crash>>

(* The id is expected: nothing checks that no other call has the same id.  *)
PushOpen(p) ==
  /\ Serving
  /\ ppc[p] = "new"
  /\ SrcOf[p] \in expected
  /\ ppc' = [ppc EXCEPT ![p] = "recv"]
  /\ start' = TRUE
  /\ UNCHANGED <<expected, closed, cur, got, convVars, pullVars, main, crash>>

Recv(p) ==
  /\ ppc[p] = "recv"
  /\ \E u \in Unsent(p) :
        /\ cur' = [cur EXCEPT ![p] = Received(p, u)]
        /\ got' = [got EXCEPT ![p] = @ \union {u}]
  /\ ppc' = [ppc EXCEPT ![p] = "give"]
  /\ UNCHANGED <<expected, closed, start, convVars, pullVars, main, crash>>

RecvEOF(p) ==
  /\ ppc[p] = "recv"
  /\ Ended(p)
  /\ ppc' = [ppc EXCEPT ![p] = "reply"]
  /\ UNCHANGED <<expected, closed, cur, got, start, convVars, pullVars, main, crash>>

(* The connection breaks, or a message does not decode: the handler        *)
(* returns and the source stays expected.                                  *)
RecvErr(p) ==
  /\ p \in Breakable
  /\ ppc[p] = "recv"
  /\ ppc' = [ppc EXCEPT ![p] = "err"]
  /\ UNCHANGED <<expected, closed, cur, got, start, convVars, pullVars, main, crash>>

(* The unbuffered send meets a worker that is ready to receive.            *)
Give(p, w) ==
  /\ ppc[p] = "give" /\ ~closed
  /\ w \in alive /\ work[w] = NoRow
  /\ work' = [work EXCEPT ![w] = cur[p]]
  /\ cur' = [cur EXCEPT ![p] = NoRow]
  /\ ppc' = [ppc EXCEPT ![p] = "recv"]
  /\ UNCHANGED <<expected, closed, got, start, alive, res, permIndex, emitted,
                 pullVars, main, crash>>

(* A send on a closed channel panics, and the panic ends the process.      *)
GiveClosed(p) ==
  /\ ppc[p] = "give" /\ closed
  /\ crash' = "SendOnClosed"
  /\ UNCHANGED <<pushVars, convVars, pullVars, main>>

(* SendAndClose answers the source before its table is recorded.           *)
Reply(p) ==
  /\ ppc[p] = "reply"
  /\ ppc' = [ppc EXCEPT ![p] = "finish"]
  /\ UNCHANGED <<expected, closed, cur, got, start, convVars, pullVars, main, crash>>

ReplyErr(p) ==
  /\ p \in Breakable
  /\ ppc[p] = "reply"
  /\ ppc' = [ppc EXCEPT ![p] = "err"]
  /\ UNCHANGED <<expected, closed, cur, got, start, convVars, pullVars, main, crash>>

(* Under the mutex: the source is recorded, and the last one closes the    *)
(* channel.  Two calls of one source may both get here; closing twice      *)
(* panics.                                                                 *)
Finish(p) ==
  /\ ppc[p] = "finish"
  /\ LET rest == StillExpected(SrcOf[p]) IN
        /\ expected' = rest
        /\ closed' = (closed \/ AllReceived(rest))
        /\ crash' = IF closed /\ AllReceived(rest)
                    THEN "CloseOfClosed" ELSE crash
  /\ ppc' = [ppc EXCEPT ![p] = "ok"]
  /\ UNCHANGED <<cur, got, start, convVars, pullVars, main>>

-----------------------------------------------------------------------------
(* ConvertTablesStream: the workers and the goroutine that runs them.      *)

(* Under the mutex: the converted row goes to its permuted position.       *)
Insert(w) ==
  /\ work[w] # NoRow
  /\ permIndex < Cap
  /\ res' = [res EXCEPT ![RowPerm[permIndex]] = work[w]]
  /\ permIndex' = Advanced(permIndex)
  /\ work' = [work EXCEPT ![w] = NoRow]
  /\ UNCHANGED <<pushVars, alive, emitted, pullVars, main, crash>>

(* More rows than nRows * len(sources): the worker panics.                 *)
InsertFull(w) ==
  /\ work[w] # NoRow
  /\ permIndex >= Cap
  /\ crash' = "MoreRowsThanExpected"
  /\ UNCHANGED <<pushVars, convVars, pullVars, main>>

(* The channel is closed and this worker holds no row: its loop ends.      *)
WorkerExit(w) ==
  /\ w \in alive /\ work[w] = NoRow /\ closed
  /\ alive' = alive \ {w}
  /\ UNCHANGED <<pushVars, work, res, permIndex, emitted, pullVars, main, crash>>

(* wg.Wait() returns and the table goes into convTables, which has room:   *)
(* nothing else sends there.                                               *)
Emit ==
  /\ WorkersDone /\ ~emitted
  /\ emitted' = TRUE
  /\ convTables' = TRUE
  /\ UNCHANGED <<pushVars, work, alive, res, permIndex, qpc, next, gone, stop, main, crash>>

-----------------------------------------------------------------------------
(* PullRows, the handler of the receiver's stream, and its client.         *)

PullOpen(q) ==
  /\ Serving
  /\ qpc[q] = "new"
  /\ qpc' = [qpc EXCEPT ![q] = "wait"]
  /\ UNCHANGED <<pushVars, convVars, convTables, next, gone, stop, main, crash>>

(* The receive on convTables does not look at the stream's context: a call *)
(* whose client is gone takes the table like any other.                    *)
PullTake(q) ==
  /\ qpc[q] = "wait" /\ convTables
  /\ convTables' = FALSE
  /\ qpc' = [qpc EXCEPT ![q] = "send"]
  /\ UNCHANGED <<pushVars, convVars, next, gone, stop, main, crash>>

PullSend(q) ==
  /\ qpc[q] = "send" /\ next[q] < Cap
  /\ ~Missing(res[next[q]])
  /\ next' = [next EXCEPT ![q] = @ + 1]
  /\ UNCHANGED <<pushVars, convVars, convTables, qpc, gone, stop, main, crash>>

PullSendMissing(q) ==
  /\ qpc[q] = "send" /\ next[q] < Cap
  /\ Missing(res[next[q]])
  /\ crash' = "NilPointer"
  /\ UNCHANGED <<pushVars, convVars, pullVars, main>>

(* SetHeader or Send fails: the client is gone.  `stop' stays open.        *)
PullErr(q) ==
  /\ qpc[q] = "send" /\ next[q] < Cap
  /\ q \in gone
  /\ qpc' = [qpc EXCEPT ![q] = "err"]
  /\ UNCHANGED <<pushVars, convVars, convTables, next, gone, stop, main, crash>>

(* <-stream.Context().Done(), then close(stop).                            *)
PullDone(q) ==
  /\ qpc[q] = "send"
  /\ ClosedByReceiver(q)
  /\ stop' = TRUE
  /\ crash' = IF stop THEN "CloseOfClosed" ELSE crash
  /\ qpc' = [qpc EXCEPT ![q] = "ok"]
  /\ UNCHANGED <<pushVars, convVars, convTables, next, gone, main>>

(* The receiver has all the rows and closes its connection.                *)
ReceiverClose(q) ==
  /\ Running
  /\ qpc[q] = "send" /\ next[q] = Cap
  /\ q \notin gone
  /\ gone' = gone \union {q}
  /\ UNCHANGED <<pushVars, convVars, convTables, qpc, next, stop, main, crash>>

(* The receiver dies, or its connection breaks, before that.               *)
ReceiverLost(q) ==
  /\ Running
  /\ q \in Breakable \ gone
  /\ qpc[q] \in {"wait", "send"}
  /\ gone' = gone \union {q}
  /\ UNCHANGED <<pushVars, convVars, convTables, qpc, next, stop, main, crash>>

-----------------------------------------------------------------------------
(* The main goroutine.                                                     *)

MainStart ==
  /\ main = "start" /\ start
  /\ main' = "stop"
  /\ UNCHANGED <<pushVars, convVars, pullVars, crash>>

MainStop ==
  /\ main = "stop" /\ stop
  /\ main' = "linger"
  /\ UNCHANGED <<pushVars, convVars, pullVars, crash>>

(* One second later GracefulStop is called: no new call is accepted.       *)
MainDrain ==
  /\ main = "linger"
  /\ main' = "drain"
  /\ UNCHANGED <<pushVars, convVars, pullVars, crash>>

(* GracefulStop returns when no handler runs any more.                     *)
MainExit ==
  /\ main = "drain" /\ ~Active
  /\ main' = "exit"
  /\ UNCHANGED <<pushVars, convVars, pullVars, crash>>

-----------------------------------------------------------------------------
PushStep(p) == /\ Running
               /\ \/ PushReject(p) \/ PushOpen(p)
                  \/ Recv(p) \/ RecvEOF(p) \/ RecvErr(p)
                  \/ (\E w \in Worker : Give(p, w)) \/ GiveClosed(p)
                  \/ Reply(p) \/ ReplyErr(p) \/ Finish(p)

WorkerStep(w) == Running /\ (Insert(w) \/ InsertFull(w) \/ WorkerExit(w))

EmitStep == Running /\ Emit

PullStep(q) == /\ Running
               /\ \/ PullOpen(q) \/ PullTake(q)
                  \/ PullSend(q) \/ PullSendMissing(q) \/ PullErr(q) \/ PullDone(q)

MainStep == Running /\ (MainStart \/ MainStop \/ MainDrain \/ MainExit)

Next == \/ \E p \in PushRPC : PushStep(p)
        \/ \E w \in Worker : WorkerStep(w)
        \/ EmitStep
        \/ \E q \in PullRPC : PullStep(q) \/ ReceiverClose(q) \/ ReceiverLost(q)
        \/ MainStep

Spec == Init /\ [][Next]_vars

-----------------------------------------------------------------------------
(* The type invariant: every variable has its type, a handler that is      *)
(* about to hand a row over has decoded one, and the other handlers have   *)
(* none.                                                                   *)
TypeOK ==
  /\ expected \subseteq Client
  /\ closed \in BOOLEAN /\ start \in BOOLEAN /\ stop \in BOOLEAN
  /\ emitted \in BOOLEAN /\ convTables \in BOOLEAN
  /\ ppc \in [PushRPC -> {"new", "recv", "give", "reply", "finish", "ok", "err"}]
  /\ cur \in [PushRPC -> Row \union {NoRow}]
  /\ \A p \in PushRPC : ppc[p] = "give" <=> cur[p] # NoRow
  /\ got \in [PushRPC -> SUBSET Uid]
  /\ work \in [Worker -> Row \union {NoRow}]
  /\ alive \subseteq Worker
  /\ res \in [Slot -> Row \union {NoRow}]
  /\ permIndex \in 0 .. Cap
  /\ qpc \in [PullRPC -> {"new", "wait", "send", "ok", "err"}]
  /\ next \in [PullRPC -> 0 .. Cap]
  /\ gone \subseteq PullRPC
  /\ main \in {"start", "stop", "linger", "drain", "exit"}
  /\ crash \in {"none", "SendOnClosed", "CloseOfClosed",
                "MoreRowsThanExpected",
                "NilPointer"}

(* Where a row can be: in the hands of its handler, in a worker's, or at a *)
(* position of the output table.                                           *)
InHandler(r) == \E p \in PushRPC : cur[p] = r
InWorker(r)  == \E w \in Worker : work[w] = r
InTable(r)   == \E k \in Slot : res[k] = r

NothingLost ==
  \A r \in Row :
     r.uid \in got[r.push] <=> InHandler(r) \/ InWorker(r) \/ InTable(r)

NothingTwice ==
  \A r \in Row :
     /\ ~(InHandler(r) /\ InWorker(r))
     /\ ~(InHandler(r) /\ InTable(r))
     /\ ~(InWorker(r) /\ InTable(r))
     /\ \A w, x \in Worker : work[w] = r /\ work[x] = r => w = x
     /\ \A j, k \in Slot : res[j] = r /\ res[k] = r => j = k

(* No row is lost or duplicated on its way through the channel, the        *)
(* workers and the permuted table, whatever the schedule and the broken    *)
(* streams: a received row is in exactly one place, any other row in none. *)
RowsAccounted == NothingLost /\ NothingTwice

(* A table leaves the conversion only if for every source one call has     *)
(* carried that source's whole table into it.  Broken streams never count  *)
(* as complete, and the last worker has stored its row.                    *)
Stored(c, p) == /\ SrcOf[p] = c
                /\ \A u \in Table[c] :
                      \E k \in Slot : res[k] = [push |-> p, uid |-> u]

TableComplete ==
  emitted => \A c \in Client : \E p \in PushRPC : Stored(c, p)

(* The rows of all sources, and whether each source sends exactly the      *)
(* number of rows the helper was told.                                     *)
AllRows == {x \in Client \X Uid : x[2] \in Table[x[1]]}
FullTables == Cardinality(AllRows) = Cap

(* If the tables have the announced size, the helper is fail-stop: with    *)
(* streams broken, retried, or opened twice by one source, either no table *)
(* is emitted or it holds every row of every source exactly once and       *)
(* nothing else (no zero row).                                             *)
RowAt(k) == <<SrcOf[res[k].push], res[k].uid>>

ExactTable ==
  FullTables /\ emitted =>
     /\ \A k \in Slot : res[k] # NoRow /\ RowAt(k) \in AllRows
     /\ \A x \in AllRows : \E k \in Slot : RowAt(k) = x
     /\ \A j, k \in Slot : RowAt(j) = RowAt(k) => j = k

(* Every source makes one call (its stream may break).                     *)
OneCallEach == \A o, p \in PushRPC : SrcOf[o] = SrcOf[p] /\ SrcOf[p] \in Client => o = p

(* A receiver is never sent a row the table lacks, so the helper tells its *)
(* main goroutine that the receiver was served only when the table it sent *)
(* was full: if fewer rows came in than were announced, it panics instead. *)
ServedFull == stop => \A k \in Slot : res[k] # NoRow

(* The helper implements its promise: JoinRelay's recorded sources are     *)
(* those no longer expected, its delivered rows what was sent so far.      *)
Sent == [k \in {k \in 1 .. Cap : \E q \in PullRPC : k <= next[q]} |-> RowAt(k - 1)]

Relay == INSTANCE JoinRelay WITH
            Row <- AllRows, Total <- Cap,
            recorded <- Client \ expected, delivered <- Sent, over <- stop

RelaySpec == Relay!Spec

(* What the panic message of the conversion says cannot happen: more rows  *)
(* than expected.  A source that reconnects after a broken stream makes it *)
(* happen, because the rows of the broken stream stay in the table.        *)
NeverMoreRowsThanExpected == crash # "MoreRowsThanExpected"
=============================================================================
