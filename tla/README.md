# A TLA+ development of the multi-party private join

This directory specifies and verifies the protocol processes of the repository: the
helper, the receiver and the data sources of `mppj-go`, the system they form, the way a
value is encoded between them, the cryptography that a row goes through, and the plain
joins by which the tests and experiments judge the result. The specifications are
checked with TLC on small instances; every safety property that a passing run checks,
and the refinements of the promises by the helper, the receiver and the whole system, are
also proved with TLAPS for every value of the constants. Liveness is only model-checked.

Paths are relative to the repository; line numbers refer to it as well. `PROJECT.json`
lists, for every definition that models code, the lines it stands for.

## 1. The system

`n >= 2` **sources** hold tables from keys to values. A **receiver** is to learn the
inner join of the tables over the keys, but not the keys. A **helper** stands between
them, and is to learn nothing. The sources encrypt their rows for the receiver and
stream them to the helper; the helper re-encrypts every key to a pseudonym, masks every
value so that it can be opened only together with the rows of all the other sources,
shuffles the rows of all sources into one table, and streams that to the receiver; the
receiver groups the rows by pseudonym and opens the groups that have one row per source.

    source 1 --PushRows-->  +--------+
    source 2 --PushRows-->  | helper |  --PullRows-->  receiver --> join
    source n --PushRows-->  +--------+

### Components

| component | source | state it keeps | operations | module |
|---|---|---|---|---|
| helper server | `cmd/helper/main.go` | `expected`, the channels `incomingEncRows`, `convTables`, `start`, `stop` | `PushRows`, `PullRows`, `main` | `HelperServer` |
| helper conversion | `party_helper.go` | the output table, `permIndex`, the permutation, keys and masks | `ConvertTablesStream`, `Convert`, `ConvertRow` | `HelperServer` (the process), `MaskedJoin` (a row) |
| receiver | `cmd/receiver/main.go`, `party_receiver.go` | `inRowApi`, `inRows`, a `WaitGroup`, a `Once`, the groups, the join | download, decode, group by pseudonym, decrypt complete groups | `ReceiverPipeline` |
| data source | `party_datasource.go`, `cmd/source/main.go` | `rows`, `encRowsChan`, a `WaitGroup` | `PrepareStream`, `Prepare`, the sending loop | `SourcePrepare` |
| value encoding | `encryption.go`, `api/messages.go`, `readCSV` | none (pure), but a search with a counter | `pad`, `unpad`, `NewMessageFromBytes`, `GetMessageBytes`, the row messages | `ValueEncoding` |
| ElGamal, OPRF, masks | `encryption.go`, `prf.go`, `group.go`, `party_helper.go` | keys and mask shares | `PKEKeyGen`, `PKEEncrypt`, `OPRFEval`, `ReRand`, `blindAndHint`, `genNonces`, `decryptGroup` | `MaskedJoin`, `ExponentGroup` |
| the processes together | `cmd/helper`, `cmd/receiver` | the connections, the rows in flight | sending, receiving, closing, breaking, killing | `System` |
| table operations | `table.go` | `partJoin` while a join runs | `GenTestTables`, `IntersectSimple`, `Insert`, `EqualContents` | `ReferenceJoins`, `PrivateJoin` |
| test data generation | `mppj-exps/gen_data.py` | the tables | `generate_tables`, `postprocess_tables`, `join_tables` | `ReferenceJoins` |
| local demo, end-to-end test | `cmd/local`, `mppj_test.go` | none | generate, run the protocol, join in plain, compare | `ReferenceJoins` (generate and judge), `MaskedJoin` (the protocol in one process) |
| MP-SPDZ comparison | `mpspdz-exps/join*.mpc` | none | an oblivious join of fixed inputs | not modelled |
| orchestration, statistics | `mppj-exps/*.py`, `mpspdz-exps/main.py`, `api/netstats.go`, `cmd/common` | counters | start containers, collect numbers | not modelled: I/O |
| gRPC stubs | `api/pb` | none | generated | not modelled; the stream semantics the handlers rely on are in `HelperServer` and `System` |

### How they interact, and what is hard

*Inside the helper* there are, at the same time: one handler goroutine per `PushRows`
call, a pool of conversion workers behind an unbuffered channel, the goroutine that
collects the converted table and puts it into a one-place channel, one handler per
`PullRows` call, and `main`, which waits for `start`, then for `stop`, then shuts the
server down. A mutex protects `expected`, another one `permIndex` and the output table;
everything else is ordered by channels only. A panic in any of them ends the process.

- A stream may break at any message; the source is then still expected, but the rows it
  has already sent are in the output table.
- Nothing stops two simultaneous calls of one source. Both may reach the end of their
  stream, and then the second `close` of the channel, or a send after the close, panics.
- The channel is closed by a handler, not by its only sender.
- The table is consumed by whichever `PullRows` handler comes first, alive or not.

*Inside the receiver* the converters are started by `main` in a loop, while those that
are already running may finish: the first to finish waits, inside a `sync.Once`, for a
`sync.WaitGroup` that `main` may still be raising, and closes the channel to which all
of them send. *Inside the source* the feeder waits for the workers' `WaitGroup` to close
the channel of encrypted rows.

*Across processes*: the helper learns that its receiver has everything only when that
closes the connection, and then stops its server; a receiver or a source that is lost, a
helper that is killed, and a second receiver that connects meanwhile must not lead to a
wrong result, a second one, or an end signal too early. The number of rows is announced
by command-line flags (helper) and by the header of the pulled stream (receiver), never
checked against each other; the order of the sources must be the same in two command
lines; a value must fit one block, which only one side checks.

### What makes each component correct

- helper: a received row is in exactly one place; a table is emitted only when every
  source has delivered its whole table in one call; an emitted table is exact, whatever
  was broken or retried; the receiver gets every row once, and the end signal only after
  the last; without faults no panic is reachable and the process ends.
- system: whatever breaks, dies or connects again, at most one result is written, and it
  is the plain join; if nothing does, it is written and all processes end; the helper
  waits for ever only for reasons one can name.
- receiver: every downloaded row gets into the group of its key, once; no send on a
  closed channel; the output is the plain join; all pools end.
- source: every row is encrypted and sent once; the stream ends after the last row;
  nothing waits for ever.
- value encoding: a value within the documented limits comes back as it was.
- table operations and generators: the tables are as ordered; the two plain joins agree
  in every order of iteration; the comparison accepts the join and nothing else.

## 2. The modules

**`JoinRelay`** is what the helper promises: sources are recorded once; nothing is
delivered before all are recorded; rows are delivered at most once; the end comes after
the last row. Three variables, three actions. `HelperServer!Relay` is its instance under
the refinement mapping *recorded = no longer expected, delivered = the rows sent by the
pull call that has sent most, over = `stop` is closed*. It speaks of a helper whose
sources send what was announced, so the refinement is checked on such tables.

**`HelperServer`** has one action per step of a goroutine between two points at which
another one can run: a channel operation, a stream operation, a critical section.

| code | state | actions |
|---|---|---|
| `PushRows` (81–130) | `expected`, `closed`, `ppc`, `cur`, `got`, `start` | `PushReject`, `PushOpen`, `Recv`, `RecvEOF`, `RecvErr`, `Give`, `GiveClosed`, `Reply`, `ReplyErr`, `Finish` |
| `ConvertTablesStream` | `work`, `alive`, `res`, `permIndex` | `Insert`, `InsertFull`, `WorkerExit` |
| `newHelperServer`'s goroutine | `emitted`, `convTables` | `Emit` (`EmitStep`) |
| `PullRows` (132–161) and its client | `qpc`, `next`, `gone`, `stop` | `PullOpen`, `PullTake`, `PullSend`, `PullSendMissing`, `PullErr`, `PullDone`, `ReceiverClose`, `ReceiverLost` |
| `main` (163–210) | `main` | `MainStart`, `MainStop`, `MainDrain`, `MainExit` |

A row is identified by the call it arrived on and its key, because a source that
connects twice sends the same keys twice. `got` records what a call has received; it is
also what makes the stream of a source end, and in any order, since the source feeds its
rows from a random permutation. `crash` holds the first panic; after it nothing runs.
`PushOpen` merges the locked test of `expected` with the signal `start`, between which
nothing observable happens. The `len(expected)` read for a log line outside the mutex is
a data race without effect and is left out.

`Next` is the disjunction of one step operator per goroutine (`PushStep`, `WorkerStep`,
`EmitStep`, `PullStep`, `MainStep`), which `System` reuses.

**`System`** extends `HelperServer` with the process behind each `PullRows` call and
with an environment. `rcv[q]` counts the rows receiver `q` has got of the `next[q]` its
handler has sent, so rows are in flight and may still arrive after the connection broke;
a receiver that has the announced number closes the connection and joins (`RecvAll`,
`JoinTables`, `JoinPanics`), one whose stream ends before dies (`RecvFails`).
`KillHelper` may end the helper at any moment (`Mortal`), `ConnectionLost` a stream
(`Breakable`). The receivers' pools are not repeated here: `ReceiverPipeline` shows that
they do what `JoinTables` and `JoinPanics` say, but for the crash of `ExitsCleanly`.
What a receiver joins are the rows it has got, the first `rcv[q]` of the helper's table
(`Group`, `Complete`, `JoinedRows`): one that did not wait for all of them would write a
part of the join, and break `JoinSpec`. A group opens if its rows cover every position
of `Sources`, a row's being the last one with its source's id (`Numbered`, the helper's
map): with an id given twice no group opens. `System!Promise` is the instance of
`PrivateJoin` for the whole system: *out = the result that was written, or the sequence
of them if there are several*, which is no join. `Alive(step)` is a step of the helper,
which it takes unless it was killed. A source process has no state that its handler does
not show, and is the client of a call.

**`HelperServerProofs`** and **`SystemProofs`** have the theorems about these two modules
(section 5).

**`PrivateJoin`** is what the whole protocol promises: at most once, a table is
published, and it is the join that the plain algorithm `IntersectSimple` computes
(`ReferenceJoins` has that algorithm as the loop it is). Both `System` and
`ReceiverPipeline` are shown to implement it.

**`ReceiverPipeline`** has the reader, three pools with one set of worker names (every
pool has `NumCPU` goroutines), the `WaitGroup` with its wake-up, the `Once`, and `main`.
A row is its position in the helper's stream; `Stream[i]` says what decrypting it will
reveal. `sync.WaitGroup.Wait` checks the counter when it is called and again when it is
woken, and panics if the counter was raised in between: `OnceEnter`, `ConvDone` and
`OnceWake` are those three moments. A group is opened correctly exactly if it has one row
of each source, because only then the hints multiply to the mask; with a wrong key the
decryption yields noise, which the checks of `decryptGroup` turn into a panic except with
negligible probability. `Promise` is the instance of `PrivateJoin` for the tables that
the helper's rows stand for. **`ReceiverProofs`** has the theorems about it.

**`SourcePrepare`** has the feeder, the pool and both users of the encrypted rows
(`Prepare` and the sending loop of `cmd/source`), chosen in the initial state out of
`Users`. Which rows fail to encrypt is not known in advance: any row of `MayFail` may.
**`SourceProofs`** has the theorems about it.

**`ValueEncoding`** follows one value along the network or within one process. Bytes are
digits in a base `Base`, blocks have `Payload` of them; whether a coordinate is on the
curve is left open, so every outcome of the point search is explored. `Paths` says which
of the two ways there are. Two constants are bound: `Payload` is less than `Base`, because
the padding's length is written into a byte; `Base` is more than 5, because the point
search starts from the bytes 4 and 2. `None` is no sequence of bytes.
**`EncodingProofs`** has the theorems about it.

**`MaskedJoin`** is the algebra. Its state is one row after the other on its way:
`enc[i]` after `ProcessRow` of its source, `conv[i]` after `ConvertRow` of the helper,
`out` after `JoinTables` of the receiver; processes, pools and order are in the other
modules. The group is not one group: `Point`, `Mul`, `ScalarExp` and the others are
constants, and `GroupAssumption` states the laws that the code relies on: the points are
a commutative group, so are the scalars under addition, and exponents add and multiply.
Every `RandomScalar` is a choice in its action, out of the set that `Rand` has for its
purpose, so that a run may give several values to the draws that matter and one to the
others. Three things that the code leaves to the size of the group are assumptions, and
named: hashes are distinct, not inverse and not the identity (`HashAssumption`); the
helper's key `convK` is not zero (`InputAssumption`, which also has the two sources that
`cmd/receiver/main.go:42` and `cmd/helper` ask for); no sum of other shares is the sum
of the shares (`Independent`). The session id only keeps executions apart and is part of
`Hash`. A pseudonym is the x coordinate of a point, which does not tell a point from its
inverse: `XCoord` is the pair. The code cuts the first and the last byte off it, as it
does for any message; that two pseudonyms differ in these only is left out.

**`ExponentGroup`** is the group of order `Q`, written as `group.go` is, a point being its
exponent; it gives the constants of `MaskedJoin` values that TLC can compute with.

**`MaskedJoinProofs`** has the theorems about it (section 5).

**`ReferenceJoins`** is what the protocol is judged by. One behaviour is one run of
either the end-to-end test (`GenTestTables`, then `IntersectSimple` in any order of its
maps, one `Read` or `InsertRow` per iteration, then `EqualContents` with some table) or
the experiments' generator (`generate_tables`, one `Rename` per round of
`postprocess_tables`, `join_tables`); what `random` decides is a choice. The table
compared with the join may be any table of its rows and of some strange ones, under the
ids of one of `Headings`: as many as there are sources, for with fewer `EqualContents`
would index past the end of a slice, and its callers give it two tables of one list. A
value is a sequence of tokens, so that joining values by `|` may run them together, as
it does in the code.

`ReferenceAssumption` says what the callers see to: at least two sources without
repetition (`mppj_test.go:13`, `cmd/local/main.go:16`, `GenTestTables` fills one table per
id), and none is called like the column of the keys. `Bar` stands for the separator; no
generated value is one. **`ReferenceProofs`** has the theorems about it.

**`DataLemmas`** has what the proofs share: the range of a channel after a send or a
receive, counting the places of a value in a sequence or a pool, induction over numbers
and finite sets, that a function defined by recursion or by a fold exists, and that a
fold of a commutative operation may take its elements in any order. It speaks of no
module of the project.

**`MC...`** modules name the model values and the small tables of the configurations.

## 3. The runs

| run | what it checks | what it shows |
|---|---|---|
| `HelperFaults` | `TypeOK`, `RowsAccounted`, `TableComplete`, `ExactTable` | a source that connects twice, with both streams and the receiver's breaking anywhere: no row lost or doubled, only complete tables leave, an emitted table is exact |
| `HelperRetry` (violation) | `NeverMoreRowsThanExpected` | the panic that "cannot happen" happens when a source reconnects |
| `SystemHonest` | `SysTypeOK`, `EventuallyServed` | two sources, one receiver, nothing breaks: the receiver writes its result and the helper exits |
| `SystemReceivers` | `NoEarlyShutdown`, `NoPanic`, `RelaySpec`, `JoinSpec`, `WaitsOnlyFor` | two receivers, one of which may be lost, a source stream that may break, a call without an id, a helper that may be killed: every behaviour is one of `JoinRelay` and one of `PrivateJoin`; nobody panics; the helper does not leave its receiver behind, and waits for ever only for a source whose calls have all failed, for a table that went to a lost receiver, or in `GracefulStop` for a second receiver that waits for a table |
| `SystemShort` | `ServedFull`, `OnlyPlainRows` | one source has too few rows, the other connects twice and may break: success is signalled only after a full table, and what a receiver writes, if it writes anything, are rows of the join (some may be missing) |
| `ReceiverJoin` | `TypeOK`, `EveryRowOnce`, `NeverPanics`, `JoinSpec`, `EventuallyEnds` | three goroutines per pool, one common key and two others, a connection that may fail: the pipeline is exact, writes the join, and ends |
| `ReceiverWaitGroup` (violation) | `ExitsCleanly` | a late `wg.Add` meets a woken `wg.Wait`: panic |
| `SourceSend` | `TypeOK`, `EveryRowOnce`, `WholeTable`, `EndsUnlessFailed` | three workers, a row that may fail, a stream that may fail: nothing is lost, the end of the stream means the whole table, no deadlock without a failure |
| `EncodingRoundTrip` | `TypeOK`, `ShortValueSurvives`, `AnyLengthSurvives` | every value of up to two blocks, every outcome of the point search |
| `EncodingLimit` (violation) | `AcceptedSurvives` | the longest accepted value does not survive the network |
| `MaskedJoin` | `TypeOK`, `SamePseudonym`, `OnlyWholeGroupsOpen`, `JoinIsPlain` | three sources, four rows: equal pseudonyms mean equal keys; a row opens exactly with one row of every source; the result is the plain join |
| `ReferenceJoins` | `TypeOK`, `AsOrdered`, `JoinsAgree`, `AcceptsOnlyTheJoin`, `AcceptsTheJoin` | three tables of up to three rows: the generators make the tables asked for, both plain joins agree in every order, and `EqualContents` accepts, among tables without repeated rows and with their columns in one of two orders, the join and nothing else |

### Bounds, and why they are enough

- *Two sources.* Two are the least `main` accepts, and every interaction between sources
  (the last one closes the channel, one is still expected) is already one between two.
- *Two rows per source*, four output positions, a permutation without fixed points
  except one: enough for a stream to break in the middle of a table, which one row does
  not allow; the table is then either short or too long by one row when it is repeated.
- *Two conversion workers*, so that one may hold a row while the other ends; *three*
  goroutines in the receiver's and the source's pools, so that one is late while one
  waits and one works.
- *Two calls* of one source and *two* pull calls: one more would only repeat them. The
  theorems of section 5 need no bound.
- *The tables of the system's runs* have one key in common and one each that is not, so
  that a group may be whole or not; in `SystemShort` one source has one row of two, and
  a broken call of the other leaves a row that fills the gap.
- *Three tables of up to three rows* in `ReferenceJoins`: with two tables, renaming a key
  in one or in all but one would be the same; two values a draw may have make equal rows
  of different keys possible. The compared tables have up to one row more than the join.
- *Base 6* for a byte, blocks of three bytes, and values of zero to four: the prefix
  byte 4 fits, padding lengths 1 to 3 all occur, a value may look like padding, and the
  try counter (2 to 6) carries as it does with 256. Values of zero to four bytes cover
  one and two blocks and each length around the border.
- *A group of order 13*, three sources and shares out of {1, 2, 4}: three is the least
  number of sources at which one may be lacking and another there twice (1, 1, 3) in a
  group of the right size. Two values each for both keys, `joinid` and `rp`. Three
  inputs: a common key and another one; a key sent twice, so that its group is too
  small; a group of three rows of two sources.
- The state spaces are finite without a state constraint. No symmetry is used.

`CHECK_DEADLOCK FALSE` is set in every configuration, because all these processes are
meant to end; that they do not stop before is checked by the liveness properties.

### Fairness

Weak fairness of every goroutine: the Go scheduler runs every goroutine that can run. A
goroutine's steps are one disjunction, since it takes them in program order. The helper's
fairness of `System` also has clients start their calls and receivers go on receiving
and close their connection when they have all rows (`cmd/receiver/main.go:114–122`); that
of `ReceiverPipeline` has the helper send the rows it announced. No failure is ever
assumed to happen: `ConnectionLost`, `KillHelper` and `StreamErr` are not fair, and where
an error is one outcome of a step that is (`RecvErr`, `RecvFails`), nothing rests on it.

## 4. Disagreements with what the repository says

1. `HelperRetry`: after a broken stream the rows received so far stay in the output
   table, while the source stays expected. When it connects again, the helper panics
   with "conversion received more rows than expected" (`party_helper.go:132`).
2. `ReceiverWaitGroup`: the receiver may panic with "WaitGroup is reused before previous
   Wait has returned", because `wg.Add` in `cmd/receiver/main.go:129` is not ordered
   before `wg.Wait` in line 140. The experiments take a non-zero exit code for a failure
   (`mppj-exps/main.py:168`).
3. `EncodingLimit`: values "are assumed to be smaller than 30 bytes"
   (`mppj-go/README.md:24`); the source accepts 30, which needs two blocks, of which one
   is sent.

More were met that have no run of their own:

- `Prepare` promises an error if rows are missing (`party_datasource.go:35`), but a worker
  that fails skips `wg.Done`, so the check is never reached (`EndsUnlessFailed` excludes
  just this case).
- A receiver that dies before its last row leaves the helper waiting for `stop` for ever,
  and a second receiver keeps `GracefulStop` from returning: two of the three cases of
  `WaitsOnlyFor`.
- The last try of the point search carries into the message (`encryption.go:353`).
- `EqualContents` (`table.go:146–172`) compares one way only: a result with one row of
  the join twice and another missing is accepted, which is why `AcceptsOnlyTheJoin`
  speaks of tables without repeated rows. (The ids of the columns it compares in order.)
  The experiments compare sets, and cannot tell equal rows of two keys from one.
- `GenTestTables` makes no key that two of three tables share, so the end-to-end test
  would not notice a join that is content with all sources but one.
- `gen_data.py` shares all keys if `-joinsize` is 0 (line 48), and refuses a join of the
  tables' size as "larger than the number of common keys" (line 54), which it is not.

## 5. What is proved

`HelperServerProofs` proves, for every number of sources, calls, workers, every table,
permutation and set of breakable calls (assumptions `FlagsAssumption`, `CallAssumption`,
`PermAssumption` of `HelperServer`, all of which TLC evaluates in every helper run):

| theorem | statement |
|---|---|
| `TypeCorrect` | `Spec => []TypeOK` |
| `RowsSafe` | `Spec => []RowsAccounted` |
| `TableSafe` | `Spec => []TableComplete` |
| `FailStop` | `Spec => []ExactTable` |
| `FullyServed` | `Spec => []ServedFull`, for tables of any size |
| `ImplementsRelay` | `FullTables => (Spec => RelaySpec)`: with tables of the announced size the helper implements `JoinRelay` |

`SystemProofs`, for every such helper, every number of receivers, and an environment that
may kill it (`MortalAssumption`). `FullTables` says that the sources' tables have the
announced size, `DistinctIds` that no id is given twice, `OneCallEach` that a source makes
one call at most:

| theorem | statement |
|---|---|
| `SysTypeCorrect` | `SysSpec => []SysTypeOK` |
| `WaitsForReceiver` | `SysSpec => []NoEarlyShutdown` |
| `NothingInvented` | `SysSpec => []OnlyPlainRows`, for tables of any size |
| `ImplementsJoin` | `FullTables /\ DistinctIds => (SysSpec => JoinSpec)` |
| `NobodyPanics` | `OneCallEach /\ FullTables /\ DistinctIds => (SysSpec => []NoPanic)` |

The argument. `TypeOK` alone is not inductive: `Finish` and `Recv` look up the table of
the call's source, so `TypeInv` adds that an open call has an expected or recorded id
(`OpenCalls`). For `RowsAccounted` one also needs to know that a row is stored at
`RowPerm[permIndex]` without overwriting another: `FilledSlots` says that exactly the
positions `RowPerm[0 .. permIndex - 1]` are filled, and the injectivity of the
permutation does the rest; `OwnRow` says that a handler's row is its own. `RowInv` is the
conjunction, proved preserved action by action. `TableComplete` needs a chain through
four components: a source that is no longer expected has a call that has received its
whole table and holds no row (`RecordedBy`, `WholeTable`); the channel is closed only
when no source is expected (`ClosedLast`); a worker ends only when the channel is closed
and it holds no row (`IdleGone`); the table is emitted only when all workers have ended
(`EmittedLast`). With `NothingLost`, every row of those calls is then in the table.
`ExactTable` follows by counting: if the sources have `Cap` rows together, choosing a
position for every row is an injection from `Cap` rows into `Cap` positions, hence onto
(`FS_Injection`), so no position is left for a zero row or a second copy.

For the refinement, `PullSafe` has the heart of the matter: the table is in exactly one
place (not emitted, in `convTables`, or with the one `PullRows` handler that took it), so
only one handler ever sends rows, the sequence of delivered rows only grows, and `stop` is
closed after its last. Each action then maps to a step of `JoinRelay` or to a stutter:
`Finish` to `Record`, `PullSend` to `Deliver` (a row not yet delivered, because the
table's positions hold different rows), `PullDone` to `Finish`.

Every step of `System` is one of `HelperServer` or leaves it alone (`SysRefines`), so the
helper's invariants hold in it. `NoEarlyShutdown` follows from `GoneNext`: a handler sees
its stream end only if the receiver closed it, which has then counted all rows, or if it
broke. For `JoinSpec` one has to show that there is one result only (two receivers with
`Cap` rows each would both have been sent the one table) and that it is the join: with an
exact table the rows of a group have different sources, so a group has as many rows as
there are sources exactly if each has one (`FS_Bijection`). `NothingInvented` needs no
assumption on the tables' size: a group that opens has a row for each position, hence of
each source, and every row in the table was in its source's. A receiver that joins has
counted all rows (`SysTypeOK`), so its groups are those of the whole table.

`ReceiverProofs` proves about `ReceiverPipeline`, for every stream and pool (assumptions
`FlagsAssumption`, `StreamAssumption`, `PoolAssumption`). `NoRepeats` says that no source
has sent two rows of one key:

| theorem | statement |
|---|---|
| `TypeCorrect` | `Spec => []TypeOK`, the count of the `WaitGroup` included |
| `EachRowOnce` | `Spec => []EveryRowOnce`, without `NoRepeats` |
| `PanicFree` | `NoRepeats => (Spec => []NeverPanics)` |
| `ImplementsJoin` | `NoRepeats /\ DistinctIds => (Spec => JoinSpec)` |

The invariant follows the rows down the pipeline. `Drained`: a converter past its loop
means that `inRowApi` is closed and empty; one past `wg.Wait` that no converter holds a
row, since the `WaitGroup` counts those that might; an unblinder that ended that
`inRows` is closed and empty. `NoneLost`: every downloaded row is in a channel, with a
goroutine, or in its group, and `OwnGroup`: in no other. When the grouping is over, the
groups therefore have all their rows (`WholeGroups`). `Late` keeps the intersection
behind that moment, and `Joins` says that every complete group it has looked at is in
the result or with a decrypter. `CompleteGroup` is the counting argument again: without
repetitions, a group as large as the number of sources has a row of each. `EveryRowOnce`
is counted: the sum over both channels, both pools and the groups of how often each
holds row `i` is one if the row has arrived, and zero before. A send, a receive or a
step of one goroutine changes two terms, by one each (`CountAppend`, `CountTail`,
`CountExcept` of `DataLemmas`).

`SourceProofs` proves about `SourcePrepare`, for every table, pool and set of failing rows
(`SourceAssumption`): `TypeCorrect` (`Spec => []TypeOK`; the `WaitGroup` never goes below
zero), `WholeTableSent` (`Spec => []WholeTable`), from an invariant of the same shape, and
`EachRowOnce` (`Spec => []EveryRowOnce`). The last counts places as above; a row that is
nowhere was dropped by a worker that failed, and there are as many lost rows as failed
workers, since each loses one and ends.

`EncodingProofs` proves about `ValueEncoding`, for every size of a byte and of a block
(`EncodingAssumption`), every value, and every curve:

| theorem | statement |
|---|---|
| `UnpadUndoesPad` | for every sequence of bytes, `unpad` returns what `pad` was given |
| `Typed` | `Spec => []TypeOK`: every coordinate tried fits in the bytes it has |
| `ShortSurvives` | `Spec => []ShortValueSurvives` |
| `AnySurvives` | `Spec => []AnyLengthSurvives` |

The invariant `IInv` says that the coordinate being tried is the first one of its block
plus the number of tries, and that so is every ciphertext (`Embedded`). A coordinate is the
number `((4 . block) * Base + 2) + tries - 1`, and cutting off its last byte gives the rest
back as long as the sum has not carried, so `MessageBytes` returns the block (`BytesBack`);
at the very last try it carries, which is why the properties except it. The block before it
is recovered byte after byte by an induction over the recursion of `GetMessageBytes`. A
padded value is a whole number of blocks, one if it is short (`PadIsBlocks`), and the blocks
put together are the padded value again (`PiecesJoin`).

`ReferenceProofs` proves about `ReferenceJoins`, for any sources, any size of the tables
and of the join, and any tables to compare with (`ReferenceAssumption`):

| theorem | statement |
|---|---|
| `Typed` | `Spec => []TypeOK` |
| `OrdersFilled` | `Spec => []AsOrdered`: each table has the rows asked for, and the join its size |
| `JoinsEqual` | `Spec => []JoinsAgree`: both plain joins are the same, in every order of iteration |
| `AcceptsAnyOrder` | `Spec => []AcceptsTheJoin` |
| `AcceptsNothingElse` | `Spec => []AcceptsOnlyTheJoin` |

Each invariant extends the one before. `TablesInv` knows which keys the tables have: of
`GenTestTables` the common ones and each table's own; of `gen_data.py` those that are
renamed already and those that are not, of which `size + Cardinality(toRemove)` are
common (that a round renames a key in some table but not in all is what keeps this
true). `JoinInv` follows `IntersectSimple`: what has been read is grouped under its key,
and the rows made so far are those of the keys looked at. For the comparison two things
are shown of the joined values (that the ids agree is compared column by column,
`SameIds`): rows of the generated values without a separator are equal if their joined
values are (`FlatIsLast`, `PlainFlat`, `SpacedExactly`), and a table that has as many
rows as the join, none of them twice and all of them in the join, has all the join's
rows (`OnceCounted`), so that `EqualContents` need not compare the other way.

`MaskedJoinProofs` proves, for every group with the laws of `GroupAssumption`, every hash,
row and outcome of the draws:

| theorem | statement |
|---|---|
| `PseudonymsMatch` | `Spec => []SamePseudonym`: pseudonyms are equal exactly if the keys are |
| `Typed` | `Spec => []TypeOK` |
| `WholeGroupsOpen` | `Spec => []OnlyWholeGroupsOpen`: rows of one key, at most as many as there are sources, open exactly if each source has one |
| `TablesArePlain` | with at most 256 sources, `Spec => []JoinIsPlain`: what the receiver writes is the plain join |
| `ValuesSurvive` | with at most 256 sources, `Spec => []ValuesArrive`: a converted row holds its source's value, and names its source |

The argument. `SamePseudonym` speaks of converted rows only. The invariant `IInv` says
where they come from: the receiver's keys belong together (`KeysMatch`: `Gen^sk` is the
inverse of `pk`, since `PKEKeyGen` keeps the negated key), a row on its way to the helper
decrypts to the hash of its key and to its value (`EncPlain`), and a converted one to the
hash to the power `convK`, the value, and the source's number (`ConvPlain`). Three lemmas
carry it over the steps: decryption undoes encryption (`DecryptEncrypt`), it does not
notice re-randomization (`DecryptReRand`), and it turns the evaluation of the OPRF into a
power (`DecryptEval`). They rest on `SharedSecret`, and that on the group's laws.
`PowerInjective` and `PowerOfInverse` then give `SameKey`: raising to `convK` maps no two
of the hashes to one point or to inverse points. The bound of 256 in `ValuesSurvive`
and `TablesArePlain` is the byte that `blindAndHint` has for the source's position.
`ConvPlain` also says that a row's key is masked with the pseudonym to `padKey`, and that
its hint is the pseudonym to its source's share. The product of a group's hints is then the
pseudonym to the sum of the shares (`ProductOfPowers`, an induction along the fold), which
is the mask if each source is there once (`FoldAnyOrder`: the sum over the sources and the
product over the rows need not take them in one order), and only then (`Independent`).

Only model-checked: all liveness, that is `EventuallyServed`, `WaitsOnlyFor`,
`EventuallyEnds` and `EndsUnlessFailed` (fairness is out of the prover's reach, as is
`ENABLED`). The library's induction theorems take an operator as a parameter, which the
installed provers cannot instantiate; where a fold or a recursive function is reasoned
about for all its inputs, `DataLemmas` does the induction over a set of cases that hold,
from the well-foundedness of numbers and of finite sets.

## 6. What is assumed or left out

- In `HelperServer`, `ReceiverPipeline` and `SourcePrepare` cryptography is perfect: a
  ciphertext decrypts to its plaintext, a group is opened exactly if it is whole. That is
  what `MaskedJoin` shows. In all modules a wrong key is noticed: it gives noise, which
  the checks of `decryptGroup` refuse except with negligible probability. `ConvertRow`'s
  panics on serialization errors of valid points are unreachable and left out.
- What the parties must not learn (secrecy) is not stated anywhere.
- Both processes are started with the same `-sources` list; otherwise the columns of the
  output are swapped without notice. One constant, `Sources`, stands for both lists.
- Flags are as `main` checks them. It does not check that the ids of the sources are
  distinct, and the specification does not assume it, except where a theorem names
  `DistinctIds`; with a repeated id the tables cannot have the announced size, and the
  helper is as in `SystemShort`.
- A source is not started again by itself: a second call of it is in the instance or not.
  Nothing is stored on disk, so a process that dies does not come back with its state.
- Handlers' contexts: a broken connection is noticed by `Recv`/`Send`, as in gRPC.
- Reading CSV files, writing the result, TLS, statistics: I/O. `tables_from_csv` of the
  generator is used by no experiment; `GenUIDs`, `ExpandUIDs`, `NewTablePlain` and
  `TablePlain.Equal` by nothing outside their tests.
- The programs for MP-SPDZ are run by another system, on fixed inputs.

## 7. Plan

Done so far, in this order: the helper, its promise and its proofs; the receiver and the
protocol's promise; the source; the encoding; the algebra of a row and its proofs; the
composed system; the plain joins and the generators; the proofs of the refinements and of
the receiver's and the source's safety; the counting of rows in channels and pools; the
unmasking of whole groups and the join of the masked tables; the comparison of the tests;
the way of a value through padding, blocks and point search. What is left:

1. One theorem across modules: the plain join of `MaskedJoin`, the published one of
   `PrivateJoin` and the rows of `ReferenceJoins` are the same function of the tables.
2. Without `Independent`: how many choices of shares open a group that is not whole.
3. Several sessions of one deployment: today the session id only keeps them apart.
