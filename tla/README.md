# hdbconnect in TLA+

hdbconnect is a synchronous driver for SAP HANA: a `Connection` speaks a
request/reply protocol over one TCP connection, and everything a program gets
from it (result sets, prepared statements, LOB handles, the XA resource
manager) keeps a reference to the same connection core and sends further
requests on its own, some of them from destructors.  The modules in this
directory are specifications of that behaviour, with the configurations that
check them with TLC and, for the connection core, the result sets, the
prepared statements, the sessions and the reading of LOBs, proofs for TLAPS.

All paths below are relative to the repository; the crate is in `src/`.

## 1. Inventory

| Component | State it keeps | Operations | Works with | What is hard |
|---|---|---|---|---|
| connection core (`src/conn/connection_core.rs`, `am_conn_core.rs`, `src/sync_connection.rs`) | `ConnectionCore` behind `Arc<Mutex<..>>`: session id, sequence number, authenticated flag, client info and its `touched` flag, statement sequence, session state, warnings, settings, the TCP stream | `full_send_sync`, `roundtrip_sync`, `reconnect`, `Connection::{execute,..}`, `pop_warnings`, `set_application..`, `drop` | everything | threads that share clones; connection reset, repetition, reconnect with re-authentication; a mutex that is poisoned; replies that cannot be parsed |
| requests, replies (`src/protocol/{request,reply,parts}.rs`) | none | emit, parse, `handle_db_error` | connection core | cut and unreadable replies; several errors; sessions that the server closes |
| authentication (`src/conn/authentication/`) | the chosen authenticator | two requests | connection core | order of verification and adoption of the session; refusal |
| result sets (`src/protocol/parts/resultset.rs`) | `RsState` (two row buffers), `ResultSetCore` (attributes, references to connection and statement) | `next_row`, `fetch_all`, `total_number_of_rows`, `into_single_row`, `drop` | connection core, LOB handles, prepared statements | fetches that fail half way or are repeated; who closes the cursor, and when |
| reading LOBs (`src/types_impl/lob/{blob,clob,nclob,fetch}.rs`) | chunk buffer, accumulated lengths | `read`, `into_bytes`, `into_string`, `read_slice` | connection core | chunk borders in the middle of a character; small buffers |
| writing LOBs (`src/types_impl/lob/lob_writer.rs`, `src/sync_prepared_statement.rs`) | buffer, locator | `write`, `flush`, `execute_row` | connection core | UTF-8 tails; the result arrives with the last chunk of the last LOB |
| prepared statements (`src/sync_prepared_statement.rs`) | statement id, descriptors, batch | `execute`, `execute_row`, `add_batch`, `execute_batch`, `drop` | connection core | failed executions and the batch; statements that leak |
| responses (`src/hdb_response.rs`, `src/protocol/parts.rs`) | none | parts to return values | connection core | matching by position |
| XA (`src/xa_impl/`) | none | start .. recover | connection core, dist_tx | check of auto_commit and call are two steps |
| pool adapter (`src/sync_connection_manager.rs`) | parameters | connect, is_valid, has_broken | r2d2 | broken connections go back |
| parameters (`src/conn/params/`) | builder | setters, `build`, `to_url`, from a URL, connect string | connection core | URL and builder have to agree; TLS must not get lost on the way |
| parts, values (`src/protocol/part.rs`, `src/protocol/parts/`, `src/serde_db_impl/`) | none | size, emit, parse, conversions | requests, replies | sizes are computed in one place and bytes written in another; ranges; padding |
| value types (`src/types_impl/`) | none | new, parts, show | parts | calendar arithmetic, mantissas |
| server usage, SCRAM | sums; proofs | add; compute | replies; handshake | nothing that depends on an order |

The hazards of each are in `PROJECT.json`, at the line where they bite.

## 2. Modules

| Module | Models | Remark |
|---|---|---|
| `RemoteCalls` | what a connection promises to the threads that share it | abstract specification |
| `AmConnCore` | connection core, replies, handshake, reconnect, mutex | refines `RemoteCalls` |
| `AmConnCoreProofs` | types, inductive invariant, the safety theorems, that `AmConnCore` implements `RemoteCalls`; sessions of the calls, client info, statement sequence | theorems |
| `ResultSetFetch` | result sets, their fetches and the drop chain | |
| `ResultSetFetchProofs` | its inductive invariant and all its safety properties as theorems | |
| `MC*` | constants for TLC | |
| `Cesu8` | the CESU-8 helpers of `protocol/util.rs` | operators only |
| `LobRead` | the handles that read BLOBs, CLOBs and NCLOBs | uses `Cesu8` |
| `LobReadProofs` | its inductive invariant and all its safety properties as theorems | |
| `SeqOps` | the elements of a sequence at given positions | operators only |
| `Utf8` | the cuts of `lob_writer.rs`, the conversion to CESU-8 | uses `SeqOps` |
| `Response` | from the parts of a reply to what the program takes out of an `HdbResponse` | uses `SeqOps` |
| `PreparedStatement` | prepared statements, batches, writing LOBs | uses `Utf8`, `Response` |
| `TextProofs` | sequences that are joined, chosen from, reversed and counted; cuts and conversion of UTF-8 | lemmas |
| `PreparedStatementProofs` | three inductive invariants of `PreparedStatement` and all its safety properties as theorems | |
| `Bytes` | the stream as a sequence of fields | operators only |
| `Dates`, `HdbValues`, `Convert` | dates and times, values and their bytes, conversions of the program's values | operators only |
| `Parts`, `Requests`, `ReplyParts` | the parts, how requests are written, how replies are read | operators only |
| `Hana` | how the database takes requests and composes replies | external |
| `Wire` | exchanges of requests and replies on one connection | uses the ones above |
| `ConnectParams` | builder, URLs, connect string | uses `SeqOps` |
| `Session` | sessions, local and distributed transactions, the pool | uses `ConnectParams` |
| `SessionProofs` | what a request does to the database; the inductive invariant of `Session` and its safety properties as theorems | |
| `ValueProofs` | fields, values and days: what is written, how long it is, what it is taken for | lemmas |
| `WireProofs` | rows, parts and requests; the inductive invariant of the stream to the server, and that requests arrive | theorems |

### AmConnCore

A thread's position in `full_send_sync` is `pc[t]`.  One action is what a
thread does between two points at which another thread, the server or the
network can interfere: taking the guard and augmenting the request
(`LockAndAugment`), writing the request (`EmitCall`), reading the whole reply
(`ReadReply`, `ReadError`, `ReadErrors`, `ReadCutReply`, `ParseFails`,
`ReadGarbled`, `Misread`), dialling (`Dial`, `DialFails`), the four halves of the
handshake (`EmitAuthenticate`, `ReadChallenge`, `EmitConnect`, `ReadSession`,
`ReadRefusal`), and what is done with the reply after the guard was given back
(`Digest`).  `core` holds the fields of `ConnectionCore`; the mutex is `lock`
and `poisoned`.  Threads, calls and client infos are opaque values.

The wire (`tcp`, `toServer`, `toClient`, `garbled`) and the server (`srv`,
`stale`) are external: the server answers requests in order, within the session
that was opened on the connection; a request that was under way when the
connection was lost may still be executed (`SrvExecuteStale`).  After a reply
that could not be parsed the stream is out of step (`garbled`), and what a read
makes of the bytes in it is open: an error (`ReadGarbled`), or a reply of any
kind and with any statement sequence (`Misread`, `StraySeqs`), because of a
header only the number of segments, the kind and the type of the reply are looked
at.  `misread` remembers the calls that took such bytes for their reply.  A read
may also wait for bytes that never come; these two actions are not fair.  A
reset is an error of kind `ConnectionReset` and leads to reconnect and
repetition, an end of stream is not.  The server continues the statement
sequence and the variables of the former session on a reconnect with its id.
A reply with a result set *and* the flag that closes the session is not
modelled, nor is the lock that `execute` takes for reading the settings.
The initial client info of a new connection counts as the first one.

### ResultSetFetch

Rows are numbers, the server (external) sends them in packets of any size up
to `FetchSize`, with or without the flag for the last packet and for the
closed cursor.  `rowIter`, `nextRows`, `rscore`, `attributes` are the fields
of `RsState` and `ResultSetCore`.  A fetch is one roundtrip of
`full_send_sync`, reduced to its outcomes: read, error, broken off after some
rows (the attributes are already stored and these rows are already appended),
repeated once after a reset, or failed.  Handles of the user (`rsAlive`,
`psAlive`, `userRows`) are dropped in any order; the requests that the
destructors send are queued in `dropping`, and nothing else happens before
they are sent, because a destructor sends synchronously.  A failing
`CloseResultSet` is not modelled (its error is ignored by the code).

### LobRead and Cesu8

`Cesu8` reduces a byte to the class that `cesu8_char_type` distinguishes (seven
classes), so that a text is a short sequence and every cut can be tried.
`CharType`, `TailLen`, `SplitOffOrphanedBytes` and `SplitOffOrphanedSurrogates`
are the functions of the code; `IsText` is what the `cesu8` crate accepts and
the reference against which they are checked.

`LobRead` has the three handles in one: `kind` says which, and `content` is the
LOB on the server, which is identified with its CESU-8 bytes also after the
conversion to UTF-8 (the conversion never lengthens a text, so what fits as
CESU-8 fits as UTF-8).  `buffer`, `tail`, `acc`, `accChars`, `complete`,
`maxBufLen` are the fields of the handle.  `Read` and `Into` begin an operation,
`FetchNextChunk` and `FetchFails` are the passes of the loop, `ReadRest` and
`IntoRest` what follows it.  The server (external) sends as many units as it
likes, at least one if one was requested, and declares the last one.  The
comparison with `is_data_complete` that `fetch_next_chunk` asserts is therefore
true by assumption.  `read_slice` does not touch the handle and is only called
on a fresh one.  A reader's buffer has at least six bytes, the length of the
longest character: with less, `read` returns `Ok(0)` before the end, or an
error together with the loss of the bytes it has taken out of its buffer.

### PreparedStatement, Utf8 and Response

A byte of UTF-8 is one of the classes `get_utf8_char_start` distinguishes, as in
`Cesu8`.  `handle`, `batch`, `writer` (the open `LobWriter`), `todo` (the LOBs of
the row that are still to be copied), `response` are the objects of the program;
`Prepare`, `AddRow`, `ExecuteBatch`, `Execute`, `ExecuteRow`, `Drop` are its
calls.  `execute_row` goes on with `NewWriter`, `Copy` (one `read` of the reader
and one `write`), `SendChunk`, `Flush` and `Finish`; every roundtrip has the
outcomes that `AmConnCore` shows: answered, refused, lost before or after the
server processed it, cut, unreadable, closed.  The response is arranged by
`HdbResponse::try_new` and taken by `GetValue` and `IntoValue`.

Assumed of the server: a statement and its locators do not survive a
reconnect; locators come in the order of the LOB parameters; a batch that
fails in part is answered with one error per failed row, in the order of the
rows.  After an unreadable reply nothing more arrives.  NCLOBs are like CLOBs.

### Wire and the modules of the parts

A message is a sequence of fields with width and content: whoever reads other
widths than were written gets numbers that mean nothing.  `Requests` writes as
`Request::emit` does, header sizes first, computed by the functions `size` of the
parts, then the parts with their own `emit`.  `Hana` takes a request by its
sizes only, and composes replies from the tables of the protocol, not from the
code.  `ReplyParts` reads as `Reply::parse` and `Part::parse` do.  Integer ranges
and mantissas are small (`SmallBits`, `SmallFixed`: 3, 4, 5 and 6 bits in place
of 8 to 64, and 6, 8, 10 for FIXED8 to FIXED16), so that every border is
crossed; lengths of fields are the real ones.  The calendar is the real one,
the units below a day are small (2, 2, 2, 3).  Options are abstract ids.

Three kinds of requests spoil the stream for those that follow: a decimal of more
than twelve bytes in a FIXED12 and an authentication field of more than 250 bytes
(`SizeIsWrong`), and a value that is refused after a part of the request was written
(`FailsHalfway`).  They are the exchanges of the run `wire_leftovers`; `RequestsArrive` and `RepliesAreRead` are about connections on which
none of them was tried (`clean`).  `IsProgramRequest` says what a program can ask for.

### Session and ConnectParams

A call of the driver is one step: `FullSend` is the roundtrip, after a reset the
reconnect and the repetition.  `conn[k]` has the settings of a connection, its
connect options and its session; `db` is the database (external): sessions,
rows, branches; `told` is what the program knows of its transactions.  Calls of
the XA resource manager are two steps (`XaCheck`, `XaSend`), because they lock
the connection twice.  The first connection is kept until the end.

Assumed of the database: an open transaction and an unprepared branch end with
their session; the commit flag commits, but not with an XA request; a key can
be inserted once; XA calls for a branch in the wrong state are errors.  A
reconnect that fails creates no session.  The program ends its transaction
before it gives a connection back to the pool.

A query of a URL, a locale and a directory are texts: sequences of symbols, where a symbol is
a character that means something in a URL (`&`, `=`, `+`, `#`, a blank, a line break),
an escape as `%2B`, or a run of other characters.  `ToUrl` and `ConnectString` write texts
as they are, as the code does; `Parsed`, `QueryPairs` and `Decoded` are what the `url`
crate does when `IntoBuilder` reads them: blanks at the end and line breaks are dropped,
a `#` ends the query, the rest is decoded as a form.  `Plain` texts are those that
survive this, and `UrlsReflect` says that a builder that has no others comes back.

## 3. Runs

| Run | Question | Bounds |
|---|---|---|
| `core` | do replies reach their calls, is Ok earned, are repetitions bounded, are sessions right, does a poisoned mutex silence the connection, does the statement sequence ever step back; does the core implement `RemoteCalls`, does every call return | 2 threads, 2 calls, 1 change of the client info, 2 faults of any kind, every kind of reply but plain ones (those with warnings are like them) |
| `resultset` | rows, totals, destructors, and that calls come to an end | 4 rows in packets of at most 2, 2 faults of any kind |
| `lobread` | is what was read the content, in order and in characters; is the end the end; are buffers bounded; are slices cut correctly | LOBs of each kind with up to three characters (18 bytes at most), chunks of at most 2 units, reader's buffers of 6 and 9 bytes, lengths of 4 bits (so that what is left is cut, and zero units are asked for), one fetch that fails |
| `statements` | are rows executed once and with their LOBs, is text cut between characters, do results and errors reach the program in order, are statements dropped, do executions end | inserts, a procedure, queries and DDL; up to 3 rows, texts of up to 8 bytes, write lengths of 2 and 4, reads of at most 5 bytes, 1 fault |
| `wire` | does the database take what the client meant, does the client read what the database wrote, to the last byte; do numbers, dates and names come out right | every kind of request and reply, 2 exchanges, small ranges as above |
| `sessions` | do URLs bring parameters back; are sessions configured; is what was confirmed durable and what was rolled back not; are branches atomic | 2 connections, 3 sessions (no more losses once one has ended), 2 rows (symmetric), 1 branch, 1 thread |

Two losses are the least with which a repetition is hit again; two calls of two
threads are the least with which a reply can go astray, and let one thread call again
after its call; the safety properties of the core are proved for any number of
threads, calls and faults.  Four rows in packets of two give a first, a middle and an
empty last packet.

The runs that end with a violation show disagreements between the code and
what its documentation says; each is a finding in `PROJECT.json`, with the
quotation:

| Run | What it shows |
|---|---|
| `core_garbled` | after a reply that could not be parsed, its remains are taken for the reply of another call, which returns Ok without having been executed |
| `core_drop` | a result set that is dropped while the reply is unwound waits for the mutex of its own thread |
| `lob_slices` | `CLob::read_slice` panics for a slice without any recognizable start of a character, `NCLob::read_slice` for an empty slice |
| `decimals` | a mantissa of exactly 113 bits loses its highest bit in `from_bigdecimal` (scaled down to 5 bits above the exponent) |
| `wire_leftovers` | what was written of a request that failed is completed by the next one, and the database answers it; a decimal that is too big for a FIXED12, and a field of an authentication with more than 250 bytes, are written with more bytes than announced, and refused |
| `transactions` | a commit that is repeated after a reset returns Ok although the changes before it were lost with the old session |

### Fairness

`AmConnCore!FairSpec` has weak fairness for the steps of each thread inside a
call, strong fairness for taking the mutex, and weak fairness for the server:
a thread is scheduled, `std::sync::Mutex` is not handed past a waiting thread
for ever, and the server answers or the connection is lost.  Reading the remains
of a reply that could not be parsed is not fair: they may announce bytes that
never come, and `EveryCallReturns` leaves this case out.  The code sets no
timeout on its socket, so without the last assumption a call may wait for
ever; that is a property of the code, not of the model.  `ResultSetFetch` needs
the same for a call and its answers.  No user step is fair.
`LobRead` assumes that an operation that was begun goes on, which includes
that the server answers each fetch.  `ReadsReturn` leaves out who asks for zero
units for ever (see the observations at the end).
`PreparedStatement` assumes the same of a call that was begun: readers
deliver, and the server answers.  `Wire` and `Session` have no liveness
properties.

Deadlock is not checked where the program may simply stop calling, where the
database may close the connection (`Wire`), or where a bound on sessions, rows or
faults is used up.

## 4. Proofs

All theorems hold for every value of the constants that the `ASSUME`s of the
modules allow (types of the constants in most; `TalksAssumption` and
`EchoesAssumption`: what a program can ask for; `UrlsAssumption` and
`SymbolsAssumption`: of what texts consist).  Two hypotheses are left to single
theorems: `RoomForACharacter` to four of `LobReadProofs`, and `ShortDecimals` to
`AllRequestsArrive` and lemmas about values.

| Theorem | States | Module |
|---|---|---|
| `TypeCorrect` | `TypeOK`: The variables keep their types, for all numbers of threads, calls and losses. | `AmConnCoreProofs` |
| `Invariance` | The inductive invariant IInv (mutex, calls, wire, executions, emissions) holds in every state. | `AmConnCoreProofs` |
| `RepliesBelong` | `ReplyBelongsToCall`: What is under way belongs to the call of the thread that holds the guard, and each thread digests the reply of its own call, unless the call took the remains of an unreadable reply for its own. | `AmConnCoreProofs` |
| `OkIsExecuted` | `OkMeansExecuted`: A call returns Ok only if the server executed it, or if it took the remains of an earlier reply, one that could not be parsed, for its own; a call that nobody made is not executed. | `AmConnCoreProofs` |
| `SuccessIsExecuted` | As long as no call has failed, what the documentation of the sequence number says does hold: every call that returned Ok was executed by the server, whatever connections were lost. | `AmConnCoreProofs` |
| `RepeatedOnce` | `RepeatOnFreshConnection`: A call is emitted at most twice, the second time on a newer TCP connection. | `AmConnCoreProofs` |
| `ExecutionsAreBounded` | PendingInv: executions, requests under way and requests of lost connections of a call together are at most as many as the connections on which it was emitted. | `AmConnCoreProofs` |
| `Implementation` | `ImplementsRemoteCalls`: The connection core implements RemoteCalls, in which a call is sent at most twice and answered after it took effect, or with anything once another call has failed: initial states map to initial states, every step maps to a step or a stutter. | `AmConnCoreProofs` |
| `CallsInSession` | `CallsAreInSession`: Every request travels under the id of the session of its connection, or without a session after a refused reconnect. | `AmConnCoreProofs` |
| `InfoDelivered` | `ClientInfoDelivered`: Between calls that have not failed, the server of an intact connection knows every client info that is marked as sent. | `AmConnCoreProofs` |
| `SequenceGrows` | `StatementSequenceGrows`: As long as nothing was misread, the statement sequence steps back only where threads digest replies out of order. | `AmConnCoreProofs` |
| `ResultSetInvariant` | The inductive invariant of ResultSetFetch (position of the server, packets, attributes, owners of the cursor, queued requests) holds in every state. | `ResultSetFetchProofs` |
| `ResultSetTypes` | The fields of RsState and of the handles keep their types. | `ResultSetFetchProofs` |
| `RowsOnce` | `NoRowTwice`: For every number of rows and every packet size, rows are handed out and buffered once and in their order. | `ResultSetFetchProofs` |
| `RowsComplete` | `NoRowMissing`: No row is missing, and None comes after the last row only, if no fetch failed and no cursor survived the loss of its reply. | `ResultSetFetchProofs` |
| `ReleasesInOrder` | `ReleasedInOrder`: Whatever the order of the drops, the cursor is closed before its statement is dropped, and neither while somebody uses it. | `ResultSetFetchProofs` |
| `TotalCounts` | `TotalIsRight`: total_number_of_rows counts the rows that were not handed out yet. | `ResultSetFetchProofs` |
| `StatementInvariant` | The inductive invariant StatementInv holds in every state: rows keep the numbers under which they were accepted, every LOB that is still to be written has a locator of its own. | `PreparedStatementProofs` |
| `RowsExecutedOnce` | `RowsOnce`: No row is executed twice, and no row of the batch was executed, whatever fails. | `PreparedStatementProofs` |
| `StatementDropped` | `StatementIsDropped`: A statement that the program does not have is not left on a server whose session goes on. | `PreparedStatementProofs` |
| `LobsInvariant` | LobsInv holds in every state: what was sent of a LOB, what its writer has buffered and what its reader still has are, in this order, the content that was given, and locators and readers belong together. | `PreparedStatementProofs` |
| `LobsArriveWhole` | `LobsArrive`: For contents of every length, readers that deliver any pieces and every write length, each executed row has its LOBs completely and at the position at which they were given. | `PreparedStatementProofs` |
| `ChunksCut` | `ChunksAreCut`: Every chunk of a CLOB is a sequence of complete characters, whatever the reader gives; for UTF-8 the buffer stays below the write length or three bytes, and chunks before the last are shorter than the write length by three bytes at most. | `PreparedStatementProofs` |
| `TextAccepted` | `TextIsAccepted`: If all write lengths are at least 2, the writer refuses the content of a CLOB only if it is not UTF-8, however the reader and the write length cut it. | `PreparedStatementProofs` |
| `ReplyInvariant` | ReplyInv holds in every state: the batch is what was asked for, and what was received for the LOBs under way, what is in the response and what was taken are the results that the server has sent. | `PreparedStatementProofs` |
| `ResultsOrdered` | `ResultsInOrder`: For any number of result sets and sets of output parameters, the program takes them in the order in which the server has sent them, and those not taken yet are in the response. | `PreparedStatementProofs` |
| `BatchExact` | `BatchIsExact`: After a batch of any length Ok means that all of its rows were executed in their order; otherwise each row has its own result, and each failed row has its own error. | `PreparedStatementProofs` |
| `SilenceAfterPanic` | `PoisonSilences`: No step emits a call while the mutex is poisoned. | `AmConnCoreProofs` |
| `LobInvariant` | The inductive invariant LobInv (what was read, the buffer, its tail and the offset of the next fetch) holds in every state, if every buffer of the reader has room for a character. | `LobReadProofs` |
| `ReadsLoseNothing` | `NothingIsLost`: What was read is the beginning of the content, and the end is reported at the end only, wherever the chunks are cut and however many fetches fail. | `LobReadProofs` |
| `ReadsEndWithCharacters` | `ReadsAreText`: What was read of a CLOB or NCLOB is made of complete characters. | `LobReadProofs` |
| `BuffersAreBounded` | `BufferIsBounded`: For every read length and every reader, the buffer never gets longer than one chunk and, if somebody reads, one byte less than the widest of the reader's buffers and an incomplete character (none for BLOBs, three bytes for NCLOBs, five for CLOBs). | `LobReadProofs` |
| `SlicesAreCut` | `SliceIsAnswered`: A slice that is returned has a prefix, complete characters and a postfix, which together are the bytes asked for, and a slice of an NCLOB is returned unless it is empty. | `LobReadProofs` |
| `AllRequestsArrive` | `RequestsArrive`: For requests of any parts, rows, values, options and lengths, as long as no request was announced with a wrong size or failed halfway and left bytes behind: the database takes every request whole and as the client meant it, by the sizes in the headers, and never closes the connection, if no decimal needs the mantissa's bit that its exponent overwrites. | `WireProofs` |
| `RequestIsTaken` | A request that fits is written with exactly the bytes that its headers announce, and the database takes them, whatever is behind them, for the request, part by part. | `WireProofs` |
| `RequestSucceeds` | A request is written if and only if its sizes can be computed and each part can be written; without a size nothing is written. | `WireProofs` |
| `ValueIsSent` | Every value that may be sent for a column has the number of bytes that its size says, and the database takes them for the value and leaves what is behind them. | `ValueProofs` |
| `DaysAreShown` | as_ymd gives back year, month and day of the number of every day, in the Julian and the Gregorian calendar. | `ValueProofs` |
| `SessionInvariant` | The inductive invariant SessionInv holds in every state: the database is consistent, every connection has a session of its own, configured as its client needs it, and what the program was told of its rows and branches fits what the database has. | `SessionProofs` |
| `CommitsAndRollbacksHold` | `TransactionsAreKept`: Rows that were confirmed as committed are durable or vanished with a lost session; rows that were rolled back are never durable, for all numbers of connections, sessions and losses. | `SessionProofs` |
| `BranchesHold` | `BranchesAreAtomic`: A branch of a distributed transaction is durable as a whole or not at all, as the transaction manager was told. | `SessionProofs` |
| `PreparedBranchesWait` | `PreparedSurvive`: A branch whose preparation was confirmed keeps its rows until it is decided, and recover lists it. | `SessionProofs` |
| `SessionsKnowTheirClient` | `SessionsAreConfigured`: Every session, also one that replaces another, has the locale, the user, the data format and the anchor that its client must tell it. | `SessionProofs` |
| `PoolHandsOutSessions` | `HandedOutAnswers`: No step hands out a pooled connection whose session has ended. | `SessionProofs` |
| `UrlsGiveBack` | `UrlsReflect`: For builders with any number of certificates and options and texts of any length: if the URL can say all that the builder has and nothing in the texts ends a value or is decoded, the URL gives back the builder without its password; the connect string is the same URL whatever the texts; and a builder that uses TLS does not come back without, whatever the texts. | `SessionProofs` |

### Connection core

`AmConnCoreProofs` proves `Spec => []TypeOK` for all sets of threads and calls
and every number of faults, then `Spec => []IInv` and from it `ReplyBelongsToCall`, `OkMeansExecuted`, `RepeatOnFreshConnection`, and
the action property `PoisonSilences`.  None of these is inductive:

* `MutexInv`: the guard is held exactly by the thread that is inside the
  critical section.  Everything else rests on it.
* `CallInv`: the call a thread executes is open and no other thread's.
* `WireInv`: as long as the stream is in step, at most one message is under
  way, and it is the request or the reply of the holder's call.  That is why
  the ignored sequence number of a reply does no harm.
* `ExecInv`: a reply that is not an error was preceded by an execution, in
  `toClient` as well as in the hands of a thread that digests it, unless its call
  is in `misread`.
* `SentInv`: on which connections a call was sent so far, at each position.

Each lemma (`MutexStep`, `CallInvStep`, `WireStep`, `ExecStep`, `SentStep`) has one step
per action; `IInvStep` combines them.

For the refinement `PendingInv` is added (`ExecutionsAreBounded`), and every step of the core
is shown to be a step of `RemoteCalls` or a stutter.  `RemoteCalls` demands that a call is
never executed more often than it was sent.  For that one has to count: the
request that is under way, the requests that a lost connection left behind
(`stale`) and the executions of a call together are never more than its
sendings (`ExecutionsBounded`); a connection carries a call once (`EmittedOnce`).
`RemoteCalls` lets a call be answered with Ok unexecuted only after another one
has failed; that a call is misread only then is a part of `InfoInv`
(`GarbledFailed`), and `SuccessIsExecuted` follows from it: what the run
`core_garbled` refutes holds as long as no call fails.
Which step of the abstract specification an action is depends on its result:
`ReadReply` is none, `Digest` is the answer, the last failed attempt is the
answer, too.

Sessions, client infos and statement sequences have three invariants of their own:

* `SessionInv`, for `CallsAreInSession`: the session id of the core is the
  session that the server has open, or the core is not authenticated and its id
  is 0.  An unauthenticated core is used only if its connection is broken or the
  server has refused it (`UnauthenticatedInv`), and then its requests carry no
  session, rather than a wrong one.
* `InfoInv`, for `ClientInfoDelivered`: either the client info is still marked as
  touched, or the server knows it, or it is in the request under way, or a
  call has failed.
* `SequenceInv`, for the action property `StatementSequenceGrows`: a reply that
  is still to be digested never carries a smaller number than the core, unless
  two threads digest at the same time, or something was misread.

### Result sets

`ResultSetFetchProofs` proves one inductive invariant, `IInv`, and from it each
safety property of the module.

* `CallInv`: which call goes together with which phase of a fetch; a fetch is
  under way only if the cursor is still referenced.
* `AttributesInv`: the flags of a packet, also of one that is still under way,
  say the truth about the rows and the cursor of the server.
* `OrderInv`: what the program has got, what is buffered in `rowIter` and
  `nextRows`, and what is under way, in this order, is an increasing sequence
  of rows which the server has already sent.  `NoRowTwice` follows.
* `CompleteInv`: without a fault the same sequence has no gaps.  `NoRowMissing`
  and the action property `TotalIsRight` follow.
* `ReleaseInv`: a request that releases the cursor or the statement is due only
  after the last owner is gone, and as long as the server's cursor is open,
  there is an owner or such a request.  `ReleasedInOrder` follows.

### Prepared statements

`PreparedStatementProofs` proves every safety property of the module, from three
inductive invariants.  The theorems hold for all contents, all pieces in which readers
deliver them, all write lengths, and batches of every length.

**`StatementInv`**, for `RowsOnce` and `StatementIsDropped`.  A row is in the batch or
was executed, never both (`RowsInv`); the row whose LOBs are still being written is in
neither, because the database executes it with the last chunk of the last LOB, and each
LOB to be written has an open locator of its own (`StreamInv`).

**`LobsInv`**, for `LobsArrive`, `ChunksAreCut` and `TextIsAccepted`:

* `GivenInv`, `WaitingInv`: rows of the batch are as they were given, and so is
  the row that waits for its LOBs, but for the positions of its readers.
* `TodoInv`: locators and readers belong together, in the order of these positions; what is complete is what the reader had, and nothing has arrived
  of what was not begun.
* `WriterInv`: the content is what was sent, what is buffered, and the rest, and
  what was sent of a text ends between characters.  For that the server's copy has to
  be the conversion of a part of the content, so it must be known that the
  conversion can be done piece by piece (`TextProofs`).

If the writer finds no place where it can cut its buffer, although the write length is
at least 2, then what is buffered cannot follow complete characters in any UTF-8;
`TextIsAccepted` is this, together with `WriterInv`.

**`ReplyInv`**, for `ResultsInOrder` and `BatchIsExact`:

* `AskedInv`: as long as the program has the statement, the batch is what was asked for.
* `IrvsInv`: while LOBs are written, nothing was taken, and what was received is
  what the server has sent; a procedure sends its results with the last chunk.
* `ResponseInv`: there is a response only after an execution, and nothing was taken
  of a new one.

The order in which `HdbResponse::try_new` meets the parts of a reply is the order of
the server for each kind of value, not for all of them together; so the
proof goes kind by kind, through `FlattenSeq` and `Kept`.  That each failed row
gets its own error is counted: the k-th failed row takes the k-th error, and the
database sends them in the order of the rows.

`TextProofs` has the lemmas on sequences and on UTF-8 which this needs.  Where one would
prove something by induction, the set of all numbers (or sequences) for which it
holds is shown to have 0, and with each number the next one (`AllNumbers`,
`AllSequences`, from the theorem on the order of `Nat`).  So `FlattenSeq`, defined
with a recursive function, is shown to exist, to be determined by its recursion and to
join two sequences of sequences into one (`FlatConcat`); the same for what is kept of a
sequence, for reversed sequences, and for counting.  UTF-8 is stated by
positions, like CESU-8 below: which positions are between two characters, and what is
converted from one of them to another.

All three invariants were checked as invariants of the run `statements` before.

### Reading LOBs

`LobReadProofs` proves every safety property of `LobRead`, for contents of every
length, chunks that the server cuts anywhere, buffers of every size and any number
of fetches that fail.

What the functions of `Cesu8` return is stated without recursion, by positions:
`Between(c, p)` says that the first `p` bytes of a text end between two
characters.  From any position the next byte that starts a character is at most
six bytes away (`NextChar`), every byte belongs to a character (`CharOf`), and for
a part of a text that begins between characters `get_cesu8_tail_len` finds the
last such position in it (`TailOfText`, `TailCuts`).  What lies between two of
these positions is a text again (`TextOfPart`).  `NCLOB`s are asked for in
sequences of one, two and three bytes: `CountTo` counts them, `Uncut` says that no
sequence is cut, and `BytesPerSequence` that there are at most three bytes for
each.  Where a proof would need induction, the least number with a property is
taken instead (`LeastNatural`, from the theorem on the order of `Nat`).

`LobInv` has five parts.

* `LobTypes`.
* `Fetched`: the accumulated length is the position in the content up to which was
  fetched, in the units in which the next chunk is asked for.
* `Streamed`: what was read and what is buffered are two consecutive parts of the
  content, up to that position; for text the first one ends between characters.
  `NothingIsLost` and `ReadsAreText` follow.  A failed fetch changes neither.
* `Bounded`: the longest buffer so far fits with some buffer of the reader.
  `BufferIsBounded` follows.
* `Answered`: `Ok(0)` and the whole content are returned when everything was read.

`BufferIsBounded` is what the code keeps to: one chunk and, if somebody reads, one
byte less than the widest buffer that was read into so far and an incomplete
character (none for BLOBs, three bytes for NCLOBs, five for CLOBs).  The documentation
of `max_buf_len` promises less (see the observations at the end).  Liveness apart, nothing needs
that lengths fit into a `u32`: a fetch for zero units changes nothing.

`RoomForACharacter` says that each buffer of the reader has at least six bytes.
With less `NothingIsLost` is false, and the code makes no promise (see the
observations at the end).  `SlicesAreCut` does not need it: it follows from
what `split_off_orphaned_bytes` and `split_off_orphaned_surrogates` do with any
part of a text (`ClobSlice`, `NClobSlice`).  `LobInv` was checked as an invariant
of the run `lobread` before.

### Sessions and transactions

The first half of `SessionProofs` is about the database alone: what each request does to sessions,
rows and branches, and what it leaves alone.  A row is in one place only:
durable, vanished, pending in one session, or in one branch (`RowsApart`); a
branch is active in one session at most, and what has ended has nothing
(`BranchesInv`).  `Leaves(d, e, s, R, X)` says that from `d` to `e` only session
`s` has worked, on the rows `R` and the branches `X`; it is transitive, and it is
all that the other connections have to know of a call.

The second half proves `SessionInv` and from it every safety property of the
module about sessions and transactions.  A call is one step of `Session`, but `full_send_sync` goes
through several states of the database: a session is lost, before or after the
request was executed, another one takes its place, the request is executed there.
So the invariant is `CallInv(d, cn, told, k, r)`: it is stated for a connection `k`
that may be in the middle of a call with request `r`, and each of those steps
preserves it (`LostInv`, `ExecutedAndLost`, `ReconnectedInv`, `FullSendInv`).  At
the end of the call `told` is updated, from an answer (`InsertTold`, `EndTold`,
`XaTold`, `RecoverTold`) or from a failure (`CallFails`), and `r` is `Nothing`
again.

* `ConnsInv`, `OptionsInv`: each connection has a session of its own; client and
  session know the locale, the user, the format, and which session was replaced.
* `CountsOn`: the rows whose insertion was acknowledged, and that are neither
  committed nor rolled back, are pending in the session of the connection or have
  vanished; while a request that commits is under way, they may be durable.
* `PromisesInv`: what was promised is durable or vanished, what was undone is
  nowhere.  That a row that was undone cannot come back from a session, or a
  branch, is what makes `TransactionsAreKept` inductive.
* `BranchFits`, `FateFits`: in which state a branch may be on the server, for each
  state the transaction manager knows it in, and where its rows may be.
* `FateDuring`: while a decision is repeated after a reset, it may have been
  executed already.  Then the branch is in a state in which the repetition is
  refused, the call fails, and the transaction manager is in doubt.
* `UseInv`: nobody counts on anything in a connection that is in the pool.

`UrlsReflect` needs that the certificates of the builder are pairs of a kind and a
text (`ParamsInv`).  A written query is read as a function of its assignments, one
after the other (`QueryAppended`, `WrittenMore`, `QueryOfWritten`: each assignment is
read for its decoded name and value, if it has no `&` in it); parsing the URL changes nothing
of texts without a `#` or a line break that do not end in a blank (`ParsedWritten`).  So
what is written is one option for each certificate, then the locale (`QueryBack`); of
these, exactly the first ones are read as certificates (`CertsBack`, with what
`TextProofs` says of the elements that are kept of two joined sequences), and the last
one as the locale (`LocaleBack`).  That TLS is not lost (`TlsBack`) needs none of this:
a URL with `hdbsqls` and without a certificate is refused.

The theorems hold for every number of connections, threads, rows, branches,
sessions and losses, and certificates.  `SessionInv` and `ParamsInv` were checked as
invariants of the run `sessions` before.

### The wire

`ValueProofs` and `WireProofs` prove `RequestsArrive`: whatever is asked for, the
database takes it by the sizes in its headers for what was meant.  A stream is a
sequence of fields, and the lemmas are about the four things that have to agree, each
at a place of its own in the code: what `size` says, what `emit` writes, how the
other side takes it apart, and what is left behind it.  They are stated for what
is written before any stream `s`, so that one can be put behind the other:

* a field, texts with their lengths (`RdBytesPut`, `TextIsTaken`), sums of widths
  (`TotalConcat`), things that are written one after the other (`EachIsWritten`);
* a value (`ValueIsSent`): integers, floats, dates, decimals with their zeros stripped
  and their sign and exponent put into the last two bytes (`DecimalIsSent`), or
  scaled for a FIXED column, texts and bytes with their three forms of a length,
  headers of LOBs;
* a row, an option with a hash map's order (`OrderOfMap`), authentication fields,
  client infos; a part with its header and its padding (`PartIsTaken`);
* a request (`RequestIsTaken`): the sizes in the three headers, and what is left of
  the buffer's size for each part (`Remaining`).

`RequestFits` says of a request that its values can be written with the size that
is announced.  `WhatIsWrittenFits` shows that this is what the code finds out: a
request of a program (`IsProgramRequest`) that is not refused and is written fits,
unless `SizeIsWrong`; and one that cannot be written leaves nothing in the stream
(`NothingIsLeft`), unless it `FailsHalfway`.  Whatever a program gives for a parameter
of any type is converted to such a value or to an error (`GivenIsFine`).  The invariant `ArrivalInv`
is about the stream to the server: while it is clean, it has the bytes of the one
request that was sent, which fits, or none, and the database has not closed the
connection.  The three ways to spoil the stream are those of the run `wire_leftovers`;
what happens after them is not proved.

The assumptions are `TalksAssumption` and `EchoesAssumption`: the exchanges are such as
a program can ask for (lengths are numbers, rows have values for their columns, option
values have their types).  `ShortDecimals` is a hypothesis of the theorems: no decimal
for a DECIMAL column needs the mantissa's bit that the exponent overwrites.  The
run `wire` satisfies it, the run `decimals` shows what happens otherwise.  What is not
assumed is the range of numbers, the lengths of texts, or how many parts, rows, options
and fields there are.

`DaysAreShown` is the arithmetic of `DatesAreShown`: for every day of every year, in both
calendars, `as_ymd` gives back year, month and day of its number.

### Only model-checked

* Liveness (`EveryCallReturns`, `CallsEnd`, `ExecutionsReturn`, `ReadsReturn`): out of
  the prover's reach.
* `Wire`: what concerns the replies: `RepliesAreRead`, `NamesAreAttributed`, `NumbersSurvive`,
  and `DatesAreShown` but for its arithmetic.
  The argument would be that of the requests once more, for other parts.

## 5. Not modelled

The hash computations of SCRAM and the choice of the authenticator, TLS, and
what serde_db does with structures: data without control, or libraries.
`server_usage.rs` sums durations that nothing else depends on.
`src/code_examples.rs` and `src/lib.rs` contain documentation.  Reading
certificates and parameters from files is I/O.  The server is modelled as far
as its answers go; what the modules assume of it is marked as external.

The modules are not composed into one: a roundtrip is many steps in
`AmConnCore` and one step with its possible outcomes in the others.  That such
a step is one is what `ReplyBelongsToCall` and the mutex guarantee, for every
number of threads (`AmConnCoreProofs`).

After a refused re-authentication the code keeps the unauthenticated
connection; what `CallsAreInSession` claims for it is that its requests carry
no session at all.

## 6. Plan

Modelled and checked are the core, what the driver hands out or takes piece
by piece, the wire, and what transactions are worth when sessions get lost.
What is left, in this order:

1. The rest of the handshake: the authenticators' `contribute` and `verify` in
   their order, the choice between them, and what a refused proof leaves behind.
2. The writer that an error in the middle of a part leaves half full, over more
   than one connection, and the reconnect that creates a new writer.
3. Fetch sizes, LOB lengths and the getters as fields of one composed connection.

Proofs that are worth their effort, in this order:

1. `Wire`: `RepliesAreRead`, kind of part by kind of part, as for
   the requests.
2. From it `DatesAreShown` (with `DaysAreShown`), `NamesAreAttributed` and `NumbersSurvive`.

Observations of the code that no run states, because the code promises nothing
about them:

* The sequence number 1 is used twice, by the second request of the handshake
  and by the first call after it.  The warnings of a reply that nobody has popped
  are overwritten by the next reply that has some.
* `into_single_row` refuses a single row that arrives without the flag for the
  last packet.  A reader with a buffer of less than six bytes gets `Ok(0)` before
  the end of a CLOB, or loses bytes with an error.
* A `lob_write_length` of 0 or 1 refuses every text with a three-byte character.
  `LobWriter` does not look at the transaction flags of its replies.  `execute_row`
  drops surplus values, and `ParameterRow::new` accepts a row with too few,
  although its comment says that it fails on incompatible values.
* Of bytes that are not UTF-8 `LobWriter` can keep more than an incomplete
  character: after a complete one it keeps all continuation bytes that follow, and
  reports them with the next chunk.  `ChunksAreCut` therefore bounds the buffer for
  UTF-8 only.
* When the last packet of a result set breaks off while its rows are parsed, its
  attributes are already stored: the result set counts as complete, and
  `total_number_of_rows` then returns Ok with the rows of that packet missing.
  `TotalIsRight` leaves this case out.
* `max_buf_len` "is not supposed to exceed `lob_read_length` plus the buffer size
  used by the reader" (`clob.rs:117`; `nclob.rs:132`: three times `lob_read_length`).
  `read` does not count the incomplete character at the end of its buffer, so a
  buffer gets longer, by at most that: with a reader's buffer of 6 bytes and a
  `lob_read_length` of 2 an NCLOB of 3 + 6 + 3 bytes after one of 2 has 14 bytes in
  its buffer.  `BufferIsBounded` is what does hold.
* What is left of a LOB is cut to 32 bits.  If it is a multiple of 2^32, as at the
  start of a CLOB of 4 GiB, `read`, `into_string` and `into_bytes` ask for zero units,
  get nothing, and do so for ever: `AsksForNothing` in `LobRead`.
* Values are written to a URL as they are and read from it as those of a form: a
  locale or a directory with a `+`, a `%`, a `&` or a `#` does not come back from
  `to_url` and `connect_string`.
* `client_locale_from_env` without a value, which the documentation says reads LANG
  (`connect_params.rs:53`), reads the variable that the value names, and so none.
* Names of parameters are read one after the other, whatever their offsets.
* `spawn` does not copy `lob_write_length`.  `tls_certificate_direct` is named in the message about
  missing certificates, but not read from a URL.  A user's name that is escaped
  in a URL is not unescaped.
* The pool hands on what its last user left: settings and open transactions.
  `session_state.dead` survives a reconnect.  The session id is taken over before
  the server's proof is verified.
