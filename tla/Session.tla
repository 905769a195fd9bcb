------------------------------ MODULE Session ------------------------------
(***************************************************************************)
(* What a program does with its connections: it builds the parameters of a *)
(* connection, connects, spawns connections from others, lends them to a   *)
(* pool, switches auto-commit, executes statements, commits and rolls      *)
(* back, and lets a transaction manager run branches of distributed        *)
(* transactions on them, while sessions get lost.                          *)
(*                                                                         *)
(* A call has the connection for itself (module AmConnCore is about that), *)
(* so the whole of full_send_sync is one step here: the roundtrip, the     *)
(* reconnect after a ConnectionReset, the repetition.  What the program    *)
(* knows of its transactions is in "told".                                 *)
(*                                                                         *)
(* The database is external: an open transaction and an unprepared branch  *)
(* end with their session, a request whose commit flag is set commits, and *)
(* a branch is ended by the session that has it.                           *)
(***************************************************************************)
EXTENDS ConnectParams, Integers, FiniteSets, TLC

CONSTANTS
  Conns, First,       \* the connections, and the one that is opened first
  Threads,            \* threads that own clones of the first connection
  Changes,            \* the rows that the program inserts
  Xids, NoXid,        \* branches of distributed transactions
  MaxSessions,        \* bound on the number of sessions
  MaxLost,            \* no session is lost when so many have ended
  Hostnames, Ports, Users, Passwords, Locales, CertChoices, RuntimeOptions,
  Urls,               \* what the program may build its parameters of
  OsUserName

ASSUME SessionAssumption ==
  /\ First \in Conns /\ NoXid \notin Xids
  /\ MaxSessions \in Nat \ {0} /\ MaxLost \in Nat

ASSUME UrlsAssumption ==
  /\ \A c \in CertChoices :
       /\ c = <<c[1], c[2]>> /\ c[2] \in Seq(Symbols)
       /\ c[1] \notin {"Directory", "Environment", "Direct"} => c[2] = << >>
  /\ \A u \in Urls : u.query \in Seq(Symbols)
  /\ Locales \subseteq Seq(Symbols)
  /\ \A name \in DOMAIN Environment : Environment[name] \in Seq(Symbols)

VARIABLES
  builder,   \* the ConnectParamsBuilder
  conn,      \* the connections: locale, options, auto-commit, session
  pool,      \* the connections that are lent to the pool
  at,        \* the connection of a thread's XA call between check and request
  db,        \* the database: sessions, rows, branches
  told       \* what the program was told of its rows and branches

vars == <<builder, conn, pool, at, db, told>>

-----------------------------------------------------------------------------
(* ConnectOptions.                                                         *)
\* All that f has, and what g has besides.
Over(f, g) == [id \in DOMAIN f \cup DOMAIN g |-> IF id \in DOMAIN f THEN f[id] ELSE g[id]]

\* ConnectOptions::for_server.
ForServer(locale) ==
  Over([ClientReconnectWaitTimeout |-> 678, DataFormatVersion2 |-> 8, OSUser |-> OsUserName],
       IF locale = None THEN << >> ELSE [ClientLocale |-> locale])

\* The options a client accepts from the server.
Accepted ==
  {"ConnectionID", "SystemID", "DatabaseName", "FullVersionString", "BuildPlatform",
   "Endianness", "EngineDataFormatVersion", "DataFormatVersion", "DataFormatVersion2",
   "NonTransactionalPrepare", "SupportsLargeBulkOperations", "ActiveActiveProtocolVersion",
   "ImplicitLobStreaming", "CompleteArrayExecution", "QueryTimeoutOK",
   "UseTransactionFlagsOnly", "IgnoreUnknownParts", "SplitBatchCommands", "FdaEnabled",
   "ItabParameter", "ClientDistributionMode", "ClientInfoNullValueOK",
   "ClientReconnectWaitTimeout", "FlagSet1"}

\* Mutant: whatever the client has already stays as it is.
DigestOnlyNew(options, fromServer) ==
  Over(options, [id \in DOMAIN fromServer \cap Accepted |-> fromServer[id]])

\* digest_server_connect_options.
DigestServerConnectOptions(options, fromServer) ==
  Over([id \in DOMAIN fromServer \cap Accepted |-> fromServer[id]], options)

\* What the server answers to a connect request.
ServerOptions(sid) ==
  [ConnectionID |-> sid, ClientReconnectWaitTimeout |-> 600, DataFormatVersion2 |-> 8,
   FullVersionString |-> "2.00", ClientLocale |-> <<"server's">>]

Idle == None
NoConn == [locale |-> None, options |-> << >>, autoCommit |-> TRUE, session |-> 0]

Exists(k) == conn[k].session # 0

-----------------------------------------------------------------------------
(* The database.                                                           *)
NoBranch == [state |-> "none", changes |-> {}, session |-> 0]

IsOpen(d, s) == d.sessions[s].open
CanLose(d) == Cardinality({s \in DOMAIN d.sessions : ~IsOpen(d, s)}) < MaxLost

\* A new session; the client tells it its options.  It takes the place of an
\* earlier one, or of none (0).
Opened(d, options, c) ==
  [d EXCEPT !.sessions = Append(@, [open |-> TRUE, changes |-> {}, branch |-> NoXid,
                                    options |-> options, replaces |-> c.session])]

\* A session ends: its transaction and its unprepared branches are rolled back.
Ended(d, s) ==
  [d EXCEPT
     !.sessions[s].open = FALSE, !.sessions[s].changes = {}, !.sessions[s].branch = NoXid,
     !.vanished = @ \cup d.sessions[s].changes,
     !.branches = [x \in Xids |-> IF @[x].session = s /\ @[x].state # "prepared"
                                  THEN NoBranch ELSE @[x]]]

\* An answer: an error code (0 for none), a return code of XA, and a list.
Answer(d, code)     == [db |-> d, code |-> code, rc |-> "Ok", list |-> {}]
RowCommitted(d, s)  == [d EXCEPT !.durable = @ \cup d.sessions[s].changes,
                                 !.sessions[s].changes = {}]
RowRolledBack(d, s) == [d EXCEPT !.sessions[s].changes = {}]

\* The rows have a primary key.
IsThere(d, row) ==
  \/ row \in d.durable
  \/ \E s \in DOMAIN d.sessions : row \in d.sessions[s].changes
  \/ \E x \in Xids : row \in d.branches[x].changes

Inserted(d, s, row) ==
  [d EXCEPT !.sessions[s].changes = @ \cup {row}, !.vanished = @ \ {row}]
InsertedInBranch(d, x, row) ==
  [d EXCEPT !.branches[x].changes = @ \cup {row}, !.vanished = @ \ {row}]

RunInBranch(d, x, r) ==
  CASE r.type = "insert" -> Answer(InsertedInBranch(d, x, r.row), 0)
    [] r.type \in {"commit", "rollback"} -> Answer(d, 214)
    [] OTHER -> Answer(d, 0)

RunInTransaction(d, s, r) ==
  LET e == CASE r.type = "insert" -> Inserted(d, s, r.row)
             [] r.type = "commit" -> RowCommitted(d, s)
             [] r.type = "rollback" -> RowRolledBack(d, s)
             [] OTHER -> d
  IN  Answer(IF r.commit THEN RowCommitted(e, s) ELSE e, 0)

RunStatement(d, s, r) ==
  LET x == d.sessions[s].branch IN
  IF r.type = "insert" /\ IsThere(d, r.row) THEN Answer(d, 301)
  ELSE IF x = NoXid THEN RunInTransaction(d, s, r) ELSE RunInBranch(d, x, r)

\* What the calls of the resource manager make of a branch.
Started(d, s, x) ==
  [d EXCEPT !.branches[x] = [state |-> "active", changes |-> {}, session |-> s],
            !.sessions[s].branch = x]
Resumed(d, s, x) ==
  [d EXCEPT !.branches[x].state = "active", !.sessions[s].branch = x]
WorkEnded(d, s, x, state) ==
  [d EXCEPT !.branches[x].state = state, !.sessions[s].branch = IF @ = x THEN NoXid ELSE @]
Decided(d, x)           == [d EXCEPT !.branches[x] = NoBranch]
PreparedToCommit(d, x)  == [d EXCEPT !.branches[x].state = "prepared"]
BranchCommitted(d, x)   == [d EXCEPT !.branches[x] = NoBranch, !.durable = @ \cup d.branches[x].changes]

RunStart(d, s, r) ==
  LET x == r.xid
      b == d.branches[x]
  IN  IF d.sessions[s].branch # NoXid \/ d.sessions[s].changes # {} THEN Answer(d, 214)
      ELSE IF "RESUME" \in r.flags
           THEN IF b.state = "suspended" /\ b.session = s THEN Answer(Resumed(d, s, x), 0)
                ELSE Answer(d, 212)
      ELSE IF b.state = "none" THEN Answer(Started(d, s, x), 0) ELSE Answer(d, 210)

RunEnd(d, s, r) ==
  LET b == d.branches[r.xid]
      state == CASE "SUSPEND" \in r.flags -> "suspended"
                 [] "FAIL" \in r.flags -> "failed"
                 [] OTHER -> "idle"
  IN  IF b.state \in {"active", "suspended"} /\ b.session = s
      THEN Answer(WorkEnded(d, s, r.xid, state), 0)
      ELSE Answer(d, 212)

\* prepare, commit, rollback and forget of a branch, from any session.
RunDecision(d, r) ==
  LET x == r.xid
      b == d.branches[x]
  IN  CASE r.type = "XAPrepare" /\ b.state = "idle" ->
             IF b.changes = {} THEN [Answer(Decided(d, x), 0) EXCEPT !.rc = "RdOnly"]
             ELSE Answer(PreparedToCommit(d, x), 0)
        [] r.type = "XACommit" /\ b.state = (IF "ONE_PHASE" \in r.flags THEN "idle" ELSE "prepared") ->
             Answer(BranchCommitted(d, x), 0)
        [] r.type = "XARollback" /\ b.state \in {"idle", "failed", "prepared"} ->
             Answer(Decided(d, x), 0)
        [] OTHER -> Answer(d, IF b.state = "none" THEN 212 ELSE 214)

Prepared(d) == {x \in Xids : d.branches[x].state = "prepared"}

Run(d, s, r) ==
  CASE r.type \in {"insert", "commit", "rollback", "query"} -> RunStatement(d, s, r)
    [] r.type = "XAStart" -> RunStart(d, s, r)
    [] r.type = "XAEnd" -> RunEnd(d, s, r)
    [] r.type = "XARecover" -> [Answer(d, 0) EXCEPT !.list = Prepared(d)]
    [] OTHER -> RunDecision(d, r)

-----------------------------------------------------------------------------
(* A call of the client: the ways it can end.                              *)
\* err: "none" when there is an answer, "reset" for a ConnectionReset, and
\* "io" for any other failure.
NoAnswer == [code |-> 0, rc |-> "none", list |-> {}]
Way(d, c, err, a) == [db |-> d, conn |-> c, err |-> err,
                      answer |-> [code |-> a.code, rc |-> a.rc, list |-> a.list]]

\* The session is lost before the request is served, or after it; a write to
\* a connection that is closed fails in one way or the other, too.
Roundtrip(d, c, r) ==
  IF ~IsOpen(d, c.session) THEN {Way(d, c, err, NoAnswer) : err \in {"reset", "io"}}
  ELSE UNION {
         {Way(a.db, c, "none", a)}
         \cup IF CanLose(d)
              THEN {Way(Ended(e, c.session), c, err, NoAnswer) : e \in {d, a.db}, err \in {"reset", "io"}}
              ELSE {}
         : a \in {Run(d, c.session, r)}}

\* Authenticate: the first time, and when a connection was lost.
Authenticated(d, c, options) ==
  [db |-> Opened(d, options, c),
   conn |-> [c EXCEPT !.session = Len(d.sessions) + 1,
                      !.options = DigestServerConnectOptions(@, ServerOptions(Len(d.sessions) + 1))]]

ToAuthenticate(c, reconnect) ==
  IF reconnect THEN Over([OriginalAnchorConnectionID |-> c.options.ConnectionID], c.options)
  ELSE c.options

CanConnect(d) == Len(d.sessions) < MaxSessions

Reconnected(w) ==
  IF CanConnect(w.db) THEN {Authenticated(w.db, w.conn, ToAuthenticate(w.conn, TRUE))} ELSE {}

\* Mutant: after the reconnect, the request is not repeated.
FullSendNotRepeated(d, c, r) ==
  UNION {IF w.err # "reset" THEN {w}
         ELSE {[w EXCEPT !.err = "io"]} \cup {Way(n.db, n.conn, "none", NoAnswer) : n \in Reconnected(w)}
         : w \in Roundtrip(d, c, r)}

\* full_send_sync: after a ConnectionReset, the session is replaced, if that is
\* possible, and the request is repeated once.
FullSend(d, c, r) ==
  UNION {IF w.err # "reset" THEN {w}
         ELSE {[w EXCEPT !.err = "io"]} \cup UNION {Roundtrip(n.db, n.conn, r) : n \in Reconnected(w)}
         : w \in Roundtrip(d, c, r)}

\* The caller gets Ok.  Mutant: the server's errors are not looked at.
IsOkWithoutErrors(w) == w.err = "none"
IsOk(w) == w.err = "none" /\ w.answer.code = 0

Request(k, type)   == [type |-> type, commit |-> conn[k].autoCommit]
InsertOf(k, row)   == [type |-> "insert", commit |-> conn[k].autoCommit, row |-> row]
XaRequest(k, type, x, flags) ==
  [type |-> type, commit |-> conn[k].autoCommit, xid |-> x, flags |-> flags]

Receive(k, w) == db' = w.db /\ conn' = [conn EXCEPT ![k] = w.conn]

-----------------------------------------------------------------------------
(* Parameters.                                                             *)
Building == db.sessions = << >>

Set(field, value) ==
  /\ Building
  /\ builder' = [builder EXCEPT ![field] = value]
  /\ UNCHANGED <<conn, pool, at, db, told>>

SetHostname     == \E h \in Hostnames : Set("hostname", h)
SetPort         == \E p \in Ports : Set("port", p)
SetDbuser       == \E u \in Users : Set("dbuser", u)
SetPassword     == \E p \in Passwords : Set("password", p)
UnsetPassword   == Set("password", None)
SetClientlocale == \E l \in Locales : Set("clientlocale", l)
ClientlocaleFromEnvLang == Set("clientlocale", Getenv(<<"LANG">>))
TlsWith == \E c \in CertChoices : Len(builder.certs) < 2 /\ Set("certs", Append(builder.certs, c))
Option  == \E o \in RuntimeOptions : Len(builder.options) < 1 /\ Set("options", Append(builder.options, o))

\* The builder is read from a URL.
FromUrl ==
  /\ Building
  /\ \E u \in Urls : IntoBuilder(u) # Err /\ builder' = IntoBuilder(u)
  /\ UNCHANGED <<conn, pool, at, db, told>>

-----------------------------------------------------------------------------
(* Connections.                                                            *)
Connecting(k, locale) ==
  /\ ~Exists(k) /\ CanConnect(db)
  /\ LET c == [NoConn EXCEPT !.locale = locale, !.options = ForServer(locale)]
         n == Authenticated(db, c, ToAuthenticate(c, FALSE))
     IN  db' = n.db /\ conn' = [conn EXCEPT ![k] = n.conn]

\* Connection::new; the builder is not needed any more.
New ==
  /\ Building /\ Build(builder) # Err
  /\ Connecting(First, builder.clientlocale)
  /\ builder' = NewBuilder
  /\ UNCHANGED <<pool, at, told>>

\* ConnectionManager::connect, with the same parameters.
PoolConnect(k) ==
  /\ Exists(First) /\ k # First
  /\ Connecting(k, conn[First].locale)
  /\ pool' = pool \cup {k}
  /\ UNCHANGED <<builder, at, told>>

\* Mutant: spawn does not copy the connection's settings.
SpawnWithDefaults(k, j) ==
  /\ Exists(k) /\ k \notin pool
  /\ ~Exists(j) /\ CanConnect(db)
  /\ LET c == [NoConn EXCEPT !.locale = conn[k].locale, !.options = ForServer(conn[k].locale)]
         n == Authenticated(db, c, ToAuthenticate(c, FALSE))
     IN  db' = n.db /\ conn' = [conn EXCEPT ![j] = n.conn]
  /\ told' = [told EXCEPT !.expects[j] = told.expects[k]]
  /\ UNCHANGED <<builder, pool, at>>

\* Connection::spawn: new connects, the settings are copied.
Spawn(k, j) ==
  /\ Exists(k) /\ k \notin pool
  /\ ~Exists(j) /\ CanConnect(db)
  /\ LET c == [NoConn EXCEPT !.locale = conn[k].locale, !.options = ForServer(conn[k].locale)]
         n == Authenticated(db, c, ToAuthenticate(c, FALSE))
     IN  /\ db' = n.db
         /\ conn' = [conn EXCEPT ![j] = [n.conn EXCEPT !.autoCommit = conn[k].autoCommit]]
  /\ told' = [told EXCEPT !.expects[j] = told.expects[k]]
  /\ UNCHANGED <<builder, pool, at>>

\* Connection::set_auto_commit, the only setting that matters here.
SetAutoCommit(k, on) ==
  /\ Exists(k) /\ k \notin pool
  /\ conn' = [conn EXCEPT ![k].autoCommit = on]
  /\ told' = [told EXCEPT !.expects[k] = on]
  /\ UNCHANGED <<builder, pool, at, db>>

\* Mutant: the disconnect request is sent with the connection's commit flag.
EndOfWithFlag(d, c) ==
  Ended(IF c.autoCommit /\ IsOpen(d, c.session) THEN RowCommitted(d, c.session) ELSE d, c.session)

\* ConnectionCore::drop_impl: what the disconnect request ends.
EndOf(d, c) == Ended(d, c.session)

\* The last clone is dropped; the program keeps its first connection.
Drop(k) ==
  /\ Exists(k) /\ k # First /\ k \notin pool /\ \A t \in Threads : at[t] # k
  /\ db' = EndOf(db, conn[k])
  /\ conn' = [conn EXCEPT ![k] = NoConn]
  /\ told' = [told EXCEPT !.undone = @ \cup told.acked[k], !.acked[k] = {},
                          !.branchOf[k] = NoXid, !.expects[k] = TRUE]
  /\ UNCHANGED <<builder, pool, at>>

\* The database or the network ends a session.
LoseSession(s) ==
  /\ IsOpen(db, s) /\ CanLose(db)
  /\ db' = Ended(db, s)
  /\ UNCHANGED <<builder, conn, pool, at, told>>

-----------------------------------------------------------------------------
(* Statements.                                                             *)
\* What the program knows when an insert, a commit or a rollback returns.
\* After an error it counts on nothing of its transaction any more.
AfterInsert(k, row, ok) ==
  LET x == told.branchOf[k] IN
  IF ~ok THEN [told EXCEPT !.acked[k] = {}]
  ELSE IF x # NoXid THEN [told EXCEPT !.inBranch[x] = @ \cup {row}]
  ELSE IF told.expects[k]
       THEN [told EXCEPT !.acked[k] = {}, !.promised = @ \cup told.acked[k] \cup {row}]
  ELSE [told EXCEPT !.acked[k] = @ \cup {row}]

AfterCommit(k, ok) ==
  [told EXCEPT !.promised = IF ok THEN @ \cup told.acked[k] ELSE @, !.acked[k] = {}]
AfterRollback(k, ok) ==
  [told EXCEPT !.undone = IF ok THEN @ \cup told.acked[k] ELSE @, !.acked[k] = {}]

\* A row that the program knows to be inserted is not inserted again.
Known == told.promised \cup told.undone \cup (UNION {told.acked[k] : k \in Conns})
         \cup (UNION {told.inBranch[x] : x \in Xids})

Insert(k) ==
  /\ Exists(k) /\ k \notin pool
  /\ \E row \in Changes \ Known :
       \E w \in FullSend(db, conn[k], InsertOf(k, row)) :
         Receive(k, w) /\ told' = AfterInsert(k, row, IsOk(w))
  /\ UNCHANGED <<builder, pool, at>>

\* Connection::commit and Connection::rollback are statements as any other.
Commit(k) ==
  /\ Exists(k) /\ k \notin pool
  /\ \E w \in FullSend(db, conn[k], Request(k, "commit")) :
       Receive(k, w) /\ told' = AfterCommit(k, IsOk(w))
  /\ UNCHANGED <<builder, pool, at>>

Rollback(k) ==
  /\ Exists(k) /\ k \notin pool
  /\ \E w \in FullSend(db, conn[k], Request(k, "rollback")) :
       Receive(k, w) /\ told' = AfterRollback(k, IsOk(w))
  /\ UNCHANGED <<builder, pool, at>>

-----------------------------------------------------------------------------
(* The pool.                                                               *)
\* A connection comes back; has_broken finds nothing wrong with any of them.
\* Its user has brought its own transaction to an end.
CheckIn(k) ==
  /\ Exists(k) /\ k \notin pool /\ k # First
  /\ told.acked[k] = {} /\ told.branchOf[k] = NoXid
  /\ \A t \in Threads : at[t] # k
  /\ pool' = pool \cup {k}
  /\ UNCHANGED <<builder, conn, at, db, told>>

\* A connection is handed out.  Mutant: it is not checked.
CheckOutUnchecked(k) ==
  /\ k \in pool
  /\ pool' = pool \ {k}
  /\ UNCHANGED <<builder, conn, at, db, told>>

CheckOut(k) ==
  /\ k \in pool
  /\ \E w \in FullSend(db, conn[k], Request(k, "query")) :
       IF IsOk(w) THEN Receive(k, w) /\ told' = told
       ELSE db' = EndOf(w.db, w.conn) /\ conn' = [conn EXCEPT ![k] = NoConn]
            /\ told' = [told EXCEPT !.expects[k] = TRUE]
  /\ pool' = pool \ {k}
  /\ UNCHANGED <<builder, at>>

-----------------------------------------------------------------------------
(* Branches of distributed transactions: HdbCResourceManager.              *)
AllowedFlags ==
  [XAStart |-> {"JOIN", "RESUME"}, XAEnd |-> {"SUCCESS", "FAIL", "SUSPEND"},
   XAPrepare |-> {}, XACommit |-> {"ONE_PHASE"}, XARollback |-> {}, XAForget |-> {}]

\* xa_send_receive_impl looks under a first lock at the auto-commit mode, and
\* at nothing else ...
XaCheck(t, k) ==
  /\ Exists(k) /\ k \notin pool /\ at[t] = Idle
  /\ ~conn[k].autoCommit
  /\ at' = [at EXCEPT ![t] = k]
  /\ UNCHANGED <<builder, conn, pool, db, told>>

\* What the transaction manager knows of a branch when its call returns: an
\* error leaves in doubt what the call was to decide.
Doubt(type) ==
  CASE type = "XAEnd" -> {"started", "suspended"}
    [] type = "XAPrepare" -> {"ended"}
    [] type \in {"XACommit", "XARollback"} -> {"ended", "prepared", "failing"}
    [] OTHER -> {}

\* The return code of a reply; Ok when there is none.
\* Mutant: whatever it is, the call was successful.
ReturnCodeIgnored(w) == "Ok"
ReturnCode(w) == w.answer.rc

FateAfter(r, w) ==
  CASE r.type = "XAStart" -> "started"
    [] r.type = "XAEnd" -> (CASE "SUSPEND" \in r.flags -> "suspended"
                              [] "FAIL" \in r.flags -> "failing"
                              [] OTHER -> "ended")
    [] r.type = "XAPrepare" -> IF ReturnCode(w) = "RdOnly" THEN "readonly" ELSE "prepared"
    [] r.type = "XACommit" -> "committed"
    [] r.type = "XARollback" -> "rolledback"
    [] OTHER -> told.fate[r.xid]

AfterXa(k, r, w) ==
  LET x == r.xid
      free(ks) == [j \in Conns |-> IF j \in ks /\ told.branchOf[j] = x THEN NoXid
                                   ELSE told.branchOf[j]]
  IN
  IF ~IsOk(w)
  THEN [told EXCEPT !.acked[k] = {},
                    !.fate[x] = IF @ \in Doubt(r.type) THEN "indoubt" ELSE @,
                    !.branchOf = IF r.type = "XAEnd" THEN free({k}) ELSE @]
  ELSE [told EXCEPT
          !.fate[x] = FateAfter(r, w),
          !.branchOf = IF r.type = "XAStart" THEN [free(Conns) EXCEPT ![k] = x] ELSE free(Conns),
          !.inBranch[x] = IF r.type = "XAStart" /\ "RESUME" \notin r.flags THEN {} ELSE @]

\* ... and sends the request under a second, unless its flags are refused.
XaSend(t, type, x, flags) ==
  /\ at[t] # Idle
  /\ flags \subseteq AllowedFlags[type]
  /\ LET k == at[t]
         r == XaRequest(k, type, x, flags)
     IN  \E w \in FullSend(db, conn[k], r) : Receive(k, w) /\ told' = AfterXa(k, r, w)
  /\ at' = [at EXCEPT ![t] = Idle]
  /\ UNCHANGED <<builder, pool>>

\* recover asks without a look at the auto-commit mode.
XaRecover(k) ==
  /\ Exists(k) /\ k \notin pool
  /\ \E w \in FullSend(db, conn[k], Request(k, "XARecover")) :
       /\ Receive(k, w)
       /\ told' = IF IsOk(w)
                  THEN [told EXCEPT !.missed = {x \in Xids : told.fate[x] = "prepared"}
                                               \ w.answer.list]
                  ELSE [told EXCEPT !.acked[k] = {}]
  /\ UNCHANGED <<builder, pool, at>>

XaCalls == {<<"XAStart", {}>>, <<"XAStart", {"RESUME"}>>, <<"XAEnd", {"SUCCESS"}>>,
            <<"XAEnd", {"SUSPEND"}>>, <<"XAEnd", {"FAIL"}>>, <<"XAEnd", {"ONE_PHASE"}>>,
            <<"XAPrepare", {}>>, <<"XACommit", {}>>, <<"XACommit", {"ONE_PHASE"}>>,
            <<"XARollback", {}>>, <<"XAForget", {}>>}

-----------------------------------------------------------------------------
Init ==
  /\ builder = NewBuilder
  /\ conn = [k \in Conns |-> NoConn]
  /\ pool = {}
  /\ at = [t \in Threads |-> Idle]
  /\ db = [sessions |-> << >>, durable |-> {}, vanished |-> {},
           branches |-> [x \in Xids |-> NoBranch]]
  /\ told = [expects |-> [k \in Conns |-> TRUE],
             acked |-> [k \in Conns |-> {}], promised |-> {}, undone |-> {},
             branchOf |-> [k \in Conns |-> NoXid], inBranch |-> [x \in Xids |-> {}],
             fate |-> [x \in Xids |-> "none"], missed |-> {}]

BuilderNext ==
  \/ SetHostname \/ SetPort \/ SetDbuser \/ SetPassword \/ UnsetPassword
  \/ SetClientlocale \/ ClientlocaleFromEnvLang \/ TlsWith \/ Option \/ FromUrl

Next ==
  \/ BuilderNext
  \/ New
  \/ \E k, j \in Conns : Spawn(k, j)
  \/ \E k \in Conns :
       PoolConnect(k) \/ CheckIn(k) \/ CheckOut(k) \/ Drop(k)
       \/ Insert(k) \/ Commit(k) \/ Rollback(k) \/ XaRecover(k)
       \/ \E on \in BOOLEAN : SetAutoCommit(k, on)
  \/ \E t \in Threads, k \in Conns : XaCheck(t, k)
  \/ \E t \in Threads, x \in Xids, call \in XaCalls : XaSend(t, call[1], x, call[2])
  \/ \E s \in DOMAIN db.sessions : LoseSession(s)

Spec == Init /\ [][Next]_vars

-----------------------------------------------------------------------------
(* Properties.                                                             *)

\* The URL of a builder whose texts need no escapes gives the builder back; the
\* connect string of a connection is the URL of its builder, and no way through a
\* URL turns TLS off, whatever the texts (to_url, Display of ConnectParams,
\* IntoConnectParamsBuilder for Url).
UrlsReflect == UrlReflects(builder) /\ TlsIsKept(builder)

\* A session knows what its client needs it to know, after any number of
\* reconnects: the locale, the user, the format of the data, and which
\* session it replaces (for_server, digest_server_connect_options, the
\* OriginalAnchorConnectionID of second_auth_request).
SessionsAreConfigured ==
  /\ \A s \in DOMAIN db.sessions :
       LET o == db.sessions[s].options IN
       /\ o.OSUser = OsUserName /\ o.DataFormatVersion2 = 8
       /\ IF db.sessions[s].replaces = 0 THEN "OriginalAnchorConnectionID" \notin DOMAIN o
          ELSE o.OriginalAnchorConnectionID = db.sessions[s].replaces
  /\ \A k \in Conns : Exists(k) =>
       /\ conn[k].options.ConnectionID = conn[k].session
       /\ LET s == db.sessions[conn[k].session] IN
         IF conn[k].locale = None THEN "ClientLocale" \notin DOMAIN s.options
          ELSE s.options.ClientLocale = conn[k].locale

\* What the program was told to be committed is durable, or was rolled back
\* with a session that was lost before the commit came (execute, the commit
\* flag, full_send_sync's repetition); what it rolled back, or left behind when
\* it dropped the connection, is never durable (rollback, spawn's settings,
\* drop_impl).
TransactionsAreKept ==
  /\ told.promised \subseteq db.durable \cup db.vanished
  /\ told.undone \cap db.durable = {}

\* A branch is durable as a whole or not at all (HdbCResourceManager).
BranchesAreAtomic ==
  \A x \in Xids :
    /\ told.fate[x] = "committed" => told.inBranch[x] \subseteq db.durable
    /\ told.fate[x] \in {"rolledback", "failing", "ended", "prepared"} =>
         told.inBranch[x] \cap db.durable = {}
    /\ told.fate[x] = "readonly" => told.inBranch[x] = {}

\* A branch whose preparation was confirmed waits for its decision with all
\* that was done in it, and recover lists it (prepare, recover).
PreparedSurvive ==
  /\ \A x \in Xids : told.fate[x] = "prepared" =>
       db.branches[x].state = "prepared" /\ db.branches[x].changes = told.inBranch[x]
  /\ told.missed = {}

\* The pool hands out no connection whose session has ended (is_valid).
HandedOutAnswers ==
  [][\A k \in pool \ pool' : conn'[k].session # 0 => db'.sessions[conn'[k].session].open]_vars

\* "Commits the current transaction.": what was acknowledged before a commit
\* that returns Ok is durable.
CommitsAreComplete == told.promised \subseteq db.durable
=============================================================================
