----------------------------- MODULE AmConnCore -----------------------------
(***************************************************************************)
(* The connection core of hdbconnect: clones of a Connection, used by      *)
(* several threads, share one ConnectionCore behind a mutex (AmConnCore).  *)
(* A call locks the core, augments its request, sends it and waits for the *)
(* reply (roundtrip_sync); on a ConnectionReset it reconnects and repeats  *)
(* the request once.  The reply is digested after the lock was released    *)
(* and taken a second time.                                                *)
(*                                                                         *)
(* The database server and the TCP connection are external: they are       *)
(* modelled as the code uses them.                                         *)
(***************************************************************************)
EXTENDS Integers, Sequences, FiniteSets

CONSTANTS
  Threads,     \* the threads that hold a clone of the Connection
  Creator,     \* the thread that runs Connection::new
  Calls,       \* identities of the calls the threads may make
  NoThread,    \* "the mutex is free"
  NoCall,      \* "no call"
  ReplyKinds,  \* the kinds of replies the server gives to a call
  StraySeqs,   \* statement sequences that garbled bytes may be read as
  Faults,      \* the faults of network and server that are considered
  MaxFaults,   \* bound on the number of connection losses
  MaxInfo      \* bound on the number of changes of the client info

AllReplyKinds == {"plain", "flags", "closing", "warning", "resultset", "error", "fatal", "errors"}
AllFaults == {"reset", "close", "cut", "parse", "refuse"}

ASSUME ConstantsAssumption ==
  /\ Creator \in Threads /\ NoThread \notin Threads
  /\ NoCall \notin Calls
  /\ ReplyKinds \subseteq AllReplyKinds
  /\ StraySeqs \subseteq Nat
  /\ Faults \subseteq AllFaults
  /\ MaxFaults \in Nat /\ MaxInfo \in Nat

VARIABLES
  \* --- the mutex and the ConnectionCore it protects
  lock,      \* the thread that holds the guard, or NoThread
  poisoned,  \* a thread panicked while it held the guard
  alive,     \* the threads that own a clone of the Arc
  core,      \* the fields of ConnectionCore
  \* --- the threads
  pc,        \* where each thread is
  callOf,    \* the call each thread is executing
  rep,       \* the reply each thread is about to digest
  req,       \* the augmented request of the lock holder
  attempt,   \* 1, or 2 when the lock holder repeats its request
  \* --- the TCP connection
  tcp,       \* its identity and state
  toServer, toClient,
  garbled,   \* unread bytes of an earlier reply precede the next one
  losses,    \* number of connection losses so far
  \* --- the server (external)
  srv,       \* phase of the current connection, session id, stored info
  stale,     \* requests of lost connections the server still works on
  \* --- history
  outcome,   \* what became of each call
  sent,      \* the TCP connections each call was emitted on
  execs,     \* how often the server executed each call
  misread    \* the calls that took the remains of an earlier reply for theirs

mutexVars  == <<lock, poisoned, alive>>
threadVars == <<pc, callOf, rep, req, attempt>>
wireVars   == <<tcp, toServer, toClient, garbled, losses>>
serverVars == <<srv, stale>>
histVars   == <<outcome, sent, execs, misread>>
vars == <<mutexVars, core, threadVars, wireVars, serverVars, histVars>>

Labels == {"idle", "lock", "emit", "read", "dial", "emitAuth", "readAuth",
           "emitConnect", "readConnect", "digest", "relock", "panicked", "gone"}

InHandshake == {"emitAuth", "readAuth", "emitConnect", "readConnect"}
Emitting == {"emit", "emitAuth", "emitConnect"}
Reading  == {"read", "readAuth", "readConnect"}

\* The thread is inside full_send_sync (or Connection::new) with the guard.
Holding == Emitting \cup Reading \cup {"dial", "relock"}

AuthSeq_Negative == -1   \* bug variant
AuthSeq == 1   \* the sequence number of every Authenticate request

Message(type, session, seq, call) ==
  [type |-> type, session |-> session, seq |-> seq, call |-> call, info |-> 0, ctx |-> 0]

Reply(kind, session, call, ctx) ==
  [kind |-> kind, session |-> session, call |-> call, ctx |-> ctx]

NoReply == Reply("none", 0, NoCall, 0)
NoRequest == [info |-> 0, ctx |-> 0]

\* Connection::new was called: the ConnectionCore is not yet shared.
Constructing(t) == t \notin alive

-----------------------------------------------------------------------------
(* Init is the state in which Connection::new calls TcpClient::try_new.    *)

Init ==
  /\ lock = Creator /\ poisoned = FALSE /\ alive = {}
  /\ core = [authenticated |-> FALSE, sessionId |-> 0, seqNumber |-> 0,
             clientInfo |-> 0, touched |-> TRUE, stmtSeq |-> 0,
             dead |-> FALSE, warnings |-> {}]
  /\ pc = [t \in Threads |-> IF t = Creator THEN "dial" ELSE "idle"]
  /\ callOf = [t \in Threads |-> NoCall]
  /\ rep = [t \in Threads |-> NoReply]
  /\ req = NoRequest /\ attempt = 1
  /\ tcp = [id |-> 0, state |-> "closed"]
  /\ toServer = <<>> /\ toClient = <<>> /\ garbled = FALSE /\ losses = 0
  /\ srv = [phase |-> "new", sid |-> 0, info |-> 0, seq |-> 0]
  /\ stale = {}
  /\ outcome = [c \in Calls |-> "new"]
  /\ sent = [c \in Calls |-> <<>>]
  /\ execs = [c \in Calls |-> 0]
  /\ misread = {}

-----------------------------------------------------------------------------
(* How a call ends.                                                        *)

\* The call of t returns to the user with Ok or Err; the guard, if t held
\* it, is dropped.
Return(t, result) ==
  /\ outcome' = [outcome EXCEPT ![callOf[t]] = result]
  /\ callOf' = [callOf EXCEPT ![t] = NoCall]
  /\ pc' = [pc EXCEPT ![t] = "idle"]
  /\ rep' = [rep EXCEPT ![t] = NoReply]
  /\ lock' = IF lock = t THEN NoThread ELSE lock
  /\ req' = IF lock = t THEN NoRequest ELSE req
  /\ attempt' = IF lock = t THEN 1 ELSE attempt

\* Connection::new fails: there is no connection object.
FailConstruction(t) ==
  /\ pc' = [pc EXCEPT ![t] = "gone"]
  /\ lock' = NoThread
  /\ UNCHANGED <<outcome, callOf, rep, req, attempt>>

Fail(t) == IF Constructing(t) THEN FailConstruction(t) ELSE Return(t, "err")

-----------------------------------------------------------------------------
(* Calls of the user that need the mutex only for a moment.                *)

CanAcquire_IgnoresHolder == ~poisoned          \* bug variant
CanAcquire_IgnoresPoison == lock = NoThread    \* bug variant

\* lock() succeeds.
CanAcquire == lock = NoThread /\ ~poisoned

SetApplication(t) ==
  /\ pc[t] = "idle" /\ t \in alive /\ CanAcquire
  /\ core.clientInfo < MaxInfo
  /\ core' = [core EXCEPT !.clientInfo = @ + 1, !.touched = TRUE]
  /\ UNCHANGED <<mutexVars, threadVars, wireVars, serverVars, histVars>>

PopWarnings(t) ==
  /\ pc[t] = "idle" /\ t \in alive /\ CanAcquire
  /\ core.warnings # {}
  /\ core' = [core EXCEPT !.warnings = {}]
  /\ UNCHANGED <<mutexVars, threadVars, wireVars, serverVars, histVars>>

-----------------------------------------------------------------------------
(* A call: full_send_sync.                                                 *)

StartCall(t, c) ==
  /\ pc[t] = "idle" /\ t \in alive /\ outcome[c] = "new"
  /\ pc' = [pc EXCEPT ![t] = "lock"]
  /\ callOf' = [callOf EXCEPT ![t] = c]
  /\ outcome' = [outcome EXCEPT ![c] = "open"]
  /\ UNCHANGED <<mutexVars, core, rep, req, attempt, wireVars, serverVars, sent, execs, misread>>

\* Bug variant: the client info is only sent together with a statement
\* sequence, although it counts as sent.
Augmentation_InfoNested ==
  IF core.authenticated
  THEN [ctx |-> core.stmtSeq,
        info |-> IF core.touched /\ core.stmtSeq > 0 THEN core.clientInfo + 1 ELSE 0]
  ELSE NoRequest

\* The parts augment_request adds; 0 stands for "no such part".
Augmentation ==
  IF core.authenticated
  THEN [ctx |-> core.stmtSeq, info |-> IF core.touched THEN core.clientInfo + 1 ELSE 0]
  ELSE NoRequest

LockAndAugment(t) ==
  /\ pc[t] = "lock" /\ CanAcquire
  /\ lock' = t
  /\ req' = Augmentation
  /\ core' = [core EXCEPT !.touched = @ /\ ~core.authenticated]
  /\ attempt' = 1
  /\ pc' = [pc EXCEPT ![t] = "emit"]
  /\ UNCHANGED <<poisoned, alive, callOf, rep, wireVars, serverVars, histVars>>

\* Bug variant: the digestion of a reply waits for ever.
LockIsPoisoned_OnlyBeforeSend(t) ==
  /\ pc[t] = "lock" /\ lock = NoThread /\ poisoned
  /\ Return(t, "err")
  /\ UNCHANGED <<poisoned, alive, core, wireVars, serverVars, sent, execs, misread>>

\* Bug variant: a poisoned mutex is taken for a success.
LockIsPoisoned_Ignored(t) ==
  /\ pc[t] \in {"lock", "digest"} /\ lock = NoThread /\ poisoned
  /\ Return(t, "ok")
  /\ UNCHANGED <<poisoned, alive, core, wireVars, serverVars, sent, execs, misread>>

\* lock()? on a poisoned mutex: before the send, or before the digestion.
LockIsPoisoned(t) ==
  /\ pc[t] \in {"lock", "digest"} /\ lock = NoThread /\ poisoned
  /\ Return(t, "err")
  /\ UNCHANGED <<poisoned, alive, core, wireVars, serverVars, sent, execs, misread>>

\* roundtrip_sync, first half: every emission takes a new sequence number.
EmitCall(t) ==
  LET m == [Message("Call", core.sessionId, core.seqNumber + 1, callOf[t])
              EXCEPT !.info = req.info, !.ctx = req.ctx]
  IN
  /\ pc[t] = "emit" /\ tcp.state = "up"
  /\ core' = [core EXCEPT !.seqNumber = @ + 1]
  /\ toServer' = Append(toServer, m)
  /\ sent' = [sent EXCEPT ![callOf[t]] = Append(@, tcp.id)]
  /\ pc' = [pc EXCEPT ![t] = "read"]
  /\ UNCHANGED <<mutexVars, callOf, rep, req, attempt, tcp, toClient, garbled, losses,
                 serverVars, outcome, execs, misread>>

\* handle_db_error begins with warnings.clear().
WarningsOf(r) == IF r.kind = "warning" THEN {r.call} ELSE {}

HasReply(t, at) == pc[t] = at /\ toClient # <<>> /\ ~garbled

\* roundtrip_sync, second half, without a server error: the guard is
\* dropped, the reply is digested later.
TakeReply(t, r) ==
  /\ r.kind \notin {"error", "fatal", "errors", "cut"}
  /\ core' = [core EXCEPT !.warnings = WarningsOf(r)]
  /\ rep' = [rep EXCEPT ![t] = r]
  /\ pc' = [pc EXCEPT ![t] = "digest"]
  /\ lock' = NoThread /\ req' = NoRequest /\ attempt' = 1
  /\ UNCHANGED <<poisoned, callOf, outcome>>

\* handle_db_error with one server error: its context is digested at once, and
\* the transaction flag that announces the end of the session ("fatal").
TakeError(t, r) ==
  /\ r.kind \in {"error", "fatal"}
  /\ core' = [core EXCEPT !.warnings = {}, !.stmtSeq = r.ctx,
                         !.dead = @ \/ r.kind = "fatal"]
  /\ Return(t, "err")
  /\ UNCHANGED poisoned

\* handle_db_error with several server errors and no execution results:
\* unreachable!() panics while the guard is alive, which poisons the mutex.
TakeErrors(t, r) ==
  /\ r.kind = "errors"
  /\ core' = [core EXCEPT !.warnings = {}, !.stmtSeq = r.ctx]
  /\ poisoned' = TRUE /\ lock' = NoThread /\ req' = NoRequest /\ attempt' = 1
  /\ pc' = [pc EXCEPT ![t] = "panicked"]
  /\ callOf' = [callOf EXCEPT ![t] = NoCall]
  /\ outcome' = [outcome EXCEPT ![callOf[t]] = "err"]
  /\ UNCHANGED rep

ReadReply(t) ==
  /\ HasReply(t, "read")
  /\ TakeReply(t, Head(toClient))
  /\ toClient' = Tail(toClient)
  /\ UNCHANGED <<alive, tcp, toServer, garbled, losses, serverVars, sent, execs, misread>>

ReadError(t) ==
  /\ HasReply(t, "read")
  /\ TakeError(t, Head(toClient))
  /\ toClient' = Tail(toClient)
  /\ UNCHANGED <<alive, tcp, toServer, garbled, losses, serverVars, sent, execs, misread>>

ReadErrors(t) ==
  /\ HasReply(t, "read")
  /\ TakeErrors(t, Head(toClient))
  /\ toClient' = Tail(toClient)
  /\ UNCHANGED <<alive, tcp, toServer, garbled, losses, serverVars, sent, execs, misread>>

\* The connection is lost, or the content of the reply is not understood,
\* after a ResultSet part was parsed: unwinding
\* Reply::parse drops the ResultSet, ResultSetCore::drop calls send_sync, and
\* that locks the mutex the thread already holds.
ReadCutReply(t) ==
  /\ HasReply(t, "read")
  /\ \/ Head(toClient).kind = "cut"
     \/ Head(toClient).kind = "resultset" /\ "parse" \in Faults
  /\ pc' = [pc EXCEPT ![t] = "relock"]
  /\ toClient' = Tail(toClient)
  /\ UNCHANGED <<mutexVars, core, callOf, rep, req, attempt, tcp, toServer, garbled, losses,
                 serverVars, histVars>>

\* Reply::parse gives up on the content; what it did not read stays in the
\* BufReader.
ParseFails(t) ==
  /\ "parse" \in Faults
  /\ HasReply(t, "read") /\ Head(toClient).kind # "cut"
  /\ toClient' = Tail(toClient)
  /\ garbled' \in BOOLEAN
  /\ Return(t, "err")
  /\ UNCHANGED <<poisoned, alive, core, tcp, toServer, losses, serverVars, sent, execs, misread>>

\* The remains of an earlier reply are taken for a message header, and it is not
\* one.
ReadGarbled(t) ==
  /\ pc[t] = "read" /\ garbled
  /\ Return(t, "err")
  /\ UNCHANGED <<poisoned, alive, core, wireVars, serverVars, sent, execs, misread>>

\* Or it could be one: of a message header only the number of segments is looked
\* at, and of a segment header the kind and the type of the reply, not the
\* session id, the sequence number and the sizes.  What follows is parsed as the
\* parts of the reply, whatever it is: the call of t gets any kind of reply, or
\* an error behind a ResultSet part.  The reader is still somewhere in the stream:
\* the next call may find the remains of this reply, or the reply of this call.
Misread(t) ==
  /\ pc[t] = "read" /\ garbled
  /\ \E kind \in ReplyKinds, ctx \in StraySeqs :
       LET r == Reply(kind, 0, NoCall, ctx) IN
       \/ TakeReply(t, r) \/ TakeError(t, r) \/ TakeErrors(t, r)
       \/ /\ kind = "resultset"
          /\ pc' = [pc EXCEPT ![t] = "relock"]
          /\ UNCHANGED <<lock, poisoned, core, callOf, rep, req, attempt, outcome>>
  /\ misread' = misread \cup {callOf[t]}
  /\ UNCHANGED <<alive, wireVars, serverVars, sent, execs>>

CanRepeat_Always == TRUE   \* bug variant

\* The request was not yet repeated.
CanRepeat == attempt = 1

\* A read or write fails.  ConnectionReset is reported once, and only the
\* first attempt of a call reacts to it; after that, and when the server
\* closed the connection, other errors are reported.
IoError(t) ==
  /\ pc[t] \in Emitting \cup Reading
  /\ tcp.state # "up"
  /\ pc[t] \in Reading => toClient = <<>>
  /\ tcp' = [tcp EXCEPT !.state = "closed"]
  /\ IF pc[t] \in {"emit", "read"} /\ tcp.state = "reset" /\ CanRepeat
     THEN /\ pc' = [pc EXCEPT ![t] = "dial"]
          /\ attempt' = 2
          /\ UNCHANGED <<lock, callOf, rep, req, outcome>>
     ELSE Fail(t)
  /\ core' = IF pc[t] \in {"emit", "emitConnect"}
             THEN [core EXCEPT !.seqNumber = @ + 1] ELSE core
  /\ UNCHANGED <<poisoned, alive, toServer, toClient, garbled, losses, serverVars, sent, execs, misread>>

-----------------------------------------------------------------------------
(* ConnectionCore::try_new and reconnect: a new TCP connection, then two   *)
(* roundtrips that authenticate it.                                        *)

Disconnected_ForgetsSequence ==   \* bug variant
  [core EXCEPT !.authenticated = FALSE, !.sessionId = 0, !.stmtSeq = 0]

Disconnected_KeepsSession == [core EXCEPT !.authenticated = FALSE]   \* bug variant

Disconnected == [core EXCEPT !.authenticated = FALSE, !.sessionId = 0]

Dial(t) ==
  /\ pc[t] = "dial"
  /\ tcp' = [id |-> tcp.id + 1, state |-> "up"]
  /\ toServer' = <<>> /\ toClient' = <<>> /\ garbled' = FALSE
  /\ srv' = [srv EXCEPT !.phase = "new"]
  /\ core' = Disconnected
  /\ pc' = [pc EXCEPT ![t] = "emitAuth"]
  /\ UNCHANGED <<mutexVars, callOf, rep, req, attempt, losses, stale, histVars>>

\* The connection cannot be opened: the core keeps the broken one.
DialFails(t) ==
  /\ "refuse" \in Faults
  /\ pc[t] = "dial"
  /\ Fail(t)
  /\ UNCHANGED <<poisoned, alive, core, wireVars, serverVars, sent, execs, misread>>

\* The first request has the fixed session id 0 and sequence number 1.
EmitAuthenticate(t) ==
  /\ pc[t] = "emitAuth" /\ tcp.state = "up"
  /\ toServer' = Append(toServer, Message("Authenticate", 0, AuthSeq, NoCall))
  /\ pc' = [pc EXCEPT ![t] = "readAuth"]
  /\ UNCHANGED <<mutexVars, core, callOf, rep, req, attempt, tcp, toClient, garbled, losses,
                 serverVars, histVars>>

ReadChallenge(t) ==
  /\ HasReply(t, "readAuth") /\ Head(toClient).kind = "challenge"
  /\ toClient' = Tail(toClient)
  /\ core' = [core EXCEPT !.warnings = {}]
  /\ pc' = [pc EXCEPT ![t] = "emitConnect"]
  /\ UNCHANGED <<mutexVars, callOf, rep, req, attempt, tcp, toServer, garbled, losses,
                 serverVars, histVars>>

EmitConnect(t) ==
  /\ pc[t] = "emitConnect" /\ tcp.state = "up"
  /\ core' = [core EXCEPT !.seqNumber = @ + 1]
  /\ toServer' = Append(toServer,
                        Message("Connect", core.sessionId, core.seqNumber + 1, NoCall))
  /\ pc' = [pc EXCEPT ![t] = "readConnect"]
  /\ UNCHANGED <<mutexVars, callOf, rep, req, attempt, tcp, toClient, garbled, losses,
                 serverVars, histVars>>

\* The core after the second reply of the handshake.
WithSession(r) ==
  [core EXCEPT !.sessionId = r.session, !.authenticated = TRUE, !.warnings = {}]

\* Authenticated.  Connection::new hands out the object (here: with a clone
\* for every thread); a reconnect repeats the request of its call.
ReadSession(t) ==
  /\ HasReply(t, "readConnect") /\ Head(toClient).kind = "session"
  /\ toClient' = Tail(toClient)
  /\ core' = WithSession(Head(toClient))
  /\ IF Constructing(t)
     THEN /\ alive' = Threads /\ lock' = NoThread
          /\ pc' = [pc EXCEPT ![t] = "idle"]
     ELSE /\ pc' = [pc EXCEPT ![t] = "emit"]
          /\ UNCHANGED <<alive, lock>>
  /\ UNCHANGED <<poisoned, callOf, rep, req, attempt, tcp, toServer, garbled, losses,
                 serverVars, histVars>>

\* The server answers a handshake request with an error.
ReadRefusal(t) ==
  /\ \E at \in {"readAuth", "readConnect"} : HasReply(t, at)
  /\ Head(toClient).kind = "error"
  /\ toClient' = Tail(toClient)
  /\ core' = [core EXCEPT !.warnings = {}]
  /\ Fail(t)
  /\ UNCHANGED <<poisoned, alive, tcp, toServer, garbled, losses, serverVars, sent, execs, misread>>

-----------------------------------------------------------------------------
(* into_internal_return_values: a second critical section.                 *)

Digest(t) ==
  LET r == rep[t]
      isDead == core.dead \/ r.kind = "closing"
      hasFlags == r.kind \in {"flags", "closing"}
  IN
  /\ pc[t] = "digest" /\ CanAcquire
  /\ core' = [core EXCEPT !.stmtSeq = r.ctx, !.dead = isDead]
  /\ Return(t, IF hasFlags /\ isDead THEN "err" ELSE "ok")
  /\ UNCHANGED <<poisoned, alive, wireVars, serverVars, sent, execs, misread>>

\* A clone goes out of scope; the last one drops the ConnectionCore, which
\* sends a Disconnect request and closes the socket.
DropClone(t) ==
  /\ pc[t] \in {"idle", "panicked"} /\ t \in alive
  /\ alive' = alive \ {t}
  /\ pc' = [pc EXCEPT ![t] = "gone"]
  /\ IF alive = {t} /\ core.authenticated
     THEN /\ core' = [core EXCEPT !.seqNumber = @ + 1]
          /\ toServer' = IF tcp.state = "up"
                         THEN Append(toServer, Message("Disconnect", core.sessionId,
                                                       core.seqNumber + 1, NoCall))
                         ELSE toServer
     ELSE UNCHANGED <<core, toServer>>
  /\ tcp' = IF alive = {t} THEN [tcp EXCEPT !.state = "closed"] ELSE tcp
  /\ UNCHANGED <<lock, poisoned, callOf, rep, req, attempt, toClient, garbled, losses,
                 serverVars, histVars>>

-----------------------------------------------------------------------------
(* The server (external).                                                  *)

Answer(r) == toClient' = IF garbled THEN toClient ELSE Append(toClient, r)

SrvAuthenticate ==
  /\ toServer # <<>> /\ Head(toServer).type = "Authenticate"
  /\ toServer' = Tail(toServer)
  /\ \/ Answer(Reply("challenge", 0, NoCall, 0)) /\ srv' = [srv EXCEPT !.phase = "challenged"]
     \/ "refuse" \in Faults /\ Answer(Reply("error", 0, NoCall, 0)) /\ UNCHANGED srv
  /\ UNCHANGED <<mutexVars, core, threadVars, tcp, garbled, losses, stale, histVars>>

\* With the OriginalAnchorConnectionID the server continues the former
\* session under a new session id.
SrvConnect ==
  /\ toServer # <<>> /\ Head(toServer).type = "Connect"
  /\ toServer' = Tail(toServer)
  /\ \/ /\ Answer(Reply("session", srv.sid + 1, NoCall, 0))
        /\ srv' = [srv EXCEPT !.phase = "session", !.sid = @ + 1]
     \/ "refuse" \in Faults /\ Answer(Reply("error", 0, NoCall, 0)) /\ UNCHANGED srv
  /\ UNCHANGED <<mutexVars, core, threadVars, tcp, garbled, losses, stale, histVars>>

InSession(m) == srv.phase = "session" /\ m.session = srv.sid

\* An execution within the session of the connection.
SrvExecute ==
  LET m == Head(toServer) IN
  /\ toServer # <<>> /\ m.type = "Call" /\ InSession(m)
  /\ toServer' = Tail(toServer)
  /\ execs' = [execs EXCEPT ![m.call] = @ + 1]
  /\ srv' = [srv EXCEPT !.seq = @ + 1, !.info = IF m.info > 0 THEN m.info ELSE @]
  /\ \E kind \in ReplyKinds : Answer(Reply(kind, srv.sid, m.call, srv.seq + 1))
  /\ UNCHANGED <<mutexVars, core, threadVars, tcp, garbled, losses, stale, outcome, sent, misread>>

\* A call outside of a session is not executed; the server cuts it off.
SrvReject ==
  LET m == Head(toServer) IN
  /\ toServer # <<>> /\ m.type = "Call" /\ ~InSession(m)
  /\ toServer' = Tail(toServer)
  /\ \/ Answer(Reply("error", 0, m.call, srv.seq)) /\ UNCHANGED tcp
     \/ /\ tcp' = [tcp EXCEPT !.state = IF @ = "up" THEN "reset" ELSE @]
        /\ UNCHANGED toClient
  /\ UNCHANGED <<mutexVars, core, threadVars, garbled, losses, srv, stale, histVars>>

SrvDisconnect ==
  /\ toServer # <<>> /\ Head(toServer).type = "Disconnect"
  /\ toServer' = Tail(toServer)
  /\ srv' = [srv EXCEPT !.phase = "new"]
  /\ UNCHANGED <<mutexVars, core, threadVars, tcp, toClient, garbled, losses, stale, histVars>>

\* A request of a lost connection had reached the server and is executed,
\* possibly after the client has repeated it; its session was taken over by
\* the new connection, only the statement itself still takes effect.
SrvExecuteStale ==
  /\ \E m \in stale :
       /\ stale' = stale \ {m}
       /\ execs' = [execs EXCEPT ![m.call] = @ + 1]
       /\ srv' = [srv EXCEPT !.seq = @ + 1]
  /\ UNCHANGED <<mutexVars, core, threadVars, wireVars, outcome, sent, misread>>

-----------------------------------------------------------------------------
(* Loss of the TCP connection: a reset, or the end of the stream.  The     *)
(* request under way is lost or still reaches the server; the reply under  *)
(* way is lost, cut, or still readable.                                    *)

Cut(replies) ==
  IF "cut" \in Faults /\ replies # <<>> /\ Head(replies).kind = "resultset"
  THEN <<[Head(replies) EXCEPT !.kind = "cut"]>> ELSE <<>>

CallsIn(msgs) == {msgs[i] : i \in {j \in DOMAIN msgs : msgs[j].type = "Call" /\ InSession(msgs[j])}}

LoseConnection(fault, state) ==
  /\ fault \in Faults
  /\ tcp.state = "up" /\ losses < MaxFaults
  /\ losses' = losses + 1
  /\ tcp' = [tcp EXCEPT !.state = state]
  /\ toServer' = <<>>
  /\ stale' \in {stale, stale \cup CallsIn(toServer)}
  /\ toClient' \in {<<>>, Cut(toClient), toClient}
  /\ UNCHANGED <<mutexVars, core, threadVars, garbled, srv, histVars>>

Reset == LoseConnection("reset", "reset")
Close == LoseConnection("close", "closed")

-----------------------------------------------------------------------------
CallStep(t) ==
  \/ LockAndAugment(t) \/ LockIsPoisoned(t) \/ EmitCall(t)
  \/ ReadReply(t) \/ ReadError(t) \/ ReadErrors(t) \/ ReadCutReply(t)
  \/ ParseFails(t) \/ IoError(t) \/ Digest(t)

GarbledStep(t) == ReadGarbled(t) \/ Misread(t)

HandshakeStep(t) ==
  \/ Dial(t) \/ DialFails(t) \/ EmitAuthenticate(t) \/ ReadChallenge(t)
  \/ EmitConnect(t) \/ ReadSession(t) \/ ReadRefusal(t)

UserStep(t) ==
  \/ SetApplication(t) \/ PopWarnings(t) \/ DropClone(t)
  \/ \E c \in Calls : StartCall(t, c)

ServerStep ==
  \/ SrvAuthenticate \/ SrvConnect \/ SrvExecute \/ SrvReject \/ SrvDisconnect

Next ==
  \/ \E t \in Threads : CallStep(t) \/ GarbledStep(t) \/ HandshakeStep(t) \/ UserStep(t)
  \/ ServerStep \/ SrvExecuteStale
  \/ Reset \/ Close

Spec == Init /\ [][Next]_vars

\* Threads keep running and the server answers; nobody is forced to make
\* calls, to drop clones or to lose connections.  Whoever reads the remains of a
\* reply may wait for bytes that never come.
Fairness ==
  /\ \A t \in Threads : WF_vars(CallStep(t) \/ HandshakeStep(t))
  /\ WF_vars(ServerStep)

FairSpec == Spec /\ Fairness

-----------------------------------------------------------------------------
(* Properties.                                                             *)

CoreType ==
  [authenticated : BOOLEAN, sessionId : Nat, seqNumber : Nat, clientInfo : Nat,
   touched : BOOLEAN, stmtSeq : Nat, dead : BOOLEAN, warnings : SUBSET (Calls \cup {NoCall})]

MessageType ==
  [type : {"Authenticate", "Connect", "Call", "Disconnect"}, session : Nat, seq : Nat,
   call : Calls \cup {NoCall}, info : Nat, ctx : Nat]

ReplyType ==
  [kind : AllReplyKinds \cup {"none", "challenge", "session", "cut"}, session : Nat,
   call : Calls \cup {NoCall}, ctx : Nat]

RequestType == [info : Nat, ctx : Nat]
TcpType == [id : Nat, state : {"up", "reset", "closed"}]
SrvType == [phase : {"new", "challenged", "session"}, sid : Nat, info : Nat, seq : Nat]

MutexTypes ==
  /\ lock \in Threads \cup {NoThread} /\ poisoned \in BOOLEAN /\ alive \subseteq Threads

ThreadTypes ==
  /\ pc \in [Threads -> Labels]
  /\ callOf \in [Threads -> Calls \cup {NoCall}]
  /\ rep \in [Threads -> ReplyType]
  /\ req \in RequestType /\ attempt \in 1..2

WireTypes ==
  /\ tcp \in TcpType
  /\ toServer \in Seq(MessageType) /\ toClient \in Seq(ReplyType)
  /\ garbled \in BOOLEAN /\ losses \in Nat

ServerTypes ==
  /\ srv \in SrvType
  /\ stale \subseteq MessageType

HistTypes ==
  /\ outcome \in [Calls -> {"new", "open", "ok", "err"}]
  /\ sent \in [Calls -> Seq(Nat)]
  /\ execs \in [Calls -> Nat]
  /\ misread \subseteq Calls \cup {NoCall}

\* The types of all variables.
TypeOK ==
  MutexTypes /\ core \in CoreType /\ ThreadTypes /\ WireTypes /\ ServerTypes /\ HistTypes

\* Replies carry a packet_seq_number, but parse_message_and_sequence_header
\* ignores it: that a reply is digested by the call it answers rests on the
\* mutex alone.  What is under way on the wire belongs to the call of the
\* thread that holds the guard and reads; and nothing is under way while
\* nobody holds it.  Only a call that reads the remains of an earlier reply
\* digests what is not its reply.
ReplyBelongsToCall ==
  /\ ~garbled =>
       \A c \in Calls :
          (\/ \E i \in DOMAIN toServer : toServer[i].call = c
           \/ \E i \in DOMAIN toClient : toClient[i].call = c)
          => /\ lock \in Threads /\ callOf[lock] = c
             /\ pc[lock] = "read"
             /\ Len(toServer) + Len(toClient) = 1
  /\ \A t \in Threads : pc[t] = "digest" => rep[t].call = callOf[t] \/ callOf[t] \in misread

\* A call returns Ok only if the server has executed it, whatever happened to
\* the connection in between, or if it took the remains of an earlier reply for
\* its own.  A call nobody made is not executed.
OkMeansExecuted ==
  \A c \in Calls :
    /\ outcome[c] = "ok" => execs[c] >= 1 \/ c \in misread
    /\ outcome[c] = "new" => execs[c] = 0

\* request.rs says of the sequence number in the message header: "Packets having
\* the same sequence number belong to one request/response pair."  So an answer
\* that makes a call return Ok has the number of its request, and the server has
\* executed it.  Violated: Reply::parse does not look at the number.
SuccessMeansExecuted == \A c \in Calls : outcome[c] = "ok" => execs[c] >= 1

\* full_send_sync repeats a request at most once, and only on a TCP connection
\* that was opened after the request was lost.
RepeatOnFreshConnection ==
  \A c \in Calls :
    /\ Len(sent[c]) <= 2
    /\ Len(sent[c]) = 2 => sent[c][1] < sent[c][2]

\* client_info_touched is reset when the info is put into a request, not when
\* the server has it: a request that is lost takes the info with it, and then its
\* call has failed.  As long as no call has failed (a reset that is repaired by
\* the repetition included), an intact connection between two calls is never
\* left with an untouched info the server does not know.
ClientInfoDelivered ==
  (/\ lock = NoThread /\ tcp.state = "up" /\ core.authenticated /\ ~garbled
   /\ ~core.touched /\ \A c \in Calls : outcome[c] # "err")
  => srv.info = core.clientInfo + 1

\* Every call on its way to the server carries the id of the session that the
\* server has opened on this very connection.  Only when the server may refuse
\* to authenticate a reconnect, the calls after that are without a session; they
\* never carry the id of a former one.
CallsAreInSession ==
  \A i \in DOMAIN toServer : toServer[i].type = "Call" =>
     InSession(toServer[i]) \/ ("refuse" \in Faults /\ toServer[i].session = 0)

\* After a panic under the guard nothing is sent any more.
PoisonSilences == [][poisoned => UNCHANGED sent]_vars

\* As long as no call has read the remains of another one's reply,
\* evaluate_statement_context steps back to the statement sequence of an earlier
\* reply only where threads digest their replies, after the guard is given back,
\* in another order than they received them: never for a thread alone, never
\* under the guard and never by a reconnect.
StatementSequenceGrows ==
  [][core'.stmtSeq < core.stmtSeq /\ misread' = {}
     => \E t \in Threads : /\ Threads # {t}
                           /\ pc[t] = "digest" /\ pc'[t] = "idle"
                           /\ core'.stmtSeq = rep[t].ctx]_vars

WaitsForItself == \E t \in Threads : pc[t] = "relock" /\ lock = t
WaitsInGarbage == \E t \in Threads : pc[t] = "read" /\ garbled

\* No call hangs: each one returns, with the server's reply or an error,
\* whatever happens to the connection and to the other threads, unless a thread
\* waits for the mutex it holds itself (DropDoesNotBlockItself), or for ever for
\* the bytes that the remains of a reply announce.
EveryCallReturns ==
  \/ <>[]WaitsInGarbage
  \/ \A c \in Calls : (outcome[c] = "open") ~> (outcome[c] \in {"ok", "err"} \/ WaitsForItself)

\* resultset.rs:207 says of the drop of a ResultSetCore: "inform the server in
\* case the resultset is not yet closed, ignore all errors"; to inform the
\* server it must not wait for a mutex its own thread holds.
DropDoesNotBlockItself == ~WaitsForItself

-----------------------------------------------------------------------------
(* The inductive invariant behind ReplyBelongsToCall, OkMeansExecuted and  *)
(* RepeatOnFreshConnection.                                                *)

InsideCall == {"lock", "emit", "read", "digest", "relock"}
Connecting == InHandshake \cup {"dial"}

\* The guard is held exactly by the thread inside the critical section; while
\* the connection is under construction there are no clones of it; nobody
\* gets a poisoned guard.
MutexInv ==
  /\ \A t \in Threads : pc[t] \in Holding <=> lock = t
  /\ \A t \in Threads : pc[t] \in InsideCall => t \in alive
  /\ \A t \in Threads : pc[t] \in Connecting /\ t \notin alive => alive = {}
  /\ poisoned => lock = NoThread

\* Which call a thread executes, and that no two threads execute the same.
CallInv ==
  /\ \A t \in Threads :
       /\ pc[t] \in InsideCall => callOf[t] \in Calls
       /\ pc[t] \in Connecting => (callOf[t] \in Calls <=> t \in alive)
       /\ pc[t] \in {"idle", "panicked", "gone"} => callOf[t] = NoCall
  /\ \A t, u \in Threads : callOf[t] \in Calls /\ callOf[t] = callOf[u] => t = u
  /\ \A t \in Threads : callOf[t] \in Calls => outcome[callOf[t]] = "open"

NothingUnderWay == toServer = <<>> /\ toClient = <<>>

RequestUnderWay ==
  /\ Len(toServer) = 1 /\ toClient = <<>> /\ lock \in Threads
  /\ tcp.state = "up"
  /\ \/ pc[lock] = "read" /\ toServer[1].type = "Call" /\ toServer[1].call = callOf[lock]
     \/ pc[lock] \in {"readAuth", "readConnect"} /\ toServer[1].call = NoCall

ReplyUnderWay ==
  /\ toServer = <<>> /\ Len(toClient) = 1 /\ lock \in Threads
  /\ \/ pc[lock] = "read" /\ toClient[1].call = callOf[lock]
     \/ pc[lock] \in {"readAuth", "readConnect"} /\ toClient[1].call = NoCall

DisconnectUnderWay ==
  /\ Len(toServer) = 1 /\ toClient = <<>>
  /\ toServer[1].type = "Disconnect" /\ toServer[1].call = NoCall
  /\ alive = {} /\ lock = NoThread

\* At most one message is under way, and it is the business of the thread
\* that holds the guard.
WireInv ==
  /\ ~garbled => NothingUnderWay \/ RequestUnderWay \/ ReplyUnderWay \/ DisconnectUnderWay
  /\ \A t \in Threads : pc[t] = "digest" => rep[t].call = callOf[t] \/ callOf[t] \in misread

\* What was executed, and what a reply says of it.
ExecInv ==
  /\ \A i \in DOMAIN toServer :
        toServer[i].type = "Call" => /\ toServer[i].call \in Calls
                                     /\ outcome[toServer[i].call] # "new"
  /\ \A m \in stale : m.call \in Calls /\ outcome[m.call] # "new"
  /\ \A i \in DOMAIN toClient :
        toClient[i].call \in Calls /\ toClient[i].kind # "error"
        => execs[toClient[i].call] >= 1
  /\ \A t \in Threads : pc[t] = "digest" => execs[callOf[t]] >= 1 \/ callOf[t] \in misread
  /\ OkMeansExecuted

\* On which connections the call of a thread was sent so far.
SentInv ==
  /\ \A c \in Calls :
       /\ outcome[c] = "new" => sent[c] = <<>>
       /\ \A i \in DOMAIN sent[c] : sent[c][i] <= tcp.id
  /\ \A t \in Threads : callOf[t] \in Calls =>
       /\ pc[t] = "lock" \/ (pc[t] = "emit" /\ attempt = 1) => sent[callOf[t]] = <<>>
       /\ pc[t] = "read" /\ attempt = 1 => Len(sent[callOf[t]]) <= 1
       /\ pc[t] \in Connecting => attempt = 2 /\ Len(sent[callOf[t]]) <= 1
       /\ pc[t] = "emit" => Len(sent[callOf[t]]) <= 1
       /\ pc[t] \in InHandshake \cup {"emit"} =>
             \A i \in DOMAIN sent[callOf[t]] : sent[callOf[t]][i] < tcp.id
  /\ RepeatOnFreshConnection

IInv == TypeOK /\ MutexInv /\ CallInv /\ WireInv /\ ExecInv /\ SentInv

-----------------------------------------------------------------------------
(* What the refinement, CallsAreInSession, ClientInfoDelivered and         *)
(* StatementSequenceGrows need on top of IInv.                             *)

IsCall(m) == m.type = "Call"
InQueue(c) == \E i \in DOMAIN toServer : IsCall(toServer[i]) /\ toServer[i].call = c
StaleOf(c) == {m \in stale : m.call = c}

\* A call on its way was emitted on this very connection, and once.
EmittedHere ==
  \A i \in DOMAIN toServer : IsCall(toServer[i]) =>
     \E k \in DOMAIN sent[toServer[i].call] : sent[toServer[i].call][k] = tcp.id

EmittedOnce ==
  \A i, j \in DOMAIN toServer :
     /\ IsCall(toServer[i]) /\ IsCall(toServer[j])
     /\ toServer[i].call = toServer[j].call
     => i = j

\* An emission leads to one execution at most: those that happened and those
\* that can still happen, from the wire or from a lost connection, are no more
\* than the emissions.
ExecutionsBounded ==
  \A c \in Calls :
     /\ IsFiniteSet(StaleOf(c))
     /\ execs[c] + Cardinality(StaleOf(c)) + (IF InQueue(c) THEN 1 ELSE 0) <= Len(sent[c])

PendingInv == EmittedHere /\ EmittedOnce /\ ExecutionsBounded

\* After the end of the garbled bytes nothing is appended: the stream of replies
\* is empty.
GarbledInv == garbled => toClient = <<>>

\* While the handshake is under way the core is not authenticated, and only then
\* requests of the handshake are on the wire.
HandshakeInv ==
  /\ \A t \in Threads : pc[t] \in InHandshake => ~core.authenticated /\ ~garbled
  /\ \A i \in DOMAIN toServer :
       /\ toServer[i].type \in {"Authenticate", "Connect"} =>
             lock \in Threads /\ pc[lock] \in {"readAuth", "readConnect"} /\ Len(toServer) = 1
       /\ toServer[i].type = "Disconnect" => alive = {} /\ i = Len(toServer)

\* A request of the handshake is answered with an error only if the server may
\* refuse it.
RefusalInv ==
  \A i \in DOMAIN toClient :
     toClient[i].kind = "error" /\ toClient[i].call = NoCall => "refuse" \in Faults

\* A core that is not authenticated is used for a call only if its connection
\* is broken, or the server has refused to authenticate it.
UnauthenticatedInv ==
  ~core.authenticated =>
     /\ \A t \in Threads : pc[t] \in {"emit", "read"} => "refuse" \in Faults \/ tcp.state # "up"
     /\ lock = NoThread /\ alive # {} => "refuse" \in Faults \/ tcp.state # "up"

\* The session of the core is that of the server, while the core is authenticated
\* and somebody has a clone; otherwise its session id is 0.
AgreementInv ==
  /\ ~core.authenticated => core.sessionId = 0
  /\ core.authenticated /\ alive # {} => srv.phase = "session" /\ srv.sid = core.sessionId
  /\ \A i \in DOMAIN toClient :
        toClient[i].kind = "session" => srv.phase = "session" /\ srv.sid = toClient[i].session
  /\ CallsAreInSession

SessionInv == GarbledInv /\ HandshakeInv /\ RefusalInv /\ UnauthenticatedInv /\ AgreementInv

NoCallFailed == \A c \in Calls : outcome[c] # "err"

\* Garbled bytes are what a failed call left; so only after a failure they are
\* taken for a reply.
GarbledFailed == garbled \/ misread # {} => ~NoCallFailed

\* The connection under construction has a client info the server does not know.
TouchedInv == \A t \in Threads : pc[t] \in Connecting /\ t \notin alive => core.touched

\* As long as no call has failed: an untouched client info is known to the
\* server or part of the request under way, until a reply to that is there.
InfoUnderWay ==
  ~core.touched /\ NoCallFailed =>
     /\ lock = NoThread => srv.info = core.clientInfo + 1
     /\ lock \in Threads => /\ req.info \in {0, core.clientInfo + 1}
                            /\ srv.info = core.clientInfo + 1 \/ req.info = core.clientInfo + 1
     /\ \A i \in DOMAIN toServer : IsCall(toServer[i]) => toServer[i].info = req.info
     /\ \A i \in DOMAIN toClient :
           toClient[i].call \in Calls /\ toClient[i].kind # "error"
           => srv.info = core.clientInfo + 1

InfoInv == GarbledFailed /\ TouchedInv /\ InfoUnderWay

\* The statement sequence the core knows is not beyond the server's, and not
\* beyond that of a reply which is still to be digested, unless another thread
\* can digest its reply first.
SequenceBounds ==
  /\ core.stmtSeq <= srv.seq
  /\ \A i \in DOMAIN toClient :
        toClient[i].call \in Calls => core.stmtSeq <= toClient[i].ctx /\ toClient[i].ctx <= srv.seq
  /\ \A t \in Threads : pc[t] = "digest" =>
        /\ rep[t].ctx <= srv.seq
        /\ Threads = {t} => core.stmtSeq <= rep[t].ctx

SequenceInv == misread = {} => SequenceBounds

-----------------------------------------------------------------------------
(* The abstract specification: see RemoteCalls.                            *)

Remote == INSTANCE RemoteCalls WITH
  turn <- IF lock \in Threads THEN callOf[lock] ELSE NoCall,
  status <- [c \in Calls |->
               IF \E t \in Threads : callOf[t] = c /\ pc[t] = "digest"
               THEN "answered" ELSE outcome[c]],
  sends <- [c \in Calls |-> Len(sent[c])],
  effects <- execs

\* What the shared connection promises to its callers (RemoteCalls) is what
\* full_send_sync, reconnect and the digestion of replies implement.
ImplementsRemoteCalls == Remote!Spec

=============================================================================
