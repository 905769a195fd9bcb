-------------------------- MODULE AmConnCoreProofs --------------------------
(***************************************************************************)
(* Proofs about AmConnCore, for every number of threads, calls, connection *)
(* losses and for every set of faults and reply kinds: the types, the      *)
(* inductive invariant, the safety properties that follow from it, and     *)
(* that AmConnCore implements RemoteCalls.  IInv is TypeOK and five parts; *)
(* each has a lemma of its own that says every step preserves it, given    *)
(* the parts it rests on.  PendingInv says why a call cannot be executed   *)
(* more often than it was sent.                                            *)
(***************************************************************************)
EXTENDS AmConnCore, FiniteSetTheorems, SequenceTheorems, TLAPS

-----------------------------------------------------------------------------
(* Lemmas about the data.                                                  *)

\* The first message of a queue, and the rest of it.
LEMMA QueueHead ==
  ASSUME NEW S, NEW q \in Seq(S), q # <<>>
  PROVE  Head(q) \in S /\ Tail(q) \in Seq(S)
OBVIOUS

\* The empty queue has every type.
LEMMA QueueEmpty ==
  ASSUME NEW S
  PROVE  <<>> \in Seq(S)
OBVIOUS

\* A queue with one more message.
LEMMA QueueAppend ==
  ASSUME NEW S, NEW q \in Seq(S), NEW m \in S
  PROVE  Append(q, m) \in Seq(S)
OBVIOUS

\* Message builds messages.
LEMMA MessageHasType ==
  ASSUME NEW type \in {"Authenticate", "Connect", "Call", "Disconnect"},
         NEW session \in Nat, NEW seq \in Nat, NEW call \in Calls \cup {NoCall}
  PROVE  Message(type, session, seq, call) \in MessageType
BY DEF Message, MessageType

\* Reply builds replies.
LEMMA ReplyHasType ==
  ASSUME NEW kind \in AllReplyKinds \cup {"none", "challenge", "session", "cut"},
         NEW session \in Nat, NEW call \in Calls \cup {NoCall}, NEW ctx \in Nat
  PROVE  Reply(kind, session, call, ctx) \in ReplyType
BY DEF Reply, ReplyType

\* What the steps do to the connection core.
LEMMA CoreUpdates ==
  ASSUME core \in CoreType
  PROVE  /\ [core EXCEPT !.seqNumber = @ + 1] \in CoreType
         /\ [core EXCEPT !.clientInfo = @ + 1, !.touched = TRUE] \in CoreType
         /\ [core EXCEPT !.touched = @ /\ ~core.authenticated] \in CoreType
         /\ [core EXCEPT !.warnings = {}] \in CoreType
         /\ [core EXCEPT !.authenticated = FALSE, !.sessionId = 0] \in CoreType
<1>1. core.seqNumber + 1 \in Nat /\ core.clientInfo + 1 \in Nat
  BY DEF CoreType
<1>2. [core EXCEPT !.seqNumber = @ + 1] \in CoreType
  BY <1>1 DEF CoreType
<1>3. [core EXCEPT !.clientInfo = @ + 1, !.touched = TRUE] \in CoreType
  BY <1>1 DEF CoreType
<1>4. /\ [core EXCEPT !.touched = @ /\ ~core.authenticated] \in CoreType
      /\ [core EXCEPT !.warnings = {}] \in CoreType
      /\ [core EXCEPT !.authenticated = FALSE, !.sessionId = 0] \in CoreType
  BY DEF CoreType
<1> QED
  BY <1>2, <1>3, <1>4

\* What the server appends to the stream of replies.
LEMMA AnswerType ==
  ASSUME TypeOK, NEW r \in ReplyType, Answer(r)
  PROVE  toClient' \in Seq(ReplyType)
BY QueueAppend DEF TypeOK, WireTypes, Answer

\* A received reply is well-typed.
LEMMA ReceivedReply ==
  ASSUME TypeOK, NEW t \in Threads, NEW at, HasReply(t, at)
  PROVE  /\ Head(toClient) \in ReplyType
         /\ Tail(toClient) \in Seq(ReplyType)
BY QueueHead DEF TypeOK, WireTypes, HasReply

\* The end of a call preserves the types of what it changes.
LEMMA ReturnTypes ==
  ASSUME TypeOK, NEW t \in Threads, NEW result \in {"ok", "err"}, Return(t, result)
  PROVE  /\ lock' \in Threads \cup {NoThread}
         /\ ThreadTypes'
         /\ outcome' \in [Calls -> {"new", "open", "ok", "err"}]
<1>1. NoReply \in ReplyType
  BY ReplyHasType DEF NoReply
<1>2. lock' \in Threads \cup {NoThread}
  BY DEF TypeOK, MutexTypes, Return
<1>3. req' \in RequestType /\ attempt' \in 1..2
  BY DEF TypeOK, ThreadTypes, Return, NoRequest, RequestType
<1>4. pc' \in [Threads -> Labels]
  BY DEF TypeOK, ThreadTypes, Return, Labels
<1>5. callOf' \in [Threads -> Calls \cup {NoCall}] /\ rep' \in [Threads -> ReplyType]
  BY <1>1 DEF TypeOK, ThreadTypes, Return
<1>6. outcome' \in [Calls -> {"new", "open", "ok", "err"}]
  BY DEF TypeOK, HistTypes, Return
<1> QED
  BY <1>2, <1>3, <1>4, <1>5, <1>6 DEF ThreadTypes

\* So does a failure.
LEMMA FailTypes ==
  ASSUME TypeOK, NEW t \in Threads, Fail(t)
  PROVE  /\ lock' \in Threads \cup {NoThread}
         /\ ThreadTypes'
         /\ outcome' \in [Calls -> {"new", "open", "ok", "err"}]
<1>1. CASE Constructing(t)
  BY <1>1 DEF Fail, FailConstruction, TypeOK, MutexTypes, ThreadTypes, HistTypes, Labels
<1>2. CASE ~Constructing(t)
  BY <1>2, ReturnTypes DEF Fail
<1> QED
  BY <1>1, <1>2

\* What is left of a reply when the connection breaks is well-typed.
LEMMA CutHasType ==
  ASSUME TypeOK
  PROVE  Cut(toClient) \in Seq(ReplyType)
<1>1. CASE "cut" \in Faults /\ toClient # <<>> /\ Head(toClient).kind = "resultset"
  <2>1. Head(toClient) \in ReplyType
    BY <1>1, QueueHead DEF TypeOK, WireTypes
  <2>2. [Head(toClient) EXCEPT !.kind = "cut"] \in ReplyType
    BY <2>1 DEF ReplyType
  <2> QED
    BY <1>1, <2>2 DEF Cut
<1>2. CASE ~("cut" \in Faults /\ toClient # <<>> /\ Head(toClient).kind = "resultset")
  BY <1>2 DEF Cut
<1> QED
  BY <1>1, <1>2

\* What a call can make of the remains of an earlier reply: the guard and the
\* call end as with a reply, but nothing is taken from the wire.
Astray(t) ==
  /\ pc[t] = "read" /\ garbled
  /\ misread' = misread \cup {callOf[t]}
  /\ UNCHANGED <<alive, wireVars, serverVars, sent, execs>>

TakeCut(t) ==
  /\ pc' = [pc EXCEPT ![t] = "relock"]
  /\ UNCHANGED <<lock, poisoned, core, callOf, rep, req, attempt, outcome>>

\* A call that reads the remains of an earlier reply takes them for one of the kinds
\* of replies, or fails behind a ResultSet part.
LEMMA MisreadCases ==
  ASSUME NEW t \in Threads, Misread(t)
  PROVE  \E r \in ReplyType :
            /\ Astray(t) /\ r.call = NoCall
            /\ TakeReply(t, r) \/ TakeError(t, r) \/ TakeErrors(t, r) \/ TakeCut(t)
<1>1. Astray(t)
  BY DEF Misread, Astray
<1>2. PICK kind \in ReplyKinds, ctx \in StraySeqs :
         \/ TakeReply(t, Reply(kind, 0, NoCall, ctx)) \/ TakeError(t, Reply(kind, 0, NoCall, ctx))
         \/ TakeErrors(t, Reply(kind, 0, NoCall, ctx)) \/ TakeCut(t)
  BY DEF Misread, TakeCut
<1> DEFINE r == Reply(kind, 0, NoCall, ctx)
<1>3. r \in ReplyType
  BY ConstantsAssumption, ReplyHasType
<1>4. r.call = NoCall
  BY DEF Reply
<1> QED
  BY <1>1, <1>2, <1>3, <1>4

-----------------------------------------------------------------------------
(* Type correctness.                                                       *)

\* The variables have their types initially.
LEMMA TypeInit == Init => TypeOK
<1> SUFFICES ASSUME Init PROVE TypeOK
  OBVIOUS
<1>1. core \in CoreType
  BY DEF Init, CoreType
<1>2. NoReply \in ReplyType
  BY ReplyHasType DEF NoReply
<1>3. MutexTypes
  BY ConstantsAssumption DEF Init, MutexTypes
<1>4. ThreadTypes
  BY <1>2 DEF Init, ThreadTypes, RequestType, NoRequest, Labels
<1>5. WireTypes
  BY QueueEmpty DEF Init, WireTypes, TcpType
<1>6. ServerTypes
  BY DEF Init, ServerTypes, SrvType
<1>7. HistTypes
  BY DEF Init, HistTypes
<1> QED
  BY <1>1, <1>3, <1>4, <1>5, <1>6, <1>7 DEF TypeOK

\* Every step preserves the types.
LEMMA TypeStep ==
  ASSUME TypeOK, [Next]_vars
  PROVE  TypeOK'
<1> USE DEF TypeOK, MutexTypes, ThreadTypes, WireTypes, ServerTypes, HistTypes,
            mutexVars, threadVars, wireVars, serverVars, histVars
<1>1. ASSUME NEW t \in Threads, LockAndAugment(t) PROVE TypeOK'
  <2>1. core' \in CoreType
    BY <1>1, CoreUpdates DEF LockAndAugment
  <2>2. req' \in RequestType
    BY <1>1 DEF LockAndAugment, Augmentation, NoRequest, CoreType, RequestType
  <2>3. pc' \in [Threads -> Labels]
    BY <1>1 DEF LockAndAugment, Labels
  <2> QED
    BY <1>1, <2>1, <2>2, <2>3 DEF LockAndAugment
<1>2. ASSUME NEW t \in Threads, LockIsPoisoned(t) PROVE TypeOK'
  <2>1. ThreadTypes' /\ lock' \in Threads \cup {NoThread}
        /\ outcome' \in [Calls -> {"new", "open", "ok", "err"}]
    BY <1>2, ReturnTypes DEF LockIsPoisoned
  <2> QED
    BY <1>2, <2>1 DEF LockIsPoisoned
<1>3. ASSUME NEW t \in Threads, EmitCall(t) PROVE TypeOK'
  <2>1. core' \in CoreType
    BY <1>3, CoreUpdates DEF EmitCall
  <2>2. core.sessionId \in Nat /\ core.seqNumber + 1 \in Nat
    BY <1>3 DEF CoreType
  <2>3. toServer' \in Seq(MessageType)
    <3> DEFINE m == [Message("Call", core.sessionId, core.seqNumber + 1, callOf[t])
                       EXCEPT !.info = req.info, !.ctx = req.ctx]
    <3>1. req.info \in Nat /\ req.ctx \in Nat
      BY DEF RequestType
    <3>2. Message("Call", core.sessionId, core.seqNumber + 1, callOf[t]) \in MessageType
      BY <2>2, MessageHasType
    <3>3. m \in MessageType
      <4> DEFINE plain == Message("Call", core.sessionId, core.seqNumber + 1, callOf[t])
      <4> HIDE DEF plain, TypeOK, MutexTypes, ThreadTypes, WireTypes, ServerTypes, HistTypes
      <4>1. plain \in MessageType
        BY <3>2 DEF plain
      <4>2. [plain EXCEPT !.info = req.info, !.ctx = req.ctx] \in MessageType
        BY <3>1, <4>1 DEF MessageType
      <4> QED
        BY <4>2 DEF plain
    <3>4. Append(toServer, m) \in Seq(MessageType)
      BY <3>3, QueueAppend
    <3> QED
      BY <1>3, <3>4 DEF EmitCall
  <2>4. sent' \in [Calls -> Seq(Nat)]
    <3>1. tcp.id \in Nat
      BY DEF TcpType
    <3>2. \A c \in Calls : Append(sent[c], tcp.id) \in Seq(Nat)
      BY <3>1, QueueAppend
    <3> QED
      BY <1>3, <3>2 DEF EmitCall
  <2>5. pc' \in [Threads -> Labels]
    BY <1>3 DEF EmitCall, Labels
  <2> QED
    BY <1>3, <2>1, <2>2, <2>3, <2>4, <2>5 DEF EmitCall
<1>4. ASSUME NEW t \in Threads, ReadReply(t) PROVE TypeOK'
  <2>1. Head(toClient) \in ReplyType /\ toClient' \in Seq(ReplyType)
    BY <1>4, ReceivedReply DEF ReadReply, TakeReply
  <2>2. core' \in CoreType
    <3>1. WarningsOf(Head(toClient)) \subseteq Calls \cup {NoCall}
      BY <2>1 DEF WarningsOf, ReplyType
    <3> QED
      BY <1>4, <3>1 DEF ReadReply, TakeReply, CoreType
  <2>3. rep' \in [Threads -> ReplyType]
    BY <1>4, <2>1 DEF ReadReply, TakeReply
  <2>4. req' \in RequestType
    BY <1>4 DEF ReadReply, TakeReply, NoRequest, RequestType
  <2>5. pc' \in [Threads -> Labels]
    BY <1>4 DEF ReadReply, TakeReply, Labels
  <2> QED
    BY <1>4, <2>1, <2>2, <2>3, <2>4, <2>5 DEF ReadReply, TakeReply
<1>5. ASSUME NEW t \in Threads, ReadError(t) PROVE TypeOK'
  <2>1. Head(toClient) \in ReplyType /\ toClient' \in Seq(ReplyType)
    BY <1>5, ReceivedReply DEF ReadError, TakeError
  <2>2. core' \in CoreType
    BY <1>5, <2>1 DEF ReadError, TakeError, CoreType, ReplyType
  <2>3. ThreadTypes' /\ lock' \in Threads \cup {NoThread}
        /\ outcome' \in [Calls -> {"new", "open", "ok", "err"}]
    BY <1>5, ReturnTypes DEF ReadError, TakeError
  <2> QED
    BY <1>5, <2>1, <2>2, <2>3 DEF ReadError, TakeError
<1>6. ASSUME NEW t \in Threads, ReadErrors(t) PROVE TypeOK'
  <2>1. Head(toClient) \in ReplyType /\ toClient' \in Seq(ReplyType)
    BY <1>6, ReceivedReply DEF ReadErrors, TakeErrors
  <2>2. core' \in CoreType
    BY <1>6, <2>1 DEF ReadErrors, TakeErrors, CoreType, ReplyType
  <2>3. req' \in RequestType
    BY <1>6 DEF ReadErrors, TakeErrors, NoRequest, RequestType
  <2>4. pc' \in [Threads -> Labels]
    BY <1>6 DEF ReadErrors, TakeErrors, Labels
  <2>5. callOf' \in [Threads -> Calls \cup {NoCall}]
        /\ outcome' \in [Calls -> {"new", "open", "ok", "err"}]
    BY <1>6 DEF ReadErrors, TakeErrors
  <2> QED
    BY <1>6, <2>1, <2>2, <2>3, <2>4, <2>5 DEF ReadErrors, TakeErrors
<1>7. ASSUME NEW t \in Threads, ReadCutReply(t) PROVE TypeOK'
  <2>1. Head(toClient) \in ReplyType /\ toClient' \in Seq(ReplyType)
    BY <1>7, ReceivedReply DEF ReadCutReply
  <2>2. pc' \in [Threads -> Labels]
    BY <1>7 DEF ReadCutReply, Labels
  <2> QED
    BY <1>7, <2>1, <2>2 DEF ReadCutReply
<1>8. ASSUME NEW t \in Threads, ParseFails(t) PROVE TypeOK'
  <2>1. Head(toClient) \in ReplyType /\ toClient' \in Seq(ReplyType)
    BY <1>8, ReceivedReply DEF ParseFails
  <2>2. ThreadTypes' /\ lock' \in Threads \cup {NoThread}
        /\ outcome' \in [Calls -> {"new", "open", "ok", "err"}]
    BY <1>8, ReturnTypes DEF ParseFails
  <2> QED
    BY <1>8, <2>1, <2>2 DEF ParseFails
<1>9. ASSUME NEW t \in Threads, ReadGarbled(t) PROVE TypeOK'
  <2>1. ThreadTypes' /\ lock' \in Threads \cup {NoThread}
        /\ outcome' \in [Calls -> {"new", "open", "ok", "err"}]
    BY <1>9, ReturnTypes DEF ReadGarbled
  <2> QED
    BY <1>9, <2>1 DEF ReadGarbled
<1>9a. ASSUME NEW t \in Threads, Misread(t) PROVE TypeOK'
  <2>1. PICK r \in ReplyType :
           /\ Astray(t) /\ r.call = NoCall
           /\ TakeReply(t, r) \/ TakeError(t, r) \/ TakeErrors(t, r) \/ TakeCut(t)
    BY <1>9a, MisreadCases
  <2>2. misread' \subseteq Calls \cup {NoCall}
    BY <2>1 DEF Astray
  <2>4. CASE TakeReply(t, r)
    <3>1. core' \in CoreType
      BY <2>1, <2>4 DEF TakeReply, CoreType, WarningsOf
    <3>2. rep' \in [Threads -> ReplyType] /\ req' \in RequestType
      BY <2>1, <2>4 DEF TakeReply, NoRequest, RequestType
    <3>3. pc' \in [Threads -> Labels]
      BY <2>4 DEF TakeReply, Labels
    <3> QED
      BY <2>1, <2>2, <2>4, <3>1, <3>2, <3>3 DEF Astray, TakeReply
  <2>5. CASE TakeError(t, r)
    <3>1. core' \in CoreType
      BY <2>1, <2>5 DEF TakeError, CoreType, ReplyType
    <3>2. ThreadTypes' /\ lock' \in Threads \cup {NoThread}
          /\ outcome' \in [Calls -> {"new", "open", "ok", "err"}]
      BY <2>5, ReturnTypes DEF TakeError
    <3> QED
      BY <2>1, <2>2, <2>5, <3>1, <3>2 DEF Astray, TakeError
  <2>6. CASE TakeErrors(t, r)
    <3>1. core' \in CoreType
      BY <2>1, <2>6 DEF TakeErrors, CoreType, ReplyType
    <3>2. req' \in RequestType
      BY <2>6 DEF TakeErrors, NoRequest, RequestType
    <3>3. pc' \in [Threads -> Labels]
      BY <2>6 DEF TakeErrors, Labels
    <3>4. callOf' \in [Threads -> Calls \cup {NoCall}]
          /\ outcome' \in [Calls -> {"new", "open", "ok", "err"}]
      BY <2>6 DEF TakeErrors
    <3> QED
      BY <2>1, <2>2, <2>6, <3>1, <3>2, <3>3, <3>4 DEF Astray, TakeErrors
  <2>7. CASE TakeCut(t)
    <3>1. pc' \in [Threads -> Labels]
      BY <2>7 DEF TakeCut, Labels
    <3> QED
      BY <2>1, <2>2, <2>7, <3>1 DEF Astray, TakeCut
  <2> QED
    BY <2>1, <2>4, <2>5, <2>6, <2>7
<1>10. ASSUME NEW t \in Threads, IoError(t) PROVE TypeOK'
  <2>1. core' \in CoreType
    BY <1>10, CoreUpdates DEF IoError
  <2>2. tcp' \in TcpType
    BY <1>10 DEF IoError, TcpType
  <2>3. ThreadTypes' /\ lock' \in Threads \cup {NoThread}
        /\ outcome' \in [Calls -> {"new", "open", "ok", "err"}]
    <3>1. CASE Fail(t)
      BY <3>1, FailTypes
    <3>2. CASE /\ pc' = [pc EXCEPT ![t] = "dial"] /\ attempt' = 2
               /\ UNCHANGED <<lock, callOf, rep, req, outcome>>
      BY <3>2 DEF Labels
    <3> QED
      BY <1>10, <3>1, <3>2 DEF IoError
  <2> QED
    BY <1>10, <2>1, <2>2, <2>3 DEF IoError
<1>11. ASSUME NEW t \in Threads, Digest(t) PROVE TypeOK'
  <2>1. rep[t].ctx \in Nat
    BY <1>11 DEF ReplyType
  <2>2. core' \in CoreType
    BY <1>11, <2>1 DEF Digest, CoreType
  <2>3. ThreadTypes' /\ lock' \in Threads \cup {NoThread}
        /\ outcome' \in [Calls -> {"new", "open", "ok", "err"}]
    BY <1>11, ReturnTypes DEF Digest
  <2> QED
    BY <1>11, <2>1, <2>2, <2>3 DEF Digest
<1>12. ASSUME NEW t \in Threads, Dial(t) PROVE TypeOK'
  <2>1. core' \in CoreType
    BY <1>12, CoreUpdates DEF Dial, Disconnected
  <2>2. tcp' \in TcpType
    BY <1>12 DEF Dial, TcpType
  <2>3. toServer' \in Seq(MessageType) /\ toClient' \in Seq(ReplyType)
    BY <1>12 DEF Dial
  <2>4. srv' \in SrvType
    BY <1>12 DEF Dial, SrvType
  <2>5. pc' \in [Threads -> Labels]
    BY <1>12 DEF Dial, Labels
  <2> QED
    BY <1>12, <2>1, <2>2, <2>3, <2>4, <2>5 DEF Dial
<1>13. ASSUME NEW t \in Threads, DialFails(t) PROVE TypeOK'
  <2>1. core' \in CoreType
    BY <1>13, CoreUpdates DEF DialFails, Disconnected
  <2>2. ThreadTypes' /\ lock' \in Threads \cup {NoThread}
        /\ outcome' \in [Calls -> {"new", "open", "ok", "err"}]
    BY <1>13, FailTypes DEF DialFails
  <2> QED
    BY <1>13, <2>1, <2>2 DEF DialFails
<1>14. ASSUME NEW t \in Threads, EmitAuthenticate(t) PROVE TypeOK'
  <2>1. core' \in CoreType
    BY <1>14, CoreUpdates DEF EmitAuthenticate
  <2>2. core.sessionId \in Nat
    BY <1>14, SMTT(60) DEF CoreType
  <2>3. toServer' \in Seq(MessageType)
    <3>1. Message("Authenticate", 0, AuthSeq, NoCall) \in MessageType
      BY MessageHasType DEF AuthSeq
    <3> QED
      BY <1>14, <3>1, QueueAppend DEF EmitAuthenticate
  <2>4. pc' \in [Threads -> Labels]
    BY <1>14 DEF EmitAuthenticate, Labels
  <2> QED
    BY <1>14, <2>1, <2>2, <2>3, <2>4 DEF EmitAuthenticate
<1>15. ASSUME NEW t \in Threads, ReadChallenge(t) PROVE TypeOK'
  <2>1. Head(toClient) \in ReplyType /\ toClient' \in Seq(ReplyType)
    BY <1>15, ReceivedReply DEF ReadChallenge
  <2>2. core' \in CoreType
    BY <1>15, CoreUpdates DEF ReadChallenge
  <2>3. pc' \in [Threads -> Labels]
    BY <1>15 DEF ReadChallenge, Labels
  <2> QED
    BY <1>15, <2>1, <2>2, <2>3 DEF ReadChallenge
<1>16. ASSUME NEW t \in Threads, EmitConnect(t) PROVE TypeOK'
  <2>1. core' \in CoreType
    BY <1>16, CoreUpdates DEF EmitConnect
  <2>2. core.sessionId \in Nat /\ core.seqNumber + 1 \in Nat
    BY <1>16 DEF CoreType
  <2>3. toServer' \in Seq(MessageType)
    <3>1. Message("Connect", core.sessionId, core.seqNumber + 1, NoCall) \in MessageType
      BY <2>2, MessageHasType
    <3> QED
      BY <1>16, <3>1, QueueAppend DEF EmitConnect
  <2>4. pc' \in [Threads -> Labels]
    BY <1>16 DEF EmitConnect, Labels
  <2> QED
    BY <1>16, <2>1, <2>2, <2>3, <2>4 DEF EmitConnect
<1>17. ASSUME NEW t \in Threads, ReadSession(t) PROVE TypeOK'
  <2>1. Head(toClient) \in ReplyType /\ toClient' \in Seq(ReplyType)
    BY <1>17, ReceivedReply DEF ReadSession
  <2>2. core' \in CoreType
    BY <1>17, <2>1 DEF ReadSession, WithSession, CoreType, ReplyType
  <2>3. pc' \in [Threads -> Labels]
    BY <1>17 DEF ReadSession, Labels
  <2> QED
    BY <1>17, <2>1, <2>2, <2>3 DEF ReadSession
<1>18. ASSUME NEW t \in Threads, ReadRefusal(t) PROVE TypeOK'
  <2>1. Head(toClient) \in ReplyType /\ toClient' \in Seq(ReplyType)
    BY <1>18, ReceivedReply DEF ReadRefusal
  <2>2. core' \in CoreType
    BY <1>18, CoreUpdates DEF ReadRefusal
  <2>3. ThreadTypes' /\ lock' \in Threads \cup {NoThread}
        /\ outcome' \in [Calls -> {"new", "open", "ok", "err"}]
    BY <1>18, FailTypes DEF ReadRefusal
  <2> QED
    BY <1>18, <2>1, <2>2, <2>3 DEF ReadRefusal
<1>19. ASSUME NEW t \in Threads, SetApplication(t) PROVE TypeOK'
  <2>1. core' \in CoreType
    BY <1>19, CoreUpdates DEF SetApplication
  <2> QED
    BY <1>19, <2>1 DEF SetApplication
<1>20. ASSUME NEW t \in Threads, PopWarnings(t) PROVE TypeOK'
  <2>1. core' \in CoreType
    BY <1>20, CoreUpdates DEF PopWarnings
  <2> QED
    BY <1>20, <2>1 DEF PopWarnings
<1>21. ASSUME NEW t \in Threads, DropClone(t) PROVE TypeOK'
  <2>1. core' \in CoreType
    BY <1>21, CoreUpdates DEF DropClone
  <2>2. tcp' \in TcpType
    BY <1>21 DEF DropClone, TcpType
  <2>3. core.sessionId \in Nat /\ core.seqNumber + 1 \in Nat
    BY <1>21 DEF CoreType
  <2>4. toServer' \in Seq(MessageType)
    <3> DEFINE m == Message("Disconnect", core.sessionId, core.seqNumber + 1, NoCall)
    <3>1. m \in MessageType
      BY <2>3, MessageHasType
    <3>2. Append(toServer, m) \in Seq(MessageType)
      BY <3>1, QueueAppend
    <3> QED
      BY <1>21, <3>2 DEF DropClone
  <2>5. pc' \in [Threads -> Labels]
    BY <1>21 DEF DropClone, Labels
  <2> QED
    BY <1>21, <2>1, <2>2, <2>3, <2>4, <2>5 DEF DropClone
<1>22. ASSUME NEW t \in Threads, NEW c \in Calls, StartCall(t, c) PROVE TypeOK'
  <2>1. pc' \in [Threads -> Labels]
    BY <1>22 DEF StartCall, Labels
  <2> QED
    BY <1>22, <2>1 DEF StartCall
<1>23. CASE SrvAuthenticate
  <2>1. toServer' \in Seq(MessageType) /\ Head(toServer) \in MessageType
    BY <1>23, QueueHead DEF SrvAuthenticate
  <2>2. toClient' \in Seq(ReplyType)
    BY <1>23, AnswerType, ReplyHasType DEF SrvAuthenticate, AllReplyKinds
  <2>3. srv' \in SrvType
    BY <1>23 DEF SrvAuthenticate, SrvType
  <2> QED
    BY <1>23, <2>1, <2>2, <2>3 DEF SrvAuthenticate
<1>24. CASE SrvConnect
  <2>1. toServer' \in Seq(MessageType) /\ Head(toServer) \in MessageType
    BY <1>24, QueueHead DEF SrvConnect
  <2>2. srv.sid + 1 \in Nat
    BY <1>24 DEF SrvType
  <2>3. toClient' \in Seq(ReplyType)
    BY <1>24, <2>2, AnswerType, ReplyHasType DEF SrvConnect, AllReplyKinds
  <2>4. srv' \in SrvType
    BY <1>24, <2>2 DEF SrvConnect, SrvType
  <2> QED
    BY <1>24, <2>1, <2>2, <2>3, <2>4 DEF SrvConnect
<1>25. CASE SrvExecute
  <2>1. toServer' \in Seq(MessageType) /\ Head(toServer) \in MessageType
    BY <1>25, QueueHead DEF SrvExecute
  <2>2. Head(toServer).call \in Calls \cup {NoCall} /\ Head(toServer).info \in Nat
    BY <1>25, <2>1 DEF SrvExecute, MessageType
  <2>3. /\ srv.sid \in Nat /\ srv.seq + 1 \in Nat
        /\ \A c \in Calls : execs[c] + 1 \in Nat
    BY DEF SrvType
  <2>4. toClient' \in Seq(ReplyType)
    BY <1>25, <2>2, <2>3, ConstantsAssumption, AnswerType, ReplyHasType DEF SrvExecute
  <2>5. srv' \in SrvType
    BY <1>25, <2>2, <2>3 DEF SrvExecute, SrvType
  <2>6. execs' \in [Calls -> Nat]
    BY <1>25, <2>3 DEF SrvExecute
  <2> QED
    BY <1>25, <2>1, <2>2, <2>3, <2>4, <2>5, <2>6 DEF SrvExecute
<1>26. CASE SrvReject
  <2>1. toServer' \in Seq(MessageType) /\ Head(toServer) \in MessageType
    BY <1>26, QueueHead DEF SrvReject
  <2>2. Head(toServer).call \in Calls \cup {NoCall} /\ srv.seq \in Nat
    BY <1>26, <2>1 DEF MessageType, SrvType
  <2>3. toClient' \in Seq(ReplyType)
    BY <1>26, <2>2, AnswerType, ReplyHasType DEF SrvReject, AllReplyKinds
  <2>4. tcp' \in TcpType
    BY <1>26 DEF SrvReject, TcpType
  <2> QED
    BY <1>26, <2>1, <2>2, <2>3, <2>4 DEF SrvReject
<1>27. CASE SrvDisconnect
  <2>1. toServer' \in Seq(MessageType) /\ Head(toServer) \in MessageType
    BY <1>27, QueueHead DEF SrvDisconnect
  <2>2. srv' \in SrvType
    BY <1>27 DEF SrvDisconnect, SrvType
  <2> QED
    BY <1>27, <2>1, <2>2 DEF SrvDisconnect
<1>28. CASE SrvExecuteStale
  <2>1. srv.seq + 1 \in Nat /\ \A c \in Calls : execs[c] + 1 \in Nat
    BY DEF SrvType
  <2>2. srv' \in SrvType
    BY <1>28, <2>1 DEF SrvExecuteStale, SrvType
  <2>3. execs' \in [Calls -> Nat] /\ stale' \subseteq MessageType
    <3>1. PICK m \in stale : /\ stale' = stale \ {m}
                              /\ execs' = [execs EXCEPT ![m.call] = @ + 1]
      BY <1>28 DEF SrvExecuteStale
    <3> QED
      BY <2>1, <3>1
  <2> QED
    BY <1>28, <2>2, <2>3 DEF SrvExecuteStale
<1>29. CASE Reset
  <2>1. tcp' \in TcpType
    BY <1>29 DEF Reset, LoseConnection, TcpType
  <2>2. losses' \in Nat
    BY <1>29 DEF Reset, LoseConnection
  <2>3. stale' \subseteq MessageType
    BY <1>29 DEF Reset, LoseConnection, CallsIn
  <2>4. Cut(toClient) \in Seq(ReplyType)
    BY <1>29, CutHasType
  <2>5. toServer' \in Seq(MessageType) /\ toClient' \in Seq(ReplyType)
    BY <1>29, <2>4, QueueEmpty DEF Reset, LoseConnection
  <2> QED
    BY <1>29, <2>1, <2>2, <2>3, <2>4, <2>5 DEF Reset, LoseConnection
<1>30. CASE Close
  <2>1. tcp' \in TcpType
    BY <1>30 DEF Close, LoseConnection, TcpType
  <2>2. losses' \in Nat
    BY <1>30 DEF Close, LoseConnection
  <2>3. stale' \subseteq MessageType
    BY <1>30 DEF Close, LoseConnection, CallsIn
  <2>4. Cut(toClient) \in Seq(ReplyType)
    BY <1>30, CutHasType
  <2>5. toServer' \in Seq(MessageType) /\ toClient' \in Seq(ReplyType)
    BY <1>30, <2>4, QueueEmpty DEF Close, LoseConnection
  <2> QED
    BY <1>30, <2>1, <2>2, <2>3, <2>4, <2>5 DEF Close, LoseConnection
<1>31. CASE UNCHANGED vars
  BY <1>31 DEF vars
<1> QED
  BY <1>1, <1>2, <1>3, <1>4, <1>5, <1>6, <1>7, <1>8, <1>9, <1>9a, <1>10, <1>11, <1>12,
     <1>13, <1>14, <1>15, <1>16, <1>17, <1>18, <1>19, <1>20, <1>21, <1>22,
     <1>23, <1>24, <1>25, <1>26, <1>27, <1>28, <1>29, <1>30, <1>31
     DEF Next, CallStep, GarbledStep, HandshakeStep, UserStep, ServerStep

\* The variables of the connection core, its threads, the wire and the
\* history keep their types, for every number of threads and calls.
THEOREM TypeCorrect == Spec => []TypeOK
<1>1. TypeOK /\ [Next]_vars => TypeOK'
  BY TypeStep
<1> QED
  BY TypeInit, <1>1, PTL DEF Spec

-----------------------------------------------------------------------------
(* Lemmas about queues.                                                    *)

\* A queue with a single message.
LEMMA QueueOfOne ==
  ASSUME NEW S, NEW q \in Seq(S), Len(q) = 1
  PROVE  q # <<>> /\ Head(q) = q[1] /\ Tail(q) = <<>>
<1>1. q # <<>> /\ Head(q) = q[1]
  OBVIOUS
<1>2. Len(Tail(q)) = 0 /\ Tail(q) \in Seq(S)
  OBVIOUS
<1>3. Tail(q) = <<>>
  BY <1>2, EmptySeq
<1> QED
  BY <1>1, <1>3

\* The first message that is put into a queue.
LEMMA AppendToEmpty ==
  ASSUME NEW m
  PROVE  Len(Append(<<>>, m)) = 1 /\ Append(<<>>, m)[1] = m /\ Append(<<>>, m) # <<>>
OBVIOUS

\* The sequence of a single message.
LEMMA SingleMessage ==
  ASSUME NEW m
  PROVE  Len(<<m>>) = 1 /\ DOMAIN <<m>> = {1} /\ <<m>>[1] = m
OBVIOUS

\* Where a longer sequence has its elements.
LEMMA AppendIndex ==
  ASSUME NEW S, NEW q \in Seq(S), NEW m
  PROVE  /\ Len(Append(q, m)) = Len(q) + 1
         /\ Append(q, m)[Len(q) + 1] = m
         /\ \A i \in 1..Len(q) : Append(q, m)[i] = q[i]
OBVIOUS

\* Every message of the rest of a queue is in the queue.
LEMMA QueueDomain ==
  ASSUME NEW S, NEW q \in Seq(S), q # <<>>
  PROVE  /\ Head(q) = q[1] /\ 1 \in DOMAIN q
         /\ \A i \in DOMAIN Tail(q) : i + 1 \in DOMAIN q /\ Tail(q)[i] = q[i + 1]
OBVIOUS

\* A longer queue holds the new message and the former ones.
LEMMA AppendDomain ==
  ASSUME NEW S, NEW q \in Seq(S), NEW m
  PROVE  \A i \in DOMAIN Append(q, m) :
            Append(q, m)[i] = m \/ (i \in DOMAIN q /\ Append(q, m)[i] = q[i])
OBVIOUS

\* What is left of a reply belongs to the same call.
LEMMA CutCall ==
  ASSUME TypeOK
  PROVE  \/ Cut(toClient) = <<>>
         \/ /\ Len(Cut(toClient)) = 1 /\ toClient # <<>> /\ DOMAIN Cut(toClient) = {1}
            /\ Cut(toClient)[1].call = Head(toClient).call
            /\ Head(toClient).kind = "resultset"
<1>1. CASE "cut" \in Faults /\ toClient # <<>> /\ Head(toClient).kind = "resultset"
  <2>1. Head(toClient) \in ReplyType
    BY <1>1, QueueHead DEF TypeOK, WireTypes
  <2>2. [Head(toClient) EXCEPT !.kind = "cut"].call = Head(toClient).call
    BY <2>1 DEF ReplyType
  <2>3. Cut(toClient) = <<[Head(toClient) EXCEPT !.kind = "cut"]>>
    BY <1>1 DEF Cut
  <2> QED
    BY <1>1, <2>2, <2>3, SingleMessage
<1>2. CASE ~("cut" \in Faults /\ toClient # <<>> /\ Head(toClient).kind = "resultset")
  BY <1>2 DEF Cut
<1> QED
  BY <1>1, <1>2

-----------------------------------------------------------------------------
(* The mutex.                                                              *)

\* The guard is held by the thread inside the critical section.
LEMMA MutexStep ==
  ASSUME TypeOK, MutexInv, [Next]_vars
  PROVE  MutexInv'
<1> USE DEF MutexInv, TypeOK, MutexTypes, ThreadTypes, Labels, Holding,
            Emitting, Reading, InHandshake, InsideCall, Connecting,
            mutexVars, threadVars, wireVars, serverVars, histVars
<1>1. ASSUME NEW t \in Threads, LockAndAugment(t) PROVE MutexInv'
  BY <1>1, ConstantsAssumption DEF LockAndAugment, CanAcquire
<1>2. ASSUME NEW t \in Threads, LockIsPoisoned(t) PROVE MutexInv'
  BY <1>2, ConstantsAssumption DEF LockIsPoisoned, Return
<1>3. ASSUME NEW t \in Threads, EmitCall(t) PROVE MutexInv'
  BY <1>3, ConstantsAssumption DEF EmitCall, Message
<1>4. ASSUME NEW t \in Threads, ReadReply(t) PROVE MutexInv'
  BY <1>4, ConstantsAssumption DEF ReadReply, TakeReply, HasReply
<1>5. ASSUME NEW t \in Threads, ReadError(t) PROVE MutexInv'
  BY <1>5, ConstantsAssumption DEF ReadError, TakeError, HasReply, Return
<1>6. ASSUME NEW t \in Threads, ReadErrors(t) PROVE MutexInv'
  BY <1>6, ConstantsAssumption DEF ReadErrors, TakeErrors, HasReply
<1>7. ASSUME NEW t \in Threads, ReadCutReply(t) PROVE MutexInv'
  BY <1>7, ConstantsAssumption DEF ReadCutReply, HasReply
<1>8. ASSUME NEW t \in Threads, ParseFails(t) PROVE MutexInv'
  BY <1>8, ConstantsAssumption DEF ParseFails, HasReply, Return
<1>9. ASSUME NEW t \in Threads, ReadGarbled(t) PROVE MutexInv'
  BY <1>9, ConstantsAssumption DEF ReadGarbled, Return
<1>9a. ASSUME NEW t \in Threads, Misread(t) PROVE MutexInv'
  <2>1. PICK r \in ReplyType :
           /\ Astray(t) /\ r.call = NoCall
           /\ TakeReply(t, r) \/ TakeError(t, r) \/ TakeErrors(t, r) \/ TakeCut(t)
    BY <1>9a, MisreadCases
  <2>2. CASE TakeReply(t, r)
    BY <2>1, <2>2, ConstantsAssumption DEF Astray, TakeReply
  <2>3. CASE TakeError(t, r)
    BY <2>1, <2>3, ConstantsAssumption DEF Astray, TakeError, Return
  <2>4. CASE TakeErrors(t, r)
    BY <2>1, <2>4, ConstantsAssumption DEF Astray, TakeErrors
  <2>5. CASE TakeCut(t)
    BY <2>1, <2>5, ConstantsAssumption DEF Astray, TakeCut
  <2> QED
    BY <2>1, <2>2, <2>3, <2>4, <2>5
<1>10. ASSUME NEW t \in Threads, IoError(t) PROVE MutexInv'
  <2>1. CASE FailConstruction(t) /\ t \notin alive
    BY <1>10, <2>1, ConstantsAssumption DEF IoError, FailConstruction
  <2>2. CASE Return(t, "err") /\ t \in alive
    BY <1>10, <2>2, ConstantsAssumption DEF IoError, Return
  <2>3. CASE /\ pc[t] \in {"emit", "read"} /\ CanRepeat
             /\ pc' = [pc EXCEPT ![t] = "dial"] /\ attempt' = 2
             /\ UNCHANGED <<lock, callOf, rep, req, outcome>>
    BY <1>10, <2>3, ConstantsAssumption DEF IoError, CanRepeat
  <2> QED
    BY <1>10, <2>1, <2>2, <2>3 DEF IoError, Fail, Constructing
<1>11. ASSUME NEW t \in Threads, Digest(t) PROVE MutexInv'
  BY <1>11, ConstantsAssumption DEF Digest, CanAcquire, Return
<1>12. ASSUME NEW t \in Threads, Dial(t) PROVE MutexInv'
  BY <1>12, ConstantsAssumption DEF Dial
<1>13. ASSUME NEW t \in Threads, DialFails(t) PROVE MutexInv'
  <2>1. CASE FailConstruction(t) /\ t \notin alive
    BY <1>13, <2>1, ConstantsAssumption DEF DialFails, FailConstruction
  <2>2. CASE Return(t, "err") /\ t \in alive
    BY <1>13, <2>2, ConstantsAssumption DEF DialFails, Return
  <2> QED
    BY <1>13, <2>1, <2>2 DEF DialFails, Fail, Constructing
<1>14. ASSUME NEW t \in Threads, EmitAuthenticate(t) PROVE MutexInv'
  BY <1>14, ConstantsAssumption DEF EmitAuthenticate, Message
<1>15. ASSUME NEW t \in Threads, ReadChallenge(t) PROVE MutexInv'
  BY <1>15, ConstantsAssumption DEF ReadChallenge, HasReply
<1>16. ASSUME NEW t \in Threads, EmitConnect(t) PROVE MutexInv'
  BY <1>16, ConstantsAssumption DEF EmitConnect, Message
<1>17. ASSUME NEW t \in Threads, ReadSession(t) PROVE MutexInv'
  BY <1>17, ConstantsAssumption DEF ReadSession, HasReply, Constructing
<1>18. ASSUME NEW t \in Threads, ReadRefusal(t) PROVE MutexInv'
  <2>1. CASE FailConstruction(t) /\ t \notin alive
    BY <1>18, <2>1, ConstantsAssumption DEF ReadRefusal, FailConstruction, HasReply
  <2>2. CASE Return(t, "err") /\ t \in alive
    BY <1>18, <2>2, ConstantsAssumption DEF ReadRefusal, Return, HasReply
  <2> QED
    BY <1>18, <2>1, <2>2 DEF ReadRefusal, Fail, Constructing
<1>19. ASSUME NEW t \in Threads, SetApplication(t) PROVE MutexInv'
  BY <1>19, ConstantsAssumption DEF SetApplication, CanAcquire
<1>20. ASSUME NEW t \in Threads, PopWarnings(t) PROVE MutexInv'
  BY <1>20, ConstantsAssumption DEF PopWarnings, CanAcquire
<1>21. ASSUME NEW t \in Threads, DropClone(t) PROVE MutexInv'
  BY <1>21, ConstantsAssumption DEF DropClone, Message
<1>22. ASSUME NEW t \in Threads, NEW c \in Calls, StartCall(t, c) PROVE MutexInv'
  BY <1>22, ConstantsAssumption DEF StartCall
<1>23. CASE SrvAuthenticate
  BY <1>23, ConstantsAssumption DEF SrvAuthenticate, Answer, Reply
<1>24. CASE SrvConnect
  BY <1>24, ConstantsAssumption DEF SrvConnect, Answer, Reply
<1>25. CASE SrvExecute
  BY <1>25, ConstantsAssumption DEF SrvExecute, Answer, Reply
<1>26. CASE SrvReject
  BY <1>26, ConstantsAssumption DEF SrvReject, Answer, Reply
<1>27. CASE SrvDisconnect
  BY <1>27, ConstantsAssumption DEF SrvDisconnect
<1>28. CASE SrvExecuteStale
  BY <1>28, ConstantsAssumption DEF SrvExecuteStale
<1>29. CASE Reset
  BY <1>29, ConstantsAssumption DEF Reset, LoseConnection
<1>30. CASE Close
  BY <1>30, ConstantsAssumption DEF Close, LoseConnection
<1>31. CASE UNCHANGED vars
  BY <1>31 DEF vars
<1> QED
  BY <1>1, <1>2, <1>3, <1>4, <1>5, <1>6, <1>7, <1>8, <1>9, <1>9a, <1>10, <1>11, <1>12,
     <1>13, <1>14, <1>15, <1>16, <1>17, <1>18, <1>19, <1>20, <1>21, <1>22,
     <1>23, <1>24, <1>25, <1>26, <1>27, <1>28, <1>29, <1>30, <1>31
     DEF Next, CallStep, GarbledStep, HandshakeStep, UserStep, ServerStep

-----------------------------------------------------------------------------
(* The calls of the threads.                                               *)

\* No two threads execute the same call.
LEMMA CallInvStep ==
  ASSUME TypeOK, MutexInv, CallInv, [Next]_vars
  PROVE  CallInv'
<1> USE DEF MutexInv, CallInv, TypeOK, MutexTypes, ThreadTypes, HistTypes,
            Labels, Holding, Emitting, Reading, InHandshake, InsideCall,
            Connecting, mutexVars, threadVars, wireVars, serverVars,
            histVars
<1>1. ASSUME NEW t \in Threads, LockAndAugment(t) PROVE CallInv'
  BY <1>1, ConstantsAssumption DEF LockAndAugment, CanAcquire
<1>2. ASSUME NEW t \in Threads, LockIsPoisoned(t) PROVE CallInv'
  BY <1>2, ConstantsAssumption DEF LockIsPoisoned, Return
<1>3. ASSUME NEW t \in Threads, EmitCall(t) PROVE CallInv'
  BY <1>3, ConstantsAssumption DEF EmitCall, Message
<1>4. ASSUME NEW t \in Threads, ReadReply(t) PROVE CallInv'
  BY <1>4, ConstantsAssumption DEF ReadReply, TakeReply, HasReply
<1>5. ASSUME NEW t \in Threads, ReadError(t) PROVE CallInv'
  BY <1>5, ConstantsAssumption DEF ReadError, TakeError, HasReply, Return
<1>6. ASSUME NEW t \in Threads, ReadErrors(t) PROVE CallInv'
  BY <1>6, ConstantsAssumption DEF ReadErrors, TakeErrors, HasReply
<1>7. ASSUME NEW t \in Threads, ReadCutReply(t) PROVE CallInv'
  BY <1>7, ConstantsAssumption DEF ReadCutReply, HasReply
<1>8. ASSUME NEW t \in Threads, ParseFails(t) PROVE CallInv'
  BY <1>8, ConstantsAssumption DEF ParseFails, HasReply, Return
<1>9. ASSUME NEW t \in Threads, ReadGarbled(t) PROVE CallInv'
  BY <1>9, ConstantsAssumption DEF ReadGarbled, Return
<1>9a. ASSUME NEW t \in Threads, Misread(t) PROVE CallInv'
  <2>1. PICK r \in ReplyType :
           /\ Astray(t) /\ r.call = NoCall
           /\ TakeReply(t, r) \/ TakeError(t, r) \/ TakeErrors(t, r) \/ TakeCut(t)
    BY <1>9a, MisreadCases
  <2>2. CASE TakeReply(t, r)
    BY <2>1, <2>2, ConstantsAssumption DEF Astray, TakeReply
  <2>3. CASE TakeError(t, r)
    BY <2>1, <2>3, ConstantsAssumption DEF Astray, TakeError, Return
  <2>4. CASE TakeErrors(t, r)
    BY <2>1, <2>4, ConstantsAssumption DEF Astray, TakeErrors
  <2>5. CASE TakeCut(t)
    BY <2>1, <2>5, ConstantsAssumption DEF Astray, TakeCut
  <2> QED
    BY <2>1, <2>2, <2>3, <2>4, <2>5
<1>10. ASSUME NEW t \in Threads, IoError(t) PROVE CallInv'
  <2>1. CASE FailConstruction(t) /\ t \notin alive
    BY <1>10, <2>1, ConstantsAssumption DEF IoError, FailConstruction
  <2>2. CASE Return(t, "err") /\ t \in alive
    BY <1>10, <2>2, ConstantsAssumption DEF IoError, Return
  <2>3. CASE /\ pc[t] \in {"emit", "read"} /\ CanRepeat
             /\ pc' = [pc EXCEPT ![t] = "dial"] /\ attempt' = 2
             /\ UNCHANGED <<lock, callOf, rep, req, outcome>>
    BY <1>10, <2>3, ConstantsAssumption DEF IoError, CanRepeat
  <2> QED
    BY <1>10, <2>1, <2>2, <2>3 DEF IoError, Fail, Constructing
<1>11. ASSUME NEW t \in Threads, Digest(t) PROVE CallInv'
  BY <1>11, ConstantsAssumption DEF Digest, CanAcquire, Return
<1>12. ASSUME NEW t \in Threads, Dial(t) PROVE CallInv'
  BY <1>12, ConstantsAssumption DEF Dial
<1>13. ASSUME NEW t \in Threads, DialFails(t) PROVE CallInv'
  <2>1. CASE FailConstruction(t) /\ t \notin alive
    BY <1>13, <2>1, ConstantsAssumption DEF DialFails, FailConstruction
  <2>2. CASE Return(t, "err") /\ t \in alive
    BY <1>13, <2>2, ConstantsAssumption DEF DialFails, Return
  <2> QED
    BY <1>13, <2>1, <2>2 DEF DialFails, Fail, Constructing
<1>14. ASSUME NEW t \in Threads, EmitAuthenticate(t) PROVE CallInv'
  BY <1>14, ConstantsAssumption DEF EmitAuthenticate, Message
<1>15. ASSUME NEW t \in Threads, ReadChallenge(t) PROVE CallInv'
  BY <1>15, ConstantsAssumption DEF ReadChallenge, HasReply
<1>16. ASSUME NEW t \in Threads, EmitConnect(t) PROVE CallInv'
  BY <1>16, ConstantsAssumption DEF EmitConnect, Message
<1>17. ASSUME NEW t \in Threads, ReadSession(t) PROVE CallInv'
  BY <1>17, ConstantsAssumption DEF ReadSession, HasReply, Constructing
<1>18. ASSUME NEW t \in Threads, ReadRefusal(t) PROVE CallInv'
  <2>1. CASE FailConstruction(t) /\ t \notin alive
    BY <1>18, <2>1, ConstantsAssumption DEF ReadRefusal, FailConstruction, HasReply
  <2>2. CASE Return(t, "err") /\ t \in alive
    BY <1>18, <2>2, ConstantsAssumption DEF ReadRefusal, Return, HasReply
  <2> QED
    BY <1>18, <2>1, <2>2 DEF ReadRefusal, Fail, Constructing
<1>19. ASSUME NEW t \in Threads, SetApplication(t) PROVE CallInv'
  BY <1>19, ConstantsAssumption DEF SetApplication, CanAcquire
<1>20. ASSUME NEW t \in Threads, PopWarnings(t) PROVE CallInv'
  BY <1>20, ConstantsAssumption DEF PopWarnings, CanAcquire
<1>21. ASSUME NEW t \in Threads, DropClone(t) PROVE CallInv'
  BY <1>21, ConstantsAssumption DEF DropClone, Message
<1>22. ASSUME NEW t \in Threads, NEW c \in Calls, StartCall(t, c) PROVE CallInv'
  BY <1>22, ConstantsAssumption DEF StartCall
<1>23. CASE SrvAuthenticate
  BY <1>23, ConstantsAssumption DEF SrvAuthenticate, Answer, Reply
<1>24. CASE SrvConnect
  BY <1>24, ConstantsAssumption DEF SrvConnect, Answer, Reply
<1>25. CASE SrvExecute
  BY <1>25, ConstantsAssumption DEF SrvExecute, Answer, Reply
<1>26. CASE SrvReject
  BY <1>26, ConstantsAssumption DEF SrvReject, Answer, Reply
<1>27. CASE SrvDisconnect
  BY <1>27, ConstantsAssumption DEF SrvDisconnect
<1>28. CASE SrvExecuteStale
  BY <1>28, ConstantsAssumption DEF SrvExecuteStale
<1>29. CASE Reset
  BY <1>29, ConstantsAssumption DEF Reset, LoseConnection
<1>30. CASE Close
  BY <1>30, ConstantsAssumption DEF Close, LoseConnection
<1>31. CASE UNCHANGED vars
  BY <1>31, SMTT(60) DEF vars
<1> QED
  BY <1>1, <1>2, <1>3, <1>4, <1>5, <1>6, <1>7, <1>8, <1>9, <1>9a, <1>10, <1>11, <1>12,
     <1>13, <1>14, <1>15, <1>16, <1>17, <1>18, <1>19, <1>20, <1>21, <1>22,
     <1>23, <1>24, <1>25, <1>26, <1>27, <1>28, <1>29, <1>30, <1>31
     DEF Next, CallStep, GarbledStep, HandshakeStep, UserStep, ServerStep

-----------------------------------------------------------------------------
(* The wire.                                                               *)

\* At most one message is under way, and it belongs to the holder of the guard.
LEMMA WireStep ==
  ASSUME TypeOK, MutexInv, CallInv, WireInv, [Next]_vars
  PROVE  WireInv'
<1> USE DEF MutexInv, CallInv, WireInv, NothingUnderWay, RequestUnderWay,
            ReplyUnderWay, DisconnectUnderWay, TypeOK, MutexTypes,
            ThreadTypes, WireTypes, Labels, Holding, Emitting, Reading,
            InHandshake, InsideCall, Connecting, mutexVars, threadVars,
            wireVars, serverVars, histVars
<1>1. ASSUME NEW t \in Threads, LockAndAugment(t) PROVE WireInv'
  BY <1>1, ConstantsAssumption, QueueOfOne, AppendToEmpty DEF LockAndAugment, CanAcquire
<1>2. ASSUME NEW t \in Threads, LockIsPoisoned(t) PROVE WireInv'
  BY <1>2, ConstantsAssumption, QueueOfOne, AppendToEmpty DEF LockIsPoisoned, Return
<1>3. ASSUME NEW t \in Threads, EmitCall(t) PROVE WireInv'
  BY <1>3, ConstantsAssumption, QueueOfOne, AppendToEmpty DEF EmitCall, Message
<1>4. ASSUME NEW t \in Threads, ReadReply(t) PROVE WireInv'
  BY <1>4, ConstantsAssumption, QueueOfOne, AppendToEmpty DEF ReadReply, TakeReply, HasReply
<1>5. ASSUME NEW t \in Threads, ReadError(t) PROVE WireInv'
  BY <1>5, ConstantsAssumption, QueueOfOne, AppendToEmpty DEF ReadError, TakeError, HasReply, Return
<1>6. ASSUME NEW t \in Threads, ReadErrors(t) PROVE WireInv'
  BY <1>6, ConstantsAssumption, QueueOfOne, AppendToEmpty DEF ReadErrors, TakeErrors, HasReply
<1>7. ASSUME NEW t \in Threads, ReadCutReply(t) PROVE WireInv'
  BY <1>7, ConstantsAssumption, QueueOfOne, AppendToEmpty DEF ReadCutReply, HasReply
<1>8. ASSUME NEW t \in Threads, ParseFails(t) PROVE WireInv'
  BY <1>8, ConstantsAssumption, QueueOfOne, AppendToEmpty DEF ParseFails, HasReply, Return
<1>9. ASSUME NEW t \in Threads, ReadGarbled(t) PROVE WireInv'
  BY <1>9, ConstantsAssumption, QueueOfOne, AppendToEmpty DEF ReadGarbled, Return
<1>9a. ASSUME NEW t \in Threads, Misread(t) PROVE WireInv'
  <2>1. PICK r \in ReplyType :
           /\ Astray(t) /\ r.call = NoCall
           /\ TakeReply(t, r) \/ TakeError(t, r) \/ TakeErrors(t, r) \/ TakeCut(t)
    BY <1>9a, MisreadCases
  <2>2. CASE TakeReply(t, r)
    BY <2>1, <2>2, ConstantsAssumption DEF Astray, TakeReply
  <2>3. CASE TakeError(t, r)
    BY <2>1, <2>3, ConstantsAssumption DEF Astray, TakeError, Return
  <2>4. CASE TakeErrors(t, r)
    BY <2>1, <2>4, ConstantsAssumption DEF Astray, TakeErrors
  <2>5. CASE TakeCut(t)
    BY <2>1, <2>5, ConstantsAssumption DEF Astray, TakeCut
  <2> QED
    BY <2>1, <2>2, <2>3, <2>4, <2>5
<1>10. ASSUME NEW t \in Threads, IoError(t) PROVE WireInv'
  <2>1. CASE FailConstruction(t) /\ t \notin alive
    BY <1>10, <2>1, ConstantsAssumption, QueueOfOne, AppendToEmpty DEF IoError, FailConstruction
  <2>2. CASE Return(t, "err") /\ t \in alive
    BY <1>10, <2>2, ConstantsAssumption, QueueOfOne, AppendToEmpty DEF IoError, Return
  <2>3. CASE /\ pc[t] \in {"emit", "read"} /\ CanRepeat
             /\ pc' = [pc EXCEPT ![t] = "dial"] /\ attempt' = 2
             /\ UNCHANGED <<lock, callOf, rep, req, outcome>>
    BY <1>10, <2>3, ConstantsAssumption, QueueOfOne, AppendToEmpty DEF IoError, CanRepeat
  <2> QED
    BY <1>10, <2>1, <2>2, <2>3 DEF IoError, Fail, Constructing
<1>11. ASSUME NEW t \in Threads, Digest(t) PROVE WireInv'
  BY <1>11, ConstantsAssumption, QueueOfOne, AppendToEmpty DEF Digest, CanAcquire, Return
<1>12. ASSUME NEW t \in Threads, Dial(t) PROVE WireInv'
  BY <1>12, ConstantsAssumption, QueueOfOne, AppendToEmpty DEF Dial
<1>13. ASSUME NEW t \in Threads, DialFails(t) PROVE WireInv'
  <2>1. CASE FailConstruction(t) /\ t \notin alive
    BY <1>13, <2>1, ConstantsAssumption, QueueOfOne, AppendToEmpty DEF DialFails, FailConstruction
  <2>2. CASE Return(t, "err") /\ t \in alive
    BY <1>13, <2>2, ConstantsAssumption, QueueOfOne, AppendToEmpty DEF DialFails, Return
  <2> QED
    BY <1>13, <2>1, <2>2 DEF DialFails, Fail, Constructing
<1>14. ASSUME NEW t \in Threads, EmitAuthenticate(t) PROVE WireInv'
  BY <1>14, ConstantsAssumption, QueueOfOne, AppendToEmpty DEF EmitAuthenticate, Message
<1>15. ASSUME NEW t \in Threads, ReadChallenge(t) PROVE WireInv'
  BY <1>15, ConstantsAssumption, QueueOfOne, AppendToEmpty DEF ReadChallenge, HasReply
<1>16. ASSUME NEW t \in Threads, EmitConnect(t) PROVE WireInv'
  BY <1>16, ConstantsAssumption, QueueOfOne, AppendToEmpty DEF EmitConnect, Message
<1>17. ASSUME NEW t \in Threads, ReadSession(t) PROVE WireInv'
  BY <1>17, ConstantsAssumption, QueueOfOne, AppendToEmpty DEF ReadSession, HasReply, Constructing
<1>18. ASSUME NEW t \in Threads, ReadRefusal(t) PROVE WireInv'
  <2>1. CASE FailConstruction(t) /\ t \notin alive
    BY <1>18, <2>1, ConstantsAssumption, QueueOfOne, AppendToEmpty DEF ReadRefusal, FailConstruction, HasReply
  <2>2. CASE Return(t, "err") /\ t \in alive
    BY <1>18, <2>2, ConstantsAssumption, QueueOfOne, AppendToEmpty DEF ReadRefusal, Return, HasReply
  <2> QED
    BY <1>18, <2>1, <2>2 DEF ReadRefusal, Fail, Constructing
<1>19. ASSUME NEW t \in Threads, SetApplication(t) PROVE WireInv'
  BY <1>19, ConstantsAssumption, QueueOfOne, AppendToEmpty DEF SetApplication, CanAcquire
<1>20. ASSUME NEW t \in Threads, PopWarnings(t) PROVE WireInv'
  BY <1>20, ConstantsAssumption, QueueOfOne, AppendToEmpty DEF PopWarnings, CanAcquire
<1>21. ASSUME NEW t \in Threads, DropClone(t) PROVE WireInv'
  <2>1. CASE alive = {t}
    <3> DEFINE m == Message("Disconnect", core.sessionId, core.seqNumber + 1, NoCall)
    <3>1. lock = NoThread
      BY <1>21, <2>1, ConstantsAssumption DEF DropClone
    <3>2. ~garbled => NothingUnderWay
      BY <1>21, <2>1, <3>1, ConstantsAssumption DEF DropClone
    <3>3. m.type = "Disconnect" /\ m.call = NoCall
      BY DEF Message
    <3>4. /\ Len(Append(<<>>, m)) = 1 /\ Append(<<>>, m)[1] = m
      BY AppendToEmpty
    <3>5. toServer' = toServer \/ toServer' = Append(toServer, m)
      BY <1>21 DEF DropClone
    <3>6. /\ lock' = NoThread /\ alive' = {} /\ toClient' = toClient /\ garbled' = garbled
          /\ rep' = rep /\ callOf' = callOf /\ misread' = misread
          /\ pc' = [pc EXCEPT ![t] = "gone"]
      BY <1>21, <2>1, <3>1 DEF DropClone
    <3> HIDE DEF m
    <3>7. ~garbled' => NothingUnderWay' \/ DisconnectUnderWay'
      BY <3>2, <3>3, <3>4, <3>5, <3>6
    <3> QED
      BY <3>6, <3>7
  <2>2. CASE alive # {t}
    BY <1>21, <2>2, ConstantsAssumption DEF DropClone
  <2> QED
    BY <2>1, <2>2
<1>22. ASSUME NEW t \in Threads, NEW c \in Calls, StartCall(t, c) PROVE WireInv'
  BY <1>22, ConstantsAssumption, QueueOfOne, AppendToEmpty DEF StartCall
<1>23. CASE SrvAuthenticate
  BY <1>23, ConstantsAssumption, QueueOfOne, AppendToEmpty DEF SrvAuthenticate, Answer, Reply
<1>24. CASE SrvConnect
  BY <1>24, ConstantsAssumption, QueueOfOne, AppendToEmpty DEF SrvConnect, Answer, Reply
<1>25. CASE SrvExecute
  BY <1>25, ConstantsAssumption, QueueOfOne, AppendToEmpty DEF SrvExecute, Answer, Reply
<1>26. CASE SrvReject
  BY <1>26, ConstantsAssumption, QueueOfOne, AppendToEmpty DEF SrvReject, Answer, Reply
<1>27. CASE SrvDisconnect
  BY <1>27, ConstantsAssumption, QueueOfOne, AppendToEmpty DEF SrvDisconnect
<1>28. CASE SrvExecuteStale
  BY <1>28, ConstantsAssumption, QueueOfOne, AppendToEmpty DEF SrvExecuteStale
<1>29. CASE Reset
  <2>1. toClient' = <<>> \/ toClient' = Cut(toClient) \/ toClient' = toClient
    BY <1>29 DEF Reset, LoseConnection
  <2>2. CASE toClient' = toClient
    BY <1>29, <2>2, QueueOfOne DEF Reset, LoseConnection
  <2>3. CASE toClient' # toClient
    BY <1>29, <2>1, <2>3, CutCall, QueueOfOne DEF Reset, LoseConnection
  <2> QED
    BY <2>2, <2>3
<1>30. CASE Close
  <2>1. toClient' = <<>> \/ toClient' = Cut(toClient) \/ toClient' = toClient
    BY <1>30 DEF Close, LoseConnection
  <2>2. CASE toClient' = toClient
    BY <1>30, <2>2, QueueOfOne DEF Close, LoseConnection
  <2>3. CASE toClient' # toClient
    BY <1>30, <2>1, <2>3, CutCall, QueueOfOne DEF Close, LoseConnection
  <2> QED
    BY <2>2, <2>3
<1>31. CASE UNCHANGED vars
  BY <1>31, SMTT(60) DEF vars
<1> QED
  BY <1>1, <1>2, <1>3, <1>4, <1>5, <1>6, <1>7, <1>8, <1>9, <1>9a, <1>10, <1>11, <1>12,
     <1>13, <1>14, <1>15, <1>16, <1>17, <1>18, <1>19, <1>20, <1>21, <1>22,
     <1>23, <1>24, <1>25, <1>26, <1>27, <1>28, <1>29, <1>30, <1>31
     DEF Next, CallStep, GarbledStep, HandshakeStep, UserStep, ServerStep

-----------------------------------------------------------------------------
(* The executions.                                                         *)

\* A reply and an Ok are about a call that was executed.
LEMMA ExecStep ==
  ASSUME TypeOK, MutexInv, CallInv, WireInv, ExecInv, [Next]_vars
  PROVE  ExecInv'
<1> USE DEF CallInv, MutexInv, OkMeansExecuted, ExecInv, WireInv,
            NothingUnderWay, RequestUnderWay, ReplyUnderWay,
            DisconnectUnderWay, TypeOK, MutexTypes, ThreadTypes, WireTypes,
            HistTypes, Labels, Holding, Emitting, Reading, InHandshake,
            InsideCall, Connecting, mutexVars, threadVars, wireVars,
            serverVars, histVars
<1>1. ASSUME NEW t \in Threads, LockAndAugment(t) PROVE ExecInv'
  BY <1>1, ConstantsAssumption, QueueDomain, AppendDomain DEF LockAndAugment, CanAcquire
<1>2. ASSUME NEW t \in Threads, LockIsPoisoned(t) PROVE ExecInv'
  BY <1>2, ConstantsAssumption, QueueDomain, AppendDomain DEF LockIsPoisoned, Return
<1>3. ASSUME NEW t \in Threads, EmitCall(t) PROVE ExecInv'
  <2> DEFINE m == [Message("Call", core.sessionId, core.seqNumber + 1, callOf[t])
                     EXCEPT !.info = req.info, !.ctx = req.ctx]
  <2>1. m.call = callOf[t]
    BY DEF Message
  <2>2. callOf[t] \in Calls /\ outcome[callOf[t]] = "open"
    BY <1>3 DEF EmitCall
  <2>3. toServer' = Append(toServer, m)
    BY <1>3 DEF EmitCall
  <2> HIDE DEF m
  <2>4. \A i \in DOMAIN toServer' :
           toServer'[i].type = "Call" => /\ toServer'[i].call \in Calls
                                         /\ outcome[toServer'[i].call] # "new"
    BY <2>1, <2>2, <2>3, AppendDomain
  <2> QED
    BY <1>3, <2>4 DEF EmitCall
<1>4. ASSUME NEW t \in Threads, ReadReply(t) PROVE ExecInv'
  BY <1>4, ConstantsAssumption, QueueDomain, AppendDomain DEF ReadReply, TakeReply, HasReply
<1>5. ASSUME NEW t \in Threads, ReadError(t) PROVE ExecInv'
  BY <1>5, ConstantsAssumption, QueueDomain, AppendDomain DEF ReadError, TakeError, HasReply, Return
<1>6. ASSUME NEW t \in Threads, ReadErrors(t) PROVE ExecInv'
  BY <1>6, ConstantsAssumption, QueueDomain, AppendDomain DEF ReadErrors, TakeErrors, HasReply
<1>7. ASSUME NEW t \in Threads, ReadCutReply(t) PROVE ExecInv'
  BY <1>7, ConstantsAssumption, QueueDomain, AppendDomain DEF ReadCutReply, HasReply
<1>8. ASSUME NEW t \in Threads, ParseFails(t) PROVE ExecInv'
  BY <1>8, ConstantsAssumption, QueueDomain, AppendDomain DEF ParseFails, HasReply, Return
<1>9. ASSUME NEW t \in Threads, ReadGarbled(t) PROVE ExecInv'
  BY <1>9, ConstantsAssumption, QueueDomain, AppendDomain DEF ReadGarbled, Return
<1>9a. ASSUME NEW t \in Threads, Misread(t) PROVE ExecInv'
  <2>1. PICK r \in ReplyType :
           /\ Astray(t) /\ r.call = NoCall
           /\ TakeReply(t, r) \/ TakeError(t, r) \/ TakeErrors(t, r) \/ TakeCut(t)
    BY <1>9a, MisreadCases
  <2>2. CASE TakeReply(t, r)
    BY <2>1, <2>2, ConstantsAssumption DEF Astray, TakeReply
  <2>3. CASE TakeError(t, r)
    BY <2>1, <2>3, ConstantsAssumption DEF Astray, TakeError, Return
  <2>4. CASE TakeErrors(t, r)
    BY <2>1, <2>4, ConstantsAssumption DEF Astray, TakeErrors
  <2>5. CASE TakeCut(t)
    BY <2>1, <2>5, ConstantsAssumption DEF Astray, TakeCut
  <2> QED
    BY <2>1, <2>2, <2>3, <2>4, <2>5
<1>10. ASSUME NEW t \in Threads, IoError(t) PROVE ExecInv'
  <2>1. CASE FailConstruction(t) /\ t \notin alive
    BY <1>10, <2>1, ConstantsAssumption, QueueDomain, AppendDomain DEF IoError, FailConstruction
  <2>2. CASE Return(t, "err") /\ t \in alive
    BY <1>10, <2>2, ConstantsAssumption, QueueDomain, AppendDomain DEF IoError, Return
  <2>3. CASE /\ pc[t] \in {"emit", "read"} /\ CanRepeat
             /\ pc' = [pc EXCEPT ![t] = "dial"] /\ attempt' = 2
             /\ UNCHANGED <<lock, callOf, rep, req, outcome>>
    BY <1>10, <2>3, ConstantsAssumption, QueueDomain, AppendDomain DEF IoError, CanRepeat
  <2> QED
    BY <1>10, <2>1, <2>2, <2>3 DEF IoError, Fail, Constructing
<1>11. ASSUME NEW t \in Threads, Digest(t) PROVE ExecInv'
  BY <1>11, ConstantsAssumption, QueueDomain, AppendDomain DEF Digest, CanAcquire, Return
<1>12. ASSUME NEW t \in Threads, Dial(t) PROVE ExecInv'
  BY <1>12, ConstantsAssumption, QueueDomain, AppendDomain DEF Dial
<1>13. ASSUME NEW t \in Threads, DialFails(t) PROVE ExecInv'
  <2>1. CASE FailConstruction(t) /\ t \notin alive
    BY <1>13, <2>1, ConstantsAssumption, QueueDomain, AppendDomain DEF DialFails, FailConstruction
  <2>2. CASE Return(t, "err") /\ t \in alive
    BY <1>13, <2>2, ConstantsAssumption, QueueDomain, AppendDomain DEF DialFails, Return
  <2> QED
    BY <1>13, <2>1, <2>2 DEF DialFails, Fail, Constructing
<1>14. ASSUME NEW t \in Threads, EmitAuthenticate(t) PROVE ExecInv'
  BY <1>14, ConstantsAssumption, QueueDomain, AppendDomain DEF EmitAuthenticate, Message
<1>15. ASSUME NEW t \in Threads, ReadChallenge(t) PROVE ExecInv'
  BY <1>15, ConstantsAssumption, QueueDomain, AppendDomain DEF ReadChallenge, HasReply
<1>16. ASSUME NEW t \in Threads, EmitConnect(t) PROVE ExecInv'
  BY <1>16, ConstantsAssumption, QueueDomain, AppendDomain DEF EmitConnect, Message
<1>17. ASSUME NEW t \in Threads, ReadSession(t) PROVE ExecInv'
  BY <1>17, ConstantsAssumption, QueueDomain, AppendDomain DEF ReadSession, HasReply, Constructing
<1>18. ASSUME NEW t \in Threads, ReadRefusal(t) PROVE ExecInv'
  <2>1. CASE FailConstruction(t) /\ t \notin alive
    BY <1>18, <2>1, ConstantsAssumption, QueueDomain, AppendDomain DEF ReadRefusal, FailConstruction, HasReply
  <2>2. CASE Return(t, "err") /\ t \in alive
    BY <1>18, <2>2, ConstantsAssumption, QueueDomain, AppendDomain DEF ReadRefusal, Return, HasReply
  <2> QED
    BY <1>18, <2>1, <2>2 DEF ReadRefusal, Fail, Constructing
<1>19. ASSUME NEW t \in Threads, SetApplication(t) PROVE ExecInv'
  BY <1>19, ConstantsAssumption, QueueDomain, AppendDomain DEF SetApplication, CanAcquire
<1>20. ASSUME NEW t \in Threads, PopWarnings(t) PROVE ExecInv'
  BY <1>20, ConstantsAssumption, QueueDomain, AppendDomain DEF PopWarnings, CanAcquire
<1>21. ASSUME NEW t \in Threads, DropClone(t) PROVE ExecInv'
  <2> DEFINE m == Message("Disconnect", core.sessionId, core.seqNumber + 1, NoCall)
  <2>1. m.type = "Disconnect"
    BY DEF Message
  <2>2. toServer' = toServer \/ toServer' = Append(toServer, m)
    BY <1>21 DEF DropClone
  <2> HIDE DEF m
  <2>3. \A i \in DOMAIN toServer' :
           toServer'[i].type = "Call" => /\ toServer'[i].call \in Calls
                                         /\ outcome[toServer'[i].call] # "new"
    <3>1. CASE toServer' = toServer
      BY <3>1
    <3>2. CASE toServer' = Append(toServer, m)
      BY <2>1, <3>2, AppendDomain
    <3> QED
      BY <2>2, <3>1, <3>2
  <2> QED
    BY <1>21, <2>3 DEF DropClone
<1>22. ASSUME NEW t \in Threads, NEW c \in Calls, StartCall(t, c) PROVE ExecInv'
  BY <1>22, ConstantsAssumption, QueueDomain, AppendDomain, SMTT(60) DEF StartCall
<1>23. CASE SrvAuthenticate
  BY <1>23, ConstantsAssumption, QueueDomain, AppendDomain, SMTT(60) DEF SrvAuthenticate, Answer, Reply
<1>24. CASE SrvConnect
  BY <1>24, ConstantsAssumption, QueueDomain, AppendDomain, SMTT(60) DEF SrvConnect, Answer, Reply
<1>25. CASE SrvExecute
  <2> DEFINE c == Head(toServer).call
  <2>1. c \in Calls /\ outcome[c] # "new"
    BY <1>25, QueueDomain DEF SrvExecute
  <2>2. execs' = [execs EXCEPT ![c] = @ + 1] /\ toServer' = Tail(toServer)
    BY <1>25 DEF SrvExecute
  <2>3. PICK r : r.call = c /\ toClient' = (IF garbled THEN toClient ELSE Append(toClient, r))
    BY <1>25 DEF SrvExecute, Answer, Reply
  <2>4. UNCHANGED <<outcome, stale, pc, callOf, rep, misread>>
    BY <1>25 DEF SrvExecute
  <2> HIDE DEF c
  <2>5. /\ execs'[c] >= 1
        /\ \A d \in Calls : execs[d] >= 1 => execs'[d] >= 1
    BY <2>1, <2>2
  <2>6. \A i \in DOMAIN toClient' :
          toClient'[i].call \in Calls /\ toClient'[i].kind # "error"
          => execs'[toClient'[i].call] >= 1
    <3>1. CASE toClient' = toClient
      BY <2>5, <3>1
    <3>2. CASE toClient' = Append(toClient, r)
      BY <2>3, <2>5, <3>2, AppendDomain
    <3> QED
      BY <2>3, <3>1, <3>2
  <2>7. \A i \in DOMAIN toServer' :
          toServer'[i].type = "Call" => /\ toServer'[i].call \in Calls
                                        /\ outcome[toServer'[i].call] # "new"
    BY <1>25, <2>2, QueueDomain DEF SrvExecute
  <2>8. OkMeansExecuted'
    BY <2>1, <2>2, <2>4, <2>5
  <2>9. \A t \in Threads : pc[t] = "digest" => execs'[callOf[t]] >= 1 \/ callOf[t] \in misread
    BY <2>5
  <2> QED
    BY <2>4, <2>6, <2>7, <2>8, <2>9
<1>26. CASE SrvReject
  BY <1>26, ConstantsAssumption, QueueDomain, AppendDomain DEF SrvReject, Answer, Reply
<1>27. CASE SrvDisconnect
  BY <1>27, ConstantsAssumption, QueueDomain, AppendDomain DEF SrvDisconnect
<1>28. CASE SrvExecuteStale
  BY <1>28, ConstantsAssumption, QueueDomain, AppendDomain DEF SrvExecuteStale
<1>29. CASE Reset
  <2>1. toClient' = <<>> \/ toClient' = Cut(toClient) \/ toClient' = toClient
    BY <1>29 DEF Reset, LoseConnection
  <2>2. \A i \in DOMAIN toClient' :
          toClient'[i].call \in Calls /\ toClient'[i].kind # "error"
          => execs[toClient'[i].call] >= 1
    BY <2>1, CutCall, QueueDomain
  <2>3. \A m \in stale' : m.call \in Calls /\ outcome[m.call] # "new"
    BY <1>29 DEF Reset, LoseConnection, CallsIn
  <2> QED
    BY <1>29, <2>2, <2>3 DEF Reset, LoseConnection
<1>30. CASE Close
  <2>1. toClient' = <<>> \/ toClient' = Cut(toClient) \/ toClient' = toClient
    BY <1>30 DEF Close, LoseConnection
  <2>2. \A i \in DOMAIN toClient' :
          toClient'[i].call \in Calls /\ toClient'[i].kind # "error"
          => execs[toClient'[i].call] >= 1
    BY <2>1, CutCall, QueueDomain
  <2>3. \A m \in stale' : m.call \in Calls /\ outcome[m.call] # "new"
    BY <1>30 DEF Close, LoseConnection, CallsIn
  <2> QED
    BY <1>30, <2>2, <2>3 DEF Close, LoseConnection
<1>31. CASE UNCHANGED vars
  BY <1>31, SMTT(60) DEF vars
<1> QED
  BY <1>1, <1>2, <1>3, <1>4, <1>5, <1>6, <1>7, <1>8, <1>9, <1>9a, <1>10, <1>11, <1>12,
     <1>13, <1>14, <1>15, <1>16, <1>17, <1>18, <1>19, <1>20, <1>21, <1>22,
     <1>23, <1>24, <1>25, <1>26, <1>27, <1>28, <1>29, <1>30, <1>31
     DEF Next, CallStep, GarbledStep, HandshakeStep, UserStep, ServerStep

-----------------------------------------------------------------------------
(* The emissions.                                                          *)

\* Which TCP connections a call was emitted on.
LEMMA SentStep ==
  ASSUME TypeOK, MutexInv, CallInv, SentInv, [Next]_vars
  PROVE  SentInv'
<1> USE DEF MutexInv, CallInv, SentInv, RepeatOnFreshConnection, TypeOK,
            MutexTypes, ThreadTypes, WireTypes, HistTypes, TcpType, Labels,
            Holding, Emitting, Reading, InHandshake, InsideCall, Connecting,
            mutexVars, threadVars, wireVars, serverVars, histVars
<1>1. ASSUME NEW t \in Threads, LockAndAugment(t) PROVE SentInv'
  BY <1>1, ConstantsAssumption, SMTT(30) DEF LockAndAugment, CanAcquire
<1>2. ASSUME NEW t \in Threads, LockIsPoisoned(t) PROVE SentInv'
  BY <1>2, ConstantsAssumption DEF LockIsPoisoned, Return
<1>3. ASSUME NEW t \in Threads, EmitCall(t) PROVE SentInv'
  <2> DEFINE c == callOf[t]
  <2>1. /\ c \in Calls /\ outcome[c] = "open" /\ tcp.id \in Nat
        /\ Len(sent[c]) <= 1 /\ (attempt = 1 => sent[c] = <<>>)
        /\ \A i \in DOMAIN sent[c] : sent[c][i] < tcp.id
    BY <1>3 DEF EmitCall
  <2>2. sent' = [sent EXCEPT ![c] = Append(sent[c], tcp.id)]
    BY <1>3 DEF EmitCall
  <2>3. /\ Len(sent'[c]) = Len(sent[c]) + 1
        /\ sent'[c][Len(sent[c]) + 1] = tcp.id
        /\ \A i \in 1..Len(sent[c]) : sent'[c][i] = sent[c][i]
    BY <2>1, <2>2, AppendIndex
  <2>4. \A i \in DOMAIN sent'[c] : sent'[c][i] <= tcp.id
    BY <2>1, <2>2, AppendDomain
  <2>5. Len(sent'[c]) <= 2 /\ (Len(sent'[c]) = 2 => sent'[c][1] < sent'[c][2])
    BY <2>1, <2>3
  <2>6. attempt = 1 => Len(sent'[c]) <= 1
    BY <2>1, <2>3
  <2>7. \A d \in Calls : d # c => sent'[d] = sent[d]
    BY <2>1, <2>2
  <2> HIDE DEF c
  <2>8. c = callOf[t]
    BY DEF c
  <2>9. /\ pc' = [pc EXCEPT ![t] = "read"] /\ pc[t] = "emit" /\ lock = t
        /\ UNCHANGED <<callOf, attempt, tcp, outcome>>
    BY <1>3 DEF EmitCall
  <2>10. \A d \in Calls :
            /\ outcome'[d] = "new" => sent'[d] = <<>>
            /\ \A i \in DOMAIN sent'[d] : sent'[d][i] <= tcp'.id
    BY <2>1, <2>4, <2>7, <2>9
  <2>11. RepeatOnFreshConnection'
    BY <2>5, <2>7
  <2>12. ASSUME NEW u \in Threads, u # t, callOf[u] \in Calls
         PROVE  callOf[u] # c /\ pc'[u] = pc[u] /\ ~(pc[u] \in Holding)
    BY <2>1, <2>8, <2>9, <2>12
  <2>13. ASSUME NEW u \in Threads, callOf'[u] \in Calls
         PROVE  /\ pc'[u] = "lock" \/ (pc'[u] = "emit" /\ attempt' = 1) => sent'[callOf'[u]] = <<>>
                /\ pc'[u] = "read" /\ attempt' = 1 => Len(sent'[callOf'[u]]) <= 1
                /\ pc'[u] \in Connecting => attempt' = 2 /\ Len(sent'[callOf'[u]]) <= 1
                /\ pc'[u] = "emit" => Len(sent'[callOf'[u]]) <= 1
                /\ pc'[u] \in InHandshake \cup {"emit"} =>
                      \A i \in DOMAIN sent'[callOf'[u]] : sent'[callOf'[u]][i] < tcp'.id
    <3>1. CASE u = t
      BY <2>6, <2>8, <2>9, <3>1
    <3>2. CASE u # t
      BY <2>7, <2>9, <2>12, <2>13, <3>2
    <3> QED
      BY <3>1, <3>2
  <2> QED
    BY <2>10, <2>11, <2>13
<1>4. ASSUME NEW t \in Threads, ReadReply(t) PROVE SentInv'
  BY <1>4, ConstantsAssumption DEF ReadReply, TakeReply, HasReply
<1>5. ASSUME NEW t \in Threads, ReadError(t) PROVE SentInv'
  BY <1>5, ConstantsAssumption DEF ReadError, TakeError, HasReply, Return
<1>6. ASSUME NEW t \in Threads, ReadErrors(t) PROVE SentInv'
  BY <1>6, ConstantsAssumption DEF ReadErrors, TakeErrors, HasReply
<1>7. ASSUME NEW t \in Threads, ReadCutReply(t) PROVE SentInv'
  BY <1>7, ConstantsAssumption DEF ReadCutReply, HasReply
<1>8. ASSUME NEW t \in Threads, ParseFails(t) PROVE SentInv'
  BY <1>8, ConstantsAssumption DEF ParseFails, HasReply, Return
<1>9. ASSUME NEW t \in Threads, ReadGarbled(t) PROVE SentInv'
  BY <1>9, ConstantsAssumption DEF ReadGarbled, Return
<1>9a. ASSUME NEW t \in Threads, Misread(t) PROVE SentInv'
  <2>1. PICK r \in ReplyType :
           /\ Astray(t) /\ r.call = NoCall
           /\ TakeReply(t, r) \/ TakeError(t, r) \/ TakeErrors(t, r) \/ TakeCut(t)
    BY <1>9a, MisreadCases
  <2>2. CASE TakeReply(t, r)
    BY <2>1, <2>2, ConstantsAssumption DEF Astray, TakeReply
  <2>3. CASE TakeError(t, r)
    BY <2>1, <2>3, ConstantsAssumption DEF Astray, TakeError, Return
  <2>4. CASE TakeErrors(t, r)
    BY <2>1, <2>4, ConstantsAssumption DEF Astray, TakeErrors
  <2>5. CASE TakeCut(t)
    BY <2>1, <2>5, ConstantsAssumption DEF Astray, TakeCut
  <2> QED
    BY <2>1, <2>2, <2>3, <2>4, <2>5
<1>10. ASSUME NEW t \in Threads, IoError(t) PROVE SentInv'
  <2>1. CASE FailConstruction(t) /\ t \notin alive
    BY <1>10, <2>1, ConstantsAssumption DEF IoError, FailConstruction
  <2>2. CASE Return(t, "err") /\ t \in alive
    BY <1>10, <2>2, ConstantsAssumption DEF IoError, Return
  <2>3. CASE /\ pc[t] \in {"emit", "read"} /\ CanRepeat
             /\ pc' = [pc EXCEPT ![t] = "dial"] /\ attempt' = 2
             /\ UNCHANGED <<lock, callOf, rep, req, outcome>>
    BY <1>10, <2>3, ConstantsAssumption DEF IoError, CanRepeat
  <2> QED
    BY <1>10, <2>1, <2>2, <2>3 DEF IoError, Fail, Constructing
<1>11. ASSUME NEW t \in Threads, Digest(t) PROVE SentInv'
  BY <1>11, ConstantsAssumption DEF Digest, CanAcquire, Return
<1>12. ASSUME NEW t \in Threads, Dial(t) PROVE SentInv'
  BY <1>12, ConstantsAssumption, SMTT(30) DEF Dial
<1>13. ASSUME NEW t \in Threads, DialFails(t) PROVE SentInv'
  <2>1. CASE FailConstruction(t) /\ t \notin alive
    BY <1>13, <2>1, ConstantsAssumption DEF DialFails, FailConstruction
  <2>2. CASE Return(t, "err") /\ t \in alive
    BY <1>13, <2>2, ConstantsAssumption DEF DialFails, Return
  <2> QED
    BY <1>13, <2>1, <2>2 DEF DialFails, Fail, Constructing
<1>14. ASSUME NEW t \in Threads, EmitAuthenticate(t) PROVE SentInv'
  BY <1>14, ConstantsAssumption DEF EmitAuthenticate, Message
<1>15. ASSUME NEW t \in Threads, ReadChallenge(t) PROVE SentInv'
  BY <1>15, ConstantsAssumption DEF ReadChallenge, HasReply
<1>16. ASSUME NEW t \in Threads, EmitConnect(t) PROVE SentInv'
  BY <1>16, ConstantsAssumption DEF EmitConnect, Message
<1>17. ASSUME NEW t \in Threads, ReadSession(t) PROVE SentInv'
  BY <1>17, ConstantsAssumption DEF ReadSession, HasReply, Constructing
<1>18. ASSUME NEW t \in Threads, ReadRefusal(t) PROVE SentInv'
  <2>1. CASE FailConstruction(t) /\ t \notin alive
    BY <1>18, <2>1, ConstantsAssumption DEF ReadRefusal, FailConstruction, HasReply
  <2>2. CASE Return(t, "err") /\ t \in alive
    BY <1>18, <2>2, ConstantsAssumption, SMTT(60) DEF ReadRefusal, Return, HasReply
  <2> QED
    BY <1>18, <2>1, <2>2 DEF ReadRefusal, Fail, Constructing
<1>19. ASSUME NEW t \in Threads, SetApplication(t) PROVE SentInv'
  BY <1>19, ConstantsAssumption DEF SetApplication, CanAcquire
<1>20. ASSUME NEW t \in Threads, PopWarnings(t) PROVE SentInv'
  BY <1>20, ConstantsAssumption DEF PopWarnings, CanAcquire
<1>21. ASSUME NEW t \in Threads, DropClone(t) PROVE SentInv'
  BY <1>21, ConstantsAssumption DEF DropClone, Message
<1>22. ASSUME NEW t \in Threads, NEW c \in Calls, StartCall(t, c) PROVE SentInv'
  BY <1>22, ConstantsAssumption DEF StartCall
<1>23. CASE SrvAuthenticate
  BY <1>23, ConstantsAssumption DEF SrvAuthenticate, Answer, Reply
<1>24. CASE SrvConnect
  BY <1>24, ConstantsAssumption DEF SrvConnect, Answer, Reply
<1>25. CASE SrvExecute
  BY <1>25, ConstantsAssumption DEF SrvExecute, Answer, Reply
<1>26. CASE SrvReject
  <2>1. tcp'.id = tcp.id
    BY <1>26 DEF SrvReject, TcpType
  <2>2. UNCHANGED <<core, pc, callOf, attempt, outcome, sent>>
    BY <1>26 DEF SrvReject
  <2> QED
    BY <2>1, <2>2
<1>27. CASE SrvDisconnect
  BY <1>27, ConstantsAssumption DEF SrvDisconnect
<1>28. CASE SrvExecuteStale
  BY <1>28, ConstantsAssumption DEF SrvExecuteStale
<1>29. CASE Reset
  BY <1>29, ConstantsAssumption DEF Reset, LoseConnection
<1>30. CASE Close
  BY <1>30, ConstantsAssumption DEF Close, LoseConnection
<1>31. CASE UNCHANGED vars
  BY <1>31 DEF vars
<1> QED
  BY <1>1, <1>2, <1>3, <1>4, <1>5, <1>6, <1>7, <1>8, <1>9, <1>9a, <1>10, <1>11, <1>12,
     <1>13, <1>14, <1>15, <1>16, <1>17, <1>18, <1>19, <1>20, <1>21, <1>22,
     <1>23, <1>24, <1>25, <1>26, <1>27, <1>28, <1>29, <1>30, <1>31
     DEF Next, CallStep, GarbledStep, HandshakeStep, UserStep, ServerStep

-----------------------------------------------------------------------------
(* The theorems.                                                           *)

\* The inductive invariant holds initially.
LEMMA IInvInit == Init => IInv
<1> SUFFICES ASSUME Init PROVE IInv
  OBVIOUS
<1>1. TypeOK
  BY TypeInit
<1> USE DEF Init, Labels, Holding, Emitting, Reading, InHandshake, InsideCall, Connecting
<1>2. MutexInv
  BY ConstantsAssumption DEF MutexInv
<1>3. CallInv
  BY ConstantsAssumption DEF CallInv
<1>4. WireInv
  BY DEF WireInv, NothingUnderWay
<1>5. ExecInv
  BY DEF ExecInv, OkMeansExecuted
<1>6. SentInv
  BY ConstantsAssumption DEF SentInv, RepeatOnFreshConnection
<1> QED
  BY <1>1, <1>2, <1>3, <1>4, <1>5, <1>6 DEF IInv

\* Every step preserves it.
LEMMA IInvStep == IInv /\ [Next]_vars => IInv'
BY TypeStep, MutexStep, CallInvStep, WireStep, ExecStep, SentStep DEF IInv

\* It is an invariant of AmConnCore.
THEOREM Invariance == Spec => []IInv
BY IInvInit, IInvStep, PTL DEF Spec

\* What is under way belongs to the call of the thread that holds the guard.
LEMMA WireInvSuffices ==
  ASSUME TypeOK, WireInv, CallInv
  PROVE  ReplyBelongsToCall
<1>1. ASSUME ~garbled, NEW c \in Calls,
             \/ \E i \in DOMAIN toServer : toServer[i].call = c
             \/ \E i \in DOMAIN toClient : toClient[i].call = c
      PROVE  /\ lock \in Threads /\ callOf[lock] = c /\ pc[lock] = "read"
             /\ Len(toServer) + Len(toClient) = 1
  <2>1. DOMAIN toServer = 1..Len(toServer) /\ DOMAIN toClient = 1..Len(toClient)
    BY DEF TypeOK, WireTypes
  <2>2. Len(<<>>) = 0
    OBVIOUS
  <2>3. c # NoCall
    BY ConstantsAssumption
  <2>4. RequestUnderWay \/ ReplyUnderWay
    <3>1. NothingUnderWay \/ RequestUnderWay \/ ReplyUnderWay \/ DisconnectUnderWay
      BY <1>1 DEF WireInv
    <3>2. ~NothingUnderWay
      BY <1>1, <2>1, <2>2 DEF NothingUnderWay
    <3>3. ~DisconnectUnderWay
      BY <1>1, <2>1, <2>2, <2>3 DEF DisconnectUnderWay
    <3> QED
      BY <3>1, <3>2, <3>3
  <2>5. CASE RequestUnderWay
    BY <1>1, <2>1, <2>2, <2>3, <2>5 DEF RequestUnderWay
  <2>6. CASE ReplyUnderWay
    BY <1>1, <2>1, <2>2, <2>3, <2>6 DEF ReplyUnderWay
  <2> QED
    BY <2>4, <2>5, <2>6
<1> QED
  BY <1>1 DEF ReplyBelongsToCall, WireInv

\* The mutex alone makes every thread digest the reply of its own call, unless the
\* thread took the remains of an earlier one for it.
THEOREM RepliesBelong == Spec => []ReplyBelongsToCall
<1>1. IInv => ReplyBelongsToCall
  BY WireInvSuffices DEF IInv
<1> QED
  BY Invariance, <1>1, PTL

\* Only a call the server has executed returns Ok, or one that took the remains of
\* an earlier reply for its own.
THEOREM OkIsExecuted == Spec => []OkMeansExecuted
<1>1. IInv => OkMeansExecuted
  BY DEF IInv, ExecInv
<1> QED
  BY Invariance, <1>1, PTL

\* A request is repeated at most once, on a newer TCP connection.
THEOREM RepeatedOnce == Spec => []RepeatOnFreshConnection
<1>1. IInv => RepeatOnFreshConnection
  BY DEF IInv, SentInv
<1> QED
  BY Invariance, <1>1, PTL

\* No step emits a call while the mutex is poisoned.
LEMMA PoisonStep ==
  ASSUME IInv, [Next]_vars
  PROVE  poisoned => UNCHANGED sent
<1> SUFFICES ASSUME poisoned, ~(UNCHANGED sent) PROVE FALSE
  OBVIOUS
<1>1. ASSUME NEW t \in Threads, EmitCall(t) PROVE FALSE
  BY <1>1, ConstantsAssumption
     DEF IInv, TypeOK, ThreadTypes, MutexInv, EmitCall, Holding, Emitting
<1> USE DEF vars, mutexVars, threadVars, wireVars, serverVars, histVars
<1>2. ASSUME NEW t \in Threads, CallStep(t) PROVE FALSE
  BY <1>1, <1>2 DEF CallStep, LockAndAugment, LockIsPoisoned, ReadReply, ReadError, ReadErrors,
     ReadCutReply, ParseFails, IoError, Digest
<1>2a. ASSUME NEW t \in Threads, GarbledStep(t) PROVE FALSE
  BY <1>2a DEF GarbledStep, ReadGarbled, Misread
<1>3. ASSUME NEW t \in Threads, HandshakeStep(t) PROVE FALSE
  BY <1>3 DEF HandshakeStep, Dial, DialFails, EmitAuthenticate, ReadChallenge, EmitConnect,
     ReadSession, ReadRefusal
<1>4. ASSUME NEW t \in Threads, UserStep(t) PROVE FALSE
  BY <1>4 DEF UserStep, SetApplication, PopWarnings, DropClone, StartCall
<1>5. CASE ServerStep \/ SrvExecuteStale \/ Reset \/ Close
  BY <1>5 DEF ServerStep, SrvAuthenticate, SrvConnect, SrvExecute, SrvReject, SrvDisconnect,
     SrvExecuteStale, Reset, Close, LoseConnection
<1>6. CASE UNCHANGED vars
  BY <1>6
<1> QED
  BY <1>2, <1>2a, <1>3, <1>4, <1>5, <1>6 DEF Next

\* After a panic under the guard no request is emitted any more.
THEOREM SilenceAfterPanic == Spec => PoisonSilences
<1>1. IInv /\ [Next]_vars => [poisoned => UNCHANGED sent]_vars
  BY PoisonStep
<1> QED
  BY Invariance, <1>1, PTL DEF Spec, PoisonSilences

-----------------------------------------------------------------------------
(* The refinement of RemoteCalls: the executions that can still happen.    *)

\* What PendingInv is about.
PendingUntouched == UNCHANGED <<toServer, stale, execs, sent>> /\ tcp'.id = tcp.id

\* A step that touches neither messages nor executions.
LEMMA PendingSame ==
  ASSUME PendingInv, PendingUntouched
  PROVE  PendingInv'
BY DEF PendingInv, EmittedHere, EmittedOnce, ExecutionsBounded, PendingUntouched, InQueue, StaleOf

\* A count of executions is a number.
LEMMA PendingTypes ==
  ASSUME TypeOK, PendingInv, NEW c \in Calls
  PROVE  /\ execs[c] \in Nat /\ Cardinality(StaleOf(c)) \in Nat /\ Len(sent[c]) \in Nat
         /\ sent[c] \in Seq(Nat)
         /\ DOMAIN sent[c] = 1..Len(sent[c])
<1>1. execs[c] \in Nat /\ sent[c] \in Seq(Nat)
  BY DEF TypeOK, HistTypes
<1>2. IsFiniteSet(StaleOf(c))
  BY DEF PendingInv, ExecutionsBounded
<1>3. Cardinality(StaleOf(c)) \in Nat
  BY <1>2, FS_CardinalityType
<1> QED
  BY <1>1, <1>3

\* The server takes a request that it does not execute.
LEMMA PendingTail ==
  ASSUME TypeOK, PendingInv, toServer # <<>>, toServer' = Tail(toServer),
         UNCHANGED <<stale, execs, sent>>, tcp'.id = tcp.id
  PROVE  PendingInv'
<1>1. /\ DOMAIN toServer \subseteq Nat
      /\ \A i \in DOMAIN toServer' : i + 1 \in DOMAIN toServer /\ toServer'[i] = toServer[i + 1]
  BY QueueDomain DEF TypeOK, WireTypes
<1>2. \A i \in DOMAIN toServer' : i \in Nat
  BY DEF TypeOK, WireTypes
<1>3. \A i \in DOMAIN toServer' : IsCall(toServer'[i]) =>
        \E k \in DOMAIN sent[toServer'[i].call] : sent[toServer'[i].call][k] = tcp.id
  <2>1. \A j \in DOMAIN toServer : IsCall(toServer[j]) =>
           \E k \in DOMAIN sent[toServer[j].call] : sent[toServer[j].call][k] = tcp.id
    BY DEF PendingInv, EmittedHere
  <2> SUFFICES ASSUME NEW i \in DOMAIN toServer', IsCall(toServer'[i])
               PROVE  \E k \in DOMAIN sent[toServer'[i].call] : sent[toServer'[i].call][k] = tcp.id
    OBVIOUS
  <2>2. i + 1 \in DOMAIN toServer /\ toServer'[i] = toServer[i + 1]
    BY <1>1
  <2>3. IsCall(toServer[i + 1])
    BY <2>2
  <2> QED
    BY <2>1, <2>2, <2>3
<1>4. ASSUME NEW i \in DOMAIN toServer', NEW j \in DOMAIN toServer',
             IsCall(toServer'[i]), IsCall(toServer'[j]), toServer'[i].call = toServer'[j].call
      PROVE  i = j
  <2>1. i + 1 = j + 1
    BY <1>1, <1>4 DEF PendingInv, EmittedOnce
  <2> QED
    BY <1>2, <2>1
<1>5. \A c \in Calls : StaleOf(c)' = StaleOf(c) /\ (InQueue(c)' => InQueue(c))
  BY <1>1 DEF StaleOf, InQueue
<1>6. \A c \in Calls :
        /\ IsFiniteSet(StaleOf(c)')
        /\ execs[c] + Cardinality(StaleOf(c)') + (IF InQueue(c)' THEN 1 ELSE 0) <= Len(sent[c])
  <2> TAKE c \in Calls
  <2>1. execs[c] + Cardinality(StaleOf(c)) + (IF InQueue(c) THEN 1 ELSE 0) <= Len(sent[c])
    BY DEF PendingInv, ExecutionsBounded
  <2>2. IsFiniteSet(StaleOf(c)')
    BY <1>5 DEF PendingInv, ExecutionsBounded
  <2> QED
    BY <1>5, <2>1, <2>2, PendingTypes
<1> QED
  BY <1>3, <1>4, <1>6 DEF PendingInv, EmittedHere, EmittedOnce, ExecutionsBounded

\* A request of the handshake or a Disconnect is sent.
LEMMA PendingOther ==
  ASSUME TypeOK, PendingInv, NEW m, m.type # "Call", toServer' = Append(toServer, m),
         UNCHANGED <<stale, execs, sent>>, tcp'.id = tcp.id
  PROVE  PendingInv'
<1>1. \A i \in DOMAIN toServer' :
         IsCall(toServer'[i]) => i \in DOMAIN toServer /\ toServer'[i] = toServer[i]
  BY AppendDomain DEF TypeOK, WireTypes, IsCall
<1>2. \A c \in Calls : StaleOf(c)' = StaleOf(c) /\ (InQueue(c)' => InQueue(c))
  BY <1>1 DEF StaleOf, InQueue
<1>3. \A c \in Calls :
        /\ IsFiniteSet(StaleOf(c)')
        /\ execs[c] + Cardinality(StaleOf(c)') + (IF InQueue(c)' THEN 1 ELSE 0) <= Len(sent[c])
  <2> TAKE c \in Calls
  <2>1. execs[c] + Cardinality(StaleOf(c)) + (IF InQueue(c) THEN 1 ELSE 0) <= Len(sent[c])
    BY DEF PendingInv, ExecutionsBounded
  <2>2. IsFiniteSet(StaleOf(c)')
    BY <1>2 DEF PendingInv, ExecutionsBounded
  <2> QED
    BY <1>2, <2>1, <2>2, PendingTypes
<1>4. EmittedHere'
  BY <1>1 DEF PendingInv, EmittedHere
<1>5. EmittedOnce'
  BY <1>1 DEF PendingInv, EmittedOnce
<1> QED
  BY <1>3, <1>4, <1>5 DEF PendingInv, ExecutionsBounded

\* The emission of a call may lead to one more execution, on a connection the
\* call was not yet sent on.
LEMMA PendingEmit ==
  ASSUME TypeOK, MutexInv, CallInv, SentInv, PendingInv, NEW t \in Threads, EmitCall(t)
  PROVE  PendingInv'
<1> DEFINE c == callOf[t]
           m == [Message("Call", core.sessionId, core.seqNumber + 1, c)
                   EXCEPT !.info = req.info, !.ctx = req.ctx]
<1>1. c \in Calls /\ c = callOf[t]
  BY DEF EmitCall, CallInv, InsideCall
<1>2. m.call = c /\ m.type = "Call"
  BY DEF Message
<1>3. /\ toServer' = Append(toServer, m) /\ sent' = [sent EXCEPT ![c] = Append(@, tcp.id)]
      /\ UNCHANGED <<stale, execs, tcp>>
  BY DEF EmitCall, serverVars
<1> HIDE DEF m, c
<1>4. /\ sent[c] \in Seq(Nat) /\ tcp.id \in Nat
      /\ sent'[c] = Append(sent[c], tcp.id)
      /\ \A d \in Calls : d # c => sent'[d] = sent[d]
  BY <1>1, <1>3 DEF TypeOK, HistTypes, WireTypes, TcpType
<1>5. /\ Len(sent'[c]) = Len(sent[c]) + 1
      /\ Len(sent[c]) + 1 \in DOMAIN sent'[c] /\ sent'[c][Len(sent[c]) + 1] = tcp.id
      /\ \A k \in DOMAIN sent[c] : k \in DOMAIN sent'[c] /\ sent'[c][k] = sent[c][k]
  BY <1>4, AppendIndex
<1>6. ~InQueue(c)
  <2> SUFFICES ASSUME NEW i \in DOMAIN toServer, IsCall(toServer[i]), toServer[i].call = c
               PROVE  FALSE
    BY DEF InQueue
  <2>1. PICK k \in DOMAIN sent[c] : sent[c][k] = tcp.id
    BY DEF PendingInv, EmittedHere
  <2>2. sent[c][k] < tcp.id
    BY <1>1, <2>1 DEF SentInv, EmitCall
  <2> QED
    BY <1>4, <2>1, <2>2
<1>7. /\ \A i \in DOMAIN toServer' :
           toServer'[i] = m \/ (i \in DOMAIN toServer /\ toServer'[i] = toServer[i])
      /\ \A i \in DOMAIN toServer' : i \notin DOMAIN toServer => i = Len(toServer) + 1
      /\ DOMAIN toServer = 1..Len(toServer) /\ Len(toServer) \in Nat
      /\ \A i \in DOMAIN toServer : toServer'[i] = toServer[i]
  BY <1>3, AppendDomain, AppendIndex DEF TypeOK, WireTypes
<1>8. ASSUME NEW i \in DOMAIN toServer', IsCall(toServer'[i])
      PROVE  \E k \in DOMAIN sent'[toServer'[i].call] : sent'[toServer'[i].call][k] = tcp.id
  <2>1. CASE toServer'[i].call = c
    BY <1>5, <2>1
  <2>2. CASE toServer'[i].call # c
    <3>1. i \in DOMAIN toServer /\ toServer'[i] = toServer[i]
      BY <1>2, <1>7, <2>2
    <3>2. PICK k \in DOMAIN sent[toServer[i].call] : sent[toServer[i].call][k] = tcp.id
      BY <1>8, <3>1 DEF PendingInv, EmittedHere
    <3>3. sent'[toServer[i].call] = sent[toServer[i].call]
      BY <1>3, <2>2, <3>1
    <3> QED
      BY <3>1, <3>2, <3>3
  <2> QED
    BY <2>1, <2>2
<1>9. ASSUME NEW i \in DOMAIN toServer', NEW j \in DOMAIN toServer',
             IsCall(toServer'[i]), IsCall(toServer'[j]), toServer'[i].call = toServer'[j].call
      PROVE  i = j
  <2>1. CASE i \in DOMAIN toServer /\ j \in DOMAIN toServer
    BY <1>7, <1>9, <2>1 DEF PendingInv, EmittedOnce
  <2>2. CASE i \notin DOMAIN toServer /\ j \notin DOMAIN toServer
    BY <1>7, <2>2
  <2>3. CASE (i \in DOMAIN toServer) # (j \in DOMAIN toServer)
    BY <1>2, <1>6, <1>7, <1>9, <2>3 DEF InQueue
  <2> QED
    BY <2>1, <2>2, <2>3
<1>10. ASSUME NEW d \in Calls
       PROVE  /\ IsFiniteSet(StaleOf(d)')
              /\ execs[d] + Cardinality(StaleOf(d)') + (IF InQueue(d)' THEN 1 ELSE 0)
                    <= Len(sent'[d])
  <2>1. StaleOf(d)' = StaleOf(d)
    BY <1>3 DEF StaleOf
  <2>2. /\ IsFiniteSet(StaleOf(d))
        /\ execs[d] + Cardinality(StaleOf(d)) + (IF InQueue(d) THEN 1 ELSE 0) <= Len(sent[d])
    BY DEF PendingInv, ExecutionsBounded
  <2>3. CASE d = c
    BY <1>5, <1>6, <2>1, <2>2, <2>3, PendingTypes
  <2>4. CASE d # c
    <3>1. InQueue(d)' => InQueue(d)
      BY <1>2, <1>7, <2>4 DEF InQueue
    <3> QED
      BY <1>4, <2>1, <2>2, <2>4, <3>1, PendingTypes
  <2> QED
    BY <2>3, <2>4
<1> QED
  <2>1. EmittedHere'
    BY <1>3, <1>8 DEF EmittedHere
  <2>2. EmittedOnce'
    BY <1>9 DEF EmittedOnce
  <2>3. ExecutionsBounded'
    <3>1. execs' = execs
      BY <1>3
    <3>2. ASSUME NEW d \in Calls
          PROVE  /\ IsFiniteSet(StaleOf(d)')
                 /\ execs'[d] + Cardinality(StaleOf(d)') + (IF InQueue(d)' THEN 1 ELSE 0)
                       <= Len(sent'[d])
      BY <1>10, <3>1
    <3> QED
      BY <3>2 DEF ExecutionsBounded
  <2> QED
    BY <2>1, <2>2, <2>3 DEF PendingInv

\* The execution of a request takes it from the wire.
LEMMA PendingExecute ==
  ASSUME TypeOK, ExecInv, PendingInv, SrvExecute
  PROVE  PendingInv' /\ \A c \in Calls : execs'[c] # execs[c] => execs[c] < Len(sent[c])
<1>0. PICK c : c = Head(toServer).call
  OBVIOUS
<1>1. /\ toServer # <<>> /\ toServer' = Tail(toServer)
      /\ execs' = [execs EXCEPT ![c] = @ + 1] /\ UNCHANGED <<stale, sent, tcp>>
  BY <1>0 DEF SrvExecute
<1>2. /\ 1 \in DOMAIN toServer /\ IsCall(toServer[1]) /\ toServer[1].call = c
      /\ \A i \in DOMAIN toServer' : i + 1 \in DOMAIN toServer /\ toServer'[i] = toServer[i + 1]
      /\ \A i \in DOMAIN toServer' : i \in Nat \ {0}
  BY <1>0, <1>1, QueueDomain DEF TypeOK, WireTypes, SrvExecute, IsCall
<1>3. c \in Calls
  BY <1>2 DEF ExecInv, IsCall
<1>4. InQueue(c) /\ ~InQueue(c)'
  <2>1. InQueue(c)
    BY <1>2 DEF InQueue
  <2>2. ASSUME NEW i \in DOMAIN toServer', IsCall(toServer'[i]), toServer'[i].call = c
        PROVE  FALSE
    <3>1. i + 1 = 1
      BY <1>2, <2>2 DEF PendingInv, EmittedOnce
    <3> QED
      BY <1>2, <3>1
  <2> QED
    BY <2>1, <2>2 DEF InQueue
<1>5. \A i \in DOMAIN toServer' : IsCall(toServer'[i]) =>
        \E k \in DOMAIN sent[toServer'[i].call] : sent[toServer'[i].call][k] = tcp.id
  BY <1>2 DEF PendingInv, EmittedHere
<1>6. ASSUME NEW i \in DOMAIN toServer', NEW j \in DOMAIN toServer',
             IsCall(toServer'[i]), IsCall(toServer'[j]), toServer'[i].call = toServer'[j].call
      PROVE  i = j
  <2>1. i + 1 = j + 1
    BY <1>2, <1>6 DEF PendingInv, EmittedOnce
  <2> QED
    BY <1>2, <2>1
<1>7. ASSUME NEW d \in Calls
      PROVE  /\ IsFiniteSet(StaleOf(d)')
             /\ execs'[d] + Cardinality(StaleOf(d)') + (IF InQueue(d)' THEN 1 ELSE 0)
                   <= Len(sent[d])
             /\ execs'[d] # execs[d] => execs[d] < Len(sent[d])
  <2>1. StaleOf(d)' = StaleOf(d)
    BY <1>1 DEF StaleOf
  <2>2. /\ IsFiniteSet(StaleOf(d))
        /\ execs[d] + Cardinality(StaleOf(d)) + (IF InQueue(d) THEN 1 ELSE 0) <= Len(sent[d])
    BY DEF PendingInv, ExecutionsBounded
  <2>3. InQueue(d)' => InQueue(d)
    BY <1>2 DEF InQueue
  <2>4. execs'[d] = IF d = c THEN execs[d] + 1 ELSE execs[d]
    BY <1>1 DEF TypeOK, HistTypes
  <2>5. CASE d = c
    BY <1>4, <2>1, <2>2, <2>4, <2>5, PendingTypes
  <2>6. CASE d # c
    BY <2>1, <2>2, <2>3, <2>4, <2>6, PendingTypes
  <2> QED
    BY <2>5, <2>6
<1> QED
  BY <1>1, <1>5, <1>6, <1>7 DEF PendingInv, EmittedHere, EmittedOnce, ExecutionsBounded

\* So does the execution of a request that had reached the server before its
\* connection was lost.
LEMMA PendingStale ==
  ASSUME TypeOK, ExecInv, PendingInv, SrvExecuteStale
  PROVE  PendingInv' /\ \A c \in Calls : execs'[c] # execs[c] => execs[c] < Len(sent[c])
<1>1. PICK m \in stale : /\ stale' = stale \ {m} /\ execs' = [execs EXCEPT ![m.call] = @ + 1]
  BY DEF SrvExecuteStale
<1>2. UNCHANGED <<toServer, sent, tcp>>
  BY DEF SrvExecuteStale, wireVars
<1>3. ASSUME NEW d \in Calls
      PROVE  /\ IsFiniteSet(StaleOf(d)')
             /\ execs'[d] + Cardinality(StaleOf(d)') + (IF InQueue(d)' THEN 1 ELSE 0)
                   <= Len(sent[d])
             /\ execs'[d] # execs[d] => execs[d] < Len(sent[d])
  <2>1. StaleOf(d)' = StaleOf(d) \ {m}
    BY <1>1 DEF StaleOf
  <2>2. /\ IsFiniteSet(StaleOf(d))
        /\ execs[d] + Cardinality(StaleOf(d)) + (IF InQueue(d) THEN 1 ELSE 0) <= Len(sent[d])
    BY DEF PendingInv, ExecutionsBounded
  <2>3. /\ IsFiniteSet(StaleOf(d)')
        /\ Cardinality(StaleOf(d)') =
             IF m \in StaleOf(d) THEN Cardinality(StaleOf(d)) - 1 ELSE Cardinality(StaleOf(d))
    BY <2>1, <2>2, FS_RemoveElement
  <2>4. m \in StaleOf(d) <=> m.call = d
    BY DEF StaleOf
  <2>5. execs'[d] = IF m.call = d THEN execs[d] + 1 ELSE execs[d]
    BY <1>1 DEF TypeOK, HistTypes
  <2>6. InQueue(d)' = InQueue(d)
    BY <1>2 DEF InQueue
  <2>7. m \in StaleOf(d) => Cardinality(StaleOf(d)) >= 1
    BY <2>2, <2>3, FS_CardinalityType
  <2> QED
    BY <2>2, <2>3, <2>4, <2>5, <2>6, <2>7, PendingTypes
<1> QED
  BY <1>2, <1>3 DEF PendingInv, EmittedHere, EmittedOnce, ExecutionsBounded

\* With its connection a request is lost, or it is now one the server may still
\* execute.
LEMMA PendingLoss ==
  ASSUME TypeOK, PendingInv, NEW fault, NEW state, LoseConnection(fault, state)
  PROVE  PendingInv'
<1>1. /\ toServer' = <<>> /\ stale' \in {stale, stale \cup CallsIn(toServer)}
      /\ UNCHANGED <<execs, sent>>
  BY DEF LoseConnection, histVars
<1>2. ASSUME NEW c \in Calls
      PROVE  /\ IsFiniteSet(StaleOf(c)')
             /\ execs[c] + Cardinality(StaleOf(c)') + (IF InQueue(c)' THEN 1 ELSE 0) <= Len(sent[c])
  <2>1. /\ IsFiniteSet(StaleOf(c))
        /\ execs[c] + Cardinality(StaleOf(c)) + (IF InQueue(c) THEN 1 ELSE 0) <= Len(sent[c])
    BY DEF PendingInv, ExecutionsBounded
  <2>2. ~InQueue(c)'
    BY <1>1 DEF InQueue
  <2>3. CASE StaleOf(c)' = StaleOf(c)
    BY <2>1, <2>2, <2>3, PendingTypes
  <2>4. CASE StaleOf(c)' # StaleOf(c)
    <3>1. stale' = stale \cup CallsIn(toServer)
      BY <1>1, <2>4 DEF StaleOf
    <3>2. PICK i \in DOMAIN toServer : IsCall(toServer[i]) /\ toServer[i].call = c
      BY <2>4, <3>1 DEF StaleOf, CallsIn, IsCall
    <3>3. \A j \in DOMAIN toServer : IsCall(toServer[j]) /\ toServer[j].call = c => j = i
      BY <3>2 DEF PendingInv, EmittedOnce
    <3>4. StaleOf(c)' = StaleOf(c) \cup {toServer[i]}
      BY <2>4, <3>1, <3>2, <3>3 DEF StaleOf, CallsIn, IsCall
    <3>5. /\ IsFiniteSet(StaleOf(c)')
          /\ Cardinality(StaleOf(c)') <= Cardinality(StaleOf(c)) + 1
          /\ Cardinality(StaleOf(c)') \in Nat
      <4>1. /\ IsFiniteSet(StaleOf(c)')
            /\ Cardinality(StaleOf(c)') =
                 IF toServer[i] \in StaleOf(c) THEN Cardinality(StaleOf(c))
                                               ELSE Cardinality(StaleOf(c)) + 1
        BY <2>1, <3>4, FS_AddElement
      <4> QED
        BY <4>1, PendingTypes
    <3>6. InQueue(c)
      BY <3>2 DEF InQueue
    <3> QED
      BY <2>1, <2>2, <3>5, <3>6, PendingTypes
  <2> QED
    BY <2>3, <2>4
<1> QED
  BY <1>1, <1>2 DEF PendingInv, EmittedHere, EmittedOnce, ExecutionsBounded

\* Every step preserves the bound on executions.
LEMMA PendingStep ==
  ASSUME IInv, PendingInv, [Next]_vars
  PROVE  PendingInv'
<1> USE DEF PendingUntouched, mutexVars, threadVars, wireVars, serverVars, histVars
<1>0. TypeOK /\ MutexInv /\ CallInv /\ ExecInv /\ SentInv
  BY DEF IInv
<1>1. ASSUME NEW t \in Threads, CallStep(t) PROVE PendingInv'
  <2>1. CASE EmitCall(t)
    BY <1>0, <2>1, PendingEmit
  <2>2. CASE IoError(t)
    <3>1. tcp'.id = tcp.id
      BY <1>0, <2>2 DEF IoError, TypeOK, WireTypes, TcpType
    <3> QED
      BY <2>2, <3>1, PendingSame DEF IoError
  <2>3. CASE ~EmitCall(t) /\ ~IoError(t)
    <3>1. PendingUntouched
      BY <1>1, <2>3 DEF CallStep, LockAndAugment, LockIsPoisoned, ReadReply, ReadError,
         ReadErrors, ReadCutReply, ParseFails, Digest
    <3> QED
      BY <3>1, PendingSame
  <2> QED
    BY <2>1, <2>2, <2>3
<1>1a. ASSUME NEW t \in Threads, GarbledStep(t) PROVE PendingInv'
  <2>1. PendingUntouched
    BY <1>1a DEF GarbledStep, ReadGarbled, Misread
  <2> QED
    BY <2>1, PendingSame
<1>2. ASSUME NEW t \in Threads, HandshakeStep(t) PROVE PendingInv'
  <2>1. CASE Dial(t)
    <3>1. toServer' = <<>> /\ UNCHANGED <<stale, execs, sent>>
      BY <2>1 DEF Dial
    <3>2. \A c \in Calls : ~InQueue(c)' /\ StaleOf(c)' = StaleOf(c)
      BY <3>1 DEF InQueue, StaleOf
    <3>3. ASSUME NEW c \in Calls
          PROVE  execs[c] + Cardinality(StaleOf(c)) + 0 <= Len(sent[c])
      BY <1>0, PendingTypes DEF PendingInv, ExecutionsBounded
    <3>4. ExecutionsBounded'
      BY <3>1, <3>2, <3>3 DEF PendingInv, ExecutionsBounded
    <3> QED
      BY <3>1, <3>4 DEF PendingInv, EmittedHere, EmittedOnce
  <2>2. CASE EmitAuthenticate(t)
    <3> DEFINE m == Message("Authenticate", 0, AuthSeq, NoCall)
    <3>1. m.type # "Call"
      BY DEF Message
    <3>2. toServer' = Append(toServer, m) /\ UNCHANGED <<stale, execs, sent, tcp>>
      BY <2>2 DEF EmitAuthenticate
    <3> HIDE DEF m
    <3> QED
      BY <1>0, <3>1, <3>2, PendingOther
  <2>3. CASE EmitConnect(t)
    <3> DEFINE m == Message("Connect", core.sessionId, core.seqNumber + 1, NoCall)
    <3>1. m.type # "Call"
      BY DEF Message
    <3>2. toServer' = Append(toServer, m) /\ UNCHANGED <<stale, execs, sent, tcp>>
      BY <2>3 DEF EmitConnect
    <3> HIDE DEF m
    <3> QED
      BY <1>0, <3>1, <3>2, PendingOther
  <2>4. CASE DialFails(t) \/ ReadChallenge(t) \/ ReadSession(t) \/ ReadRefusal(t)
    <3>1. PendingUntouched
      BY <2>4 DEF DialFails, ReadChallenge, ReadSession, ReadRefusal
    <3> QED
      BY <3>1, PendingSame
  <2> QED
    BY <1>2, <2>1, <2>2, <2>3, <2>4 DEF HandshakeStep
<1>3. ASSUME NEW t \in Threads, UserStep(t) PROVE PendingInv'
  <2>1. CASE DropClone(t)
    <3> DEFINE m == Message("Disconnect", core.sessionId, core.seqNumber + 1, NoCall)
    <3>1. m.type # "Call"
      BY DEF Message
    <3>2. /\ toServer' = toServer \/ toServer' = Append(toServer, m)
          /\ UNCHANGED <<stale, execs, sent>>
      BY <2>1 DEF DropClone
    <3>3. tcp'.id = tcp.id
      BY <1>0, <2>1 DEF DropClone, TypeOK, WireTypes, TcpType
    <3> HIDE DEF m
    <3> QED
      BY <1>0, <3>1, <3>2, <3>3, PendingOther, PendingSame
  <2>2. CASE SetApplication(t) \/ PopWarnings(t) \/ \E c \in Calls : StartCall(t, c)
    <3>1. PendingUntouched
      BY <2>2 DEF SetApplication, PopWarnings, StartCall
    <3> QED
      BY <3>1, PendingSame
  <2> QED
    BY <1>3, <2>1, <2>2 DEF UserStep
<1>4. CASE SrvAuthenticate \/ SrvConnect \/ SrvDisconnect
  BY <1>0, <1>4, PendingTail DEF SrvAuthenticate, SrvConnect, SrvDisconnect
<1>5. CASE SrvReject
  <2>1. tcp'.id = tcp.id
    BY <1>0, <1>5 DEF SrvReject, TypeOK, WireTypes, TcpType
  <2> QED
    BY <1>0, <1>5, <2>1, PendingTail DEF SrvReject
<1>6. CASE SrvExecute
  BY <1>0, <1>6, PendingExecute
<1>7. CASE SrvExecuteStale
  BY <1>0, <1>7, PendingStale
<1>8. CASE Reset \/ Close
  BY <1>0, <1>8, PendingLoss DEF Reset, Close
<1>9. CASE UNCHANGED vars
  BY <1>9, PendingSame DEF vars
<1> QED
  BY <1>1, <1>1a, <1>2, <1>3, <1>4, <1>5, <1>6, <1>7, <1>8, <1>9 DEF Next, ServerStep

\* A call is executed at most as often as it was emitted, whatever becomes of
\* the connections it was emitted on.
THEOREM ExecutionsAreBounded == Spec => []PendingInv
<1>1. Init => PendingInv
  <2> SUFFICES ASSUME Init PROVE PendingInv
    OBVIOUS
  <2>1. \A c \in Calls : StaleOf(c) = {} /\ ~InQueue(c)
    BY DEF Init, StaleOf, InQueue
  <2>2. IsFiniteSet({}) /\ Cardinality({}) = 0
    BY FS_EmptySet
  <2>3. \A c \in Calls : execs[c] = 0 /\ Len(sent[c]) = 0
    BY DEF Init
  <2>4. ExecutionsBounded
    BY <2>1, <2>2, <2>3, SMTT(60) DEF ExecutionsBounded
  <2> QED
    BY <2>4 DEF Init, PendingInv, EmittedHere, EmittedOnce
<1>2. IInv /\ PendingInv /\ [Next]_vars => PendingInv'
  BY PendingStep
<1> QED
  BY Invariance, <1>1, <1>2, PTL DEF Spec

-----------------------------------------------------------------------------
(* The steps of RemoteCalls.                                               *)

Turn == IF lock \in Threads THEN callOf[lock] ELSE NoCall
Digesting(c) == \E t \in Threads : callOf[t] = c /\ pc[t] = "digest"
Status == [c \in Calls |-> IF Digesting(c) THEN "answered" ELSE outcome[c]]
Sends == [c \in Calls |-> Len(sent[c])]

\* What RemoteCalls sees of the state.
RemoteUntouched == UNCHANGED <<Turn, Status, Sends, execs>>

\* The actions of RemoteCalls under the refinement mapping.
LEMMA Mapping ==
  /\ RemoteUntouched => UNCHANGED Remote!rvars
  /\ \A c \in Calls :
       /\ Remote!Begin(c) <=>
            /\ Status[c] = "new" /\ Status' = [Status EXCEPT ![c] = "open"]
            /\ UNCHANGED <<Turn, Sends, execs>>
       /\ Remote!Acquire(c) <=>
            /\ Turn = NoCall /\ Status[c] = "open" /\ Sends[c] = 0
            /\ Turn' = c /\ UNCHANGED <<Status, Sends, execs>>
       /\ Remote!Send(c) <=>
            /\ Turn = c /\ Status[c] = "open" /\ Sends[c] < 2
            /\ Sends' = [Sends EXCEPT ![c] = @ + 1]
            /\ UNCHANGED <<Turn, Status, execs>>
       /\ Remote!Effect(c) <=>
            /\ execs[c] < Sends[c] /\ execs' = [execs EXCEPT ![c] = @ + 1]
            /\ UNCHANGED <<Turn, Status, Sends>>
       /\ Remote!Answer(c) <=>
            /\ Turn = c /\ Status[c] = "open" /\ execs[c] > 0
            /\ Turn' = NoCall /\ Status' = [Status EXCEPT ![c] = "answered"]
            /\ UNCHANGED <<Sends, execs>>
       /\ Remote!Misanswer(c) <=>
            /\ Turn = c /\ Status[c] = "open" /\ \E d \in Calls : Status[d] = "err"
            /\ Turn' = NoCall /\ Status' = [Status EXCEPT ![c] = "answered"]
            /\ UNCHANGED <<Sends, execs>>
       /\ Remote!ReturnOk(c) <=>
            /\ Status[c] = "answered" /\ Status' = [Status EXCEPT ![c] = "ok"]
            /\ UNCHANGED <<Turn, Sends, execs>>
       /\ Remote!ReturnErr(c) <=>
            /\ Status[c] \in {"open", "answered"} /\ Status' = [Status EXCEPT ![c] = "err"]
            /\ Turn' = (IF Turn = c THEN NoCall ELSE Turn)
            /\ UNCHANGED <<Sends, execs>>
BY DEF RemoteUntouched, Turn, Status, Sends, Digesting, Remote!rvars, Remote!Begin,
   Remote!Acquire, Remote!Send, Remote!MaxSends,
   Remote!Effect, Remote!Answer, Remote!Misanswer, Remote!ReturnOk, Remote!ReturnErr

\* One call changes its status.
LEMMA StatusChanges ==
  ASSUME NEW c \in Calls, NEW v,
         v = IF Digesting(c)' THEN "answered" ELSE outcome'[c],
         \A d \in Calls : d # c => (Digesting(d)' <=> Digesting(d)) /\ outcome'[d] = outcome[d]
  PROVE  Status' = [Status EXCEPT ![c] = v]
BY DEF Status

\* No call does.
LEMMA StatusSame ==
  ASSUME UNCHANGED outcome, \A d \in Calls : Digesting(d)' <=> Digesting(d)
  PROVE  Status' = Status
BY DEF Status

\* Only the thread that executes a call can be about to digest its reply.
LEMMA WhoDigests ==
  ASSUME CallInv, NEW t \in Threads, callOf[t] \in Calls
  PROVE  /\ Digesting(callOf[t]) <=> pc[t] = "digest"
         /\ outcome[callOf[t]] = "open"
         /\ Status[callOf[t]] = IF pc[t] = "digest" THEN "answered" ELSE "open"
BY DEF CallInv, Digesting, Status

\* The return of a call to the user.
LEMMA ReturnMaps ==
  ASSUME TypeOK, MutexInv, CallInv, NEW t \in Threads, callOf[t] \in Calls,
         lock \in {t, NoThread},
         NEW result \in {"ok", "err"}, result = "ok" => pc[t] = "digest",
         Return(t, result), UNCHANGED <<sent, execs>>
  PROVE  [Remote!Next]_(Remote!rvars)
<1>1. PICK c \in Calls : c = callOf[t]
  OBVIOUS
<1>2. /\ callOf' = [callOf EXCEPT ![t] = NoCall] /\ pc' = [pc EXCEPT ![t] = "idle"]
      /\ outcome' = [outcome EXCEPT ![c] = result] /\ lock' = NoThread
  BY <1>1 DEF Return
<1>3. ~Digesting(c)'
  BY <1>1, <1>2, ConstantsAssumption DEF Digesting, CallInv, TypeOK, ThreadTypes
<1>4. \A d \in Calls : d # c => (Digesting(d)' <=> Digesting(d)) /\ outcome'[d] = outcome[d]
  BY <1>1, <1>2, ConstantsAssumption DEF Digesting, TypeOK, ThreadTypes, HistTypes
<1>5. outcome'[c] = result
  BY <1>2 DEF TypeOK, HistTypes
<1>6. Status' = [Status EXCEPT ![c] = result]
  BY <1>3, <1>4, <1>5, StatusChanges
<1>7. Turn' = NoCall /\ Turn \in {c, NoCall}
  BY <1>1, <1>2, ConstantsAssumption DEF Turn
<1>8. UNCHANGED <<Sends, execs>>
  BY DEF Sends
<1>9. Status[c] = IF pc[t] = "digest" THEN "answered" ELSE "open"
  BY <1>1, WhoDigests
<1>10. Remote!ReturnOk(c) \/ Remote!ReturnErr(c)
  <2>1. CASE result = "ok"
    <3>1. pc[t] = "digest"
      BY <2>1
    <3>2. lock = NoThread /\ Turn = NoCall
      BY <3>1, ConstantsAssumption DEF MutexInv, Holding, Emitting, Reading, InHandshake, Turn
    <3> QED
      BY <1>6, <1>7, <1>8, <1>9, <2>1, <3>1, <3>2, Mapping
  <2>2. CASE result = "err"
    BY <1>6, <1>7, <1>8, <1>9, <2>2, Mapping
  <2> QED
    BY <2>1, <2>2
<1> QED
  BY <1>10 DEF Remote!Next

\* A failure is the return of a call, or the end of a construction without a
\* call.
LEMMA FailMaps ==
  ASSUME TypeOK, MutexInv, CallInv, NEW t \in Threads, lock = t, pc[t] \in Holding,
         pc[t] # "relock", Fail(t), UNCHANGED <<sent, execs>>
  PROVE  [Remote!Next]_(Remote!rvars)
<1>1. CASE t \notin alive
  <2>1. /\ lock' = NoThread /\ pc' = [pc EXCEPT ![t] = "gone"]
        /\ UNCHANGED <<outcome, callOf>>
    BY <1>1 DEF Fail, FailConstruction, Constructing
  <2>2. pc[t] \in Connecting /\ callOf[t] = NoCall
    BY <1>1 DEF TypeOK, ThreadTypes, CallInv, MutexInv, Holding, Emitting, Reading, InHandshake,
                Connecting, InsideCall
  <2>3. \A d \in Calls : Digesting(d)' <=> Digesting(d)
    BY <2>1, <2>2 DEF Digesting, TypeOK, ThreadTypes, Connecting, InHandshake
  <2>4. Status' = Status
    BY <2>1, <2>3, StatusSame
  <2>5. Turn' = Turn
    BY <2>1, <2>2, ConstantsAssumption DEF Turn
  <2>6. Sends' = Sends
    BY DEF Sends
  <2> QED
    BY <2>4, <2>5, <2>6, Mapping DEF RemoteUntouched
<1>2. CASE t \in alive
  <2>1. callOf[t] \in Calls
    BY <1>2 DEF TypeOK, ThreadTypes, CallInv, MutexInv, Holding, Emitting, Reading, InHandshake,
                Connecting, InsideCall
  <2>2. Return(t, "err")
    BY <1>2 DEF Fail, Constructing
  <2> QED
    BY <2>1, <2>2, ReturnMaps
<1> QED
  BY <1>1, <1>2

\* The emission of a call is a Send.
LEMMA EmitMaps ==
  ASSUME IInv, NEW t \in Threads, EmitCall(t)
  PROVE  [Remote!Next]_(Remote!rvars)
<1>1. TypeOK /\ MutexInv /\ CallInv /\ SentInv
  BY DEF IInv
<1>2. PICK c \in Calls : c = callOf[t]
  BY <1>1 DEF EmitCall, CallInv, InsideCall
<1>3. /\ pc[t] = "emit" /\ pc' = [pc EXCEPT ![t] = "read"]
      /\ sent' = [sent EXCEPT ![c] = Append(@, tcp.id)]
      /\ UNCHANGED <<lock, callOf, outcome, execs>>
  BY <1>2 DEF EmitCall, mutexVars
<1>4. Turn = c /\ Turn' = Turn
  BY <1>1, <1>2, <1>3 DEF Turn, MutexInv, Holding, Emitting
<1>5. Status[c] = "open"
  BY <1>1, <1>2, <1>3, WhoDigests
<1>6. Status' = Status
  <2>1. \A d \in Calls : Digesting(d)' <=> Digesting(d)
    BY <1>1, <1>3 DEF Digesting, TypeOK, ThreadTypes
  <2> QED
    BY <1>3, <2>1, StatusSame
<1>7. sent[c] \in Seq(Nat) /\ Len(sent[c]) <= 1
  BY <1>1, <1>2, <1>3 DEF SentInv, TypeOK, HistTypes
<1>8. Sends' = [Sends EXCEPT ![c] = @ + 1] /\ Sends[c] < 2
  <2>1. \A d \in Calls : Len(sent'[d]) = IF d = c THEN Len(sent[c]) + 1 ELSE Len(sent[d])
    BY <1>1, <1>3, <1>7, AppendIndex DEF TypeOK, HistTypes
  <2>2. Sends' = [d \in Calls |-> Len(sent'[d])]
    BY DEF Sends
  <2>3. Sends' = [Sends EXCEPT ![c] = @ + 1]
    BY <2>1, <2>2 DEF Sends
  <2> QED
    BY <1>7, <2>3 DEF Sends
<1> QED
  BY <1>3, <1>4, <1>5, <1>6, <1>8, Mapping DEF Remote!Next

\* The lock before a call is an Acquire.
LEMMA LockMaps ==
  ASSUME IInv, NEW t \in Threads, LockAndAugment(t)
  PROVE  [Remote!Next]_(Remote!rvars)
<1>1. TypeOK /\ CallInv /\ SentInv
  BY DEF IInv
<1>2. PICK c \in Calls : c = callOf[t]
  BY <1>1 DEF LockAndAugment, CallInv, InsideCall
<1>3. /\ pc[t] = "lock" /\ pc' = [pc EXCEPT ![t] = "emit"] /\ lock = NoThread /\ lock' = t
      /\ UNCHANGED <<callOf, outcome, sent, execs>>
  BY DEF LockAndAugment, CanAcquire, histVars
<1>4. Turn = NoCall /\ Turn' = c
  BY <1>2, <1>3, ConstantsAssumption DEF Turn
<1>5. Status[c] = "open"
  BY <1>1, <1>2, <1>3, WhoDigests
<1>6. Status' = Status
  <2>1. \A d \in Calls : Digesting(d)' <=> Digesting(d)
    BY <1>1, <1>3 DEF Digesting, TypeOK, ThreadTypes
  <2> QED
    BY <1>3, <2>1, StatusSame
<1>7. Sends[c] = 0 /\ Sends' = Sends
  BY <1>1, <1>2, <1>3 DEF Sends, SentInv
<1> QED
  BY <1>3, <1>4, <1>5, <1>6, <1>7, Mapping DEF Remote!Next

\* A reply that is taken for the one to the call of t: the answer.
LEMMA TakeReplyMaps ==
  ASSUME IInv, NEW t \in Threads, NEW r, pc[t] = "read", TakeReply(t, r),
         UNCHANGED <<sent, execs>>,
         execs[callOf[t]] > 0 \/ ~NoCallFailed
  PROVE  [Remote!Next]_(Remote!rvars)
<1>1. TypeOK /\ MutexInv /\ CallInv
  BY DEF IInv
<1>2. PICK c \in Calls : c = callOf[t]
  BY <1>1 DEF CallInv, InsideCall
<1>3. /\ pc' = [pc EXCEPT ![t] = "digest"] /\ lock' = NoThread
      /\ UNCHANGED <<callOf, outcome>>
  BY DEF TakeReply
<1>4. Turn = c /\ Turn' = NoCall
  BY <1>1, <1>2, <1>3, ConstantsAssumption DEF Turn, MutexInv, Holding, Reading
<1>5. Status[c] = "open"
  BY <1>1, <1>2, <1>3, WhoDigests
<1>6. Status' = [Status EXCEPT ![c] = "answered"]
  <2>1. Digesting(c)'
    BY <1>1, <1>2, <1>3 DEF Digesting, TypeOK, ThreadTypes
  <2>2. \A d \in Calls : d # c => (Digesting(d)' <=> Digesting(d)) /\ outcome'[d] = outcome[d]
    BY <1>1, <1>2, <1>3 DEF Digesting, TypeOK, ThreadTypes
  <2> QED
    BY <2>1, <2>2, StatusChanges
<1>7. Sends' = Sends
  BY DEF Sends
<1>8. CASE execs[c] > 0
  BY <1>4, <1>5, <1>6, <1>7, <1>8, Mapping DEF Remote!Next
<1>9. CASE ~NoCallFailed
  <2>1. PICK d \in Calls : outcome[d] = "err"
    BY <1>9 DEF NoCallFailed
  <2>2. Status[d] = "err"
    BY <1>1, <2>1 DEF CallInv, Status, Digesting
  <2> QED
    BY <1>4, <1>5, <1>6, <1>7, <2>2, Mapping DEF Remote!Next
<1> QED
  BY <1>2, <1>8, <1>9

\* The end of the roundtrip is the Answer.
LEMMA ReadMaps ==
  ASSUME IInv, NEW t \in Threads, ReadReply(t)
  PROVE  [Remote!Next]_(Remote!rvars)
<1>1. TypeOK /\ MutexInv /\ CallInv /\ WireInv /\ ExecInv
  BY DEF IInv
<1>2. pc[t] = "read" /\ callOf[t] \in Calls
  BY <1>1 DEF ReadReply, HasReply, CallInv, InsideCall
<1>3. execs[callOf[t]] > 0
  <2>1. /\ ~garbled /\ toClient # <<>> /\ toClient[1] = Head(toClient) /\ 1 \in DOMAIN toClient
        /\ toClient[1].kind # "error"
    BY <1>1, QueueDomain DEF ReadReply, TakeReply, HasReply, TypeOK, WireTypes
  <2>2. lock = t
    BY <1>1, <1>2 DEF MutexInv, Holding, Reading
  <2>3. toClient[1].call = callOf[t]
    BY <1>1, <1>2, <2>1, <2>2
       DEF WireInv, NothingUnderWay, RequestUnderWay, ReplyUnderWay, DisconnectUnderWay
  <2>4. execs[callOf[t]] >= 1 /\ execs[callOf[t]] \in Nat
    BY <1>1, <1>2, <2>1, <2>3 DEF ExecInv, TypeOK, HistTypes
  <2> QED
    BY <2>4
<1> QED
  BY <1>2, <1>3, TakeReplyMaps DEF ReadReply

\* Several errors end the call, and its thread.
LEMMA TakeErrorsMaps ==
  ASSUME IInv, NEW t \in Threads, NEW r, pc[t] = "read", TakeErrors(t, r),
         UNCHANGED <<sent, execs>>
  PROVE  [Remote!Next]_(Remote!rvars)
<1>0. TypeOK /\ MutexInv /\ CallInv
  BY DEF IInv
<1>1. PICK c : c = callOf[t]
  OBVIOUS
<1>2. /\ pc' = [pc EXCEPT ![t] = "panicked"] /\ lock' = NoThread
      /\ callOf' = [callOf EXCEPT ![t] = NoCall] /\ outcome' = [outcome EXCEPT ![c] = "err"]
      /\ UNCHANGED <<sent, execs>>
  BY <1>1 DEF TakeErrors
<1>3. c \in Calls /\ lock = t /\ c # NoCall
  BY <1>0, <1>1, <1>2, ConstantsAssumption DEF CallInv, InsideCall, MutexInv, Holding, Reading
<1>4. ~Digesting(c)'
  BY <1>0, <1>1, <1>2, <1>3 DEF Digesting, CallInv, TypeOK, ThreadTypes
<1>5. \A d \in Calls : d # c => (Digesting(d)' <=> Digesting(d)) /\ outcome'[d] = outcome[d]
  BY <1>0, <1>1, <1>2, ConstantsAssumption DEF Digesting, TypeOK, ThreadTypes, HistTypes
<1>6. outcome'[c] = "err"
  BY <1>0, <1>2, <1>3 DEF TypeOK, HistTypes
<1>7. Status' = [Status EXCEPT ![c] = "err"]
  BY <1>3, <1>4, <1>5, <1>6, StatusChanges
<1>8. Status[c] = "open"
  BY <1>0, <1>1, <1>2, <1>3, WhoDigests
<1>9. Turn = c /\ Turn' = NoCall /\ Sends' = Sends
  BY <1>1, <1>2, <1>3, ConstantsAssumption DEF Turn, Sends
<1> QED
  BY <1>2, <1>3, <1>7, <1>8, <1>9, Mapping DEF Remote!Next

\* An execution is an Effect.
LEMMA ExecutionMaps ==
  ASSUME TypeOK, PendingInv, NEW c \in Calls, execs' = [execs EXCEPT ![c] = @ + 1],
         \A d \in Calls : execs'[d] # execs[d] => execs[d] < Len(sent[d]),
         UNCHANGED <<lock, callOf, pc, outcome, sent>>
  PROVE  [Remote!Next]_(Remote!rvars)
<1>1. Turn' = Turn /\ Status' = Status /\ Sends' = Sends
  BY DEF Turn, Status, Sends, Digesting
<1>2. execs[c] \in Nat /\ execs'[c] = execs[c] + 1
  BY DEF TypeOK, HistTypes
<1>3. execs[c] < Sends[c]
  BY <1>2 DEF Sends
<1> QED
  BY <1>1, <1>3, Mapping DEF Remote!Next

\* A new call is a Begin.
LEMMA StartMaps ==
  ASSUME IInv, NEW t \in Threads, NEW c \in Calls, StartCall(t, c)
  PROVE  [Remote!Next]_(Remote!rvars)
<1>1. TypeOK /\ MutexInv /\ CallInv
  BY DEF IInv
<1>2. /\ pc[t] = "idle" /\ pc' = [pc EXCEPT ![t] = "lock"] /\ outcome[c] = "new"
      /\ callOf' = [callOf EXCEPT ![t] = c] /\ outcome' = [outcome EXCEPT ![c] = "open"]
      /\ UNCHANGED <<lock, sent, execs>>
  BY DEF StartCall, mutexVars
<1>3. callOf[t] = NoCall /\ lock # t
  BY <1>1, <1>2 DEF CallInv, MutexInv, Holding, Emitting, Reading, InHandshake
<1>4. ~Digesting(c) /\ ~Digesting(c)'
  BY <1>1, <1>2 DEF Digesting, CallInv, TypeOK, ThreadTypes
<1>5. \A d \in Calls : d # c => (Digesting(d)' <=> Digesting(d)) /\ outcome'[d] = outcome[d]
  BY <1>1, <1>2 DEF Digesting, TypeOK, ThreadTypes, HistTypes
<1>6. Status[c] = "new" /\ outcome'[c] = "open"
  BY <1>1, <1>2, <1>4 DEF Status, TypeOK, HistTypes
<1>7. Status' = [Status EXCEPT ![c] = "open"]
  BY <1>4, <1>5, <1>6, StatusChanges
<1>8. Turn' = Turn /\ Sends' = Sends
  BY <1>1, <1>2, <1>3 DEF Turn, Sends, TypeOK, ThreadTypes
<1> QED
  BY <1>2, <1>6, <1>7, <1>8, Mapping DEF Remote!Next

\* A step of a thread that neither begins nor ends a critical section or a call.
LEMMA InnerStepMaps ==
  ASSUME TypeOK, NEW t \in Threads, pc[t] # "digest",
         NEW label \in Labels, label # "digest", pc' = [pc EXCEPT ![t] = label],
         UNCHANGED <<lock, callOf, outcome, sent, execs>>
  PROVE  [Remote!Next]_(Remote!rvars)
<1>1. \A d \in Calls : Digesting(d)' <=> Digesting(d)
  BY DEF Digesting, TypeOK, ThreadTypes
<1>2. Status' = Status
  BY <1>1, StatusSame
<1>3. Turn' = Turn /\ Sends' = Sends
  BY DEF Turn, Sends
<1> QED
  BY <1>2, <1>3, Mapping DEF RemoteUntouched

\* A step that touches neither threads nor executions.
LEMMA OtherStepMaps ==
  ASSUME UNCHANGED <<lock, callOf, pc, outcome, sent, execs>>
  PROVE  [Remote!Next]_(Remote!rvars)
<1>1. UNCHANGED <<Turn, Status, Sends>>
  BY DEF Turn, Status, Sends, Digesting
<1> QED
  BY <1>1, Mapping DEF RemoteUntouched

-----------------------------------------------------------------------------
(* The refinement.                                                         *)

\* Every step of a call is a step of RemoteCalls, or none.
LEMMA CallStepMaps ==
  ASSUME IInv, NEW t \in Threads, CallStep(t)
  PROVE  [Remote!Next]_(Remote!rvars)
<1>0. TypeOK /\ MutexInv /\ CallInv
  BY DEF IInv
<1> USE DEF mutexVars, threadVars, wireVars, serverVars, histVars
<1>1. CASE LockAndAugment(t)
  BY <1>1, LockMaps
<1>2. CASE EmitCall(t)
  BY <1>2, EmitMaps
<1>3. CASE ReadReply(t)
  BY <1>3, ReadMaps
<1>4. CASE LockIsPoisoned(t)
  <2>1. callOf[t] \in Calls /\ lock = NoThread
    BY <1>0, <1>4 DEF LockIsPoisoned, CallInv, InsideCall
  <2> QED
    BY <1>0, <1>4, <2>1, ReturnMaps DEF LockIsPoisoned
<1>5. CASE ReadError(t) \/ ParseFails(t)
  <2>1. pc[t] = "read" /\ Return(t, "err") /\ UNCHANGED <<sent, execs>>
    BY <1>5 DEF ReadError, TakeError, ParseFails, HasReply
  <2>2. callOf[t] \in Calls /\ lock = t
    BY <1>0, <2>1 DEF CallInv, InsideCall, MutexInv, Holding, Reading
  <2> QED
    BY <1>0, <2>1, <2>2, ReturnMaps
<1>6. CASE ReadErrors(t)
  BY <1>6, TakeErrorsMaps DEF ReadErrors, HasReply
<1>7. CASE ReadCutReply(t)
  <2>1. "relock" \in Labels
    BY DEF Labels
  <2> QED
    BY <1>0, <1>7, <2>1, InnerStepMaps DEF ReadCutReply, HasReply
<1>8. CASE IoError(t)
  <2>1. pc[t] \in Emitting \cup Reading /\ UNCHANGED <<sent, execs>>
    BY <1>8 DEF IoError
  <2>2. lock = t /\ pc[t] \in Holding /\ pc[t] \notin {"relock", "digest"}
    BY <1>0, <2>1 DEF MutexInv, Holding, Emitting, Reading
  <2>3. CASE Fail(t)
    BY <1>0, <2>1, <2>2, <2>3, FailMaps
  <2>4. CASE /\ pc' = [pc EXCEPT ![t] = "dial"]
             /\ UNCHANGED <<lock, callOf, outcome>>
    <3>1. "dial" \in Labels
      BY DEF Labels
    <3> QED
      BY <1>0, <2>1, <2>2, <2>4, <3>1, InnerStepMaps
  <2> QED
    BY <1>8, <2>3, <2>4 DEF IoError
<1>9. CASE Digest(t)
  <2>1. pc[t] = "digest" /\ lock = NoThread /\ UNCHANGED <<sent, execs>>
    BY <1>9 DEF Digest, CanAcquire
  <2>2. PICK result \in {"ok", "err"} : Return(t, result)
    BY <1>9 DEF Digest
  <2>3. callOf[t] \in Calls
    BY <1>0, <2>1 DEF CallInv, InsideCall
  <2> QED
    BY <1>0, <2>1, <2>2, <2>3, ReturnMaps
<1> QED
  BY <1>1, <1>2, <1>3, <1>4, <1>5, <1>6, <1>7, <1>8, <1>9 DEF CallStep

\* What a call makes of the remains of an earlier reply is a failure, an answer
\* by mistake, or no step of RemoteCalls.
LEMMA GarbledStepMaps ==
  ASSUME IInv, GarbledFailed, NEW t \in Threads, GarbledStep(t)
  PROVE  [Remote!Next]_(Remote!rvars)
<1>0. TypeOK /\ MutexInv /\ CallInv
  BY DEF IInv
<1>1. pc[t] = "read" /\ garbled /\ UNCHANGED <<sent, execs>>
  BY DEF GarbledStep, ReadGarbled, Misread, histVars
<1>2. callOf[t] \in Calls /\ lock = t
  BY <1>0, <1>1 DEF CallInv, InsideCall, MutexInv, Holding, Reading
<1>3. ~NoCallFailed
  BY <1>1 DEF GarbledFailed
<1>4. CASE ReadGarbled(t)
  BY <1>0, <1>1, <1>2, <1>4, ReturnMaps DEF ReadGarbled
<1>5. CASE Misread(t)
  <2>1. PICK r \in ReplyType : TakeReply(t, r) \/ TakeError(t, r) \/ TakeErrors(t, r) \/ TakeCut(t)
    BY <1>5, MisreadCases
  <2>2. CASE TakeReply(t, r)
    BY <1>1, <1>3, <2>2, TakeReplyMaps
  <2>3. CASE TakeError(t, r)
    BY <1>0, <1>1, <1>2, <2>3, ReturnMaps DEF TakeError
  <2>4. CASE TakeErrors(t, r)
    BY <1>1, <2>4, TakeErrorsMaps
  <2>5. CASE TakeCut(t)
    <3>1. "relock" \in Labels
      BY DEF Labels
    <3> QED
      BY <1>0, <1>1, <2>5, <3>1, InnerStepMaps DEF TakeCut
  <2> QED
    BY <2>1, <2>2, <2>3, <2>4, <2>5
<1> QED
  BY <1>4, <1>5 DEF GarbledStep

\* A reconnect is no step of RemoteCalls, except when it fails.
LEMMA HandshakeStepMaps ==
  ASSUME IInv, NEW t \in Threads, HandshakeStep(t)
  PROVE  [Remote!Next]_(Remote!rvars)
<1>0. TypeOK /\ MutexInv /\ CallInv
  BY DEF IInv
<1> USE DEF mutexVars, threadVars, wireVars, serverVars, histVars
<1>1. CASE Dial(t)
  <2>1. "emitAuth" \in Labels
    BY DEF Labels
  <2> QED
    BY <1>0, <1>1, <2>1, InnerStepMaps DEF Dial
<1>2. CASE EmitAuthenticate(t)
  <2>1. "readAuth" \in Labels
    BY DEF Labels
  <2> QED
    BY <1>0, <1>2, <2>1, InnerStepMaps DEF EmitAuthenticate
<1>3. CASE ReadChallenge(t)
  <2>1. "emitConnect" \in Labels
    BY DEF Labels
  <2> QED
    BY <1>0, <1>3, <2>1, InnerStepMaps DEF ReadChallenge, HasReply
<1>4. CASE EmitConnect(t)
  <2>1. "readConnect" \in Labels
    BY DEF Labels
  <2> QED
    BY <1>0, <1>4, <2>1, InnerStepMaps DEF EmitConnect
<1>5. CASE ReadSession(t) /\ t \in alive
  <2>1. "emit" \in Labels
    BY DEF Labels
  <2> QED
    BY <1>0, <1>5, <2>1, InnerStepMaps DEF ReadSession, HasReply, Constructing
<1>6. CASE ReadSession(t) /\ t \notin alive
  <2>1. /\ pc[t] = "readConnect" /\ pc' = [pc EXCEPT ![t] = "idle"] /\ lock' = NoThread
        /\ UNCHANGED <<callOf, outcome, sent, execs>>
    BY <1>6 DEF ReadSession, HasReply, Constructing
  <2>2. callOf[t] = NoCall /\ lock = t
    BY <1>0, <1>6, <2>1 DEF TypeOK, ThreadTypes, CallInv, Connecting, MutexInv, Holding, Reading,
                            InHandshake
  <2>3. \A d \in Calls : Digesting(d)' <=> Digesting(d)
    BY <1>0, <2>1 DEF Digesting, TypeOK, ThreadTypes
  <2>4. Status' = Status
    BY <2>1, <2>3, StatusSame
  <2>5. Turn' = Turn /\ Sends' = Sends
    BY <2>1, <2>2, ConstantsAssumption DEF Turn, Sends
  <2> QED
    BY <2>1, <2>4, <2>5, Mapping DEF RemoteUntouched
<1>7. CASE DialFails(t) \/ ReadRefusal(t)
  <2>1. pc[t] \in {"dial", "readAuth", "readConnect"} /\ Fail(t) /\ UNCHANGED <<sent, execs>>
    BY <1>7 DEF DialFails, ReadRefusal, HasReply
  <2>2. pc[t] \in Holding /\ pc[t] # "relock" /\ lock = t
    BY <1>0, <2>1 DEF MutexInv, Holding, Reading
  <2> QED
    BY <1>0, <2>1, <2>2, FailMaps
<1> QED
  BY <1>1, <1>2, <1>3, <1>4, <1>5, <1>6, <1>7 DEF HandshakeStep

\* The other steps: a call begins, the server executes one, or nothing that
\* RemoteCalls sees happens.
LEMMA StepMaps ==
  ASSUME IInv, PendingInv, GarbledFailed, [Next]_vars
  PROVE  [Remote!Next]_(Remote!rvars)
<1>0. TypeOK /\ MutexInv /\ CallInv /\ ExecInv
  BY DEF IInv
<1> USE DEF mutexVars, threadVars, wireVars, serverVars, histVars
<1>1. ASSUME NEW t \in Threads, CallStep(t) PROVE [Remote!Next]_(Remote!rvars)
  BY <1>1, CallStepMaps
<1>1a. ASSUME NEW t \in Threads, GarbledStep(t) PROVE [Remote!Next]_(Remote!rvars)
  BY <1>1a, GarbledStepMaps
<1>2. ASSUME NEW t \in Threads, HandshakeStep(t) PROVE [Remote!Next]_(Remote!rvars)
  BY <1>2, HandshakeStepMaps
<1>3. ASSUME NEW t \in Threads, UserStep(t) PROVE [Remote!Next]_(Remote!rvars)
  <2>1. CASE SetApplication(t) \/ PopWarnings(t)
    BY <2>1, OtherStepMaps DEF SetApplication, PopWarnings
  <2>2. CASE DropClone(t)
    <3>1. "gone" \in Labels
      BY DEF Labels
    <3> QED
      BY <1>0, <2>2, <3>1, InnerStepMaps DEF DropClone
  <2>3. CASE \E c \in Calls : StartCall(t, c)
    BY <2>3, StartMaps
  <2> QED
    BY <1>3, <2>1, <2>2, <2>3 DEF UserStep
<1>4. CASE SrvExecute
  <2>1. PICK c \in Calls : execs' = [execs EXCEPT ![c] = @ + 1]
    <3>1. 1 \in DOMAIN toServer /\ toServer[1] = Head(toServer)
      BY <1>0, <1>4, QueueDomain DEF TypeOK, WireTypes, SrvExecute
    <3>2. Head(toServer).call \in Calls
      BY <1>0, <1>4, <3>1 DEF ExecInv, SrvExecute
    <3> QED
      BY <1>4, <3>2 DEF SrvExecute
  <2>2. UNCHANGED <<lock, callOf, pc, outcome, sent>>
    BY <1>4 DEF SrvExecute
  <2> QED
    BY <1>0, <1>4, <2>1, <2>2, PendingExecute, ExecutionMaps
<1>5. CASE SrvExecuteStale
  <2>1. PICK c \in Calls : execs' = [execs EXCEPT ![c] = @ + 1]
    BY <1>0, <1>5 DEF ExecInv, SrvExecuteStale
  <2>2. UNCHANGED <<lock, callOf, pc, outcome, sent>>
    BY <1>5 DEF SrvExecuteStale
  <2> QED
    BY <1>0, <1>5, <2>1, <2>2, PendingStale, ExecutionMaps
<1>6. CASE SrvAuthenticate \/ SrvConnect \/ SrvReject \/ SrvDisconnect \/ Reset \/ Close
  BY <1>6, OtherStepMaps DEF SrvAuthenticate, SrvConnect, SrvReject, SrvDisconnect, Reset, Close,
     LoseConnection
<1>7. CASE UNCHANGED vars
  BY <1>7, OtherStepMaps DEF vars
<1> QED
  BY <1>1, <1>1a, <1>2, <1>3, <1>4, <1>5, <1>6, <1>7 DEF Next, ServerStep

\* The connection under construction is a RemoteCalls to which no call was made.
LEMMA InitMaps == Init => Remote!Init
<1> SUFFICES ASSUME Init PROVE Remote!Init
  OBVIOUS
<1>1. (IF lock \in Threads THEN callOf[lock] ELSE NoCall) = NoCall
  BY ConstantsAssumption DEF Init
<1>2. \A c \in Calls : (IF \E t \in Threads : callOf[t] = c /\ pc[t] = "digest"
                        THEN "answered" ELSE outcome[c]) = "new"
  BY ConstantsAssumption DEF Init
<1>3. \A c \in Calls : Len(sent[c]) = 0
  BY DEF Init
<1>4. execs = [c \in Calls |-> 0]
  BY DEF Init
<1> QED
  BY <1>1, <1>2, <1>3, <1>4 DEF Remote!Init

-----------------------------------------------------------------------------
(* The session: what the connection and the server agree on; then the      *)
(* client info and the statement sequence.                                 *)

\* The first reply after garbled bytes is that of a new connection.
LEMMA GarbledInvStep ==
  ASSUME TypeOK, MutexInv, WireInv, GarbledInv, [Next]_vars
  PROVE  GarbledInv'
<1> USE DEF GarbledInv, mutexVars, threadVars, wireVars, serverVars, histVars
<1>1. ASSUME NEW t \in Threads, LockAndAugment(t) PROVE GarbledInv'
  BY <1>1 DEF LockAndAugment, CanAcquire
<1>2. ASSUME NEW t \in Threads, LockIsPoisoned(t) PROVE GarbledInv'
  BY <1>2 DEF LockIsPoisoned, Return
<1>3. ASSUME NEW t \in Threads, EmitCall(t) PROVE GarbledInv'
  BY <1>3 DEF EmitCall, Message
<1>4. ASSUME NEW t \in Threads, ReadReply(t) PROVE GarbledInv'
  BY <1>4 DEF ReadReply, TakeReply, HasReply
<1>5. ASSUME NEW t \in Threads, ReadError(t) PROVE GarbledInv'
  BY <1>5 DEF ReadError, TakeError, HasReply, Return
<1>6. ASSUME NEW t \in Threads, ReadErrors(t) PROVE GarbledInv'
  BY <1>6 DEF ReadErrors, TakeErrors, HasReply
<1>7. ASSUME NEW t \in Threads, ReadCutReply(t) PROVE GarbledInv'
  BY <1>7 DEF ReadCutReply, HasReply
<1>8. ASSUME NEW t \in Threads, ParseFails(t) PROVE GarbledInv'
  <2>1. lock = t
    BY <1>8 DEF ParseFails, HasReply, MutexInv, Holding, Reading
  <2>2. Len(toClient) = 1
    BY <1>8 DEF ParseFails, HasReply, WireInv, NothingUnderWay, RequestUnderWay,
       ReplyUnderWay, DisconnectUnderWay
  <2> QED
    BY <1>8, <2>2, QueueOfOne DEF ParseFails, TypeOK, WireTypes
<1>9. ASSUME NEW t \in Threads, ReadGarbled(t) PROVE GarbledInv'
  BY <1>9 DEF ReadGarbled, Return
<1>9a. ASSUME NEW t \in Threads, Misread(t) PROVE GarbledInv'
  <2>1. PICK r \in ReplyType :
           /\ Astray(t) /\ r.call = NoCall
           /\ TakeReply(t, r) \/ TakeError(t, r) \/ TakeErrors(t, r) \/ TakeCut(t)
    BY <1>9a, MisreadCases
  <2>2. CASE TakeReply(t, r)
    BY <2>1, <2>2 DEF Astray, TakeReply
  <2>3. CASE TakeError(t, r)
    BY <2>1, <2>3 DEF Astray, TakeError, Return
  <2>4. CASE TakeErrors(t, r)
    BY <2>1, <2>4 DEF Astray, TakeErrors
  <2>5. CASE TakeCut(t)
    BY <2>1, <2>5 DEF Astray, TakeCut
  <2> QED
    BY <2>1, <2>2, <2>3, <2>4, <2>5
<1>10. ASSUME NEW t \in Threads, IoError(t) PROVE GarbledInv'
  <2>1. CASE FailConstruction(t) /\ t \notin alive
    BY <1>10, <2>1 DEF IoError, FailConstruction
  <2>2. CASE Return(t, "err") /\ t \in alive
    BY <1>10, <2>2 DEF IoError, Return
  <2>3. CASE /\ pc[t] \in {"emit", "read"} /\ CanRepeat
             /\ pc' = [pc EXCEPT ![t] = "dial"] /\ attempt' = 2
             /\ UNCHANGED <<lock, callOf, rep, req, outcome>>
    BY <1>10, <2>3 DEF IoError, CanRepeat
  <2> QED
    BY <1>10, <2>1, <2>2, <2>3 DEF IoError, Fail, Constructing
<1>11. ASSUME NEW t \in Threads, Digest(t) PROVE GarbledInv'
  BY <1>11 DEF Digest, CanAcquire, Return
<1>12. ASSUME NEW t \in Threads, Dial(t) PROVE GarbledInv'
  BY <1>12 DEF Dial, Disconnected
<1>13. ASSUME NEW t \in Threads, DialFails(t) PROVE GarbledInv'
  <2>1. CASE FailConstruction(t) /\ t \notin alive
    BY <1>13, <2>1 DEF DialFails, Disconnected, FailConstruction
  <2>2. CASE Return(t, "err") /\ t \in alive
    BY <1>13, <2>2 DEF DialFails, Disconnected, Return
  <2> QED
    BY <1>13, <2>1, <2>2 DEF DialFails, Fail, Constructing
<1>14. ASSUME NEW t \in Threads, EmitAuthenticate(t) PROVE GarbledInv'
  BY <1>14 DEF EmitAuthenticate, Message
<1>15. ASSUME NEW t \in Threads, ReadChallenge(t) PROVE GarbledInv'
  BY <1>15 DEF ReadChallenge, HasReply
<1>16. ASSUME NEW t \in Threads, EmitConnect(t) PROVE GarbledInv'
  BY <1>16 DEF EmitConnect, Message
<1>17. ASSUME NEW t \in Threads, ReadSession(t) PROVE GarbledInv'
  BY <1>17 DEF ReadSession, HasReply, Constructing, WithSession
<1>18. ASSUME NEW t \in Threads, ReadRefusal(t) PROVE GarbledInv'
  <2>1. CASE FailConstruction(t) /\ t \notin alive
    BY <1>18, <2>1 DEF ReadRefusal, HasReply, FailConstruction
  <2>2. CASE Return(t, "err") /\ t \in alive
    BY <1>18, <2>2 DEF ReadRefusal, HasReply, Return
  <2> QED
    BY <1>18, <2>1, <2>2 DEF ReadRefusal, Fail, Constructing
<1>19. ASSUME NEW t \in Threads, SetApplication(t) PROVE GarbledInv'
  BY <1>19 DEF SetApplication, CanAcquire
<1>20. ASSUME NEW t \in Threads, PopWarnings(t) PROVE GarbledInv'
  BY <1>20 DEF PopWarnings, CanAcquire
<1>21. ASSUME NEW t \in Threads, DropClone(t) PROVE GarbledInv'
  BY <1>21 DEF DropClone, Message
<1>22. ASSUME NEW t \in Threads, NEW c \in Calls, StartCall(t, c) PROVE GarbledInv'
  BY <1>22 DEF StartCall
<1>23. CASE SrvAuthenticate
  BY <1>23 DEF SrvAuthenticate, Answer, Reply
<1>24. CASE SrvConnect
  BY <1>24 DEF SrvConnect, Answer, Reply
<1>25. CASE SrvExecute
  BY <1>25 DEF SrvExecute, Answer, Reply
<1>26. CASE SrvReject
  BY <1>26 DEF SrvReject, Answer, Reply
<1>27. CASE SrvDisconnect
  BY <1>27 DEF SrvDisconnect
<1>28. CASE SrvExecuteStale
  BY <1>28 DEF SrvExecuteStale
<1>29. CASE Reset
  BY <1>29 DEF Reset, LoseConnection, Cut
<1>30. CASE Close
  BY <1>30 DEF Close, LoseConnection, Cut
<1>31. CASE UNCHANGED vars
  BY <1>31 DEF vars
<1> QED
  BY <1>1, <1>2, <1>3, <1>4, <1>5, <1>6, <1>7, <1>8, <1>9, <1>9a, <1>10, <1>11, <1>12,
     <1>13, <1>14, <1>15, <1>16, <1>17, <1>18, <1>19, <1>20, <1>21, <1>22,
     <1>23, <1>24, <1>25, <1>26, <1>27, <1>28, <1>29, <1>30, <1>31
     DEF Next, CallStep, GarbledStep, HandshakeStep, UserStep, ServerStep

\* An answer follows the replies under way.
LEMMA Answered ==
  ASSUME TypeOK, NEW r, Answer(r)
  PROVE  \A i \in DOMAIN toClient' :
            toClient'[i] = r \/ (i \in DOMAIN toClient /\ toClient'[i] = toClient[i])
<1>1. toClient \in Seq(ReplyType)
  BY DEF TypeOK, WireTypes
<1>2. CASE toClient' = toClient
  BY <1>2
<1>3. CASE toClient' = Append(toClient, r)
  BY <1>1, <1>3, AppendDomain
<1> QED
  BY <1>2, <1>3 DEF Answer

\* A request follows the requests under way.
LEMMA Emitted ==
  ASSUME TypeOK, NEW m, toServer' = toServer \/ toServer' = Append(toServer, m)
  PROVE  \A i \in DOMAIN toServer' :
            toServer'[i] = m \/ (i \in DOMAIN toServer /\ toServer'[i] = toServer[i])
<1>1. toServer \in Seq(MessageType)
  BY DEF TypeOK, WireTypes
<1>2. CASE toServer' = toServer
  BY <1>2
<1>3. CASE toServer' = Append(toServer, m)
  BY <1>1, <1>3, AppendDomain
<1> QED
  BY <1>2, <1>3

\* What is left of a reply is no answer.
LEMMA CutKind ==
  ASSUME TypeOK
  PROVE  \/ Cut(toClient) = <<>>
         \/ DOMAIN Cut(toClient) = {1} /\ Cut(toClient)[1].kind = "cut"
<1>1. CASE "cut" \in Faults /\ toClient # <<>> /\ Head(toClient).kind = "resultset"
  <2>1. Head(toClient) \in ReplyType
    BY <1>1, QueueHead DEF TypeOK, WireTypes
  <2>2. [Head(toClient) EXCEPT !.kind = "cut"].kind = "cut"
    BY <2>1 DEF ReplyType
  <2> QED
    BY <1>1, <2>2, SingleMessage DEF Cut
<1>2. CASE ~("cut" \in Faults /\ toClient # <<>> /\ Head(toClient).kind = "resultset")
  BY <1>2 DEF Cut
<1> QED
  BY <1>1, <1>2

\* Requests of the handshake are on the wire during the handshake only.
LEMMA HandshakeInvStep ==
  ASSUME TypeOK, MutexInv, WireInv, HandshakeInv, [Next]_vars
  PROVE  HandshakeInv'
<1> USE DEF HandshakeInv, MutexInv, WireInv,
            NothingUnderWay, RequestUnderWay, ReplyUnderWay, DisconnectUnderWay,
            TypeOK, MutexTypes, ThreadTypes, WireTypes, CoreType,
            Labels, Holding, Emitting, Reading, InHandshake, InsideCall, Connecting,
            mutexVars, threadVars, wireVars, serverVars, histVars
<1>1. ASSUME NEW t \in Threads, LockAndAugment(t) PROVE HandshakeInv'
  BY <1>1, ConstantsAssumption, QueueDomain, QueueOfOne, AppendToEmpty DEF LockAndAugment,
     CanAcquire
<1>2. ASSUME NEW t \in Threads, LockIsPoisoned(t) PROVE HandshakeInv'
  BY <1>2, ConstantsAssumption, QueueDomain, QueueOfOne, AppendToEmpty DEF LockIsPoisoned,
     Return
<1>3. ASSUME NEW t \in Threads, EmitCall(t) PROVE HandshakeInv'
  <2> DEFINE m == [Message("Call", core.sessionId, core.seqNumber + 1, callOf[t])
                     EXCEPT !.info = req.info, !.ctx = req.ctx]
  <2>1. m.type = "Call"
    BY DEF Message
  <2>2. toServer' = Append(toServer, m)
    BY <1>3 DEF EmitCall
  <2> HIDE DEF m
  <2>3. pc[t] = "emit" /\ lock = t /\ alive # {}
    BY <1>3 DEF EmitCall
  <2>4. \A i \in DOMAIN toServer : toServer[i].type \notin {"Authenticate", "Connect", "Disconnect"}
    BY <2>3
  <2>5. \A i \in DOMAIN toServer' : toServer'[i].type \notin {"Authenticate", "Connect", "Disconnect"}
    BY <2>1, <2>2, <2>4, AppendDomain
  <2> QED
    BY <1>3, <2>3, <2>5 DEF EmitCall
<1>4. ASSUME NEW t \in Threads, ReadReply(t) PROVE HandshakeInv'
  BY <1>4, ConstantsAssumption, QueueDomain, QueueOfOne, AppendToEmpty DEF ReadReply, TakeReply,
     HasReply
<1>5. ASSUME NEW t \in Threads, ReadError(t) PROVE HandshakeInv'
  BY <1>5, ConstantsAssumption, QueueDomain, QueueOfOne, AppendToEmpty DEF ReadError, TakeError,
     HasReply, Return
<1>6. ASSUME NEW t \in Threads, ReadErrors(t) PROVE HandshakeInv'
  BY <1>6, ConstantsAssumption, QueueDomain, QueueOfOne, AppendToEmpty DEF ReadErrors, TakeErrors,
     HasReply
<1>7. ASSUME NEW t \in Threads, ReadCutReply(t) PROVE HandshakeInv'
  BY <1>7, ConstantsAssumption, QueueDomain, QueueOfOne, AppendToEmpty DEF ReadCutReply,
     HasReply
<1>8. ASSUME NEW t \in Threads, ParseFails(t) PROVE HandshakeInv'
  BY <1>8, ConstantsAssumption, QueueDomain, QueueOfOne, AppendToEmpty DEF ParseFails,
     HasReply, Return
<1>9. ASSUME NEW t \in Threads, ReadGarbled(t) PROVE HandshakeInv'
  BY <1>9, ConstantsAssumption, QueueDomain, QueueOfOne, AppendToEmpty DEF ReadGarbled,
     Return
<1>9a. ASSUME NEW t \in Threads, Misread(t) PROVE HandshakeInv'
  <2>1. PICK r \in ReplyType :
           /\ Astray(t) /\ r.call = NoCall
           /\ TakeReply(t, r) \/ TakeError(t, r) \/ TakeErrors(t, r) \/ TakeCut(t)
    BY <1>9a, MisreadCases
  <2>2. CASE TakeReply(t, r)
    BY <2>1, <2>2, ConstantsAssumption DEF Astray, TakeReply
  <2>3. CASE TakeError(t, r)
    BY <2>1, <2>3, ConstantsAssumption DEF Astray, TakeError, Return
  <2>4. CASE TakeErrors(t, r)
    BY <2>1, <2>4, ConstantsAssumption DEF Astray, TakeErrors
  <2>5. CASE TakeCut(t)
    BY <2>1, <2>5, ConstantsAssumption DEF Astray, TakeCut
  <2> QED
    BY <2>1, <2>2, <2>3, <2>4, <2>5
<1>10. ASSUME NEW t \in Threads, IoError(t) PROVE HandshakeInv'
  <2>1. CASE FailConstruction(t) /\ t \notin alive
    BY <1>10, <2>1, ConstantsAssumption, QueueDomain, QueueOfOne, AppendToEmpty DEF IoError,
       FailConstruction
  <2>2. CASE Return(t, "err") /\ t \in alive
    BY <1>10, <2>2, ConstantsAssumption, QueueDomain, QueueOfOne, AppendToEmpty, SMTT(60) DEF IoError,
       Return
  <2>3. CASE /\ pc[t] \in {"emit", "read"} /\ CanRepeat
             /\ pc' = [pc EXCEPT ![t] = "dial"] /\ attempt' = 2
             /\ UNCHANGED <<lock, callOf, rep, req, outcome>>
    BY <1>10, <2>3, ConstantsAssumption, QueueDomain, QueueOfOne, AppendToEmpty DEF IoError,
       CanRepeat
  <2> QED
    BY <1>10, <2>1, <2>2, <2>3 DEF IoError, Fail, Constructing
<1>11. ASSUME NEW t \in Threads, Digest(t) PROVE HandshakeInv'
  BY <1>11, ConstantsAssumption, QueueDomain, QueueOfOne, AppendToEmpty DEF Digest,
     CanAcquire, Return
<1>12. ASSUME NEW t \in Threads, Dial(t) PROVE HandshakeInv'
  BY <1>12, ConstantsAssumption, QueueDomain, QueueOfOne, AppendToEmpty DEF Dial,
     Disconnected
<1>13. ASSUME NEW t \in Threads, DialFails(t) PROVE HandshakeInv'
  <2>1. CASE FailConstruction(t) /\ t \notin alive
    BY <1>13, <2>1, ConstantsAssumption, QueueDomain, QueueOfOne, AppendToEmpty DEF
       DialFails, Disconnected, FailConstruction
  <2>2. CASE Return(t, "err") /\ t \in alive
    BY <1>13, <2>2, ConstantsAssumption, QueueDomain, QueueOfOne, AppendToEmpty DEF
       DialFails, Disconnected, Return
  <2> QED
    BY <1>13, <2>1, <2>2 DEF DialFails, Fail, Constructing
<1>14. ASSUME NEW t \in Threads, EmitAuthenticate(t) PROVE HandshakeInv'
  BY <1>14, ConstantsAssumption, QueueDomain, QueueOfOne, AppendToEmpty DEF
     EmitAuthenticate, Message
<1>15. ASSUME NEW t \in Threads, ReadChallenge(t) PROVE HandshakeInv'
  BY <1>15, ConstantsAssumption, QueueDomain, QueueOfOne, AppendToEmpty DEF ReadChallenge,
     HasReply
<1>16. ASSUME NEW t \in Threads, EmitConnect(t) PROVE HandshakeInv'
  <2> DEFINE m == Message("Connect", core.sessionId, core.seqNumber + 1, NoCall)
  <2>1. m.type = "Connect"
    BY DEF Message
  <2>2. toServer' = Append(toServer, m) /\ pc[t] = "emitConnect" /\ lock = t /\ ~garbled
    BY <1>16 DEF EmitConnect
  <2>3. toServer = <<>>
    BY <2>2, ConstantsAssumption
  <2> HIDE DEF m
  <2>4. Len(toServer') = 1 /\ toServer'[1] = m /\ DOMAIN toServer' = {1}
    BY <2>2, <2>3
  <2> QED
    BY <1>16, <2>1, <2>2, <2>4 DEF EmitConnect
<1>17. ASSUME NEW t \in Threads, ReadSession(t) PROVE HandshakeInv'
  BY <1>17, ConstantsAssumption, QueueDomain, QueueOfOne, AppendToEmpty, SMTT(30) DEF ReadSession,
     HasReply, Constructing, WithSession
<1>18. ASSUME NEW t \in Threads, ReadRefusal(t) PROVE HandshakeInv'
  <2>1. CASE FailConstruction(t) /\ t \notin alive
    BY <1>18, <2>1, ConstantsAssumption, QueueDomain, QueueOfOne, AppendToEmpty DEF
       ReadRefusal, HasReply, FailConstruction
  <2>2. CASE Return(t, "err") /\ t \in alive
    BY <1>18, <2>2, ConstantsAssumption, QueueDomain, QueueOfOne, AppendToEmpty DEF
       ReadRefusal, HasReply, Return
  <2> QED
    BY <1>18, <2>1, <2>2 DEF ReadRefusal, Fail, Constructing
<1>19. ASSUME NEW t \in Threads, SetApplication(t) PROVE HandshakeInv'
  BY <1>19, ConstantsAssumption, QueueDomain, QueueOfOne, AppendToEmpty DEF
     SetApplication, CanAcquire
<1>20. ASSUME NEW t \in Threads, PopWarnings(t) PROVE HandshakeInv'
  BY <1>20, ConstantsAssumption, QueueDomain, QueueOfOne, AppendToEmpty DEF PopWarnings,
     CanAcquire
<1>21. ASSUME NEW t \in Threads, DropClone(t) PROVE HandshakeInv'
  <2> DEFINE m == Message("Disconnect", core.sessionId, core.seqNumber + 1, NoCall)
  <2>1. m.type = "Disconnect"
    BY DEF Message
  <2>2. toServer' = toServer \/ (toServer' = Append(toServer, m) /\ alive' = {} /\ alive # {})
    <3>1. CASE toServer' = toServer
      BY <3>1
    <3>2. CASE toServer' # toServer
      <4>1. alive = {t} /\ toServer' = Append(toServer, m) /\ alive' = alive \ {t}
        BY <1>21, <3>2 DEF DropClone
      <4> QED
        BY <4>1
    <3> QED
      BY <3>1, <3>2
  <2> HIDE DEF m
  <2>3. UNCHANGED <<lock, garbled, toClient>> /\ alive' \subseteq alive
    BY <1>21 DEF DropClone
  <2>4. lock # t /\ pc' = [pc EXCEPT ![t] = "gone"]
    BY <1>21 DEF DropClone
  <2>5. \A u \in Threads : pc'[u] \in InHandshake => pc[u] \in InHandshake
    BY <2>4
  <2>6. core'.authenticated = core.authenticated
    BY <1>21 DEF DropClone
  <2>7. CASE toServer' = toServer
    BY <2>3, <2>4, <2>5, <2>6, <2>7
  <2>8. CASE toServer' = Append(toServer, m) /\ alive' = {} /\ alive # {}
    <3>1. alive = {t} /\ lock = NoThread
      <4>1. alive = {t}
        BY <1>21, <2>8 DEF DropClone
      <4>2. \A u \in Threads : lock = u => u = t
        BY <4>1
      <4> QED
        BY <2>4, <4>1, <4>2
    <3>2. \A i \in DOMAIN toServer :
             toServer[i].type \notin {"Authenticate", "Connect", "Disconnect"}
      BY <2>8, <3>1, ConstantsAssumption
    <3>3. toServer \in Seq(MessageType)
      OBVIOUS
    <3>4. \A i \in DOMAIN toServer' :
             \/ i \in DOMAIN toServer /\ toServer'[i] = toServer[i]
             \/ i = Len(toServer') /\ toServer'[i] = m
      BY <2>8, <3>3, AppendDomain, AppendIndex
    <3> QED
      BY <2>1, <2>3, <2>5, <2>6, <2>8, <3>2, <3>4
  <2> QED
    BY <2>2, <2>7, <2>8
<1>22. ASSUME NEW t \in Threads, NEW c \in Calls, StartCall(t, c) PROVE HandshakeInv'
  BY <1>22, ConstantsAssumption, QueueDomain, QueueOfOne, AppendToEmpty, SMTT(60) DEF StartCall
<1>23. CASE SrvAuthenticate
  BY <1>23, ConstantsAssumption, QueueDomain, QueueOfOne, AppendToEmpty, SMTT(60) DEF
     SrvAuthenticate, Answer, Reply
<1>24. CASE SrvConnect
  BY <1>24, ConstantsAssumption, QueueDomain, QueueOfOne, AppendToEmpty, SMTT(60) DEF SrvConnect,
     Answer, Reply
<1>25. CASE SrvExecute
  BY <1>25, ConstantsAssumption, QueueDomain, QueueOfOne, AppendToEmpty, SMTT(30) DEF SrvExecute,
     Answer, Reply
<1>26. CASE SrvReject
  BY <1>26, ConstantsAssumption, QueueDomain, QueueOfOne, AppendToEmpty, SMTT(30) DEF SrvReject,
     Answer, Reply
<1>27. CASE SrvDisconnect
  BY <1>27, ConstantsAssumption, QueueDomain, QueueOfOne, AppendToEmpty, SMTT(60) DEF SrvDisconnect
<1>28. CASE SrvExecuteStale
  BY <1>28, ConstantsAssumption, QueueDomain, QueueOfOne, AppendToEmpty DEF
     SrvExecuteStale
<1>29. CASE Reset
  BY <1>29, ConstantsAssumption, QueueDomain, QueueOfOne, AppendToEmpty DEF Reset,
     LoseConnection
<1>30. CASE Close
  BY <1>30, ConstantsAssumption, QueueDomain, QueueOfOne, AppendToEmpty DEF Close,
     LoseConnection
<1>31. CASE UNCHANGED vars
  BY <1>31, ConstantsAssumption, QueueDomain, QueueOfOne, AppendToEmpty DEF vars
<1> QED
  BY <1>1, <1>2, <1>3, <1>4, <1>5, <1>6, <1>7, <1>8, <1>9, <1>9a, <1>10, <1>11, <1>12,
     <1>13, <1>14, <1>15, <1>16, <1>17, <1>18, <1>19, <1>20, <1>21, <1>22,
     <1>23, <1>24, <1>25, <1>26, <1>27, <1>28, <1>29, <1>30, <1>31
     DEF Next, CallStep, GarbledStep, HandshakeStep, UserStep, ServerStep

\* A core that is not authenticated is of no use for a call.
LEMMA UnauthenticatedStep ==
  ASSUME TypeOK, MutexInv, WireInv, HandshakeInv, RefusalInv, UnauthenticatedInv, [Next]_vars
  PROVE  UnauthenticatedInv'
<1> USE DEF UnauthenticatedInv, HandshakeInv, MutexInv,
            TypeOK, MutexTypes, ThreadTypes, WireTypes, CoreType, TcpType,
            Labels, Holding, Emitting, Reading, InHandshake, InsideCall, Connecting,
            mutexVars, threadVars, wireVars, serverVars, histVars
<1>1. ASSUME NEW t \in Threads, LockAndAugment(t) PROVE UnauthenticatedInv'
  BY <1>1, ConstantsAssumption DEF LockAndAugment, CanAcquire
<1>2. ASSUME NEW t \in Threads, LockIsPoisoned(t) PROVE UnauthenticatedInv'
  BY <1>2, ConstantsAssumption DEF LockIsPoisoned, Return
<1>3. ASSUME NEW t \in Threads, EmitCall(t) PROVE UnauthenticatedInv'
  BY <1>3, ConstantsAssumption DEF EmitCall, Message
<1>4. ASSUME NEW t \in Threads, ReadReply(t) PROVE UnauthenticatedInv'
  BY <1>4, ConstantsAssumption DEF ReadReply, TakeReply, HasReply
<1>5. ASSUME NEW t \in Threads, ReadError(t) PROVE UnauthenticatedInv'
  BY <1>5, ConstantsAssumption DEF ReadError, TakeError, HasReply, Return
<1>6. ASSUME NEW t \in Threads, ReadErrors(t) PROVE UnauthenticatedInv'
  BY <1>6, ConstantsAssumption DEF ReadErrors, TakeErrors, HasReply
<1>7. ASSUME NEW t \in Threads, ReadCutReply(t) PROVE UnauthenticatedInv'
  BY <1>7, ConstantsAssumption DEF ReadCutReply, HasReply
<1>8. ASSUME NEW t \in Threads, ParseFails(t) PROVE UnauthenticatedInv'
  BY <1>8, ConstantsAssumption DEF ParseFails, HasReply, Return
<1>9. ASSUME NEW t \in Threads, ReadGarbled(t) PROVE UnauthenticatedInv'
  BY <1>9, ConstantsAssumption DEF ReadGarbled, Return
<1>9a. ASSUME NEW t \in Threads, Misread(t) PROVE UnauthenticatedInv'
  <2>1. PICK r \in ReplyType :
           /\ Astray(t) /\ r.call = NoCall
           /\ TakeReply(t, r) \/ TakeError(t, r) \/ TakeErrors(t, r) \/ TakeCut(t)
    BY <1>9a, MisreadCases
  <2>2. CASE TakeReply(t, r)
    BY <2>1, <2>2, ConstantsAssumption DEF Astray, TakeReply
  <2>3. CASE TakeError(t, r)
    BY <2>1, <2>3, ConstantsAssumption DEF Astray, TakeError, Return
  <2>4. CASE TakeErrors(t, r)
    BY <2>1, <2>4, ConstantsAssumption DEF Astray, TakeErrors
  <2>5. CASE TakeCut(t)
    BY <2>1, <2>5, ConstantsAssumption DEF Astray, TakeCut
  <2> QED
    BY <2>1, <2>2, <2>3, <2>4, <2>5
<1>10. ASSUME NEW t \in Threads, IoError(t) PROVE UnauthenticatedInv'
  <2>1. CASE FailConstruction(t) /\ t \notin alive
    BY <1>10, <2>1, ConstantsAssumption DEF IoError, FailConstruction
  <2>2. CASE Return(t, "err") /\ t \in alive
    BY <1>10, <2>2, ConstantsAssumption DEF IoError, Return
  <2>3. CASE /\ pc[t] \in {"emit", "read"} /\ CanRepeat
             /\ pc' = [pc EXCEPT ![t] = "dial"] /\ attempt' = 2
             /\ UNCHANGED <<lock, callOf, rep, req, outcome>>
    BY <1>10, <2>3, ConstantsAssumption DEF IoError, CanRepeat
  <2> QED
    BY <1>10, <2>1, <2>2, <2>3 DEF IoError, Fail, Constructing
<1>11. ASSUME NEW t \in Threads, Digest(t) PROVE UnauthenticatedInv'
  BY <1>11, ConstantsAssumption DEF Digest, CanAcquire, Return
<1>12. ASSUME NEW t \in Threads, Dial(t) PROVE UnauthenticatedInv'
  BY <1>12, ConstantsAssumption DEF Dial, Disconnected
<1>13. ASSUME NEW t \in Threads, DialFails(t) PROVE UnauthenticatedInv'
  <2>1. CASE FailConstruction(t) /\ t \notin alive
    BY <1>13, <2>1, ConstantsAssumption DEF DialFails, Disconnected, FailConstruction
  <2>2. CASE Return(t, "err") /\ t \in alive
    BY <1>13, <2>2, ConstantsAssumption DEF DialFails, Disconnected, Return
  <2> QED
    BY <1>13, <2>1, <2>2 DEF DialFails, Fail, Constructing
<1>14. ASSUME NEW t \in Threads, EmitAuthenticate(t) PROVE UnauthenticatedInv'
  BY <1>14, ConstantsAssumption DEF EmitAuthenticate, Message
<1>15. ASSUME NEW t \in Threads, ReadChallenge(t) PROVE UnauthenticatedInv'
  BY <1>15, ConstantsAssumption DEF ReadChallenge, HasReply
<1>16. ASSUME NEW t \in Threads, EmitConnect(t) PROVE UnauthenticatedInv'
  BY <1>16, ConstantsAssumption DEF EmitConnect, Message
<1>17. ASSUME NEW t \in Threads, ReadSession(t) PROVE UnauthenticatedInv'
  BY <1>17, ConstantsAssumption DEF ReadSession, HasReply, Constructing, WithSession
<1>18. ASSUME NEW t \in Threads, ReadRefusal(t) PROVE UnauthenticatedInv'
  <2>1. CASE FailConstruction(t) /\ t \notin alive
    BY <1>18, <2>1, ConstantsAssumption DEF ReadRefusal, HasReply, FailConstruction
  <2>2. CASE Return(t, "err") /\ t \in alive
    <3>1. /\ pc[t] \in {"readAuth", "readConnect"} /\ ~garbled /\ lock = t
          /\ toClient # <<>> /\ Head(toClient).kind = "error"
      BY <1>18 DEF ReadRefusal, HasReply
    <3>2. 1 \in DOMAIN toClient /\ toClient[1] = Head(toClient)
      BY <3>1, QueueDomain
    <3>3. toClient[1].call = NoCall
      BY <3>1 DEF WireInv, NothingUnderWay, RequestUnderWay, ReplyUnderWay, DisconnectUnderWay
    <3>4. "refuse" \in Faults
      BY <3>1, <3>2, <3>3 DEF RefusalInv
    <3> QED
      BY <3>4
  <2> QED
    BY <1>18, <2>1, <2>2 DEF ReadRefusal, Fail, Constructing
<1>19. ASSUME NEW t \in Threads, SetApplication(t) PROVE UnauthenticatedInv'
  BY <1>19, ConstantsAssumption DEF SetApplication, CanAcquire
<1>20. ASSUME NEW t \in Threads, PopWarnings(t) PROVE UnauthenticatedInv'
  BY <1>20, ConstantsAssumption DEF PopWarnings, CanAcquire
<1>21. ASSUME NEW t \in Threads, DropClone(t) PROVE UnauthenticatedInv'
  BY <1>21, ConstantsAssumption DEF DropClone, Message
<1>22. ASSUME NEW t \in Threads, NEW c \in Calls, StartCall(t, c) PROVE UnauthenticatedInv'
  BY <1>22, ConstantsAssumption DEF StartCall
<1>23. CASE SrvAuthenticate
  BY <1>23, ConstantsAssumption DEF SrvAuthenticate, Answer, Reply
<1>24. CASE SrvConnect
  BY <1>24, ConstantsAssumption DEF SrvConnect, Answer, Reply
<1>25. CASE SrvExecute
  BY <1>25, ConstantsAssumption DEF SrvExecute, Answer, Reply
<1>26. CASE SrvReject
  BY <1>26, ConstantsAssumption DEF SrvReject, Answer, Reply
<1>27. CASE SrvDisconnect
  BY <1>27, ConstantsAssumption DEF SrvDisconnect
<1>28. CASE SrvExecuteStale
  BY <1>28, ConstantsAssumption DEF SrvExecuteStale
<1>29. CASE Reset
  BY <1>29, ConstantsAssumption DEF Reset, LoseConnection
<1>30. CASE Close
  BY <1>30, ConstantsAssumption DEF Close, LoseConnection
<1>31. CASE UNCHANGED vars
  BY <1>31, ConstantsAssumption DEF vars
<1> QED
  BY <1>1, <1>2, <1>3, <1>4, <1>5, <1>6, <1>7, <1>8, <1>9, <1>9a, <1>10, <1>11, <1>12,
     <1>13, <1>14, <1>15, <1>16, <1>17, <1>18, <1>19, <1>20, <1>21, <1>22,
     <1>23, <1>24, <1>25, <1>26, <1>27, <1>28, <1>29, <1>30, <1>31
     DEF Next, CallStep, GarbledStep, HandshakeStep, UserStep, ServerStep

\* Refusals are the server's.
LEMMA RefusalStep ==
  ASSUME TypeOK, ExecInv, RefusalInv, [Next]_vars
  PROVE  RefusalInv'
<1> USE DEF RefusalInv, TypeOK, WireTypes, mutexVars, threadVars, wireVars, serverVars, histVars
<1>1. ASSUME NEW t \in Threads, LockAndAugment(t) PROVE RefusalInv'
  BY <1>1, ConstantsAssumption, QueueDomain DEF LockAndAugment, CanAcquire
<1>2. ASSUME NEW t \in Threads, LockIsPoisoned(t) PROVE RefusalInv'
  BY <1>2, ConstantsAssumption, QueueDomain DEF LockIsPoisoned, Return
<1>3. ASSUME NEW t \in Threads, EmitCall(t) PROVE RefusalInv'
  BY <1>3, ConstantsAssumption, QueueDomain DEF EmitCall, Message
<1>4. ASSUME NEW t \in Threads, ReadReply(t) PROVE RefusalInv'
  BY <1>4, ConstantsAssumption, QueueDomain DEF ReadReply, TakeReply, HasReply
<1>5. ASSUME NEW t \in Threads, ReadError(t) PROVE RefusalInv'
  BY <1>5, ConstantsAssumption, QueueDomain DEF ReadError, TakeError, HasReply, Return
<1>6. ASSUME NEW t \in Threads, ReadErrors(t) PROVE RefusalInv'
  BY <1>6, ConstantsAssumption, QueueDomain DEF ReadErrors, TakeErrors, HasReply
<1>7. ASSUME NEW t \in Threads, ReadCutReply(t) PROVE RefusalInv'
  BY <1>7, ConstantsAssumption, QueueDomain DEF ReadCutReply, HasReply
<1>8. ASSUME NEW t \in Threads, ParseFails(t) PROVE RefusalInv'
  BY <1>8, ConstantsAssumption, QueueDomain DEF ParseFails, HasReply, Return
<1>9. ASSUME NEW t \in Threads, ReadGarbled(t) PROVE RefusalInv'
  BY <1>9, ConstantsAssumption, QueueDomain DEF ReadGarbled, Return
<1>9a. ASSUME NEW t \in Threads, Misread(t) PROVE RefusalInv'
  <2>1. PICK r \in ReplyType :
           /\ Astray(t) /\ r.call = NoCall
           /\ TakeReply(t, r) \/ TakeError(t, r) \/ TakeErrors(t, r) \/ TakeCut(t)
    BY <1>9a, MisreadCases
  <2>2. CASE TakeReply(t, r)
    BY <2>1, <2>2, ConstantsAssumption DEF Astray, TakeReply
  <2>3. CASE TakeError(t, r)
    BY <2>1, <2>3, ConstantsAssumption DEF Astray, TakeError, Return
  <2>4. CASE TakeErrors(t, r)
    BY <2>1, <2>4, ConstantsAssumption DEF Astray, TakeErrors
  <2>5. CASE TakeCut(t)
    BY <2>1, <2>5, ConstantsAssumption DEF Astray, TakeCut
  <2> QED
    BY <2>1, <2>2, <2>3, <2>4, <2>5
<1>10. ASSUME NEW t \in Threads, IoError(t) PROVE RefusalInv'
  <2>1. CASE FailConstruction(t) /\ t \notin alive
    BY <1>10, <2>1, ConstantsAssumption, QueueDomain DEF IoError, FailConstruction
  <2>2. CASE Return(t, "err") /\ t \in alive
    BY <1>10, <2>2, ConstantsAssumption, QueueDomain DEF IoError, Return
  <2>3. CASE /\ pc[t] \in {"emit", "read"} /\ CanRepeat
             /\ pc' = [pc EXCEPT ![t] = "dial"] /\ attempt' = 2
             /\ UNCHANGED <<lock, callOf, rep, req, outcome>>
    BY <1>10, <2>3, ConstantsAssumption, QueueDomain DEF IoError, CanRepeat
  <2> QED
    BY <1>10, <2>1, <2>2, <2>3 DEF IoError, Fail, Constructing
<1>11. ASSUME NEW t \in Threads, Digest(t) PROVE RefusalInv'
  BY <1>11, ConstantsAssumption, QueueDomain DEF Digest, CanAcquire, Return
<1>12. ASSUME NEW t \in Threads, Dial(t) PROVE RefusalInv'
  BY <1>12, ConstantsAssumption, QueueDomain DEF Dial, Disconnected
<1>13. ASSUME NEW t \in Threads, DialFails(t) PROVE RefusalInv'
  <2>1. CASE FailConstruction(t) /\ t \notin alive
    BY <1>13, <2>1, ConstantsAssumption, QueueDomain DEF DialFails, Disconnected,
       FailConstruction
  <2>2. CASE Return(t, "err") /\ t \in alive
    BY <1>13, <2>2, ConstantsAssumption, QueueDomain DEF DialFails, Disconnected, Return
  <2> QED
    BY <1>13, <2>1, <2>2 DEF DialFails, Fail, Constructing
<1>14. ASSUME NEW t \in Threads, EmitAuthenticate(t) PROVE RefusalInv'
  BY <1>14, ConstantsAssumption, QueueDomain DEF EmitAuthenticate, Message
<1>15. ASSUME NEW t \in Threads, ReadChallenge(t) PROVE RefusalInv'
  BY <1>15, ConstantsAssumption, QueueDomain DEF ReadChallenge, HasReply
<1>16. ASSUME NEW t \in Threads, EmitConnect(t) PROVE RefusalInv'
  BY <1>16, ConstantsAssumption, QueueDomain DEF EmitConnect, Message
<1>17. ASSUME NEW t \in Threads, ReadSession(t) PROVE RefusalInv'
  BY <1>17, ConstantsAssumption, QueueDomain DEF ReadSession, HasReply, Constructing,
     WithSession
<1>18. ASSUME NEW t \in Threads, ReadRefusal(t) PROVE RefusalInv'
  <2>1. CASE FailConstruction(t) /\ t \notin alive
    BY <1>18, <2>1, ConstantsAssumption, QueueDomain DEF ReadRefusal, HasReply,
       FailConstruction
  <2>2. CASE Return(t, "err") /\ t \in alive
    BY <1>18, <2>2, ConstantsAssumption, QueueDomain DEF ReadRefusal, HasReply, Return
  <2> QED
    BY <1>18, <2>1, <2>2 DEF ReadRefusal, Fail, Constructing
<1>19. ASSUME NEW t \in Threads, SetApplication(t) PROVE RefusalInv'
  BY <1>19, ConstantsAssumption, QueueDomain DEF SetApplication, CanAcquire
<1>20. ASSUME NEW t \in Threads, PopWarnings(t) PROVE RefusalInv'
  BY <1>20, ConstantsAssumption, QueueDomain DEF PopWarnings, CanAcquire
<1>21. ASSUME NEW t \in Threads, DropClone(t) PROVE RefusalInv'
  BY <1>21, ConstantsAssumption, QueueDomain DEF DropClone, Message
<1>22. ASSUME NEW t \in Threads, NEW c \in Calls, StartCall(t, c) PROVE RefusalInv'
  BY <1>22, ConstantsAssumption, QueueDomain, SMTT(60) DEF StartCall
<1>23. CASE SrvAuthenticate
  <2>1. CASE Answer(Reply("challenge", 0, NoCall, 0))
    <3>1. Reply("challenge", 0, NoCall, 0).kind = "error" /\ Reply("challenge", 0, NoCall, 0).call = NoCall
            => "refuse" \in Faults
      BY <1>23, <2>1 DEF Reply
    <3> QED
      BY <2>1, <3>1, Answered
  <2>2. CASE "refuse" \in Faults /\ Answer(Reply("error", 0, NoCall, 0))
    <3>1. Reply("error", 0, NoCall, 0).kind = "error" /\ Reply("error", 0, NoCall, 0).call = NoCall
            => "refuse" \in Faults
      BY <1>23, <2>2 DEF Reply
    <3> QED
      BY <2>2, <3>1, Answered
  <2> QED
    BY <1>23, <2>1, <2>2 DEF SrvAuthenticate
<1>24. CASE SrvConnect
  <2>1. CASE Answer(Reply("session", srv.sid + 1, NoCall, 0))
    <3>1. Reply("session", srv.sid + 1, NoCall, 0).kind = "error" /\ Reply("session", srv.sid + 1, NoCall, 0).call = NoCall
            => "refuse" \in Faults
      BY <1>24, <2>1 DEF Reply
    <3> QED
      BY <2>1, <3>1, Answered
  <2>2. CASE "refuse" \in Faults /\ Answer(Reply("error", 0, NoCall, 0))
    <3>1. Reply("error", 0, NoCall, 0).kind = "error" /\ Reply("error", 0, NoCall, 0).call = NoCall
            => "refuse" \in Faults
      BY <1>24, <2>2 DEF Reply
    <3> QED
      BY <2>2, <3>1, Answered
  <2> QED
    BY <1>24, <2>1, <2>2 DEF SrvConnect
<1>25. CASE SrvExecute
  <2>1. PICK kind \in ReplyKinds : Answer(Reply(kind, srv.sid, Head(toServer).call, srv.seq + 1))
    BY <1>25 DEF SrvExecute
  <2>2. Head(toServer).call \in Calls
    BY <1>25, QueueDomain DEF SrvExecute, ExecInv
  <2>3. Reply(kind, srv.sid, Head(toServer).call, srv.seq + 1).call # NoCall
    BY <2>2, ConstantsAssumption DEF Reply
  <2> QED
    BY <2>1, <2>3, Answered
<1>26. CASE SrvReject
  <2>1. Head(toServer).call \in Calls
    BY <1>26, QueueDomain DEF SrvReject, ExecInv
  <2>2. CASE Answer(Reply("error", 0, Head(toServer).call, srv.seq))
    <3>1. Reply("error", 0, Head(toServer).call, srv.seq).call # NoCall
      BY <2>1, ConstantsAssumption DEF Reply
    <3> QED
      BY <2>2, <3>1, Answered
  <2>3. CASE toClient' = toClient
    BY <2>3
  <2> QED
    BY <1>26, <2>2, <2>3 DEF SrvReject
<1>27. CASE SrvDisconnect
  BY <1>27, ConstantsAssumption, QueueDomain DEF SrvDisconnect
<1>28. CASE SrvExecuteStale
  BY <1>28, ConstantsAssumption, QueueDomain DEF SrvExecuteStale
<1>29. CASE Reset
  <2>1. toClient' = <<>> \/ toClient' = Cut(toClient) \/ toClient' = toClient
    BY <1>29 DEF Reset, LoseConnection
  <2>2. \/ Cut(toClient) = <<>>
        \/ DOMAIN Cut(toClient) = {1} /\ Cut(toClient)[1].kind = "cut"
    BY CutKind
  <2> QED
    BY <2>1, <2>2
<1>30. CASE Close
  <2>1. toClient' = <<>> \/ toClient' = Cut(toClient) \/ toClient' = toClient
    BY <1>30 DEF Close, LoseConnection
  <2>2. \/ Cut(toClient) = <<>>
        \/ DOMAIN Cut(toClient) = {1} /\ Cut(toClient)[1].kind = "cut"
    BY CutKind
  <2> QED
    BY <2>1, <2>2
<1>31. CASE UNCHANGED vars
  BY <1>31, ConstantsAssumption, QueueDomain DEF vars
<1> QED
  BY <1>1, <1>2, <1>3, <1>4, <1>5, <1>6, <1>7, <1>8, <1>9, <1>9a, <1>10, <1>11, <1>12,
     <1>13, <1>14, <1>15, <1>16, <1>17, <1>18, <1>19, <1>20, <1>21, <1>22,
     <1>23, <1>24, <1>25, <1>26, <1>27, <1>28, <1>29, <1>30, <1>31
     DEF Next, CallStep, GarbledStep, HandshakeStep, UserStep, ServerStep

\* A request that travels under the id of the session follows the others.
LEMMA EmittedInSession ==
  ASSUME TypeOK, CallsAreInSession, NEW m, toServer' = Append(toServer, m), srv' = srv,
         InSession(m) \/ ("refuse" \in Faults /\ m.session = 0)
  PROVE  CallsAreInSession'
<1>1. ASSUME NEW i \in DOMAIN toServer', toServer'[i].type = "Call"
      PROVE  InSession(toServer'[i]) \/ ("refuse" \in Faults /\ toServer'[i].session = 0)
  <2>1. CASE toServer'[i] = m
    BY <2>1
  <2>2. CASE i \in DOMAIN toServer /\ toServer'[i] = toServer[i]
    BY <1>1, <2>2 DEF CallsAreInSession
  <2> QED
    BY <2>1, <2>2, Emitted
<1> QED
  BY <1>1 DEF CallsAreInSession, InSession

\* The execution of a request keeps the session as it is.
LEMMA ExecutionAgrees ==
  ASSUME TypeOK, AgreementInv, SrvExecute
  PROVE  AgreementInv'
<1>1. toServer \in Seq(MessageType) /\ toServer # <<>> /\ toServer' = Tail(toServer)
  BY DEF SrvExecute, TypeOK, WireTypes
<1>2. UNCHANGED core /\ UNCHANGED alive /\ srv.phase = "session"
  BY DEF SrvExecute, InSession, mutexVars
<1>3. srv'.phase = srv.phase /\ srv'.sid = srv.sid
  BY DEF SrvExecute, TypeOK, ServerTypes, SrvType
<1>4. \A i \in DOMAIN toServer' : i + 1 \in DOMAIN toServer /\ toServer'[i] = toServer[i + 1]
  BY <1>1, QueueDomain
<1>5. CallsAreInSession'
  BY <1>3, <1>4 DEF AgreementInv, CallsAreInSession, InSession
<1>6. PICK kind, call, ctx : Answer(Reply(kind, srv.sid, call, ctx))
  BY DEF SrvExecute
<1>7. Reply(kind, srv.sid, call, ctx).session = srv.sid
  BY DEF Reply
<1>8. ASSUME NEW i \in DOMAIN toClient', toClient'[i].kind = "session"
      PROVE  srv'.phase = "session" /\ srv'.sid = toClient'[i].session
  <2>1. \/ toClient'[i] = Reply(kind, srv.sid, call, ctx)
        \/ i \in DOMAIN toClient /\ toClient'[i] = toClient[i]
    BY <1>6, Answered
  <2>2. CASE toClient'[i] = Reply(kind, srv.sid, call, ctx)
    BY <1>2, <1>3, <1>7, <2>2
  <2>3. CASE i \in DOMAIN toClient /\ toClient'[i] = toClient[i]
    BY <1>3, <1>8, <2>3 DEF AgreementInv
  <2> QED
    BY <2>1, <2>2, <2>3
<1>9. /\ ~core'.authenticated => core'.sessionId = 0
      /\ core'.authenticated /\ alive' # {} => srv'.phase = "session" /\ srv'.sid = core'.sessionId
  BY <1>2, <1>3 DEF AgreementInv
<1> QED
  BY <1>5, <1>8, <1>9 DEF AgreementInv

\* The core and the server agree on the session.
LEMMA AgreementStep ==
  ASSUME TypeOK, MutexInv, WireInv, SessionInv, [Next]_vars
  PROVE  AgreementInv'
<1> USE DEF SessionInv, AgreementInv, CallsAreInSession, InSession, GarbledInv, HandshakeInv,
         MutexInv, WireInv,
            NothingUnderWay, RequestUnderWay, ReplyUnderWay, DisconnectUnderWay,
            TypeOK, MutexTypes, ThreadTypes, WireTypes, CoreType, ServerTypes, SrvType,
            Labels, Holding, Emitting, Reading, InHandshake, InsideCall, Connecting,
            mutexVars, threadVars, wireVars, serverVars, histVars
<1>1. ASSUME NEW t \in Threads, LockAndAugment(t) PROVE AgreementInv'
  BY <1>1, ConstantsAssumption, QueueDomain, QueueOfOne, AppendToEmpty DEF LockAndAugment,
     CanAcquire
<1>2. ASSUME NEW t \in Threads, LockIsPoisoned(t) PROVE AgreementInv'
  BY <1>2, ConstantsAssumption, QueueDomain, QueueOfOne, AppendToEmpty DEF LockIsPoisoned,
     Return
<1>3. ASSUME NEW t \in Threads, EmitCall(t) PROVE AgreementInv'
  <2> DEFINE m == [Message("Call", core.sessionId, core.seqNumber + 1, callOf[t])
                     EXCEPT !.info = req.info, !.ctx = req.ctx]
  <2>1. m.session = core.sessionId
    BY DEF Message
  <2>2. toServer' = Append(toServer, m) /\ tcp.state = "up" /\ pc[t] = "emit" /\ alive # {}
    BY <1>3 DEF EmitCall
  <2> HIDE DEF m
  <2>3. InSession(m) \/ ("refuse" \in Faults /\ m.session = 0)
    BY <2>1, <2>2 DEF UnauthenticatedInv
  <2>4. UNCHANGED srv
    BY <1>3 DEF EmitCall
  <2>5. CallsAreInSession'
    <3>1. CallsAreInSession /\ srv' = srv /\ toServer' = Append(toServer, m)
      BY <2>2, <2>4
    <3> QED
      BY <2>3, <3>1, EmittedInSession
  <2>6. /\ core'.authenticated = core.authenticated /\ core'.sessionId = core.sessionId
        /\ UNCHANGED <<alive, srv, toClient>>
    BY <1>3 DEF EmitCall
  <2>7. AgreementInv
    OBVIOUS
  <2> QED
    <3>1. /\ ~core'.authenticated => core'.sessionId = 0
          /\ core'.authenticated /\ alive' # {} =>
                srv'.phase = "session" /\ srv'.sid = core'.sessionId
      BY <2>6, <2>7
    <3>2. \A i \in DOMAIN toClient' :
             toClient'[i].kind = "session" =>
                srv'.phase = "session" /\ srv'.sid = toClient'[i].session
      BY <2>6, <2>7
    <3> QED
      BY <2>5, <3>1, <3>2
<1>4. ASSUME NEW t \in Threads, ReadReply(t) PROVE AgreementInv'
  BY <1>4, ConstantsAssumption, QueueDomain, QueueOfOne, AppendToEmpty, SMTT(60) DEF ReadReply, TakeReply,
     HasReply
<1>5. ASSUME NEW t \in Threads, ReadError(t) PROVE AgreementInv'
  BY <1>5, ConstantsAssumption, QueueDomain, QueueOfOne, AppendToEmpty DEF ReadError, TakeError,
     HasReply, Return
<1>6. ASSUME NEW t \in Threads, ReadErrors(t) PROVE AgreementInv'
  BY <1>6, ConstantsAssumption, QueueDomain, QueueOfOne, AppendToEmpty, SMTT(60) DEF ReadErrors, TakeErrors,
     HasReply
<1>7. ASSUME NEW t \in Threads, ReadCutReply(t) PROVE AgreementInv'
  BY <1>7, ConstantsAssumption, QueueDomain, QueueOfOne, AppendToEmpty DEF ReadCutReply,
     HasReply
<1>8. ASSUME NEW t \in Threads, ParseFails(t) PROVE AgreementInv'
  BY <1>8, ConstantsAssumption, QueueDomain, QueueOfOne, AppendToEmpty DEF ParseFails,
     HasReply, Return
<1>9. ASSUME NEW t \in Threads, ReadGarbled(t) PROVE AgreementInv'
  BY <1>9, ConstantsAssumption, QueueDomain, QueueOfOne, AppendToEmpty DEF ReadGarbled,
     Return
<1>9a. ASSUME NEW t \in Threads, Misread(t) PROVE AgreementInv'
  <2>1. PICK r \in ReplyType :
           /\ Astray(t) /\ r.call = NoCall
           /\ TakeReply(t, r) \/ TakeError(t, r) \/ TakeErrors(t, r) \/ TakeCut(t)
    BY <1>9a, MisreadCases
  <2>2. CASE TakeReply(t, r)
    BY <2>1, <2>2, ConstantsAssumption DEF Astray, TakeReply
  <2>3. CASE TakeError(t, r)
    BY <2>1, <2>3, ConstantsAssumption DEF Astray, TakeError, Return
  <2>4. CASE TakeErrors(t, r)
    BY <2>1, <2>4, ConstantsAssumption DEF Astray, TakeErrors
  <2>5. CASE TakeCut(t)
    BY <2>1, <2>5, ConstantsAssumption DEF Astray, TakeCut
  <2> QED
    BY <2>1, <2>2, <2>3, <2>4, <2>5
<1>10. ASSUME NEW t \in Threads, IoError(t) PROVE AgreementInv'
  <2>1. CASE FailConstruction(t) /\ t \notin alive
    BY <1>10, <2>1, ConstantsAssumption, QueueDomain, QueueOfOne, AppendToEmpty DEF IoError,
       FailConstruction
  <2>2. CASE Return(t, "err") /\ t \in alive
    BY <1>10, <2>2, ConstantsAssumption, QueueDomain, QueueOfOne, AppendToEmpty DEF IoError,
       Return
  <2>3. CASE /\ pc[t] \in {"emit", "read"} /\ CanRepeat
             /\ pc' = [pc EXCEPT ![t] = "dial"] /\ attempt' = 2
             /\ UNCHANGED <<lock, callOf, rep, req, outcome>>
    BY <1>10, <2>3, ConstantsAssumption, QueueDomain, QueueOfOne, AppendToEmpty DEF IoError,
       CanRepeat
  <2> QED
    BY <1>10, <2>1, <2>2, <2>3 DEF IoError, Fail, Constructing
<1>11. ASSUME NEW t \in Threads, Digest(t) PROVE AgreementInv'
  BY <1>11, ConstantsAssumption, QueueDomain, QueueOfOne, AppendToEmpty DEF Digest,
     CanAcquire, Return
<1>12. ASSUME NEW t \in Threads, Dial(t) PROVE AgreementInv'
  BY <1>12, ConstantsAssumption, QueueDomain, QueueOfOne, AppendToEmpty DEF Dial,
     Disconnected
<1>13. ASSUME NEW t \in Threads, DialFails(t) PROVE AgreementInv'
  <2>1. CASE FailConstruction(t) /\ t \notin alive
    BY <1>13, <2>1, ConstantsAssumption, QueueDomain, QueueOfOne, AppendToEmpty DEF
       DialFails, Disconnected, FailConstruction
  <2>2. CASE Return(t, "err") /\ t \in alive
    BY <1>13, <2>2, ConstantsAssumption, QueueDomain, QueueOfOne, AppendToEmpty DEF
       DialFails, Disconnected, Return
  <2> QED
    BY <1>13, <2>1, <2>2 DEF DialFails, Fail, Constructing
<1>14. ASSUME NEW t \in Threads, EmitAuthenticate(t) PROVE AgreementInv'
  BY <1>14, ConstantsAssumption, QueueDomain, QueueOfOne, AppendToEmpty, SMTT(30) DEF
     EmitAuthenticate, Message
<1>15. ASSUME NEW t \in Threads, ReadChallenge(t) PROVE AgreementInv'
  BY <1>15, ConstantsAssumption, QueueDomain, QueueOfOne, AppendToEmpty DEF ReadChallenge,
     HasReply
<1>16. ASSUME NEW t \in Threads, EmitConnect(t) PROVE AgreementInv'
  <2> DEFINE m == Message("Connect", core.sessionId, core.seqNumber + 1, NoCall)
  <2>1. m.type = "Connect"
    BY DEF Message
  <2>2. toServer' = Append(toServer, m)
    BY <1>16 DEF EmitConnect
  <2> HIDE DEF m
  <2>3. CallsAreInSession'
    <3>1. \A i \in DOMAIN toServer' :
             toServer'[i] = m \/ (i \in DOMAIN toServer /\ toServer'[i] = toServer[i])
      BY <2>2, Emitted, SMTT(60)
    <3>2. UNCHANGED srv
      BY <1>16 DEF EmitConnect
    <3> QED
      BY <2>1, <3>1, <3>2
  <2> QED
    BY <1>16, <2>3, SMTT(60) DEF EmitConnect
<1>17. ASSUME NEW t \in Threads, ReadSession(t) PROVE AgreementInv'
  BY <1>17, ConstantsAssumption, QueueDomain, QueueOfOne, AppendToEmpty DEF ReadSession,
     HasReply, Constructing, WithSession
<1>18. ASSUME NEW t \in Threads, ReadRefusal(t) PROVE AgreementInv'
  <2>1. CASE FailConstruction(t) /\ t \notin alive
    BY <1>18, <2>1, ConstantsAssumption, QueueDomain, QueueOfOne, AppendToEmpty, SMTT(60) DEF
       ReadRefusal, HasReply, FailConstruction
  <2>2. CASE Return(t, "err") /\ t \in alive
    BY <1>18, <2>2, ConstantsAssumption, QueueDomain, QueueOfOne, AppendToEmpty, SMTT(60) DEF
       ReadRefusal, HasReply, Return
  <2> QED
    BY <1>18, <2>1, <2>2 DEF ReadRefusal, Fail, Constructing
<1>19. ASSUME NEW t \in Threads, SetApplication(t) PROVE AgreementInv'
  BY <1>19, ConstantsAssumption, QueueDomain, QueueOfOne, AppendToEmpty DEF
     SetApplication, CanAcquire
<1>20. ASSUME NEW t \in Threads, PopWarnings(t) PROVE AgreementInv'
  BY <1>20, ConstantsAssumption, QueueDomain, QueueOfOne, AppendToEmpty DEF PopWarnings,
     CanAcquire
<1>21. ASSUME NEW t \in Threads, DropClone(t) PROVE AgreementInv'
  <2> DEFINE m == Message("Disconnect", core.sessionId, core.seqNumber + 1, NoCall)
  <2>1. m.type = "Disconnect"
    BY DEF Message
  <2>2. toServer' = toServer \/ toServer' = Append(toServer, m)
    BY <1>21 DEF DropClone
  <2> HIDE DEF m
  <2>3. /\ core'.authenticated = core.authenticated /\ core'.sessionId = core.sessionId
        /\ (alive' # {} => alive # {}) /\ UNCHANGED <<srv, toClient>>
    BY <1>21 DEF DropClone
  <2>4. CallsAreInSession'
    <3>1. \A i \in DOMAIN toServer' :
             toServer'[i] = m \/ (i \in DOMAIN toServer /\ toServer'[i] = toServer[i])
      BY <2>2, Emitted
    <3> QED
      BY <2>1, <2>3, <3>1
  <2> QED
    BY <2>3, <2>4
<1>22. ASSUME NEW t \in Threads, NEW c \in Calls, StartCall(t, c) PROVE AgreementInv'
  BY <1>22, ConstantsAssumption, QueueDomain, QueueOfOne, AppendToEmpty, SMTT(60) DEF StartCall
<1>23. CASE SrvAuthenticate
  BY <1>23, ConstantsAssumption, QueueDomain, QueueOfOne, AppendToEmpty, SMTT(30), SMTT(60) DEF
     SrvAuthenticate, Answer, Reply
<1>24. CASE SrvConnect
  <2>1. /\ 1 \in DOMAIN toServer /\ toServer[1].type = "Connect" /\ toServer' = Tail(toServer)
    BY <1>24, QueueDomain DEF SrvConnect
  <2>2. /\ lock \in Threads /\ pc[lock] \in {"readAuth", "readConnect"} /\ Len(toServer) = 1
        /\ ~core.authenticated /\ ~garbled
    BY <2>1
  <2>3. toServer' = <<>>
    BY <2>1, <2>2, QueueOfOne
  <2>4. toClient = <<>>
    BY <2>2, ConstantsAssumption
  <2>5. UNCHANGED <<core, alive>>
    BY <1>24 DEF SrvConnect
  <2>6. CASE /\ Answer(Reply("session", srv.sid + 1, NoCall, 0))
             /\ srv' = [srv EXCEPT !.phase = "session", !.sid = @ + 1]
    <3>1. Reply("session", srv.sid + 1, NoCall, 0).session = srv.sid + 1
      BY DEF Reply
    <3>2. \A i \in DOMAIN toClient' : toClient'[i].session = srv.sid + 1
      BY <2>4, <2>6, <3>1, Answered
    <3>3. srv'.phase = "session" /\ srv'.sid = srv.sid + 1
      BY <2>6
    <3> QED
      BY <2>2, <2>3, <2>5, <3>2, <3>3
  <2>7. CASE Answer(Reply("error", 0, NoCall, 0)) /\ UNCHANGED srv
    <3>1. Reply("error", 0, NoCall, 0).kind = "error"
      BY DEF Reply
    <3>2. \A i \in DOMAIN toClient' : toClient'[i].kind = "error"
      BY <2>4, <2>7, <3>1, Answered
    <3> QED
      BY <2>2, <2>3, <2>7, <2>5, <3>2
  <2> QED
    BY <1>24, <2>6, <2>7 DEF SrvConnect
<1>25. CASE SrvExecute
  BY <1>25, ExecutionAgrees
<1>26. CASE SrvReject
  <2>1. \/ toClient' = toClient
        \/ Answer(Reply("error", 0, Head(toServer).call, srv.seq))
    BY <1>26 DEF SrvReject
  <2>2. Reply("error", 0, Head(toServer).call, srv.seq).kind = "error"
    BY DEF Reply
  <2>3. \A i \in DOMAIN toClient' : toClient'[i].kind = "session" =>
           srv.phase = "session" /\ srv.sid = toClient'[i].session
    BY <2>1, <2>2, Answered, SMTT(60)
  <2>4. CallsAreInSession'
    BY <1>26, QueueDomain, SMTT(30) DEF SrvReject
  <2> QED
    BY <1>26, <2>3, <2>4 DEF SrvReject
<1>27. CASE SrvDisconnect
  <2>1. 1 \in DOMAIN toServer /\ toServer[1].type = "Disconnect" /\ toServer' = Tail(toServer)
    BY <1>27, QueueDomain DEF SrvDisconnect
  <2>2. alive = {} /\ Len(toServer) = 1
    BY <2>1
  <2>3. toServer' = <<>> /\ toServer # <<>>
    BY <2>1, <2>2, QueueOfOne
  <2>4. toClient = <<>>
    BY <2>3
  <2> QED
    BY <1>27, <2>2, <2>3, <2>4 DEF SrvDisconnect
<1>28. CASE SrvExecuteStale
  BY <1>28, ConstantsAssumption, QueueDomain, QueueOfOne, AppendToEmpty DEF
     SrvExecuteStale
<1>29. CASE Reset
  <2>1. toClient' = <<>> \/ toClient' = Cut(toClient) \/ toClient' = toClient
    BY <1>29 DEF Reset, LoseConnection
  <2>2. \/ Cut(toClient) = <<>>
        \/ DOMAIN Cut(toClient) = {1} /\ Cut(toClient)[1].kind = "cut"
    BY CutKind
  <2>3. toServer' = <<>> /\ UNCHANGED <<core, srv, alive>>
    BY <1>29 DEF Reset, LoseConnection
  <2> QED
    BY <2>1, <2>2, <2>3
<1>30. CASE Close
  <2>1. toClient' = <<>> \/ toClient' = Cut(toClient) \/ toClient' = toClient
    BY <1>30 DEF Close, LoseConnection
  <2>2. \/ Cut(toClient) = <<>>
        \/ DOMAIN Cut(toClient) = {1} /\ Cut(toClient)[1].kind = "cut"
    BY CutKind
  <2>3. toServer' = <<>> /\ UNCHANGED <<core, srv, alive>>
    BY <1>30 DEF Close, LoseConnection
  <2> QED
    BY <2>1, <2>2, <2>3
<1>31. CASE UNCHANGED vars
  BY <1>31, ConstantsAssumption, QueueDomain, QueueOfOne, AppendToEmpty DEF vars
<1> QED
  BY <1>1, <1>2, <1>3, <1>4, <1>5, <1>6, <1>7, <1>8, <1>9, <1>9a, <1>10, <1>11, <1>12,
     <1>13, <1>14, <1>15, <1>16, <1>17, <1>18, <1>19, <1>20, <1>21, <1>22,
     <1>23, <1>24, <1>25, <1>26, <1>27, <1>28, <1>29, <1>30, <1>31
     DEF Next, CallStep, GarbledStep, HandshakeStep, UserStep, ServerStep

\* Before the first handshake nothing is agreed and nothing is sent.
LEMMA SessionInit == Init => SessionInv
<1> SUFFICES ASSUME Init PROVE SessionInv
  OBVIOUS
<1> USE ConstantsAssumption DEF Init
<1>1. DOMAIN toServer = {} /\ DOMAIN toClient = {}
  OBVIOUS
<1>2. GarbledInv
  BY DEF GarbledInv
<1>3. HandshakeInv
  BY <1>1 DEF HandshakeInv, InHandshake
<1>4. RefusalInv
  BY <1>1 DEF RefusalInv
<1>5. UnauthenticatedInv
  BY DEF UnauthenticatedInv
<1>6. AgreementInv
  BY <1>1 DEF AgreementInv, CallsAreInSession
<1> QED
  BY <1>2, <1>3, <1>4, <1>5, <1>6 DEF SessionInv

\* Every step of the client, the server or the network keeps what they agree on.
LEMMA SessionStep ==
  ASSUME IInv, SessionInv, [Next]_vars
  PROVE  SessionInv'
BY GarbledInvStep, HandshakeInvStep, RefusalStep, UnauthenticatedStep, AgreementStep
   DEF IInv, SessionInv

\* SessionInv holds of the connection in every state.
LEMMA SessionKept == Spec => []SessionInv
BY SessionInit, SessionStep, Invariance, PTL DEF Spec

\* A request travels under the id of the session the server has opened on its
\* connection (ReadSession adopts it, Dial forgets it), or without a session after
\* a refused reconnect.
THEOREM CallsInSession == Spec => []CallsAreInSession
<1>1. SessionInv => CallsAreInSession
  BY DEF SessionInv, AgreementInv
<1> QED
  BY <1>1, SessionKept, PTL

-----------------------------------------------------------------------------
(* The client info.                                                        *)

\* A call that has failed stays failed.
LEMMA FailureSticks ==
  ASSUME TypeOK, CallInv, NoCallFailed', [Next]_vars
  PROVE  NoCallFailed
<1> USE DEF NoCallFailed, CallInv, TypeOK, ThreadTypes, HistTypes,
            mutexVars, threadVars, wireVars, serverVars, histVars
<1>1. ASSUME NEW t \in Threads, LockAndAugment(t) PROVE NoCallFailed
  BY <1>1, ConstantsAssumption DEF LockAndAugment, CanAcquire
<1>2. ASSUME NEW t \in Threads, LockIsPoisoned(t) PROVE NoCallFailed
  BY <1>2, ConstantsAssumption DEF LockIsPoisoned, Return
<1>3. ASSUME NEW t \in Threads, EmitCall(t) PROVE NoCallFailed
  BY <1>3, ConstantsAssumption DEF EmitCall, Message
<1>4. ASSUME NEW t \in Threads, ReadReply(t) PROVE NoCallFailed
  BY <1>4, ConstantsAssumption DEF ReadReply, TakeReply, HasReply
<1>5. ASSUME NEW t \in Threads, ReadError(t) PROVE NoCallFailed
  BY <1>5, ConstantsAssumption DEF ReadError, TakeError, HasReply, Return
<1>6. ASSUME NEW t \in Threads, ReadErrors(t) PROVE NoCallFailed
  BY <1>6, ConstantsAssumption DEF ReadErrors, TakeErrors, HasReply
<1>7. ASSUME NEW t \in Threads, ReadCutReply(t) PROVE NoCallFailed
  BY <1>7, ConstantsAssumption DEF ReadCutReply, HasReply
<1>8. ASSUME NEW t \in Threads, ParseFails(t) PROVE NoCallFailed
  BY <1>8, ConstantsAssumption DEF ParseFails, HasReply, Return
<1>9. ASSUME NEW t \in Threads, ReadGarbled(t) PROVE NoCallFailed
  BY <1>9, ConstantsAssumption DEF ReadGarbled, Return
<1>9a. ASSUME NEW t \in Threads, Misread(t) PROVE NoCallFailed
  <2>1. PICK r \in ReplyType :
           /\ Astray(t) /\ r.call = NoCall
           /\ TakeReply(t, r) \/ TakeError(t, r) \/ TakeErrors(t, r) \/ TakeCut(t)
    BY <1>9a, MisreadCases
  <2>2. CASE TakeReply(t, r)
    BY <2>1, <2>2, ConstantsAssumption DEF Astray, TakeReply
  <2>3. CASE TakeError(t, r)
    BY <2>1, <2>3, ConstantsAssumption DEF Astray, TakeError, Return
  <2>4. CASE TakeErrors(t, r)
    BY <2>1, <2>4, ConstantsAssumption DEF Astray, TakeErrors
  <2>5. CASE TakeCut(t)
    BY <2>1, <2>5, ConstantsAssumption DEF Astray, TakeCut
  <2> QED
    BY <2>1, <2>2, <2>3, <2>4, <2>5
<1>10. ASSUME NEW t \in Threads, IoError(t) PROVE NoCallFailed
  <2>1. CASE FailConstruction(t) /\ t \notin alive
    BY <1>10, <2>1, ConstantsAssumption DEF IoError, FailConstruction
  <2>2. CASE Return(t, "err") /\ t \in alive
    BY <1>10, <2>2, ConstantsAssumption DEF IoError, Return
  <2>3. CASE /\ pc[t] \in {"emit", "read"} /\ CanRepeat
             /\ pc' = [pc EXCEPT ![t] = "dial"] /\ attempt' = 2
             /\ UNCHANGED <<lock, callOf, rep, req, outcome>>
    BY <1>10, <2>3, ConstantsAssumption DEF IoError, CanRepeat
  <2> QED
    BY <1>10, <2>1, <2>2, <2>3 DEF IoError, Fail, Constructing
<1>11. ASSUME NEW t \in Threads, Digest(t) PROVE NoCallFailed
  BY <1>11, ConstantsAssumption DEF Digest, CanAcquire, Return
<1>12. ASSUME NEW t \in Threads, Dial(t) PROVE NoCallFailed
  BY <1>12, ConstantsAssumption DEF Dial, Disconnected
<1>13. ASSUME NEW t \in Threads, DialFails(t) PROVE NoCallFailed
  <2>1. CASE FailConstruction(t) /\ t \notin alive
    BY <1>13, <2>1, ConstantsAssumption DEF DialFails, Disconnected, FailConstruction
  <2>2. CASE Return(t, "err") /\ t \in alive
    BY <1>13, <2>2, ConstantsAssumption DEF DialFails, Disconnected, Return
  <2> QED
    BY <1>13, <2>1, <2>2 DEF DialFails, Fail, Constructing
<1>14. ASSUME NEW t \in Threads, EmitAuthenticate(t) PROVE NoCallFailed
  BY <1>14, ConstantsAssumption DEF EmitAuthenticate, Message
<1>15. ASSUME NEW t \in Threads, ReadChallenge(t) PROVE NoCallFailed
  BY <1>15, ConstantsAssumption DEF ReadChallenge, HasReply
<1>16. ASSUME NEW t \in Threads, EmitConnect(t) PROVE NoCallFailed
  BY <1>16, ConstantsAssumption DEF EmitConnect, Message
<1>17. ASSUME NEW t \in Threads, ReadSession(t) PROVE NoCallFailed
  BY <1>17, ConstantsAssumption DEF ReadSession, HasReply, Constructing, WithSession
<1>18. ASSUME NEW t \in Threads, ReadRefusal(t) PROVE NoCallFailed
  <2>1. CASE FailConstruction(t) /\ t \notin alive
    BY <1>18, <2>1, ConstantsAssumption DEF ReadRefusal, HasReply, FailConstruction
  <2>2. CASE Return(t, "err") /\ t \in alive
    BY <1>18, <2>2, ConstantsAssumption DEF ReadRefusal, HasReply, Return
  <2> QED
    BY <1>18, <2>1, <2>2 DEF ReadRefusal, Fail, Constructing
<1>19. ASSUME NEW t \in Threads, SetApplication(t) PROVE NoCallFailed
  BY <1>19, ConstantsAssumption DEF SetApplication, CanAcquire
<1>20. ASSUME NEW t \in Threads, PopWarnings(t) PROVE NoCallFailed
  BY <1>20, ConstantsAssumption DEF PopWarnings, CanAcquire
<1>21. ASSUME NEW t \in Threads, DropClone(t) PROVE NoCallFailed
  BY <1>21, ConstantsAssumption DEF DropClone, Message
<1>22. ASSUME NEW t \in Threads, NEW c \in Calls, StartCall(t, c) PROVE NoCallFailed
  BY <1>22, ConstantsAssumption DEF StartCall
<1>23. CASE SrvAuthenticate
  BY <1>23, ConstantsAssumption DEF SrvAuthenticate, Answer, Reply
<1>24. CASE SrvConnect
  BY <1>24, ConstantsAssumption DEF SrvConnect, Answer, Reply
<1>25. CASE SrvExecute
  BY <1>25, ConstantsAssumption DEF SrvExecute, Answer, Reply
<1>26. CASE SrvReject
  BY <1>26, ConstantsAssumption DEF SrvReject, Answer, Reply
<1>27. CASE SrvDisconnect
  BY <1>27, ConstantsAssumption DEF SrvDisconnect
<1>28. CASE SrvExecuteStale
  BY <1>28, ConstantsAssumption DEF SrvExecuteStale
<1>29. CASE Reset
  BY <1>29, ConstantsAssumption DEF Reset, LoseConnection
<1>30. CASE Close
  BY <1>30, ConstantsAssumption DEF Close, LoseConnection
<1>31. CASE UNCHANGED vars
  BY <1>31, ConstantsAssumption DEF vars
<1> QED
  BY <1>1, <1>2, <1>3, <1>4, <1>5, <1>6, <1>7, <1>8, <1>9, <1>9a, <1>10, <1>11, <1>12,
     <1>13, <1>14, <1>15, <1>16, <1>17, <1>18, <1>19, <1>20, <1>21, <1>22,
     <1>23, <1>24, <1>25, <1>26, <1>27, <1>28, <1>29, <1>30, <1>31
     DEF Next, CallStep, GarbledStep, HandshakeStep, UserStep, ServerStep

\* A call that returns with an error has failed.
LEMMA ErrorFails ==
  ASSUME TypeOK, CallInv, NEW t \in Threads, Return(t, "err"),
         \/ pc[t] \in InsideCall
         \/ pc[t] \in Connecting /\ t \in alive
  PROVE  ~NoCallFailed'
<1>1. callOf[t] \in Calls
  BY DEF CallInv
<1>2. outcome'[callOf[t]] = "err"
  BY <1>1 DEF Return, TypeOK, HistTypes
<1> QED
  BY <1>1, <1>2 DEF NoCallFailed

\* Only a reply that is given up, its misunderstood remains and a new connection
\* change what garbled and misread say.
LEMMA GarbageChanges ==
  ASSUME [Next]_vars, ~(UNCHANGED <<garbled, misread>>)
  PROVE  \E t \in Threads : ParseFails(t) \/ Dial(t) \/ Misread(t)
<1> USE DEF vars, mutexVars, threadVars, wireVars, serverVars, histVars
<1>1. ASSUME NEW t \in Threads, CallStep(t) PROVE ParseFails(t)
  BY <1>1 DEF CallStep, LockAndAugment, LockIsPoisoned, EmitCall, ReadReply, ReadError, ReadErrors,
     ReadCutReply, IoError, Digest
<1>2. ASSUME NEW t \in Threads, GarbledStep(t) PROVE Misread(t)
  BY <1>2 DEF GarbledStep, ReadGarbled
<1>3. ASSUME NEW t \in Threads, HandshakeStep(t) PROVE Dial(t)
  BY <1>3 DEF HandshakeStep, DialFails, EmitAuthenticate, ReadChallenge, EmitConnect, ReadSession,
     ReadRefusal
<1>4. ASSUME NEW t \in Threads, UserStep(t) PROVE FALSE
  BY <1>4 DEF UserStep, SetApplication, PopWarnings, DropClone, StartCall
<1>5. CASE ServerStep \/ SrvExecuteStale \/ Reset \/ Close
  BY <1>5 DEF ServerStep, SrvAuthenticate, SrvConnect, SrvExecute, SrvReject, SrvDisconnect,
     SrvExecuteStale, Reset, Close, LoseConnection
<1>6. CASE UNCHANGED vars
  BY <1>6
<1> QED
  BY <1>1, <1>2, <1>3, <1>4, <1>5, <1>6 DEF Next

\* Bytes of a reply that was not understood are left by a failed call only, and
\* misread only after that.
LEMMA GarbledFailedStep ==
  ASSUME TypeOK, CallInv, GarbledFailed, [Next]_vars
  PROVE  GarbledFailed'
<1>1. CASE UNCHANGED <<garbled, misread>>
  BY <1>1, FailureSticks DEF GarbledFailed
<1>2. ASSUME NEW t \in Threads, ParseFails(t) PROVE GarbledFailed'
  BY <1>2, ErrorFails DEF ParseFails, HasReply, InsideCall, GarbledFailed
<1>3. ASSUME NEW t \in Threads, Dial(t) PROVE GarbledFailed'
  <2>1. garbled' = FALSE /\ misread' = misread
    BY <1>3 DEF Dial, histVars
  <2> QED
    BY <2>1, FailureSticks DEF GarbledFailed
<1>4. ASSUME NEW t \in Threads, Misread(t) PROVE GarbledFailed'
  <2>1. garbled
    BY <1>4 DEF Misread
  <2> QED
    BY <2>1, FailureSticks DEF GarbledFailed
<1> QED
  BY <1>1, <1>2, <1>3, <1>4, GarbageChanges

\* Until Connection::new has handed out the connection nothing resets
\* client_info_touched.
LEMMA TouchedStep ==
  ASSUME TypeOK, MutexInv, TouchedInv, [Next]_vars
  PROVE  TouchedInv'
<1> USE DEF TouchedInv, MutexInv, TypeOK, MutexTypes, ThreadTypes, CoreType, Labels, Holding,
            Emitting, Reading, InHandshake, InsideCall, Connecting,
            mutexVars, threadVars, wireVars, serverVars, histVars
<1>1. ASSUME NEW t \in Threads, LockAndAugment(t) PROVE TouchedInv'
  BY <1>1, ConstantsAssumption DEF LockAndAugment, CanAcquire
<1>2. ASSUME NEW t \in Threads, LockIsPoisoned(t) PROVE TouchedInv'
  BY <1>2, ConstantsAssumption DEF LockIsPoisoned, Return
<1>3. ASSUME NEW t \in Threads, EmitCall(t) PROVE TouchedInv'
  BY <1>3, ConstantsAssumption DEF EmitCall, Message
<1>4. ASSUME NEW t \in Threads, ReadReply(t) PROVE TouchedInv'
  BY <1>4, ConstantsAssumption DEF ReadReply, TakeReply, HasReply
<1>5. ASSUME NEW t \in Threads, ReadError(t) PROVE TouchedInv'
  BY <1>5, ConstantsAssumption DEF ReadError, TakeError, HasReply, Return
<1>6. ASSUME NEW t \in Threads, ReadErrors(t) PROVE TouchedInv'
  BY <1>6, ConstantsAssumption DEF ReadErrors, TakeErrors, HasReply
<1>7. ASSUME NEW t \in Threads, ReadCutReply(t) PROVE TouchedInv'
  BY <1>7, ConstantsAssumption DEF ReadCutReply, HasReply
<1>8. ASSUME NEW t \in Threads, ParseFails(t) PROVE TouchedInv'
  BY <1>8, ConstantsAssumption DEF ParseFails, HasReply, Return
<1>9. ASSUME NEW t \in Threads, ReadGarbled(t) PROVE TouchedInv'
  BY <1>9, ConstantsAssumption DEF ReadGarbled, Return
<1>9a. ASSUME NEW t \in Threads, Misread(t) PROVE TouchedInv'
  <2>1. PICK r \in ReplyType :
           /\ Astray(t) /\ r.call = NoCall
           /\ TakeReply(t, r) \/ TakeError(t, r) \/ TakeErrors(t, r) \/ TakeCut(t)
    BY <1>9a, MisreadCases
  <2>2. CASE TakeReply(t, r)
    BY <2>1, <2>2, ConstantsAssumption DEF Astray, TakeReply
  <2>3. CASE TakeError(t, r)
    BY <2>1, <2>3, ConstantsAssumption DEF Astray, TakeError, Return
  <2>4. CASE TakeErrors(t, r)
    BY <2>1, <2>4, ConstantsAssumption DEF Astray, TakeErrors
  <2>5. CASE TakeCut(t)
    BY <2>1, <2>5, ConstantsAssumption DEF Astray, TakeCut
  <2> QED
    BY <2>1, <2>2, <2>3, <2>4, <2>5
<1>10. ASSUME NEW t \in Threads, IoError(t) PROVE TouchedInv'
  <2>1. CASE FailConstruction(t) /\ t \notin alive
    BY <1>10, <2>1, ConstantsAssumption DEF IoError, FailConstruction
  <2>2. CASE Return(t, "err") /\ t \in alive
    BY <1>10, <2>2, ConstantsAssumption DEF IoError, Return
  <2>3. CASE /\ pc[t] \in {"emit", "read"} /\ CanRepeat
             /\ pc' = [pc EXCEPT ![t] = "dial"] /\ attempt' = 2
             /\ UNCHANGED <<lock, callOf, rep, req, outcome>>
    BY <1>10, <2>3, ConstantsAssumption DEF IoError, CanRepeat
  <2> QED
    BY <1>10, <2>1, <2>2, <2>3 DEF IoError, Fail, Constructing
<1>11. ASSUME NEW t \in Threads, Digest(t) PROVE TouchedInv'
  BY <1>11, ConstantsAssumption DEF Digest, CanAcquire, Return
<1>12. ASSUME NEW t \in Threads, Dial(t) PROVE TouchedInv'
  BY <1>12 DEF Dial, Disconnected
<1>13. ASSUME NEW t \in Threads, DialFails(t) PROVE TouchedInv'
  <2>1. CASE FailConstruction(t) /\ t \notin alive
    BY <1>13, <2>1, ConstantsAssumption DEF DialFails, Disconnected, FailConstruction
  <2>2. CASE Return(t, "err") /\ t \in alive
    BY <1>13, <2>2, ConstantsAssumption DEF DialFails, Disconnected, Return
  <2> QED
    BY <1>13, <2>1, <2>2 DEF DialFails, Fail, Constructing
<1>14. ASSUME NEW t \in Threads, EmitAuthenticate(t) PROVE TouchedInv'
  BY <1>14, ConstantsAssumption DEF EmitAuthenticate, Message
<1>15. ASSUME NEW t \in Threads, ReadChallenge(t) PROVE TouchedInv'
  BY <1>15, ConstantsAssumption DEF ReadChallenge, HasReply
<1>16. ASSUME NEW t \in Threads, EmitConnect(t) PROVE TouchedInv'
  BY <1>16, ConstantsAssumption DEF EmitConnect, Message
<1>17. ASSUME NEW t \in Threads, ReadSession(t) PROVE TouchedInv'
  BY <1>17, ConstantsAssumption DEF ReadSession, HasReply, Constructing, WithSession
<1>18. ASSUME NEW t \in Threads, ReadRefusal(t) PROVE TouchedInv'
  <2>1. CASE FailConstruction(t) /\ t \notin alive
    BY <1>18, <2>1, ConstantsAssumption DEF ReadRefusal, HasReply, FailConstruction
  <2>2. CASE Return(t, "err") /\ t \in alive
    BY <1>18, <2>2, ConstantsAssumption DEF ReadRefusal, HasReply, Return
  <2> QED
    BY <1>18, <2>1, <2>2 DEF ReadRefusal, Fail, Constructing
<1>19. ASSUME NEW t \in Threads, SetApplication(t) PROVE TouchedInv'
  BY <1>19, ConstantsAssumption DEF SetApplication, CanAcquire
<1>20. ASSUME NEW t \in Threads, PopWarnings(t) PROVE TouchedInv'
  BY <1>20, ConstantsAssumption DEF PopWarnings, CanAcquire
<1>21. ASSUME NEW t \in Threads, DropClone(t) PROVE TouchedInv'
  BY <1>21, ConstantsAssumption DEF DropClone, Message
<1>22. ASSUME NEW t \in Threads, NEW c \in Calls, StartCall(t, c) PROVE TouchedInv'
  BY <1>22, ConstantsAssumption DEF StartCall
<1>23. CASE SrvAuthenticate
  BY <1>23, ConstantsAssumption DEF SrvAuthenticate, Answer, Reply
<1>24. CASE SrvConnect
  BY <1>24, ConstantsAssumption DEF SrvConnect, Answer, Reply
<1>25. CASE SrvExecute
  BY <1>25, ConstantsAssumption DEF SrvExecute, Answer, Reply
<1>26. CASE SrvReject
  BY <1>26, ConstantsAssumption DEF SrvReject, Answer, Reply
<1>27. CASE SrvDisconnect
  BY <1>27, ConstantsAssumption DEF SrvDisconnect
<1>28. CASE SrvExecuteStale
  BY <1>28, ConstantsAssumption DEF SrvExecuteStale
<1>29. CASE Reset
  BY <1>29, ConstantsAssumption DEF Reset, LoseConnection
<1>30. CASE Close
  BY <1>30, ConstantsAssumption DEF Close, LoseConnection
<1>31. CASE UNCHANGED vars
  BY <1>31, ConstantsAssumption DEF vars
<1> QED
  BY <1>1, <1>2, <1>3, <1>4, <1>5, <1>6, <1>7, <1>8, <1>9, <1>9a, <1>10, <1>11, <1>12,
     <1>13, <1>14, <1>15, <1>16, <1>17, <1>18, <1>19, <1>20, <1>21, <1>22,
     <1>23, <1>24, <1>25, <1>26, <1>27, <1>28, <1>29, <1>30, <1>31
     DEF Next, CallStep, GarbledStep, HandshakeStep, UserStep, ServerStep

\* The replies that survive the loss of the connection were there before.
LEMMA RepliesLost ==
  ASSUME TypeOK, toClient' \in {<<>>, Cut(toClient), toClient}
  PROVE  \A i \in DOMAIN toClient' : \E j \in DOMAIN toClient :
            /\ toClient[j].call = toClient'[i].call /\ toClient[j].ctx = toClient'[i].ctx
            /\ toClient[j].kind = "error" => toClient'[i].kind = "error"
<1>1. CASE toClient' = <<>>
  BY <1>1
<1>2. CASE toClient' = toClient
  BY <1>2
<1>3. CASE toClient' = Cut(toClient) /\ toClient' # <<>>
  <2>1. toClient # <<>> /\ toClient' = <<[Head(toClient) EXCEPT !.kind = "cut"]>>
        /\ Head(toClient).kind = "resultset"
    BY <1>3 DEF Cut
  <2>2. Head(toClient) = toClient[1] /\ 1 \in DOMAIN toClient /\ toClient[1] \in ReplyType
    BY <2>1, QueueHead, QueueDomain DEF TypeOK, WireTypes
  <2>3. DOMAIN toClient' = {1} /\ toClient'[1] = [toClient[1] EXCEPT !.kind = "cut"]
    BY <2>1, <2>2, SingleMessage
  <2> QED
    BY <2>1, <2>2, <2>3 DEF ReplyType
<1> QED
  BY <1>1, <1>2, <1>3

\* A reply that belongs to no call leaves the replies to calls as they were.
LEMMA AnswersNoCall ==
  ASSUME TypeOK, NEW r, Answer(r), r.call = NoCall
  PROVE  \A i \in DOMAIN toClient' :
            toClient'[i].call \in Calls /\ toClient'[i].kind # "error" =>
               \E n \in DOMAIN toClient : toClient[n] = toClient'[i]
<1>1. \A i \in DOMAIN toClient' :
         toClient'[i] = r \/ \E n \in DOMAIN toClient : toClient[n] = toClient'[i]
  BY Answered
<1> QED BY <1>1, ConstantsAssumption

\* Steps that neither touch the client info nor put a call with another one on the
\* wire keep it under way.
LEMMA InfoKept ==
  ASSUME TypeOK, InfoUnderWay, NoCallFailed,
         core'.touched = core.touched, core'.clientInfo = core.clientInfo,
         UNCHANGED <<lock, req>>, srv'.info = srv.info,
         \A i \in DOMAIN toServer' : IsCall(toServer'[i]) =>
            \/ toServer'[i].info = req.info
            \/ \E j \in DOMAIN toServer : toServer[j] = toServer'[i],
         \A i \in DOMAIN toClient' :
            toClient'[i].call \in Calls /\ toClient'[i].kind # "error" =>
               \E j \in DOMAIN toClient : /\ toClient[j].call = toClient'[i].call
                                          /\ toClient[j].kind # "error"
  PROVE  InfoUnderWay'
BY DEF InfoUnderWay

\* A client info that counts as sent is on its way or known to the server.
LEMMA InfoUnderWayStep ==
  ASSUME TypeOK, MutexInv, CallInv, WireInv, InfoInv, [Next]_vars
  PROVE  InfoUnderWay'
<1> USE DEF TypeOK, MutexTypes, ThreadTypes, WireTypes, CoreType, ServerTypes, SrvType, HistTypes,
            Labels, mutexVars, threadVars, wireVars, serverVars, histVars
<1>0. SUFFICES ASSUME NoCallFailed, ~garbled PROVE InfoUnderWay'
  BY FailureSticks DEF InfoInv, GarbledFailed, InfoUnderWay
<1>1. ASSUME NEW t \in Threads, LockAndAugment(t) PROVE InfoUnderWay'
  <2>1. lock = NoThread /\ pc[t] = "lock" /\ t \in alive /\ lock' = t
    BY <1>1 DEF LockAndAugment, CanAcquire, MutexInv, InsideCall
  <2>2. toServer = <<>> /\ toClient = <<>>
    BY <1>0, <2>1, ConstantsAssumption DEF WireInv, NothingUnderWay, RequestUnderWay,
       ReplyUnderWay, DisconnectUnderWay
  <2>3. DOMAIN toServer' = {} /\ DOMAIN toClient' = {} /\ core'.clientInfo = core.clientInfo
        /\ UNCHANGED srv
    BY <1>1, <2>2 DEF LockAndAugment
  <2>4. ASSUME ~core'.touched
        PROVE  /\ req'.info \in {0, core.clientInfo + 1}
               /\ srv.info = core.clientInfo + 1 \/ req'.info = core.clientInfo + 1
    <3>1. CASE core.touched
      BY <1>1, <2>4, <3>1 DEF LockAndAugment, Augmentation
    <3>2. CASE ~core.touched
      BY <1>0, <1>1, <2>1, <3>2 DEF LockAndAugment, Augmentation, NoRequest, InfoInv, InfoUnderWay
    <3> QED
      BY <3>1, <3>2
  <2> QED
    BY <2>1, <2>3, <2>4, ConstantsAssumption DEF InfoUnderWay
<1>2. ASSUME NEW t \in Threads, LockIsPoisoned(t) PROVE InfoUnderWay'
  BY <1>2, ErrorFails DEF LockIsPoisoned, InsideCall, Connecting, InHandshake, InfoUnderWay
<1>3. ASSUME NEW t \in Threads, EmitCall(t) PROVE InfoUnderWay'
  <2> DEFINE m == [Message("Call", core.sessionId, core.seqNumber + 1, callOf[t])
                     EXCEPT !.info = req.info, !.ctx = req.ctx]
  <2>1. m.info = req.info
    BY DEF Message
  <2>2. toServer' = toServer \/ toServer' = Append(toServer, m)
    BY <1>3 DEF EmitCall
  <2> HIDE DEF m
  <2>3. \A i \in DOMAIN toServer' :
           toServer'[i] = m \/ (i \in DOMAIN toServer /\ toServer'[i] = toServer[i])
    BY <2>2, Emitted
  <2>4. /\ core'.touched = core.touched /\ core'.clientInfo = core.clientInfo
        /\ UNCHANGED <<lock, req>> /\ srv'.info = srv.info
    BY <1>3 DEF EmitCall
  <2>5. UNCHANGED toClient
    BY <1>3 DEF EmitCall
  <2> QED
    BY <1>0, <2>1, <2>3, <2>4, <2>5, InfoKept DEF InfoInv, IsCall
<1>4. ASSUME NEW t \in Threads, ReadReply(t) PROVE InfoUnderWay'
  <2>1. pc[t] = "read" /\ lock = t /\ toClient # <<>> /\ Head(toClient).kind # "error"
    BY <1>4 DEF ReadReply, TakeReply, HasReply, MutexInv, Holding, Reading
  <2>2. Len(toClient) = 1 /\ toServer = <<>> /\ toClient[1].call = callOf[t]
    BY <1>0, <2>1, ConstantsAssumption DEF WireInv, NothingUnderWay, RequestUnderWay,
       ReplyUnderWay, DisconnectUnderWay
  <2>3. callOf[t] \in Calls
    BY <2>1 DEF CallInv, InsideCall
  <2>4. ~core.touched => srv.info = core.clientInfo + 1
    BY <1>0, <2>1, <2>2, <2>3, QueueDomain DEF InfoInv, InfoUnderWay
  <2>5. toClient' = <<>>
    BY <1>4, <2>2, QueueOfOne DEF ReadReply, TakeReply
  <2>6. DOMAIN toServer' = {} /\ DOMAIN toClient' = {} /\ lock' = NoThread
        /\ core'.touched = core.touched /\ core'.clientInfo = core.clientInfo /\ UNCHANGED srv
    BY <1>4, <2>2, <2>5 DEF ReadReply, TakeReply
  <2> QED
    BY <2>4, <2>6, ConstantsAssumption DEF InfoUnderWay
<1>5. ASSUME NEW t \in Threads, ReadError(t) PROVE InfoUnderWay'
  BY <1>5, ErrorFails DEF ReadError, TakeError, HasReply, InsideCall, Connecting, InHandshake, InfoUnderWay
<1>6. ASSUME NEW t \in Threads, ReadErrors(t) PROVE InfoUnderWay'
  <2>1. callOf[t] \in Calls
    BY <1>6 DEF ReadErrors, TakeErrors, HasReply, CallInv, InsideCall
  <2>2. outcome'[callOf[t]] = "err"
    BY <1>6, <2>1 DEF ReadErrors, TakeErrors, TypeOK, HistTypes
  <2> QED
    BY <2>1, <2>2 DEF NoCallFailed, InfoUnderWay
<1>7. ASSUME NEW t \in Threads, ReadCutReply(t) PROVE InfoUnderWay'
  BY <1>7, ConstantsAssumption, <1>0, QueueDomain, QueueOfOne, SMTT(60) DEF ReadCutReply, HasReply,
     InfoInv, InfoUnderWay
<1>8. ASSUME NEW t \in Threads, ParseFails(t) PROVE InfoUnderWay'
  BY <1>8, ErrorFails DEF ParseFails, HasReply, InsideCall, Connecting, InHandshake, InfoUnderWay
<1>9. ASSUME NEW t \in Threads, ReadGarbled(t) PROVE InfoUnderWay'
  BY <1>9, ErrorFails DEF ReadGarbled, InsideCall, Connecting, InHandshake, InfoUnderWay
<1>9a. ASSUME NEW t \in Threads, Misread(t) PROVE InfoUnderWay'
  BY <1>0, <1>9a DEF Misread
<1>10. ASSUME NEW t \in Threads, IoError(t) PROVE InfoUnderWay'
  <2>1. CASE FailConstruction(t) /\ t \notin alive
    <3>1. pc[t] \in Connecting
      BY <1>10, <2>1 DEF IoError, HasReply, Emitting, Reading, Connecting, InHandshake,
         MutexInv, InsideCall
    <3>2. core'.touched
      BY <1>10, <2>1, <3>1 DEF IoError, InfoInv, TouchedInv
    <3> QED
      BY <3>2 DEF InfoUnderWay
  <2>2. CASE Return(t, "err") /\ t \in alive
    BY <1>10, <2>2, ErrorFails DEF IoError, HasReply, Emitting, Reading, InsideCall, Connecting,
       InHandshake, InfoUnderWay
  <2>3. CASE UNCHANGED <<lock, callOf, rep, req, outcome>>
    <3>1. core'.touched = core.touched /\ core'.clientInfo = core.clientInfo
      BY <1>10 DEF IoError, TypeOK, CoreType
    <3> QED
      BY <1>0, <1>10, <2>3, <3>1, InfoKept DEF IoError, InfoInv
  <2> QED
    BY <1>10, <2>1, <2>2, <2>3 DEF IoError, Fail, Constructing
<1>11. ASSUME NEW t \in Threads, Digest(t) PROVE InfoUnderWay'
  BY <1>11, ConstantsAssumption, <1>0, QueueDomain, QueueOfOne DEF Digest, CanAcquire,
     Return, InfoInv, InfoUnderWay
<1>12. ASSUME NEW t \in Threads, Dial(t) PROVE InfoUnderWay'
  BY <1>12, ConstantsAssumption, <1>0, QueueDomain, QueueOfOne DEF Dial, Disconnected,
     InfoInv, InfoUnderWay
<1>13. ASSUME NEW t \in Threads, DialFails(t) PROVE InfoUnderWay'
  <2>1. CASE FailConstruction(t) /\ t \notin alive
    <3>1. pc[t] \in Connecting
      BY <1>13, <2>1 DEF DialFails, HasReply, Emitting, Reading, Connecting, InHandshake,
         MutexInv, InsideCall
    <3>2. core'.touched
      BY <1>13, <2>1, <3>1 DEF DialFails, InfoInv, TouchedInv
    <3> QED
      BY <3>2 DEF InfoUnderWay
  <2>2. CASE Return(t, "err") /\ t \in alive
    BY <1>13, <2>2, ErrorFails DEF DialFails, HasReply, Emitting, Reading, InsideCall, Connecting,
       InHandshake, InfoUnderWay
  <2> QED
    BY <1>13, <2>1, <2>2 DEF DialFails, Fail, Constructing
<1>14. ASSUME NEW t \in Threads, EmitAuthenticate(t) PROVE InfoUnderWay'
  <2> DEFINE m == Message("Authenticate", 0, AuthSeq, NoCall)
  <2>1. m.type = "Authenticate"
    BY DEF Message
  <2>2. toServer' = toServer \/ toServer' = Append(toServer, m)
    BY <1>14 DEF EmitAuthenticate
  <2> HIDE DEF m
  <2>3. \A i \in DOMAIN toServer' :
           toServer'[i] = m \/ (i \in DOMAIN toServer /\ toServer'[i] = toServer[i])
    BY <2>2, Emitted
  <2>4. /\ core'.touched = core.touched /\ core'.clientInfo = core.clientInfo
        /\ UNCHANGED <<lock, req>> /\ srv'.info = srv.info
    BY <1>14 DEF EmitAuthenticate
  <2>5. UNCHANGED toClient
    BY <1>14 DEF EmitAuthenticate
  <2> QED
    BY <1>0, <2>1, <2>3, <2>4, <2>5, InfoKept DEF InfoInv, IsCall
<1>15. ASSUME NEW t \in Threads, ReadChallenge(t) PROVE InfoUnderWay'
  BY <1>15, ConstantsAssumption, <1>0, QueueDomain, QueueOfOne, SMTT(30) DEF ReadChallenge,
     HasReply, InfoInv, InfoUnderWay
<1>16. ASSUME NEW t \in Threads, EmitConnect(t) PROVE InfoUnderWay'
  <2> DEFINE m == Message("Connect", core.sessionId, core.seqNumber + 1, NoCall)
  <2>1. m.type = "Connect"
    BY DEF Message
  <2>2. toServer' = toServer \/ toServer' = Append(toServer, m)
    BY <1>16 DEF EmitConnect
  <2> HIDE DEF m
  <2>3. \A i \in DOMAIN toServer' :
           toServer'[i] = m \/ (i \in DOMAIN toServer /\ toServer'[i] = toServer[i])
    BY <2>2, Emitted
  <2>4. /\ core'.touched = core.touched /\ core'.clientInfo = core.clientInfo
        /\ UNCHANGED <<lock, req>> /\ srv'.info = srv.info
    BY <1>16 DEF EmitConnect
  <2>5. UNCHANGED toClient
    BY <1>16 DEF EmitConnect
  <2> QED
    BY <1>0, <2>1, <2>3, <2>4, <2>5, InfoKept DEF InfoInv, IsCall
<1>17. ASSUME NEW t \in Threads, ReadSession(t) PROVE InfoUnderWay'
  <2>1. CASE Constructing(t)
    BY <1>17, <2>1 DEF ReadSession, HasReply, Constructing, WithSession, InfoInv, TouchedInv,
       Connecting, InHandshake, InfoUnderWay
  <2>2. CASE ~Constructing(t)
    <3>1. /\ core'.touched = core.touched /\ core'.clientInfo = core.clientInfo
          /\ UNCHANGED <<lock, req, srv, toServer>>
      BY <1>17, <2>2 DEF ReadSession, WithSession
    <3>2. \A i \in DOMAIN toClient' : \E j \in DOMAIN toClient : toClient[j] = toClient'[i]
      BY <1>17, QueueDomain, SMTT(60) DEF ReadSession, HasReply
    <3> QED
      BY <1>0, <3>1, <3>2, InfoKept DEF InfoInv
  <2> QED
    BY <2>1, <2>2
<1>18. ASSUME NEW t \in Threads, ReadRefusal(t) PROVE InfoUnderWay'
  <2>1. CASE FailConstruction(t) /\ t \notin alive
    <3>1. pc[t] \in Connecting
      BY <1>18, <2>1 DEF ReadRefusal, HasReply, Emitting, Reading, Connecting, InHandshake,
         MutexInv, InsideCall
    <3>2. core'.touched
      BY <1>18, <2>1, <3>1 DEF ReadRefusal, InfoInv, TouchedInv
    <3> QED
      BY <3>2 DEF InfoUnderWay
  <2>2. CASE Return(t, "err") /\ t \in alive
    BY <1>18, <2>2, ErrorFails DEF ReadRefusal, HasReply, Emitting, Reading, InsideCall, Connecting,
       InHandshake, InfoUnderWay
  <2> QED
    BY <1>18, <2>1, <2>2 DEF ReadRefusal, Fail, Constructing
<1>19. ASSUME NEW t \in Threads, SetApplication(t) PROVE InfoUnderWay'
  BY <1>19, ConstantsAssumption, <1>0, QueueDomain, QueueOfOne DEF SetApplication,
     CanAcquire, InfoInv, InfoUnderWay
<1>20. ASSUME NEW t \in Threads, PopWarnings(t) PROVE InfoUnderWay'
  BY <1>20, ConstantsAssumption, <1>0, QueueDomain, QueueOfOne DEF PopWarnings,
     CanAcquire, InfoInv, InfoUnderWay
<1>21. ASSUME NEW t \in Threads, DropClone(t) PROVE InfoUnderWay'
  <2> DEFINE m == Message("Disconnect", core.sessionId, core.seqNumber + 1, NoCall)
  <2>1. m.type = "Disconnect"
    BY DEF Message
  <2>2. toServer' = toServer \/ toServer' = Append(toServer, m)
    BY <1>21 DEF DropClone
  <2> HIDE DEF m
  <2>3. \A i \in DOMAIN toServer' :
           toServer'[i] = m \/ (i \in DOMAIN toServer /\ toServer'[i] = toServer[i])
    BY <2>2, Emitted
  <2>4. /\ core'.touched = core.touched /\ core'.clientInfo = core.clientInfo
        /\ UNCHANGED <<lock, req>> /\ srv'.info = srv.info
    BY <1>21 DEF DropClone
  <2>5. UNCHANGED toClient
    BY <1>21 DEF DropClone
  <2> QED
    BY <1>0, <2>1, <2>3, <2>4, <2>5, InfoKept DEF InfoInv, IsCall
<1>22. ASSUME NEW t \in Threads, NEW c \in Calls, StartCall(t, c) PROVE InfoUnderWay'
  BY <1>22, ConstantsAssumption, <1>0, QueueDomain, QueueOfOne DEF StartCall, InfoInv,
     InfoUnderWay
<1>23. CASE SrvAuthenticate
  <2>1. /\ core'.touched = core.touched /\ core'.clientInfo = core.clientInfo
        /\ UNCHANGED <<lock, req>> /\ srv'.info = srv.info
    BY <1>23 DEF SrvAuthenticate
  <2>2. \A i \in DOMAIN toServer' : \E j \in DOMAIN toServer : toServer[j] = toServer'[i]
    BY <1>23, QueueDomain, SMTT(60) DEF SrvAuthenticate
  <2>3. CASE Answer(Reply("challenge", 0, NoCall, 0))
    <3>1. Reply("challenge", 0, NoCall, 0).call = NoCall
      BY DEF Reply
    <3>2. \A i \in DOMAIN toClient' :
             toClient'[i].call \in Calls /\ toClient'[i].kind # "error" =>
                \E n \in DOMAIN toClient : toClient[n] = toClient'[i]
      BY <2>3, <3>1, AnswersNoCall
    <3> QED
      BY <1>0, <2>1, <2>2, <3>2, InfoKept DEF InfoInv
  <2>4. CASE Answer(Reply("error", 0, NoCall, 0))
    <3>1. Reply("error", 0, NoCall, 0).call = NoCall
      BY DEF Reply
    <3>2. \A i \in DOMAIN toClient' :
             toClient'[i].call \in Calls /\ toClient'[i].kind # "error" =>
                \E n \in DOMAIN toClient : toClient[n] = toClient'[i]
      BY <2>4, <3>1, AnswersNoCall
    <3> QED
      BY <1>0, <2>1, <2>2, <3>2, InfoKept, SMTT(60) DEF InfoInv
  <2> QED
    BY <1>23, <2>3, <2>4 DEF SrvAuthenticate
<1>24. CASE SrvConnect
  <2>1. /\ core'.touched = core.touched /\ core'.clientInfo = core.clientInfo
        /\ UNCHANGED <<lock, req>> /\ srv'.info = srv.info
    BY <1>24 DEF SrvConnect
  <2>2. \A i \in DOMAIN toServer' : \E j \in DOMAIN toServer : toServer[j] = toServer'[i]
    BY <1>24, QueueDomain, SMTT(60) DEF SrvConnect
  <2>3. CASE Answer(Reply("session", srv.sid + 1, NoCall, 0))
    <3>1. Reply("session", srv.sid + 1, NoCall, 0).call = NoCall
      BY DEF Reply
    <3>2. \A i \in DOMAIN toClient' :
             toClient'[i].call \in Calls /\ toClient'[i].kind # "error" =>
                \E n \in DOMAIN toClient : toClient[n] = toClient'[i]
      BY <2>3, <3>1, AnswersNoCall
    <3> QED
      BY <1>0, <2>1, <2>2, <3>2, InfoKept, SMTT(60) DEF InfoInv
  <2>4. CASE Answer(Reply("error", 0, NoCall, 0))
    <3>1. Reply("error", 0, NoCall, 0).call = NoCall
      BY DEF Reply
    <3>2. \A i \in DOMAIN toClient' :
             toClient'[i].call \in Calls /\ toClient'[i].kind # "error" =>
                \E n \in DOMAIN toClient : toClient[n] = toClient'[i]
      BY <2>4, <3>1, AnswersNoCall
    <3> QED
      BY <1>0, <2>1, <2>2, <3>2, InfoKept, SMTT(60) DEF InfoInv
  <2> QED
    BY <1>24, <2>3, <2>4 DEF SrvConnect
<1>25. CASE SrvExecute
  <2>1. /\ toServer # <<>> /\ Head(toServer) = toServer[1] /\ 1 \in DOMAIN toServer
        /\ IsCall(toServer[1])
    BY <1>25, QueueDomain, SMTT(60) DEF SrvExecute, IsCall
  <2>2. Len(toServer) = 1 /\ lock \in Threads
    BY <1>0, <2>1 DEF WireInv, NothingUnderWay, RequestUnderWay, ReplyUnderWay,
       DisconnectUnderWay, IsCall
  <2>3. toServer' = <<>> /\ UNCHANGED <<core, lock, req>>
    BY <1>25, <2>2, QueueOfOne DEF SrvExecute
  <2>4. srv'.info = IF toServer[1].info > 0 THEN toServer[1].info ELSE srv.info
    BY <1>25, <2>1 DEF SrvExecute
  <2>5. ~core.touched => srv'.info = core.clientInfo + 1
    BY <1>0, <2>1, <2>2, <2>4 DEF InfoInv, InfoUnderWay
  <2>6. req \in RequestType
    OBVIOUS
  <2> QED
    BY <1>0, <2>2, <2>3, <2>5, ConstantsAssumption DEF InfoInv, InfoUnderWay
<1>26. CASE SrvReject
  <2>1. /\ core'.touched = core.touched /\ core'.clientInfo = core.clientInfo
        /\ UNCHANGED <<lock, req>> /\ srv'.info = srv.info
    BY <1>26 DEF SrvReject
  <2>2. \A i \in DOMAIN toServer' : \E j \in DOMAIN toServer : toServer[j] = toServer'[i]
    BY <1>26, QueueDomain DEF SrvReject
  <2>3. CASE Answer(Reply("error", 0, Head(toServer).call, srv.seq))
    <3>1. Reply("error", 0, Head(toServer).call, srv.seq).kind = "error"
      BY DEF Reply
    <3>2. \A i \in DOMAIN toClient' :
             \/ toClient'[i] = Reply("error", 0, Head(toServer).call, srv.seq)
             \/ \E n \in DOMAIN toClient : toClient[n] = toClient'[i]
      BY <2>3, Answered
    <3>3. \A i \in DOMAIN toClient' :
             toClient'[i].call \in Calls /\ toClient'[i].kind # "error" =>
                \E n \in DOMAIN toClient : toClient[n] = toClient'[i]
      BY <3>1, <3>2, ConstantsAssumption
    <3> QED
      BY <1>0, <2>1, <2>2, <3>3, InfoKept, SMTT(60) DEF InfoInv
  <2>4. CASE toClient' = toClient
    BY <1>0, <2>1, <2>2, <2>4, InfoKept DEF InfoInv
  <2> QED
    BY <1>26, <2>3, <2>4 DEF SrvReject
<1>27. CASE SrvDisconnect
  BY <1>27, ConstantsAssumption, <1>0, QueueDomain, QueueOfOne, SMTT(30) DEF SrvDisconnect, InfoInv,
     InfoUnderWay
<1>28. CASE SrvExecuteStale
  BY <1>28, ConstantsAssumption, <1>0, QueueDomain, QueueOfOne DEF SrvExecuteStale,
     InfoInv, InfoUnderWay
<1>29. CASE Reset
  <2>1. toServer' = <<>> /\ UNCHANGED <<core, lock, req, srv>>
    BY <1>29 DEF Reset, LoseConnection
  <2>2. toClient' \in {<<>>, Cut(toClient), toClient}
    BY <1>29 DEF Reset, LoseConnection
  <2>3. \A i \in DOMAIN toClient' : \E j \in DOMAIN toClient :
           /\ toClient[j].call = toClient'[i].call /\ toClient[j].ctx = toClient'[i].ctx
           /\ toClient[j].kind = "error" => toClient'[i].kind = "error"
    BY <2>2, RepliesLost
  <2>4. DOMAIN toServer' = {} /\ core' = core /\ srv' = srv /\ lock' = lock /\ req' = req
    BY <2>1
  <2> QED
    BY <1>0, <2>3, <2>4, InfoKept DEF InfoInv
<1>30. CASE Close
  <2>1. toServer' = <<>> /\ UNCHANGED <<core, lock, req, srv>>
    BY <1>30 DEF Close, LoseConnection
  <2>2. toClient' \in {<<>>, Cut(toClient), toClient}
    BY <1>30 DEF Close, LoseConnection
  <2>3. \A i \in DOMAIN toClient' : \E j \in DOMAIN toClient :
           /\ toClient[j].call = toClient'[i].call /\ toClient[j].ctx = toClient'[i].ctx
           /\ toClient[j].kind = "error" => toClient'[i].kind = "error"
    BY <2>2, RepliesLost
  <2>4. DOMAIN toServer' = {} /\ core' = core /\ srv' = srv /\ lock' = lock /\ req' = req
    BY <2>1
  <2> QED
    BY <1>0, <2>3, <2>4, InfoKept DEF InfoInv
<1>31. CASE UNCHANGED vars
  BY <1>31, ConstantsAssumption, <1>0, QueueDomain, QueueOfOne DEF vars, InfoInv,
     InfoUnderWay
<1> QED
  BY <1>1, <1>2, <1>3, <1>4, <1>5, <1>6, <1>7, <1>8, <1>9, <1>9a, <1>10, <1>11, <1>12,
     <1>13, <1>14, <1>15, <1>16, <1>17, <1>18, <1>19, <1>20, <1>21, <1>22,
     <1>23, <1>24, <1>25, <1>26, <1>27, <1>28, <1>29, <1>30, <1>31
     DEF Next, CallStep, GarbledStep, HandshakeStep, UserStep, ServerStep

\* The client info starts as one the server does not know.
LEMMA InfoInit == Init => InfoInv
BY DEF Init, InfoInv, GarbledFailed, TouchedInv, InfoUnderWay

\* InfoInv holds of the connection in every state.
LEMMA InfoKnown == Spec => []InfoInv
<1>1. IInv /\ InfoInv /\ [Next]_vars => InfoInv'
  BY GarbledFailedStep, TouchedStep, InfoUnderWayStep DEF IInv, InfoInv
<1> QED
  BY InfoInit, <1>1, Invariance, PTL DEF Spec

\* Resetting client_info_touched with the request (augment_request) loses no client
\* info as long as no call fails: the server has it when the guard is free.
THEOREM InfoDelivered == Spec => []ClientInfoDelivered
<1>1. InfoInv => ClientInfoDelivered
  BY DEF InfoInv, InfoUnderWay, NoCallFailed, ClientInfoDelivered
<1> QED
  BY <1>1, InfoKnown, PTL

\* full_send_sync, reconnect and the digestion of replies implement what
\* RemoteCalls promises to the callers: whatever is lost, a call is emitted at
\* most twice, takes effect at most as often as it was emitted, and is answered
\* by the holder of the connection, and only after it took effect, or after
\* another call has failed.
THEOREM Implementation == Spec => ImplementsRemoteCalls
<1>1. Init => Remote!Init
  BY InitMaps
<1>2. IInv /\ PendingInv /\ InfoInv /\ [Next]_vars => [Remote!Next]_(Remote!rvars)
  BY StepMaps DEF InfoInv
<1> QED
  BY Invariance, ExecutionsAreBounded, InfoKnown, <1>1, <1>2, PTL
     DEF Spec, ImplementsRemoteCalls, Remote!Spec

\* As long as no call has failed, no reply was given up and nothing is left of
\* one: then only a call the server has executed returns Ok.
THEOREM SuccessIsExecuted == Spec => [](NoCallFailed => SuccessMeansExecuted)
<1>1. IInv /\ InfoInv => (NoCallFailed => SuccessMeansExecuted)
  BY DEF IInv, ExecInv, OkMeansExecuted, InfoInv, GarbledFailed, SuccessMeansExecuted
<1> QED
  BY Invariance, InfoKnown, <1>1, PTL

-----------------------------------------------------------------------------
(* The statement sequence.                                                 *)

\* The steps that digest a statement context.
LEMMA SequenceChanges ==
  ASSUME TypeOK, [Next]_vars, misread' = {}, core'.stmtSeq # core.stmtSeq
  PROVE  \E t \in Threads : ReadError(t) \/ ReadErrors(t) \/ Digest(t)
<1> USE DEF TypeOK, CoreType, mutexVars, threadVars, wireVars, serverVars, histVars
<1>1. ASSUME NEW t \in Threads, LockAndAugment(t)
      PROVE  \E u \in Threads : ReadError(u) \/ ReadErrors(u) \/ Digest(u)
  BY <1>1 DEF LockAndAugment
<1>2. ASSUME NEW t \in Threads, LockIsPoisoned(t)
      PROVE  \E u \in Threads : ReadError(u) \/ ReadErrors(u) \/ Digest(u)
  BY <1>2 DEF LockIsPoisoned
<1>3. ASSUME NEW t \in Threads, EmitCall(t)
      PROVE  \E u \in Threads : ReadError(u) \/ ReadErrors(u) \/ Digest(u)
  BY <1>3 DEF EmitCall
<1>4. ASSUME NEW t \in Threads, ReadReply(t)
      PROVE  \E u \in Threads : ReadError(u) \/ ReadErrors(u) \/ Digest(u)
  BY <1>4 DEF ReadReply, TakeReply
<1>5. ASSUME NEW t \in Threads, ReadError(t)
      PROVE  \E u \in Threads : ReadError(u) \/ ReadErrors(u) \/ Digest(u)
  BY <1>5
<1>6. ASSUME NEW t \in Threads, ReadErrors(t)
      PROVE  \E u \in Threads : ReadError(u) \/ ReadErrors(u) \/ Digest(u)
  BY <1>6
<1>7. ASSUME NEW t \in Threads, ReadCutReply(t)
      PROVE  \E u \in Threads : ReadError(u) \/ ReadErrors(u) \/ Digest(u)
  BY <1>7 DEF ReadCutReply
<1>8. ASSUME NEW t \in Threads, ParseFails(t)
      PROVE  \E u \in Threads : ReadError(u) \/ ReadErrors(u) \/ Digest(u)
  BY <1>8 DEF ParseFails
<1>9. ASSUME NEW t \in Threads, ReadGarbled(t)
      PROVE  \E u \in Threads : ReadError(u) \/ ReadErrors(u) \/ Digest(u)
  BY <1>9 DEF ReadGarbled
<1>9a. ASSUME NEW t \in Threads, Misread(t)
       PROVE  \E u \in Threads : ReadError(u) \/ ReadErrors(u) \/ Digest(u)
  BY <1>9a DEF Misread
<1>10. ASSUME NEW t \in Threads, IoError(t)
       PROVE  \E u \in Threads : ReadError(u) \/ ReadErrors(u) \/ Digest(u)
  BY <1>10 DEF IoError, Fail
<1>11. ASSUME NEW t \in Threads, Digest(t)
       PROVE  \E u \in Threads : ReadError(u) \/ ReadErrors(u) \/ Digest(u)
  BY <1>11
<1>12. ASSUME NEW t \in Threads, Dial(t)
       PROVE  \E u \in Threads : ReadError(u) \/ ReadErrors(u) \/ Digest(u)
  BY <1>12 DEF Dial, Disconnected
<1>13. ASSUME NEW t \in Threads, DialFails(t)
       PROVE  \E u \in Threads : ReadError(u) \/ ReadErrors(u) \/ Digest(u)
  BY <1>13 DEF DialFails
<1>14. ASSUME NEW t \in Threads, EmitAuthenticate(t)
       PROVE  \E u \in Threads : ReadError(u) \/ ReadErrors(u) \/ Digest(u)
  BY <1>14 DEF EmitAuthenticate
<1>15. ASSUME NEW t \in Threads, ReadChallenge(t)
       PROVE  \E u \in Threads : ReadError(u) \/ ReadErrors(u) \/ Digest(u)
  BY <1>15 DEF ReadChallenge
<1>16. ASSUME NEW t \in Threads, EmitConnect(t)
       PROVE  \E u \in Threads : ReadError(u) \/ ReadErrors(u) \/ Digest(u)
  BY <1>16 DEF EmitConnect
<1>17. ASSUME NEW t \in Threads, ReadSession(t)
       PROVE  \E u \in Threads : ReadError(u) \/ ReadErrors(u) \/ Digest(u)
  BY <1>17 DEF ReadSession, WithSession
<1>18. ASSUME NEW t \in Threads, ReadRefusal(t)
       PROVE  \E u \in Threads : ReadError(u) \/ ReadErrors(u) \/ Digest(u)
  BY <1>18 DEF ReadRefusal
<1>19. ASSUME NEW t \in Threads, SetApplication(t)
       PROVE  \E u \in Threads : ReadError(u) \/ ReadErrors(u) \/ Digest(u)
  BY <1>19 DEF SetApplication
<1>20. ASSUME NEW t \in Threads, PopWarnings(t)
       PROVE  \E u \in Threads : ReadError(u) \/ ReadErrors(u) \/ Digest(u)
  BY <1>20 DEF PopWarnings
<1>21. ASSUME NEW t \in Threads, DropClone(t)
       PROVE  \E u \in Threads : ReadError(u) \/ ReadErrors(u) \/ Digest(u)
  BY <1>21 DEF DropClone
<1>22. ASSUME NEW t \in Threads, NEW c \in Calls, StartCall(t, c)
       PROVE  \E u \in Threads : ReadError(u) \/ ReadErrors(u) \/ Digest(u)
  BY <1>22 DEF StartCall
<1>23. CASE SrvAuthenticate
  BY <1>23 DEF SrvAuthenticate
<1>24. CASE SrvConnect
  BY <1>24 DEF SrvConnect
<1>25. CASE SrvExecute
  BY <1>25 DEF SrvExecute
<1>26. CASE SrvReject
  BY <1>26 DEF SrvReject
<1>27. CASE SrvDisconnect
  BY <1>27 DEF SrvDisconnect
<1>28. CASE SrvExecuteStale
  BY <1>28 DEF SrvExecuteStale
<1>29. CASE Reset
  BY <1>29 DEF Reset, LoseConnection
<1>30. CASE Close
  BY <1>30 DEF Close, LoseConnection
<1>31. CASE UNCHANGED vars
  BY <1>31 DEF vars
<1> QED
  BY <1>1, <1>2, <1>3, <1>4, <1>5, <1>6, <1>7, <1>8, <1>9, <1>9a, <1>10, <1>11, <1>12,
     <1>13, <1>14, <1>15, <1>16, <1>17, <1>18, <1>19, <1>20, <1>21, <1>22,
     <1>23, <1>24, <1>25, <1>26, <1>27, <1>28, <1>29, <1>30, <1>31
     DEF Next, CallStep, GarbledStep, HandshakeStep, UserStep, ServerStep

\* The context of a reply under way is a number.
LEMMA RepliesTyped ==
  ASSUME TypeOK
  PROVE  \A i \in DOMAIN toClient : toClient[i].ctx \in Nat
<1>1. toClient \in Seq(ReplyType)
  BY DEF TypeOK, WireTypes
<1>2. \A i \in DOMAIN toClient : toClient[i] \in ReplyType
  BY <1>1
<1> QED
  BY <1>2 DEF ReplyType

\* Steps that digest no context and deliver no reply keep the statement sequence
\* behind those of the replies.
LEMMA SequenceKept ==
  ASSUME TypeOK, TypeOK', SequenceBounds,
         core'.stmtSeq = core.stmtSeq, srv'.seq >= srv.seq,
         \A i \in DOMAIN toClient' : toClient'[i].call \in Calls =>
            \E j \in DOMAIN toClient : /\ toClient[j].call = toClient'[i].call
                                       /\ toClient[j].ctx = toClient'[i].ctx,
         \A u \in Threads : pc'[u] = "digest" => pc[u] = "digest" /\ rep'[u] = rep[u]
  PROVE  SequenceBounds'
<1>1. core.stmtSeq \in Nat /\ srv.seq \in Nat /\ srv'.seq \in Nat
  BY DEF TypeOK, CoreType, ServerTypes, SrvType
<1>2. \A i \in DOMAIN toClient : toClient[i].ctx \in Nat
  BY RepliesTyped
<1>3. \A u \in Threads : rep[u].ctx \in Nat
  BY DEF TypeOK, ThreadTypes, ReplyType
<1>4. core'.stmtSeq <= srv'.seq
  BY <1>1 DEF SequenceBounds
<1>5. ASSUME NEW i \in DOMAIN toClient', toClient'[i].call \in Calls
      PROVE  core'.stmtSeq <= toClient'[i].ctx /\ toClient'[i].ctx <= srv'.seq
  BY <1>1, <1>2, <1>5 DEF SequenceBounds
<1>6. ASSUME NEW u \in Threads, pc'[u] = "digest"
      PROVE  rep'[u].ctx <= srv'.seq /\ (Threads = {u} => core'.stmtSeq <= rep'[u].ctx)
  BY <1>1, <1>3, <1>6 DEF SequenceBounds
<1> QED
  BY <1>4, <1>5, <1>6 DEF SequenceBounds

\* The reply a thread reads while it holds the guard answers its call, and no
\* other reply is under way.
LEMMA OwnReply ==
  ASSUME TypeOK, MutexInv, CallInv, WireInv, NEW t \in Threads, HasReply(t, "read")
  PROVE  /\ Head(toClient) = toClient[1] /\ 1 \in DOMAIN toClient /\ toClient[1].call \in Calls
         /\ Tail(toClient) = <<>> /\ toClient[1] \in ReplyType
<1>1. pc[t] = "read" /\ lock = t /\ ~garbled /\ toClient # <<>> /\ callOf[t] \in Calls
  BY DEF HasReply, MutexInv, Holding, Reading, CallInv, InsideCall
<1>2. Len(toClient) = 1 /\ toClient[1].call = callOf[t]
  BY <1>1, ConstantsAssumption DEF WireInv, NothingUnderWay, RequestUnderWay, ReplyUnderWay,
     DisconnectUnderWay
<1>3. toClient \in Seq(ReplyType)
  BY DEF TypeOK, WireTypes
<1> QED
  BY <1>1, <1>2, <1>3, QueueOfOne, QueueDomain, QueueHead

\* Without the guard no reply is under way.
LEMMA NoReplyUnderWay ==
  ASSUME TypeOK, WireInv, GarbledInv, lock = NoThread
  PROVE  toClient = <<>>
BY ConstantsAssumption DEF WireInv, GarbledInv, NothingUnderWay, RequestUnderWay,
   ReplyUnderWay, DisconnectUnderWay

\* The statement sequence stays behind the server's and behind those of the
\* replies that are still to be digested.
LEMMA SequenceStep ==
  ASSUME TypeOK, TypeOK', MutexInv, CallInv, WireInv, GarbledInv, SequenceBounds, [Next]_vars,
         misread' = {}
  PROVE  SequenceBounds'
<1> USE DEF mutexVars, threadVars, wireVars, serverVars, histVars
<1>a. pc \in [Threads -> Labels] /\ rep \in [Threads -> ReplyType] /\ core \in CoreType
      /\ srv \in SrvType /\ toClient \in Seq(ReplyType)
  BY DEF TypeOK, ThreadTypes, ServerTypes, WireTypes
<1>b. core.stmtSeq \in Nat /\ srv.seq \in Nat
  BY <1>a DEF CoreType, SrvType
<1>1. ASSUME NEW t \in Threads, LockAndAugment(t) PROVE SequenceBounds'
  <2>1. core'.stmtSeq = core.stmtSeq /\ srv'.seq >= srv.seq
    BY <1>1, <1>a, <1>b DEF LockAndAugment, CoreType, SrvType
  <2>2. \A i \in DOMAIN toClient' : toClient'[i].call \in Calls =>
           \E j \in DOMAIN toClient : /\ toClient[j].call = toClient'[i].call
                                      /\ toClient[j].ctx = toClient'[i].ctx
    BY <1>1, <1>a DEF LockAndAugment
  <2>3. \A u \in Threads : pc'[u] = "digest" => pc[u] = "digest" /\ rep'[u] = rep[u]
    BY <1>1, <1>a DEF LockAndAugment
  <2> QED
    BY <2>1, <2>2, <2>3, SequenceKept
<1>2. ASSUME NEW t \in Threads, LockIsPoisoned(t) PROVE SequenceBounds'
  <2>1. core'.stmtSeq = core.stmtSeq /\ srv'.seq >= srv.seq
    BY <1>2, <1>a, <1>b DEF LockIsPoisoned, CoreType, SrvType
  <2>2. \A i \in DOMAIN toClient' : toClient'[i].call \in Calls =>
           \E j \in DOMAIN toClient : /\ toClient[j].call = toClient'[i].call
                                      /\ toClient[j].ctx = toClient'[i].ctx
    BY <1>2, <1>a DEF LockIsPoisoned
  <2>3. \A u \in Threads : pc'[u] = "digest" => pc[u] = "digest" /\ rep'[u] = rep[u]
    BY <1>2, <1>a DEF LockIsPoisoned, Return
  <2> QED
    BY <2>1, <2>2, <2>3, SequenceKept
<1>3. ASSUME NEW t \in Threads, EmitCall(t) PROVE SequenceBounds'
  <2>1. core'.stmtSeq = core.stmtSeq /\ srv'.seq >= srv.seq
    BY <1>3, <1>a, <1>b DEF EmitCall, CoreType, SrvType
  <2>2. \A i \in DOMAIN toClient' : toClient'[i].call \in Calls =>
           \E j \in DOMAIN toClient : /\ toClient[j].call = toClient'[i].call
                                      /\ toClient[j].ctx = toClient'[i].ctx
    BY <1>3, <1>a DEF EmitCall
  <2>3. \A u \in Threads : pc'[u] = "digest" => pc[u] = "digest" /\ rep'[u] = rep[u]
    BY <1>3, <1>a DEF EmitCall
  <2> QED
    BY <2>1, <2>2, <2>3, SequenceKept
<1>4. ASSUME NEW t \in Threads, ReadReply(t) PROVE SequenceBounds'
  <2>1. HasReply(t, "read") /\ rep' = [rep EXCEPT ![t] = Head(toClient)]
        /\ toClient' = Tail(toClient) /\ UNCHANGED srv /\ pc' = [pc EXCEPT ![t] = "digest"]
    BY <1>4 DEF ReadReply, TakeReply
  <2>2. DOMAIN toClient' = {} /\ rep' = [rep EXCEPT ![t] = toClient[1]]
    BY <2>1, OwnReply
  <2>3. core'.stmtSeq = core.stmtSeq
    BY <1>4, <1>a DEF ReadReply, TakeReply, CoreType
  <2>4. core.stmtSeq <= toClient[1].ctx /\ toClient[1].ctx <= srv.seq
    BY <2>1, OwnReply DEF SequenceBounds
  <2>5. \A u \in Threads \ {t} : rep'[u] = rep[u] /\ pc'[u] = pc[u]
    BY <2>1, <1>a
  <2>6. rep'[t] = toClient[1]
    BY <2>2, <1>a
  <2> QED
    BY <2>1, <2>2, <2>3, <2>4, <2>5, <2>6 DEF SequenceBounds
<1>5. ASSUME NEW t \in Threads, ReadError(t) PROVE SequenceBounds'
  <2>1. HasReply(t, "read") /\ toClient' = Tail(toClient) /\ UNCHANGED srv
        /\ core'.stmtSeq = Head(toClient).ctx /\ pc' = [pc EXCEPT ![t] = "idle"]
    BY <1>5, <1>a DEF ReadError, TakeError, Return, CoreType
  <2>2. \A u \in Threads \ {t} : rep'[u] = rep[u]
    BY <1>5, <1>a DEF ReadError, TakeError, Return
  <2>3. DOMAIN toClient' = {} /\ core'.stmtSeq = toClient[1].ctx
    BY <2>1, OwnReply
  <2>4. core'.stmtSeq <= srv.seq
    BY <2>1, <2>3, OwnReply DEF SequenceBounds
  <2>5. \A u \in Threads : pc'[u] = "digest" => u # t /\ pc[u] = "digest"
    BY <2>1, <1>a
  <2> QED
    BY <2>1, <2>2, <2>3, <2>4, <2>5 DEF SequenceBounds
<1>6. ASSUME NEW t \in Threads, ReadErrors(t) PROVE SequenceBounds'
  <2>1. HasReply(t, "read") /\ toClient' = Tail(toClient) /\ UNCHANGED srv
        /\ core'.stmtSeq = Head(toClient).ctx /\ pc' = [pc EXCEPT ![t] = "panicked"]
    BY <1>6, <1>a DEF ReadErrors, TakeErrors, CoreType
  <2>2. \A u \in Threads \ {t} : rep'[u] = rep[u]
    BY <1>6, <1>a DEF ReadErrors, TakeErrors
  <2>3. DOMAIN toClient' = {} /\ core'.stmtSeq = toClient[1].ctx
    BY <2>1, OwnReply
  <2>4. core'.stmtSeq <= srv.seq
    BY <2>1, <2>3, OwnReply DEF SequenceBounds
  <2>5. \A u \in Threads : pc'[u] = "digest" => u # t /\ pc[u] = "digest"
    BY <2>1, <1>a
  <2> QED
    BY <2>1, <2>2, <2>3, <2>4, <2>5 DEF SequenceBounds
<1>7. ASSUME NEW t \in Threads, ReadCutReply(t) PROVE SequenceBounds'
  <2>1. core'.stmtSeq = core.stmtSeq /\ srv'.seq >= srv.seq
    BY <1>7, <1>a, <1>b DEF ReadCutReply, HasReply, CoreType, SrvType
  <2>2. \A i \in DOMAIN toClient' : toClient'[i].call \in Calls =>
           \E j \in DOMAIN toClient : /\ toClient[j].call = toClient'[i].call
                                      /\ toClient[j].ctx = toClient'[i].ctx
    BY <1>7, <1>a, QueueDomain DEF ReadCutReply, HasReply
  <2>3. \A u \in Threads : pc'[u] = "digest" => pc[u] = "digest" /\ rep'[u] = rep[u]
    BY <1>7, <1>a DEF ReadCutReply, HasReply
  <2> QED
    BY <2>1, <2>2, <2>3, SequenceKept
<1>8. ASSUME NEW t \in Threads, ParseFails(t) PROVE SequenceBounds'
  <2>1. core'.stmtSeq = core.stmtSeq /\ srv'.seq >= srv.seq
    BY <1>8, <1>a, <1>b DEF ParseFails, HasReply, CoreType, SrvType
  <2>2. \A i \in DOMAIN toClient' : toClient'[i].call \in Calls =>
           \E j \in DOMAIN toClient : /\ toClient[j].call = toClient'[i].call
                                      /\ toClient[j].ctx = toClient'[i].ctx
    BY <1>8, <1>a, QueueDomain DEF ParseFails, HasReply
  <2>3. \A u \in Threads : pc'[u] = "digest" => pc[u] = "digest" /\ rep'[u] = rep[u]
    BY <1>8, <1>a DEF ParseFails, HasReply, Return
  <2> QED
    BY <2>1, <2>2, <2>3, SequenceKept
<1>9. ASSUME NEW t \in Threads, ReadGarbled(t) PROVE SequenceBounds'
  <2>1. core'.stmtSeq = core.stmtSeq /\ srv'.seq >= srv.seq
    BY <1>9, <1>a, <1>b DEF ReadGarbled, CoreType, SrvType
  <2>2. \A i \in DOMAIN toClient' : toClient'[i].call \in Calls =>
           \E j \in DOMAIN toClient : /\ toClient[j].call = toClient'[i].call
                                      /\ toClient[j].ctx = toClient'[i].ctx
    BY <1>9, <1>a DEF ReadGarbled
  <2>3. \A u \in Threads : pc'[u] = "digest" => pc[u] = "digest" /\ rep'[u] = rep[u]
    BY <1>9, <1>a DEF ReadGarbled, Return
  <2> QED
    BY <2>1, <2>2, <2>3, SequenceKept
<1>9a. ASSUME NEW t \in Threads, Misread(t) PROVE SequenceBounds'
  BY <1>9a DEF Misread
<1>10. ASSUME NEW t \in Threads, IoError(t) PROVE SequenceBounds'
  <2>1. core'.stmtSeq = core.stmtSeq /\ srv'.seq >= srv.seq
    BY <1>10, <1>a, <1>b DEF IoError, Fail, CoreType, SrvType
  <2>2. \A i \in DOMAIN toClient' : toClient'[i].call \in Calls =>
           \E j \in DOMAIN toClient : /\ toClient[j].call = toClient'[i].call
                                      /\ toClient[j].ctx = toClient'[i].ctx
    BY <1>10, <1>a DEF IoError
  <2>3. \A u \in Threads : pc'[u] = "digest" => pc[u] = "digest" /\ rep'[u] = rep[u]
    BY <1>10, <1>a DEF IoError, Fail, FailConstruction, Return
  <2> QED
    BY <2>1, <2>2, <2>3, SequenceKept
<1>11. ASSUME NEW t \in Threads, Digest(t) PROVE SequenceBounds'
  <2>1. pc[t] = "digest" /\ lock = NoThread /\ core'.stmtSeq = rep[t].ctx
        /\ pc' = [pc EXCEPT ![t] = "idle"] /\ UNCHANGED <<srv, toClient>>
    BY <1>11, <1>a DEF Digest, CanAcquire, Return, CoreType
  <2>2. \A u \in Threads \ {t} : rep'[u] = rep[u]
    BY <1>11, <1>a DEF Digest, Return
  <2>3. DOMAIN toClient' = {}
    BY <2>1, NoReplyUnderWay
  <2>4. core'.stmtSeq <= srv.seq
    BY <2>1 DEF SequenceBounds
  <2>5. \A u \in Threads : pc'[u] = "digest" => u # t /\ pc[u] = "digest"
    BY <2>1, <1>a
  <2> QED
    BY <2>1, <2>2, <2>3, <2>4, <2>5 DEF SequenceBounds
<1>12. ASSUME NEW t \in Threads, Dial(t) PROVE SequenceBounds'
  <2>1. core'.stmtSeq = core.stmtSeq /\ srv'.seq >= srv.seq
    BY <1>12, <1>a, <1>b DEF Dial, Disconnected, CoreType, SrvType
  <2>2. \A i \in DOMAIN toClient' : toClient'[i].call \in Calls =>
           \E j \in DOMAIN toClient : /\ toClient[j].call = toClient'[i].call
                                      /\ toClient[j].ctx = toClient'[i].ctx
    BY <1>12, <1>a DEF Dial
  <2>3. \A u \in Threads : pc'[u] = "digest" => pc[u] = "digest" /\ rep'[u] = rep[u]
    BY <1>12, <1>a DEF Dial
  <2> QED
    BY <2>1, <2>2, <2>3, SequenceKept
<1>13. ASSUME NEW t \in Threads, DialFails(t) PROVE SequenceBounds'
  <2>1. core'.stmtSeq = core.stmtSeq /\ srv'.seq >= srv.seq
    BY <1>13, <1>a, <1>b DEF DialFails, CoreType, SrvType
  <2>2. \A i \in DOMAIN toClient' : toClient'[i].call \in Calls =>
           \E j \in DOMAIN toClient : /\ toClient[j].call = toClient'[i].call
                                      /\ toClient[j].ctx = toClient'[i].ctx
    BY <1>13, <1>a DEF DialFails
  <2>3. \A u \in Threads : pc'[u] = "digest" => pc[u] = "digest" /\ rep'[u] = rep[u]
    BY <1>13, <1>a DEF DialFails, Fail, FailConstruction, Return
  <2> QED
    BY <2>1, <2>2, <2>3, SequenceKept
<1>14. ASSUME NEW t \in Threads, EmitAuthenticate(t) PROVE SequenceBounds'
  <2>1. core'.stmtSeq = core.stmtSeq /\ srv'.seq >= srv.seq
    BY <1>14, <1>a, <1>b DEF EmitAuthenticate, CoreType, SrvType
  <2>2. \A i \in DOMAIN toClient' : toClient'[i].call \in Calls =>
           \E j \in DOMAIN toClient : /\ toClient[j].call = toClient'[i].call
                                      /\ toClient[j].ctx = toClient'[i].ctx
    BY <1>14, <1>a DEF EmitAuthenticate
  <2>3. \A u \in Threads : pc'[u] = "digest" => pc[u] = "digest" /\ rep'[u] = rep[u]
    BY <1>14, <1>a DEF EmitAuthenticate
  <2> QED
    BY <2>1, <2>2, <2>3, SequenceKept
<1>15. ASSUME NEW t \in Threads, ReadChallenge(t) PROVE SequenceBounds'
  <2>1. core'.stmtSeq = core.stmtSeq /\ srv'.seq >= srv.seq
    BY <1>15, <1>a, <1>b DEF ReadChallenge, HasReply, CoreType, SrvType
  <2>2. \A i \in DOMAIN toClient' : toClient'[i].call \in Calls =>
           \E j \in DOMAIN toClient : /\ toClient[j].call = toClient'[i].call
                                      /\ toClient[j].ctx = toClient'[i].ctx
    BY <1>15, <1>a, QueueDomain DEF ReadChallenge, HasReply
  <2>3. \A u \in Threads : pc'[u] = "digest" => pc[u] = "digest" /\ rep'[u] = rep[u]
    BY <1>15, <1>a DEF ReadChallenge, HasReply
  <2> QED
    BY <2>1, <2>2, <2>3, SequenceKept
<1>16. ASSUME NEW t \in Threads, EmitConnect(t) PROVE SequenceBounds'
  <2>1. core'.stmtSeq = core.stmtSeq /\ srv'.seq >= srv.seq
    BY <1>16, <1>a, <1>b DEF EmitConnect, CoreType, SrvType
  <2>2. \A i \in DOMAIN toClient' : toClient'[i].call \in Calls =>
           \E j \in DOMAIN toClient : /\ toClient[j].call = toClient'[i].call
                                      /\ toClient[j].ctx = toClient'[i].ctx
    BY <1>16, <1>a DEF EmitConnect
  <2>3. \A u \in Threads : pc'[u] = "digest" => pc[u] = "digest" /\ rep'[u] = rep[u]
    BY <1>16, <1>a DEF EmitConnect
  <2> QED
    BY <2>1, <2>2, <2>3, SequenceKept
<1>17. ASSUME NEW t \in Threads, ReadSession(t) PROVE SequenceBounds'
  <2>1. core'.stmtSeq = core.stmtSeq /\ srv'.seq >= srv.seq
    BY <1>17, <1>a, <1>b DEF ReadSession, HasReply, WithSession, CoreType, SrvType
  <2>2. \A i \in DOMAIN toClient' : toClient'[i].call \in Calls =>
           \E j \in DOMAIN toClient : /\ toClient[j].call = toClient'[i].call
                                      /\ toClient[j].ctx = toClient'[i].ctx
    BY <1>17, <1>a, QueueDomain DEF ReadSession, HasReply
  <2>3. \A u \in Threads : pc'[u] = "digest" => pc[u] = "digest" /\ rep'[u] = rep[u]
    BY <1>17, <1>a DEF ReadSession, HasReply
  <2> QED
    BY <2>1, <2>2, <2>3, SequenceKept
<1>18. ASSUME NEW t \in Threads, ReadRefusal(t) PROVE SequenceBounds'
  <2>1. core'.stmtSeq = core.stmtSeq /\ srv'.seq >= srv.seq
    BY <1>18, <1>a, <1>b DEF ReadRefusal, HasReply, CoreType, SrvType
  <2>2. \A i \in DOMAIN toClient' : toClient'[i].call \in Calls =>
           \E j \in DOMAIN toClient : /\ toClient[j].call = toClient'[i].call
                                      /\ toClient[j].ctx = toClient'[i].ctx
    BY <1>18, <1>a, QueueDomain DEF ReadRefusal, HasReply
  <2>3. \A u \in Threads : pc'[u] = "digest" => pc[u] = "digest" /\ rep'[u] = rep[u]
    BY <1>18, <1>a DEF ReadRefusal, HasReply, Fail, FailConstruction, Return
  <2> QED
    BY <2>1, <2>2, <2>3, SequenceKept
<1>19. ASSUME NEW t \in Threads, SetApplication(t) PROVE SequenceBounds'
  <2>1. core'.stmtSeq = core.stmtSeq /\ srv'.seq >= srv.seq
    BY <1>19, <1>a, <1>b DEF SetApplication, CoreType, SrvType
  <2>2. \A i \in DOMAIN toClient' : toClient'[i].call \in Calls =>
           \E j \in DOMAIN toClient : /\ toClient[j].call = toClient'[i].call
                                      /\ toClient[j].ctx = toClient'[i].ctx
    BY <1>19, <1>a DEF SetApplication
  <2>3. \A u \in Threads : pc'[u] = "digest" => pc[u] = "digest" /\ rep'[u] = rep[u]
    BY <1>19, <1>a DEF SetApplication
  <2> QED
    BY <2>1, <2>2, <2>3, SequenceKept
<1>20. ASSUME NEW t \in Threads, PopWarnings(t) PROVE SequenceBounds'
  <2>1. core'.stmtSeq = core.stmtSeq /\ srv'.seq >= srv.seq
    BY <1>20, <1>a, <1>b DEF PopWarnings, CoreType, SrvType
  <2>2. \A i \in DOMAIN toClient' : toClient'[i].call \in Calls =>
           \E j \in DOMAIN toClient : /\ toClient[j].call = toClient'[i].call
                                      /\ toClient[j].ctx = toClient'[i].ctx
    BY <1>20, <1>a DEF PopWarnings
  <2>3. \A u \in Threads : pc'[u] = "digest" => pc[u] = "digest" /\ rep'[u] = rep[u]
    BY <1>20, <1>a DEF PopWarnings
  <2> QED
    BY <2>1, <2>2, <2>3, SequenceKept
<1>21. ASSUME NEW t \in Threads, DropClone(t) PROVE SequenceBounds'
  <2>1. core'.stmtSeq = core.stmtSeq /\ srv'.seq >= srv.seq
    BY <1>21, <1>a, <1>b DEF DropClone, CoreType, SrvType
  <2>2. \A i \in DOMAIN toClient' : toClient'[i].call \in Calls =>
           \E j \in DOMAIN toClient : /\ toClient[j].call = toClient'[i].call
                                      /\ toClient[j].ctx = toClient'[i].ctx
    BY <1>21, <1>a DEF DropClone
  <2>3. \A u \in Threads : pc'[u] = "digest" => pc[u] = "digest" /\ rep'[u] = rep[u]
    BY <1>21, <1>a DEF DropClone
  <2> QED
    BY <2>1, <2>2, <2>3, SequenceKept
<1>22. ASSUME NEW t \in Threads, NEW c \in Calls, StartCall(t, c) PROVE SequenceBounds'
  <2>1. core'.stmtSeq = core.stmtSeq /\ srv'.seq >= srv.seq
    BY <1>22, <1>a, <1>b DEF StartCall, CoreType, SrvType
  <2>2. \A i \in DOMAIN toClient' : toClient'[i].call \in Calls =>
           \E j \in DOMAIN toClient : /\ toClient[j].call = toClient'[i].call
                                      /\ toClient[j].ctx = toClient'[i].ctx
    BY <1>22, <1>a DEF StartCall
  <2>3. \A u \in Threads : pc'[u] = "digest" => pc[u] = "digest" /\ rep'[u] = rep[u]
    BY <1>22, <1>a DEF StartCall
  <2> QED
    BY <2>1, <2>2, <2>3, SequenceKept
<1>23. CASE SrvAuthenticate
  <2>1. core'.stmtSeq = core.stmtSeq /\ srv'.seq >= srv.seq
    BY <1>23, <1>a, <1>b DEF SrvAuthenticate, CoreType, SrvType
  <2>2. \A i \in DOMAIN toClient' : toClient'[i].call \in Calls =>
           \E j \in DOMAIN toClient : /\ toClient[j].call = toClient'[i].call
                                      /\ toClient[j].ctx = toClient'[i].ctx
    <3>1. CASE Answer(Reply("challenge", 0, NoCall, 0))
      <4>1. Reply("challenge", 0, NoCall, 0).call = NoCall
        BY DEF Reply
      <4> QED
        BY <3>1, <4>1, Answered, ConstantsAssumption
    <3>2. CASE Answer(Reply("error", 0, NoCall, 0))
      <4>1. Reply("error", 0, NoCall, 0).call = NoCall
        BY DEF Reply
      <4> QED
        BY <3>2, <4>1, Answered, ConstantsAssumption
    <3> QED
      BY <1>23, <3>1, <3>2 DEF SrvAuthenticate
  <2>3. \A u \in Threads : pc'[u] = "digest" => pc[u] = "digest" /\ rep'[u] = rep[u]
    BY <1>23, <1>a DEF SrvAuthenticate
  <2> QED
    BY <2>1, <2>2, <2>3, SequenceKept
<1>24. CASE SrvConnect
  <2>1. core'.stmtSeq = core.stmtSeq /\ srv'.seq >= srv.seq
    <3>1. core' = core
      BY <1>24 DEF SrvConnect
    <3>2. \/ UNCHANGED srv
          \/ srv' = [srv EXCEPT !.phase = "session", !.sid = @ + 1]
      BY <1>24 DEF SrvConnect
    <3>3. srv'.seq = srv.seq
      BY <1>a, <3>2 DEF SrvType
    <3> QED
      BY <1>b, <3>1, <3>3
  <2>2. \A i \in DOMAIN toClient' : toClient'[i].call \in Calls =>
           \E j \in DOMAIN toClient : /\ toClient[j].call = toClient'[i].call
                                      /\ toClient[j].ctx = toClient'[i].ctx
    <3>1. CASE Answer(Reply("session", srv.sid + 1, NoCall, 0))
      <4>1. Reply("session", srv.sid + 1, NoCall, 0).call = NoCall
        BY DEF Reply
      <4> QED
        BY <3>1, <4>1, Answered, ConstantsAssumption
    <3>2. CASE Answer(Reply("error", 0, NoCall, 0))
      <4>1. Reply("error", 0, NoCall, 0).call = NoCall
        BY DEF Reply
      <4> QED
        BY <3>2, <4>1, Answered, ConstantsAssumption
    <3> QED
      BY <1>24, <3>1, <3>2 DEF SrvConnect
  <2>3. \A u \in Threads : pc'[u] = "digest" => pc[u] = "digest" /\ rep'[u] = rep[u]
    BY <1>24, <1>a DEF SrvConnect
  <2> QED
    BY <2>1, <2>2, <2>3, SequenceKept
<1>25. CASE SrvExecute
  <2>1. PICK kind \in ReplyKinds : Answer(Reply(kind, srv.sid, Head(toServer).call, srv.seq + 1))
    BY <1>25 DEF SrvExecute
  <2>2. core' = core /\ srv'.seq = srv.seq + 1 /\ UNCHANGED <<pc, rep>>
    BY <1>25, <1>a DEF SrvExecute, SrvType
  <2>3. Reply(kind, srv.sid, Head(toServer).call, srv.seq + 1).ctx = srv.seq + 1
    BY DEF Reply
  <2>4. \A i \in DOMAIN toClient' :
           \/ toClient'[i].ctx = srv.seq + 1
           \/ i \in DOMAIN toClient /\ toClient'[i] = toClient[i]
    BY <2>1, <2>3, Answered
  <2>5. \A i \in DOMAIN toClient' : toClient'[i].call \in Calls =>
           core.stmtSeq <= toClient'[i].ctx /\ toClient'[i].ctx <= srv.seq + 1
    <3>1. \A i \in DOMAIN toClient : toClient[i].ctx \in Nat
      BY RepliesTyped
    <3> QED
      BY <1>b, <2>4, <3>1 DEF SequenceBounds
  <2>6. \A u \in Threads : rep[u].ctx \in Nat
    BY <1>a DEF ReplyType
  <2> QED
    BY <1>b, <2>2, <2>5, <2>6 DEF SequenceBounds
<1>26. CASE SrvReject
  <2>1. UNCHANGED <<core, srv, pc, rep>>
    BY <1>26 DEF SrvReject
  <2>2. CASE toClient' = toClient
    BY <2>1, <2>2 DEF SequenceBounds
  <2>3. CASE Answer(Reply("error", 0, Head(toServer).call, srv.seq))
    <3>1. Reply("error", 0, Head(toServer).call, srv.seq).ctx = srv.seq
      BY DEF Reply
    <3>2. \A i \in DOMAIN toClient' :
             \/ toClient'[i].ctx = srv.seq
             \/ i \in DOMAIN toClient /\ toClient'[i] = toClient[i]
      BY <2>3, <3>1, Answered
    <3> QED
      BY <1>b, <2>1, <3>2 DEF SequenceBounds
  <2> QED
    BY <1>26, <2>2, <2>3 DEF SrvReject
<1>27. CASE SrvDisconnect
  <2>1. core'.stmtSeq = core.stmtSeq /\ srv'.seq >= srv.seq
    BY <1>27, <1>a, <1>b DEF SrvDisconnect, CoreType, SrvType
  <2>2. \A i \in DOMAIN toClient' : toClient'[i].call \in Calls =>
           \E j \in DOMAIN toClient : /\ toClient[j].call = toClient'[i].call
                                      /\ toClient[j].ctx = toClient'[i].ctx
    BY <1>27, <1>a DEF SrvDisconnect
  <2>3. \A u \in Threads : pc'[u] = "digest" => pc[u] = "digest" /\ rep'[u] = rep[u]
    BY <1>27, <1>a DEF SrvDisconnect
  <2> QED
    BY <2>1, <2>2, <2>3, SequenceKept
<1>28. CASE SrvExecuteStale
  <2>1. core'.stmtSeq = core.stmtSeq /\ srv'.seq >= srv.seq
    BY <1>28, <1>a, <1>b DEF SrvExecuteStale, CoreType, SrvType
  <2>2. \A i \in DOMAIN toClient' : toClient'[i].call \in Calls =>
           \E j \in DOMAIN toClient : /\ toClient[j].call = toClient'[i].call
                                      /\ toClient[j].ctx = toClient'[i].ctx
    BY <1>28, <1>a DEF SrvExecuteStale
  <2>3. \A u \in Threads : pc'[u] = "digest" => pc[u] = "digest" /\ rep'[u] = rep[u]
    BY <1>28, <1>a DEF SrvExecuteStale
  <2> QED
    BY <2>1, <2>2, <2>3, SequenceKept
<1>29. CASE Reset
  <2>1. core'.stmtSeq = core.stmtSeq /\ srv'.seq >= srv.seq
    BY <1>29, <1>a, <1>b DEF Reset, LoseConnection, CoreType, SrvType
  <2>2. \A i \in DOMAIN toClient' : toClient'[i].call \in Calls =>
           \E j \in DOMAIN toClient : /\ toClient[j].call = toClient'[i].call
                                      /\ toClient[j].ctx = toClient'[i].ctx
    <3>1. toClient' \in {<<>>, Cut(toClient), toClient}
      BY <1>29 DEF Reset, LoseConnection
    <3> QED
      BY <3>1, RepliesLost
  <2>3. \A u \in Threads : pc'[u] = "digest" => pc[u] = "digest" /\ rep'[u] = rep[u]
    BY <1>29, <1>a DEF Reset, LoseConnection
  <2> QED
    BY <2>1, <2>2, <2>3, SequenceKept
<1>30. CASE Close
  <2>1. core'.stmtSeq = core.stmtSeq /\ srv'.seq >= srv.seq
    BY <1>30, <1>a, <1>b DEF Close, LoseConnection, CoreType, SrvType
  <2>2. \A i \in DOMAIN toClient' : toClient'[i].call \in Calls =>
           \E j \in DOMAIN toClient : /\ toClient[j].call = toClient'[i].call
                                      /\ toClient[j].ctx = toClient'[i].ctx
    <3>1. toClient' \in {<<>>, Cut(toClient), toClient}
      BY <1>30 DEF Close, LoseConnection
    <3> QED
      BY <3>1, RepliesLost
  <2>3. \A u \in Threads : pc'[u] = "digest" => pc[u] = "digest" /\ rep'[u] = rep[u]
    BY <1>30, <1>a DEF Close, LoseConnection
  <2> QED
    BY <2>1, <2>2, <2>3, SequenceKept
<1>31. CASE UNCHANGED vars
  BY <1>31, SequenceKept, <1>b DEF vars
<1> QED
  BY <1>1, <1>2, <1>3, <1>4, <1>5, <1>6, <1>7, <1>8, <1>9, <1>9a, <1>10, <1>11, <1>12,
     <1>13, <1>14, <1>15, <1>16, <1>17, <1>18, <1>19, <1>20, <1>21, <1>22,
     <1>23, <1>24, <1>25, <1>26, <1>27, <1>28, <1>29, <1>30, <1>31
     DEF Next, CallStep, GarbledStep, HandshakeStep, UserStep, ServerStep

\* Nothing was executed yet.
LEMMA SequenceInit == Init => SequenceInv
BY DEF Init, SequenceInv, SequenceBounds

\* As long as nothing was misread the statement sequence stays behind.
LEMMA SequenceInvStep ==
  ASSUME IInv, IInv', SessionInv, SequenceInv, [Next]_vars
  PROVE  SequenceInv'
<1> SUFFICES ASSUME misread' = {} PROVE SequenceBounds'
  BY DEF SequenceInv
<1>1. misread = {}
  BY GarbageChanges DEF ParseFails, Dial, Misread, histVars
<1> QED
  BY <1>1, SequenceStep DEF IInv, SessionInv, SequenceInv

\* SequenceInv holds of the connection in every state.
LEMMA SequenceBounded == Spec => []SequenceInv
<1>1. IInv /\ IInv' /\ SessionInv /\ SequenceInv /\ [Next]_vars => SequenceInv'
  BY SequenceInvStep
<1> QED
  BY SequenceInit, <1>1, Invariance, SessionKept, PTL DEF Spec

\* A step that takes the statement sequence back is a late digestion of one of
\* several threads.
LEMMA SequenceGrowsStep ==
  ASSUME IInv, SequenceInv, [Next]_vars, core'.stmtSeq < core.stmtSeq, misread' = {}
  PROVE  \E t \in Threads : /\ Threads # {t}
                            /\ pc[t] = "digest" /\ pc'[t] = "idle"
                            /\ core'.stmtSeq = rep[t].ctx
<1>a. pc \in [Threads -> Labels] /\ rep \in [Threads -> ReplyType] /\ core \in CoreType
  BY DEF IInv, TypeOK, ThreadTypes
<1>b. core.stmtSeq \in Nat
  BY <1>a DEF CoreType
<1>c. SequenceBounds
  <2>1. misread = {}
    BY GarbageChanges DEF ParseFails, Dial, Misread, histVars
  <2> QED
    BY <2>1 DEF SequenceInv
<1>1. PICK t \in Threads : ReadError(t) \/ ReadErrors(t) \/ Digest(t)
  BY <1>b, SequenceChanges DEF IInv
<1>2. CASE ReadError(t) \/ ReadErrors(t)
  <2>1. HasReply(t, "read") /\ core'.stmtSeq = Head(toClient).ctx
    BY <1>2, <1>a DEF ReadError, TakeError, ReadErrors, TakeErrors, CoreType
  <2>2. core.stmtSeq <= core'.stmtSeq /\ core'.stmtSeq \in Nat
    BY <1>c, <2>1, OwnReply DEF IInv, SequenceBounds, ReplyType
  <2> QED
    BY <1>b, <2>2
<1>3. CASE Digest(t)
  <2>1. pc[t] = "digest" /\ pc'[t] = "idle" /\ core'.stmtSeq = rep[t].ctx
    BY <1>3, <1>a DEF Digest, Return, CoreType
  <2>2. rep[t].ctx \in Nat
    BY <1>a DEF ReplyType
  <2>3. Threads # {t}
    BY <1>b, <1>c, <2>1, <2>2 DEF SequenceBounds
  <2> QED
    BY <2>1, <2>3
<1> QED
  BY <1>1, <1>2, <1>3

\* evaluate_statement_context takes the statement sequence back only where several
\* threads digest their replies in another order than they received them.
THEOREM SequenceGrows == Spec => StatementSequenceGrows
<1>1. IInv /\ SequenceInv /\ [Next]_vars
      => [core'.stmtSeq < core.stmtSeq /\ misread' = {}
          => \E t \in Threads : /\ Threads # {t}
                                /\ pc[t] = "digest" /\ pc'[t] = "idle"
                                /\ core'.stmtSeq = rep[t].ctx]_vars
  BY SequenceGrowsStep
<1> QED
  BY <1>1, Invariance, SequenceBounded, PTL DEF Spec, StatementSequenceGrows

=============================================================================
