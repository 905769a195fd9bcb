---------------------------- MODULE SessionProofs ----------------------------
(***************************************************************************)
(* What a program is told of its transactions is true.  A call is a        *)
(* sequence of steps of the database: a session is lost, a session takes   *)
(* its place, a request is executed and its answer is lost, a request is   *)
(* answered.  The invariant is stated for a connection that may be in the  *)
(* middle of a call, and each of these steps preserves it.                 *)
(* And what is written to a URL is read from it.                           *)
(***************************************************************************)
EXTENDS Session, SequenceTheorems, TextProofs

-----------------------------------------------------------------------------
(* What requests do to the database, and what they leave alone.  Nothing   *)
(* here is about the program: the lemmas are about values of db.           *)

States == {"none", "active", "suspended", "idle", "failed", "prepared"}

IsSeq(p) == p \in Seq({p[i] : i \in DOMAIN p})

DbTypes(d) ==
  /\ DOMAIN d = {"sessions", "durable", "vanished", "branches"}
  /\ IsSeq(d.sessions)
  /\ \A s \in DOMAIN d.sessions :
       /\ DOMAIN d.sessions[s] = {"open", "changes", "branch", "options", "replaces"}
       /\ d.sessions[s].open \in BOOLEAN
       /\ d.sessions[s].changes \subseteq Changes
       /\ d.sessions[s].branch \in Xids \cup {NoXid}
  /\ d.durable \subseteq Changes /\ d.vanished \subseteq Changes
  /\ d.branches \in [Xids -> [state : States, changes : SUBSET Changes, session : Nat]]

\* A branch is active in one session at most; what has ended has nothing.
BranchesInv(d) ==
  /\ \A s \in DOMAIN d.sessions :
       /\ ~d.sessions[s].open => d.sessions[s].changes = {} /\ d.sessions[s].branch = NoXid
       /\ \A x \in Xids : d.sessions[s].branch = x =>
            d.branches[x].state = "active" /\ d.branches[x].session = s
  /\ \A x \in Xids : d.branches[x].state = "none" => d.branches[x].changes = {}

\* A row is in one place at most.
RowsApart(d) ==
  /\ d.durable \cap d.vanished = {}
  /\ \A s \in DOMAIN d.sessions :
       /\ d.sessions[s].changes \cap (d.durable \cup d.vanished) = {}
       /\ \A q \in DOMAIN d.sessions : q # s => d.sessions[s].changes \cap d.sessions[q].changes = {}
       /\ \A x \in Xids : d.sessions[s].changes \cap d.branches[x].changes = {}
  /\ \A x \in Xids :
       /\ d.branches[x].changes \cap (d.durable \cup d.vanished) = {}
       /\ \A y \in Xids : y # x => d.branches[x].changes \cap d.branches[y].changes = {}

DbInv(d) == DbTypes(d) /\ BranchesInv(d) /\ RowsApart(d)

\* A row that is not, or not only, in branch x.
IsElsewhere(d, x, row) ==
  \/ row \in d.durable
  \/ \E s \in DOMAIN d.sessions : row \in d.sessions[s].changes
  \/ \E y \in Xids \ {x} : row \in d.branches[y].changes

\* A set with one element.
One(x) == {x}

\* From d to e only session s has worked, on the rows R and the branches X.
Leaves(d, e, s, R, X) ==
  /\ DOMAIN d.sessions \subseteq DOMAIN e.sessions
  /\ \A q \in DOMAIN e.sessions : q \in DOMAIN d.sessions \/ q = s
  /\ \A q \in DOMAIN d.sessions : q # s => e.sessions[q] = d.sessions[q]
  /\ \A q \in DOMAIN d.sessions :
       /\ e.sessions[q].options = d.sessions[q].options
       /\ e.sessions[q].replaces = d.sessions[q].replaces
  /\ d.durable \subseteq e.durable /\ d.vanished \ R \subseteq e.vanished
  /\ \A row : IsThere(e, row) => row \in R \/ IsThere(d, row)
  /\ \A x \in Xids \ X :
       /\ \A row : IsElsewhere(e, x, row) => row \in R \/ IsElsewhere(d, x, row)
       /\ \/ e.branches[x] = d.branches[x]
          \/ /\ e.branches[x] = NoBranch
             /\ d.branches[x].session = s /\ d.branches[x].state # "prepared"

-----------------------------------------------------------------------------
\* Steps that leave alone the same things do so together.
LEMMA LeavesTransitive ==
  ASSUME NEW c, NEW d, NEW e, NEW s, NEW R, NEW X, Leaves(c, d, s, R, X), Leaves(d, e, s, R, X)
  PROVE  Leaves(c, e, s, R, X)
BY DEF Leaves, NoBranch

\* More may be left alone than is said.
LEMMA LeavesMore ==
  ASSUME NEW d, NEW e, NEW s, NEW R, NEW X, NEW Q, NEW Y, Leaves(d, e, s, R, X),
         R \subseteq Q, X \subseteq Y
  PROVE  Leaves(d, e, s, Q, Y)
BY DEF Leaves

\* A function on 1..n is a sequence of length n.
LEMMA FunctionIsSeq ==
  ASSUME NEW n, NEW T, NEW p, n \in Nat, p \in [1..n -> T]
  PROVE  p \in Seq(T) /\ Len(p) = n
<1>1. p \in Seq(T)
  OBVIOUS
<1> QED BY <1>1, LenProperties

\* What is a sequence stays one when an element changes.
LEMMA ExceptIsSeq ==
  ASSUME NEW q, NEW s, NEW v, NEW p, IsSeq(q), s \in DOMAIN q, p = [q EXCEPT ![s] = v]
  PROVE  IsSeq(p) /\ Len(p) = Len(q)
<1> DEFINE T == {p[i] : i \in DOMAIN p}
<1>1. Len(q) \in Nat /\ DOMAIN q = 1..Len(q)
  BY DEF IsSeq
<1>2. DOMAIN p = DOMAIN q
  OBVIOUS
<1>3. p = [i \in DOMAIN p |-> p[i]]
  OBVIOUS
<1>4. \A i \in DOMAIN p : p[i] \in T
  OBVIOUS
<1> HIDE DEF T
<1>5. p \in [1..Len(q) -> T]
  BY <1>1, <1>2, <1>3, <1>4
<1>6. p \in Seq(T) /\ Len(p) = Len(q)
  BY <1>1, <1>5, FunctionIsSeq
<1> QED BY <1>6 DEF IsSeq, T

\* A session that ends, field by field.
HasEnded(d, e, s) ==
  /\ DOMAIN e = {"sessions", "durable", "vanished", "branches"}
  /\ e.durable = d.durable /\ e.vanished = d.vanished \cup d.sessions[s].changes
  /\ IsSeq(e.sessions)
  /\ Len(e.sessions) = Len(d.sessions)
  /\ DOMAIN e.sessions = DOMAIN d.sessions
  /\ \A q \in DOMAIN d.sessions \ {s} : e.sessions[q] = d.sessions[q]
  /\ DOMAIN e.sessions[s] = {"open", "changes", "branch", "options", "replaces"}
  /\ e.sessions[s].open = FALSE
  /\ e.sessions[s].changes = {} /\ e.sessions[s].branch = NoXid
  /\ e.sessions[s].options = d.sessions[s].options
  /\ e.sessions[s].replaces = d.sessions[s].replaces
  /\ e.branches = [x \in Xids |-> IF d.branches[x].session = s /\ d.branches[x].state # "prepared"
                                   THEN NoBranch ELSE d.branches[x]]

\* Ended is what HasEnded says.
LEMMA EndedIs ==
  ASSUME NEW d, NEW s, DbTypes(d), s \in DOMAIN d.sessions
  PROVE  HasEnded(d, Ended(d, s), s)
<1> DEFINE e == Ended(d, s)
<1>1. /\ DOMAIN e = {"sessions", "durable", "vanished", "branches"}
      /\ e.durable = d.durable /\ e.vanished = d.vanished \cup d.sessions[s].changes
  BY DEF Ended, DbTypes
<1>2. /\ DOMAIN e.sessions = DOMAIN d.sessions
      /\ \A q \in DOMAIN d.sessions \ {s} : e.sessions[q] = d.sessions[q]
  BY DEF Ended, DbTypes
<1>3. /\ DOMAIN e.sessions[s] = {"open", "changes", "branch", "options", "replaces"}
      /\ e.sessions[s].open = FALSE
      /\ e.sessions[s].changes = {} /\ e.sessions[s].branch = NoXid
      /\ e.sessions[s].options = d.sessions[s].options
      /\ e.sessions[s].replaces = d.sessions[s].replaces
  BY DEF Ended, DbTypes
<1>4. e.branches = [x \in Xids |-> IF d.branches[x].session = s /\ d.branches[x].state # "prepared"
                                   THEN NoBranch ELSE d.branches[x]]
  BY DEF Ended, DbTypes
<1>5. /\ IsSeq(e.sessions)
      /\ Len(e.sessions) = Len(d.sessions)
  <2> DEFINE v == [d.sessions[s] EXCEPT !.open = FALSE, !.changes = {}, !.branch = NoXid]
             p == [d.sessions EXCEPT ![s] = v]
  <2>1. e.sessions = p
    BY DEF Ended, DbTypes
  <2>2. IsSeq(d.sessions)
    BY DEF DbTypes
  <2>3. IsSeq(p) /\ Len(p) = Len(d.sessions)
    <3> HIDE DEF v
    <3>1. p = [d.sessions EXCEPT ![s] = v]
      OBVIOUS
    <3> HIDE DEF p
    <3> QED BY <2>2, <3>1, ExceptIsSeq
  <2> HIDE DEF p, e
  <2> QED BY <2>1, <2>3
<1> HIDE DEF e
<1>6. HasEnded(d, e, s)
  BY <1>1, <1>2, <1>3, <1>4, <1>5 DEF HasEnded
<1> QED BY <1>6 DEF e

\* A session that ends takes only its own with it.
LEMMA EndedStep ==
  ASSUME NEW d, NEW s, NEW e, DbInv(d), s \in DOMAIN d.sessions, HasEnded(d, e, s)
  PROVE  DbInv(e) /\ Leaves(d, e, s, {}, {})
<1>1. DbTypes(d) /\ BranchesInv(d) /\ RowsApart(d)
  BY DEF DbInv
<1>2. /\ DOMAIN e = {"sessions", "durable", "vanished", "branches"}
      /\ e.durable = d.durable /\ e.vanished = d.vanished \cup d.sessions[s].changes
      /\ IsSeq(e.sessions)
      /\ DOMAIN e.sessions = DOMAIN d.sessions
      /\ \A q \in DOMAIN d.sessions \ {s} : e.sessions[q] = d.sessions[q]
  BY DEF HasEnded
<1>3. /\ DOMAIN e.sessions[s] = {"open", "changes", "branch", "options", "replaces"}
      /\ e.sessions[s].open = FALSE
      /\ e.sessions[s].changes = {} /\ e.sessions[s].branch = NoXid
      /\ e.sessions[s].options = d.sessions[s].options
      /\ e.sessions[s].replaces = d.sessions[s].replaces
  BY DEF HasEnded
<1>4. e.branches = [x \in Xids |-> IF d.branches[x].session = s /\ d.branches[x].state # "prepared"
                                   THEN NoBranch ELSE d.branches[x]]
  BY DEF HasEnded
<1>5. /\ NoBranch \in [state : States, changes : SUBSET Changes, session : Nat]
      /\ NoBranch.state = "none" /\ NoBranch.changes = {}
  BY DEF NoBranch, States
<1>6. DbTypes(e)
  <2>1. d.branches \in [Xids -> [state : States, changes : SUBSET Changes, session : Nat]]
    BY <1>1 DEF DbTypes
  <2>2. e.branches \in [Xids -> [state : States, changes : SUBSET Changes, session : Nat]]
    BY <1>4, <1>5, <2>1
  <2>3. \A q \in DOMAIN e.sessions :
       /\ DOMAIN e.sessions[q] = {"open", "changes", "branch", "options", "replaces"}
       /\ e.sessions[q].open \in BOOLEAN
       /\ e.sessions[q].changes \subseteq Changes
       /\ e.sessions[q].branch \in Xids \cup {NoXid}
    BY <1>1, <1>2, <1>3 DEF DbTypes
  <2>4. e.durable \subseteq Changes /\ e.vanished \subseteq Changes
    BY <1>1, <1>2 DEF DbTypes
  <2> QED BY <1>2, <2>2, <2>3, <2>4 DEF DbTypes
<1>7. \A x \in Xids :
         /\ e.branches[x].changes \subseteq d.branches[x].changes
         /\ \/ e.branches[x] = d.branches[x]
            \/ /\ e.branches[x] = NoBranch /\ d.branches[x].session = s
               /\ d.branches[x].state # "prepared"
  BY <1>4, <1>5
<1>8. BranchesInv(e)
  <2>1. \A q \in DOMAIN e.sessions :
          ~e.sessions[q].open => e.sessions[q].changes = {} /\ e.sessions[q].branch = NoXid
    BY <1>1, <1>2, <1>3 DEF BranchesInv
  <2>2. \A q \in DOMAIN e.sessions, x \in Xids : e.sessions[q].branch = x =>
            e.branches[x].state = "active" /\ e.branches[x].session = q
    BY <1>1, <1>2, <1>3, <1>7, SessionAssumption DEF BranchesInv
  <2>3. \A x \in Xids : e.branches[x].state = "none" => e.branches[x].changes = {}
    BY <1>1, <1>5, <1>7 DEF BranchesInv
  <2> QED BY <2>1, <2>2, <2>3 DEF BranchesInv
<1>9. RowsApart(e)
  <2>1. e.durable \cap e.vanished = {}
    BY <1>1, <1>2 DEF RowsApart
  <2>2. \A q \in DOMAIN e.sessions : e.sessions[q].changes \cap (e.durable \cup e.vanished) = {}
    BY <1>1, <1>2, <1>3 DEF RowsApart
  <2>3. \A q, p \in DOMAIN e.sessions : q # p => e.sessions[p].changes \cap e.sessions[q].changes = {}
    BY <1>1, <1>2, <1>3 DEF RowsApart
  <2>4. \A q \in DOMAIN e.sessions, x \in Xids : e.sessions[q].changes \cap e.branches[x].changes = {}
    BY <1>1, <1>2, <1>3, <1>7 DEF RowsApart
  <2>5. \A x \in Xids : e.branches[x].changes \cap (e.durable \cup e.vanished) = {}
    BY <1>1, <1>2, <1>3, <1>7 DEF RowsApart
  <2>6. \A x, y \in Xids : y # x => e.branches[x].changes \cap e.branches[y].changes = {}
    BY <1>1, <1>7 DEF RowsApart
  <2> QED BY <2>1, <2>2, <2>3, <2>4, <2>5, <2>6 DEF RowsApart
<1>10. Leaves(d, e, s, {}, {})
  <2>1. \A row : IsThere(e, row) => IsThere(d, row)
    BY <1>2, <1>3, <1>7 DEF IsThere
  <2>2. \A x \in Xids : \A row : IsElsewhere(e, x, row) => IsElsewhere(d, x, row)
    BY <1>2, <1>3, <1>7 DEF IsElsewhere
  <2> QED BY <1>2, <1>3, <1>7, <2>1, <2>2 DEF Leaves
<1> QED BY <1>6, <1>8, <1>9, <1>10 DEF DbInv

-----------------------------------------------------------------------------
\* From d to e, of the sessions only s has changed, in its rows and its branch.
Works(d, e, s) ==
  /\ DOMAIN e = {"sessions", "durable", "vanished", "branches"}
  /\ IsSeq(e.sessions)
  /\ Len(e.sessions) = Len(d.sessions)
  /\ DOMAIN e.sessions = DOMAIN d.sessions
  /\ \A q \in DOMAIN d.sessions \ {s} : e.sessions[q] = d.sessions[q]
  /\ DOMAIN e.sessions[s] = {"open", "changes", "branch", "options", "replaces"}
  /\ e.sessions[s].open = d.sessions[s].open
  /\ e.sessions[s].options = d.sessions[s].options
  /\ e.sessions[s].replaces = d.sessions[s].replaces

\* A row is durable, or in session s or a branch of X.
Has(d, s, X, row) ==
  \/ row \in d.durable
  \/ row \in d.sessions[s].changes
  \/ \E x \in X : row \in d.branches[x].changes

\* The rows may only move between the session, the branches X (one at most)
\* and what is durable; the rows R are new.
Moves(d, e, s, R, X) ==
  /\ \A row \in R : ~IsThere(d, row)
  /\ R \cap e.vanished = {}
  /\ e.vanished \subseteq d.vanished /\ d.vanished \ R \subseteq e.vanished
  /\ d.durable \subseteq e.durable
  /\ \A x \in X : x \in Xids /\ X = {x}
  /\ \A row : Has(e, s, X, row) => row \in R \/ Has(d, s, X, row)
  /\ e.durable \cap e.sessions[s].changes = {}
  /\ \A x \in X : e.branches[x].changes \cap (e.durable \cup e.sessions[s].changes) = {}

\* The branches X are at the disposal of session s.
Handles(d, e, s, X) ==
  /\ \A y \in Xids \ X : e.branches[y] = d.branches[y]
  /\ \A y \in Xids : e.sessions[s].branch = y =>
       e.branches[y].state = "active" /\ e.branches[y].session = s
  /\ \A x \in X :
       /\ e.branches[x].state = "none" => e.branches[x].changes = {}
       /\ d.branches[x].state = "active" => d.branches[x].session = s

\* A session that moves rows as Moves allows, and handles only the branches that
\* it may, keeps the database in order.
LEMMA WorkStep ==
  ASSUME NEW d, NEW s, NEW e, NEW R, NEW X, DbInv(d), s \in DOMAIN d.sessions,
         d.sessions[s].open, Works(d, e, s), Moves(d, e, s, R, X), Handles(d, e, s, X),
         e.durable \subseteq Changes, e.sessions[s].changes \subseteq Changes,
         e.sessions[s].branch \in Xids \cup {NoXid},
         e.branches \in [Xids -> [state : States, changes : SUBSET Changes, session : Nat]]
  PROVE  DbInv(e) /\ Leaves(d, e, s, R, X)
<1>1. DbTypes(d) /\ BranchesInv(d) /\ RowsApart(d)
  BY DEF DbInv
<1>2. DbTypes(e)
  <2>1. e.vanished \subseteq Changes
    BY <1>1 DEF Moves, DbTypes
  <2>2. \A q \in DOMAIN e.sessions :
       /\ DOMAIN e.sessions[q] = {"open", "changes", "branch", "options", "replaces"}
       /\ e.sessions[q].open \in BOOLEAN
       /\ e.sessions[q].changes \subseteq Changes
       /\ e.sessions[q].branch \in Xids \cup {NoXid}
    BY <1>1 DEF DbTypes, Works
  <2> QED BY <2>1, <2>2 DEF DbTypes, Works
<1>3. BranchesInv(e)
  <2>1. \A q \in DOMAIN e.sessions :
          ~e.sessions[q].open => e.sessions[q].changes = {} /\ e.sessions[q].branch = NoXid
    BY <1>1, ZenonT(60) DEF BranchesInv, Works
  <2>2. \A q \in DOMAIN e.sessions, x \in Xids : e.sessions[q].branch = x =>
            e.branches[x].state = "active" /\ e.branches[x].session = q
    <3>1. SUFFICES ASSUME NEW q \in DOMAIN e.sessions, NEW x \in Xids, e.sessions[q].branch = x
                   PROVE  e.branches[x].state = "active" /\ e.branches[x].session = q
      OBVIOUS
    <3>2. CASE q = s
      BY <3>1, <3>2 DEF Handles
    <3>3. CASE q # s
      <4>1. d.branches[x].state = "active" /\ d.branches[x].session = q
        <5>1. q \in DOMAIN d.sessions /\ d.sessions[q].branch = x
          BY <3>1, <3>3 DEF Works
        <5> QED BY <1>1, <5>1 DEF BranchesInv
      <4>2. x \notin X
        BY <4>1, <3>3 DEF Handles
      <4> QED BY <4>1, <4>2 DEF Handles
    <3> QED BY <3>2, <3>3
  <2>3. \A x \in Xids : e.branches[x].state = "none" => e.branches[x].changes = {}
    <3>1. SUFFICES ASSUME NEW x \in Xids, e.branches[x].state = "none"
                   PROVE  e.branches[x].changes = {}
      OBVIOUS
    <3>2. CASE x \in X
      BY <3>1, <3>2 DEF Handles
    <3>3. CASE x \notin X
      <4>1. e.branches[x] = d.branches[x]
        BY <3>3 DEF Handles
      <4> QED BY <1>1, <3>1, <4>1 DEF BranchesInv
    <3> QED BY <3>2, <3>3
  <2> QED BY <2>1, <2>2, <2>3 DEF BranchesInv
<1>4. ASSUME NEW row, Has(e, s, X, row)
      PROVE  /\ \A q \in DOMAIN e.sessions \ {s} : row \notin e.sessions[q].changes
             /\ \A x \in Xids \ X : row \notin e.branches[x].changes
             /\ row \notin e.vanished
  <2>1. X \subseteq Xids
    BY DEF Moves
  <2>2. CASE row \in R
    <3>1. ~IsThere(d, row) /\ row \notin e.vanished
      BY <2>2 DEF Moves
    <3> QED BY <3>1 DEF IsThere, Works, Handles
  <2>3. CASE Has(d, s, X, row)
    <3>1. \A q \in DOMAIN d.sessions \ {s} : row \notin d.sessions[q].changes
      BY <1>1, <2>1, <2>3 DEF Has, RowsApart
    <3>2. \A x \in Xids \ X : row \notin d.branches[x].changes
      BY <1>1, <2>1, <2>3 DEF Has, RowsApart
    <3>3. row \notin d.vanished
      BY <1>1, <2>1, <2>3 DEF Has, RowsApart
    <3> QED BY <3>1, <3>2, <3>3 DEF Works, Handles, Moves
  <2> QED BY <1>4, <2>2, <2>3 DEF Moves
<1>5. RowsApart(e)
  <2>1. e.durable \cap e.vanished = {}
    BY <1>4 DEF Has
  <2>2. \A q \in DOMAIN e.sessions : e.sessions[q].changes \cap (e.durable \cup e.vanished) = {}
    <3>1. e.sessions[s].changes \cap (e.durable \cup e.vanished) = {}
      BY <1>4 DEF Has, Moves
    <3>2. \A q \in DOMAIN e.sessions \ {s} : e.sessions[q].changes \cap e.durable = {}
      BY <1>4 DEF Has
    <3>3. \A q \in DOMAIN e.sessions \ {s} : e.sessions[q].changes \cap e.vanished = {}
      BY <1>1 DEF RowsApart, Works, Moves
    <3> QED BY <3>1, <3>2, <3>3
  <2>3. \A q, p \in DOMAIN e.sessions : q # p => e.sessions[p].changes \cap e.sessions[q].changes = {}
    <3>1. \A q \in DOMAIN e.sessions \ {s} : e.sessions[s].changes \cap e.sessions[q].changes = {}
      BY <1>4 DEF Has
    <3>2. \A q, p \in DOMAIN e.sessions \ {s} : q # p => e.sessions[p].changes \cap e.sessions[q].changes = {}
      BY <1>1 DEF RowsApart, Works
    <3> QED BY <3>1, <3>2
  <2>4. \A q \in DOMAIN e.sessions, x \in Xids : e.sessions[q].changes \cap e.branches[x].changes = {}
    <3>1. \A x \in X : e.sessions[s].changes \cap e.branches[x].changes = {}
      BY DEF Moves
    <3>2. \A x \in Xids \ X : e.sessions[s].changes \cap e.branches[x].changes = {}
      BY <1>4 DEF Has
    <3>3. \A q \in DOMAIN e.sessions \ {s}, x \in X : e.sessions[q].changes \cap e.branches[x].changes = {}
      BY <1>4 DEF Has
    <3>4. \A q \in DOMAIN e.sessions \ {s}, x \in Xids \ X :
            e.sessions[q].changes \cap e.branches[x].changes = {}
      <4>1. \A q \in DOMAIN d.sessions, x \in Xids : d.sessions[q].changes \cap d.branches[x].changes = {}
        BY <1>1 DEF RowsApart
      <4> QED BY <4>1 DEF Works, Handles
    <3> QED BY <3>1, <3>2, <3>3, <3>4
  <2>5. \A x \in Xids : e.branches[x].changes \cap (e.durable \cup e.vanished) = {}
    <3>1. \A x \in X : e.branches[x].changes \cap (e.durable \cup e.vanished) = {}
      BY <1>4 DEF Has, Moves
    <3>2. \A x \in Xids \ X : e.branches[x].changes \cap e.durable = {}
      BY <1>4 DEF Has
    <3>3. \A x \in Xids \ X : e.branches[x].changes \cap e.vanished = {}
      BY <1>1 DEF RowsApart, Handles, Moves
    <3> QED BY <3>1, <3>2, <3>3
  <2>6. \A x, y \in Xids : y # x => e.branches[x].changes \cap e.branches[y].changes = {}
    <3>1. \A x, y \in X : x = y
      BY DEF Moves
    <3>2. \A x \in X, y \in Xids \ X : e.branches[x].changes \cap e.branches[y].changes = {}
      BY <1>4 DEF Has
    <3>3. \A x, y \in Xids \ X : y # x => e.branches[x].changes \cap e.branches[y].changes = {}
      BY <1>1 DEF RowsApart, Handles
    <3> QED BY <3>1, <3>2, <3>3
  <2> QED BY <2>1, <2>2, <2>3, <2>4, <2>5, <2>6 DEF RowsApart
<1>6. Leaves(d, e, s, R, X)
  <2>1. X \subseteq Xids /\ \A row : Has(e, s, X, row) => row \in R \/ Has(d, s, X, row)
    BY DEF Moves
  <2>2. ASSUME NEW row
        PROVE  IsThere(e, row) => row \in R \/ IsThere(d, row)
    <3>1. Has(d, s, X, row) => IsThere(d, row)
      BY <2>1 DEF Has, IsThere
    <3>2. IsThere(e, row) => Has(e, s, X, row) \/ IsThere(d, row)
      BY DEF Has, IsThere, Works, Handles
    <3> QED BY <2>1, <3>1, <3>2
  <2>3. ASSUME NEW x \in Xids \ X, NEW row
        PROVE  IsElsewhere(e, x, row) => row \in R \/ IsElsewhere(d, x, row)
    <3>1. Has(d, s, X, row) => IsElsewhere(d, x, row)
      BY <2>1 DEF Has, IsElsewhere
    <3>2. IsElsewhere(e, x, row) => Has(e, s, X, row) \/ IsElsewhere(d, x, row)
      BY DEF Has, IsElsewhere, Works, Handles
    <3> QED BY <2>1, <3>1, <3>2
  <2>4. \A x \in Xids \ X : e.branches[x] = d.branches[x]
    BY DEF Handles
  <2>5. /\ DOMAIN d.sessions \subseteq DOMAIN e.sessions
        /\ DOMAIN e.sessions \subseteq DOMAIN d.sessions \cup {s}
        /\ \A q \in DOMAIN d.sessions \ {s} : e.sessions[q] = d.sessions[q]
        /\ \A q \in DOMAIN d.sessions :
             /\ e.sessions[q].options = d.sessions[q].options
             /\ e.sessions[q].replaces = d.sessions[q].replaces
    BY DEF Works
  <2>6. d.durable \subseteq e.durable /\ d.vanished \ R \subseteq e.vanished
    BY DEF Moves
  <2> QED BY <2>2, <2>3, <2>4, <2>5, <2>6 DEF Leaves
<1> QED BY <1>2, <1>3, <1>5, <1>6 DEF DbInv

\* What a session does to its own record, or to others than the sessions.
Updates(d, e, s, v) ==
  /\ DbTypes(d) /\ s \in DOMAIN d.sessions
  /\ DOMAIN v = {"open", "changes", "branch", "options", "replaces"}
  /\ v.open = d.sessions[s].open /\ v.options = d.sessions[s].options
  /\ v.replaces = d.sessions[s].replaces
  /\ DOMAIN e = {"sessions", "durable", "vanished", "branches"}
  /\ e.sessions = [d.sessions EXCEPT ![s] = v]

\* A session that works on its own record leaves those of the others alone.
LEMMA SessionUpdate ==
  ASSUME NEW d, NEW s, NEW v, NEW e, Updates(d, e, s, v)
  PROVE  Works(d, e, s) /\ e.sessions[s] = v
<1> USE DEF Updates
<1>1. IsSeq(d.sessions)
  BY DEF DbTypes
<1>2. /\ IsSeq(e.sessions)
      /\ Len(e.sessions) = Len(d.sessions)
  BY <1>1, ExceptIsSeq
<1>3. /\ DOMAIN e.sessions = DOMAIN d.sessions
      /\ \A q \in DOMAIN d.sessions \ {s} : e.sessions[q] = d.sessions[q]
      /\ e.sessions[s] = v
  OBVIOUS
<1> QED BY <1>2, <1>3 DEF Works

\* A step that touches no session at all does so, too.
LEMMA NoSessionUpdate ==
  ASSUME NEW d, NEW s, NEW e, DbTypes(d), s \in DOMAIN d.sessions,
         DOMAIN e = {"sessions", "durable", "vanished", "branches"}, e.sessions = d.sessions
  PROVE  Works(d, e, s)
BY DEF DbTypes, Works

\* A session that can serve a request.
Ready(d, s) == DbInv(d) /\ s \in DOMAIN d.sessions /\ d.sessions[s].open

\* A row is inserted in a transaction.
Inserts(d, e, s, row) ==
  /\ Ready(d, s)
  /\ row \in Changes
  /\ ~IsThere(d, row)
  /\ e = Inserted(d, s, row)

\* The row that is inserted is in the session, and nothing else has changed.
LEMMA InsertStep ==
  ASSUME NEW d, NEW s, NEW row, NEW e, Inserts(d, e, s, row)
  PROVE  /\ DbInv(e) /\ Leaves(d, e, s, One(row), {}) /\ Works(d, e, s)
         /\ e.sessions[s].changes = d.sessions[s].changes \cup {row}
         /\ e.sessions[s].branch = d.sessions[s].branch
         /\ e.durable = d.durable /\ e.vanished = d.vanished \ {row}
         /\ e.branches = d.branches
<1> USE DEF Inserts, Ready
<1>1. DbTypes(d) /\ BranchesInv(d) /\ RowsApart(d)
  BY DEF DbInv
<1> DEFINE v == [d.sessions[s] EXCEPT !.changes = @ \cup {row}]
<1>2. /\ DOMAIN v = {"open", "changes", "branch", "options", "replaces"}
      /\ v.open = d.sessions[s].open /\ v.options = d.sessions[s].options
      /\ v.replaces = d.sessions[s].replaces
      /\ v.changes = d.sessions[s].changes \cup {row} /\ v.branch = d.sessions[s].branch
  BY <1>1 DEF DbTypes
<1>3. /\ DOMAIN e = {"sessions", "durable", "vanished", "branches"}
      /\ e.sessions = [d.sessions EXCEPT ![s] = v]
      /\ e.durable = d.durable /\ e.vanished = d.vanished \ {row}
      /\ e.branches = d.branches
  BY <1>1 DEF DbTypes, Inserted
<1> HIDE DEF v
<1>4. Works(d, e, s) /\ e.sessions[s] = v
  <2>1. Updates(d, e, s, v)
    BY <1>1, <1>2, <1>3 DEF Updates
  <2> QED BY <2>1, SessionUpdate
<1>5. Moves(d, e, s, One(row), {})
  BY <1>1, <1>2, <1>3, <1>4 DEF One, Moves, Has, RowsApart, IsThere
<1>6. Handles(d, e, s, {})
  BY <1>1, <1>2, <1>3, <1>4 DEF Handles, BranchesInv
<1>7. /\ e.durable \subseteq Changes /\ e.sessions[s].changes \subseteq Changes
      /\ e.sessions[s].branch \in Xids \cup {NoXid}
      /\ e.branches \in [Xids -> [state : States, changes : SUBSET Changes, session : Nat]]
  BY <1>1, <1>2, <1>3, <1>4 DEF DbTypes
<1>8. DbInv(e) /\ Leaves(d, e, s, One(row), {})
  BY <1>4, <1>5, <1>6, <1>7, WorkStep
<1> QED BY <1>2, <1>3, <1>4, <1>8

\* A transaction is committed.
CommitsRows(d, e, s) ==
  /\ Ready(d, s)
  /\ e = RowCommitted(d, s)

\* A commit makes the rows of its session durable, and no other rows.
LEMMA CommitStep ==
  ASSUME NEW d, NEW s, NEW e, CommitsRows(d, e, s)
  PROVE  /\ DbInv(e) /\ Leaves(d, e, s, {}, {}) /\ Works(d, e, s)
         /\ e.sessions[s].changes = {} /\ e.sessions[s].branch = d.sessions[s].branch
         /\ e.durable = d.durable \cup d.sessions[s].changes /\ e.vanished = d.vanished
         /\ e.branches = d.branches
<1> USE DEF CommitsRows, Ready
<1>1. DbTypes(d) /\ BranchesInv(d) /\ RowsApart(d)
  BY DEF DbInv
<1> DEFINE v == [d.sessions[s] EXCEPT !.changes = {}]
<1>2. /\ DOMAIN v = {"open", "changes", "branch", "options", "replaces"}
      /\ v.open = d.sessions[s].open /\ v.options = d.sessions[s].options
      /\ v.replaces = d.sessions[s].replaces
      /\ v.changes = {} /\ v.branch = d.sessions[s].branch
  BY <1>1 DEF DbTypes
<1>3. /\ DOMAIN e = {"sessions", "durable", "vanished", "branches"}
      /\ e.sessions = [d.sessions EXCEPT ![s] = v]
      /\ e.durable = d.durable \cup d.sessions[s].changes /\ e.vanished = d.vanished
      /\ e.branches = d.branches
  BY <1>1 DEF DbTypes, RowCommitted
<1> HIDE DEF v
<1>4. Works(d, e, s) /\ e.sessions[s] = v
  <2>1. Updates(d, e, s, v)
    BY <1>1, <1>2, <1>3 DEF Updates
  <2> QED BY <2>1, SessionUpdate
<1>5. Moves(d, e, s, {}, {})
  BY <1>1, <1>2, <1>3, <1>4 DEF Moves, Has, RowsApart
<1>6. Handles(d, e, s, {})
  BY <1>1, <1>2, <1>3, <1>4 DEF Handles, BranchesInv
<1>7. /\ e.durable \subseteq Changes /\ e.sessions[s].changes \subseteq Changes
      /\ e.sessions[s].branch \in Xids \cup {NoXid}
      /\ e.branches \in [Xids -> [state : States, changes : SUBSET Changes, session : Nat]]
  BY <1>1, <1>2, <1>3, <1>4 DEF DbTypes
<1>8. DbInv(e) /\ Leaves(d, e, s, {}, {})
  BY <1>4, <1>5, <1>6, <1>7, WorkStep
<1> QED BY <1>2, <1>3, <1>4, <1>8

\* A transaction is rolled back.
RollsBack(d, e, s) ==
  /\ Ready(d, s)
  /\ e = RowRolledBack(d, s)

\* A rollback takes the rows of its session back, and no other rows.
LEMMA RollbackStep ==
  ASSUME NEW d, NEW s, NEW e, RollsBack(d, e, s)
  PROVE  /\ DbInv(e) /\ Leaves(d, e, s, {}, {}) /\ Works(d, e, s)
         /\ e.sessions[s].changes = {} /\ e.sessions[s].branch = d.sessions[s].branch
         /\ e.durable = d.durable /\ e.vanished = d.vanished
         /\ e.branches = d.branches
<1> USE DEF RollsBack, Ready
<1>1. DbTypes(d) /\ BranchesInv(d) /\ RowsApart(d)
  BY DEF DbInv
<1> DEFINE v == [d.sessions[s] EXCEPT !.changes = {}]
<1>2. /\ DOMAIN v = {"open", "changes", "branch", "options", "replaces"}
      /\ v.open = d.sessions[s].open /\ v.options = d.sessions[s].options
      /\ v.replaces = d.sessions[s].replaces
      /\ v.changes = {} /\ v.branch = d.sessions[s].branch
  BY <1>1 DEF DbTypes
<1>3. /\ DOMAIN e = {"sessions", "durable", "vanished", "branches"}
      /\ e.sessions = [d.sessions EXCEPT ![s] = v]
      /\ e.durable = d.durable /\ e.vanished = d.vanished
      /\ e.branches = d.branches
  BY <1>1 DEF DbTypes, RowRolledBack
<1> HIDE DEF v
<1>4. Works(d, e, s) /\ e.sessions[s] = v
  <2>1. Updates(d, e, s, v)
    BY <1>1, <1>2, <1>3 DEF Updates
  <2> QED BY <2>1, SessionUpdate
<1>5. Moves(d, e, s, {}, {})
  BY <1>1, <1>2, <1>3, <1>4 DEF Moves, Has, RowsApart
<1>6. Handles(d, e, s, {})
  BY <1>1, <1>2, <1>3, <1>4 DEF Handles, BranchesInv
<1>7. /\ e.durable \subseteq Changes /\ e.sessions[s].changes \subseteq Changes
      /\ e.sessions[s].branch \in Xids \cup {NoXid}
      /\ e.branches \in [Xids -> [state : States, changes : SUBSET Changes, session : Nat]]
  BY <1>1, <1>2, <1>3, <1>4 DEF DbTypes
<1>8. DbInv(e) /\ Leaves(d, e, s, {}, {})
  BY <1>4, <1>5, <1>6, <1>7, WorkStep
<1> QED BY <1>2, <1>3, <1>4, <1>8

-----------------------------------------------------------------------------
\* A branch changes, and with it at most the session that handles it: rows R
\* are added, rows D become durable.
BranchBecomes(d, e, s, x, b, R, D) ==
  /\ Works(d, e, s) /\ e.sessions[s].changes = d.sessions[s].changes
  /\ e.sessions[s].branch \in Xids \cup {NoXid}
  /\ e.branches = [d.branches EXCEPT ![x] = b]
  /\ e.durable = d.durable \cup D /\ e.vanished = d.vanished \ R

\* What a branch may become.
MayBecome(d, e, s, x, b, R, D) ==
  /\ b \in [state : States, changes : SUBSET Changes, session : Nat]
  /\ \A row \in R : ~IsThere(d, row)
  /\ b.changes \subseteq d.branches[x].changes \cup R /\ D \subseteq d.branches[x].changes
  /\ b.changes \cap D = {}
  /\ b.state = "none" => b.changes = {}
  /\ d.branches[x].state = "active" => d.branches[x].session = s
  /\ \A y \in Xids \ {x} : e.sessions[s].branch = y => d.sessions[s].branch = y
  /\ e.sessions[s].branch = x => b.state = "active" /\ b.session = s

\* A branch that becomes what it may become leaves the others alone.
LEMMA BranchStep ==
  ASSUME NEW d, NEW s, NEW x, NEW b, NEW R, NEW D, NEW e, DbInv(d), s \in DOMAIN d.sessions,
         d.sessions[s].open, x \in Xids, BranchBecomes(d, e, s, x, b, R, D),
         MayBecome(d, e, s, x, b, R, D)
  PROVE  DbInv(e) /\ Leaves(d, e, s, R, One(x))
<1>0. /\ b \in [state : States, changes : SUBSET Changes, session : Nat]
      /\ \A row \in R : ~IsThere(d, row)
      /\ b.changes \subseteq d.branches[x].changes \cup R /\ D \subseteq d.branches[x].changes
      /\ b.changes \cap D = {}
      /\ b.state = "none" => b.changes = {}
      /\ d.branches[x].state = "active" => d.branches[x].session = s
      /\ \A y \in Xids \ {x} : e.sessions[s].branch = y => d.sessions[s].branch = y
      /\ e.sessions[s].branch = x => b.state = "active" /\ b.session = s
  BY DEF MayBecome
<1>1. DbTypes(d) /\ BranchesInv(d) /\ RowsApart(d)
  BY DEF DbInv
<1>2. d.branches \in [Xids -> [state : States, changes : SUBSET Changes, session : Nat]]
  BY <1>1 DEF DbTypes
<1>3. /\ e.branches[x] = b /\ \A y \in Xids \ {x} : e.branches[y] = d.branches[y]
      /\ e.branches \in [Xids -> [state : States, changes : SUBSET Changes, session : Nat]]
  BY <1>0, <1>2 DEF BranchBecomes
<1>4. Moves(d, e, s, R, One(x))
  <2>1. \A row : Has(e, s, One(x), row) => row \in R \/ Has(d, s, One(x), row)
    BY <1>0, <1>3 DEF One, Has, BranchBecomes
  <2>2. e.durable \cap e.sessions[s].changes = {}
    BY <1>0, <1>1 DEF RowsApart, BranchBecomes
  <2>3. b.changes \cap (e.durable \cup e.sessions[s].changes) = {}
    <3>1. \A row \in R : row \notin d.durable /\ row \notin d.sessions[s].changes
      BY <1>0 DEF IsThere
    <3>2. d.branches[x].changes \cap (d.durable \cup d.sessions[s].changes) = {}
      BY <1>1 DEF RowsApart
    <3> QED BY <1>0, <3>1, <3>2 DEF BranchBecomes
  <2> QED BY <1>0, <1>3, <2>1, <2>2, <2>3 DEF One, Moves, BranchBecomes
<1>5. Handles(d, e, s, One(x))
  <2>1. ASSUME NEW y \in Xids, e.sessions[s].branch = y
        PROVE  e.branches[y].state = "active" /\ e.branches[y].session = s
    <3>1. CASE y = x
      BY <1>0, <1>3, <2>1, <3>1
    <3>2. CASE y # x
      <4>1. d.branches[y].state = "active" /\ d.branches[y].session = s
        BY <1>0, <1>1, <2>1, <3>2 DEF BranchesInv
      <4> QED BY <1>3, <3>2, <4>1
    <3> QED BY <3>1, <3>2
  <2> QED BY <1>0, <1>3, <2>1 DEF One, Handles
<1>6. /\ e.durable \subseteq Changes /\ e.sessions[s].changes \subseteq Changes
  BY <1>0, <1>1, <1>2 DEF DbTypes, BranchBecomes
<1> QED BY <1>3, <1>4, <1>5, <1>6, WorkStep DEF BranchBecomes

\* A row is inserted in the branch that the session is in.
InsertsInBranch(d, e, s, x, row) ==
  /\ Ready(d, s)
  /\ x \in Xids
  /\ d.sessions[s].branch = x
  /\ row \in Changes
  /\ ~IsThere(d, row)
  /\ e = InsertedInBranch(d, x, row)

\* The row that is inserted is in the branch, and nothing else has changed.
LEMMA BranchInsertStep ==
  ASSUME NEW d, NEW s, NEW x, NEW row, NEW e, InsertsInBranch(d, e, s, x, row)
  PROVE  /\ DbInv(e) /\ Leaves(d, e, s, One(row), One(x)) /\ e.sessions = d.sessions
         /\ e.durable = d.durable /\ e.vanished = d.vanished \ {row}
         /\ e.branches[x].state = "active" /\ e.branches[x].session = s
         /\ e.branches[x].changes = d.branches[x].changes \cup {row}
<1> USE DEF InsertsInBranch, Ready
<1>1. DbTypes(d) /\ BranchesInv(d)
  BY DEF DbInv
<1>2. d.branches \in [Xids -> [state : States, changes : SUBSET Changes, session : Nat]]
  BY <1>1 DEF DbTypes
<1> DEFINE b == [d.branches[x] EXCEPT !.changes = @ \cup {row}]
<1>3. /\ b \in [state : States, changes : SUBSET Changes, session : Nat]
      /\ b.state = d.branches[x].state /\ b.session = d.branches[x].session
      /\ b.changes = d.branches[x].changes \cup {row}
  BY <1>2
<1>4. /\ DOMAIN e = {"sessions", "durable", "vanished", "branches"}
      /\ e.sessions = d.sessions /\ e.durable = d.durable /\ e.vanished = d.vanished \ {row}
      /\ e.branches = [d.branches EXCEPT ![x] = b]
  BY <1>1 DEF DbTypes, InsertedInBranch
<1>5. d.branches[x].state = "active" /\ d.branches[x].session = s
  BY <1>1 DEF BranchesInv
<1> HIDE DEF b
<1>6. Works(d, e, s)
  BY <1>1, <1>4, NoSessionUpdate
<1>7. BranchBecomes(d, e, s, x, b, One(row), {})
  BY <1>4, <1>6 DEF One, BranchBecomes
<1>8. DbInv(e) /\ Leaves(d, e, s, One(row), One(x))
  <2>1. MayBecome(d, e, s, x, b, One(row), {})
    BY <1>3, <1>4, <1>5 DEF One, MayBecome
  <2> QED BY <1>7, <2>1, BranchStep
<1>9. e.branches[x] = b
  BY <1>2, <1>4
<1> QED BY <1>3, <1>4, <1>5, <1>8, <1>9

\* A branch begins in a session.
Starts(d, e, s, x) ==
  /\ Ready(d, s)
  /\ x \in Xids
  /\ d.branches[x].state = "none"
  /\ d.sessions[s].branch = NoXid
  /\ e = Started(d, s, x)

\* XAStart: the branch is empty, and its session is in it.
LEMMA StartStep ==
  ASSUME NEW d, NEW s, NEW x, NEW e, Starts(d, e, s, x)
  PROVE  /\ DbInv(e) /\ Leaves(d, e, s, {}, One(x)) /\ Works(d, e, s)
         /\ e.sessions[s].changes = d.sessions[s].changes
         /\ e.sessions[s].branch = x
         /\ e.durable = d.durable /\ e.vanished = d.vanished
         /\ e.branches[x].state = "active" /\ e.branches[x].session = s
         /\ e.branches[x].changes = {}
<1> USE DEF Starts, Ready
<1>1. DbTypes(d) /\ BranchesInv(d)
  BY DEF DbInv
<1>2. d.branches \in [Xids -> [state : States, changes : SUBSET Changes, session : Nat]]
  BY <1>1 DEF DbTypes
<1>0. s \in Nat
  BY <1>1 DEF DbTypes, IsSeq
<1> DEFINE b == [state |-> "active", changes |-> {}, session |-> s]
<1>3. /\ b \in [state : States, changes : SUBSET Changes, session : Nat]
      /\ b.state = "active" /\ b.changes = {} /\ b.session = s
  BY <1>0 DEF States
<1> DEFINE v == [d.sessions[s] EXCEPT !.branch = x]
<1>4. /\ DOMAIN v = {"open", "changes", "branch", "options", "replaces"}
      /\ v.open = d.sessions[s].open /\ v.options = d.sessions[s].options
      /\ v.replaces = d.sessions[s].replaces
      /\ v.changes = d.sessions[s].changes /\ v.branch = x
  BY <1>1 DEF DbTypes
<1>5. /\ DOMAIN e = {"sessions", "durable", "vanished", "branches"}
      /\ e.sessions = [d.sessions EXCEPT ![s] = v]
      /\ e.durable = d.durable \cup {} /\ e.vanished = d.vanished
      /\ e.branches = [d.branches EXCEPT ![x] = b]
  BY <1>1 DEF DbTypes, Started
<1> HIDE DEF b, v
<1>6. Works(d, e, s) /\ e.sessions[s] = v
  <2>1. Updates(d, e, s, v)
    BY <1>1, <1>4, <1>5 DEF Updates
  <2> QED BY <2>1, SessionUpdate
<1>7. e.sessions[s].branch \in Xids \cup {NoXid}
  BY <1>1, <1>4, <1>5, <1>6 DEF DbTypes
<1>8. BranchBecomes(d, e, s, x, b, {}, {})
  BY <1>4, <1>5, <1>6, <1>7 DEF BranchBecomes
<1>9. MayBecome(d, e, s, x, b, {}, {})
  BY <1>1, <1>2, <1>3, <1>4, <1>5, <1>6, SessionAssumption DEF MayBecome, BranchesInv
<1>10. DbInv(e) /\ Leaves(d, e, s, {}, One(x))
  BY <1>8, <1>9, BranchStep
<1>11. e.branches[x] = b
  BY <1>2, <1>5
<1> QED BY <1>3, <1>4, <1>5, <1>6, <1>10, <1>11

\* A branch that was suspended goes on.
Resumes(d, e, s, x) ==
  /\ Ready(d, s)
  /\ x \in Xids
  /\ d.branches[x].state = "suspended"
  /\ d.branches[x].session = s
  /\ e = Resumed(d, s, x)

\* XAStart with RESUME: the branch has kept its rows.
LEMMA ResumeStep ==
  ASSUME NEW d, NEW s, NEW x, NEW e, Resumes(d, e, s, x)
  PROVE  /\ DbInv(e) /\ Leaves(d, e, s, {}, One(x)) /\ Works(d, e, s)
         /\ e.sessions[s].changes = d.sessions[s].changes
         /\ e.sessions[s].branch = x
         /\ e.durable = d.durable /\ e.vanished = d.vanished
         /\ e.branches[x].state = "active" /\ e.branches[x].session = s
         /\ e.branches[x].changes = d.branches[x].changes
<1> USE DEF Resumes, Ready
<1>1. DbTypes(d) /\ BranchesInv(d)
  BY DEF DbInv
<1>2. d.branches \in [Xids -> [state : States, changes : SUBSET Changes, session : Nat]]
  BY <1>1 DEF DbTypes
<1> DEFINE b == [d.branches[x] EXCEPT !.state = "active"]
<1>3. /\ b \in [state : States, changes : SUBSET Changes, session : Nat]
      /\ b.state = "active" /\ b.changes = d.branches[x].changes /\ b.session = s
  BY <1>2 DEF States
<1> DEFINE v == [d.sessions[s] EXCEPT !.branch = x]
<1>4. /\ DOMAIN v = {"open", "changes", "branch", "options", "replaces"}
      /\ v.open = d.sessions[s].open /\ v.options = d.sessions[s].options
      /\ v.replaces = d.sessions[s].replaces
      /\ v.changes = d.sessions[s].changes /\ v.branch = x
  BY <1>1 DEF DbTypes
<1>5. /\ DOMAIN e = {"sessions", "durable", "vanished", "branches"}
      /\ e.sessions = [d.sessions EXCEPT ![s] = v]
      /\ e.durable = d.durable \cup {} /\ e.vanished = d.vanished
      /\ e.branches = [d.branches EXCEPT ![x] = b]
  BY <1>1 DEF DbTypes, Resumed
<1> HIDE DEF b, v
<1>6. Works(d, e, s) /\ e.sessions[s] = v
  <2>1. Updates(d, e, s, v)
    BY <1>1, <1>4, <1>5 DEF Updates
  <2> QED BY <2>1, SessionUpdate
<1>7. e.sessions[s].branch \in Xids \cup {NoXid}
  BY <1>1, <1>4, <1>5, <1>6 DEF DbTypes
<1>8. BranchBecomes(d, e, s, x, b, {}, {})
  BY <1>4, <1>5, <1>6, <1>7 DEF BranchBecomes
<1>9. MayBecome(d, e, s, x, b, {}, {})
  BY <1>1, <1>2, <1>3, <1>4, <1>5, <1>6, SessionAssumption DEF MayBecome, BranchesInv
<1>10. DbInv(e) /\ Leaves(d, e, s, {}, One(x))
  BY <1>8, <1>9, BranchStep
<1>11. e.branches[x] = b
  BY <1>2, <1>5
<1> QED BY <1>3, <1>4, <1>5, <1>6, <1>10, <1>11

\* The work in a branch ends, or is suspended.
EndsWork(d, e, s, x, state) ==
  /\ Ready(d, s)
  /\ x \in Xids
  /\ state \in {"suspended", "failed", "idle"}
  /\ d.branches[x].state \in {"active", "suspended"}
  /\ d.branches[x].session = s
  /\ e = WorkEnded(d, s, x, state)

\* XAEnd: the branch keeps its rows, and its session is not in it any more.
LEMMA EndStep ==
  ASSUME NEW d, NEW s, NEW x, NEW state, NEW e, EndsWork(d, e, s, x, state)
  PROVE  /\ DbInv(e) /\ Leaves(d, e, s, {}, One(x)) /\ Works(d, e, s)
         /\ e.sessions[s].changes = d.sessions[s].changes
         /\ e.sessions[s].branch = (IF d.sessions[s].branch = x THEN NoXid ELSE d.sessions[s].branch)
         /\ e.durable = d.durable /\ e.vanished = d.vanished
         /\ e.branches[x].state = state /\ e.branches[x].session = s
         /\ e.branches[x].changes = d.branches[x].changes
<1> USE DEF EndsWork, Ready
<1>1. DbTypes(d) /\ BranchesInv(d)
  BY DEF DbInv
<1>2. d.branches \in [Xids -> [state : States, changes : SUBSET Changes, session : Nat]]
  BY <1>1 DEF DbTypes
<1> DEFINE b == [d.branches[x] EXCEPT !.state = state]
<1>3. /\ b \in [state : States, changes : SUBSET Changes, session : Nat]
      /\ b.state = state /\ b.changes = d.branches[x].changes /\ b.session = s
  BY <1>2 DEF States
<1> DEFINE v == [d.sessions[s] EXCEPT !.branch = IF @ = x THEN NoXid ELSE @]
<1>4. /\ DOMAIN v = {"open", "changes", "branch", "options", "replaces"}
      /\ v.open = d.sessions[s].open /\ v.options = d.sessions[s].options
      /\ v.replaces = d.sessions[s].replaces
      /\ v.changes = d.sessions[s].changes /\ v.branch = (IF d.sessions[s].branch = x THEN NoXid ELSE d.sessions[s].branch)
  BY <1>1 DEF DbTypes
<1>5. /\ DOMAIN e = {"sessions", "durable", "vanished", "branches"}
      /\ e.sessions = [d.sessions EXCEPT ![s] = v]
      /\ e.durable = d.durable \cup {} /\ e.vanished = d.vanished
      /\ e.branches = [d.branches EXCEPT ![x] = b]
  BY <1>1 DEF DbTypes, WorkEnded
<1> HIDE DEF b, v
<1>6. Works(d, e, s) /\ e.sessions[s] = v
  <2>1. Updates(d, e, s, v)
    BY <1>1, <1>4, <1>5 DEF Updates
  <2> QED BY <2>1, SessionUpdate
<1>7. e.sessions[s].branch \in Xids \cup {NoXid}
  BY <1>1, <1>4, <1>5, <1>6 DEF DbTypes
<1>8. BranchBecomes(d, e, s, x, b, {}, {})
  BY <1>4, <1>5, <1>6, <1>7 DEF BranchBecomes
<1>9. MayBecome(d, e, s, x, b, {}, {})
  BY <1>1, <1>2, <1>3, <1>4, <1>5, <1>6, SessionAssumption DEF MayBecome, BranchesInv
<1>10. DbInv(e) /\ Leaves(d, e, s, {}, One(x))
  BY <1>8, <1>9, BranchStep
<1>11. e.branches[x] = b
  BY <1>2, <1>5
<1> QED BY <1>3, <1>4, <1>5, <1>6, <1>10, <1>11

\* A branch is rolled back, or was empty.
Decides(d, e, s, x) ==
  /\ Ready(d, s)
  /\ x \in Xids
  /\ d.branches[x].state # "active"
  /\ e = Decided(d, x)

\* The branch is gone with its rows (XARollback, XAPrepare of an empty branch).
LEMMA DecideStep ==
  ASSUME NEW d, NEW s, NEW x, NEW e, Decides(d, e, s, x)
  PROVE  /\ DbInv(e) /\ Leaves(d, e, s, {}, One(x)) /\ Works(d, e, s)
         /\ e.sessions[s].changes = d.sessions[s].changes
         /\ e.sessions[s].branch = d.sessions[s].branch
         /\ e.durable = d.durable /\ e.vanished = d.vanished
         /\ e.branches[x] = NoBranch
<1> USE DEF Decides, Ready
<1>1. DbTypes(d) /\ BranchesInv(d)
  BY DEF DbInv
<1>2. d.branches \in [Xids -> [state : States, changes : SUBSET Changes, session : Nat]]
  BY <1>1 DEF DbTypes
<1> DEFINE b == NoBranch
<1>3. /\ b \in [state : States, changes : SUBSET Changes, session : Nat]
      /\ b.state = "none" /\ b.changes = {}
  BY DEF States, NoBranch
<1>5. /\ DOMAIN e = {"sessions", "durable", "vanished", "branches"}
      /\ e.sessions = d.sessions
      /\ e.durable = d.durable \cup {} /\ e.vanished = d.vanished
      /\ e.branches = [d.branches EXCEPT ![x] = b]
  BY <1>1 DEF DbTypes, Decided
<1> HIDE DEF b
<1>6. Works(d, e, s)
  BY <1>1, <1>5, NoSessionUpdate
<1>7. e.sessions[s].branch \in Xids \cup {NoXid}
  BY <1>1, <1>5, <1>6 DEF DbTypes
<1>8. BranchBecomes(d, e, s, x, b, {}, {})
  BY <1>5, <1>6, <1>7 DEF BranchBecomes
<1>9. MayBecome(d, e, s, x, b, {}, {})
  BY <1>1, <1>2, <1>3, <1>5, <1>6, SessionAssumption DEF MayBecome, BranchesInv
<1>10. DbInv(e) /\ Leaves(d, e, s, {}, One(x))
  BY <1>8, <1>9, BranchStep
<1>11. e.branches[x] = b
  BY <1>2, <1>5
<1> QED BY <1>3, <1>5, <1>6, <1>10, <1>11 DEF b

\* A branch is prepared.
Prepares(d, e, s, x) ==
  /\ Ready(d, s)
  /\ x \in Xids
  /\ d.branches[x].state = "idle"
  /\ e = PreparedToCommit(d, x)

\* XAPrepare: the branch keeps its rows.
LEMMA PrepareStep ==
  ASSUME NEW d, NEW s, NEW x, NEW e, Prepares(d, e, s, x)
  PROVE  /\ DbInv(e) /\ Leaves(d, e, s, {}, One(x)) /\ Works(d, e, s)
         /\ e.sessions[s].changes = d.sessions[s].changes
         /\ e.sessions[s].branch = d.sessions[s].branch
         /\ e.durable = d.durable /\ e.vanished = d.vanished
         /\ e.branches[x].state = "prepared" /\ e.branches[x].changes = d.branches[x].changes
<1> USE DEF Prepares, Ready
<1>1. DbTypes(d) /\ BranchesInv(d)
  BY DEF DbInv
<1>2. d.branches \in [Xids -> [state : States, changes : SUBSET Changes, session : Nat]]
  BY <1>1 DEF DbTypes
<1> DEFINE b == [d.branches[x] EXCEPT !.state = "prepared"]
<1>3. /\ b \in [state : States, changes : SUBSET Changes, session : Nat]
      /\ b.state = "prepared" /\ b.changes = d.branches[x].changes
  BY <1>2 DEF States
<1>5. /\ DOMAIN e = {"sessions", "durable", "vanished", "branches"}
      /\ e.sessions = d.sessions
      /\ e.durable = d.durable \cup {} /\ e.vanished = d.vanished
      /\ e.branches = [d.branches EXCEPT ![x] = b]
  BY <1>1 DEF DbTypes, PreparedToCommit
<1> HIDE DEF b
<1>6. Works(d, e, s)
  BY <1>1, <1>5, NoSessionUpdate
<1>7. e.sessions[s].branch \in Xids \cup {NoXid}
  BY <1>1, <1>5, <1>6 DEF DbTypes
<1>8. BranchBecomes(d, e, s, x, b, {}, {})
  BY <1>5, <1>6, <1>7 DEF BranchBecomes
<1>9. MayBecome(d, e, s, x, b, {}, {})
  BY <1>1, <1>2, <1>3, <1>5, <1>6, SessionAssumption DEF MayBecome, BranchesInv
<1>10. DbInv(e) /\ Leaves(d, e, s, {}, One(x))
  BY <1>8, <1>9, BranchStep
<1>11. e.branches[x] = b
  BY <1>2, <1>5
<1> QED BY <1>3, <1>5, <1>6, <1>10, <1>11

\* A branch is committed.
CommitsBranch(d, e, s, x) ==
  /\ Ready(d, s)
  /\ x \in Xids
  /\ d.branches[x].state # "active"
  /\ e = BranchCommitted(d, x)

\* XACommit: all the rows of the branch are durable.
LEMMA BranchCommitStep ==
  ASSUME NEW d, NEW s, NEW x, NEW e, CommitsBranch(d, e, s, x)
  PROVE  /\ DbInv(e) /\ Leaves(d, e, s, {}, One(x)) /\ Works(d, e, s)
         /\ e.sessions[s].changes = d.sessions[s].changes
         /\ e.sessions[s].branch = d.sessions[s].branch
         /\ e.durable = d.durable \cup d.branches[x].changes /\ e.vanished = d.vanished
         /\ e.branches[x] = NoBranch
<1> USE DEF CommitsBranch, Ready
<1>1. DbTypes(d) /\ BranchesInv(d)
  BY DEF DbInv
<1>2. d.branches \in [Xids -> [state : States, changes : SUBSET Changes, session : Nat]]
  BY <1>1 DEF DbTypes
<1> DEFINE b == NoBranch
<1>3. /\ b \in [state : States, changes : SUBSET Changes, session : Nat]
      /\ b.state = "none" /\ b.changes = {}
  BY DEF States, NoBranch
<1>5. /\ DOMAIN e = {"sessions", "durable", "vanished", "branches"}
      /\ e.sessions = d.sessions
      /\ e.durable = d.durable \cup d.branches[x].changes /\ e.vanished = d.vanished
      /\ e.branches = [d.branches EXCEPT ![x] = b]
  BY <1>1 DEF DbTypes, BranchCommitted
<1> HIDE DEF b
<1>6. Works(d, e, s)
  BY <1>1, <1>5, NoSessionUpdate
<1>7. e.sessions[s].branch \in Xids \cup {NoXid}
  BY <1>1, <1>5, <1>6 DEF DbTypes
<1>8. BranchBecomes(d, e, s, x, b, {}, d.branches[x].changes)
  BY <1>5, <1>6, <1>7 DEF BranchBecomes
<1>9. MayBecome(d, e, s, x, b, {}, d.branches[x].changes)
  BY <1>1, <1>2, <1>3, <1>5, <1>6, SessionAssumption DEF MayBecome, BranchesInv
<1>10. DbInv(e) /\ Leaves(d, e, s, {}, One(x))
  BY <1>8, <1>9, BranchStep
<1>11. e.branches[x] = b
  BY <1>2, <1>5
<1> QED BY <1>3, <1>5, <1>6, <1>10, <1>11 DEF b

-----------------------------------------------------------------------------
\* A session n that is opened, and the database with it, field by field.
IsOpened(d, e, n, o, c) == e = Opened(d, o, c) /\ n = Len(d.sessions) + 1
HasOpened(d, e, n, o, q) ==
  /\ n # 0 /\ n \notin DOMAIN d.sessions
  /\ DOMAIN e.sessions = DOMAIN d.sessions \cup {n} /\ Len(e.sessions) = n
  /\ e.sessions[n].open = TRUE
  /\ e.sessions[n].changes = {} /\ e.sessions[n].branch = NoXid
  /\ e.sessions[n].options = o /\ e.sessions[n].replaces = q
  /\ \A s \in DOMAIN d.sessions : e.sessions[s] = d.sessions[s]
  /\ e.durable = d.durable /\ e.vanished = d.vanished /\ e.branches = d.branches

\* A new session has nothing yet (connect and reconnect).
LEMMA OpenedStep ==
  ASSUME NEW d, NEW options, NEW c, NEW e, NEW n, DbInv(d), IsOpened(d, e, n, options, c)
  PROVE  DbInv(e) /\ Leaves(d, e, n, {}, {}) /\ HasOpened(d, e, n, options, c.session)
<1> USE DEF IsOpened
<1>1. DbTypes(d) /\ BranchesInv(d) /\ RowsApart(d)
  BY DEF DbInv
<1> DEFINE v == [open |-> TRUE, changes |-> {}, branch |-> NoXid,
                 options |-> options, replaces |-> c.session]
           q == d.sessions
           p == e.sessions
<1>2. /\ DOMAIN e = {"sessions", "durable", "vanished", "branches"}
      /\ p = Append(q, v)
      /\ e.durable = d.durable /\ e.vanished = d.vanished /\ e.branches = d.branches
  BY <1>1 DEF DbTypes, Opened
<1>3. IsSeq(q)
  BY <1>1 DEF DbTypes
<1>4. /\ DOMAIN v = {"open", "changes", "branch", "options", "replaces"}
      /\ v.open = TRUE /\ v.changes = {} /\ v.branch = NoXid
      /\ v.options = options /\ v.replaces = c.session
  OBVIOUS
<1> HIDE DEF v, q, p
<1>5. /\ IsSeq(p) /\ Len(p) = n /\ Len(q) \in Nat /\ n \notin DOMAIN q
      /\ DOMAIN p = DOMAIN q \cup {n} /\ p[n] = v
      /\ \A i \in DOMAIN q : p[i] = q[i]
  <2> DEFINE T == {q[i] : i \in DOMAIN q} \cup {v}
             W == {p[i] : i \in DOMAIN p}
  <2>1. Len(q) \in Nat /\ DOMAIN q = 1..Len(q)
    BY <1>3 DEF IsSeq
  <2>2. \A i \in DOMAIN q : q[i] \in T
    OBVIOUS
  <2>3. q = [i \in 1..Len(q) |-> q[i]]
    BY <1>3, <2>1 DEF IsSeq
  <2>4. v \in T
    OBVIOUS
  <2> HIDE DEF T
  <2>5. q \in Seq(T)
    BY <2>1, <2>2, <2>3, FunctionIsSeq
  <2>6. p \in Seq(T) /\ Len(p) = n
    BY <1>2, <2>4, <2>5 DEF q
  <2>7. DOMAIN p = 1..n /\ p = [i \in 1..n |-> p[i]]
    BY <2>6
  <2>8. \A i \in DOMAIN p : p[i] \in W
    OBVIOUS
  <2>9. n \in Nat /\ n = Len(q) + 1
    BY <2>1 DEF q
  <2> HIDE DEF W
  <2>10. p \in Seq(W)
    BY <2>7, <2>8, <2>9, FunctionIsSeq
  <2>11. p[n] = v /\ \A i \in DOMAIN q : p[i] = q[i]
    BY <1>2, <2>1, <2>4, <2>5, <2>9
  <2>12. n \notin DOMAIN q /\ DOMAIN p = DOMAIN q \cup {n}
    BY <2>1, <2>7, <2>9
  <2> QED BY <2>1, <2>6, <2>10, <2>11, <2>12 DEF IsSeq, W
<1>6. DbTypes(e)
  <2>1. \A i \in DOMAIN p :
          /\ DOMAIN p[i] = {"open", "changes", "branch", "options", "replaces"}
          /\ p[i].open \in BOOLEAN /\ p[i].changes \subseteq Changes
          /\ p[i].branch \in Xids \cup {NoXid}
    BY <1>1, <1>4, <1>5 DEF DbTypes, q
  <2> QED BY <1>1, <1>2, <1>5, <2>1 DEF DbTypes, p
<1>7. BranchesInv(e)
  BY <1>1, <1>2, <1>4, <1>5, SessionAssumption DEF BranchesInv, p, q
<1>8. RowsApart(e)
  BY <1>1, <1>2, <1>4, <1>5 DEF RowsApart, p, q
<1>9. Leaves(d, e, n, {}, {})
  <2>1. \A row : IsThere(e, row) => IsThere(d, row)
    BY <1>2, <1>4, <1>5 DEF IsThere, p, q
  <2>2. \A x \in Xids : \A row : IsElsewhere(e, x, row) => IsElsewhere(d, x, row)
    BY <1>2, <1>4, <1>5 DEF IsElsewhere, p, q
  <2> QED BY <1>2, <1>5, <2>1, <2>2 DEF Leaves, p, q
<1> QED BY <1>2, <1>4, <1>5, <1>6, <1>7, <1>8, <1>9 DEF DbInv, HasOpened, p, q

-----------------------------------------------------------------------------
(* Statements.                                                             *)
StatementTypes == {"insert", "commit", "rollback", "query"}
IsStatement(r) ==
  /\ r.type \in StatementTypes /\ r.commit \in BOOLEAN
  /\ r.type = "insert" => r.row \in Changes
RowsOf(r)   == IF r.type = "insert" THEN One(r.row) ELSE {}
Commits(r)  == r.commit \/ r.type = "commit"
BranchOf(d, s) == One(d.sessions[s].branch) \cap Xids

\* A statement is served by session s, with or without an error.
StatementServed(d, e, s, r, ok) ==
  /\ DbInv(e) /\ Leaves(d, e, s, RowsOf(r), BranchOf(d, s)) /\ Works(d, e, s)
  /\ e.sessions[s].branch = d.sessions[s].branch
  /\ ~ok => e = d
  /\ \A x \in BranchOf(d, s) :
       /\ e.branches[x].changes = d.branches[x].changes \cup (IF ok THEN RowsOf(r) ELSE {})
       /\ e.branches[x].state = "active"
       /\ ok => r.type \notin {"commit", "rollback"}
  /\ r.type # "rollback" =>
       d.sessions[s].changes \subseteq e.sessions[s].changes \cup (IF Commits(r) THEN e.durable ELSE {})
  /\ BranchOf(d, s) = {} /\ ok =>
       IF r.type = "rollback" THEN \A row \in d.sessions[s].changes : ~IsThere(e, row)
       ELSE d.sessions[s].changes \cup RowsOf(r)
              \subseteq (IF Commits(r) THEN e.durable ELSE e.sessions[s].changes)

\* A request that changes nothing.
LEMMA NothingServed ==
  ASSUME NEW d, NEW s, NEW R, NEW X, DbInv(d), s \in DOMAIN d.sessions
  PROVE  Leaves(d, d, s, R, X) /\ Works(d, d, s)
BY DEF DbInv, DbTypes, Leaves, Works

\* A statement in a branch.
LEMMA StatementInBranch ==
  ASSUME NEW d, NEW s, NEW r, NEW a, NEW x, Ready(d, s), IsStatement(r), a = RunStatement(d, s, r), x \in Xids,
         d.sessions[s].branch = x
  PROVE  StatementServed(d, a.db, s, r, a.code = 0)
<1>0. DbInv(d) /\ s \in DOMAIN d.sessions
  BY DEF Ready
<1>1. DbTypes(d) /\ BranchesInv(d)
  BY <1>0 DEF DbInv
<1>2. x # NoXid /\ BranchOf(d, s) = One(x) /\ d.branches[x].state = "active"
  BY <1>0, <1>1, SessionAssumption DEF One, DbTypes, BranchesInv, BranchOf
<1>3. /\ r.type \in StatementTypes /\ r.commit \in BOOLEAN
      /\ r.type = "insert" => r.row \in Changes
  BY DEF IsStatement
<1>4. CASE r.type = "insert" /\ ~IsThere(d, r.row)
  <2>1. PICK row \in Changes : row = r.row /\ ~IsThere(d, row)
    BY <1>3, <1>4
  <2>2. PICK e : e = InsertedInBranch(d, x, row)
    OBVIOUS
  <2>3. a.db = e /\ a.code = 0
    <3>1. RunStatement(d, s, r) = RunInBranch(d, x, r)
      BY <1>2, <1>4 DEF RunStatement
    <3>2. RunInBranch(d, x, r) = Answer(e, 0)
      BY <1>4, <2>1, <2>2 DEF RunInBranch
    <3> QED BY <3>1, <3>2 DEF Answer
  <2>4. ~IsThere(d, row)
    BY <2>1
  <2>5. /\ DbInv(e) /\ Leaves(d, e, s, One(row), One(x)) /\ e.sessions = d.sessions
        /\ e.branches[x].state = "active"
        /\ e.branches[x].changes = d.branches[x].changes \cup {row}
    <3>1. InsertsInBranch(d, e, s, x, row)
      BY <2>1, <2>2, <2>4 DEF InsertsInBranch
    <3> QED BY <3>1, BranchInsertStep
  <2>6. RowsOf(r) = One(row)
    BY <1>4, <2>1 DEF RowsOf
  <2>7. Works(d, e, s)
    BY <1>0, <1>1, <2>5, NoSessionUpdate DEF DbInv, DbTypes
  <2>8. /\ DbInv(e) /\ Leaves(d, e, s, RowsOf(r), BranchOf(d, s)) /\ Works(d, e, s)
        /\ e.sessions[s] = d.sessions[s]
        /\ e.branches[x].changes = d.branches[x].changes \cup RowsOf(r)
        /\ e.branches[x].state = "active"
    BY <1>2, <2>5, <2>6, <2>7 DEF One
  <2> QED BY <1>0, <1>2, <1>4, <2>3, <2>8 DEF StatementServed, One
<1>5. CASE ~(r.type = "insert" /\ ~IsThere(d, r.row))
  <2>1. a.db = d /\ (a.code = 0 => r.type = "query")
    <3>1. CASE r.type = "insert" /\ IsThere(d, r.row)
      BY <3>1 DEF RunStatement, Answer
    <3>2. CASE r.type # "insert"
      <4>1. RunStatement(d, s, r) = RunInBranch(d, x, r)
        BY <1>2, <3>2 DEF RunStatement
      <4> QED BY <1>3, <3>2, <4>1 DEF RunInBranch, Answer, StatementTypes
    <3> QED BY <1>5, <3>1, <3>2
  <2>2. Leaves(d, d, s, RowsOf(r), One(x)) /\ Works(d, d, s)
    BY <1>0, NothingServed
  <2> QED BY <1>0, <1>2, <2>1, <2>2 DEF StatementServed, RowsOf, One
<1> QED BY <1>4, <1>5

\* A statement in a local transaction.
LEMMA StatementInTransaction ==
  ASSUME NEW d, NEW s, NEW r, NEW a, Ready(d, s), IsStatement(r), a = RunStatement(d, s, r), d.sessions[s].branch = NoXid
  PROVE  StatementServed(d, a.db, s, r, a.code = 0)
<1>0. DbInv(d) /\ s \in DOMAIN d.sessions
  BY DEF Ready
<1>1. DbTypes(d) /\ BranchesInv(d) /\ RowsApart(d)
  BY <1>0 DEF DbInv
<1>2. BranchOf(d, s) = {}
  BY SessionAssumption DEF One, BranchOf
<1>3. /\ r.type \in StatementTypes /\ r.commit \in BOOLEAN
      /\ r.type = "insert" => r.row \in Changes
  BY DEF IsStatement
<1>4. CASE r.type = "insert" /\ IsThere(d, r.row)
  <2>1. a.db = d /\ a.code # 0
    BY <1>4 DEF RunStatement, Answer
  <2>2. Leaves(d, d, s, RowsOf(r), {}) /\ Works(d, d, s)
    BY <1>0, NothingServed
  <2> QED BY <1>0, <1>2, <1>4, <2>1, <2>2 DEF StatementServed
<1>5. CASE ~(r.type = "insert" /\ IsThere(d, r.row))
  <2> DEFINE f == CASE r.type = "insert" -> Inserted(d, s, r.row)
                    [] r.type = "commit" -> RowCommitted(d, s)
                    [] r.type = "rollback" -> RowRolledBack(d, s)
                    [] OTHER -> d
  <2>1. PICK g : g = f
    OBVIOUS
  <2>2. PICK e : e = IF r.commit THEN RowCommitted(g, s) ELSE g
    OBVIOUS
  <2>3. a.db = e /\ a.code = 0
    <3>1. RunStatement(d, s, r) = RunInTransaction(d, s, r)
      BY <1>5 DEF RunStatement
    <3>2. RunInTransaction(d, s, r) = Answer(e, 0)
      BY <2>1, <2>2 DEF RunInTransaction
    <3> QED BY <3>1, <3>2 DEF Answer
  <2>4. /\ DbInv(g) /\ Leaves(d, g, s, RowsOf(r), {}) /\ Works(d, g, s)
        /\ g.sessions[s].branch = NoXid
        /\ r.type = "rollback" => \A row \in d.sessions[s].changes : ~IsThere(g, row)
        /\ r.type = "commit" => d.sessions[s].changes \subseteq g.durable
        /\ r.type \in {"insert", "query"} =>
             d.sessions[s].changes \cup RowsOf(r) \subseteq g.sessions[s].changes
    <3>1. CASE r.type = "insert"
      <4>1. PICK row \in Changes : row = r.row /\ ~IsThere(d, row)
        BY <1>3, <1>5, <3>1
      <4>2. g = Inserted(d, s, row)
        BY <2>1, <3>1, <4>1
      <4>3. RowsOf(r) = One(row)
        BY <3>1, <4>1 DEF RowsOf
      <4> HIDE DEF f
      <4>4. /\ DbInv(g) /\ Leaves(d, g, s, One(row), {}) /\ Works(d, g, s)
            /\ g.sessions[s].changes = d.sessions[s].changes \cup {row}
            /\ g.sessions[s].branch = d.sessions[s].branch
        <5>1. Inserts(d, g, s, row)
          BY <4>1, <4>2 DEF Inserts
        <5> QED BY <5>1, InsertStep
      <4> QED BY <1>0, <3>1, <4>3, <4>4 DEF One
    <3>2. CASE r.type = "commit"
      <4>1. g = RowCommitted(d, s)
        BY <2>1, <3>2
      <4>2. RowsOf(r) = {}
        BY <3>2 DEF RowsOf
      <4> HIDE DEF f
      <4>3. CommitsRows(d, g, s)
        BY <4>1 DEF CommitsRows
      <4>4. /\ DbInv(g) /\ Leaves(d, g, s, {}, {}) /\ Works(d, g, s)
            /\ g.sessions[s].branch = d.sessions[s].branch
            /\ g.durable = d.durable \cup d.sessions[s].changes
        BY <4>3, CommitStep
      <4> QED BY <3>2, <4>2, <4>4
    <3>3. CASE r.type = "rollback"
      <4>1. g = RowRolledBack(d, s)
        BY <2>1, <3>3
      <4>2. RowsOf(r) = {}
        BY <3>3 DEF RowsOf
      <4> HIDE DEF f
      <4>3. /\ DbInv(g) /\ Leaves(d, g, s, {}, {}) /\ Works(d, g, s)
            /\ g.sessions[s].changes = {} /\ g.sessions[s].branch = d.sessions[s].branch
            /\ g.durable = d.durable /\ g.branches = d.branches
        <5>1. RollsBack(d, g, s)
          BY <4>1 DEF RollsBack
        <5> QED BY <5>1, RollbackStep
      <4>4. \A row \in d.sessions[s].changes : ~IsThere(g, row)
        BY <1>0, <1>1, <4>3 DEF RowsApart, Works, IsThere
      <4> QED BY <3>3, <4>2, <4>3, <4>4
    <3>4. CASE r.type = "query"
      <4>1. g = d
        BY <2>1, <3>4
      <4>2. RowsOf(r) = {}
        BY <3>4 DEF RowsOf
      <4> HIDE DEF f
      <4>3. Leaves(d, d, s, {}, {}) /\ Works(d, d, s)
        BY <1>0, NothingServed
      <4> QED BY <1>0, <3>4, <4>1, <4>2, <4>3
    <3> QED BY <1>3, <3>1, <3>2, <3>3, <3>4 DEF StatementTypes
  <2> HIDE DEF f
  <2>5. CASE ~r.commit
    <3>1. e = g
      BY <2>2, <2>5
    <3>2. Commits(r) <=> r.type = "commit"
      BY <2>5 DEF Commits
    <3>3. d.sessions[s].changes \subseteq g.sessions[s].changes \cup (IF Commits(r) THEN g.durable ELSE {})
          \/ r.type = "rollback"
      BY <1>3, <2>4, <3>2 DEF StatementTypes
    <3>4. IF r.type = "rollback" THEN \A row \in d.sessions[s].changes : ~IsThere(g, row)
          ELSE d.sessions[s].changes \cup RowsOf(r)
                 \subseteq (IF Commits(r) THEN g.durable ELSE g.sessions[s].changes)
      BY <1>3, <2>4, <3>2 DEF StatementTypes, RowsOf
    <3> QED BY <1>2, <2>3, <2>4, <3>1, <3>3, <3>4 DEF StatementServed
  <2>6. CASE r.commit
    <3>1. e = RowCommitted(g, s)
      BY <2>2, <2>6
    <3>2. DbInv(g) /\ s \in DOMAIN g.sessions /\ g.sessions[s].open
      BY <1>0, <2>4 DEF Works, Ready
    <3>3. /\ DbInv(e) /\ Leaves(g, e, s, {}, {}) /\ Works(g, e, s)
          /\ e.sessions[s].branch = g.sessions[s].branch
          /\ e.durable = g.durable \cup g.sessions[s].changes
      <4>1. CommitsRows(g, e, s)
        BY <3>1, <3>2 DEF CommitsRows, Ready
      <4> QED BY <4>1, CommitStep
    <3>4. Leaves(g, e, s, RowsOf(r), {})
      BY <3>3, LeavesMore
    <3>5. Leaves(d, e, s, RowsOf(r), {}) /\ Works(d, e, s)
      BY <2>4, <3>3, <3>4, LeavesTransitive DEF Works
    <3>6. r.type = "rollback" => \A row \in d.sessions[s].changes : ~IsThere(e, row)
      BY <2>4, <3>3 DEF Leaves
    <3>7. Commits(r)
      BY <2>6 DEF Commits
    <3>8. r.type # "rollback" => d.sessions[s].changes \cup RowsOf(r) \subseteq e.durable
      BY <1>3, <2>4, <3>3 DEF StatementTypes, RowsOf
    <3> QED BY <1>2, <2>3, <2>4, <3>3, <3>5, <3>6, <3>7, <3>8 DEF StatementServed
  <2> QED BY <1>3, <2>5, <2>6
<1> QED BY <1>4, <1>5

-----------------------------------------------------------------------------
(* Calls of the resource manager.                                          *)
XaTypes == {"XAStart", "XAEnd", "XAPrepare", "XACommit", "XARollback", "XAForget"}
IsXa(r) ==
  /\ r.type \in XaTypes /\ r.xid \in Xids
  /\ ~("SUSPEND" \in r.flags /\ "FAIL" \in r.flags)
StateAfterEnd(r) ==
  IF "SUSPEND" \in r.flags THEN "suspended" ELSE IF "FAIL" \in r.flags THEN "failed" ELSE "idle"

\* The states of a branch in which a decision about it is accepted, at most.
Servable(type) ==
  CASE type = "XAPrepare" -> {"idle"}
    [] type = "XACommit" -> {"idle", "prepared"}
    [] type = "XARollback" -> {"idle", "failed", "prepared"}
    [] OTHER -> {}

StartDone(d, e, s, x, resume) ==
  /\ d.sessions[s].branch = NoXid /\ d.sessions[s].changes = {}
  /\ d.branches[x].state = (IF resume THEN "suspended" ELSE "none")
  /\ e.sessions[s].branch = x /\ e.durable = d.durable
  /\ e.branches[x].state = "active" /\ e.branches[x].session = s
  /\ e.branches[x].changes = (IF resume THEN d.branches[x].changes ELSE {})

EndDone(d, e, s, x, state) ==
  /\ d.branches[x].state \in {"active", "suspended"} /\ d.branches[x].session = s
  /\ e.sessions[s].branch = (IF d.sessions[s].branch = x THEN NoXid ELSE d.sessions[s].branch)
  /\ e.durable = d.durable
  /\ e.branches[x].state = state /\ e.branches[x].session = s
  /\ e.branches[x].changes = d.branches[x].changes

DecisionDone(d, e, s, x, type, rc) ==
  /\ type # "XAForget" /\ d.branches[x].state \in Servable(type)
  /\ e.sessions[s].branch = d.sessions[s].branch
  /\ \/ e.branches[x] = NoBranch
     \/ type = "XAPrepare" /\ rc # "RdOnly" /\ e.branches[x].state = "prepared"
        /\ e.branches[x].changes = d.branches[x].changes
  /\ type = "XAPrepare" /\ e.branches[x] = NoBranch => rc = "RdOnly" /\ d.branches[x].changes = {}
  /\ e.durable = (IF type = "XACommit" THEN d.durable \cup d.branches[x].changes ELSE d.durable)

\* An XA request is served by session s, with or without an error.
XaServed(d, e, s, r, code, rc) ==
  /\ DbInv(e) /\ Leaves(d, e, s, {}, One(r.xid)) /\ Works(d, e, s)
  /\ e.sessions[s].changes = d.sessions[s].changes /\ e.vanished = d.vanished
  /\ code # 0 => e = d
  /\ code # 0 /\ r.type = "XAEnd" =>
       d.branches[r.xid].state \notin {"active", "suspended"} \/ d.branches[r.xid].session # s
  /\ code = 0 =>
       CASE r.type = "XAStart" -> StartDone(d, e, s, r.xid, "RESUME" \in r.flags)
         [] r.type = "XAEnd" -> EndDone(d, e, s, r.xid, StateAfterEnd(r))
         [] OTHER -> DecisionDone(d, e, s, r.xid, r.type, rc)

\* A request that is answered with an error.
LEMMA XaRefused ==
  ASSUME NEW d, NEW s, NEW r, NEW a, Ready(d, s), a.db = d, a.code # 0,
         r.type = "XAEnd" =>
           d.branches[r.xid].state \notin {"active", "suspended"} \/ d.branches[r.xid].session # s
  PROVE  XaServed(d, a.db, s, r, a.code, a.rc)
<1>1. Leaves(d, d, s, {}, One(r.xid)) /\ Works(d, d, s)
  BY NothingServed DEF Ready
<1> QED BY <1>1 DEF XaServed, Ready

\* start.
LEMMA StartServed ==
  ASSUME NEW d, NEW s, NEW r, NEW a, Ready(d, s), IsXa(r), r.type = "XAStart", a = RunStart(d, s, r)
  PROVE  XaServed(d, a.db, s, r, a.code, a.rc)
<1>1. PICK x \in Xids : x = r.xid
  BY DEF IsXa
<1>2. CASE d.sessions[s].branch # NoXid \/ d.sessions[s].changes # {}
  <2>1. a = Answer(d, 214)
    BY <1>2 DEF RunStart
  <2>2. a.db = d /\ a.code # 0
    BY <2>1 DEF Answer
  <2> QED BY <2>2, XaRefused
<1>3. CASE ~(d.sessions[s].branch # NoXid \/ d.sessions[s].changes # {}) /\ "RESUME" \in r.flags
  <2>1. CASE d.branches[x].state = "suspended" /\ d.branches[x].session = s
    <3>1. PICK e : e = Resumed(d, s, x)
      OBVIOUS
    <3>2. a = Answer(e, 0)
      BY <1>1, <1>3, <2>1, <3>1 DEF RunStart
    <3>3. a.db = e /\ a.code = 0
      BY <3>2 DEF Answer
    <3>4. Resumes(d, e, s, x)
      BY <2>1, <3>1 DEF Resumes
    <3>5. /\ DbInv(e) /\ Leaves(d, e, s, {}, One(x)) /\ Works(d, e, s)
          /\ e.sessions[s].changes = d.sessions[s].changes
          /\ e.sessions[s].branch = x
          /\ e.durable = d.durable /\ e.vanished = d.vanished
          /\ e.branches[x].state = "active" /\ e.branches[x].session = s
          /\ e.branches[x].changes = d.branches[x].changes
      BY <3>4, ResumeStep
    <3>6. StartDone(d, e, s, x, "RESUME" \in r.flags)
      BY <1>3, <2>1, <3>5 DEF StartDone
    <3> QED BY <1>1, <3>3, <3>5, <3>6 DEF XaServed
  <2>2. CASE ~(d.branches[x].state = "suspended" /\ d.branches[x].session = s)
    <3>1. a = Answer(d, 212)
      BY <1>1, <1>3, <2>2 DEF RunStart
    <3>2. a.db = d /\ a.code # 0
      BY <3>1 DEF Answer
    <3> QED BY <3>2, XaRefused
  <2> QED BY <2>1, <2>2
<1>4. CASE ~(d.sessions[s].branch # NoXid \/ d.sessions[s].changes # {}) /\ "RESUME" \notin r.flags
  <2>1. CASE d.branches[x].state = "none"
    <3>1. PICK e : e = Started(d, s, x)
      OBVIOUS
    <3>2. a = Answer(e, 0)
      BY <1>1, <1>4, <2>1, <3>1 DEF RunStart
    <3>3. a.db = e /\ a.code = 0
      BY <3>2 DEF Answer
    <3>4. Starts(d, e, s, x)
      BY <1>4, <2>1, <3>1 DEF Starts
    <3>5. /\ DbInv(e) /\ Leaves(d, e, s, {}, One(x)) /\ Works(d, e, s)
          /\ e.sessions[s].changes = d.sessions[s].changes
          /\ e.sessions[s].branch = x
          /\ e.durable = d.durable /\ e.vanished = d.vanished
          /\ e.branches[x].state = "active" /\ e.branches[x].session = s
          /\ e.branches[x].changes = {}
      BY <3>4, StartStep
    <3>6. StartDone(d, e, s, x, "RESUME" \in r.flags)
      BY <1>4, <2>1, <3>5 DEF StartDone
    <3> QED BY <1>1, <3>3, <3>5, <3>6 DEF XaServed
  <2>2. CASE d.branches[x].state # "none"
    <3>1. a = Answer(d, 210)
      BY <1>1, <1>4, <2>2 DEF RunStart
    <3>2. a.db = d /\ a.code # 0
      BY <3>1 DEF Answer
    <3> QED BY <3>2, XaRefused
  <2> QED BY <2>1, <2>2
<1> QED BY <1>2, <1>3, <1>4

\* end.
LEMMA EndServed ==
  ASSUME NEW d, NEW s, NEW r, NEW a, Ready(d, s), IsXa(r), r.type = "XAEnd", a = RunEnd(d, s, r)
  PROVE  XaServed(d, a.db, s, r, a.code, a.rc)
<1>1. PICK x \in Xids : x = r.xid
  BY DEF IsXa
<1>2. CASE d.branches[x].state \in {"active", "suspended"} /\ d.branches[x].session = s
  <2>1. PICK state \in {"suspended", "failed", "idle"} : state = StateAfterEnd(r)
    BY DEF StateAfterEnd
  <2>2. PICK e : e = WorkEnded(d, s, x, state)
    OBVIOUS
  <2>3. a = Answer(e, 0)
    <3>1. state = CASE "SUSPEND" \in r.flags -> "suspended"
                    [] "FAIL" \in r.flags -> "failed"
                    [] OTHER -> "idle"
      BY <2>1 DEF StateAfterEnd, IsXa
    <3> QED BY <1>1, <1>2, <2>2, <3>1 DEF RunEnd
  <2>4. a.db = e /\ a.code = 0
    BY <2>3 DEF Answer
  <2>5. EndsWork(d, e, s, x, state)
    BY <1>2, <2>2 DEF EndsWork
  <2>6. /\ DbInv(e) /\ Leaves(d, e, s, {}, One(x)) /\ Works(d, e, s)
        /\ e.sessions[s].changes = d.sessions[s].changes
        /\ e.sessions[s].branch = (IF d.sessions[s].branch = x THEN NoXid ELSE d.sessions[s].branch)
        /\ e.durable = d.durable /\ e.vanished = d.vanished
        /\ e.branches[x].state = state /\ e.branches[x].session = s
        /\ e.branches[x].changes = d.branches[x].changes
    BY <2>5, EndStep
  <2>7. EndDone(d, e, s, x, state)
    BY <1>2, <2>6 DEF EndDone
  <2> QED BY <1>1, <2>1, <2>4, <2>6, <2>7 DEF XaServed
<1>3. CASE ~(d.branches[x].state \in {"active", "suspended"} /\ d.branches[x].session = s)
  <2>1. a = Answer(d, 212)
    BY <1>1, <1>3 DEF RunEnd
  <2>2. a.db = d /\ a.code # 0
    BY <2>1 DEF Answer
  <2> QED BY <1>1, <1>3, <2>2, XaRefused
<1> QED BY <1>2, <1>3

\* prepare, commit, rollback and forget.
LEMMA DecisionServed ==
  ASSUME NEW d, NEW s, NEW r, NEW a, Ready(d, s), IsXa(r),
         r.type \in {"XAPrepare", "XACommit", "XARollback", "XAForget"}, a = RunDecision(d, r)
  PROVE  XaServed(d, a.db, s, r, a.code, a.rc)
<1>1. PICK x \in Xids : x = r.xid
  BY DEF IsXa
<1>2. d.branches[x] \in [state : States, changes : SUBSET Changes, session : Nat]
  BY DEF Ready, DbInv, DbTypes
<1>3. CASE r.type = "XAPrepare" /\ d.branches[x].state = "idle"
  <2>1. CASE d.branches[x].changes = {}
    <3>1. PICK e : e = Decided(d, x)
      OBVIOUS
    <3>2. a = [Answer(e, 0) EXCEPT !.rc = "RdOnly"]
      BY <1>1, <1>3, <2>1, <3>1 DEF RunDecision
    <3>3. a.db = e /\ a.code = 0 /\ a.rc = "RdOnly"
      BY <3>2 DEF Answer
    <3>4. Decides(d, e, s, x)
      BY <1>3, <3>1 DEF Decides
    <3>5. /\ DbInv(e) /\ Leaves(d, e, s, {}, One(x)) /\ Works(d, e, s)
          /\ e.sessions[s].changes = d.sessions[s].changes
          /\ e.sessions[s].branch = d.sessions[s].branch
          /\ e.durable = d.durable /\ e.vanished = d.vanished
          /\ e.branches[x] = NoBranch
      BY <3>4, DecideStep
    <3>6. DecisionDone(d, e, s, x, r.type, "RdOnly")
      BY <1>3, <2>1, <3>5 DEF DecisionDone, Servable
    <3> QED BY <1>1, <1>3, <3>3, <3>5, <3>6 DEF XaServed
  <2>2. CASE d.branches[x].changes # {}
    <3>1. PICK e : e = PreparedToCommit(d, x)
      OBVIOUS
    <3>2. a = Answer(e, 0)
      BY <1>1, <1>3, <2>2, <3>1 DEF RunDecision
    <3>3. a.db = e /\ a.code = 0 /\ a.rc = "Ok"
      BY <3>2 DEF Answer
    <3>4. Prepares(d, e, s, x)
      BY <1>3, <3>1 DEF Prepares
    <3>5. /\ DbInv(e) /\ Leaves(d, e, s, {}, One(x)) /\ Works(d, e, s)
          /\ e.sessions[s].changes = d.sessions[s].changes
          /\ e.sessions[s].branch = d.sessions[s].branch
          /\ e.durable = d.durable /\ e.vanished = d.vanished
          /\ e.branches[x].state = "prepared" /\ e.branches[x].changes = d.branches[x].changes
      BY <3>4, PrepareStep
    <3>6. e.branches[x] # NoBranch
      BY <3>5 DEF NoBranch
    <3>7. DecisionDone(d, e, s, x, r.type, "Ok")
      BY <1>3, <3>5, <3>6 DEF DecisionDone, Servable
    <3> QED BY <1>1, <1>3, <3>3, <3>5, <3>7 DEF XaServed
  <2> QED BY <2>1, <2>2
<1>4. CASE r.type = "XACommit" /\ d.branches[x].state = (IF "ONE_PHASE" \in r.flags THEN "idle" ELSE "prepared")
  <2>1. PICK e : e = BranchCommitted(d, x)
    OBVIOUS
  <2>2. a = Answer(e, 0)
    BY <1>1, <1>4, <2>1 DEF RunDecision
  <2>3. a.db = e /\ a.code = 0
    BY <2>2 DEF Answer
  <2>4. d.branches[x].state \in {"idle", "prepared"}
    BY <1>4
  <2>5. CommitsBranch(d, e, s, x)
    BY <2>1, <2>4 DEF CommitsBranch
  <2>6. /\ DbInv(e) /\ Leaves(d, e, s, {}, One(x)) /\ Works(d, e, s)
        /\ e.sessions[s].changes = d.sessions[s].changes
        /\ e.sessions[s].branch = d.sessions[s].branch
        /\ e.durable = d.durable \cup d.branches[x].changes /\ e.vanished = d.vanished
        /\ e.branches[x] = NoBranch
    BY <2>5, BranchCommitStep
  <2>7. DecisionDone(d, e, s, x, r.type, a.rc)
    BY <1>4, <2>4, <2>6 DEF DecisionDone, Servable
  <2> QED BY <1>1, <1>4, <2>3, <2>6, <2>7 DEF XaServed
<1>5. CASE r.type = "XARollback" /\ d.branches[x].state \in {"idle", "failed", "prepared"}
  <2>1. PICK e : e = Decided(d, x)
    OBVIOUS
  <2>2. a = Answer(e, 0)
    BY <1>1, <1>5, <2>1 DEF RunDecision
  <2>3. a.db = e /\ a.code = 0
    BY <2>2 DEF Answer
  <2>4. Decides(d, e, s, x)
    BY <1>5, <2>1 DEF Decides
  <2>5. /\ DbInv(e) /\ Leaves(d, e, s, {}, One(x)) /\ Works(d, e, s)
        /\ e.sessions[s].changes = d.sessions[s].changes
        /\ e.sessions[s].branch = d.sessions[s].branch
        /\ e.durable = d.durable /\ e.vanished = d.vanished
        /\ e.branches[x] = NoBranch
    BY <2>4, DecideStep
  <2>6. DecisionDone(d, e, s, x, r.type, a.rc)
    BY <1>5, <2>5 DEF DecisionDone, Servable
  <2> QED BY <1>1, <1>5, <2>3, <2>5, <2>6 DEF XaServed
<1>6. CASE /\ ~(r.type = "XAPrepare" /\ d.branches[x].state = "idle")
           /\ ~(r.type = "XACommit" /\ d.branches[x].state = (IF "ONE_PHASE" \in r.flags THEN "idle" ELSE "prepared"))
           /\ ~(r.type = "XARollback" /\ d.branches[x].state \in {"idle", "failed", "prepared"})
  <2>1. a \in {Answer(d, 212), Answer(d, 214)}
    BY <1>1, <1>6 DEF RunDecision
  <2>2. a.db = d /\ a.code # 0
    BY <2>1 DEF Answer
  <2>3. r.type # "XAEnd"
    OBVIOUS
  <2> QED BY <2>2, <2>3, XaRefused
<1> QED BY <1>3, <1>4, <1>5, <1>6

\* Whatever the resource manager asks for.
LEMMA XaRun ==
  ASSUME NEW d, NEW s, NEW r, NEW a, Ready(d, s), IsXa(r), a = Run(d, s, r)
  PROVE  XaServed(d, a.db, s, r, a.code, a.rc)
<1>1. r.type \in XaTypes
  BY DEF IsXa
<1>2. CASE r.type = "XAStart"
  <2>1. a = RunStart(d, s, r)
    BY <1>2 DEF Run
  <2> QED BY <1>2, <2>1, StartServed
<1>3. CASE r.type = "XAEnd"
  <2>1. a = RunEnd(d, s, r)
    BY <1>3 DEF Run
  <2> QED BY <1>3, <2>1, EndServed
<1>4. CASE r.type \in {"XAPrepare", "XACommit", "XARollback", "XAForget"}
  <2>1. a = RunDecision(d, r)
    BY <1>4 DEF Run
  <2> QED BY <1>4, <2>1, DecisionServed
<1> QED BY <1>1, <1>2, <1>3, <1>4 DEF XaTypes

\* Whatever statement is executed.
LEMMA StatementRun ==
  ASSUME NEW d, NEW s, NEW r, NEW a, Ready(d, s), IsStatement(r), a = Run(d, s, r)
  PROVE  StatementServed(d, a.db, s, r, a.code = 0)
<1>1. a = RunStatement(d, s, r)
  BY DEF Run, IsStatement, StatementTypes
<1>2. d.sessions[s].branch \in Xids \cup {NoXid}
  BY DEF Ready, DbInv, DbTypes
<1>3. CASE d.sessions[s].branch = NoXid
  BY <1>1, <1>3, StatementInTransaction
<1>4. CASE d.sessions[s].branch \in Xids
  <2>1. PICK x \in Xids : x = d.sessions[s].branch
    BY <1>4
  <2> QED BY <1>1, <2>1, StatementInBranch
<1> QED BY <1>2, <1>3, <1>4

-----------------------------------------------------------------------------
(* What the program counts on.                                             *)

Fates == {"none", "started", "suspended", "ended", "failing", "prepared", "readonly",
          "committed", "rolledback", "indoubt"}

ToldTypes(tl) ==
  /\ DOMAIN tl = {"expects", "acked", "promised", "undone", "branchOf", "inBranch", "fate", "missed"}
  /\ tl.expects \in [Conns -> BOOLEAN] /\ tl.acked \in [Conns -> SUBSET Changes]
  /\ tl.promised \subseteq Changes /\ tl.undone \subseteq Changes
  /\ tl.branchOf \in [Conns -> Xids \cup {NoXid}] /\ tl.inBranch \in [Xids -> SUBSET Changes]
  /\ tl.fate \in [Xids -> Fates] /\ tl.missed = {}

\* A connection has a session of its own, or none (0).
ConnsInv(d, cn, tl) ==
  /\ DOMAIN cn = Conns
  /\ \A k \in Conns :
       /\ DOMAIN cn[k] = {"locale", "options", "autoCommit", "session"}
       /\ cn[k].session # 0 => cn[k].session \in DOMAIN d.sessions
       /\ tl.expects[k] = cn[k].autoCommit
       /\ cn[k].session = 0 => cn[k].autoCommit = TRUE
       /\ \A j \in Conns : cn[k].session # 0 /\ j # k => cn[j].session # cn[k].session

PromisesInv(d, tl) ==
  /\ tl.promised \subseteq d.durable \cup d.vanished
  /\ \A row \in tl.undone : ~IsThere(d, row)

\* Where the rows A are that the user of session s counts on, as long as it is
\* in branch b (or none), and request r is executed or has been executed.
CountsOn(d, s, A, b, r) ==
  /\ b # NoXid => A \subseteq d.vanished
  /\ IF r.type = "rollback" THEN \A row \in A : row \in d.sessions[s].changes \/ ~IsThere(d, row)
     ELSE \A row \in A :
            \/ row \in d.sessions[s].changes \/ row \in d.vanished
            \/ r.type \in StatementTypes /\ Commits(r) /\ row \in d.durable

\* The branch of session s, as the program sees it (b).
BranchFits(d, s, b, fate) ==
  /\ d.sessions[s].branch = NoXid \/ d.sessions[s].branch = b
  /\ b # NoXid => /\ d.sessions[s].branch = b \/ d.branches[b].state = "none"
                  /\ fate[b] \in {"started", "indoubt"}

\* What a branch may be on the server.
MayBe ==
  [none |-> {"none"}, started |-> {"active", "none"}, suspended |-> {"suspended", "none"},
   ended |-> {"idle", "none"}, failing |-> {"failed", "none"}, prepared |-> {"prepared"},
   readonly |-> {"none"}, committed |-> {"none"}, rolledback |-> {"none"}, indoubt |-> States]

FateFits(d, x, fate, rows) ==
  /\ d.branches[x].state \in MayBe[fate]
  /\ d.branches[x].state # "none" => d.branches[x].changes = rows
  /\ fate = "committed" => rows \subseteq d.durable
  /\ fate = "readonly" => rows = {}
  /\ fate \in {"rolledback", "failing", "ended", "prepared"} =>
       \A row \in rows : ~IsElsewhere(d, x, row)

\* While request r is under way, its decision may have been executed: then it
\* is not executed again.
FateDuring(d, x, fate, rows, r) ==
  \/ FateFits(d, x, fate, rows)
  \/ /\ r.type \in XaTypes \ {"XAEnd"} /\ x = r.xid /\ fate \in Doubt(r.type)
     /\ d.branches[x].state \notin Servable(r.type)
     /\ FateFits(d, x, "indoubt", rows)

\* What the options of connections and sessions must be.
SessionOptions(d) ==
  \A s \in DOMAIN d.sessions :
    LET o == d.sessions[s].options IN
    /\ o.OSUser = OsUserName /\ o.DataFormatVersion2 = 8
    /\ IF d.sessions[s].replaces = 0 THEN "OriginalAnchorConnectionID" \notin DOMAIN o
       ELSE o.OriginalAnchorConnectionID = d.sessions[s].replaces

Localized(o, locale) ==
  IF locale = None THEN "ClientLocale" \notin DOMAIN o
  ELSE "ClientLocale" \in DOMAIN o /\ o.ClientLocale = locale

ClientOptions(d, c) ==
  /\ {"ConnectionID", "OSUser", "DataFormatVersion2"} \subseteq DOMAIN c.options
  /\ c.options.ConnectionID = c.session
  /\ Localized(d.sessions[c.session].options, c.locale) /\ Localized(c.options, c.locale)
  /\ c.options.OSUser = OsUserName /\ c.options.DataFormatVersion2 = 8
  /\ "OriginalAnchorConnectionID" \notin DOMAIN c.options

OptionsInv(d, cn) ==
  SessionOptions(d) /\ \A k \in Conns : cn[k].session # 0 => ClientOptions(d, cn[k])

\* The request of a connection that is in no call.
Nothing == [type |-> "none"]
RequestOf(j, k, r) == IF j = k THEN r ELSE Nothing

\* Connection k is in the middle of a call with request r.
CallInv(d, cn, tl, k, r) ==
  /\ DbInv(d) /\ ToldTypes(tl) /\ ConnsInv(d, cn, tl) /\ OptionsInv(d, cn) /\ PromisesInv(d, tl)
  /\ \A j \in Conns : cn[j].session # 0 =>
       /\ CountsOn(d, cn[j].session, tl.acked[j], tl.branchOf[j], RequestOf(j, k, r))
       /\ BranchFits(d, cn[j].session, tl.branchOf[j], tl.fate)
  /\ \A x \in Xids : FateDuring(d, x, tl.fate[x], tl.inBranch[x], r)

\* Who may use a connection.
UseInv ==
  /\ \A k \in Conns : ~Exists(k) \/ k \in pool => told.acked[k] = {} /\ told.branchOf[k] = NoXid
  /\ pool \subseteq Conns /\ \A k \in pool : Exists(k)
  /\ at \in [Threads -> Conns \cup {Idle}]
  /\ \A t \in Threads : at[t] # Idle => Exists(at[t]) /\ at[t] \notin pool

SessionInv == CallInv(db, conn, told, First, Nothing) /\ UseInv

-----------------------------------------------------------------------------
(* A session is lost.                                                      *)
\* The rows of a session that is lost have vanished.
LEMMA LostCounts ==
  ASSUME NEW d, NEW e, NEW s, NEW q, NEW A, NEW b, NEW r, DbInv(d), DbInv(e),
         s \in DOMAIN d.sessions, q \in DOMAIN d.sessions,
         HasEnded(d, e, s), Leaves(d, e, s, {}, {}), CountsOn(d, q, A, b, r)
  PROVE  CountsOn(e, q, A, b, r)
<1>1. /\ e.durable = d.durable /\ e.vanished = d.vanished \cup d.sessions[s].changes
      /\ \A p \in DOMAIN d.sessions : p # s => e.sessions[p] = d.sessions[p]
  BY DEF HasEnded
<1>2. \A row : row \in e.vanished => ~IsThere(e, row)
  BY DEF DbInv, RowsApart, IsThere
<1>3. \A row : row \in d.sessions[q].changes => row \in e.sessions[q].changes \/ row \in e.vanished
  BY <1>1
<1>4. \A row : IsThere(e, row) => IsThere(d, row)
  BY DEF Leaves
<1> QED BY <1>1, <1>2, <1>3, <1>4 DEF CountsOn

\* The branch of a session that is lost has not begun.
LEMMA LostBranch ==
  ASSUME NEW d, NEW e, NEW s, NEW q, NEW b, NEW fate, DbInv(d),
         s \in DOMAIN d.sessions, q \in DOMAIN d.sessions, b \in Xids \cup {NoXid},
         HasEnded(d, e, s), BranchFits(d, q, b, fate)
  PROVE  BranchFits(e, q, b, fate)
<1>1. /\ e.sessions[s].branch = NoXid
      /\ \A p \in DOMAIN d.sessions : p # s => e.sessions[p] = d.sessions[p]
      /\ e.branches = [x \in Xids |-> IF d.branches[x].session = s /\ d.branches[x].state # "prepared"
                                      THEN NoBranch ELSE d.branches[x]]
  BY DEF HasEnded
<1>2. \A x \in Xids : d.sessions[s].branch = x => d.branches[x].state = "active" /\ d.branches[x].session = s
  BY DEF DbInv, BranchesInv
<1>3. \A x \in Xids : d.branches[x].state = "none" => e.branches[x].state = "none"
  BY <1>1 DEF NoBranch
<1>4. \A x \in Xids : d.sessions[s].branch = x => e.branches[x].state = "none"
  BY <1>1, <1>2 DEF NoBranch
<1> QED BY <1>1, <1>3, <1>4 DEF BranchFits

\* A branch that is lost may be "none", unless it is prepared.
LEMMA NoneMayBe ==
  ASSUME NEW fate \in Fates, NEW state \in MayBe[fate], state # "prepared"
  PROVE  "none" \in MayBe[fate]
BY DEF MayBe, Fates, States

\* Steps in which a branch does not take part do not change what is known of it.
LEMMA FateKept ==
  ASSUME NEW d, NEW e, NEW s, NEW R, NEW X, NEW x, NEW fate, NEW rows, x \in Xids, x \notin X,
         fate \in Fates, Leaves(d, e, s, R, X), rows \cap R = {}, FateFits(d, x, fate, rows)
  PROVE  FateFits(e, x, fate, rows)
<1>1. /\ d.durable \subseteq e.durable
      /\ \A row : IsElsewhere(e, x, row) => row \in R \/ IsElsewhere(d, x, row)
      /\ \/ e.branches[x] = d.branches[x]
         \/ e.branches[x] = NoBranch /\ d.branches[x].state # "prepared"
  BY DEF Leaves
<1>2. e.branches[x].state \in MayBe[fate]
  BY <1>1, NoneMayBe DEF FateFits, NoBranch
<1>3. e.branches[x].state # "none" => e.branches[x].changes = rows
  BY <1>1 DEF FateFits, NoBranch
<1> QED BY <1>1, <1>2, <1>3 DEF FateFits

\* The same during a call.
LEMMA FateDuringKept ==
  ASSUME NEW d, NEW e, NEW s, NEW R, NEW X, NEW x, NEW fate, NEW rows, NEW r, x \in Xids, x \notin X,
         fate \in Fates, Leaves(d, e, s, R, X), rows \cap R = {}, FateDuring(d, x, fate, rows, r)
  PROVE  FateDuring(e, x, fate, rows, r)
<1>1. CASE FateFits(d, x, fate, rows)
  <2>1. FateFits(e, x, fate, rows)
    BY <1>1, FateKept
  <2> QED BY <2>1 DEF FateDuring
<1>2. CASE ~FateFits(d, x, fate, rows)
  <2>1. /\ r.type \in XaTypes \ {"XAEnd"} /\ x = r.xid /\ fate \in Doubt(r.type)
        /\ d.branches[x].state \notin Servable(r.type)
        /\ FateFits(d, x, "indoubt", rows)
    BY <1>2 DEF FateDuring
  <2>2. "indoubt" \in Fates
    BY DEF Fates
  <2>3. FateFits(e, x, "indoubt", rows)
    BY <2>1, <2>2, FateKept
  <2>4. "none" \notin Servable(r.type)
    BY <2>1 DEF Servable, XaTypes
  <2>5. e.branches[x] = d.branches[x] \/ e.branches[x] = NoBranch
    BY DEF Leaves
  <2>6. e.branches[x].state \notin Servable(r.type)
    BY <2>1, <2>4, <2>5 DEF NoBranch
  <2> QED BY <2>1, <2>3, <2>6 DEF FateDuring
<1> QED BY <1>1, <1>2

\* A decision that was executed is not executed again when a session is lost.
LEMMA LostFate ==
  ASSUME NEW d, NEW e, NEW s, NEW x, NEW fate, NEW rows, NEW r, x \in Xids, fate \in Fates,
         Leaves(d, e, s, {}, {}), FateDuring(d, x, fate, rows, r)
  PROVE  FateDuring(e, x, fate, rows, r)
BY FateDuringKept

\* What is promised stays so, if no such row is inserted.
LEMMA PromisesKept ==
  ASSUME NEW d, NEW e, NEW s, NEW R, NEW X, NEW tl, Leaves(d, e, s, R, X), PromisesInv(d, tl),
         tl.promised \cap R = {}, tl.undone \cap R = {}
  PROVE  PromisesInv(e, tl)
BY DEF Leaves, PromisesInv

\* The options of the sessions stay.
LEMMA OptionsKept ==
  ASSUME NEW d, NEW e, NEW s, NEW R, NEW X, NEW cn, Leaves(d, e, s, R, X), OptionsInv(d, cn),
         DOMAIN e.sessions = DOMAIN d.sessions,
         \A k \in Conns : cn[k].session # 0 => cn[k].session \in DOMAIN d.sessions
  PROVE  OptionsInv(e, cn)
<1>1. \A q \in DOMAIN d.sessions :
        e.sessions[q].options = d.sessions[q].options /\ e.sessions[q].replaces = d.sessions[q].replaces
  BY DEF Leaves
<1>2. SessionOptions(e)
  BY <1>1 DEF OptionsInv, SessionOptions
<1>3. \A k \in Conns : cn[k].session # 0 => ClientOptions(e, cn[k])
  BY <1>1 DEF OptionsInv, ClientOptions, Localized
<1> QED BY <1>2, <1>3 DEF OptionsInv

\* A session that ends, when the branches have been looked at.
LEMMA EndsInv ==
  ASSUME NEW e, NEW f, NEW s, NEW cn, NEW tl, NEW k, NEW r,
         DbInv(e), ToldTypes(tl), ConnsInv(e, cn, tl), OptionsInv(e, cn), PromisesInv(e, tl),
         s \in DOMAIN e.sessions, HasEnded(e, f, s),
         \A j \in Conns : cn[j].session # 0 =>
           /\ CountsOn(e, cn[j].session, tl.acked[j], tl.branchOf[j], RequestOf(j, k, r))
           /\ BranchFits(f, cn[j].session, tl.branchOf[j], tl.fate),
         \A x \in Xids : FateDuring(f, x, tl.fate[x], tl.inBranch[x], r)
  PROVE  CallInv(f, cn, tl, k, r)
<1>1. DbInv(f) /\ Leaves(e, f, s, {}, {})
  BY EndedStep
<1>2. DOMAIN f.sessions = DOMAIN e.sessions
  BY DEF HasEnded
<1>3. ConnsInv(f, cn, tl)
  BY <1>2 DEF ConnsInv
<1>4. OptionsInv(f, cn)
  BY <1>1, <1>2, OptionsKept DEF ConnsInv
<1>5. PromisesInv(f, tl)
  BY <1>1, PromisesKept
<1>6. ASSUME NEW j \in Conns, cn[j].session # 0
      PROVE  CountsOn(f, cn[j].session, tl.acked[j], tl.branchOf[j], RequestOf(j, k, r))
  <2>1. PICK q : q = cn[j].session
    OBVIOUS
  <2>2. q \in DOMAIN e.sessions
    BY <1>6, <2>1 DEF ConnsInv
  <2>3. CountsOn(e, q, tl.acked[j], tl.branchOf[j], RequestOf(j, k, r))
    BY <1>6, <2>1
  <2>4. CountsOn(f, q, tl.acked[j], tl.branchOf[j], RequestOf(j, k, r))
    BY <1>1, <2>2, <2>3, LostCounts
  <2> QED BY <2>1, <2>4
<1> QED BY <1>1, <1>3, <1>4, <1>5, <1>6 DEF CallInv

\* A session that is lost, whoever uses it.
LEMMA LostInv ==
  ASSUME NEW d, NEW s, NEW cn, NEW tl, NEW k, NEW r, CallInv(d, cn, tl, k, r), s \in DOMAIN d.sessions
  PROVE  CallInv(Ended(d, s), cn, tl, k, r)
<1>1. PICK e : e = Ended(d, s)
  OBVIOUS
<1>2. DbInv(d) /\ ToldTypes(tl) /\ ConnsInv(d, cn, tl) /\ OptionsInv(d, cn) /\ PromisesInv(d, tl)
  BY DEF CallInv
<1>3. HasEnded(d, e, s)
  BY <1>1, <1>2, EndedIs DEF DbInv
<1>4. Leaves(d, e, s, {}, {})
  BY <1>2, <1>3, EndedStep
<1>5. ASSUME NEW j \in Conns, cn[j].session # 0
      PROVE  /\ CountsOn(d, cn[j].session, tl.acked[j], tl.branchOf[j], RequestOf(j, k, r))
             /\ BranchFits(e, cn[j].session, tl.branchOf[j], tl.fate)
  <2>1. PICK q : q = cn[j].session
    OBVIOUS
  <2>2. q \in DOMAIN d.sessions /\ tl.branchOf[j] \in Xids \cup {NoXid}
    BY <1>2, <1>5, <2>1 DEF ConnsInv, ToldTypes
  <2>3. BranchFits(d, q, tl.branchOf[j], tl.fate)
    BY <1>5, <2>1 DEF CallInv
  <2>4. BranchFits(e, q, tl.branchOf[j], tl.fate)
    BY <1>2, <1>3, <2>2, <2>3, LostBranch
  <2> QED BY <1>5, <2>1, <2>4 DEF CallInv
<1>6. ASSUME NEW x \in Xids
      PROVE  FateDuring(e, x, tl.fate[x], tl.inBranch[x], r)
  <2>1. FateDuring(d, x, tl.fate[x], tl.inBranch[x], r) /\ tl.fate[x] \in Fates
    BY <1>2 DEF CallInv, ToldTypes
  <2> QED BY <1>4, <2>1, LostFate
<1>7. CallInv(e, cn, tl, k, r)
  BY <1>2, <1>3, <1>5, <1>6, EndsInv
<1> QED BY <1>1, <1>7

-----------------------------------------------------------------------------
(* A call begins.                                                          *)
\* Whoever is in no call may begin one.
LEMMA CallBegins ==
  ASSUME NEW d, NEW cn, NEW tl, NEW i, NEW k, NEW r, CallInv(d, cn, tl, i, Nothing)
  PROVE  CallInv(d, cn, tl, k, r)
<1>1. DbInv(d) /\ ToldTypes(tl) /\ ConnsInv(d, cn, tl) /\ OptionsInv(d, cn) /\ PromisesInv(d, tl)
  BY DEF CallInv
<1>2. ASSUME NEW j \in Conns, cn[j].session # 0
      PROVE  /\ CountsOn(d, cn[j].session, tl.acked[j], tl.branchOf[j], RequestOf(j, k, r))
             /\ BranchFits(d, cn[j].session, tl.branchOf[j], tl.fate)
  <2>1. /\ CountsOn(d, cn[j].session, tl.acked[j], tl.branchOf[j], Nothing)
        /\ BranchFits(d, cn[j].session, tl.branchOf[j], tl.fate)
    BY <1>2 DEF CallInv, RequestOf
  <2>2. \A row \in tl.acked[j] : row \in d.sessions[cn[j].session].changes \/ row \in d.vanished
    BY <2>1 DEF CountsOn, Nothing, StatementTypes
  <2>3. \A row : row \in d.vanished => ~IsThere(d, row)
    BY <1>1 DEF DbInv, RowsApart, IsThere
  <2>4. CountsOn(d, cn[j].session, tl.acked[j], tl.branchOf[j], RequestOf(j, k, r))
    BY <2>1, <2>2, <2>3 DEF CountsOn
  <2> QED BY <2>1, <2>4
<1>3. ASSUME NEW x \in Xids
      PROVE  FateDuring(d, x, tl.fate[x], tl.inBranch[x], r)
  BY DEF CallInv, FateDuring, Nothing, XaTypes
<1> QED BY <1>1, <1>2, <1>3 DEF CallInv

-----------------------------------------------------------------------------
(* A session takes the place of one that was lost.                         *)
\* The options that a client sends when it reconnects.
LEMMA OptionsToSend ==
  ASSUME NEW d, NEW c, NEW o, ClientOptions(d, c),
         o = Over([OriginalAnchorConnectionID |-> c.options.ConnectionID], c.options)
  PROVE  /\ o.OSUser = OsUserName /\ o.DataFormatVersion2 = 8
         /\ o.OriginalAnchorConnectionID = c.session
         /\ Localized(o, c.locale)
<1>1. PICK p : p = c.options
  OBVIOUS
<1>2. /\ {"ConnectionID", "OSUser", "DataFormatVersion2"} \subseteq DOMAIN p
      /\ p.ConnectionID = c.session /\ p.OSUser = OsUserName /\ p.DataFormatVersion2 = 8
      /\ Localized(p, c.locale)
  BY <1>1 DEF ClientOptions
<1>3. o = [id \in DOMAIN p \cup {"OriginalAnchorConnectionID"} |->
             IF id = "OriginalAnchorConnectionID" THEN p.ConnectionID ELSE p[id]]
  BY <1>1 DEF Over
<1>4. /\ DOMAIN o = DOMAIN p \cup {"OriginalAnchorConnectionID"}
      /\ o.OriginalAnchorConnectionID = p.ConnectionID
      /\ \A id \in DOMAIN p \ {"OriginalAnchorConnectionID"} : o[id] = p[id]
  BY <1>3
<1>5. o.OSUser = OsUserName /\ o.DataFormatVersion2 = 8
  BY <1>2, <1>4
<1>6. Localized(o, c.locale)
  BY <1>2, <1>4 DEF Localized
<1> QED BY <1>2, <1>4, <1>5, <1>6

\* The options that a client has when the server has answered.
LEMMA OptionsDigested ==
  ASSUME NEW c, NEW n, NEW o, NEW p, p = c.options,
         o = DigestServerConnectOptions(p, ServerOptions(n)),
         {"OSUser", "DataFormatVersion2"} \subseteq DOMAIN p,
         p.OSUser = OsUserName, Localized(p, c.locale),
         "OriginalAnchorConnectionID" \notin DOMAIN p
  PROVE  /\ {"ConnectionID", "OSUser", "DataFormatVersion2"} \subseteq DOMAIN o
         /\ o.ConnectionID = n /\ o.OSUser = OsUserName /\ o.DataFormatVersion2 = 8
         /\ Localized(o, c.locale) /\ "OriginalAnchorConnectionID" \notin DOMAIN o
<1>1. PICK v : v = ServerOptions(n)
  OBVIOUS
<1>2. /\ DOMAIN v \cap Accepted = {"ConnectionID", "ClientReconnectWaitTimeout", "DataFormatVersion2", "FullVersionString"}
      /\ v.ConnectionID = n /\ v.DataFormatVersion2 = 8
  BY <1>1 DEF ServerOptions, Accepted
<1>3. PICK u : u = [id \in DOMAIN v \cap Accepted |-> v[id]]
  OBVIOUS
<1>4. o = Over(u, p)
  BY <1>1, <1>3 DEF DigestServerConnectOptions
<1>5. DOMAIN u = {"ConnectionID", "ClientReconnectWaitTimeout", "DataFormatVersion2", "FullVersionString"}
  BY <1>2, <1>3
<1>6. u.ConnectionID = n /\ u.DataFormatVersion2 = 8
  BY <1>2, <1>3
<1>7. /\ DOMAIN o = DOMAIN u \cup DOMAIN p
      /\ \A id \in DOMAIN u : o[id] = u[id]
      /\ \A id \in DOMAIN p \ DOMAIN u : o[id] = p[id]
  BY <1>4 DEF Over
<1>8. /\ {"ConnectionID", "OSUser", "DataFormatVersion2"} \subseteq DOMAIN o
      /\ o.ConnectionID = n /\ o.OSUser = OsUserName /\ o.DataFormatVersion2 = 8
  BY <1>5, <1>6, <1>7
<1>9. Localized(o, c.locale) /\ "OriginalAnchorConnectionID" \notin DOMAIN o
  BY <1>5, <1>7 DEF Localized
<1> QED BY <1>8, <1>9

\* The options of a new connection.
LEMMA OptionsForServer ==
  ASSUME NEW locale, NEW p, p = ForServer(locale)
  PROVE  /\ {"OSUser", "DataFormatVersion2"} \subseteq DOMAIN p
         /\ p.OSUser = OsUserName /\ p.DataFormatVersion2 = 8 /\ Localized(p, locale)
         /\ "OriginalAnchorConnectionID" \notin DOMAIN p
<1>1. CASE locale = None
  <2>1. PICK u : u = [ClientReconnectWaitTimeout |-> 678, DataFormatVersion2 |-> 8, OSUser |-> OsUserName]
    OBVIOUS
  <2>2. p = Over(u, << >>)
    BY <1>1, <2>1 DEF ForServer
  <2>3. DOMAIN p = {"ClientReconnectWaitTimeout", "DataFormatVersion2", "OSUser"}
        /\ p.OSUser = OsUserName /\ p.DataFormatVersion2 = 8
    BY <2>1, <2>2 DEF Over
  <2> QED BY <1>1, <2>3 DEF Localized
<1>2. CASE locale # None
  <2>1. PICK u : u = [ClientReconnectWaitTimeout |-> 678, DataFormatVersion2 |-> 8, OSUser |-> OsUserName]
    OBVIOUS
  <2>2. PICK v : v = [ClientLocale |-> locale]
    OBVIOUS
  <2>3. p = Over(u, v)
    BY <1>2, <2>1, <2>2 DEF ForServer
  <2>4. /\ DOMAIN p = {"ClientReconnectWaitTimeout", "DataFormatVersion2", "OSUser", "ClientLocale"}
        /\ p.OSUser = OsUserName /\ p.DataFormatVersion2 = 8 /\ p.ClientLocale = locale
    BY <2>1, <2>2, <2>3 DEF Over
  <2> QED BY <1>2, <2>4 DEF Localized
<1> QED BY <1>1, <1>2

\* The connections, with b as connection k.
With(cn, k, b) == [cn EXCEPT ![k] = b]

\* A connection b that uses session n, which has just been opened with the
\* options o in place of session s.
SessionJoins(b, n, o, s) ==
  /\ DOMAIN b = {"locale", "options", "autoCommit", "session"} /\ b.session = n
  /\ o.OSUser = OsUserName /\ o.DataFormatVersion2 = 8 /\ Localized(o, b.locale)
  /\ IF s = 0 THEN "OriginalAnchorConnectionID" \notin DOMAIN o
     ELSE o.OriginalAnchorConnectionID = s
  /\ {"ConnectionID", "OSUser", "DataFormatVersion2"} \subseteq DOMAIN b.options
  /\ b.options.ConnectionID = n /\ b.options.OSUser = OsUserName
  /\ b.options.DataFormatVersion2 = 8 /\ Localized(b.options, b.locale)
  /\ "OriginalAnchorConnectionID" \notin DOMAIN b.options

\* A session n is opened for connection k, which has none or a lost one.
LEMMA SessionOpened ==
  ASSUME NEW d, NEW cn, NEW tl, NEW k \in Conns, NEW r, NEW o, NEW c, NEW b, NEW e, NEW n,
         CallInv(d, cn, tl, k, r), IsOpened(d, e, n, o, c), SessionJoins(b, n, o, c.session),
         b.autoCommit = tl.expects[k],
         cn[k].session = 0 => tl.acked[k] = {} /\ tl.branchOf[k] = NoXid,
         cn[k].session # 0 => ~IsOpen(d, cn[k].session)
  PROVE  /\ CallInv(e, With(cn, k, b), tl, k, r)
         /\ b.session # 0 /\ IsOpen(e, b.session)
<1>1. DbInv(d) /\ ToldTypes(tl) /\ ConnsInv(d, cn, tl) /\ OptionsInv(d, cn) /\ PromisesInv(d, tl)
  BY DEF CallInv
<1>2. DbInv(e) /\ Leaves(d, e, n, {}, {}) /\ HasOpened(d, e, n, o, c.session)
  BY <1>1, OpenedStep
<1> USE DEF HasOpened
<1>3. n # 0
  BY <1>2
<1>4. PICK m : m = With(cn, k, b)
  OBVIOUS
<1>5. DOMAIN cn = Conns
  BY <1>1 DEF ConnsInv
<1>6. DOMAIN m = Conns /\ m[k] = b /\ \A j \in Conns : j # k => m[j] = cn[j]
  BY <1>4, <1>5 DEF With
<1>7. \A j \in Conns : cn[j].session # 0 => cn[j].session \in DOMAIN d.sessions
  BY <1>1 DEF ConnsInv
<1>8. DOMAIN b = {"locale", "options", "autoCommit", "session"} /\ b.session = n
  BY DEF SessionJoins
<1>9. ConnsInv(e, m, tl)
  BY <1>1, <1>2, <1>3, <1>6, <1>7, <1>8 DEF ConnsInv
<1>10. SessionOptions(e)
  BY <1>1, <1>2 DEF OptionsInv, SessionOptions, SessionJoins
<1>11. ClientOptions(e, b)
  BY <1>2, <1>8 DEF SessionJoins, ClientOptions
<1>12. ASSUME NEW j \in Conns, j # k, m[j].session # 0
       PROVE  ClientOptions(e, m[j])
  BY <1>1, <1>2, <1>6, <1>7, <1>12 DEF OptionsInv, ClientOptions
<1>13. OptionsInv(e, m)
  BY <1>6, <1>10, <1>11, <1>12 DEF OptionsInv
<1>14. PromisesInv(e, tl)
  BY <1>1, <1>2, PromisesKept
<1>15. /\ CountsOn(e, n, tl.acked[k], tl.branchOf[k], RequestOf(k, k, r))
       /\ BranchFits(e, n, tl.branchOf[k], tl.fate)
  <2>1. CASE cn[k].session = 0
    BY <1>2, <2>1 DEF CountsOn, BranchFits
  <2>2. CASE cn[k].session # 0
    <3>1. PICK s \in DOMAIN d.sessions : s = cn[k].session
      BY <1>7, <2>2
    <3>2. d.sessions[s].changes = {} /\ d.sessions[s].branch = NoXid
      BY <1>1, <2>2, <3>1 DEF IsOpen, DbInv, BranchesInv
    <3>3. /\ CountsOn(d, s, tl.acked[k], tl.branchOf[k], RequestOf(k, k, r))
          /\ BranchFits(d, s, tl.branchOf[k], tl.fate)
      BY <2>2, <3>1 DEF CallInv
    <3>4. \A row : IsThere(e, row) => IsThere(d, row)
      BY <1>2 DEF Leaves
    <3>5. CountsOn(e, n, tl.acked[k], tl.branchOf[k], RequestOf(k, k, r))
      BY <1>2, <3>2, <3>3, <3>4 DEF CountsOn
    <3>6. BranchFits(e, n, tl.branchOf[k], tl.fate)
      BY <1>2, <3>2, <3>3 DEF BranchFits
    <3> QED BY <3>5, <3>6
  <2> QED BY <2>1, <2>2
<1>16. ASSUME NEW j \in Conns, j # k, cn[j].session # 0
       PROVE  /\ CountsOn(e, cn[j].session, tl.acked[j], tl.branchOf[j], RequestOf(j, k, r))
              /\ BranchFits(e, cn[j].session, tl.branchOf[j], tl.fate)
  <2>1. PICK s \in DOMAIN d.sessions : s = cn[j].session
    BY <1>7, <1>16
  <2>2. /\ CountsOn(d, s, tl.acked[j], tl.branchOf[j], RequestOf(j, k, r))
        /\ BranchFits(d, s, tl.branchOf[j], tl.fate)
    BY <1>16, <2>1 DEF CallInv
  <2>3. \A row : IsThere(e, row) => IsThere(d, row)
    BY <1>2 DEF Leaves
  <2>4. CountsOn(e, s, tl.acked[j], tl.branchOf[j], RequestOf(j, k, r))
    BY <1>2, <2>2, <2>3 DEF CountsOn
  <2>5. BranchFits(e, s, tl.branchOf[j], tl.fate)
    BY <1>2, <2>2 DEF BranchFits
  <2> QED BY <2>1, <2>4, <2>5
<1>17. \A j \in Conns : m[j].session # 0 =>
         /\ CountsOn(e, m[j].session, tl.acked[j], tl.branchOf[j], RequestOf(j, k, r))
         /\ BranchFits(e, m[j].session, tl.branchOf[j], tl.fate)
  BY <1>6, <1>8, <1>15, <1>16
<1>18. ASSUME NEW x \in Xids
       PROVE  FateDuring(e, x, tl.fate[x], tl.inBranch[x], r)
  <2>1. FateDuring(d, x, tl.fate[x], tl.inBranch[x], r) /\ tl.fate[x] \in Fates
    BY <1>1 DEF CallInv, ToldTypes
  <2> QED BY <1>2, <2>1, LostFate
<1>19. CallInv(e, m, tl, k, r)
  BY <1>1, <1>2, <1>9, <1>13, <1>14, <1>17, <1>18 DEF CallInv
<1> QED BY <1>2, <1>3, <1>4, <1>8, <1>19 DEF IsOpen

\* Connection c authenticates again, which makes it w.conn.
IsReconnected(d, c, w) == w = Authenticated(d, c, ToAuthenticate(c, TRUE))

\* The client authenticates again.
LEMMA ReconnectedInv ==
  ASSUME NEW d, NEW cn, NEW tl, NEW k \in Conns, NEW r, NEW c, NEW w,
         CallInv(d, cn, tl, k, r), c = cn[k], c.session # 0, ~IsOpen(d, c.session),
         IsReconnected(d, c, w)
  PROVE  /\ CallInv(w.db, With(cn, k, w.conn), tl, k, r)
         /\ w.conn.session # 0 /\ IsOpen(w.db, w.conn.session)
<1> USE DEF IsReconnected
<1>1. PICK n : n = Len(d.sessions) + 1
  OBVIOUS
<1>2. PICK o : o = ToAuthenticate(c, TRUE)
  OBVIOUS
<1>3. PICK b : b = w.conn
  OBVIOUS
<1>4. ClientOptions(d, c)
  BY DEF CallInv, OptionsInv
<1>5. DOMAIN c = {"locale", "options", "autoCommit", "session"} /\ tl.expects[k] = c.autoCommit
  BY DEF CallInv, ConnsInv
<1>6. /\ w.db = Opened(d, o, c)
      /\ b = [c EXCEPT !.session = n, !.options = DigestServerConnectOptions(@, ServerOptions(n))]
  BY <1>1, <1>2, <1>3 DEF Authenticated
<1>7. PICK p : p = c.options
  OBVIOUS
<1>8. PICK v : v = DigestServerConnectOptions(p, ServerOptions(n))
  OBVIOUS
<1>9. /\ DOMAIN b = {"locale", "options", "autoCommit", "session"}
      /\ b.session = n /\ b.autoCommit = c.autoCommit /\ b.locale = c.locale /\ b.options = v
  BY <1>5, <1>6, <1>7, <1>8
<1>10. /\ o.OSUser = OsUserName /\ o.DataFormatVersion2 = 8
       /\ o.OriginalAnchorConnectionID = c.session
       /\ Localized(o, c.locale)
  <2>1. o = Over([OriginalAnchorConnectionID |-> c.options.ConnectionID], c.options)
    BY <1>2 DEF ToAuthenticate
  <2> QED BY <1>4, <2>1, OptionsToSend
<1>11. /\ {"OSUser", "DataFormatVersion2"} \subseteq DOMAIN p
       /\ p.OSUser = OsUserName /\ Localized(p, c.locale)
       /\ "OriginalAnchorConnectionID" \notin DOMAIN p
  BY <1>4, <1>7 DEF ClientOptions
<1>12. /\ {"ConnectionID", "OSUser", "DataFormatVersion2"} \subseteq DOMAIN v
       /\ v.ConnectionID = n /\ v.OSUser = OsUserName /\ v.DataFormatVersion2 = 8
       /\ Localized(v, c.locale) /\ "OriginalAnchorConnectionID" \notin DOMAIN v
  BY <1>7, <1>8, <1>11, OptionsDigested
<1>13. SessionJoins(b, n, o, c.session)
  BY <1>9, <1>10, <1>12 DEF SessionJoins
<1>14. PICK e : e = w.db
  OBVIOUS
<1>15. IsOpened(d, e, n, o, c)
  BY <1>1, <1>6, <1>14 DEF IsOpened
<1>16. CallInv(e, With(cn, k, b), tl, k, r) /\ b.session # 0 /\ IsOpen(e, b.session)
  <2>1. /\ b.autoCommit = tl.expects[k]
        /\ cn[k].session = 0 => tl.acked[k] = {} /\ tl.branchOf[k] = NoXid
        /\ cn[k].session # 0 => ~IsOpen(d, cn[k].session)
    BY <1>5, <1>9
  <2> QED BY <1>13, <1>15, <2>1, SessionOpened
<1> QED BY <1>3, <1>14, <1>16

-----------------------------------------------------------------------------
(* A request is executed, and its answer is lost.                          *)
\* The users of other sessions count on what they counted on.
LEMMA OthersCount ==
  ASSUME NEW d, NEW e, NEW s, NEW q, NEW R, NEW X, NEW A, NEW b, Leaves(d, e, s, R, X),
         q \in DOMAIN d.sessions, q # s, A \cap R = {}, CountsOn(d, q, A, b, Nothing)
  PROVE  CountsOn(e, q, A, b, Nothing)
<1>1. e.sessions[q] = d.sessions[q] /\ d.vanished \ R \subseteq e.vanished
  BY DEF Leaves
<1>2. Nothing.type \notin StatementTypes /\ Nothing.type # "rollback"
  BY DEF Nothing, StatementTypes
<1> QED BY <1>1, <1>2 DEF CountsOn

\* The user of the session counts on it that the statement is executed.
LEMMA StatementCounts ==
  ASSUME NEW d, NEW e, NEW s, NEW r, NEW ok, NEW A, NEW b, StatementServed(d, e, s, r, ok),
         ok \in BOOLEAN, r.type \in StatementTypes, A \cap RowsOf(r) = {}, CountsOn(d, s, A, b, r)
  PROVE  CountsOn(e, s, A, b, r)
<1>1. /\ d.vanished \ RowsOf(r) \subseteq e.vanished /\ d.durable \subseteq e.durable
      /\ \A row : IsThere(e, row) => row \in RowsOf(r) \/ IsThere(d, row)
  BY DEF StatementServed, Leaves
<1>2. CASE r.type = "rollback"
  <2>1. \A row \in A : row \in d.sessions[s].changes \/ ~IsThere(d, row)
    BY <1>2 DEF CountsOn
  <2>2. \A row \in d.sessions[s].changes : row \in e.sessions[s].changes \/ ~IsThere(e, row)
    <3>1. CASE ok
      <4>1. BranchOf(d, s) = {}
        BY <1>2, <3>1 DEF StatementServed
      <4> QED BY <1>2, <3>1, <4>1 DEF StatementServed
    <3>2. CASE ~ok
      BY <3>2 DEF StatementServed
    <3> QED BY <3>1, <3>2
  <2>3. RowsOf(r) = {}
    BY <1>2 DEF RowsOf
  <2>4. b # NoXid => A \subseteq e.vanished
    BY <1>1, <2>3 DEF CountsOn
  <2> QED BY <1>1, <1>2, <2>1, <2>2, <2>3, <2>4 DEF CountsOn
<1>3. CASE r.type # "rollback"
  <2>1. d.sessions[s].changes \subseteq e.sessions[s].changes \cup (IF Commits(r) THEN e.durable ELSE {})
    BY <1>3 DEF StatementServed
  <2>2. b # NoXid => A \subseteq e.vanished
    BY <1>1 DEF CountsOn
  <2>3. \A row \in A : \/ row \in d.sessions[s].changes \/ row \in d.vanished
                       \/ Commits(r) /\ row \in d.durable
    BY <1>3 DEF CountsOn
  <2> QED BY <1>1, <1>3, <2>1, <2>2, <2>3 DEF CountsOn
<1> QED BY <1>2, <1>3

\* A call of the resource manager does not touch the rows of the session.
LEMMA XaCounts ==
  ASSUME NEW d, NEW e, NEW s, NEW r, NEW code, NEW rc, NEW A, NEW b, XaServed(d, e, s, r, code, rc),
         r.type \in XaTypes, CountsOn(d, s, A, b, r)
  PROVE  CountsOn(e, s, A, b, r)
<1>1. e.sessions[s].changes = d.sessions[s].changes /\ e.vanished = d.vanished
  BY DEF XaServed
<1>2. r.type \notin StatementTypes /\ r.type # "rollback"
  BY DEF XaTypes, StatementTypes
<1> QED BY <1>1, <1>2 DEF CountsOn

\* A statement does not take a session out of its branch.
LEMMA StatementBranchFits ==
  ASSUME NEW d, NEW e, NEW s, NEW q, NEW r, NEW ok, NEW b, NEW fate, DbInv(d),
         StatementServed(d, e, s, r, ok), s \in DOMAIN d.sessions, q \in DOMAIN d.sessions,
         b \in Xids \cup {NoXid}, BranchFits(d, q, b, fate)
  PROVE  BranchFits(e, q, b, fate)
<1>1. Leaves(d, e, s, RowsOf(r), BranchOf(d, s)) /\ e.sessions[s].branch = d.sessions[s].branch
  BY DEF StatementServed
<1>2. e.sessions[q].branch = d.sessions[q].branch
  BY <1>1 DEF Leaves
<1>3. ASSUME b \in Xids, d.branches[b].state = "none"
      PROVE  e.branches[b].state = "none"
  <2>1. b \notin BranchOf(d, s)
    BY <1>3 DEF BranchOf, One, DbInv, BranchesInv
  <2>2. e.branches[b] = d.branches[b] \/ e.branches[b] = NoBranch
    BY <1>1, <1>3, <2>1 DEF Leaves
  <2> QED BY <1>3, <2>2 DEF NoBranch
<1> QED BY <1>2, <1>3 DEF BranchFits

\* A session that is lost after a call of the resource manager is in no branch.
LEMMA XaLostBranch ==
  ASSUME NEW d, NEW e, NEW f, NEW s, NEW q, NEW r, NEW code, NEW rc, NEW b, NEW fate, DbInv(d), IsXa(r),
         XaServed(d, e, s, r, code, rc), s \in DOMAIN d.sessions, q \in DOMAIN d.sessions,
         HasEnded(e, f, s), b \in Xids \cup {NoXid}, BranchFits(d, q, b, fate)
  PROVE  BranchFits(f, q, b, fate)
<1>1. Leaves(d, e, s, {}, One(r.xid))
  BY DEF XaServed
<1>2. /\ f.sessions[s].branch = NoXid
      /\ \A p \in DOMAIN d.sessions : p # s => f.sessions[p] = d.sessions[p]
  BY <1>1 DEF HasEnded, Leaves
<1>3. \A x \in Xids : f.branches[x] = IF e.branches[x].session = s /\ e.branches[x].state # "prepared"
                                      THEN NoBranch ELSE e.branches[x]
  BY DEF HasEnded
<1>4. PICK x \in Xids : x = r.xid
  BY DEF IsXa
<1>5. ASSUME NEW y \in Xids, y # x
      PROVE  e.branches[y] = d.branches[y] \/ e.branches[y] = NoBranch
  BY <1>1, <1>4, <1>5 DEF Leaves, One
<1>6. CASE code # 0
  <2>1. e = d
    BY <1>6 DEF XaServed
  <2> QED BY <2>1, LostBranch
<1>7. ASSUME code = 0
      PROVE  \/ e.branches[x].session = s /\ e.branches[x].state # "prepared"
             \/ d.branches[x].state \in {"idle", "failed", "prepared"}
  <2>1. CASE r.type = "XAStart"
    <3>1. StartDone(d, e, s, x, "RESUME" \in r.flags)
      BY <1>4, <1>7, <2>1 DEF XaServed
    <3> QED BY <3>1 DEF StartDone
  <2>2. CASE r.type = "XAEnd"
    <3>1. EndDone(d, e, s, x, StateAfterEnd(r))
      BY <1>4, <1>7, <2>2 DEF XaServed
    <3> QED BY <3>1 DEF EndDone, StateAfterEnd
  <2>3. CASE r.type \notin {"XAStart", "XAEnd"}
    <3>1. DecisionDone(d, e, s, x, r.type, rc)
      BY <1>4, <1>7, <2>3 DEF XaServed
    <3> QED BY <3>1 DEF DecisionDone, Servable
  <2> QED BY <2>1, <2>2, <2>3
<1>8. ASSUME code = 0, b \in Xids, f.sessions[q].branch # b
      PROVE  f.branches[b].state = "none"
  <2>1. CASE b = x
    <3>1. CASE e.branches[x].session = s /\ e.branches[x].state # "prepared"
      BY <1>3, <2>1, <3>1 DEF NoBranch
    <3>2. CASE d.branches[x].state \in {"idle", "failed", "prepared"}
      BY <2>1, <3>2, SessionAssumption DEF BranchFits, DbInv, BranchesInv
    <3> QED BY <1>7, <1>8, <3>1, <3>2
  <2>2. CASE b # x
    <3>1. CASE d.sessions[q].branch = b
      <4>1. q = s /\ d.branches[b].session = s /\ d.branches[b].state = "active"
        BY <1>2, <1>8, <3>1 DEF DbInv, BranchesInv
      <4> QED BY <1>3, <1>5, <1>8, <2>2, <4>1 DEF NoBranch
    <3>2. CASE d.sessions[q].branch # b
      <4>1. d.branches[b].state = "none"
        BY <1>8, <3>2, SessionAssumption DEF BranchFits
      <4> QED BY <1>3, <1>5, <1>8, <2>2, <4>1 DEF NoBranch
    <3> QED BY <3>1, <3>2
  <2> QED BY <2>1, <2>2
<1>9. CASE code = 0
  BY <1>2, <1>8, <1>9 DEF BranchFits
<1> QED BY <1>6, <1>9

\* A branch in which a lost session has worked is no more.
LEMMA FateLost ==
  ASSUME NEW d, NEW e, NEW f, NEW s, NEW R, NEW X, NEW x, NEW fate, NEW rows, DbInv(d), x \in Xids,
         Leaves(d, e, s, R, X), Leaves(e, f, s, {}, {}), rows \cap R = {},
         f.branches[x] = NoBranch, d.branches[x].state \in {"none", "active", "suspended"},
         fate \in Fates, FateFits(d, x, fate, rows)
  PROVE  FateFits(f, x, fate, rows)
<1>1. d.durable \subseteq f.durable
  BY DEF Leaves
<1>2. \A row : IsThere(f, row) => row \in R \/ IsThere(d, row)
  BY DEF Leaves
<1>3. "none" \in MayBe[fate]
  BY NoneMayBe DEF FateFits
<1>4. ASSUME fate \in {"rolledback", "failing", "ended", "prepared"}, NEW row \in rows
      PROVE  ~IsElsewhere(f, x, row)
  <2>1. d.branches[x].state = "none"
    BY <1>4 DEF FateFits, MayBe
  <2>2. d.branches[x].changes = {}
    BY <2>1 DEF DbInv, BranchesInv
  <2>3. ~IsElsewhere(d, x, row)
    BY <1>4 DEF FateFits
  <2>4. ~IsThere(d, row)
    BY <2>2, <2>3 DEF IsThere, IsElsewhere
  <2>5. ~IsThere(f, row)
    BY <1>2, <1>4, <2>4
  <2> QED BY <2>5 DEF IsThere, IsElsewhere
<1>5. f.branches[x].state = "none"
  BY DEF NoBranch
<1> QED BY <1>1, <1>3, <1>4, <1>5 DEF FateFits

\* A statement that was executed in a session that is lost.
LEMMA StatementLostFate ==
  ASSUME NEW d, NEW e, NEW f, NEW s, NEW r, NEW ok, NEW x, NEW fate, NEW rows, DbInv(d), x \in Xids,
         StatementServed(d, e, s, r, ok), HasEnded(e, f, s), s \in DOMAIN d.sessions,
         r.type \in StatementTypes, rows \cap RowsOf(r) = {}, fate \in Fates,
         FateDuring(d, x, fate, rows, r)
  PROVE  FateDuring(f, x, fate, rows, r)
<1>1. FateFits(d, x, fate, rows)
  BY DEF FateDuring, StatementTypes, XaTypes
<1>2. /\ DbInv(e) /\ Leaves(d, e, s, RowsOf(r), BranchOf(d, s)) /\ DOMAIN e.sessions = DOMAIN d.sessions
      /\ e.sessions[s].branch = d.sessions[s].branch
  BY DEF StatementServed, Works
<1>3. Leaves(e, f, s, {}, {})
  BY <1>2, EndedStep
<1>4. CASE x \notin BranchOf(d, s)
  <2>1. FateFits(e, x, fate, rows)
    BY <1>1, <1>2, <1>4, FateKept
  <2>2. FateFits(f, x, fate, rows)
    BY <1>3, <2>1, FateKept
  <2> QED BY <2>2 DEF FateDuring
<1>5. CASE x \in BranchOf(d, s)
  <2>1. d.sessions[s].branch = x
    BY <1>5 DEF BranchOf, One
  <2>2. d.branches[x].state = "active" /\ e.branches[x].state = "active" /\ e.branches[x].session = s
    BY <1>2, <2>1 DEF DbInv, BranchesInv
  <2>3. f.branches[x] = NoBranch
    BY <2>2 DEF HasEnded
  <2>4. FateFits(f, x, fate, rows)
    BY <1>1, <1>2, <1>3, <2>2, <2>3, FateLost
  <2> QED BY <2>4 DEF FateDuring
<1> QED BY <1>4, <1>5

\* A decision that is executed leaves the branch in doubt, and is not executed again.
LEMMA DecisionInDoubt ==
  ASSUME NEW d, NEW e, NEW s, NEW r, NEW rc, NEW x, NEW fate, NEW rows, DbInv(d), DbInv(e), x = r.xid, x \in Xids,
         DecisionDone(d, e, s, x, r.type, rc), r.type \in XaTypes \ {"XAStart", "XAEnd"},
         fate \in Fates, FateDuring(d, x, fate, rows, r)
  PROVE  FateDuring(e, x, fate, rows, r)
<1>1. /\ r.type \in {"XAPrepare", "XACommit", "XARollback"}
      /\ d.branches[x].state \in Servable(r.type)
  BY DEF DecisionDone, XaTypes
<1>2. FateFits(d, x, fate, rows)
  BY <1>1 DEF FateDuring
<1>3. d.branches[x].changes = rows
  BY <1>1, <1>2 DEF FateFits, Servable
<1>4. /\ e.branches[x].state \notin Servable(r.type)
      /\ e.branches[x].state # "none" => e.branches[x].changes = rows
      /\ e.branches[x].state \in States
  BY <1>1, <1>3 DEF DecisionDone, Servable, NoBranch, States
<1>5. fate \in Doubt(r.type) \/ fate = "indoubt"
  BY <1>1, <1>2 DEF FateFits, MayBe, Servable, Doubt, Fates
<1>6. FateFits(e, x, "indoubt", rows)
  BY <1>4 DEF FateFits, MayBe
<1> QED BY <1>1, <1>4, <1>5, <1>6 DEF FateDuring

\* A call of the resource manager that was executed in a session that is lost.
LEMMA XaLostFate ==
  ASSUME NEW d, NEW e, NEW f, NEW s, NEW r, NEW code, NEW rc, NEW x, NEW fate, NEW rows, DbInv(d), x \in Xids,
         IsXa(r), XaServed(d, e, s, r, code, rc), HasEnded(e, f, s), s \in DOMAIN d.sessions,
         fate \in Fates, FateDuring(d, x, fate, rows, r)
  PROVE  FateDuring(f, x, fate, rows, r)
<1>1. /\ DbInv(e) /\ Leaves(d, e, s, {}, One(r.xid)) /\ DOMAIN e.sessions = DOMAIN d.sessions
  BY DEF XaServed, Works
<1>2. Leaves(e, f, s, {}, {})
  BY <1>1, EndedStep
<1>3. CASE x # r.xid
  <2>1. x \notin One(r.xid)
    BY <1>3 DEF One
  <2>2. FateDuring(e, x, fate, rows, r)
    BY <1>1, <2>1, FateDuringKept
  <2> QED BY <1>2, <2>2, LostFate
<1>4. CASE code # 0
  <2>1. e = d
    BY <1>4 DEF XaServed
  <2> QED BY <1>2, <2>1, LostFate
<1>5. ASSUME x = r.xid, code = 0, r.type \in {"XAStart", "XAEnd"}
      PROVE  FateDuring(f, x, fate, rows, r)
  <2>1. FateFits(d, x, fate, rows)
    BY <1>5 DEF FateDuring, Doubt
  <2>2. /\ d.branches[x].state \in {"none", "active", "suspended"}
        /\ e.branches[x].session = s /\ e.branches[x].state # "prepared"
    <3>1. CASE r.type = "XAStart"
      <4>1. StartDone(d, e, s, x, "RESUME" \in r.flags)
        BY <1>5, <3>1 DEF XaServed
      <4> QED BY <4>1 DEF StartDone
    <3>2. CASE r.type = "XAEnd"
      <4>1. EndDone(d, e, s, x, StateAfterEnd(r))
        BY <1>5, <3>2 DEF XaServed
      <4> QED BY <4>1 DEF EndDone, StateAfterEnd
    <3> QED BY <1>5, <3>1, <3>2
  <2>3. f.branches[x] = NoBranch
    BY <2>2 DEF HasEnded
  <2>4. FateFits(f, x, fate, rows)
    BY <1>1, <1>2, <2>1, <2>2, <2>3, FateLost
  <2> QED BY <2>4 DEF FateDuring
<1>6. ASSUME x = r.xid, code = 0, r.type \notin {"XAStart", "XAEnd"}
      PROVE  FateDuring(f, x, fate, rows, r)
  <2>1. r.type \in XaTypes \ {"XAStart", "XAEnd"}
    BY <1>6 DEF IsXa
  <2>2. DecisionDone(d, e, s, x, r.type, rc)
    BY <1>6 DEF XaServed
  <2>3. FateDuring(e, x, fate, rows, r)
    BY <1>1, <1>6, <2>1, <2>2, DecisionInDoubt
  <2> QED BY <1>2, <2>3, LostFate
<1> QED BY <1>3, <1>4, <1>5, <1>6

\* Rows that the program knows nothing of, and what it may ask for.
Fresh(tl, R) ==
  /\ (tl.promised \cup tl.undone) \cap R = {}
  /\ \A j \in Conns : tl.acked[j] \cap R = {}
  /\ \A x \in Xids : tl.inBranch[x] \cap R = {}
Asks(tl, r) ==
  \/ IsStatement(r) /\ Fresh(tl, RowsOf(r))
  \/ IsXa(r)
  \/ r.type = "XARecover"

\* Session s of connection k works on the rows R, and on the branches X.
WorksFor(d, e, s, R, X, cn, tl, k) ==
  /\ s = cn[k].session /\ s # 0 /\ Fresh(tl, R)
  /\ DbInv(e) /\ Leaves(d, e, s, R, X) /\ Works(d, e, s)
\* What this leaves as it is.
SavedFor(e, cn, tl, k) ==
  /\ ConnsInv(e, cn, tl) /\ OptionsInv(e, cn) /\ PromisesInv(e, tl)
  /\ \A j \in Conns : cn[j].session # 0 /\ j # k =>
       CountsOn(e, cn[j].session, tl.acked[j], tl.branchOf[j], Nothing)

\* What one session does is nothing to the others.
LEMMA ServedInv ==
  ASSUME NEW d, NEW e, NEW s, NEW R, NEW X, NEW cn, NEW tl, NEW k, NEW r, k \in Conns,
         CallInv(d, cn, tl, k, r), WorksFor(d, e, s, R, X, cn, tl, k)
  PROVE  SavedFor(e, cn, tl, k)
<1> USE DEF WorksFor
<1>1. ConnsInv(d, cn, tl) /\ OptionsInv(d, cn) /\ PromisesInv(d, tl)
  BY DEF CallInv
<1>2. DOMAIN e.sessions = DOMAIN d.sessions
  BY DEF Works
<1>3. ConnsInv(e, cn, tl)
  BY <1>1, <1>2 DEF ConnsInv
<1>4. OptionsInv(e, cn)
  BY <1>1, <1>2, OptionsKept DEF ConnsInv
<1>5. PromisesInv(e, tl)
  BY <1>1, PromisesKept DEF Fresh
<1>6. ASSUME NEW j \in Conns, cn[j].session # 0, j # k
      PROVE  CountsOn(e, cn[j].session, tl.acked[j], tl.branchOf[j], Nothing)
  <2>1. PICK q : q = cn[j].session
    OBVIOUS
  <2>2. q \in DOMAIN d.sessions /\ q # s
    BY <1>1, <1>6, <2>1 DEF ConnsInv
  <2>3. CountsOn(d, q, tl.acked[j], tl.branchOf[j], Nothing)
    BY <1>6, <2>1 DEF CallInv, RequestOf
  <2>4. tl.acked[j] \cap R = {}
    BY <1>6 DEF Fresh
  <2>5. CountsOn(e, q, tl.acked[j], tl.branchOf[j], Nothing)
    BY <2>2, <2>3, <2>4, OthersCount
  <2> QED BY <2>1, <2>5
<1> QED BY <1>3, <1>4, <1>5, <1>6 DEF SavedFor

\* A statement is executed, and then the session is lost.
LEMMA StatementLost ==
  ASSUME NEW d, NEW e, NEW f, NEW s, NEW cn, NEW tl, NEW k, NEW r, NEW ok, k \in Conns, s = cn[k].session, s # 0,
         CallInv(d, cn, tl, k, r), r.type \in StatementTypes, Fresh(tl, RowsOf(r)), ok \in BOOLEAN,
         StatementServed(d, e, s, r, ok), HasEnded(e, f, s)
  PROVE  CallInv(f, cn, tl, k, r)
<1>1. DbInv(e) /\ Leaves(d, e, s, RowsOf(r), BranchOf(d, s)) /\ Works(d, e, s)
  BY DEF StatementServed
<1>2. /\ ConnsInv(e, cn, tl) /\ OptionsInv(e, cn) /\ PromisesInv(e, tl)
      /\ \A j \in Conns : cn[j].session # 0 /\ j # k =>
           CountsOn(e, cn[j].session, tl.acked[j], tl.branchOf[j], Nothing)
  <2>1. WorksFor(d, e, s, RowsOf(r), BranchOf(d, s), cn, tl, k)
    BY <1>1 DEF WorksFor
  <2> QED BY <2>1, ServedInv DEF SavedFor
<1>3. DbInv(d) /\ ToldTypes(tl) /\ ConnsInv(d, cn, tl)
  BY DEF CallInv
<1>4. s \in DOMAIN d.sessions /\ s \in DOMAIN e.sessions
  BY <1>2, <1>3 DEF ConnsInv
<1>5. ASSUME NEW j \in Conns, cn[j].session # 0
      PROVE  /\ CountsOn(e, cn[j].session, tl.acked[j], tl.branchOf[j], RequestOf(j, k, r))
             /\ BranchFits(f, cn[j].session, tl.branchOf[j], tl.fate)
  <2>1. PICK q : q = cn[j].session
    OBVIOUS
  <2>2. /\ q \in DOMAIN d.sessions /\ q \in DOMAIN e.sessions
        /\ tl.branchOf[j] \in Xids \cup {NoXid} /\ tl.acked[j] \cap RowsOf(r) = {}
    BY <1>2, <1>3, <1>5, <2>1 DEF ConnsInv, ToldTypes, Fresh
  <2>3. /\ CountsOn(d, q, tl.acked[j], tl.branchOf[j], RequestOf(j, k, r))
        /\ BranchFits(d, q, tl.branchOf[j], tl.fate)
    BY <1>5, <2>1 DEF CallInv
  <2>4. BranchFits(e, q, tl.branchOf[j], tl.fate)
    BY <1>3, <1>4, <2>2, <2>3, StatementBranchFits
  <2>5. BranchFits(f, q, tl.branchOf[j], tl.fate)
    BY <1>1, <1>4, <2>2, <2>4, LostBranch
  <2>6. CASE j = k
    <3>1. CountsOn(e, s, tl.acked[k], tl.branchOf[k], r)
      BY <2>1, <2>2, <2>3, <2>6, StatementCounts DEF RequestOf
    <3> QED BY <2>1, <2>5, <2>6, <3>1 DEF RequestOf
  <2>7. CASE j # k
    BY <1>2, <1>5, <2>1, <2>5, <2>7 DEF RequestOf
  <2> QED BY <2>6, <2>7
<1>6. ASSUME NEW x \in Xids
      PROVE  FateDuring(f, x, tl.fate[x], tl.inBranch[x], r)
  <2>1. FateDuring(d, x, tl.fate[x], tl.inBranch[x], r) /\ tl.fate[x] \in Fates /\ tl.inBranch[x] \cap RowsOf(r) = {}
    BY <1>3 DEF CallInv, ToldTypes, Fresh
  <2> QED BY <1>3, <1>4, <2>1, StatementLostFate
<1> QED BY <1>1, <1>2, <1>3, <1>4, <1>5, <1>6, EndsInv

\* A call of the resource manager is executed, and then the session is lost.
LEMMA XaLost ==
  ASSUME NEW d, NEW e, NEW f, NEW s, NEW cn, NEW tl, NEW k, NEW r, NEW code, NEW rc, k \in Conns,
         s = cn[k].session, s # 0, CallInv(d, cn, tl, k, r), IsXa(r),
         XaServed(d, e, s, r, code, rc), HasEnded(e, f, s)
  PROVE  CallInv(f, cn, tl, k, r)
<1>1. DbInv(e) /\ Leaves(d, e, s, {}, One(r.xid)) /\ Works(d, e, s)
  BY DEF XaServed
<1>2. Fresh(tl, {})
  BY DEF Fresh
<1>3. /\ ConnsInv(e, cn, tl) /\ OptionsInv(e, cn) /\ PromisesInv(e, tl)
      /\ \A j \in Conns : cn[j].session # 0 /\ j # k =>
           CountsOn(e, cn[j].session, tl.acked[j], tl.branchOf[j], Nothing)
  <2>1. WorksFor(d, e, s, {}, One(r.xid), cn, tl, k)
    BY <1>1, <1>2 DEF WorksFor
  <2> QED BY <2>1, ServedInv DEF SavedFor
<1>4. DbInv(d) /\ ToldTypes(tl) /\ ConnsInv(d, cn, tl)
  BY DEF CallInv
<1>5. s \in DOMAIN d.sessions /\ s \in DOMAIN e.sessions
  BY <1>3, <1>4 DEF ConnsInv
<1>6. ASSUME NEW j \in Conns, cn[j].session # 0
      PROVE  /\ CountsOn(e, cn[j].session, tl.acked[j], tl.branchOf[j], RequestOf(j, k, r))
             /\ BranchFits(f, cn[j].session, tl.branchOf[j], tl.fate)
  <2>1. PICK q : q = cn[j].session
    OBVIOUS
  <2>2. q \in DOMAIN d.sessions /\ tl.branchOf[j] \in Xids \cup {NoXid}
    BY <1>4, <1>6, <2>1 DEF ConnsInv, ToldTypes
  <2>3. /\ CountsOn(d, q, tl.acked[j], tl.branchOf[j], RequestOf(j, k, r))
        /\ BranchFits(d, q, tl.branchOf[j], tl.fate)
    BY <1>6, <2>1 DEF CallInv
  <2>4. BranchFits(f, q, tl.branchOf[j], tl.fate)
    BY <1>4, <1>5, <2>2, <2>3, XaLostBranch
  <2>5. CASE j = k
    <3>1. CountsOn(e, s, tl.acked[k], tl.branchOf[k], r)
      BY <2>1, <2>3, <2>5, XaCounts DEF RequestOf, IsXa
    <3> QED BY <2>1, <2>4, <2>5, <3>1 DEF RequestOf
  <2>6. CASE j # k
    BY <1>3, <1>6, <2>1, <2>4, <2>6 DEF RequestOf
  <2> QED BY <2>5, <2>6
<1>7. ASSUME NEW x \in Xids
      PROVE  FateDuring(f, x, tl.fate[x], tl.inBranch[x], r)
  <2>1. FateDuring(d, x, tl.fate[x], tl.inBranch[x], r) /\ tl.fate[x] \in Fates
    BY <1>4 DEF CallInv, ToldTypes
  <2> QED BY <1>4, <1>5, <2>1, XaLostFate
<1> QED BY <1>1, <1>3, <1>4, <1>5, <1>6, <1>7, EndsInv

\* Whatever was asked for is executed, and then the session is lost.
LEMMA ExecutedAndLost ==
  ASSUME NEW d, NEW a, NEW s, NEW cn, NEW tl, NEW k, NEW r, k \in Conns, s = cn[k].session, s # 0,
         CallInv(d, cn, tl, k, r), Asks(tl, r), IsOpen(d, s), a = Run(d, s, r)
  PROVE  CallInv(Ended(a.db, s), cn, tl, k, r) /\ s \in DOMAIN a.db.sessions /\ DbInv(a.db)
<1>1. Ready(d, s)
  BY DEF CallInv, ConnsInv, Ready, IsOpen
<1>2. CASE IsStatement(r) /\ Fresh(tl, RowsOf(r))
  <2>1. PICK ok \in BOOLEAN : StatementServed(d, a.db, s, r, ok)
    BY <1>1, <1>2, StatementRun
  <2>2. DbInv(a.db) /\ s \in DOMAIN a.db.sessions
    BY <1>1, <2>1 DEF StatementServed, Works, Ready
  <2>3. HasEnded(a.db, Ended(a.db, s), s)
    BY <2>2, EndedIs DEF DbInv
  <2> QED BY <1>2, <2>1, <2>2, <2>3, StatementLost DEF IsStatement
<1>3. CASE IsXa(r)
  <2>1. XaServed(d, a.db, s, r, a.code, a.rc)
    BY <1>1, <1>3, XaRun, SMTT(60)
  <2>2. DbInv(a.db) /\ s \in DOMAIN a.db.sessions
    BY <1>1, <2>1 DEF XaServed, Works, Ready
  <2>3. HasEnded(a.db, Ended(a.db, s), s)
    BY <2>2, EndedIs DEF DbInv
  <2> QED BY <1>3, <2>1, <2>2, <2>3, XaLost
<1>4. CASE r.type = "XARecover"
  <2>1. a.db = d
    BY <1>4 DEF Run, Answer
  <2> QED BY <1>1, <2>1, LostInv DEF Ready
<1> QED BY <1>2, <1>3, <1>4 DEF Asks

-----------------------------------------------------------------------------
(* full_send_sync.                                                         *)
\* w tells what session c.session has answered to r.
IsAnswer(d, c, r, w) ==
  /\ IsOpen(d, c.session) /\ w.db = Run(d, c.session, r).db
  /\ w.answer.code = Run(d, c.session, r).code /\ w.answer.rc = Run(d, c.session, r).rc
  /\ w.answer.list = Run(d, c.session, r).list

\* How a roundtrip or a call can end: with an answer, or with a lost session.
Ends(d, w, c, cn, tl, k, r) ==
  IF w.err = "none" THEN IsAnswer(d, c, r, w)
  ELSE CallInv(w.db, cn, tl, k, r) /\ ~IsOpen(w.db, c.session)
CallEnds(w, cn, tl, k, r) ==
  /\ w.conn.session # 0
  /\ \E d : /\ CallInv(d, With(cn, k, w.conn), tl, k, r)
            /\ Ends(d, w, w.conn, With(cn, k, w.conn), tl, k, r)

\* A roundtrip.
LEMMA RoundtripInv ==
  ASSUME NEW d, NEW cn, NEW tl, NEW k, NEW r, NEW c, NEW w, k \in Conns, c = cn[k], c.session # 0,
         CallInv(d, cn, tl, k, r), Asks(tl, r), w \in Roundtrip(d, c, r)
  PROVE  DOMAIN w = {"db", "conn", "err", "answer"} /\ w.conn = c /\ Ends(d, w, c, cn, tl, k, r)
<1>1. PICK s : s = c.session
  OBVIOUS
<1>2. s \in DOMAIN d.sessions /\ DbInv(d)
  BY <1>1 DEF CallInv, ConnsInv
<1>3. CASE ~IsOpen(d, s)
  <2>1. PICK err \in {"reset", "io"} : w = Way(d, c, err, NoAnswer)
    BY <1>1, <1>3 DEF Roundtrip
  <2>2. DOMAIN w = {"db", "conn", "err", "answer"} /\ w.db = d /\ w.conn = c /\ w.err # "none"
    BY <2>1 DEF Way
  <2> QED BY <1>1, <1>3, <2>2 DEF Ends
<1>4. CASE IsOpen(d, s)
  <2>1. PICK a : a = Run(d, s, r)
    OBVIOUS
  <2>2. \/ w = Way(a.db, c, "none", a)
        \/ \E e \in {d, a.db} : \E err \in {"reset", "io"} : w = Way(Ended(e, s), c, err, NoAnswer)
    BY <1>1, <1>4, <2>1 DEF Roundtrip
  <2>3. CASE w = Way(a.db, c, "none", a)
    <3>1. /\ DOMAIN w = {"db", "conn", "err", "answer"} /\ w.db = a.db /\ w.conn = c /\ w.err = "none"
          /\ w.answer.code = a.code /\ w.answer.rc = a.rc /\ w.answer.list = a.list
      BY <2>3 DEF Way
    <3> QED BY <1>1, <1>4, <2>1, <3>1 DEF Ends, IsAnswer
  <2>4. ASSUME NEW e \in {d, a.db}, NEW err \in {"reset", "io"}, w = Way(Ended(e, s), c, err, NoAnswer)
        PROVE  DOMAIN w = {"db", "conn", "err", "answer"} /\ w.conn = c /\ Ends(d, w, c, cn, tl, k, r)
    <3>1. DOMAIN w = {"db", "conn", "err", "answer"} /\ w.db = Ended(e, s) /\ w.conn = c /\ w.err # "none"
      BY <2>4 DEF Way
    <3>2. CallInv(Ended(e, s), cn, tl, k, r) /\ s \in DOMAIN e.sessions /\ DbInv(e)
      <4>1. CASE e = d
        BY <1>2, <4>1, LostInv
      <4>2. CASE e = a.db
        BY <1>1, <1>4, <2>1, <4>2, ExecutedAndLost
      <4> QED BY <4>1, <4>2
    <3>3. HasEnded(e, Ended(e, s), s)
      BY <3>2, EndedIs DEF DbInv
    <3>4. ~IsOpen(Ended(e, s), s)
      BY <3>3 DEF HasEnded, IsOpen
    <3> QED BY <1>1, <3>1, <3>2, <3>4 DEF Ends
  <2> QED BY <2>2, <2>3, <2>4
<1> QED BY <1>3, <1>4

\* Nothing changes when a connection takes its own place.
LEMMA WithItself ==
  ASSUME NEW d, NEW cn, NEW tl, NEW k, NEW r, k \in Conns, CallInv(d, cn, tl, k, r)
  PROVE  CallInv(d, With(cn, k, cn[k]), tl, k, r)
<1>1. PICK m : m = With(cn, k, cn[k])
  OBVIOUS
<1>2. DOMAIN cn = Conns
  BY DEF CallInv, ConnsInv
<1>3. DOMAIN m = Conns /\ \A j \in Conns : m[j] = cn[j]
  BY <1>1, <1>2 DEF With
<1>4. ConnsInv(d, m, tl)
  BY <1>3 DEF CallInv, ConnsInv
<1>5. OptionsInv(d, m)
  BY <1>3 DEF CallInv, OptionsInv
<1>6. CallInv(d, m, tl, k, r)
  BY <1>3, <1>4, <1>5 DEF CallInv
<1> QED BY <1>1, <1>6

\* A call ends with an answer to its request, or with a lost session.
LEMMA FullSendInv ==
  ASSUME NEW d, NEW cn, NEW tl, NEW k, NEW r, NEW c, NEW w, k \in Conns, c = cn[k], c.session # 0,
         CallInv(d, cn, tl, k, r), Asks(tl, r), w \in FullSend(d, c, r)
  PROVE  CallEnds(w, cn, tl, k, r)
<1>1. PICK v \in Roundtrip(d, c, r) :
        \/ w = v
        \/ v.err = "reset" /\ w = [v EXCEPT !.err = "io"]
        \/ \E n \in Reconnected(v) : v.err = "reset" /\ w \in Roundtrip(n.db, n.conn, r)
  BY DEF FullSend
<1>2. DOMAIN v = {"db", "conn", "err", "answer"} /\ v.conn = c /\ Ends(d, v, c, cn, tl, k, r)
  BY RoundtripInv
<1>3. PICK m : m = With(cn, k, c)
  OBVIOUS
<1>4. CallInv(d, m, tl, k, r)
  BY <1>3, WithItself
<1>5. v.err # "none" => CallInv(v.db, m, tl, k, r) /\ ~IsOpen(v.db, c.session)
  BY <1>2, <1>3, WithItself DEF Ends
<1>6. CASE w = v
  <2>1. Ends(d, w, c, m, tl, k, r)
    BY <1>2, <1>5, <1>6 DEF Ends
  <2> QED BY <1>2, <1>3, <1>4, <1>6, <2>1 DEF CallEnds
<1>7. CASE v.err = "reset" /\ w = [v EXCEPT !.err = "io"]
  <2>1. w.err = "io" /\ w.db = v.db /\ w.conn = c
    BY <1>2, <1>7
  <2>2. Ends(d, w, c, m, tl, k, r)
    BY <1>5, <1>7, <2>1 DEF Ends
  <2> QED BY <1>3, <1>4, <2>1, <2>2 DEF CallEnds
<1>8. ASSUME NEW n \in Reconnected(v), v.err = "reset", w \in Roundtrip(n.db, n.conn, r)
      PROVE  CallEnds(w, cn, tl, k, r)
  <2>1. CallInv(v.db, cn, tl, k, r) /\ ~IsOpen(v.db, c.session)
    BY <1>2, <1>8 DEF Ends
  <2>2. PICK e : e = v.db
    OBVIOUS
  <2>3. IsReconnected(e, c, n)
    BY <1>2, <2>2 DEF Reconnected, IsReconnected
  <2>4. PICK b : b = n.conn
    OBVIOUS
  <2>5. PICK q : q = With(cn, k, b)
    OBVIOUS
  <2>6. CallInv(n.db, q, tl, k, r) /\ b.session # 0 /\ IsOpen(n.db, b.session)
    BY <2>1, <2>2, <2>3, <2>4, <2>5, ReconnectedInv
  <2>7. q[k] = b
    BY <2>5, <2>6 DEF With, CallInv, ConnsInv
  <2>8. w.conn = b /\ Ends(n.db, w, b, q, tl, k, r)
    BY <1>8, <2>4, <2>6, <2>7, RoundtripInv
  <2> QED BY <2>5, <2>6, <2>8 DEF CallEnds
<1> QED BY <1>1, <1>6, <1>7, <1>8

-----------------------------------------------------------------------------
(* What the program is told.                                               *)
\* An error: it counts on nothing, and what was to be decided is in doubt.
Forgets(tl, u, k, r) ==
  /\ ToldTypes(u)
  /\ u.expects = tl.expects /\ u.promised = tl.promised /\ u.undone = tl.undone /\ u.inBranch = tl.inBranch
  /\ u.acked[k] = {}
  /\ \A j \in Conns : j # k => u.acked[j] = tl.acked[j] /\ u.branchOf[j] = tl.branchOf[j]
  /\ u.branchOf[k] = IF r.type = "XAEnd" /\ tl.branchOf[k] = r.xid THEN NoXid ELSE tl.branchOf[k]
  /\ \A x \in Xids : u.fate[x] = IF r.type \in XaTypes /\ x = r.xid /\ tl.fate[x] \in Doubt(r.type)
                                 THEN "indoubt" ELSE tl.fate[x]

\* What is in doubt may be anything.
LEMMA InDoubt ==
  ASSUME NEW d, NEW x, NEW fate, NEW rows, NEW r, NEW v, DbInv(d), x \in Xids, fate \in Fates,
         FateDuring(d, x, fate, rows, r),
         v = IF r.type \in XaTypes /\ x = r.xid /\ fate \in Doubt(r.type) THEN "indoubt" ELSE fate
  PROVE  FateFits(d, x, v, rows)
<1>1. d.branches[x].state \in States
  BY DEF DbInv, DbTypes
<1>2. CASE r.type \in XaTypes /\ x = r.xid /\ fate \in Doubt(r.type)
  <2>1. d.branches[x].state # "none" => d.branches[x].changes = rows
    BY DEF FateDuring, FateFits
  <2> QED BY <1>1, <1>2, <2>1 DEF FateFits, MayBe
<1>3. CASE ~(r.type \in XaTypes /\ x = r.xid /\ fate \in Doubt(r.type))
  BY <1>3 DEF FateDuring
<1> QED BY <1>2, <1>3

\* After an error the program knows less, and that is true.
LEMMA ForgetsInv ==
  ASSUME NEW d, NEW cn, NEW tl, NEW u, NEW k, NEW r, k \in Conns, cn[k].session # 0,
         CallInv(d, cn, tl, k, r), Forgets(tl, u, k, r),
         r.type = "XAEnd" => d.sessions[cn[k].session].branch # r.xid
  PROVE  CallInv(d, cn, u, k, Nothing)
<1>1. DbInv(d) /\ ToldTypes(tl) /\ ConnsInv(d, cn, tl) /\ OptionsInv(d, cn) /\ PromisesInv(d, tl)
  BY DEF CallInv
<1>2. ToldTypes(u) /\ ConnsInv(d, cn, u) /\ PromisesInv(d, u)
  BY <1>1 DEF Forgets, ConnsInv, PromisesInv
<1>3. ASSUME NEW j \in Conns, cn[j].session # 0
      PROVE  CountsOn(d, cn[j].session, u.acked[j], u.branchOf[j], Nothing)
  <2>1. CASE j = k
    <3>1. u.acked[j] = {}
      BY <2>1 DEF Forgets
    <3> QED BY <3>1 DEF CountsOn
  <2>2. CASE j # k
    BY <1>3, <2>2 DEF CallInv, Forgets, RequestOf
  <2> QED BY <2>1, <2>2
<1>4. ASSUME NEW j \in Conns, cn[j].session # 0
      PROVE  BranchFits(d, cn[j].session, u.branchOf[j], u.fate)
  <2>1. BranchFits(d, cn[j].session, tl.branchOf[j], tl.fate)
    BY <1>3, <1>4 DEF CallInv
  <2>2. tl.branchOf[j] \in Xids \cup {NoXid}
    BY <1>1 DEF ToldTypes
  <2>3. \A x \in Xids : u.fate[x] = tl.fate[x] \/ u.fate[x] = "indoubt"
    BY DEF Forgets
  <2>4. \/ u.branchOf[j] = tl.branchOf[j]
        \/ j = k /\ r.type = "XAEnd" /\ tl.branchOf[k] = r.xid /\ u.branchOf[k] = NoXid
    BY DEF Forgets
  <2> QED BY <2>1, <2>2, <2>3, <2>4 DEF BranchFits
<1>5. ASSUME NEW x \in Xids
      PROVE  FateDuring(d, x, u.fate[x], u.inBranch[x], Nothing)
  <2>1. FateDuring(d, x, tl.fate[x], tl.inBranch[x], r) /\ tl.fate[x] \in Fates
    BY <1>1 DEF CallInv, ToldTypes
  <2>2. u.fate[x] = IF r.type \in XaTypes /\ x = r.xid /\ tl.fate[x] \in Doubt(r.type)
                    THEN "indoubt" ELSE tl.fate[x]
    BY DEF Forgets
  <2>3. FateFits(d, x, u.fate[x], tl.inBranch[x])
    BY <1>1, <2>1, <2>2, InDoubt
  <2>4. u.inBranch = tl.inBranch
    BY DEF Forgets
  <2> QED BY <2>3, <2>4 DEF FateDuring
<1> QED BY <1>1, <1>2, <1>3, <1>4, <1>5 DEF CallInv, RequestOf

\* A call that does not return Ok.
LEMMA CallFails ==
  ASSUME NEW w, NEW cn, NEW tl, NEW u, NEW k, NEW r, k \in Conns, CallEnds(w, cn, tl, k, r), ~IsOk(w),
         Asks(tl, r), Forgets(tl, u, k, r)
  PROVE  CallInv(w.db, With(cn, k, w.conn), u, k, Nothing)
<1>1. PICK m : m = With(cn, k, w.conn)
  OBVIOUS
<1>2. PICK d : CallInv(d, m, tl, k, r) /\ Ends(d, w, w.conn, m, tl, k, r)
  BY <1>1 DEF CallEnds
<1>3. w.conn.session # 0
  BY DEF CallEnds
<1>4. m[k] = w.conn
  BY <1>1, <1>2 DEF With, CallInv, ConnsInv
<1>5. PICK s : s = w.conn.session
  OBVIOUS
<1>6. CASE w.err # "none"
  <2>1. CallInv(w.db, m, tl, k, r) /\ ~IsOpen(w.db, s)
    BY <1>2, <1>5, <1>6 DEF Ends
  <2>2. w.db.sessions[s].branch = NoXid
    BY <1>3, <1>4, <1>5, <2>1 DEF CallInv, ConnsInv, DbInv, BranchesInv, IsOpen
  <2>3. r.type = "XAEnd" => r.xid # NoXid
    BY SessionAssumption DEF Asks, IsXa, IsStatement, StatementTypes
  <2> QED BY <1>1, <1>3, <1>4, <1>5, <2>1, <2>2, <2>3, ForgetsInv
<1>7. CASE w.err = "none"
  <2>1. PICK a : a = Run(d, s, r)
    OBVIOUS
  <2>2. IsOpen(d, s) /\ w.db = a.db /\ w.answer.code = a.code
    BY <1>2, <1>5, <1>7, <2>1 DEF Ends, IsAnswer
  <2>3. a.code # 0
    BY <1>7, <2>2 DEF IsOk
  <2>4. Ready(d, s)
    BY <1>2, <1>3, <1>4, <1>5, <2>2 DEF CallInv, ConnsInv, Ready, IsOpen
  <2>5. a.db = d /\ (r.type = "XAEnd" => d.sessions[s].branch # r.xid)
    <3>1. CASE IsStatement(r)
      <4>1. StatementServed(d, a.db, s, r, FALSE)
        BY <2>1, <2>3, <2>4, <3>1, StatementRun
      <4> QED BY <3>1, <4>1 DEF StatementServed, IsStatement, StatementTypes
    <3>2. CASE IsXa(r)
      <4>1. XaServed(d, a.db, s, r, a.code, a.rc)
        BY <2>1, <2>4, <3>2, XaRun
      <4> QED BY <2>3, <2>4, <3>2, <4>1 DEF XaServed, IsXa, Ready, DbInv, BranchesInv
    <3>3. CASE r.type = "XARecover"
      BY <2>1, <2>3, <3>3 DEF Run, Answer
    <3> QED BY <3>1, <3>2, <3>3 DEF Asks
  <2> QED BY <1>1, <1>2, <1>3, <1>4, <1>5, <2>2, <2>5, ForgetsInv
<1> QED BY <1>6, <1>7

-----------------------------------------------------------------------------
(* Statements that return Ok.                                              *)
\* The parts of the invariant, when the program is told of what s has done.
LEMMA ToldInv ==
  ASSUME NEW d, NEW e, NEW s, NEW R, NEW X, NEW cn, NEW tl, NEW u, NEW k, NEW r, k \in Conns,
         CallInv(d, cn, tl, k, r), WorksFor(d, e, s, R, X, cn, tl, k),
         ToldTypes(u), u.expects = tl.expects, PromisesInv(e, u),
         \A j \in Conns : j # k => /\ u.acked[j] = tl.acked[j]
                                   /\ u.branchOf[j] = tl.branchOf[j] \/ u.branchOf[j] = NoXid,
         CountsOn(e, s, u.acked[k], u.branchOf[k], Nothing),
         \A j \in Conns : cn[j].session # 0 => BranchFits(e, cn[j].session, u.branchOf[j], u.fate),
         \A x \in Xids : FateFits(e, x, u.fate[x], u.inBranch[x])
  PROVE  CallInv(e, cn, u, k, Nothing)
<1>1. SavedFor(e, cn, tl, k)
  BY ServedInv
<1>2. ConnsInv(e, cn, u) /\ OptionsInv(e, cn)
  BY <1>1 DEF SavedFor, ConnsInv
<1>3. ASSUME NEW j \in Conns, cn[j].session # 0
      PROVE  CountsOn(e, cn[j].session, u.acked[j], u.branchOf[j], Nothing)
  <2>1. CASE j = k
    BY <2>1 DEF WorksFor
  <2>2. CASE j # k
    <3>1. CountsOn(e, cn[j].session, tl.acked[j], tl.branchOf[j], Nothing)
      BY <1>1, <1>3, <2>2 DEF SavedFor
    <3> QED BY <2>2, <3>1 DEF CountsOn
  <2> QED BY <2>1, <2>2
<1>4. DbInv(e)
  BY DEF WorksFor
<1> QED BY <1>2, <1>3, <1>4 DEF CallInv, RequestOf, FateDuring

\* A statement is executed for connection k, and Ok is returned.
OkStatement(d, e, cn, tl, k, r, s) ==
  /\ k \in Conns /\ s = cn[k].session /\ s # 0 /\ Ready(d, s)
  /\ CallInv(d, cn, tl, k, r) /\ IsStatement(r) /\ Fresh(tl, RowsOf(r))
  /\ StatementServed(d, e, s, r, TRUE)

\* What is known of a branch stays true when a statement is executed.
LEMMA StatementFate ==
  ASSUME NEW d, NEW e, NEW cn, NEW tl, NEW k, NEW r, NEW s, NEW x, OkStatement(d, e, cn, tl, k, r, s), x \in Xids
  PROVE  FateFits(e, x, tl.fate[x],
                  IF x \in BranchOf(d, s) THEN tl.inBranch[x] \cup RowsOf(r) ELSE tl.inBranch[x])
<1>1. FateDuring(d, x, tl.fate[x], tl.inBranch[x], r) /\ tl.fate[x] \in Fates
      /\ tl.inBranch[x] \cap RowsOf(r) = {}
  BY DEF OkStatement, CallInv, ToldTypes, Fresh
<1>2. FateFits(d, x, tl.fate[x], tl.inBranch[x])
  BY <1>1 DEF OkStatement, IsStatement, FateDuring, StatementTypes, XaTypes
<1>3. Leaves(d, e, s, RowsOf(r), BranchOf(d, s))
  BY DEF OkStatement, StatementServed
<1>4. CASE x \notin BranchOf(d, s)
  BY <1>1, <1>2, <1>3, <1>4, FateKept
<1>5. CASE x \in BranchOf(d, s)
  <2>1. d.branches[x].state = "active"
    BY <1>5 DEF OkStatement, Ready, DbInv, BranchesInv, BranchOf, One
  <2>2. e.branches[x].state = "active" /\ e.branches[x].changes = d.branches[x].changes \cup RowsOf(r)
    BY <1>5 DEF OkStatement, StatementServed
  <2>3. tl.fate[x] \in {"started", "indoubt"}
    BY <1>1, <1>2, <2>1 DEF FateFits, MayBe, Fates
  <2> QED BY <1>2, <1>5, <2>1, <2>2, <2>3 DEF FateFits
<1> QED BY <1>4, <1>5

\* The invariant after a statement that returns Ok.
LEMMA StatementTold ==
  ASSUME NEW d, NEW e, NEW cn, NEW tl, NEW u, NEW k, NEW r, NEW s, OkStatement(d, e, cn, tl, k, r, s),
         ToldTypes(u), u.expects = tl.expects, u.branchOf = tl.branchOf, u.fate = tl.fate,
         PromisesInv(e, u), \A j \in Conns : j # k => u.acked[j] = tl.acked[j],
         CountsOn(e, s, u.acked[k], u.branchOf[k], Nothing),
         \A x \in Xids : FateFits(e, x, u.fate[x], u.inBranch[x])
  PROVE  CallInv(e, cn, u, k, Nothing)
<1>1. WorksFor(d, e, s, RowsOf(r), BranchOf(d, s), cn, tl, k)
  BY DEF OkStatement, StatementServed, WorksFor
<1>2. ASSUME NEW j \in Conns, cn[j].session # 0
      PROVE  BranchFits(e, cn[j].session, u.branchOf[j], u.fate)
  <2>1. PICK q : q = cn[j].session
    OBVIOUS
  <2>2. /\ DbInv(d) /\ StatementServed(d, e, s, r, TRUE) /\ s \in DOMAIN d.sessions
        /\ q \in DOMAIN d.sessions /\ tl.branchOf[j] \in Xids \cup {NoXid}
    BY <1>2, <2>1 DEF OkStatement, Ready, CallInv, ConnsInv, ToldTypes
  <2>3. BranchFits(d, q, tl.branchOf[j], tl.fate)
    BY <1>2, <2>1 DEF OkStatement, CallInv
  <2>4. BranchFits(e, q, tl.branchOf[j], tl.fate)
    BY <2>2, <2>3, StatementBranchFits
  <2> QED BY <2>1, <2>4
<1>3. k \in Conns /\ CallInv(d, cn, tl, k, r)
  BY DEF OkStatement
<1> QED BY <1>1, <1>2, <1>3, ToldInv

\* What the program counts on, where it is when the statement was executed.
LEMMA StatementRows ==
  ASSUME NEW d, NEW e, NEW cn, NEW tl, NEW k, NEW r, NEW s, OkStatement(d, e, cn, tl, k, r, s)
  PROVE  /\ tl.branchOf[k] = NoXid => BranchOf(d, s) = {}
         /\ tl.branchOf[k] # NoXid => tl.acked[k] \subseteq e.vanished
         /\ r.type # "rollback" /\ BranchOf(d, s) = {} =>
              tl.acked[k] \cup RowsOf(r)
                \subseteq (IF Commits(r) THEN e.durable \cup e.vanished
                           ELSE e.sessions[s].changes \cup e.vanished \cup RowsOf(r))
         /\ r.type # "rollback" /\ BranchOf(d, s) = {} /\ ~Commits(r) => RowsOf(r) \subseteq e.sessions[s].changes
<1>1. StatementServed(d, e, s, r, TRUE) /\ r.type \in StatementTypes
  BY DEF OkStatement, IsStatement
<1>2. /\ CountsOn(d, s, tl.acked[k], tl.branchOf[k], r) /\ BranchFits(d, s, tl.branchOf[k], tl.fate)
      /\ tl.acked[k] \cap RowsOf(r) = {}
  BY DEF OkStatement, CallInv, RequestOf, Fresh
<1>3. d.vanished \ RowsOf(r) \subseteq e.vanished /\ d.durable \subseteq e.durable
  BY <1>1 DEF StatementServed, Leaves
<1>4. tl.branchOf[k] = NoXid => BranchOf(d, s) = {}
  BY <1>2, SessionAssumption DEF BranchFits, BranchOf, One
<1>5. tl.branchOf[k] # NoXid => tl.acked[k] \subseteq e.vanished
  BY <1>2, <1>3 DEF CountsOn
<1>6. ASSUME r.type # "rollback", BranchOf(d, s) = {}
      PROVE  /\ tl.acked[k] \cup RowsOf(r)
                  \subseteq (IF Commits(r) THEN e.durable \cup e.vanished
                             ELSE e.sessions[s].changes \cup e.vanished \cup RowsOf(r))
             /\ ~Commits(r) => RowsOf(r) \subseteq e.sessions[s].changes
  <2>1. d.sessions[s].changes \cup RowsOf(r)
          \subseteq (IF Commits(r) THEN e.durable ELSE e.sessions[s].changes)
    BY <1>1, <1>6 DEF StatementServed
  <2>2. \A row \in tl.acked[k] : \/ row \in d.sessions[s].changes \/ row \in d.vanished
                                 \/ Commits(r) /\ row \in d.durable
    BY <1>2, <1>6 DEF CountsOn
  <2> QED BY <1>2, <1>3, <2>1, <2>2
<1> QED BY <1>4, <1>5, <1>6

\* An insert.
LearnsInsert(tl, u, k, row) ==
  /\ ToldTypes(u)
  /\ u.expects = tl.expects /\ u.branchOf = tl.branchOf /\ u.fate = tl.fate /\ u.undone = tl.undone
  /\ \A j \in Conns : j # k => u.acked[j] = tl.acked[j]
  /\ IF tl.branchOf[k] # NoXid
     THEN /\ u.acked = tl.acked /\ u.promised = tl.promised
          /\ \A x \in Xids : u.inBranch[x] = tl.inBranch[x] \cup (IF x = tl.branchOf[k] THEN One(row) ELSE {})
     ELSE /\ u.inBranch = tl.inBranch
          /\ IF tl.expects[k]
             THEN u.acked[k] = {} /\ u.promised = tl.promised \cup tl.acked[k] \cup One(row)
             ELSE u.acked[k] = tl.acked[k] \cup One(row) /\ u.promised = tl.promised

\* A row that is inserted is in the branch, in the transaction, or durable.
LEMMA InsertTold ==
  ASSUME NEW d, NEW e, NEW cn, NEW tl, NEW u, NEW k, NEW r, NEW s, OkStatement(d, e, cn, tl, k, r, s),
         r.type = "insert", r.commit = tl.expects[k], LearnsInsert(tl, u, k, r.row)
  PROVE  CallInv(e, cn, u, k, Nothing)
<1>1. RowsOf(r) = One(r.row) /\ (Commits(r) <=> tl.expects[k])
  BY DEF RowsOf, Commits
<1>2. WorksFor(d, e, s, RowsOf(r), BranchOf(d, s), cn, tl, k) /\ CallInv(d, cn, tl, k, r) /\ k \in Conns
  BY DEF OkStatement, StatementServed, WorksFor
<1>3. PromisesInv(e, tl)
  BY <1>2, ServedInv DEF SavedFor
<1>4. CASE tl.branchOf[k] # NoXid
  <2>1. PromisesInv(e, u)
    BY <1>3, <1>4 DEF LearnsInsert, PromisesInv
  <2>2. CountsOn(e, s, u.acked[k], u.branchOf[k], Nothing)
    <3>1. u.acked[k] \subseteq e.vanished
      BY <1>4, StatementRows DEF LearnsInsert
    <3> QED BY <3>1 DEF CountsOn, Nothing
  <2>3. ASSUME NEW x \in Xids
        PROVE  FateFits(e, x, u.fate[x], u.inBranch[x])
    <3>1. FateFits(e, x, tl.fate[x],
                   IF x \in BranchOf(d, s) THEN tl.inBranch[x] \cup RowsOf(r) ELSE tl.inBranch[x])
      BY StatementFate
    <3>2. BranchFits(d, s, tl.branchOf[k], tl.fate)
      BY DEF OkStatement, CallInv
    <3>3. u.fate[x] = tl.fate[x]
      BY DEF LearnsInsert
    <3>4. CASE x # tl.branchOf[k]
      <4>1. x \notin BranchOf(d, s)
        BY <3>2, <3>4, SessionAssumption DEF BranchFits, BranchOf, One
      <4>2. u.inBranch[x] = tl.inBranch[x]
        BY <1>4, <3>4 DEF LearnsInsert
      <4> QED BY <3>1, <3>3, <4>1, <4>2
    <3>5. CASE x = tl.branchOf[k] /\ x \in BranchOf(d, s)
      BY <1>1, <1>4, <3>1, <3>3, <3>5 DEF LearnsInsert
    <3>6. CASE x = tl.branchOf[k] /\ x \notin BranchOf(d, s)
      <4>1. d.branches[x].state = "none" /\ tl.fate[x] \in {"started", "indoubt"}
        BY <3>2, <3>6 DEF BranchFits, BranchOf, One
      <4>2. e.branches[x].state = "none"
        BY <1>2, <3>6, <4>1 DEF WorksFor, Leaves, NoBranch
      <4> QED BY <3>1, <3>3, <4>1, <4>2 DEF FateFits
    <3> QED BY <3>4, <3>5, <3>6
  <2> QED BY <2>1, <2>2, <2>3, StatementTold DEF LearnsInsert
<1>5. CASE tl.branchOf[k] = NoXid
  <2>1. BranchOf(d, s) = {}
    BY <1>5, StatementRows
  <2>2. /\ tl.acked[k] \cup One(r.row)
             \subseteq (IF Commits(r) THEN e.durable \cup e.vanished
                        ELSE e.sessions[s].changes \cup e.vanished)
    BY <1>1, <2>1, StatementRows
  <2>3. PromisesInv(e, u)
    BY <1>1, <1>3, <1>5, <2>2 DEF LearnsInsert, PromisesInv
  <2>4. CountsOn(e, s, u.acked[k], u.branchOf[k], Nothing)
    BY <1>1, <1>5, <2>2 DEF LearnsInsert, CountsOn, Nothing
  <2>5. ASSUME NEW x \in Xids
        PROVE  FateFits(e, x, u.fate[x], u.inBranch[x])
    <3>1. FateFits(e, x, tl.fate[x],
                   IF x \in BranchOf(d, s) THEN tl.inBranch[x] \cup RowsOf(r) ELSE tl.inBranch[x])
      BY StatementFate
    <3> QED BY <1>5, <2>1, <3>1 DEF LearnsInsert
  <2> QED BY <2>3, <2>4, <2>5, StatementTold DEF LearnsInsert
<1> QED BY <1>4, <1>5

\* A commit, a rollback, or the query with which the pool checks a connection.
LearnsEnd(tl, u, k, r) ==
  /\ ToldTypes(u)
  /\ u.expects = tl.expects /\ u.branchOf = tl.branchOf /\ u.fate = tl.fate /\ u.inBranch = tl.inBranch
  /\ \A j \in Conns : j # k => u.acked[j] = tl.acked[j]
  /\ u.acked[k] = {}
  /\ u.promised = tl.promised \cup (IF r.type = "commit" THEN tl.acked[k] ELSE {})
  /\ u.undone = tl.undone \cup (IF r.type = "rollback" THEN tl.acked[k] ELSE {})

\* What was committed is durable or had vanished; what was rolled back is nowhere.
LEMMA EndTold ==
  ASSUME NEW d, NEW e, NEW cn, NEW tl, NEW u, NEW k, NEW r, NEW s, OkStatement(d, e, cn, tl, k, r, s),
         r.type \in {"commit", "rollback", "query"}, LearnsEnd(tl, u, k, r)
  PROVE  CallInv(e, cn, u, k, Nothing)
<1>1. RowsOf(r) = {}
  BY DEF RowsOf
<1>2. WorksFor(d, e, s, RowsOf(r), BranchOf(d, s), cn, tl, k) /\ CallInv(d, cn, tl, k, r) /\ k \in Conns
  BY DEF OkStatement, StatementServed, WorksFor
<1>3. PromisesInv(e, tl)
  BY <1>2, ServedInv DEF SavedFor
<1>4. ASSUME r.type = "commit"
      PROVE  tl.acked[k] \subseteq e.durable \cup e.vanished
  <2>1. Commits(r)
    BY <1>4 DEF Commits
  <2> QED BY <1>4, <2>1, StatementRows
<1>5. ASSUME r.type = "rollback", NEW row \in tl.acked[k]
      PROVE  ~IsThere(e, row)
  <2>1. BranchOf(d, s) = {}
    BY <1>5 DEF OkStatement, StatementServed
  <2>2. \A q \in d.sessions[s].changes : ~IsThere(e, q)
    BY <1>5, <2>1 DEF OkStatement, StatementServed
  <2>3. CountsOn(d, s, tl.acked[k], tl.branchOf[k], r)
    BY DEF OkStatement, CallInv, RequestOf
  <2>4. row \in d.sessions[s].changes \/ ~IsThere(d, row)
    BY <1>5, <2>3 DEF CountsOn
  <2>5. IsThere(e, row) => IsThere(d, row)
    BY <1>1, <1>2 DEF WorksFor, Leaves
  <2> QED BY <2>2, <2>4, <2>5
<1>6. PromisesInv(e, u)
  BY <1>3, <1>4, <1>5 DEF PromisesInv, LearnsEnd
<1>7. CountsOn(e, s, u.acked[k], u.branchOf[k], Nothing)
  BY DEF LearnsEnd, CountsOn, Nothing
<1>8. ASSUME NEW x \in Xids
      PROVE  FateFits(e, x, u.fate[x], u.inBranch[x])
  <2>1. FateFits(e, x, tl.fate[x],
                 IF x \in BranchOf(d, s) THEN tl.inBranch[x] \cup RowsOf(r) ELSE tl.inBranch[x])
    BY StatementFate
  <2>2. tl.inBranch[x] \cup RowsOf(r) = tl.inBranch[x]
    BY <1>1
  <2>3. FateFits(e, x, tl.fate[x], tl.inBranch[x])
    BY <2>1, <2>2
  <2> QED BY <2>3 DEF LearnsEnd
<1> QED BY <1>6, <1>7, <1>8, StatementTold DEF LearnsEnd

-----------------------------------------------------------------------------
(* Calls of the resource manager that return Ok.                           *)
\* A call is executed for connection k, and Ok is returned.
OkXa(d, e, cn, tl, k, r, s, rc) ==
  /\ k \in Conns /\ s = cn[k].session /\ s # 0 /\ Ready(d, s)
  /\ CallInv(d, cn, tl, k, r) /\ IsXa(r)
  /\ XaServed(d, e, s, r, 0, rc)

FateOf(r, rc, fate) ==
  CASE r.type = "XAStart" -> "started"
    [] r.type = "XAEnd" -> (IF "SUSPEND" \in r.flags THEN "suspended"
                            ELSE IF "FAIL" \in r.flags THEN "failing" ELSE "ended")
    [] r.type = "XAPrepare" -> IF rc = "RdOnly" THEN "readonly" ELSE "prepared"
    [] r.type = "XACommit" -> "committed"
    [] r.type = "XARollback" -> "rolledback"
    [] OTHER -> fate

LearnsXa(tl, u, k, r, rc) ==
  /\ ToldTypes(u)
  /\ u.expects = tl.expects /\ u.promised = tl.promised /\ u.undone = tl.undone /\ u.acked = tl.acked
  /\ \A x \in Xids : u.fate[x] = IF x = r.xid THEN FateOf(r, rc, tl.fate[x]) ELSE tl.fate[x]
  /\ \A x \in Xids : u.inBranch[x] = IF x = r.xid /\ r.type = "XAStart" /\ "RESUME" \notin r.flags
                                     THEN {} ELSE tl.inBranch[x]
  /\ \A j \in Conns : u.branchOf[j] = IF j = k /\ r.type = "XAStart" THEN r.xid
                                      ELSE IF tl.branchOf[j] = r.xid THEN NoXid ELSE tl.branchOf[j]

\* The fate of the branch is what the program was told.
LEMMA XaFate ==
  ASSUME NEW d, NEW e, NEW cn, NEW tl, NEW u, NEW k, NEW r, NEW s, NEW rc, NEW x,
         OkXa(d, e, cn, tl, k, r, s, rc), LearnsXa(tl, u, k, r, rc), x = r.xid
  PROVE  FateFits(e, x, u.fate[x], u.inBranch[x])
<1>1. x \in Xids /\ r.type \in XaTypes /\ ~("SUSPEND" \in r.flags /\ "FAIL" \in r.flags)
  BY DEF OkXa, IsXa
<1>2. /\ DbInv(d) /\ DbInv(e) /\ Leaves(d, e, s, {}, One(x)) /\ Works(d, e, s)
      /\ e.sessions[s].changes = d.sessions[s].changes
      /\ FateDuring(d, x, tl.fate[x], tl.inBranch[x], r)
      /\ ToldTypes(tl)
  BY <1>1 DEF OkXa, CallInv, XaServed
<1>3. \A row \in e.branches[x].changes : ~IsElsewhere(e, x, row)
  BY <1>1, <1>2 DEF DbInv, RowsApart, IsElsewhere
<1>4. /\ u.fate[x] = FateOf(r, rc, tl.fate[x])
      /\ u.inBranch[x] = IF r.type = "XAStart" /\ "RESUME" \notin r.flags THEN {} ELSE tl.inBranch[x]
  BY <1>1 DEF LearnsXa
<1>5. CASE r.type = "XAStart"
  <2>1. StartDone(d, e, s, x, "RESUME" \in r.flags)
    BY <1>5 DEF OkXa, XaServed
  <2>2. FateFits(d, x, tl.fate[x], tl.inBranch[x])
    BY <1>2, <1>5 DEF FateDuring, Doubt
  <2>3. u.fate[x] = "started"
    BY <1>4, <1>5 DEF FateOf
  <2>4. e.branches[x].state = "active" /\ e.branches[x].changes = u.inBranch[x]
    BY <1>4, <1>5, <2>1, <2>2 DEF StartDone, FateFits
  <2> QED BY <2>3, <2>4 DEF FateFits, MayBe
<1>6. CASE r.type = "XAEnd"
  <2>1. EndDone(d, e, s, x, StateAfterEnd(r))
    BY <1>6 DEF OkXa, XaServed
  <2>2. FateFits(d, x, tl.fate[x], tl.inBranch[x])
    BY <1>2, <1>6 DEF FateDuring
  <2>3. u.fate[x] = IF "SUSPEND" \in r.flags THEN "suspended"
                    ELSE IF "FAIL" \in r.flags THEN "failing" ELSE "ended"
    BY <1>4, <1>6 DEF FateOf
  <2>4. e.branches[x].state = StateAfterEnd(r) /\ e.branches[x].changes = u.inBranch[x]
    BY <1>4, <1>6, <2>1, <2>2 DEF EndDone, FateFits
  <2> QED BY <1>3, <2>3, <2>4 DEF FateFits, MayBe, StateAfterEnd
<1>7. CASE r.type \in XaTypes \ {"XAStart", "XAEnd"}
  <2>1. DecisionDone(d, e, s, x, r.type, rc)
    BY <1>7 DEF OkXa, XaServed
  <2>2. FateFits(d, x, tl.fate[x], tl.inBranch[x])
    BY <1>2, <1>7, <2>1 DEF FateDuring, DecisionDone
  <2>3. /\ r.type \in {"XAPrepare", "XACommit", "XARollback"}
        /\ d.branches[x].changes = tl.inBranch[x] /\ u.inBranch[x] = tl.inBranch[x]
    BY <1>1, <1>4, <1>7, <2>1, <2>2 DEF DecisionDone, Servable, FateFits, XaTypes
  <2>4. CASE r.type = "XAPrepare"
    <3>1. u.fate[x] = IF rc = "RdOnly" THEN "readonly" ELSE "prepared"
      BY <1>4, <2>4 DEF FateOf
    <3> QED BY <1>3, <2>1, <2>3, <2>4, <3>1 DEF DecisionDone, FateFits, MayBe, NoBranch
  <2>5. CASE r.type = "XACommit"
    <3>1. u.fate[x] = "committed"
      BY <1>4, <2>5 DEF FateOf
    <3> QED BY <2>1, <2>3, <2>5, <3>1 DEF DecisionDone, FateFits, MayBe, NoBranch
  <2>6. CASE r.type = "XARollback"
    <3>1. u.fate[x] = "rolledback"
      BY <1>4, <2>6 DEF FateOf
    <3>2. ASSUME NEW row \in d.branches[x].changes
          PROVE  ~IsElsewhere(e, x, row)
      <4>1. ~IsElsewhere(d, x, row)
        BY <1>1, <1>2 DEF DbInv, RowsApart, IsElsewhere
      <4>2. \A y \in Xids \ {x} : e.branches[y] = d.branches[y] \/ e.branches[y].changes = {}
        BY <1>2 DEF Leaves, One, NoBranch
      <4>3. \A q \in DOMAIN e.sessions : q \in DOMAIN d.sessions /\ e.sessions[q].changes = d.sessions[q].changes
        BY <1>2 DEF Works
      <4>4. e.durable = d.durable
        BY <2>1, <2>6 DEF DecisionDone
      <4> QED BY <4>1, <4>2, <4>3, <4>4 DEF IsElsewhere
    <3> QED BY <2>1, <2>3, <2>6, <3>1, <3>2 DEF DecisionDone, FateFits, MayBe, NoBranch
  <2> QED BY <2>3, <2>4, <2>5, <2>6
<1> QED BY <1>1, <1>5, <1>6, <1>7

\* The branches of the connections are what the program was told.
LEMMA XaBranch ==
  ASSUME NEW d, NEW e, NEW cn, NEW tl, NEW u, NEW k, NEW r, NEW s, NEW rc, NEW j \in Conns,
         OkXa(d, e, cn, tl, k, r, s, rc), LearnsXa(tl, u, k, r, rc), cn[j].session # 0
  PROVE  BranchFits(e, cn[j].session, u.branchOf[j], u.fate)
<1>1. PICK q : q = cn[j].session
  OBVIOUS
<1>2. PICK x \in Xids : x = r.xid
  BY DEF OkXa, IsXa
<1>3. PICK b : b = tl.branchOf[j]
  OBVIOUS
<1>4. /\ DbInv(d) /\ Leaves(d, e, s, {}, One(x)) /\ Works(d, e, s)
      /\ s \in DOMAIN d.sessions /\ q \in DOMAIN d.sessions /\ (q = s <=> j = k)
      /\ k \in Conns
  BY <1>1, <1>2 DEF OkXa, Ready, CallInv, ConnsInv, XaServed
<1>5. BranchFits(d, q, b, tl.fate) /\ b \in Xids \cup {NoXid}
  BY <1>1, <1>3 DEF OkXa, CallInv, ToldTypes
<1>6. q # s => e.sessions[q].branch = d.sessions[q].branch
  BY <1>4 DEF Works
<1>7. ASSUME b # x, e.sessions[q].branch = d.sessions[q].branch
      PROVE  BranchFits(e, q, b, u.fate)
  <2>1. b # NoXid => b \in Xids /\ u.fate[b] = tl.fate[b]
    BY <1>2, <1>5, <1>7 DEF LearnsXa
  <2>2. b # NoXid /\ d.branches[b].state = "none" => e.branches[b].state = "none"
    BY <1>4, <1>7, <2>1 DEF Leaves, One, NoBranch
  <2> QED BY <1>5, <1>7, <2>1, <2>2 DEF BranchFits
<1>8. CASE r.type = "XAStart"
  <2>1. StartDone(d, e, s, x, "RESUME" \in r.flags)
    BY <1>2, <1>8 DEF OkXa, XaServed
  <2>2. CASE j = k
    <3>1. u.branchOf[j] = x /\ u.fate[x] = "started"
      BY <1>2, <1>8, <2>2 DEF LearnsXa, FateOf
    <3> QED BY <1>1, <1>4, <2>1, <2>2, <3>1 DEF StartDone, BranchFits
  <2>3. CASE j # k /\ b = x
    <3>1. u.branchOf[j] = NoXid
      BY <1>2, <1>3, <2>3 DEF LearnsXa
    <3>2. d.sessions[q].branch # x
      BY <1>4, <2>1 DEF StartDone, DbInv, BranchesInv
    <3> QED BY <1>1, <1>4, <1>5, <1>6, <2>3, <3>1, <3>2 DEF BranchFits
  <2>4. CASE j # k /\ b # x
    <3>1. u.branchOf[j] = b
      BY <1>2, <1>3, <2>4 DEF LearnsXa
    <3> QED BY <1>1, <1>4, <1>6, <1>7, <2>4, <3>1
  <2> QED BY <2>2, <2>3, <2>4
<1>9. CASE r.type = "XAEnd"
  <2>1. EndDone(d, e, s, x, StateAfterEnd(r))
    BY <1>2, <1>9 DEF OkXa, XaServed
  <2>2. u.branchOf[j] = IF b = x THEN NoXid ELSE b
    BY <1>2, <1>3, <1>9 DEF LearnsXa
  <2>3. CASE b = x
    <3>1. q = s
      BY <1>2, <1>4, <1>5, <2>1, <2>3, SessionAssumption DEF EndDone, BranchFits, DbInv, BranchesInv
    <3> QED BY <1>1, <1>5, <2>1, <2>2, <2>3, <3>1 DEF EndDone, BranchFits
  <2>4. CASE b # x
    <3>1. d.sessions[q].branch # x
      BY <1>2, <1>5, <2>4, SessionAssumption DEF BranchFits
    <3>2. e.sessions[q].branch = d.sessions[q].branch
      BY <1>6, <2>1, <3>1 DEF EndDone
    <3> QED BY <1>1, <1>7, <2>2, <2>4, <3>2
  <2> QED BY <2>3, <2>4
<1>10. CASE r.type \notin {"XAStart", "XAEnd"}
  <2>1. DecisionDone(d, e, s, x, r.type, rc)
    BY <1>2, <1>10 DEF OkXa, XaServed
  <2>2. d.branches[x].state \notin {"active", "none"}
    BY <2>1 DEF DecisionDone, Servable
  <2>3. b # x
    BY <1>2, <1>4, <1>5, <2>2, SessionAssumption DEF BranchFits, DbInv, BranchesInv
  <2>4. e.sessions[q].branch = d.sessions[q].branch
    BY <1>6, <2>1 DEF DecisionDone
  <2>5. u.branchOf[j] = b
    BY <1>2, <1>3, <1>10, <2>3 DEF LearnsXa
  <2> QED BY <1>1, <1>7, <2>3, <2>4, <2>5
<1> QED BY <1>8, <1>9, <1>10

\* A branch is started, ended, prepared, committed or rolled back.
LEMMA XaTold ==
  ASSUME NEW d, NEW e, NEW cn, NEW tl, NEW u, NEW k, NEW r, NEW s, NEW rc,
         OkXa(d, e, cn, tl, k, r, s, rc), LearnsXa(tl, u, k, r, rc)
  PROVE  CallInv(e, cn, u, k, Nothing)
<1>1. /\ k \in Conns /\ CallInv(d, cn, tl, k, r) /\ XaServed(d, e, s, r, 0, rc) /\ IsXa(r)
      /\ s = cn[k].session /\ s # 0
  BY DEF OkXa
<1>2. WorksFor(d, e, s, {}, One(r.xid), cn, tl, k)
  BY <1>1 DEF XaServed, WorksFor, Fresh
<1>3. PromisesInv(e, u)
  <2>1. PromisesInv(e, tl)
    BY <1>1, <1>2, ServedInv DEF SavedFor
  <2> QED BY <2>1 DEF PromisesInv, LearnsXa
<1>4. \A j \in Conns : j # k => /\ u.acked[j] = tl.acked[j]
                                /\ u.branchOf[j] = tl.branchOf[j] \/ u.branchOf[j] = NoXid
  BY DEF LearnsXa
<1>5. CountsOn(e, s, u.acked[k], u.branchOf[k], Nothing)
  <2>1. CountsOn(d, s, tl.acked[k], tl.branchOf[k], r)
    BY <1>1 DEF CallInv, RequestOf
  <2>2. CountsOn(e, s, tl.acked[k], tl.branchOf[k], r)
    BY <1>1, <2>1, XaCounts DEF IsXa
  <2>3. \A row \in tl.acked[k] : row \in e.sessions[s].changes \/ row \in e.vanished
    BY <1>1, <2>2 DEF CountsOn, IsXa, XaTypes, StatementTypes
  <2>4. CASE r.type = "XAStart"
    <3>1. StartDone(d, e, s, r.xid, "RESUME" \in r.flags)
      BY <1>1, <2>4 DEF XaServed
    <3>2. e.sessions[s].changes = {}
      BY <1>1, <3>1 DEF StartDone, XaServed
    <3> QED BY <2>3, <3>2 DEF CountsOn, LearnsXa, Nothing
  <2>5. CASE r.type # "XAStart"
    <3>1. u.branchOf[k] = tl.branchOf[k] \/ u.branchOf[k] = NoXid
      BY <1>1, <2>5 DEF LearnsXa
    <3> QED BY <2>2, <2>3, <3>1 DEF CountsOn, LearnsXa, Nothing
  <2> QED BY <2>4, <2>5
<1>6. \A j \in Conns : cn[j].session # 0 => BranchFits(e, cn[j].session, u.branchOf[j], u.fate)
  BY XaBranch
<1>7. ASSUME NEW x \in Xids
      PROVE  FateFits(e, x, u.fate[x], u.inBranch[x])
  <2>1. CASE x = r.xid
    BY <2>1, XaFate
  <2>2. CASE x # r.xid
    <3>1. FateFits(d, x, tl.fate[x], tl.inBranch[x]) /\ tl.fate[x] \in Fates
      BY <1>1, <2>2 DEF CallInv, FateDuring, ToldTypes
    <3>2. x \notin One(r.xid) /\ Leaves(d, e, s, {}, One(r.xid))
      BY <1>2, <2>2 DEF One, WorksFor
    <3>3. FateFits(e, x, tl.fate[x], tl.inBranch[x])
      BY <3>1, <3>2, FateKept
    <3> QED BY <2>2, <3>3 DEF LearnsXa
  <2> QED BY <2>1, <2>2
<1>8. ToldTypes(u) /\ u.expects = tl.expects
  BY DEF LearnsXa
<1> QED BY <1>1, <1>2, <1>3, <1>4, <1>5, <1>6, <1>7, <1>8, ToldInv

-----------------------------------------------------------------------------
(* The steps of the program.                                               *)
\* A statement that returned Ok was executed in the session that is there now.
LEMMA StatementReturns ==
  ASSUME NEW w, NEW cn, NEW tl, NEW k, NEW r, k \in Conns, CallEnds(w, cn, tl, k, r), IsOk(w),
         IsStatement(r), Fresh(tl, RowsOf(r))
  PROVE  \E d : OkStatement(d, w.db, With(cn, k, w.conn), tl, k, r, w.conn.session)
<1>1. PICK m : m = With(cn, k, w.conn)
  OBVIOUS
<1>2. PICK d : CallInv(d, m, tl, k, r) /\ Ends(d, w, w.conn, m, tl, k, r)
  BY <1>1 DEF CallEnds
<1>3. PICK s : s = w.conn.session
  OBVIOUS
<1>4. m[k] = w.conn /\ s # 0
  BY <1>1, <1>2, <1>3 DEF With, CallInv, ConnsInv, CallEnds
<1>5. PICK a : a = Run(d, s, r)
  OBVIOUS
<1>6. IsOpen(d, s) /\ w.db = a.db /\ a.code = 0
  BY <1>2, <1>3, <1>5 DEF Ends, IsAnswer, IsOk
<1>7. Ready(d, s)
  BY <1>2, <1>3, <1>4, <1>6 DEF CallInv, ConnsInv, Ready, IsOpen
<1>8. StatementServed(d, a.db, s, r, TRUE)
  BY <1>5, <1>6, <1>7, StatementRun
<1>9. OkStatement(d, a.db, m, tl, k, r, s)
  BY <1>2, <1>3, <1>4, <1>7, <1>8 DEF OkStatement
<1> QED BY <1>1, <1>3, <1>6, <1>9

\* A call of the resource manager that returned Ok was executed there, too.
LEMMA XaReturns ==
  ASSUME NEW w, NEW cn, NEW tl, NEW k, NEW r, k \in Conns, CallEnds(w, cn, tl, k, r), IsOk(w), IsXa(r)
  PROVE  \E d : OkXa(d, w.db, With(cn, k, w.conn), tl, k, r, w.conn.session, w.answer.rc)
<1>1. PICK m : m = With(cn, k, w.conn)
  OBVIOUS
<1>2. PICK d : CallInv(d, m, tl, k, r) /\ Ends(d, w, w.conn, m, tl, k, r)
  BY <1>1 DEF CallEnds
<1>3. PICK s : s = w.conn.session
  OBVIOUS
<1>4. m[k] = w.conn /\ s # 0
  BY <1>1, <1>2, <1>3 DEF With, CallInv, ConnsInv, CallEnds
<1>5. PICK a : a = Run(d, s, r)
  OBVIOUS
<1>6. IsOpen(d, s) /\ w.db = a.db /\ a.code = 0 /\ w.answer.rc = a.rc
  BY <1>2, <1>3, <1>5 DEF Ends, IsAnswer, IsOk
<1>7. Ready(d, s)
  BY <1>2, <1>3, <1>4, <1>6 DEF CallInv, ConnsInv, Ready, IsOpen
<1>8. XaServed(d, a.db, s, r, 0, a.rc)
  BY <1>5, <1>6, <1>7, XaRun
<1>9. OkXa(d, a.db, m, tl, k, r, s, a.rc)
  BY <1>2, <1>3, <1>4, <1>7, <1>8 DEF OkXa
<1> QED BY <1>1, <1>3, <1>6, <1>9

\* Connection k is used, by itself or by the thread t.
Used(k, c, u) ==
  /\ Exists(k) /\ k \notin pool /\ k \in Conns
  /\ conn' = With(conn, k, c) /\ c.session # 0
  /\ told' = u /\ \A j \in Conns : j # k =>
       /\ u.acked[j] = told.acked[j]
       /\ u.branchOf[j] = told.branchOf[j] \/ u.branchOf[j] = NoXid
  /\ pool' = pool /\ (at' = at \/ \E t \in Threads : at' = [at EXCEPT ![t] = Idle])

\* A call does not change who may use the connection.
LEMMA UsedInv ==
  ASSUME SessionInv, NEW k, NEW c, NEW u, Used(k, c, u)
  PROVE  UseInv'
<1>1. DOMAIN conn = Conns
  BY DEF SessionInv, CallInv, ConnsInv
<1>2. \A j \in Conns : Exists(j)' <=> Exists(j)
  BY <1>1 DEF Used, With, Exists
<1>3. UseInv
  BY DEF SessionInv
<1>4. \A j \in Conns : ~Exists(j)' \/ j \in pool' => told'.acked[j] = {} /\ told'.branchOf[j] = NoXid
  BY <1>2, <1>3 DEF UseInv, Used
<1>5. at' \in [Threads -> Conns \cup {Idle}] /\ \A t \in Threads : at'[t] = at[t] \/ at'[t] = Idle
  BY <1>3 DEF UseInv, Used
<1> QED BY <1>2, <1>3, <1>4, <1>5 DEF UseInv, Used

\* The call of connection k.
LEMMA CallInvOf ==
  ASSUME SessionInv, NEW k \in Conns, Exists(k), NEW r, Asks(told, r), NEW w, w \in FullSend(db, conn[k], r)
  PROVE  CallEnds(w, conn, told, k, r) /\ CallInv(db, conn, told, k, r)
<1>1. CallInv(db, conn, told, k, r)
  BY CallBegins DEF SessionInv
<1> QED BY <1>1, FullSendInv DEF Exists

\* The call is over.
LEMMA CallOver ==
  ASSUME SessionInv, NEW k, NEW w, NEW u, Receive(k, w), Used(k, w.conn, u),
         CallInv(w.db, With(conn, k, w.conn), u, k, Nothing)
  PROVE  SessionInv'
<1>1. db' = w.db /\ conn' = With(conn, k, w.conn) /\ told' = u
  BY DEF Receive, Used
<1>2. CallInv(db', conn', told', k, Nothing)
  BY <1>1
<1>3. CallInv(db', conn', told', First, Nothing)
  BY <1>2, CallBegins
<1> QED BY <1>3, UsedInv DEF SessionInv

\* What the program is told of does not come back.
LEMMA FreshRow ==
  ASSUME NEW row, row \notin Known
  PROVE  Fresh(told, One(row))
<1>1. row \notin told.promised /\ row \notin told.undone
  BY DEF Known
<1>2. ASSUME NEW j \in Conns
      PROVE  row \notin told.acked[j]
  <2>1. row \notin UNION {told.acked[i] : i \in Conns}
    BY DEF Known
  <2> QED BY <2>1
<1>3. ASSUME NEW x \in Xids
      PROVE  row \notin told.inBranch[x]
  <2>1. row \notin UNION {told.inBranch[y] : y \in Xids}
    BY DEF Known
  <2> QED BY <2>1
<1> QED BY <1>1, <1>2, <1>3 DEF Fresh, One

\* An insert: what the program is told of it is true.
LEMMA InsertInv ==
  ASSUME SessionInv, NEW k \in Conns, Insert(k)
  PROVE  SessionInv'
<1>1. PICK row \in Changes \ Known :
        \E w \in FullSend(db, conn[k], InsertOf(k, row)) :
          Receive(k, w) /\ told' = AfterInsert(k, row, IsOk(w))
  BY DEF Insert
<1>2. PICK r : r = InsertOf(k, row)
  OBVIOUS
<1>3. PICK w \in FullSend(db, conn[k], r) : Receive(k, w) /\ told' = AfterInsert(k, row, IsOk(w))
  BY <1>1, <1>2
<1>4. ToldTypes(told) /\ told.expects[k] = conn[k].autoCommit /\ conn[k].autoCommit \in BOOLEAN
  BY DEF SessionInv, CallInv, ConnsInv, ToldTypes
<1>5. r.type = "insert" /\ r.row = row /\ r.commit = told.expects[k] /\ IsStatement(r) /\ RowsOf(r) = One(row)
  BY <1>1, <1>2, <1>4 DEF InsertOf, IsStatement, StatementTypes, RowsOf
<1>6. Fresh(told, RowsOf(r)) /\ Asks(told, r)
  BY <1>1, <1>5, FreshRow DEF Asks
<1>7. Exists(k) /\ k \notin pool /\ UNCHANGED <<pool, at>>
  BY DEF Insert
<1>8. CallEnds(w, conn, told, k, r) /\ w.conn.session # 0
  BY <1>3, <1>6, <1>7, CallInvOf DEF CallEnds
<1>9. PICK u : u = told'
  OBVIOUS
<1>10. IsOk(w) => LearnsInsert(told, u, k, row)
  BY <1>3, <1>4, <1>9, SessionAssumption DEF AfterInsert, LearnsInsert, ToldTypes, One
<1>11. ~IsOk(w) => Forgets(told, u, k, r)
  BY <1>3, <1>4, <1>5, <1>9 DEF AfterInsert, Forgets, ToldTypes, XaTypes
<1>12. CallInv(w.db, With(conn, k, w.conn), u, k, Nothing)
  <2>1. CASE IsOk(w)
    <3>1. PICK d : OkStatement(d, w.db, With(conn, k, w.conn), told, k, r, w.conn.session)
      BY <1>5, <1>6, <1>8, <2>1, StatementReturns
    <3> QED BY <1>5, <1>10, <2>1, <3>1, InsertTold
  <2>2. CASE ~IsOk(w)
    BY <1>6, <1>8, <1>11, <2>2, CallFails
  <2> QED BY <2>1, <2>2
<1>13. Used(k, w.conn, u)
  BY <1>3, <1>7, <1>8, <1>9, <1>10, <1>11 DEF Used, Receive, With, LearnsInsert, Forgets
<1> QED BY <1>3, <1>12, <1>13, CallOver

\* A statement that is no insert.
LEMMA OtherStatementInv ==
  ASSUME SessionInv, NEW k \in Conns, Exists(k), k \notin pool, NEW type \in {"commit", "rollback", "query"},
         NEW r, r = Request(k, type), NEW w, w \in FullSend(db, conn[k], r), Receive(k, w), UNCHANGED <<pool, at>>,
         IsOk(w) => LearnsEnd(told, told', k, r), ~IsOk(w) => Forgets(told, told', k, r)
  PROVE  SessionInv'
<1>1. told.expects[k] = conn[k].autoCommit /\ conn[k].autoCommit \in BOOLEAN
  BY DEF SessionInv, CallInv, ConnsInv, ToldTypes
<1>2. r.type = type /\ IsStatement(r) /\ RowsOf(r) = {}
  BY <1>1 DEF Request, IsStatement, StatementTypes, RowsOf
<1>3. Fresh(told, RowsOf(r)) /\ Asks(told, r)
  BY <1>2 DEF Fresh, Asks
<1>4. CallEnds(w, conn, told, k, r) /\ w.conn.session # 0
  BY <1>3, CallInvOf DEF CallEnds
<1>5. PICK u : u = told'
  OBVIOUS
<1>6. CallInv(w.db, With(conn, k, w.conn), u, k, Nothing)
  <2>1. CASE IsOk(w)
    <3>1. PICK d : OkStatement(d, w.db, With(conn, k, w.conn), told, k, r, w.conn.session)
      BY <1>2, <1>3, <1>4, <2>1, StatementReturns
    <3> QED BY <1>2, <1>5, <2>1, <3>1, EndTold
  <2>2. CASE ~IsOk(w)
    BY <1>3, <1>4, <1>5, <2>2, CallFails
  <2> QED BY <2>1, <2>2
<1>7. Used(k, w.conn, u)
  BY <1>4, <1>5 DEF Used, Receive, With, LearnsEnd, Forgets
<1> QED BY <1>6, <1>7, CallOver

\* A commit.
LEMMA CommitInv ==
  ASSUME SessionInv, NEW k \in Conns, Commit(k)
  PROVE  SessionInv'
<1>1. PICK r : r = Request(k, "commit")
  OBVIOUS
<1>2. PICK w \in FullSend(db, conn[k], r) : Receive(k, w) /\ told' = AfterCommit(k, IsOk(w))
  BY <1>1 DEF Commit
<1>3. ToldTypes(told) /\ r.type = "commit"
  BY <1>1 DEF SessionInv, CallInv, Request
<1>4. IsOk(w) => LearnsEnd(told, told', k, r)
  BY <1>2, <1>3 DEF AfterCommit, LearnsEnd, ToldTypes
<1>5. ~IsOk(w) => Forgets(told, told', k, r)
  BY <1>2, <1>3 DEF AfterCommit, Forgets, ToldTypes, XaTypes
<1> QED BY <1>1, <1>2, <1>4, <1>5, OtherStatementInv DEF Commit

\* A rollback.
LEMMA RollbackInv ==
  ASSUME SessionInv, NEW k \in Conns, Rollback(k)
  PROVE  SessionInv'
<1>1. PICK r : r = Request(k, "rollback")
  OBVIOUS
<1>2. PICK w \in FullSend(db, conn[k], r) : Receive(k, w) /\ told' = AfterRollback(k, IsOk(w))
  BY <1>1 DEF Rollback
<1>3. ToldTypes(told) /\ r.type = "rollback"
  BY <1>1 DEF SessionInv, CallInv, Request
<1>4. IsOk(w) => LearnsEnd(told, told', k, r)
  BY <1>2, <1>3 DEF AfterRollback, LearnsEnd, ToldTypes
<1>5. ~IsOk(w) => Forgets(told, told', k, r)
  BY <1>2, <1>3 DEF AfterRollback, Forgets, ToldTypes, XaTypes
<1> QED BY <1>1, <1>2, <1>4, <1>5, OtherStatementInv DEF Rollback

\* The calls that a thread makes for the transaction manager.
LEMMA XaSendInv ==
  ASSUME SessionInv, NEW t \in Threads, NEW x \in Xids, NEW call \in XaCalls, XaSend(t, call[1], x, call[2])
  PROVE  SessionInv'
<1>1. PICK k : k = at[t]
  OBVIOUS
<1>2. PICK r : r = XaRequest(k, call[1], x, call[2])
  OBVIOUS
<1>3. PICK w \in FullSend(db, conn[k], r) : Receive(k, w) /\ told' = AfterXa(k, r, w)
  BY <1>1, <1>2 DEF XaSend
<1>4. k \in Conns /\ Exists(k) /\ k \notin pool
  BY <1>1 DEF XaSend, SessionInv, UseInv
<1>5. r.type = call[1] /\ r.flags = call[2] /\ r.xid = x
  BY <1>2 DEF XaRequest
<1>6. IsXa(r) /\ Asks(told, r)
  BY <1>5 DEF IsXa, XaCalls, XaTypes, Asks
<1>7. CallEnds(w, conn, told, k, r) /\ w.conn.session # 0
  BY <1>3, <1>4, <1>6, CallInvOf DEF CallEnds
<1>8. ToldTypes(told)
  BY DEF SessionInv, CallInv
<1>9. PICK u : u = told'
  OBVIOUS
<1>10. ASSUME IsOk(w)
       PROVE  LearnsXa(told, u, k, r, w.answer.rc)
  <2>1. FateAfter(r, w) = FateOf(r, w.answer.rc, told.fate[x]) /\ FateAfter(r, w) \in Fates
    BY <1>5, <1>6, <1>8 DEF FateAfter, FateOf, ReturnCode, IsXa, XaTypes, Fates, ToldTypes
  <2> DEFINE freed == [j \in Conns |-> IF told.branchOf[j] = x THEN NoXid ELSE told.branchOf[j]]
  <2>2. /\ DOMAIN u = DOMAIN told
        /\ u.expects = told.expects /\ u.acked = told.acked /\ u.promised = told.promised
        /\ u.undone = told.undone /\ u.missed = told.missed
        /\ u.fate = [told.fate EXCEPT ![x] = FateAfter(r, w)]
        /\ u.branchOf = IF r.type = "XAStart" THEN [freed EXCEPT ![k] = x] ELSE freed
        /\ u.inBranch = [told.inBranch EXCEPT ![x] =
                           IF r.type = "XAStart" /\ "RESUME" \notin r.flags THEN {} ELSE told.inBranch[x]]
    BY <1>3, <1>5, <1>8, <1>9, <1>10 DEF AfterXa, ToldTypes
  <2>3. \A j \in Conns : u.branchOf[j] = IF j = k /\ r.type = "XAStart" THEN x
                                         ELSE IF told.branchOf[j] = x THEN NoXid ELSE told.branchOf[j]
    BY <1>4, <2>2
  <2>4. u.branchOf \in [Conns -> Xids \cup {NoXid}]
    BY <1>4, <1>8, <2>2 DEF ToldTypes
  <2>5. /\ u.fate \in [Xids -> Fates]
        /\ \A y \in Xids : u.fate[y] = IF y = x THEN FateAfter(r, w) ELSE told.fate[y]
    BY <1>8, <2>1, <2>2 DEF ToldTypes
  <2>6. /\ u.inBranch \in [Xids -> SUBSET Changes]
        /\ \A y \in Xids : u.inBranch[y] = IF y = x /\ r.type = "XAStart" /\ "RESUME" \notin r.flags
                                            THEN {} ELSE told.inBranch[y]
    BY <1>8, <2>2 DEF ToldTypes
  <2> HIDE DEF freed
  <2>7. ToldTypes(u)
    BY <1>8, <2>2, <2>4, <2>5, <2>6 DEF ToldTypes
  <2> QED BY <1>5, <2>1, <2>2, <2>3, <2>5, <2>6, <2>7 DEF LearnsXa
<1>11. ASSUME ~IsOk(w)
       PROVE  Forgets(told, u, k, r)
  <2> DEFINE freed == [j \in Conns |-> IF j = k /\ told.branchOf[j] = x THEN NoXid ELSE told.branchOf[j]]
  <2>1. /\ DOMAIN u = DOMAIN told
        /\ u.expects = told.expects /\ u.promised = told.promised /\ u.inBranch = told.inBranch
        /\ u.undone = told.undone /\ u.missed = told.missed
        /\ u.acked = [told.acked EXCEPT ![k] = {}]
        /\ u.fate = [told.fate EXCEPT ![x] = IF told.fate[x] \in Doubt(r.type) THEN "indoubt" ELSE told.fate[x]]
        /\ u.branchOf = IF r.type = "XAEnd" THEN freed ELSE told.branchOf
    BY <1>3, <1>5, <1>8, <1>9, <1>11 DEF AfterXa, ToldTypes
  <2>2. /\ u.acked \in [Conns -> SUBSET Changes]
        /\ \A j \in Conns : u.acked[j] = IF j = k THEN {} ELSE told.acked[j]
    BY <1>4, <1>8, <2>1 DEF ToldTypes
  <2>3. /\ u.branchOf \in [Conns -> Xids \cup {NoXid}]
        /\ \A j \in Conns : u.branchOf[j] = IF r.type = "XAEnd" /\ j = k /\ told.branchOf[j] = x
                                             THEN NoXid ELSE told.branchOf[j]
    BY <1>4, <1>8, <2>1 DEF ToldTypes
  <2>4. /\ u.fate \in [Xids -> Fates]
        /\ \A y \in Xids : u.fate[y] = IF y = x /\ told.fate[y] \in Doubt(r.type) THEN "indoubt" ELSE told.fate[y]
    BY <1>8, <2>1 DEF ToldTypes, Fates
  <2> HIDE DEF freed
  <2>5. ToldTypes(u)
    BY <1>8, <2>1, <2>2, <2>3, <2>4 DEF ToldTypes
  <2>6. r.type \in XaTypes
    BY <1>6 DEF IsXa
  <2> QED BY <1>4, <1>5, <2>1, <2>2, <2>3, <2>4, <2>5, <2>6 DEF Forgets
<1>12. CallInv(w.db, With(conn, k, w.conn), u, k, Nothing)
  <2>1. CASE IsOk(w)
    <3>1. PICK d : OkXa(d, w.db, With(conn, k, w.conn), told, k, r, w.conn.session, w.answer.rc)
      BY <1>4, <1>6, <1>7, <2>1, XaReturns
    <3> QED BY <1>10, <2>1, <3>1, XaTold
  <2>2. CASE ~IsOk(w)
    BY <1>4, <1>6, <1>7, <1>11, <2>2, CallFails
  <2> QED BY <2>1, <2>2
<1>13. Used(k, w.conn, u)
  BY <1>3, <1>4, <1>7, <1>9, <1>10, <1>11 DEF Used, Receive, With, LearnsXa, Forgets, XaSend
<1> QED BY <1>3, <1>12, <1>13, CallOver

\* What was asked in recover changes nothing, and lists what is prepared.
LEMMA RecoverTold ==
  ASSUME NEW d, NEW cn, NEW tl, NEW u, NEW k, NEW r, CallInv(d, cn, tl, k, r), r.type = "XARecover",
         DOMAIN u = DOMAIN tl, u.expects = tl.expects, u.acked = tl.acked, u.promised = tl.promised,
         u.undone = tl.undone, u.branchOf = tl.branchOf, u.inBranch = tl.inBranch, u.fate = tl.fate,
         u.missed = {x \in Xids : tl.fate[x] = "prepared"} \ Prepared(d)
  PROVE  CallInv(d, cn, u, k, Nothing)
<1>1. DbInv(d) /\ ToldTypes(tl) /\ ConnsInv(d, cn, tl) /\ OptionsInv(d, cn) /\ PromisesInv(d, tl)
  BY DEF CallInv
<1>2. ASSUME NEW x \in Xids
      PROVE  FateFits(d, x, tl.fate[x], tl.inBranch[x])
  BY DEF CallInv, FateDuring, XaTypes
<1>3. u.missed = {}
  <2>1. \A x \in Xids : tl.fate[x] = "prepared" => d.branches[x].state = "prepared"
    BY <1>2 DEF FateFits, MayBe
  <2> QED BY <2>1 DEF Prepared
<1>4. ToldTypes(u) /\ ConnsInv(d, cn, u) /\ PromisesInv(d, u)
  BY <1>1, <1>3 DEF ToldTypes, ConnsInv, PromisesInv
<1>5. ASSUME NEW j \in Conns, cn[j].session # 0
      PROVE  /\ CountsOn(d, cn[j].session, u.acked[j], u.branchOf[j], Nothing)
             /\ BranchFits(d, cn[j].session, u.branchOf[j], u.fate)
  <2>1. /\ CountsOn(d, cn[j].session, tl.acked[j], tl.branchOf[j], RequestOf(j, k, r))
        /\ BranchFits(d, cn[j].session, tl.branchOf[j], tl.fate)
    BY <1>5 DEF CallInv
  <2>2. /\ RequestOf(j, k, r).type \notin StatementTypes /\ RequestOf(j, k, r).type # "rollback"
        /\ Nothing.type \notin StatementTypes /\ Nothing.type # "rollback"
    BY DEF RequestOf, Nothing, StatementTypes
  <2> QED BY <2>1, <2>2 DEF CountsOn
<1> QED BY <1>1, <1>2, <1>4, <1>5 DEF CallInv, RequestOf, FateDuring

\* recover.
LEMMA XaRecoverInv ==
  ASSUME SessionInv, NEW k \in Conns, XaRecover(k)
  PROVE  SessionInv'
<1>1. PICK r : r = Request(k, "XARecover")
  OBVIOUS
<1>2. PICK w \in FullSend(db, conn[k], r) :
        /\ Receive(k, w)
        /\ told' = IF IsOk(w)
                   THEN [told EXCEPT !.missed = {x \in Xids : told.fate[x] = "prepared"} \ w.answer.list]
                   ELSE [told EXCEPT !.acked[k] = {}]
  BY <1>1 DEF XaRecover
<1>3. r.type = "XARecover" /\ Asks(told, r)
  BY <1>1 DEF Request, Asks
<1>4. Exists(k) /\ k \notin pool /\ UNCHANGED <<pool, at>>
  BY DEF XaRecover
<1>5. CallEnds(w, conn, told, k, r) /\ w.conn.session # 0
  BY <1>2, <1>3, <1>4, CallInvOf DEF CallEnds
<1>6. ToldTypes(told)
  BY DEF SessionInv, CallInv
<1>7. PICK u : u = told'
  OBVIOUS
<1>8. CASE IsOk(w)
  <2>1. PICK m : m = With(conn, k, w.conn)
    OBVIOUS
  <2>2. PICK d : CallInv(d, m, told, k, r) /\ Ends(d, w, w.conn, m, told, k, r)
    BY <1>5, <2>1 DEF CallEnds
  <2>3. w.db = d /\ w.answer.list = Prepared(d)
    BY <1>3, <1>8, <2>2 DEF Ends, IsAnswer, IsOk, Run, Answer
  <2>4. /\ DOMAIN u = DOMAIN told /\ u.expects = told.expects /\ u.acked = told.acked
        /\ u.promised = told.promised /\ u.undone = told.undone /\ u.branchOf = told.branchOf
        /\ u.inBranch = told.inBranch /\ u.fate = told.fate
        /\ u.missed = {x \in Xids : told.fate[x] = "prepared"} \ Prepared(d)
    BY <1>2, <1>6, <1>7, <1>8, <2>3 DEF ToldTypes
  <2>5. CallInv(w.db, With(conn, k, w.conn), u, k, Nothing)
    BY <1>3, <2>1, <2>2, <2>3, <2>4, RecoverTold
  <2>6. Used(k, w.conn, u)
    BY <1>2, <1>4, <1>5, <1>7, <2>4 DEF Used, Receive, With
  <2> QED BY <1>2, <2>5, <2>6, CallOver
<1>9. CASE ~IsOk(w)
  <2>1. Forgets(told, u, k, r)
    BY <1>2, <1>3, <1>6, <1>7, <1>9 DEF Forgets, ToldTypes, XaTypes
  <2>2. CallInv(w.db, With(conn, k, w.conn), u, k, Nothing)
    BY <1>3, <1>5, <1>9, <2>1, CallFails
  <2>3. Used(k, w.conn, u)
    BY <1>2, <1>4, <1>5, <1>7, <2>1 DEF Used, Receive, With, Forgets
  <2> QED BY <1>2, <2>2, <2>3, CallOver
<1> QED BY <1>8, <1>9

\* A connection that is dropped when its session has ended.
Dropped(tl, u, k) ==
  /\ ToldTypes(u) /\ u.expects[k] = TRUE /\ u.acked[k] = {} /\ u.branchOf[k] = NoXid
  /\ \A j \in Conns : j # k =>
       u.expects[j] = tl.expects[j] /\ u.acked[j] = tl.acked[j] /\ u.branchOf[j] = tl.branchOf[j]
  /\ u.promised = tl.promised /\ u.undone \subseteq tl.undone \cup tl.acked[k]
  /\ u.inBranch = tl.inBranch /\ u.fate = tl.fate

\* What a connection that is dropped has not committed has vanished.
LEMMA DroppedInv ==
  ASSUME NEW d, NEW cn, NEW tl, NEW u, NEW k, k \in Conns, cn[k].session # 0, ~IsOpen(d, cn[k].session),
         CallInv(d, cn, tl, k, Nothing), Dropped(tl, u, k)
  PROVE  CallInv(d, With(cn, k, NoConn), u, k, Nothing)
<1>1. DbInv(d) /\ ToldTypes(tl) /\ ConnsInv(d, cn, tl) /\ OptionsInv(d, cn) /\ PromisesInv(d, tl)
  BY DEF CallInv
<1>2. PICK m : m = With(cn, k, NoConn)
  OBVIOUS
<1>3. DOMAIN m = Conns /\ m[k] = NoConn /\ \A j \in Conns : j # k => m[j] = cn[j]
  BY <1>1, <1>2 DEF With, ConnsInv
<1>4. NoConn.session = 0 /\ NoConn.autoCommit = TRUE /\ DOMAIN NoConn = {"locale", "options", "autoCommit", "session"}
  BY DEF NoConn
<1>5. ConnsInv(d, m, u)
  <2>1. \A j \in Conns : u.expects[j] = m[j].autoCommit
    BY <1>1, <1>3, <1>4 DEF ConnsInv, Dropped
  <2>2. \A j \in Conns : m[j] = NoConn \/ m[j] = cn[j]
    BY <1>3
  <2>3. ASSUME NEW j \in Conns
        PROVE  /\ DOMAIN m[j] = {"locale", "options", "autoCommit", "session"}
               /\ m[j].session # 0 => m[j].session \in DOMAIN d.sessions
               /\ m[j].session = 0 => m[j].autoCommit = TRUE
    BY <1>1, <1>4, <2>2 DEF ConnsInv
  <2>4. ASSUME NEW j \in Conns, NEW i \in Conns, m[j].session # 0, i # j
        PROVE  m[i].session # m[j].session
    <3>1. j # k /\ m[j] = cn[j]
      BY <1>3, <1>4, <2>4
    <3>2. CASE i = k
      BY <1>3, <1>4, <2>4, <3>2
    <3>3. CASE i # k
      BY <1>1, <1>3, <2>4, <3>1, <3>3 DEF ConnsInv
    <3> QED BY <3>2, <3>3
  <2> QED BY <1>3, <2>1, <2>3, <2>4 DEF ConnsInv
<1>6. OptionsInv(d, m)
  BY <1>1, <1>3, <1>4 DEF OptionsInv
<1>7. ASSUME NEW row \in tl.acked[k]
      PROVE  ~IsThere(d, row)
  <2>1. CountsOn(d, cn[k].session, tl.acked[k], tl.branchOf[k], Nothing)
    BY DEF CallInv, RequestOf
  <2>2. d.sessions[cn[k].session].changes = {}
    BY <1>1 DEF ConnsInv, DbInv, BranchesInv, IsOpen
  <2>3. row \in d.vanished
    BY <2>1, <2>2 DEF CountsOn, Nothing, StatementTypes
  <2> QED BY <1>1, <2>3 DEF DbInv, RowsApart, IsThere
<1>8. PromisesInv(d, u)
  BY <1>1, <1>7 DEF PromisesInv, Dropped
<1>9. ASSUME NEW j \in Conns, m[j].session # 0
      PROVE  /\ CountsOn(d, m[j].session, u.acked[j], u.branchOf[j], Nothing)
             /\ BranchFits(d, m[j].session, u.branchOf[j], u.fate)
  <2>1. j # k /\ m[j] = cn[j]
    BY <1>3, <1>4, <1>9
  <2> QED BY <1>9, <2>1 DEF CallInv, RequestOf, Dropped
<1>10. ASSUME NEW x \in Xids
       PROVE  FateDuring(d, x, u.fate[x], u.inBranch[x], Nothing)
  BY DEF CallInv, Dropped
<1>11. ToldTypes(u)
  BY DEF Dropped
<1>12. CallInv(d, m, u, k, Nothing)
  BY <1>1, <1>5, <1>6, <1>8, <1>9, <1>10, <1>11 DEF CallInv, RequestOf
<1> QED BY <1>2, <1>12

\* The auto-commit mode of a connection is what the program expects.
LEMMA AutoCommitSet ==
  ASSUME NEW d, NEW cn, NEW tl, NEW u, NEW k, NEW b, NEW on, k \in Conns, CallInv(d, cn, tl, k, Nothing),
         cn[k].session # 0, on \in BOOLEAN, b = [cn[k] EXCEPT !.autoCommit = on],
         u = [tl EXCEPT !.expects[k] = on]
  PROVE  CallInv(d, With(cn, k, b), u, k, Nothing)
<1>1. DbInv(d) /\ ToldTypes(tl) /\ ConnsInv(d, cn, tl) /\ OptionsInv(d, cn) /\ PromisesInv(d, tl)
  BY DEF CallInv
<1>2. PICK m : m = With(cn, k, b)
  OBVIOUS
<1>3. DOMAIN m = Conns /\ m[k] = b /\ \A j \in Conns : j # k => m[j] = cn[j]
  BY <1>1, <1>2 DEF With, ConnsInv
<1>4. /\ DOMAIN b = {"locale", "options", "autoCommit", "session"} /\ b.session = cn[k].session
      /\ b.locale = cn[k].locale /\ b.options = cn[k].options /\ b.autoCommit = on
  BY <1>1 DEF ConnsInv
<1>5. /\ DOMAIN u = DOMAIN tl /\ u.acked = tl.acked /\ u.promised = tl.promised /\ u.missed = tl.missed
      /\ u.undone = tl.undone /\ u.branchOf = tl.branchOf /\ u.inBranch = tl.inBranch /\ u.fate = tl.fate
      /\ u.expects = [tl.expects EXCEPT ![k] = on]
  BY <1>1 DEF ToldTypes
<1>6. \A j \in Conns : m[j].session = cn[j].session /\ m[j].locale = cn[j].locale /\ m[j].options = cn[j].options
  BY <1>3, <1>4
<1>7. u.expects \in [Conns -> BOOLEAN] /\ \A j \in Conns : u.expects[j] = IF j = k THEN on ELSE tl.expects[j]
  BY <1>1, <1>5 DEF ToldTypes
<1>8. ToldTypes(u)
  BY <1>1, <1>5, <1>7 DEF ToldTypes
<1>9. ConnsInv(d, m, u)
  <2>1. ASSUME NEW j \in Conns
        PROVE  /\ DOMAIN m[j] = {"locale", "options", "autoCommit", "session"}
               /\ m[j].session # 0 => m[j].session \in DOMAIN d.sessions
               /\ u.expects[j] = m[j].autoCommit
               /\ m[j].session = 0 => m[j].autoCommit = TRUE
    BY <1>1, <1>3, <1>4, <1>7 DEF ConnsInv
  <2>2. \A j \in Conns : \A i \in Conns : m[j].session # 0 /\ i # j => m[i].session # m[j].session
    BY <1>1, <1>6 DEF ConnsInv
  <2> QED BY <1>3, <2>1, <2>2 DEF ConnsInv
<1>10. OptionsInv(d, m)
  BY <1>1, <1>6 DEF OptionsInv, ClientOptions
<1>11. PromisesInv(d, u)
  BY <1>1, <1>5 DEF PromisesInv
<1>12. ASSUME NEW j \in Conns, m[j].session # 0
       PROVE  /\ CountsOn(d, m[j].session, u.acked[j], u.branchOf[j], Nothing)
              /\ BranchFits(d, m[j].session, u.branchOf[j], u.fate)
  BY <1>5, <1>6, <1>12 DEF CallInv, RequestOf
<1>13. ASSUME NEW x \in Xids
       PROVE  FateDuring(d, x, u.fate[x], u.inBranch[x], Nothing)
  BY <1>5 DEF CallInv
<1>14. CallInv(d, m, u, k, Nothing)
  BY <1>1, <1>8, <1>9, <1>10, <1>11, <1>12, <1>13 DEF CallInv, RequestOf
<1> QED BY <1>2, <1>14

\* set_auto_commit.
LEMMA SetAutoCommitInv ==
  ASSUME SessionInv, NEW k \in Conns, NEW on \in BOOLEAN, SetAutoCommit(k, on)
  PROVE  SessionInv'
<1>1. CallInv(db, conn, told, k, Nothing)
  BY CallBegins DEF SessionInv
<1>2. PICK b : b = [conn[k] EXCEPT !.autoCommit = on]
  OBVIOUS
<1>3. PICK u : u = [told EXCEPT !.expects[k] = on]
  OBVIOUS
<1>4. conn' = With(conn, k, b) /\ told' = u /\ db' = db /\ pool' = pool /\ at' = at
  BY <1>2, <1>3 DEF SetAutoCommit, With
<1>5. Exists(k) /\ k \notin pool
  BY DEF SetAutoCommit
<1>6. CallInv(db, With(conn, k, b), u, k, Nothing)
  BY <1>1, <1>2, <1>3, <1>5, AutoCommitSet DEF Exists
<1>7. CallInv(db', conn', told', First, Nothing)
  BY <1>4, <1>6, CallBegins
<1>8. b.session # 0
  <2>1. DOMAIN conn[k] = {"locale", "options", "autoCommit", "session"}
    BY <1>1 DEF CallInv, ConnsInv
  <2> QED BY <1>2, <1>5, <2>1 DEF Exists
<1>9. u.acked = told.acked /\ u.branchOf = told.branchOf
  BY <1>1, <1>3 DEF CallInv, ToldTypes
<1>10. Used(k, b, u)
  BY <1>4, <1>5, <1>8, <1>9 DEF Used
<1> QED BY <1>7, <1>10, UsedInv DEF SessionInv

\* The database or the network ends a session.
LEMMA LoseSessionInv ==
  ASSUME SessionInv, NEW s \in DOMAIN db.sessions, LoseSession(s)
  PROVE  SessionInv'
<1>1. CallInv(Ended(db, s), conn, told, First, Nothing)
  BY LostInv DEF SessionInv
<1>2. CallInv(db', conn', told', First, Nothing)
  BY <1>1 DEF LoseSession
<1>3. UseInv'
  BY DEF SessionInv, UseInv, LoseSession, Exists
<1> QED BY <1>2, <1>3 DEF SessionInv

\* drop_impl.
LEMMA DropInv ==
  ASSUME SessionInv, NEW k \in Conns, Drop(k)
  PROVE  SessionInv'
<1>1. CallInv(db, conn, told, k, Nothing)
  BY CallBegins DEF SessionInv
<1>2. PICK s : s = conn[k].session
  OBVIOUS
<1>3. s # 0 /\ s \in DOMAIN db.sessions /\ DbInv(db) /\ ToldTypes(told) /\ DOMAIN conn = Conns
  BY <1>1, <1>2 DEF Drop, Exists, CallInv, ConnsInv
<1>4. db' = Ended(db, s)
  BY <1>2 DEF Drop, EndOf
<1>5. CallInv(Ended(db, s), conn, told, k, Nothing) /\ HasEnded(db, Ended(db, s), s)
  BY <1>1, <1>3, LostInv, EndedIs DEF DbInv
<1>6. ~IsOpen(Ended(db, s), s)
  BY <1>5 DEF HasEnded, IsOpen
<1>7. PICK u : u = told'
  OBVIOUS
<1>8. Dropped(told, u, k)
  BY <1>3, <1>7 DEF Drop, Dropped, ToldTypes
<1>9. CallInv(Ended(db, s), With(conn, k, NoConn), u, k, Nothing)
  BY <1>2, <1>3, <1>5, <1>6, <1>8, DroppedInv
<1>10. conn' = With(conn, k, NoConn) /\ pool' = pool /\ at' = at /\ k \notin pool /\ \A t \in Threads : at[t] # k
  BY DEF Drop, With
<1>11. CallInv(db', conn', told', First, Nothing)
  BY <1>4, <1>7, <1>9, <1>10, CallBegins
<1>12. UseInv'
  <2>1. \A j \in Conns : j # k => (Exists(j)' <=> Exists(j))
    BY <1>3, <1>10 DEF With, Exists
  <2> QED BY <1>7, <1>8, <1>10, <2>1 DEF SessionInv, UseInv, Dropped
<1> QED BY <1>11, <1>12 DEF SessionInv

\* has_broken.
LEMMA CheckInInv ==
  ASSUME SessionInv, NEW k \in Conns, CheckIn(k)
  PROVE  SessionInv'
<1>1. UseInv'
  BY DEF SessionInv, UseInv, CheckIn, Exists
<1> QED BY <1>1 DEF SessionInv, CheckIn

\* The first lock of xa_send_receive_impl.
LEMMA XaCheckInv ==
  ASSUME SessionInv, NEW t \in Threads, NEW k \in Conns, XaCheck(t, k)
  PROVE  SessionInv'
<1>1. UseInv'
  BY DEF SessionInv, UseInv, XaCheck, Exists
<1> QED BY <1>1 DEF SessionInv, XaCheck

\* A connection that is handed out has been checked.
LEMMA CheckOutInv ==
  ASSUME SessionInv, NEW k \in Conns, CheckOut(k)
  PROVE  SessionInv'
<1>1. PICK r : r = Request(k, "query")
  OBVIOUS
<1>2. PICK w \in FullSend(db, conn[k], r) :
        IF IsOk(w) THEN Receive(k, w) /\ told' = told
        ELSE db' = EndOf(w.db, w.conn) /\ conn' = [conn EXCEPT ![k] = NoConn]
             /\ told' = [told EXCEPT !.expects[k] = TRUE]
  BY <1>1 DEF CheckOut
<1>3. /\ k \in pool /\ pool' = pool \ {k} /\ at' = at /\ Exists(k)
      /\ told.acked[k] = {} /\ told.branchOf[k] = NoXid
  <2>1. k \in pool /\ pool' = pool \ {k} /\ at' = at
    BY DEF CheckOut
  <2> QED BY <2>1 DEF SessionInv, UseInv
<1>4. /\ told.expects[k] = conn[k].autoCommit /\ conn[k].autoCommit \in BOOLEAN
      /\ ToldTypes(told) /\ DOMAIN conn = Conns
  BY DEF SessionInv, CallInv, ConnsInv, ToldTypes
<1>5. r.type = "query" /\ IsStatement(r) /\ RowsOf(r) = {}
  BY <1>1, <1>4 DEF Request, IsStatement, StatementTypes, RowsOf
<1>6. Fresh(told, RowsOf(r)) /\ Asks(told, r)
  BY <1>5 DEF Fresh, Asks
<1>7. CallEnds(w, conn, told, k, r) /\ w.conn.session # 0
  BY <1>3, <1>6, CallInvOf DEF CallEnds
<1>8. UNCHANGED <<told>> \/ told' = [told EXCEPT !.expects[k] = TRUE]
  BY <1>2
<1>9. told'.acked = told.acked /\ told'.branchOf = told.branchOf
  BY <1>4, <1>8 DEF ToldTypes
<1>10. \A j \in Conns : j # k => (Exists(j)' <=> Exists(j))
  BY <1>2, <1>4 DEF Exists, Receive
<1>11. UseInv'
  <2>1. \A j \in Conns : ~Exists(j)' \/ j \in pool' => told'.acked[j] = {} /\ told'.branchOf[j] = NoXid
    BY <1>3, <1>9, <1>10 DEF SessionInv, UseInv
  <2> QED BY <1>3, <1>10, <2>1 DEF SessionInv, UseInv
<1>12. CASE IsOk(w)
  <2>1. LearnsEnd(told, told, k, r)
    BY <1>3, <1>4, <1>5 DEF LearnsEnd
  <2>2. PICK d : OkStatement(d, w.db, With(conn, k, w.conn), told, k, r, w.conn.session)
    BY <1>5, <1>6, <1>7, <1>12, StatementReturns
  <2>3. CallInv(w.db, With(conn, k, w.conn), told, k, Nothing)
    BY <1>5, <2>1, <2>2, EndTold
  <2>4. db' = w.db /\ conn' = With(conn, k, w.conn) /\ told' = told
    BY <1>2, <1>12 DEF Receive, With
  <2>5. CallInv(db', conn', told', First, Nothing)
    BY <2>3, <2>4, CallBegins
  <2> QED BY <1>11, <2>5 DEF SessionInv
<1>13. CASE ~IsOk(w)
  <2>1. Forgets(told, told, k, r)
    BY <1>3, <1>4, <1>5 DEF Forgets, XaTypes
  <2>2. PICK m : m = With(conn, k, w.conn)
    OBVIOUS
  <2>3. CallInv(w.db, m, told, k, Nothing)
    BY <1>6, <1>7, <1>13, <2>1, <2>2, CallFails
  <2>4. PICK s : s = w.conn.session
    OBVIOUS
  <2>5. PICK e : e = w.db
    OBVIOUS
  <2>6. m[k] = w.conn /\ s \in DOMAIN e.sessions /\ DbInv(e)
    BY <1>4, <1>7, <2>2, <2>3, <2>4, <2>5 DEF With, CallInv, ConnsInv
  <2>7. CallInv(Ended(e, s), m, told, k, Nothing) /\ HasEnded(e, Ended(e, s), s)
    BY <2>3, <2>5, <2>6, LostInv, EndedIs DEF DbInv
  <2>8. ~IsOpen(Ended(e, s), s)
    BY <2>7 DEF HasEnded, IsOpen
  <2>9. PICK u : u = told'
    OBVIOUS
  <2>10. Dropped(told, u, k)
    <3>1. u = [told EXCEPT !.expects[k] = TRUE]
      BY <1>2, <1>13, <2>9
    <3>2. /\ DOMAIN u = DOMAIN told /\ u.acked = told.acked /\ u.promised = told.promised
          /\ u.missed = told.missed /\ u.undone = told.undone /\ u.branchOf = told.branchOf
          /\ u.inBranch = told.inBranch /\ u.fate = told.fate
          /\ u.expects = [told.expects EXCEPT ![k] = TRUE]
      BY <1>4, <3>1 DEF ToldTypes
    <3>3. /\ u.expects \in [Conns -> BOOLEAN]
          /\ \A j \in Conns : u.expects[j] = IF j = k THEN TRUE ELSE told.expects[j]
      BY <1>4, <3>2 DEF ToldTypes
    <3>4. ToldTypes(u)
      BY <1>4, <3>2, <3>3 DEF ToldTypes
    <3> QED BY <1>3, <3>2, <3>3, <3>4 DEF Dropped
  <2>11. CallInv(Ended(e, s), With(m, k, NoConn), u, k, Nothing)
    BY <1>7, <2>4, <2>6, <2>7, <2>8, <2>10, DroppedInv
  <2>12. With(m, k, NoConn) = conn' /\ db' = Ended(e, s)
    BY <1>2, <1>4, <1>13, <2>2, <2>4, <2>5 DEF With, EndOf
  <2>13. CallInv(db', conn', told', First, Nothing)
    BY <2>9, <2>11, <2>12, CallBegins
  <2> QED BY <1>11, <2>13 DEF SessionInv
<1> QED BY <1>12, <1>13

\* A connection with a locale authenticates, which makes it n.conn.
IsConnected(locale, c, n) ==
  /\ c = [NoConn EXCEPT !.locale = locale, !.options = ForServer(locale)]
  /\ n = Authenticated(db, c, ToAuthenticate(c, FALSE))

\* A connection is opened: its session has its options.
LEMMA ConnectingInv ==
  ASSUME SessionInv, NEW k \in Conns, NEW locale, NEW c, NEW n, ~Exists(k), IsConnected(locale, c, n)
  PROVE  /\ CallInv(n.db, With(conn, k, n.conn), told, k, Nothing)
         /\ n.conn.session # 0 /\ n.conn.autoCommit = TRUE
<1>1. PICK o : o = ForServer(locale)
  OBVIOUS
<1>2. /\ DOMAIN c = {"locale", "options", "autoCommit", "session"} /\ c.locale = locale
      /\ c.options = o /\ c.autoCommit = TRUE /\ c.session = 0
  BY <1>1 DEF NoConn, IsConnected
<1>3. PICK i : i = Len(db.sessions) + 1
  OBVIOUS
<1>4. PICK v : v = DigestServerConnectOptions(o, ServerOptions(i))
  OBVIOUS
<1>5. PICK b : b = n.conn
  OBVIOUS
<1>6. PICK e : e = n.db
  OBVIOUS
<1>7. /\ e = Opened(db, o, c)
      /\ b = [c EXCEPT !.session = i, !.options = DigestServerConnectOptions(@, ServerOptions(i))]
  BY <1>2, <1>3, <1>5, <1>6 DEF Authenticated, ToAuthenticate, IsConnected
<1>8. /\ DOMAIN b = {"locale", "options", "autoCommit", "session"}
      /\ b.session = i /\ b.autoCommit = TRUE /\ b.locale = locale /\ b.options = v
  BY <1>2, <1>4, <1>7
<1>9. /\ {"OSUser", "DataFormatVersion2"} \subseteq DOMAIN o
      /\ o.OSUser = OsUserName /\ o.DataFormatVersion2 = 8 /\ Localized(o, locale)
      /\ "OriginalAnchorConnectionID" \notin DOMAIN o
  BY <1>1, OptionsForServer
<1>10. /\ {"ConnectionID", "OSUser", "DataFormatVersion2"} \subseteq DOMAIN v
       /\ v.ConnectionID = i /\ v.OSUser = OsUserName /\ v.DataFormatVersion2 = 8
       /\ Localized(v, locale) /\ "OriginalAnchorConnectionID" \notin DOMAIN v
  <2>1. o = c.options /\ Localized(o, c.locale)
    BY <1>2, <1>9
  <2>2. Localized(v, c.locale) => Localized(v, locale)
    BY <1>2
  <2> QED BY <1>4, <1>9, <2>1, <2>2, OptionsDigested
<1>11. SessionJoins(b, i, o, c.session)
  BY <1>2, <1>8, <1>9, <1>10 DEF SessionJoins
<1>12. IsOpened(db, e, i, o, c)
  BY <1>3, <1>7 DEF IsOpened
<1>13. /\ CallInv(db, conn, told, k, Nothing) /\ conn[k].session = 0
       /\ told.acked[k] = {} /\ told.branchOf[k] = NoXid
  BY CallBegins DEF SessionInv, UseInv, Exists
<1>14. b.autoCommit = told.expects[k]
  BY <1>8, <1>13 DEF CallInv, ConnsInv
<1>15. CallInv(e, With(conn, k, b), told, k, Nothing) /\ b.session # 0
  <2>1. /\ conn[k].session = 0 => told.acked[k] = {} /\ told.branchOf[k] = NoXid
        /\ conn[k].session # 0 => ~IsOpen(db, conn[k].session)
    BY <1>13
  <2> QED BY <1>11, <1>12, <1>13, <1>14, <2>1, SessionOpened
<1> QED BY <1>5, <1>6, <1>8, <1>15

\* A connection that is opened is nobody's, but may be the pool's.
LEMMA OpenedUse ==
  ASSUME SessionInv, NEW k \in Conns, NEW b, ~Exists(k), conn' = With(conn, k, b), b.session # 0,
         told'.acked = told.acked, told'.branchOf = told.branchOf, at' = at,
         pool' = pool \/ pool' = pool \cup {k}
  PROVE  UseInv'
<1>1. DOMAIN conn = Conns
  BY DEF SessionInv, CallInv, ConnsInv
<1>2. Exists(k)' /\ \A j \in Conns : j # k => (Exists(j)' <=> Exists(j))
  BY <1>1 DEF With, Exists
<1> QED BY <1>2 DEF SessionInv, UseInv

\* Connection::new.
LEMMA NewInv ==
  ASSUME SessionInv, New
  PROVE  SessionInv'
<1>1. PICK locale : locale = builder.clientlocale
  OBVIOUS
<1>2. PICK c : c = [NoConn EXCEPT !.locale = locale, !.options = ForServer(locale)]
  OBVIOUS
<1>3. PICK n : n = Authenticated(db, c, ToAuthenticate(c, FALSE))
  OBVIOUS
<1>4. /\ ~Exists(First) /\ db' = n.db /\ conn' = With(conn, First, n.conn)
      /\ pool' = pool /\ at' = at /\ told' = told
  BY <1>1, <1>2, <1>3 DEF New, Connecting, With
<1>5. CallInv(n.db, With(conn, First, n.conn), told, First, Nothing) /\ n.conn.session # 0
  BY <1>2, <1>3, <1>4, ConnectingInv, SessionAssumption DEF IsConnected
<1>6. UseInv'
  BY <1>4, <1>5, OpenedUse, SessionAssumption
<1> QED BY <1>4, <1>5, <1>6 DEF SessionInv

\* ConnectionManager::connect.
LEMMA PoolConnectInv ==
  ASSUME SessionInv, NEW k \in Conns, PoolConnect(k)
  PROVE  SessionInv'
<1>1. PICK locale : locale = conn[First].locale
  OBVIOUS
<1>2. PICK c : c = [NoConn EXCEPT !.locale = locale, !.options = ForServer(locale)]
  OBVIOUS
<1>3. PICK n : n = Authenticated(db, c, ToAuthenticate(c, FALSE))
  OBVIOUS
<1>4. /\ ~Exists(k) /\ db' = n.db /\ conn' = With(conn, k, n.conn)
      /\ pool' = pool \cup {k} /\ at' = at /\ told' = told
  BY <1>1, <1>2, <1>3 DEF PoolConnect, Connecting, With
<1>5. CallInv(n.db, With(conn, k, n.conn), told, k, Nothing) /\ n.conn.session # 0
  BY <1>2, <1>3, <1>4, ConnectingInv DEF IsConnected
<1>6. CallInv(db', conn', told', First, Nothing)
  BY <1>4, <1>5, CallBegins
<1>7. UseInv'
  BY <1>4, <1>5, OpenedUse
<1> QED BY <1>6, <1>7 DEF SessionInv

\* Connection::spawn.
LEMMA SpawnInv ==
  ASSUME SessionInv, NEW k \in Conns, NEW j \in Conns, Spawn(k, j)
  PROVE  SessionInv'
<1>1. PICK locale : locale = conn[k].locale
  OBVIOUS
<1>2. PICK c : c = [NoConn EXCEPT !.locale = locale, !.options = ForServer(locale)]
  OBVIOUS
<1>3. PICK n : n = Authenticated(db, c, ToAuthenticate(c, FALSE))
  OBVIOUS
<1>4. PICK on : on = conn[k].autoCommit
  OBVIOUS
<1>5. PICK b : b = [n.conn EXCEPT !.autoCommit = on]
  OBVIOUS
<1>6. PICK u : u = [told EXCEPT !.expects[j] = on]
  OBVIOUS
<1>7. on = told.expects[k] /\ on \in BOOLEAN /\ ToldTypes(told) /\ DOMAIN conn = Conns
  BY <1>4 DEF SessionInv, CallInv, ConnsInv, ToldTypes
<1>8. ~Exists(j) /\ db' = n.db /\ pool' = pool /\ at' = at
  BY <1>1, <1>2, <1>3 DEF Spawn
<1>9. conn' = With(conn, j, b)
  BY <1>1, <1>2, <1>3, <1>4, <1>5 DEF Spawn, With
<1>10. told' = u
  BY <1>6, <1>7 DEF Spawn
<1>11. PICK m : m = With(conn, j, n.conn)
  OBVIOUS
<1>12. CallInv(n.db, m, told, j, Nothing) /\ n.conn.session # 0
  BY <1>2, <1>3, <1>8, <1>11, ConnectingInv DEF IsConnected
<1>13. m[j] = n.conn
  BY <1>7, <1>11 DEF With
<1>14. CallInv(n.db, With(m, j, b), u, j, Nothing)
  BY <1>5, <1>6, <1>7, <1>12, <1>13, AutoCommitSet
<1>15. With(m, j, b) = With(conn, j, b)
  BY <1>7, <1>11 DEF With
<1>16. CallInv(db', conn', told', First, Nothing)
  BY <1>8, <1>9, <1>10, <1>14, <1>15, CallBegins
<1>17. b.session # 0
  BY <1>5, <1>12, <1>13 DEF CallInv, ConnsInv
<1>18. u.acked = told.acked /\ u.branchOf = told.branchOf
  BY <1>6, <1>7 DEF ToldTypes
<1>19. UseInv'
  BY <1>8, <1>9, <1>10, <1>17, <1>18, OpenedUse
<1> QED BY <1>16, <1>19 DEF SessionInv

\* The parameters of the connection.
LEMMA BuilderInv ==
  ASSUME SessionInv, BuilderNext
  PROVE  SessionInv'
<1>1. db' = db /\ conn' = conn /\ told' = told /\ pool' = pool /\ at' = at
  BY DEF BuilderNext, SetHostname, SetPort, SetDbuser, SetPassword, UnsetPassword, SetClientlocale,
         ClientlocaleFromEnvLang, TlsWith, Option, FromUrl, Set
<1> QED BY <1>1 DEF SessionInv, UseInv, Exists

-----------------------------------------------------------------------------
\* At the beginning there is nothing.
LEMMA InitInv ==
  ASSUME Init
  PROVE  SessionInv
<1>1. db.sessions = << >> /\ db.durable = {} /\ db.vanished = {} /\ db.branches = [x \in Xids |-> NoBranch]
      /\ DOMAIN db = {"sessions", "durable", "vanished", "branches"}
  BY DEF Init
<1>2. DbInv(db)
  <2>1. DOMAIN db.sessions = {} /\ IsSeq(db.sessions)
    BY <1>1 DEF IsSeq
  <2>2. \A x \in Xids : db.branches[x] = [state |-> "none", changes |-> {}, session |-> 0]
    BY <1>1 DEF NoBranch
  <2>3. DbTypes(db)
    BY <1>1, <2>1 DEF DbTypes, NoBranch, States
  <2>4. BranchesInv(db) /\ RowsApart(db)
    BY <1>1, <2>1, <2>2 DEF BranchesInv, RowsApart
  <2> QED BY <2>3, <2>4 DEF DbInv
<1>3. /\ DOMAIN conn = Conns
      /\ \A k \in Conns : /\ DOMAIN conn[k] = {"locale", "options", "autoCommit", "session"}
                          /\ conn[k].session = 0 /\ conn[k].autoCommit = TRUE
  BY DEF Init, NoConn
<1>4. ToldTypes(told)
  BY DEF Init, ToldTypes, Fates
<1>5. ConnsInv(db, conn, told)
  BY <1>3 DEF ConnsInv, Init
<1>6. OptionsInv(db, conn)
  BY <1>1, <1>3 DEF OptionsInv, SessionOptions
<1>7. PromisesInv(db, told)
  BY DEF PromisesInv, Init
<1>8. ASSUME NEW x \in Xids
      PROVE  FateDuring(db, x, told.fate[x], told.inBranch[x], Nothing)
  <2>1. told.fate[x] = "none" /\ db.branches[x].state = "none"
    BY <1>1 DEF Init, NoBranch
  <2> QED BY <2>1 DEF FateDuring, FateFits, MayBe
<1>9. CallInv(db, conn, told, First, Nothing)
  BY <1>2, <1>3, <1>4, <1>5, <1>6, <1>7, <1>8 DEF CallInv
<1>10. UseInv
  BY <1>3 DEF UseInv, Init, Exists
<1> QED BY <1>9, <1>10 DEF SessionInv

\* Every step of the program, of the pool, of the transaction manager and of
\* the database.
LEMMA NextInv ==
  ASSUME SessionInv, [Next]_vars
  PROVE  SessionInv'
<1>1. CASE UNCHANGED vars
  BY <1>1 DEF vars, SessionInv, UseInv, Exists
<1>2. CASE BuilderNext
  BY <1>2, BuilderInv
<1>3. CASE New
  BY <1>3, NewInv
<1>4. ASSUME NEW k \in Conns, NEW j \in Conns, Spawn(k, j)
      PROVE  SessionInv'
  BY <1>4, SpawnInv
<1>5. ASSUME NEW k \in Conns,
             PoolConnect(k) \/ CheckIn(k) \/ CheckOut(k) \/ Drop(k)
             \/ Insert(k) \/ Commit(k) \/ Rollback(k) \/ XaRecover(k)
             \/ \E on \in BOOLEAN : SetAutoCommit(k, on)
      PROVE  SessionInv'
  BY <1>5, PoolConnectInv, CheckInInv, CheckOutInv, DropInv, InsertInv, CommitInv, RollbackInv,
     XaRecoverInv, SetAutoCommitInv
<1>6. ASSUME NEW t \in Threads, NEW k \in Conns, XaCheck(t, k)
      PROVE  SessionInv'
  BY <1>6, XaCheckInv
<1>7. ASSUME NEW t \in Threads, NEW x \in Xids, NEW call \in XaCalls, XaSend(t, call[1], x, call[2])
      PROVE  SessionInv'
  BY <1>7, XaSendInv
<1>8. ASSUME NEW s \in DOMAIN db.sessions, LoseSession(s)
      PROVE  SessionInv'
  BY <1>8, LoseSessionInv
<1> QED BY <1>1, <1>2, <1>3, <1>4, <1>5, <1>6, <1>7, <1>8 DEF Next

\* The invariant holds in every state.
THEOREM SessionInvariant == Spec => []SessionInv
<1>1. Init => SessionInv
  BY InitInv
<1>2. SessionInv /\ [Next]_vars => SessionInv'
  BY NextInv
<1> QED BY <1>1, <1>2, PTL DEF Spec

-----------------------------------------------------------------------------
(* What a program can rely on.                                             *)
\* What the program was told to be committed is durable, or has vanished with
\* a session that was lost before the commit came; what it rolled back, or left
\* behind when it dropped the connection, is never durable (commit, rollback,
\* spawn's settings, drop_impl, full_send_sync's repetition).
THEOREM CommitsAndRollbacksHold == Spec => []TransactionsAreKept
<1>1. ASSUME SessionInv
      PROVE  TransactionsAreKept
  <2>1. PromisesInv(db, told)
    BY <1>1 DEF SessionInv, CallInv
  <2> QED BY <2>1 DEF PromisesInv, TransactionsAreKept, IsThere
<1> QED BY <1>1, SessionInvariant, PTL

\* At the end of a call there is nothing that was executed and not yet told.
LEMMA FatesFit ==
  ASSUME SessionInv, NEW x \in Xids
  PROVE  FateFits(db, x, told.fate[x], told.inBranch[x]) /\ told.fate[x] \in Fates
<1>1. FateDuring(db, x, told.fate[x], told.inBranch[x], Nothing) /\ ToldTypes(told)
  BY DEF SessionInv, CallInv
<1>2. Nothing.type \notin XaTypes
  BY DEF Nothing, XaTypes
<1> QED BY <1>1, <1>2 DEF FateDuring, ToldTypes

\* A branch is durable as a whole or not at all: as a whole when its commit
\* returned Ok, not at all as long as it may be rolled back, and when it was
\* (HdbCResourceManager's start, end, prepare, commit and rollback).
THEOREM BranchesHold == Spec => []BranchesAreAtomic
<1>1. ASSUME SessionInv
      PROVE  BranchesAreAtomic
  <2>1. SUFFICES ASSUME NEW x \in Xids
                 PROVE  /\ told.fate[x] = "committed" => told.inBranch[x] \subseteq db.durable
                        /\ told.fate[x] \in {"rolledback", "failing", "ended", "prepared"} =>
                             told.inBranch[x] \cap db.durable = {}
                        /\ told.fate[x] = "readonly" => told.inBranch[x] = {}
    BY DEF BranchesAreAtomic
  <2>2. FateFits(db, x, told.fate[x], told.inBranch[x])
    BY <1>1, FatesFit
  <2> QED BY <2>2 DEF FateFits, IsElsewhere
<1> QED BY <1>1, SessionInvariant, PTL

\* A branch whose preparation was confirmed waits for its decision with all
\* that was done in it, whatever sessions are lost in between, and recover lists
\* it (prepare and recover of HdbCResourceManager).
THEOREM PreparedBranchesWait == Spec => []PreparedSurvive
<1>1. ASSUME SessionInv
      PROVE  PreparedSurvive
  <2>1. ASSUME NEW x \in Xids, told.fate[x] = "prepared"
        PROVE  db.branches[x].state = "prepared" /\ db.branches[x].changes = told.inBranch[x]
    <3>1. FateFits(db, x, told.fate[x], told.inBranch[x])
      BY <1>1, FatesFit
    <3>2. MayBe["prepared"] = {"prepared"}
      BY DEF MayBe
    <3> QED BY <2>1, <3>1, <3>2 DEF FateFits
  <2>2. told.missed = {}
    BY <1>1 DEF SessionInv, CallInv, ToldTypes
  <2> QED BY <2>1, <2>2 DEF PreparedSurvive
<1> QED BY <1>1, SessionInvariant, PTL

\* A session knows what its client needs it to know, after any number of
\* reconnects: the locale, the user, the format of the data, and which session
\* it replaces (for_server, digest_server_connect_options, the
\* OriginalAnchorConnectionID of second_auth_request).
THEOREM SessionsKnowTheirClient == Spec => []SessionsAreConfigured
<1>1. ASSUME SessionInv
      PROVE  SessionsAreConfigured
  <2>1. SessionOptions(db) /\ \A k \in Conns : conn[k].session # 0 => ClientOptions(db, conn[k])
    BY <1>1 DEF SessionInv, CallInv, OptionsInv
  <2> QED BY <2>1 DEF SessionOptions, ClientOptions, Localized, SessionsAreConfigured, Exists
<1> QED BY <1>1, SessionInvariant, PTL

\* Only a check-out takes a connection from the pool.
LEMMA PoolKept ==
  ASSUME [Next]_vars, \A k \in Conns : ~CheckOut(k)
  PROVE  pool \subseteq pool'
<1>1. CASE UNCHANGED vars
  BY <1>1 DEF vars
<1>2. CASE BuilderNext
  BY <1>2 DEF BuilderNext, SetHostname, SetPort, SetDbuser, SetPassword, UnsetPassword,
     SetClientlocale, ClientlocaleFromEnvLang, TlsWith, Option, FromUrl, Set
<1>3. CASE New
  BY <1>3 DEF New
<1>4. ASSUME NEW k \in Conns, NEW j \in Conns, Spawn(k, j)
      PROVE  pool' = pool
  BY <1>4 DEF Spawn
<1>5. ASSUME NEW k \in Conns, PoolConnect(k) \/ CheckIn(k)
      PROVE  pool \subseteq pool'
  BY <1>5 DEF PoolConnect, CheckIn
<1>6. ASSUME NEW k \in Conns,
             Drop(k) \/ Insert(k) \/ Commit(k) \/ Rollback(k) \/ XaRecover(k)
             \/ \E on \in BOOLEAN : SetAutoCommit(k, on)
      PROVE  pool' = pool
  BY <1>6 DEF Drop, Insert, Commit, Rollback, XaRecover, SetAutoCommit
<1>7. ASSUME NEW t \in Threads, NEW k \in Conns, XaCheck(t, k)
      PROVE  pool' = pool
  BY <1>7 DEF XaCheck
<1>8. ASSUME NEW t \in Threads, NEW x \in Xids, NEW call \in XaCalls, XaSend(t, call[1], x, call[2])
      PROVE  pool' = pool
  BY <1>8 DEF XaSend
<1>9. ASSUME NEW s \in DOMAIN db.sessions, LoseSession(s)
      PROVE  pool' = pool
  BY <1>9 DEF LoseSession
<1> QED BY <1>1, <1>2, <1>3, <1>4, <1>5, <1>6, <1>7, <1>8, <1>9 DEF Next

\* A connection that is handed out has a session that has just answered, or
\* none at all: then the pool drops it.
LEMMA CheckOutAnswers ==
  ASSUME SessionInv, NEW k \in Conns, CheckOut(k)
  PROVE  /\ pool \ pool' = {k}
         /\ conn'[k].session # 0 => db'.sessions[conn'[k].session].open
<1>1. PICK r : r = Request(k, "query")
  OBVIOUS
<1>2. PICK w \in FullSend(db, conn[k], r) :
        IF IsOk(w) THEN Receive(k, w) /\ told' = told
        ELSE db' = EndOf(w.db, w.conn) /\ conn' = [conn EXCEPT ![k] = NoConn]
             /\ told' = [told EXCEPT !.expects[k] = TRUE]
  BY <1>1 DEF CheckOut
<1>3. k \in pool /\ pool' = pool \ {k} /\ Exists(k)
  <2>1. k \in pool /\ pool' = pool \ {k}
    BY DEF CheckOut
  <2> QED BY <2>1 DEF SessionInv, UseInv
<1>4. told.expects[k] = conn[k].autoCommit /\ conn[k].autoCommit \in BOOLEAN /\ DOMAIN conn = Conns
  BY DEF SessionInv, CallInv, ConnsInv, ToldTypes
<1>5. IsStatement(r) /\ RowsOf(r) = {}
  BY <1>1, <1>4 DEF Request, IsStatement, StatementTypes, RowsOf
<1>6. Fresh(told, RowsOf(r)) /\ Asks(told, r)
  BY <1>5 DEF Fresh, Asks
<1>7. CallEnds(w, conn, told, k, r)
  BY <1>3, <1>6, CallInvOf
<1>8. CASE IsOk(w)
  <2>1. PICK s : s = w.conn.session
    OBVIOUS
  <2>2. PICK d : OkStatement(d, w.db, With(conn, k, w.conn), told, k, r, s)
    BY <1>5, <1>6, <1>7, <1>8, <2>1, StatementReturns
  <2>3. d.sessions[s].open /\ Works(d, w.db, s)
    <3>1. Ready(d, s) /\ StatementServed(d, w.db, s, r, TRUE)
      BY <2>2 DEF OkStatement
    <3> QED BY <3>1 DEF Ready, StatementServed
  <2>4. w.db.sessions[s].open
    BY <2>3 DEF Works
  <2>5. db' = w.db /\ conn'[k].session = s
    BY <1>2, <1>4, <1>8, <2>1 DEF Receive
  <2> QED BY <1>3, <2>4, <2>5
<1>9. CASE ~IsOk(w)
  <2>1. conn'[k] = NoConn
    BY <1>2, <1>4, <1>9
  <2> QED BY <1>3, <2>1 DEF NoConn
<1> QED BY <1>8, <1>9

\* The pool hands out no connection whose session has ended, though has_broken
\* finds nothing wrong with any: is_valid asks the server, and a session that was
\* lost is replaced before the query is repeated.
THEOREM PoolHandsOutSessions == Spec => HandedOutAnswers
<1> DEFINE Checked == \A k \in pool \ pool' : conn'[k].session # 0 => db'.sessions[conn'[k].session].open
<1>1. ASSUME SessionInv, [Next]_vars
      PROVE  Checked
  <2>1. CASE \E k \in Conns : CheckOut(k)
    BY <1>1, <2>1, CheckOutAnswers
  <2>2. CASE \A k \in Conns : ~CheckOut(k)
    BY <1>1, <2>2, PoolKept
  <2> QED BY <2>1, <2>2
<1>2. SessionInv /\ [Next]_vars => [Checked]_vars
  BY <1>1
<1> QED BY <1>2, SessionInvariant, PTL DEF Spec, HandedOutAnswers

-----------------------------------------------------------------------------
(* A query is read as it was written, if its texts are plain.              *)

Texts == Seq(Symbols)

\* Decoding leaves the length, and symbols that mean nothing.
LEMMA DecodedType ==
  ASSUME NEW text \in Texts
  PROVE  DecodedText(text) \in Texts
<1>1. \A i \in DOMAIN text : text[i] \in Symbols
  BY ElementOfSeq, LenProperties DEF Texts
<1>2. ASSUME NEW x \in Symbols PROVE Decoded(x) \in Symbols
  <2>1. {" ", "+", "&", "#"} \subseteq Symbols
    BY SymbolsAssumption
  <2>2. Decoded(x) \in {" ", "+", "&", "#", x}
    BY Zenon DEF Decoded
  <2> QED BY <2>1, <2>2
<1>3. DOMAIN text = 1..Len(text) /\ Len(text) \in Nat
  BY LenProperties DEF Texts
<1>4. DecodedText(text) \in [1..Len(text) -> Symbols]
  BY <1>1, <1>2, <1>3 DEF DecodedText
<1> QED BY <1>3, <1>4, SeqDef DEF Texts

LEMMA DecodedSame ==
  ASSUME NEW text \in Texts, \A i \in DOMAIN text : Decoded(text[i]) = text[i]
  PROVE  DecodedText(text) = text
<1>1. text = [i \in DOMAIN text |-> text[i]]
  BY LenProperties DEF Texts
<1> QED BY <1>1, Zenon DEF DecodedText

\* An option is a name and a value.
Pairs == Texts \X Texts

\* w is a text with another one behind it.
IsJoined(w, q, r) ==
  /\ w \in Texts /\ Len(w) = Len(q) + Len(r)
  /\ Len(q) \in Nat /\ Len(r) \in Nat
  /\ DOMAIN q = 1..Len(q) /\ DOMAIN r = 1..Len(r) /\ DOMAIN w = 1..(Len(q) + Len(r))
  /\ \A i \in 1..Len(q) : w[i] = q[i]
  /\ \A i \in 1..Len(r) : w[Len(q) + i] = r[i]

LEMMA JoinedIs ==
  ASSUME NEW q \in Texts, NEW r \in Texts
  PROVE  IsJoined(q \o r, q, r)
<1>1. /\ q \o r \in Texts /\ Len(q \o r) = Len(q) + Len(r)
      /\ Len(q) \in Nat /\ Len(r) \in Nat
      /\ DOMAIN q = 1..Len(q) /\ DOMAIN r = 1..Len(r)
      /\ DOMAIN (q \o r) = 1..(Len(q) + Len(r))
      /\ \A i \in 1..(Len(q) + Len(r)) : (q \o r)[i] = IF i <= Len(q) THEN q[i] ELSE r[i - Len(q)]
  BY ConcatProperties, LenProperties DEF Texts
<1>2. ASSUME NEW i \in 1..Len(r)
      PROVE  (q \o r)[Len(q) + i] = r[i]
  <2>1. Len(q) + i \in 1..(Len(q) + Len(r)) /\ ~(Len(q) + i <= Len(q)) /\ (Len(q) + i) - Len(q) = i
    BY <1>1
  <2>2. (q \o r)[Len(q) + i] = r[(Len(q) + i) - Len(q)]
    BY <1>1, <2>1, Zenon
  <2> QED BY <2>1, <2>2
<1> QED BY <1>1, <1>2 DEF IsJoined

LEMMA PairType ==
  ASSUME NEW text \in Texts
  PROVE  PairOf(text) \in Pairs
<1>1. NameIn(text) \in Texts /\ ValueIn(text) \in Texts
  BY KeptType DEF NameIn, ValueIn, Texts
<1>2. DecodedText(NameIn(text)) \in Texts /\ DecodedText(ValueIn(text)) \in Texts
  BY <1>1, DecodedType
<1> QED BY <1>2 DEF PairOf, Pairs

\* The pairs at all positions of a text.
PairsIn(text) == [i \in DOMAIN text |-> PairOf(AssignmentAt(text, i))]
StartsOf(text)  == {i \in DOMAIN text : text[i] = "&"}

LEMMA PairsInType ==
  ASSUME NEW text \in Texts
  PROVE  /\ PairsIn(text) \in Seq(Pairs) /\ Len(PairsIn(text)) = Len(text)
         /\ \A i \in 1..Len(text) : PairsIn(text)[i] = PairOf(AssignmentAt(text, i))
         /\ QueryPairs(text) \in Seq(Pairs)
         /\ QueryPairs(text) = Kept(PairsIn(text), StartsOf(text))
<1>1. \A i : AssignmentAt(text, i) \in Texts
  BY KeptType DEF AssignmentAt, Texts
<1>2. DOMAIN text = 1..Len(text) /\ Len(text) \in Nat
  BY LenProperties DEF Texts
<1>3. PairsIn(text) \in [1..Len(text) -> Pairs]
  BY <1>1, <1>2, PairType DEF PairsIn
<1>4. PairsIn(text) \in Seq(Pairs) /\ Len(PairsIn(text)) = Len(text)
  BY <1>2, <1>3, SeqDef, LenProperties
<1>5. QueryPairs(text) = Kept(PairsIn(text), StartsOf(text))
  BY DEF QueryPairs, PairsIn, StartsOf
<1>6. QueryPairs(text) \in Seq(Pairs)
  BY <1>4, <1>5, KeptType
<1>7. \A i \in 1..Len(text) : PairsIn(text)[i] = PairOf(AssignmentAt(text, i))
  BY <1>2 DEF PairsIn
<1> QED BY <1>4, <1>5, <1>6, <1>7

\* A text with an assignment behind it: the assignments of the text stay what
\* they are, and the one behind it is read.
LEMMA AssignmentKept ==
  ASSUME NEW t \in Texts, NEW y \in Texts, Len(y) >= 1, y[1] = "&", NEW i \in 1..Len(t)
  PROVE  AssignmentAt(t \o y, i) = AssignmentAt(t, i)
<1> DEFINE w == t \o y
           P == {j \in DOMAIN w : j > i /\ \A k \in (i + 1)..j : w[k] # "&"}
           Q == {j \in DOMAIN t : j > i /\ \A k \in (i + 1)..j : t[k] # "&"}
           R == Behind(t, y, P)
<1>1. IsJoined(w, t, y)
  BY JoinedIs
<1>2. Kept(w, P) = Kept(t, P) \o Kept(y, R)
  BY KeptConcat DEF Texts
<1>3. AssignmentAt(w, i) = Kept(w, P) /\ AssignmentAt(t, i) = Kept(t, Q)
  BY DEF AssignmentAt
<1> HIDE DEF w
<1>4. \A j \in DOMAIN t : j \in P <=> j \in Q
  BY <1>1 DEF IsJoined
<1>5. \A j \in DOMAIN y : j \notin R
  <2> SUFFICES ASSUME NEW j \in DOMAIN y, j \in R PROVE FALSE
    OBVIOUS
  <2>1. Len(t) + j \in P
    BY DEF Behind
  <2>2. Len(t) + 1 \in (i + 1)..(Len(t) + j)
    BY <1>1 DEF IsJoined
  <2>3. w[Len(t) + 1] = "&"
    BY <1>1 DEF IsJoined
  <2> QED BY <2>1, <2>2, <2>3
<1> HIDE DEF P, Q, R
<1>6. Kept(t, P) = Kept(t, Q) /\ Kept(y, R) = << >>
  BY <1>4, <1>5, KeptSame, KeptNone DEF Texts
<1>7. Kept(t, Q) \in Seq(Symbols)
  BY KeptType DEF Texts
<1>8. Kept(t, Q) \o << >> = Kept(t, Q)
  BY <1>7, ConcatEmptySeq
<1> QED BY <1>2, <1>3, <1>6, <1>8 DEF w

\* Texts of one symbol and of two.
LEMMA OneSymbol ==
  ASSUME NEW s \in Symbols
  PROVE  <<s>> \in Texts /\ Len(<<s>>) = 1 /\ DOMAIN <<s>> = {1} /\ <<s>>[1] = s
<1>1. <<s>> \in Seq(Symbols)
  OBVIOUS
<1> QED BY <1>1 DEF Texts

LEMMA TwoSymbols ==
  ASSUME NEW s \in Symbols, NEW u \in Symbols
  PROVE  /\ <<s, u>> \in Texts /\ Len(<<s, u>>) = 2 /\ DOMAIN <<s, u>> = {1, 2}
         /\ <<s, u>>[1] = s /\ <<s, u>>[2] = u /\ <<s, u>> = Append(<<s>>, u)
<1>1. <<s, u>> \in Seq(Symbols)
  OBVIOUS
<1> QED BY <1>1 DEF Texts

\* The text that starts an assignment.
LEMMA Ampersand ==
  /\ <<"&">> \in Texts /\ Len(<<"&">>) = 1 /\ <<"&">>[1] = "&" /\ DOMAIN <<"&">> = {1}
<1>1. "&" \in Symbols
  BY SymbolsAssumption
<1>2. <<"&">> \in Seq(Symbols)
  BY <1>1
<1> QED BY <1>2 DEF Texts

LEMMA AssignmentRead ==
  ASSUME NEW t \in Texts, NEW x \in Texts, \A i \in DOMAIN x : x[i] # "&"
  PROVE  AssignmentAt(t \o (<<"&">> \o x), Len(t) + 1) = x
<1> DEFINE a == <<"&">>
           y == a \o x
           w == t \o y
           n == Len(t) + 1
           P == {j \in DOMAIN w : j > n /\ \A k \in (n + 1)..j : w[k] # "&"}
           R == Behind(t, y, P)
           V == Behind(a, x, R)
<1> HIDE DEF P, R, V, w, y, a, n
<1>0. a \in Texts /\ Len(a) = 1 /\ DOMAIN a = {1}
  BY Ampersand DEF a
<1>1. /\ Len(t) \in Nat /\ Len(x) \in Nat /\ DOMAIN t = 1..Len(t) /\ DOMAIN x = 1..Len(x)
      /\ n \in Nat /\ y \in Texts /\ Len(y) = 1 + Len(x) /\ DOMAIN y = 1..Len(y)
      /\ \A j \in 1..Len(x) : y[1 + j] = x[j]
  <2>1. IsJoined(y, a, x)
    BY <1>0, JoinedIs DEF y
  <2>2. Len(t) \in Nat /\ Len(x) \in Nat /\ DOMAIN t = 1..Len(t) /\ DOMAIN x = 1..Len(x) /\ DOMAIN y = 1..Len(y)
    BY <2>1, LenProperties DEF Texts, IsJoined
  <2> QED BY <1>0, <2>1, <2>2 DEF n, IsJoined
<1>2. /\ w \in Texts /\ DOMAIN w = 1..(Len(t) + Len(y))
      /\ \A j \in 1..Len(y) : w[Len(t) + j] = y[j]
  <2>1. IsJoined(w, t, y)
    BY <1>1, JoinedIs DEF w
  <2> QED BY <2>1 DEF IsJoined
<1>3. Kept(w, P) = Kept(t, P) \o Kept(y, R) /\ Kept(y, R) = Kept(a, R) \o Kept(x, V)
  <2>1. Kept(w, P) = Kept(t, P) \o Kept(y, R)
    BY <1>1, KeptConcat, Zenon DEF Texts, w, R
  <2>2. Kept(y, R) = Kept(a, R) \o Kept(x, V)
    BY <1>0, KeptConcat, Zenon DEF Texts, y, V
  <2> QED BY <2>1, <2>2
<1>4. AssignmentAt(w, n) = Kept(w, P)
  BY DEF AssignmentAt, P
<1>5. /\ \A j \in DOMAIN t : j \notin P
      /\ \A j \in DOMAIN a : j \notin R
  BY <1>0, <1>1 DEF Behind, n, P, R
<1>6. DOMAIN x \subseteq V
  <2> SUFFICES ASSUME NEW j \in DOMAIN x PROVE j \in V
    OBVIOUS
  <2>1. ASSUME NEW k \in (n + 1)..(Len(t) + (j + 1))
        PROVE  w[k] # "&"
    <3>1. k - n \in 1..Len(x) /\ (k - n) + 1 \in 1..Len(y) /\ Len(t) + ((k - n) + 1) = k
      BY <1>1 DEF n
    <3>2. w[Len(t) + ((k - n) + 1)] = y[(k - n) + 1] /\ y[1 + (k - n)] = x[k - n]
      BY <1>1, <1>2, <3>1
    <3>4. (k - n) + 1 = 1 + (k - n)
      BY <1>1, <3>1
    <3> QED BY <1>1, <3>1, <3>2, <3>4
  <2>2. Len(t) + (j + 1) > n /\ Len(t) + (j + 1) \in DOMAIN w /\ j + 1 \in DOMAIN y
    BY <1>1, <1>2 DEF n
  <2>3. Len(t) + (j + 1) \in P
    BY <2>1, <2>2 DEF P
  <2>4. j + 1 \in R
    BY <2>2, <2>3 DEF Behind, R
  <2>5. Len(a) + j = j + 1
    BY <1>0, <1>1
  <2> QED BY <2>4, <2>5 DEF Behind, V
<1>7. Kept(t, P) = << >> /\ Kept(a, R) = << >> /\ Kept(x, V) = x
  BY <1>0, <1>1, <1>5, <1>6, KeptNone, KeptAll DEF Texts
<1>8. << >> \o x = x
  BY ConcatEmptySeq DEF Texts
<1> QED BY <1>3, <1>4, <1>7, <1>8 DEF w, n, y, a

\* The query of a text with one assignment more.
LEMMA QueryAppended ==
  ASSUME NEW t \in Texts, NEW x \in Texts, \A i \in DOMAIN x : x[i] # "&"
  PROVE  QueryPairs(t \o (<<"&">> \o x)) = Append(QueryPairs(t), PairOf(x))
<1> DEFINE a == <<"&">>
           y == a \o x
           w == t \o y
           n == Len(t) + 1
           p == PairsIn(t)
           v == PairsIn(w)
           u == Append(p, PairOf(x))
           P == StartsOf(w)
<1> HIDE DEF a, y, w, n, p, v, u, P
<1>1. IsJoined(y, a, x) /\ IsJoined(w, t, y) /\ y \in Texts /\ w \in Texts
  BY Ampersand, JoinedIs DEF a, y, w, IsJoined
<1>2. Len(y) >= 1 /\ y[1] = "&" /\ Len(y) = 1 + Len(x) /\ Len(t) \in Nat /\ Len(x) \in Nat
  BY <1>1, Ampersand DEF IsJoined, a
<1>3. /\ p \in Seq(Pairs) /\ Len(p) = Len(t) /\ v \in Seq(Pairs) /\ Len(v) = Len(w)
      /\ PairOf(x) \in Pairs
  BY <1>1, PairsInType, PairType DEF p, v
<1>4. \A i \in 1..Len(t) : v[i] = p[i]
  <2> SUFFICES ASSUME NEW i \in 1..Len(t) PROVE v[i] = p[i]
    OBVIOUS
  <2>1. AssignmentAt(w, i) = AssignmentAt(t, i)
    BY <1>1, <1>2, AssignmentKept DEF w
  <2>2. i \in 1..Len(w)
    BY <1>1, <1>2 DEF IsJoined
  <2> QED BY <1>1, <2>1, <2>2, PairsInType DEF v, p
<1>5. v[n] = PairOf(x) /\ n \in 1..Len(w)
  <2>1. AssignmentAt(w, n) = x
    BY AssignmentRead DEF w, y, a, n
  <2>2. n \in 1..Len(w)
    BY <1>1, <1>2 DEF IsJoined, n
  <2> QED BY <1>1, <2>1, <2>2, PairsInType DEF v
<1>6. /\ u \in Seq(Pairs) /\ Len(u) = Len(t) + 1 /\ u[n] = PairOf(x)
      /\ \A i \in 1..Len(t) : u[i] = p[i]
  BY <1>2, <1>3, AppendProperties DEF u, n
\* What is behind the first symbols starts nothing.
<1> DEFINE r == SubSeq(v, n + 1, Len(v))
           R == Behind(u, r, P)
<1>7. v = u \o r /\ r \in Seq(Pairs) /\ Len(r) = Len(x)
  <2>1. /\ SubSeq(v, 1, n) \in Seq(Pairs) /\ Len(SubSeq(v, 1, n)) = n
        /\ \A i \in 1..n : SubSeq(v, 1, n)[i] = v[i]
    BY <1>3, <1>5, SubSeqProperties DEF n
  <2>2. SubSeq(v, 1, n) = u
    <3>1. \A i \in 1..n : u[i] = v[i]
      BY <1>2, <1>4, <1>5, <1>6 DEF n
    <3>2. Len(u) = n
      BY <1>6 DEF n
    <3> QED BY <1>6, <2>1, <3>1, <3>2, SeqEqual
  <2>3. /\ r \in Seq(Pairs) /\ Len(r) = Len(v) - n
    BY <1>3, <1>5, SubSeqProperties DEF n
  <2>4. v = SubSeq(v, 1, n) \o SubSeq(v, n + 1, Len(v))
    BY <1>3, <1>5
  <2>5. Len(v) = Len(t) + (1 + Len(x))
    BY <1>1, <1>2, <1>3 DEF IsJoined
  <2>6. v = u \o r
    BY <2>2, <2>4
  <2> HIDE DEF r
  <2> QED BY <1>2, <2>3, <2>5, <2>6 DEF n
<1> HIDE DEF r, R
<1>8. Kept(v, P) = Kept(u, P) \o Kept(r, R)
  BY <1>6, <1>7, KeptConcat DEF R
<1>9. \A i \in DOMAIN r : i \notin R
  <2> SUFFICES ASSUME NEW i \in DOMAIN r PROVE i \notin R
    OBVIOUS
  <2>1. i \in 1..Len(x) /\ Len(u) + i = Len(t) + (1 + i) /\ 1 + i \in 1..Len(y)
    BY <1>2, <1>6, <1>7, LenProperties
  <2>2. w[Len(t) + (1 + i)] = y[1 + i] /\ y[1 + i] = x[i]
    BY <1>1, <2>1, Ampersand DEF IsJoined, a
  <2>3. w[Len(u) + i] # "&"
    BY <2>1, <2>2, LenProperties DEF Texts
  <2> QED BY <2>3 DEF R, P, Behind, StartsOf
<1>10. Kept(r, R) = << >> /\ Kept(u, P) \in Seq(Pairs)
  BY <1>6, <1>7, <1>9, KeptNone, KeptType
<1>11. Kept(u, P) = Append(Kept(p, P), PairOf(x))
  <2>1. Len(p) + 1 \in P
    <3>1. w[Len(t) + 1] = "&" /\ Len(t) + 1 \in DOMAIN w
      BY <1>1, <1>2 DEF IsJoined
    <3> QED BY <1>3, <3>1 DEF P, StartsOf
  <2> QED BY <1>3, <2>1, KeptAppend DEF u
<1>12. Kept(p, P) = Kept(p, StartsOf(t))
  <2>1. \A i \in DOMAIN p : i \in P <=> i \in StartsOf(t)
    <3>1. DOMAIN p = 1..Len(t)
      BY <1>3, LenProperties
    <3> QED BY <1>1, <1>2, <3>1 DEF IsJoined, P, StartsOf
  <2> QED BY <2>1, KeptSame
<1>13. QueryPairs(w) = Kept(v, P) /\ QueryPairs(t) = Kept(p, StartsOf(t))
  BY <1>1, PairsInType DEF v, p, P
<1>14. Kept(u, P) \o << >> = Kept(u, P)
  BY <1>10, ConcatEmptySeq
<1> QED BY <1>8, <1>10, <1>11, <1>12, <1>13, <1>14 DEF w, y, a
\* A text that can be written between two "&".
Assignments == {x \in Texts : \A i \in DOMAIN x : x[i] # "&"}

\* One assignment more is written.
LEMMA WrittenMore ==
  ASSUME NEW q \in Seq(Assignments), NEW x \in Assignments
  PROVE  /\ Written(q) \in Texts
         /\ Written(Append(q, x)) = Written(q) \o (<<"&">> \o x)
<1> DEFINE w == Append(q, x)
           f == [i \in DOMAIN q |-> <<"&">> \o q[i]]
           g == [i \in DOMAIN w |-> <<"&">> \o w[i]]
           y == <<"&">> \o x
<1>1. /\ w \in Seq(Assignments) /\ Len(w) = Len(q) + 1 /\ w[Len(q) + 1] = x
      /\ \A i \in 1..Len(q) : w[i] = q[i]
      /\ Len(q) \in Nat /\ DOMAIN q = 1..Len(q) /\ DOMAIN w = 1..(Len(q) + 1)
  BY AppendProperties, LenProperties
<1> HIDE DEF w
<1>2. \A z \in Assignments : <<"&">> \o z \in Texts
  BY Ampersand, JoinedIs DEF Assignments, IsJoined
<1>3. \A i \in 1..Len(q) : q[i] \in Assignments
  BY ElementOfSeq
<1>4. f \in [1..Len(q) -> Texts] /\ g \in [1..(Len(q) + 1) -> Texts]
  BY <1>1, <1>2, <1>3
<1>5. /\ f \in Seq(Texts) /\ Len(f) = Len(q) /\ y \in Texts
      /\ g \in Seq(Texts) /\ Len(g) = Len(q) + 1
      /\ \A i \in 1..Len(q) : f[i] = g[i]
      /\ g[Len(q) + 1] = y
  BY <1>1, <1>2, <1>4, SeqDef, LenProperties
<1>6. Written(q) = S!FlattenSeq(f) /\ Written(w) = S!FlattenSeq(g)
  BY DEF Written
<1> HIDE DEF f, g, y
<1>7. g = Append(f, y)
  <2>1. /\ Append(f, y) \in Seq(Texts) /\ Len(Append(f, y)) = Len(q) + 1
        /\ \A i \in 1..Len(q) : Append(f, y)[i] = f[i]
        /\ Append(f, y)[Len(q) + 1] = y
    BY <1>1, <1>5, AppendProperties
  <2>2. \A i \in 1..Len(g) : g[i] = Append(f, y)[i]
    BY <1>1, <1>5, <2>1
  <2> QED BY <1>5, <2>1, <2>2, SeqEqual
<1>8. S!FlattenSeq(g) = S!FlattenSeq(f) \o y /\ S!FlattenSeq(f) \in Texts
  BY <1>5, <1>7, FlatAppended, FlatType DEF Texts
<1> QED BY <1>6, <1>8 DEF w, y

\* A text with nothing in it.
LEMMA WrittenNothing == Written(<< >>) = << >> /\ QueryPairs(<< >>) = << >>
<1>1. DOMAIN << >> = {} /\ << >> \in Texts
  BY EmptySeq DEF Texts
<1>2. [i \in DOMAIN << >> |-> <<"&">> \o << >>[i]] = << >>
  BY EmptySeq
<1>3. Written(<< >>) = << >>
  BY <1>2, FlatEmpty DEF Written
<1>4. QueryPairs(<< >>) \in Seq(Pairs) /\ QueryPairs(<< >>) = Kept(PairsIn(<< >>), StartsOf(<< >>))
  BY <1>1, PairsInType
<1>5. PairsIn(<< >>) \in Seq(Pairs) /\ Len(PairsIn(<< >>)) = 0
  BY <1>1, PairsInType
<1>6. PairsIn(<< >>) = << >>
  BY <1>5, EmptySeq
<1> QED BY <1>3, <1>4, <1>6, KeptEmpty

\* What is written is read, assignment by assignment.
IsReadOf(query, q) ==
  /\ query \in Seq(Pairs) /\ Len(query) = Len(q)
  /\ \A i \in 1..Len(q) : query[i] = PairOf(q[i])

LEMMA QueryOfWritten ==
  ASSUME NEW q \in Seq(Assignments)
  PROVE  Written(q) \in Texts /\ IsReadOf(QueryPairs(Written(q)), q)
<1> DEFINE Q == {r \in Seq(Assignments) :
                   Written(r) \in Texts /\ IsReadOf(QueryPairs(Written(r)), r)}
<1>1. << >> \in Q
  <2>1. << >> \in Seq(Assignments) /\ << >> \in Texts /\ << >> \in Seq(Pairs) /\ Len(<< >>) = 0
    BY EmptySeq DEF Texts
  <2>2. IsReadOf(<< >>, << >>)
    BY <2>1 DEF IsReadOf
  <2> QED BY <2>1, <2>2, WrittenNothing
<1>2. ASSUME NEW r \in Seq(Assignments), NEW x \in Assignments, r \in Q
      PROVE  Append(r, x) \in Q
  <2> DEFINE w == Append(r, x)
             t == QueryPairs(Written(r))
             u == QueryPairs(Written(w))
  <2>1. Written(r) \in Texts /\ IsReadOf(t, r)
    BY <1>2
  <2>2. /\ w \in Seq(Assignments) /\ Len(w) = Len(r) + 1 /\ Len(r) \in Nat
        /\ w[Len(r) + 1] = x /\ \A i \in 1..Len(r) : w[i] = r[i]
    BY AppendProperties, LenProperties
  <2>3. x \in Texts /\ \A i \in DOMAIN x : x[i] # "&"
    BY DEF Assignments
  <2>4. Written(w) = Written(r) \o (<<"&">> \o x)
    BY WrittenMore
  <2>5. u = Append(t, PairOf(x))
    BY <2>1, <2>3, <2>4, QueryAppended
  <2>6. Written(w) \in Texts
    BY <2>1, <2>3, <2>4, Ampersand, JoinedIs DEF IsJoined
  <2>7. PairOf(x) \in Pairs
    BY <2>3, PairType
  <2> HIDE DEF w, t, u
  <2>8. /\ u \in Seq(Pairs) /\ Len(u) = Len(r) + 1 /\ u[Len(r) + 1] = PairOf(x)
        /\ \A i \in 1..Len(r) : u[i] = PairOf(r[i])
    BY <2>1, <2>2, <2>5, <2>7, AppendProperties DEF IsReadOf
  <2>9. IsReadOf(u, w)
    BY <2>2, <2>8 DEF IsReadOf
  <2> QED BY <2>2, <2>6, <2>9 DEF w, u
<1>3. Seq(Assignments) \subseteq Q
  <2> HIDE DEF Q
  <2> QED BY <1>1, <1>2, AllSequences
<1> QED BY <1>3

\* An assignment that Url::parse leaves as it is, wherever it stands.
Harmless(x) ==
  /\ x # << >> /\ x[Len(x)] # " "
  /\ \A i \in DOMAIN x : x[i] \notin {"#", "\n"}

LEMMA ParsedHarmless ==
  ASSUME NEW t \in Texts, Harmless(t)
  PROVE  Parsed(t) = t
<1> DEFINE P == {i \in DOMAIN t :
                   /\ t[i] # "\n"
                   /\ \A j \in 1..i : t[j] # "#"
                   /\ \E j \in i..Len(t) : t[j] \notin {" ", "\n"}}
<1>1. DOMAIN t = 1..Len(t) /\ Len(t) \in Nat /\ Len(t) # 0
  BY LenProperties, EmptySeq DEF Texts, Harmless
<1>2. ASSUME NEW i \in DOMAIN t PROVE i \in P
  <2>1. Len(t) \in i..Len(t) /\ Len(t) \in DOMAIN t
    BY <1>1
  <2>2. t[Len(t)] \notin {" ", "\n"}
    BY <2>1 DEF Harmless
  <2>3. \A j \in 1..i : t[j] # "#"
    <3>1. \A j \in 1..i : j \in DOMAIN t
      BY <1>1
    <3> QED BY <3>1 DEF Harmless
  <2> QED BY <2>1, <2>2, <2>3 DEF Harmless
<1>3. Parsed(t) = Kept(t, P)
  BY DEF Parsed
<1> HIDE DEF P
<1> QED BY <1>2, <1>3, KeptAll DEF Texts

LEMMA ParsedWritten ==
  ASSUME NEW q \in Seq(Assignments), \A i \in 1..Len(q) : Harmless(q[i])
  PROVE  Parsed(Written(q)) = Written(q)
<1> DEFINE All(r) == \A i \in 1..Len(r) : Harmless(r[i])
           Fine(r) == Written(r) = << >> \/ Harmless(Written(r))
           Q == {r \in Seq(Assignments) : All(r) => Fine(r)}
<1>1. << >> \in Q
  BY EmptySeq, WrittenNothing
<1>2. ASSUME NEW r \in Seq(Assignments), NEW x \in Assignments, r \in Q
      PROVE  Append(r, x) \in Q
  <2> DEFINE w == Append(r, x)
             a == <<"&">>
             y == a \o x
             t == Written(r)
  <2>1. /\ w \in Seq(Assignments) /\ Len(w) = Len(r) + 1 /\ Len(r) \in Nat
        /\ w[Len(r) + 1] = x /\ \A i \in 1..Len(r) : w[i] = r[i]
    BY AppendProperties, LenProperties
  <2>2. SUFFICES ASSUME All(w) PROVE Harmless(Written(w))
    BY <2>1
  <2>3. Harmless(x) /\ All(r)
    BY <2>1, <2>2
  <2>4. Fine(r)
    BY <1>2, <2>3
  <2>5. Written(w) = t \o y /\ t \in Texts /\ x \in Texts
    BY WrittenMore DEF Assignments
  <2> HIDE DEF w, t, y, a
  <2>6. IsJoined(y, a, x) /\ IsJoined(t \o y, t, y)
    BY <2>5, Ampersand, JoinedIs DEF IsJoined, y, a
  <2>7. Len(a) = 1 /\ a[1] = "&" /\ Len(x) # 0
    BY <2>3, <2>5, Ampersand, EmptySeq DEF a, Harmless, Texts
  <2>8. /\ Len(y) = 1 + Len(x) /\ y[1] = "&" /\ \A i \in 1..Len(x) : y[1 + i] = x[i]
        /\ Len(x) \in Nat /\ DOMAIN x = 1..Len(x)
    BY <2>6, <2>7 DEF IsJoined
  <2>9. ASSUME NEW i \in 1..Len(y) PROVE y[i] \notin {"#", "\n"}
    <3>1. CASE i = 1
      BY <2>8, <3>1
    <3>2. CASE i # 1
      <4>1. i - 1 \in 1..Len(x) /\ i = 1 + (i - 1)
        BY <2>8, <3>2
      <4>2. y[i] = x[i - 1]
        BY <2>8, <4>1
      <4> QED BY <2>3, <2>8, <4>1, <4>2 DEF Harmless
    <3> QED BY <3>1, <3>2
  <2>10. \A i \in 1..Len(t) : t[i] \notin {"#", "\n"}
    <3>1. CASE t = << >>
      BY <3>1, EmptySeq
    <3>2. CASE Harmless(t)
      BY <2>6, <3>2 DEF Harmless, IsJoined
    <3> QED BY <2>4, <3>1, <3>2 DEF t
  <2> DEFINE z == t \o y
  <2>11. /\ z \in Texts /\ DOMAIN z = 1..(Len(t) + Len(y)) /\ Len(z) = Len(t) + Len(y)
         /\ Len(t) \in Nat /\ Len(y) \in Nat
         /\ \A i \in 1..Len(t) : z[i] = t[i]
         /\ \A i \in 1..Len(y) : z[Len(t) + i] = y[i]
    BY <2>6 DEF IsJoined
  <2> HIDE DEF z
  <2>12. z # << >> /\ z[Len(z)] # " "
    <3>1. Len(y) \in 1..Len(y) /\ Len(x) \in 1..Len(x)
      BY <2>7, <2>8
    <3>2. z[Len(z)] = x[Len(x)]
      BY <2>8, <2>11, <3>1
    <3>3. Len(z) # 0
      BY <2>8, <2>11
    <3> QED BY <2>3, <3>2, <3>3, EmptySeq DEF Harmless
  <2>13. ASSUME NEW i \in DOMAIN z PROVE z[i] \notin {"#", "\n"}
    <3>1. CASE i \in 1..Len(t)
      BY <2>10, <2>11, <3>1
    <3>2. CASE i \notin 1..Len(t)
      <4>1. i - Len(t) \in 1..Len(y) /\ i = Len(t) + (i - Len(t))
        BY <2>11, <3>2
      <4>2. z[i] = y[i - Len(t)]
        BY <2>11, <4>1
      <4> QED BY <2>9, <4>1, <4>2
    <3> QED BY <3>1, <3>2
  <2> QED BY <2>5, <2>12, <2>13 DEF Harmless, z
<1>3. q \in Q
  <2>1. Seq(Assignments) \subseteq Q
    <3> HIDE DEF Q
    <3> QED BY <1>1, <1>2, AllSequences
  <2> QED BY <2>1
<1>4. Written(q) \in Texts
  BY QueryOfWritten
<1>5. CASE Written(q) = << >>
  <2>1. Parsed(<< >>) = << >>
    BY KeptEmpty DEF Parsed
  <2> QED BY <1>5, <2>1
<1>6. CASE Harmless(Written(q))
  BY <1>4, <1>6, ParsedHarmless
<1> QED BY <1>3, <1>5, <1>6
\* The symbols that name an option.
Keys == {CertKey[c] : c \in UrlCerts} \cup {"client_locale"}

LEMMA KeysArePlain ==
  /\ Keys \subseteq Symbols /\ "=" \in Symbols
  /\ \A key \in Keys : key \notin {"&", "=", "#", "\n", " "} /\ Decoded(key) = key
<1>1. Keys \subseteq Symbols /\ "=" \in Symbols
  BY SymbolsAssumption DEF Keys, UrlCerts
<1>2. Keys \subseteq {"tls_certificate_dir", "tls_certificate_env", "use_mozillas_root_certificates",
                      "insecure_omit_server_certificate_check", "client_locale"}
  BY DEF Keys, UrlCerts, Certs, CertKey
<1>3. \A key \in Keys : key \notin {"&", "=", "#", "\n", " ", "+", "%2B", "%20", "%26", "%23"}
  BY <1>2
<1>4. \A key \in Keys : Decoded(key) = key
  BY <1>3, Zenon DEF Decoded
<1> QED BY <1>1, <1>3, <1>4

\* An option that is written is one assignment, and is read as it was.
IsOption(x, key, value) ==
  x \in Assignments /\ Harmless(x) /\ PairOf(x) = <<<<key>>, value>>

LEMMA KeyIsOption ==
  ASSUME NEW key \in Keys
  PROVE  IsOption(<<key>>, key, << >>)
<1> DEFINE x == <<key>>
<1>1. /\ x \in Texts /\ Len(x) = 1 /\ DOMAIN x = {1} /\ x[1] = key
  BY KeysArePlain, OneSymbol
<1>2. key \notin {"&", "=", "#", "\n", " "} /\ Decoded(key) = key
  BY KeysArePlain
<1>3. NameIn(x) = x /\ ValueIn(x) = << >>
  <2> HIDE DEF x
  <2>1. ASSUME NEW j \in DOMAIN x, NEW k \in 1..j PROVE x[k] # "="
    <3>1. k = 1
      BY <1>1
    <3> QED BY <1>1, <1>2, <3>1
  <2>2. \A j \in DOMAIN x : ~(\E k \in 1..(j - 1) : x[k] = "=")
    BY <1>1
  <2>3. NameIn(x) = x
    <3> DEFINE P == {j \in DOMAIN x : \A k \in 1..j : x[k] # "="}
    <3>1. DOMAIN x \subseteq P
      BY <2>1
    <3>2. NameIn(x) = Kept(x, P)
      BY DEF NameIn
    <3> HIDE DEF P
    <3> QED BY <1>1, <3>1, <3>2, KeptAll DEF Texts
  <2>4. ValueIn(x) = << >>
    <3> DEFINE P == {j \in DOMAIN x : \E k \in 1..(j - 1) : x[k] = "="}
    <3>1. \A j \in DOMAIN x : j \notin P
      BY <2>2
    <3>2. ValueIn(x) = Kept(x, P)
      BY DEF ValueIn
    <3> HIDE DEF P
    <3> QED BY <1>1, <3>1, <3>2, KeptNone DEF Texts
  <2> QED BY <2>3, <2>4
<1>4. DecodedText(x) = x /\ DecodedText(<< >>) = << >>
  <2>1. DecodedText(x) = x
    BY <1>1, <1>2, DecodedSame
  <2>2. DecodedText(<< >>) = << >>
    <3>1. << >> \in Texts /\ DOMAIN << >> = {}
      BY EmptySeq DEF Texts
    <3> QED BY <3>1, DecodedSame
  <2> QED BY <2>1, <2>2
<1>5. Harmless(x)
  BY <1>1, <1>2, EmptySeq DEF Harmless
<1>6. x \in Assignments
  BY <1>1, <1>2 DEF Assignments
<1> HIDE DEF x
<1>7. PairOf(x) = <<x, << >>>>
  BY <1>3, <1>4 DEF PairOf
<1>8. IsOption(x, key, << >>)
  BY <1>5, <1>6, <1>7 DEF IsOption, x
<1> QED BY <1>8 DEF x

LEMMA ValueIsOption ==
  ASSUME NEW key \in Keys, NEW value \in Texts, Plain(value)
  PROVE  IsOption(Assignment(key, value), key, value)
<1> DEFINE a == <<key>>
           h == <<key, "=">>
           x == h \o value
<1>1. key \notin {"&", "=", "#", "\n", " "} /\ Decoded(key) = key /\ key \in Symbols /\ "=" \in Symbols
  BY KeysArePlain
<1>2. a \in Texts /\ Len(a) = 1 /\ DOMAIN a = {1} /\ a[1] = key /\ h = Append(a, "=")
  BY <1>1, OneSymbol, TwoSymbols
<1>3. h \in Texts /\ Len(h) = 2 /\ DOMAIN h = {1, 2} /\ h[1] = key /\ h[2] = "="
  BY <1>1, TwoSymbols
<1> HIDE DEF a, h, x
<1>4. IsJoined(x, h, value)
  BY <1>3, JoinedIs DEF x
<1>5. /\ x \in Texts /\ DOMAIN x = 1..(2 + Len(value)) /\ Len(x) = 2 + Len(value)
      /\ x[1] = key /\ x[2] = "="
      /\ Len(value) \in Nat /\ DOMAIN value = 1..Len(value)
      /\ \A i \in 1..Len(value) : x[2 + i] = value[i]
  BY <1>3, <1>4 DEF IsJoined
<1>6. NameIn(x) = a
  <2> DEFINE P == {j \in DOMAIN x : \A k \in 1..j : x[k] # "="}
             R == Behind(h, value, P)
  <2>1. 1 \in P /\ \A j \in DOMAIN x : j >= 2 => j \notin P
    <3>1. \A k \in 1..1 : x[k] # "="
      <4>1. \A k \in 1..1 : k = 1
        OBVIOUS
      <4> QED BY <1>1, <1>5, <4>1
    <3>2. 1 \in DOMAIN x
      BY <1>5
    <3>3. 1 \in P
      BY <3>1, <3>2
    <3>4. ASSUME NEW j \in DOMAIN x, j >= 2 PROVE j \notin P
      <4>1. 2 \in 1..j
        BY <1>5, <3>4
      <4> QED BY <1>5, <4>1
    <3> QED BY <3>3, <3>4
  <2>2. \A j \in DOMAIN value : j \notin R
    BY <1>3, <1>5, <2>1 DEF Behind
  <2>3. NameIn(x) = Kept(x, P)
    BY DEF NameIn
  <2>4. 2 \notin P
    BY <1>5, <2>1
  <2>5. Kept(x, P) = Kept(h, P) \o Kept(value, R)
    BY <1>3, KeptConcat DEF x, Texts
  <2> HIDE DEF P, R
  <2>6. Kept(value, R) = << >>
    BY <2>2, KeptNone DEF Texts
  <2>7. Kept(h, P) = Kept(a, P)
    <3>1. Kept(Append(a, "="), P) = IF Len(a) + 1 \in P THEN Append(Kept(a, P), "=") ELSE Kept(a, P)
      <4>1. a \in Seq(Symbols) /\ "=" \in Symbols
        BY <1>1, <1>2 DEF Texts
      <4> QED BY <4>1, KeptAppend
    <3>2. Len(a) + 1 = 2
      BY <1>2
    <3> QED BY <1>2, <2>4, <3>1, <3>2
  <2>8. Kept(a, P) = a
    BY <1>2, <2>1, KeptAll DEF Texts
  <2>9. a \o << >> = a
    BY <1>2, ConcatEmptySeq DEF Texts
  <2> QED BY <2>3, <2>5, <2>6, <2>7, <2>8, <2>9
<1>7. ValueIn(x) = value
  <2> DEFINE P == {j \in DOMAIN x : \E k \in 1..(j - 1) : x[k] = "="}
             R == Behind(h, value, P)
  <2>1. 1 \notin P /\ 2 \notin P /\ \A j \in DOMAIN x : j > 2 => j \in P
    <3>1. 1..(1 - 1) = {} /\ \A k \in 1..(2 - 1) : k = 1
      OBVIOUS
    <3>2. 1 \notin P /\ 2 \notin P
      BY <1>1, <1>5, <3>1
    <3>3. ASSUME NEW j \in DOMAIN x, j > 2 PROVE j \in P
      <4>1. 2 \in 1..(j - 1)
        BY <1>5, <3>3
      <4> QED BY <1>5, <4>1
    <3> QED BY <3>2, <3>3
  <2>2. DOMAIN value \subseteq R
    <3> SUFFICES ASSUME NEW j \in DOMAIN value PROVE j \in R
      OBVIOUS
    <3>1. 2 + j \in DOMAIN x /\ 2 + j > 2
      BY <1>5
    <3>2. 2 + j \in P
      BY <2>1, <3>1
    <3> HIDE DEF P
    <3> QED BY <1>3, <3>2 DEF Behind
  <2>3. ValueIn(x) = Kept(x, P)
    BY DEF ValueIn
  <2>4. Kept(x, P) = Kept(h, P) \o Kept(value, R)
    BY <1>3, KeptConcat DEF x, Texts
  <2> HIDE DEF P, R
  <2>5. Kept(h, P) = << >> /\ Kept(value, R) = value
    BY <1>3, <2>1, <2>2, KeptNone, KeptAll DEF Texts
  <2>6. << >> \o value = value
    BY ConcatEmptySeq DEF Texts
  <2> QED BY <2>3, <2>4, <2>5, <2>6
<1>8. DecodedText(a) = a /\ DecodedText(value) = value
  BY <1>1, <1>2, DecodedSame DEF Plain
<1>9. PairOf(x) = <<a, value>>
  BY <1>6, <1>7, <1>8 DEF PairOf
<1>10. ASSUME NEW i \in DOMAIN x PROVE x[i] \notin {"&", "#", "\n"}
  <2>1. CASE i \in {1, 2}
    BY <1>1, <1>5, <2>1
  <2>2. CASE i \notin {1, 2}
    <3>1. i - 2 \in DOMAIN value /\ i = 2 + (i - 2)
      BY <1>5, <2>2
    <3>2. x[i] = value[i - 2]
      BY <1>5, <3>1
    <3> QED BY <3>1, <3>2 DEF Plain
  <2> QED BY <2>1, <2>2
<1>11. x # << >> /\ x[Len(x)] # " "
  <2>1. x # << >>
    BY <1>5, EmptySeq
  <2>2. CASE value = << >>
    <3>1. Len(x) = 2
      BY <1>5, <2>2, EmptySeq
    <3> QED BY <1>5, <2>1, <3>1
  <2>3. CASE value # << >>
    <3>1. Len(value) # 0
      BY <2>3, EmptySeq DEF Texts
    <3>2. Len(value) \in 1..Len(value)
      BY <1>5, <3>1
    <3>3. value[Len(value)] # " "
      BY <2>3 DEF Plain
    <3> QED BY <1>5, <2>1, <3>2, <3>3
  <2> QED BY <2>2, <2>3
<1>12. Harmless(x) /\ x \in Assignments
  BY <1>5, <1>10, <1>11 DEF Harmless, Assignments
<1> QED BY <1>9, <1>12 DEF IsOption, Assignment, x, h, a
-----------------------------------------------------------------------------

-----------------------------------------------------------------------------
(* The builder and its URL.                                                *)

\* A certificate is a kind and its value, a text.
IsCert(c) ==
  /\ c = <<c[1], c[2]>> /\ c[2] \in Texts
  /\ c[1] \notin {"Directory", "Environment", "Direct"} => c[2] = << >>

ArePairs(certs) ==
  /\ certs \in Seq({certs[i] : i \in DOMAIN certs})
  /\ \A i \in DOMAIN certs : IsCert(certs[i])

\* The builder has the fields of ConnectParamsBuilder.
ParamsInv ==
  /\ builder = [hostname |-> builder.hostname, port |-> builder.port,
                dbuser |-> builder.dbuser, password |-> builder.password,
                clientlocale |-> builder.clientlocale, certs |-> builder.certs,
                options |-> builder.options]
  /\ ArePairs(builder.certs)
  /\ builder.clientlocale \in Texts \cup {None}

\* A sequence of pairs, by its length.
LEMMA PairsAre ==
  ASSUME NEW n \in Nat, NEW q, DOMAIN q = 1..n, q = [i \in DOMAIN q |-> q[i]],
         \A i \in DOMAIN q : IsCert(q[i])
  PROVE  ArePairs(q)
<1> DEFINE T == {q[i] : i \in DOMAIN q}
<1>1. q \in [1..n -> T]
  OBVIOUS
<1>2. q \in Seq(T)
  BY <1>1, SeqDef
<1> QED BY <1>2 DEF ArePairs

\* TlsWith adds a pair.
LEMMA PairsAppend ==
  ASSUME NEW q, ArePairs(q), NEW c, IsCert(c)
  PROVE  ArePairs(Append(q, c))
<1> DEFINE T == {q[i] : i \in DOMAIN q} \cup {c}
           r == Append(q, c)
<1>1. q \in Seq(T) /\ c \in T
  BY DEF ArePairs
<1>2. /\ r \in Seq(T) /\ Len(r) \in Nat /\ DOMAIN r = 1..Len(r) /\ Len(r) = Len(q) + 1
      /\ r[Len(q) + 1] = c /\ \A i \in 1..Len(q) : r[i] = q[i]
      /\ Len(q) \in Nat /\ DOMAIN q = 1..Len(q)
  BY <1>1, AppendProperties, LenProperties
<1> HIDE DEF r, T
<1>3. r = [i \in DOMAIN r |-> r[i]]
  <2>1. r \in [1..Len(r) -> T]
    BY <1>2, LenProperties
  <2> QED BY <1>2, <2>1
<1>4. ASSUME NEW i \in DOMAIN r PROVE IsCert(r[i])
  <2>1. CASE i = Len(q) + 1
    BY <1>2, <2>1
  <2>2. CASE i \in 1..Len(q)
    BY <1>2, <2>2 DEF ArePairs
  <2> QED BY <1>2, <2>1, <2>2
<1>5. ArePairs(r)
  BY <1>2, <1>3, <1>4, PairsAre
<1> QED BY <1>5 DEF r

\* So are the certificates that are read from a URL.
LEMMA CertsArePairs ==
  ASSUME NEW query \in Seq(Pairs)
  PROVE  ArePairs(CertsOf(query))
<1> DEFINE P == CertOptionsAt(query)
           given == Kept(query, P)
           q == [i \in DOMAIN given |-> CertIn(given[i])]
<1>1. given \in Seq(Pairs)
  BY KeptType
<1>2. DOMAIN given = 1..Len(given) /\ Len(given) \in Nat
  BY <1>1, LenProperties
<1> HIDE DEF given
<1>3. ASSUME NEW option \in Pairs PROVE IsCert(CertIn(option))
  <2>1. option[2] \in Texts /\ << >> \in Texts
    BY EmptySeq DEF Pairs, Texts
  <2> QED BY <2>1 DEF IsCert, CertIn
<1>4. /\ DOMAIN q = 1..Len(given) /\ q = [i \in DOMAIN q |-> q[i]]
      /\ \A i \in DOMAIN q : IsCert(q[i])
  <2>1. \A i \in DOMAIN given : given[i] \in Pairs
    BY <1>1, <1>2, ElementOfSeq
  <2> QED BY <1>2, <1>3, <2>1
<1> HIDE DEF q
<1>5. ArePairs(q)
  BY <1>2, <1>4, PairsAre
<1>6. CertsOf(query) = q
  BY DEF CertsOf, q, given
<1> QED BY <1>5, <1>6

\* And the locale is a text.
LEMMA LocaleType ==
  ASSUME NEW query \in Seq(Pairs)
  PROVE  LocaleOf(query) \in Texts \cup {None}
<1> DEFINE P == {i \in DOMAIN query : LocaleGiven(query[i]) # None}
           given == Kept(query, P)
<1>1. given \in Seq(Pairs)
  BY KeptType
<1>2. ASSUME NEW option \in Pairs PROVE LocaleGiven(option) \in Texts \cup {None}
  <2>1. option[2] \in Texts
    BY DEF Pairs
  <2>2. Getenv(option[2]) \in Texts \cup {None}
    BY UrlsAssumption DEF Getenv, Texts
  <2>3. LocaleGiven(option) \in {option[2], Getenv(option[2]), None}
    BY Zenon DEF LocaleGiven
  <2> QED BY <2>1, <2>2, <2>3
<1>3. LocaleOf(query) = IF given = << >> THEN None ELSE LocaleGiven(given[Len(given)])
  BY DEF LocaleOf
<1> HIDE DEF given
<1>4. CASE given # << >>
  <2>1. Len(given) \in 1..Len(given)
    BY <1>1, <1>4, EmptySeq, LenProperties
  <2>2. given[Len(given)] \in Pairs
    BY <1>1, <2>1, ElementOfSeq
  <2> QED BY <1>2, <1>3, <1>4, <2>2
<1> QED BY <1>3, <1>4

\* A new builder has no certificates.
LEMMA NewParamsInv ==
  ASSUME NEW b, b = NewBuilder
  PROVE  /\ b = [hostname |-> b.hostname, port |-> b.port, dbuser |-> b.dbuser,
                 password |-> b.password, clientlocale |-> b.clientlocale,
                 certs |-> b.certs, options |-> b.options]
         /\ ArePairs(b.certs) /\ b.clientlocale \in Texts \cup {None}
<1>1. ArePairs(<< >>)
  BY EmptySeq DEF ArePairs
<1> QED BY <1>1 DEF NewBuilder

\* Every call on the builder keeps it one.
LEMMA ParamsStep ==
  ASSUME ParamsInv, [Next]_vars
  PROVE  ParamsInv'
<1>1. CASE UNCHANGED builder
  BY <1>1 DEF ParamsInv
<1>2. ASSUME NEW field \in {"hostname", "port", "dbuser", "password", "clientlocale", "options"},
             NEW value, Set(field, value), field = "clientlocale" => value \in Texts \cup {None}
      PROVE  ParamsInv'
  <2>1. builder' = [builder EXCEPT ![field] = value]
    BY <1>2 DEF Set
  <2>2. builder'.clientlocale \in Texts \cup {None}
    <3>1. CASE field = "clientlocale"
      BY <1>2, <2>1, <3>1 DEF ParamsInv
    <3>2. CASE field # "clientlocale"
      BY <2>1, <3>2 DEF ParamsInv
    <3> QED BY <3>1, <3>2
  <2>3. ArePairs(builder'.certs)
    BY <2>1 DEF ParamsInv
  <2> QED BY <2>1, <2>2, <2>3 DEF ParamsInv
<1>3. CASE TlsWith
  <2>1. PICK c \in CertChoices : builder' = [builder EXCEPT !["certs"] = Append(builder.certs, c)]
    BY <1>3 DEF TlsWith, Set
  <2>2. IsCert(c)
    BY UrlsAssumption DEF IsCert, Texts
  <2>3. ArePairs(Append(builder.certs, c))
    BY <2>2, PairsAppend DEF ParamsInv
  <2> QED BY <2>1, <2>3 DEF ParamsInv
<1>4. CASE FromUrl
  <2>1. PICK u \in Urls : IntoBuilder(u) # Err /\ builder' = IntoBuilder(u)
    BY <1>4 DEF FromUrl
  <2> DEFINE query == QueryPairs(Parsed(u.query))
  <2>2. builder' = [hostname |-> u.host, port |-> u.port, dbuser |-> UserOf(u),
                    password |-> u.password, clientlocale |-> LocaleOf(query),
                    certs |-> CertsOf(query), options |-> << >>]
    BY <2>1 DEF IntoBuilder
  <2>3. query \in Seq(Pairs)
    <3>1. u.query \in Texts
      BY UrlsAssumption DEF Texts
    <3>2. Parsed(u.query) \in Texts
      BY <3>1, KeptType DEF Parsed, Texts
    <3> QED BY <3>2, PairsInType
  <2> HIDE DEF query
  <2>4. ArePairs(CertsOf(query)) /\ LocaleOf(query) \in Texts \cup {None}
    BY <2>3, CertsArePairs, LocaleType
  <2> QED BY <2>2, <2>4 DEF ParamsInv
<1>5. CASE New
  <2>1. builder' = NewBuilder
    BY <1>5 DEF New
  <2> QED BY <2>1, NewParamsInv DEF ParamsInv
<1>6. CASE BuilderNext
  <2>1. CASE SetClientlocale
    <3>1. PICK l \in Locales : Set("clientlocale", l)
      BY <2>1 DEF SetClientlocale
    <3>2. l \in Texts
      BY UrlsAssumption DEF Texts
    <3> QED BY <1>2, <3>1, <3>2
  <2>2. CASE ClientlocaleFromEnvLang
    <3>1. Getenv(<<"LANG">>) \in Texts \cup {None}
      BY UrlsAssumption DEF Getenv, Texts
    <3> QED BY <1>2, <2>2, <3>1 DEF ClientlocaleFromEnvLang
  <2> QED
    BY <1>2, <1>3, <1>4, <1>6, <2>1, <2>2
       DEF BuilderNext, SetHostname, SetPort, SetDbuser, SetPassword, UnsetPassword, Option
<1> QED
  BY <1>1, <1>5, <1>6
  DEF Next, vars, Spawn, PoolConnect, CheckIn, CheckOut, Drop, Insert, Commit, Rollback,
      XaRecover, SetAutoCommit, XaCheck, XaSend, LoseSession
-----------------------------------------------------------------------------
(* What is written to a URL is read from it.                               *)

\* The kinds of certificates that can be read, and their keys.
LEMMA KeysAre ==
  /\ \A c, d \in UrlCerts : <<CertKey[c]>> = <<CertKey[d]>> => c = d
  /\ \A c \in UrlCerts :
       /\ CertKey[c] \in Keys /\ c # "Direct"
       /\ <<CertKey[c]>> \notin {<<"client_locale">>, <<"client_locale_from_env">>, <<"nonblocking">>}
  /\ "client_locale" \in Keys /\ <<"client_locale">> # <<"nonblocking">>
  /\ <<"client_locale">> # <<"client_locale_from_env">>
<1>1. \A c, d \in UrlCerts : CertKey[c] = CertKey[d] => c = d
  BY DEF UrlCerts, Certs, CertKey
<1>2. \A c \in UrlCerts :
        /\ CertKey[c] \notin {"client_locale", "client_locale_from_env", "nonblocking"}
        /\ c # "Direct"
  BY DEF UrlCerts, Certs, CertKey
<1>3. \A x, y : <<x>> = <<y>> => x = y
  OBVIOUS
<1> QED BY <1>1, <1>2, <1>3 DEF Keys

\* Certificates that a URL can express, and a locale, with texts that need no
\* escapes.
ArePlain(certs, locale) ==
  /\ ArePairs(certs) /\ \A i \in DOMAIN certs : certs[i][1] \in UrlCerts /\ Plain(certs[i][2])
  /\ locale # None => locale \in Texts /\ Plain(locale)

IsQuery(query, certs, locale, n) ==
  /\ n \in Nat /\ DOMAIN certs = 1..n
  /\ query \in Seq(Pairs)
  /\ Len(query) = IF locale = None THEN n ELSE n + 1
  /\ \A i \in 1..n : query[i] = <<<<CertKey[certs[i][1]]>>, certs[i][2]>>
  /\ locale # None => query[n + 1] = <<<<"client_locale">>, locale>>

\* A sequence with one element more or none.
LEMMA MaybeOneMore ==
  ASSUME NEW T, NEW q \in Seq(T), NEW x, NEW more \in BOOLEAN, more => x \in T, NEW n, n = Len(q),
         NEW w, w = q \o (IF more THEN <<x>> ELSE << >>)
  PROVE  /\ w \in Seq(T) /\ Len(w) = (IF more THEN n + 1 ELSE n) /\ n \in Nat
         /\ \A i \in 1..n : w[i] = q[i]
         /\ more => w[n + 1] = x
<1>1. CASE more
  <2>1. w = Append(q, x)
    BY <1>1, AppendIsConcat
  <2> QED BY <1>1, <2>1, AppendProperties, LenProperties
<1>2. CASE ~more
  <2>1. w = q
    BY <1>2, ConcatEmptySeq
  <2> QED BY <1>2, <2>1, LenProperties
<1> QED BY <1>1, <1>2

\* A certificate that can be read, and its text.
LEMMA CertIsOption ==
  ASSUME NEW cert, IsCert(cert), cert[1] \in UrlCerts, Plain(cert[2])
  PROVE  IsOption(CertText(cert), CertKey[cert[1]], cert[2])
<1>1. CertKey[cert[1]] \in Keys /\ cert[1] # "Direct"
  BY KeysAre
<1>2. CASE cert[1] \in {"Directory", "Environment"}
  <2>1. CertText(cert) = Assignment(CertKey[cert[1]], cert[2])
    BY <1>2, Zenon DEF CertText
  <2>2. cert[2] \in Texts
    BY DEF IsCert
  <2> QED BY <1>1, <2>1, <2>2, ValueIsOption
<1>3. CASE cert[1] \notin {"Directory", "Environment"}
  <2>1. CertText(cert) = <<CertKey[cert[1]]>>
    BY <1>1, <1>3, Zenon DEF CertText
  <2>2. cert[2] = << >>
    BY <1>1, <1>3 DEF IsCert
  <2> QED BY <1>1, <2>1, <2>2, KeyIsOption
<1> QED BY <1>2, <1>3

\* What is written is read: first the certificates, then the locale.
LEMMA QueryBack ==
  ASSUME NEW certs, NEW locale, ArePlain(certs, locale)
  PROVE  LET text == Written(OptionsAsParameters(certs, locale))
         IN  IsQuery(QueryPairs(Parsed(text)), certs, locale, Len(certs))
<1> DEFINE n == Len(certs)
           c == [i \in DOMAIN certs |-> CertText(certs[i])]
           x == Assignment("client_locale", locale)
           q == OptionsAsParameters(certs, locale)
           more == locale # None
<1>1. /\ n \in Nat /\ DOMAIN certs = 1..n
      /\ \A i \in 1..n : IsOption(CertText(certs[i]), CertKey[certs[i][1]], certs[i][2])
  BY CertIsOption, LenProperties DEF ArePlain, ArePairs
<1>2. locale # None => IsOption(x, "client_locale", locale)
  BY KeysAre, ValueIsOption DEF ArePlain
<1>3. q = c \o (IF more THEN <<x>> ELSE << >>)
  BY DEF OptionsAsParameters, LocaleTexts
<1> HIDE DEF q, x, n
<1>4. c \in [1..n -> Assignments]
  BY <1>1 DEF IsOption
<1>5. c \in Seq(Assignments) /\ Len(c) = n /\ \A i \in 1..n : c[i] = CertText(certs[i])
  BY <1>1, <1>4, SeqDef, LenProperties
<1>6. more => x \in Assignments
  BY <1>2 DEF IsOption
<1> HIDE DEF c
<1>7. /\ q \in Seq(Assignments) /\ Len(q) = (IF more THEN n + 1 ELSE n)
      /\ \A i \in 1..n : q[i] = CertText(certs[i])
      /\ more => q[n + 1] = x
  BY <1>3, <1>5, <1>6, MaybeOneMore
<1>8. ASSUME NEW i \in 1..Len(q) PROVE Harmless(q[i])
  <2>1. CASE i \in 1..n
    BY <1>1, <1>7, <2>1 DEF IsOption
  <2>2. CASE i \notin 1..n
    <3>1. i = n + 1 /\ more
      BY <1>1, <1>7, <2>2
    <3> QED BY <1>2, <1>7, <3>1 DEF IsOption
  <2> QED BY <2>1, <2>2
<1>9. Parsed(Written(q)) = Written(q)
  BY <1>7, <1>8, ParsedWritten
<1>10. IsReadOf(QueryPairs(Written(q)), q)
  BY <1>7, QueryOfWritten
<1> DEFINE query == QueryPairs(Written(q))
<1> HIDE DEF query
<1>11. ASSUME NEW i \in 1..n
       PROVE  query[i] = <<<<CertKey[certs[i][1]]>>, certs[i][2]>>
  <2>1. i \in 1..Len(q)
    BY <1>1, <1>7
  <2>2. query[i] = PairOf(q[i]) /\ q[i] = CertText(certs[i])
    BY <1>7, <1>10, <2>1 DEF IsReadOf, query
  <2> QED BY <1>1, <2>2 DEF IsOption
<1>12. ASSUME more PROVE query[n + 1] = <<<<"client_locale">>, locale>>
  <2>1. n + 1 \in 1..Len(q)
    BY <1>1, <1>7, <1>12
  <2>2. query[n + 1] = PairOf(q[n + 1]) /\ q[n + 1] = x
    BY <1>7, <1>10, <1>12, <2>1 DEF IsReadOf, query
  <2> QED BY <1>2, <1>12, <2>2 DEF IsOption
<1>13. query \in Seq(Pairs) /\ Len(query) = IF locale = None THEN n ELSE n + 1
  BY <1>7, <1>10 DEF IsReadOf, query
<1>14. IsQuery(query, certs, locale, n)
  BY <1>1, <1>11, <1>12, <1>13 DEF IsQuery
<1> QED BY <1>9, <1>14 DEF query, n, q

\* The certificates are read as they were.
LEMMA CertsBack ==
  ASSUME NEW certs, NEW locale, ArePlain(certs, locale), NEW query,
         IsQuery(query, certs, locale, Len(certs))
  PROVE  CertsOf(query) = certs
<1> DEFINE n == Len(certs)
           P == CertOptionsAt(query)
           o == SubSeq(query, 1, n)
           l == SubSeq(query, n + 1, Len(query))
           R == Behind(o, l, P)
<1> HIDE DEF n
<1>1. /\ n \in Nat /\ DOMAIN certs = 1..n /\ query \in Seq(Pairs)
      /\ Len(query) = (IF locale = None THEN n ELSE n + 1) /\ DOMAIN query = 1..Len(query)
      /\ \A i \in 1..n : query[i] = <<<<CertKey[certs[i][1]]>>, certs[i][2]>>
      /\ locale # None => query[n + 1] = <<<<"client_locale">>, locale>>
  BY LenProperties DEF IsQuery, n
<1>2. /\ o \in Seq(Pairs) /\ Len(o) = n /\ DOMAIN o = 1..n /\ \A i \in 1..n : o[i] = query[i]
      /\ l \in Seq(Pairs) /\ Len(l) = Len(query) - n /\ query = o \o l
      /\ DOMAIN l = 1..Len(l)
  <2>1. /\ o \in Seq(Pairs) /\ Len(o) = n /\ \A i \in 1..n : o[i] = query[i]
    BY <1>1, SubSeqProperties
  <2>2. /\ l \in Seq(Pairs) /\ Len(l) = Len(query) - n
    BY <1>1, SubSeqProperties
  <2>3. query = o \o l
    BY <1>1
  <2> QED BY <2>1, <2>2, <2>3, LenProperties
<1> HIDE DEF o, l
<1>3. Kept(query, P) = Kept(o, P) \o Kept(l, R)
  BY <1>2, KeptConcat
<1>4. ASSUME NEW i \in 1..n PROVE i \in P
  <2>1. query[i][1] = <<CertKey[certs[i][1]]>> /\ certs[i][1] \in UrlCerts /\ i \in DOMAIN query
    <3>1. query[i] = <<<<CertKey[certs[i][1]]>>, certs[i][2]>> /\ i \in DOMAIN certs
      BY <1>1
    <3>2. i \in DOMAIN query
      BY <1>1
    <3> QED BY <3>1, <3>2 DEF ArePlain
  <2> QED BY <2>1 DEF CertOptionsAt
<1>5. ASSUME NEW i \in DOMAIN l PROVE i \notin R
  <2>1. i = 1 /\ locale # None
    BY <1>1, <1>2
  <2>2. query[n + 1][1] = <<"client_locale">>
    BY <1>1, <2>1
  <2>3. n + 1 \notin P
    BY <2>2, KeysAre DEF CertOptionsAt
  <2> QED BY <1>2, <2>1, <2>3 DEF Behind
<1> HIDE DEF P, R
<1>6. Kept(o, P) = o /\ Kept(l, R) = << >>
  BY <1>2, <1>4, <1>5, KeptAll, KeptNone
<1>7. Kept(query, P) = o
  BY <1>2, <1>3, <1>6, ConcatEmptySeq
<1>8. CertsOf(query) = [i \in DOMAIN o |-> CertIn(o[i])]
  BY <1>7 DEF CertsOf, P
<1>9. ASSUME NEW i \in 1..n
      PROVE  CertIn(o[i]) = certs[i]
  <2>1. certs[i][1] \in UrlCerts /\ IsCert(certs[i])
    BY <1>1 DEF ArePlain, ArePairs
  <2>2. o[i][1] = <<CertKey[certs[i][1]]>> /\ o[i][2] = certs[i][2]
    BY <1>1, <1>2
  <2>3. CertKind(o[i]) = certs[i][1]
    BY <2>1, <2>2, KeysAre DEF CertKind
  <2>4. CertIn(o[i]) = <<certs[i][1], certs[i][2]>>
    BY <2>1, <2>2, <2>3, KeysAre DEF CertIn, IsCert
  <2> QED BY <2>1, <2>4 DEF IsCert
<1>10. certs = [i \in 1..n |-> certs[i]]
  BY <1>1, LenProperties DEF ArePlain, ArePairs
<1> QED BY <1>2, <1>8, <1>9, <1>10

\* So is the locale.
LEMMA LocaleBack ==
  ASSUME NEW certs, NEW locale, ArePlain(certs, locale), NEW query,
         IsQuery(query, certs, locale, Len(certs))
  PROVE  LocaleOf(query) = locale
<1> DEFINE n == Len(certs)
           P == {i \in DOMAIN query : LocaleGiven(query[i]) # None}
           given == Kept(query, P)
<1> HIDE DEF n
<1>1. /\ n \in Nat /\ DOMAIN certs = 1..n /\ query \in Seq(Pairs)
      /\ Len(query) = (IF locale = None THEN n ELSE n + 1) /\ DOMAIN query = 1..Len(query)
      /\ \A i \in 1..n : query[i] = <<<<CertKey[certs[i][1]]>>, certs[i][2]>>
      /\ locale # None => query[n + 1] = <<<<"client_locale">>, locale>>
  BY LenProperties DEF IsQuery, n
<1>2. LocaleOf(query) = IF given = << >> THEN None ELSE LocaleGiven(given[Len(given)])
  BY DEF LocaleOf
<1>3. ASSUME NEW i \in 1..n PROVE i \notin P
  <2>1. query[i][1] = <<CertKey[certs[i][1]]>> /\ certs[i][1] \in UrlCerts
    <3>1. query[i] = <<<<CertKey[certs[i][1]]>>, certs[i][2]>> /\ i \in DOMAIN certs
      BY <1>1
    <3> QED BY <3>1 DEF ArePlain
  <2>2. query[i][1] # <<"client_locale">> /\ query[i][1] # <<"client_locale_from_env">>
    BY <2>1, KeysAre
  <2>3. LocaleGiven(query[i]) = None
    BY <2>2, Zenon DEF LocaleGiven
  <2> QED BY <2>3
<1>4. CASE locale = None
  <2>1. \A i \in DOMAIN query : i \notin P
    BY <1>1, <1>3, <1>4
  <2> HIDE DEF P
  <2>2. given = << >>
    BY <1>1, <2>1, KeptNone
  <2> QED BY <1>2, <1>4, <2>2
<1>5. CASE locale # None
  <2> DEFINE o == SubSeq(query, 1, n)
             x == query[n + 1]
  <2>1. x[1] = <<"client_locale">> /\ x[2] = locale /\ n + 1 \in DOMAIN query /\ x \in Pairs
    BY <1>1, <1>5, ElementOfSeq
  <2>2. LocaleGiven(x) = locale
    <3>1. \A y : y[1] = <<"client_locale">> => LocaleGiven(y) = y[2]
      <4>1. <<"client_locale">> # <<"client_locale_from_env">>
        BY KeysAre
      <4> QED BY <4>1, Zenon DEF LocaleGiven
    <3> QED BY <2>1, <3>1
  <2>3. n + 1 \in P
    BY <1>5, <2>1, <2>2
  <2>4. /\ o \in Seq(Pairs) /\ Len(o) = n /\ DOMAIN o = 1..n
    BY <1>1, SubSeqProperties, LenProperties
  <2>5. query = Append(o, x)
    <3>1. \A i \in 1..n : o[i] = query[i]
      BY <1>1, SubSeqProperties
    <3>2. /\ Append(o, x) \in Seq(Pairs) /\ Len(Append(o, x)) = n + 1
          /\ \A i \in 1..n : Append(o, x)[i] = o[i]
          /\ Append(o, x)[n + 1] = x
      BY <2>1, <2>4, AppendProperties
    <3> HIDE DEF o, x
    <3>3. \A i \in 1..Len(query) : query[i] = Append(o, x)[i]
      BY <1>1, <1>5, <3>1, <3>2 DEF x
    <3> QED BY <1>1, <1>5, <3>2, <3>3, SeqEqual
  <2> HIDE DEF P, o, x
  <2>6. given = Append(Kept(o, P), x)
    BY <2>1, <2>3, <2>4, <2>5, KeptAppend
  <2>7. Kept(o, P) = << >>
    BY <1>3, <2>4, KeptNone
  <2>8. given = <<x>>
    BY <2>6, <2>7
  <2> HIDE DEF given
  <2>9. given # << >> /\ Len(given) = 1 /\ given[1] = x
    BY <2>8, EmptySeq
  <2> QED BY <1>2, <2>2, <2>9
<1> QED BY <1>4, <1>5

\* Without options the query has the certificates and the locale only.
LEMMA NoOptions ==
  ASSUME ParamsInv, HasUrl(builder)
  PROVE  [i \in DOMAIN builder.options |-> OptionText(builder.options[i])]
           \o OptionsAsParameters(builder.certs, builder.clientlocale)
         = OptionsAsParameters(builder.certs, builder.clientlocale)
<1> DEFINE c == [i \in DOMAIN builder.certs |-> CertText(builder.certs[i])]
           x == Assignment("client_locale", builder.clientlocale)
           T == {c[i] : i \in DOMAIN builder.certs} \cup {x}
           n == Len(builder.certs)
           more == builder.clientlocale # None
           w == OptionsAsParameters(builder.certs, builder.clientlocale)
<1>1. DOMAIN builder.certs = 1..n /\ n \in Nat
  BY LenProperties DEF ParamsInv, ArePairs
<1>2. c \in [1..n -> T]
  BY <1>1
<1>3. c \in Seq(T) /\ x \in T
  BY <1>1, <1>2, SeqDef
<1>4. w = c \o (IF more THEN <<x>> ELSE << >>)
  BY DEF OptionsAsParameters, LocaleTexts
<1> HIDE DEF c, T, x, w
<1>5. w \in Seq(T)
  BY <1>3, <1>4, MaybeOneMore
<1>6. [i \in DOMAIN builder.options |-> OptionText(builder.options[i])] = << >>
  BY EmptySeq DEF HasUrl
<1> QED BY <1>5, <1>6, ConcatEmptySeq DEF w

\* A builder whose URL can say all comes back without its password.
LEMMA BuilderBack ==
  ASSUME ParamsInv, CanBeWritten(builder)
  PROVE  ComesBack(builder)
<1> DEFINE locale == builder.clientlocale
           certs == builder.certs
           q == OptionsAsParameters(certs, locale)
           text == Written(q)
           query == QueryPairs(Parsed(text))
           url == Url(builder.dbuser, builder.hostname, builder.port, certs, text)
           b == [builder EXCEPT !.password = None]
<1>1. /\ None \notin {builder.dbuser, builder.hostname, builder.port}
      /\ Escaped[builder.dbuser] = builder.dbuser /\ builder.options = << >>
      /\ ArePlain(certs, locale)
  BY DEF CanBeWritten, HasUrl, ParamsInv, ArePlain
<1>2. ToUrl(builder) = url
  BY <1>1, NoOptions DEF ToUrl, HasUrl, CanBeWritten
<1>3. IsQuery(query, certs, locale, Len(certs))
  BY <1>1, QueryBack
<1>4. /\ url.scheme = Scheme(certs) /\ url.user = builder.dbuser /\ url.password = None
      /\ url.host = builder.hostname /\ url.port = builder.port /\ url.query = text
  BY DEF Url
<1> HIDE DEF query, text, q
<1>5. CertsOf(query) = certs /\ LocaleOf(query) = locale
  BY <1>1, <1>3, CertsBack, LocaleBack
<1>6. ~IsRefused(Scheme(certs), query)
  <2>1. Scheme(certs) \in {"hdbsql", "hdbsqls"} /\ (Scheme(certs) = "hdbsqls" => certs # << >>)
    BY DEF Scheme, UsesTls
  <2>2. ASSUME NEW i \in DOMAIN query PROVE query[i][1] # <<"nonblocking">>
    <3> DEFINE n == Len(certs)
    <3>1. i \in 1..Len(query)
      BY <1>3, LenProperties DEF IsQuery
    <3> HIDE DEF n
    <3>2. CASE i \in 1..n
      <4>1. query[i][1] = <<CertKey[certs[i][1]]>> /\ certs[i][1] \in UrlCerts
        BY <1>1, <1>3, <3>2 DEF IsQuery, ArePlain, n
      <4> QED BY <4>1, KeysAre
    <3>3. CASE i \notin 1..n
      <4>1. i = n + 1 /\ locale # None
        BY <1>3, <3>1, <3>3 DEF IsQuery, n
      <4>2. query[i][1] = <<"client_locale">>
        BY <1>3, <4>1 DEF IsQuery, n
      <4> QED BY <4>2, KeysAre
    <3> QED BY <3>2, <3>3
  <2> QED BY <1>5, <2>1, <2>2 DEF IsRefused
<1>7. UserOf(url) = builder.dbuser
  BY <1>1, <1>4 DEF UserOf
<1>8. IntoBuilder(url) =
        [hostname |-> url.host, port |-> url.port, dbuser |-> UserOf(url),
         password |-> url.password, clientlocale |-> LocaleOf(query),
         certs |-> CertsOf(query), options |-> << >>]
  BY <1>4, <1>6 DEF IntoBuilder, query
<1>9. b = [hostname |-> builder.hostname, port |-> builder.port, dbuser |-> builder.dbuser,
            password |-> None, clientlocale |-> locale, certs |-> certs, options |-> << >>]
  BY <1>1 DEF ParamsInv
<1>10. IntoBuilder(url) = b
  BY <1>4, <1>5, <1>7, <1>8, <1>9
<1> HIDE DEF url, b
<1> QED BY <1>2, <1>10 DEF ComesBack, b

\* The connection that it makes shows the same URL.
LEMMA StringBack ==
  ASSUME ParamsInv, HasUrl(builder), Build(builder) # Err
  PROVE  ConnectString(Build(builder)) = ToUrl(builder)
<1>1. None \notin {builder.dbuser, builder.hostname, builder.port}
  BY DEF HasUrl
<1>2. ToUrl(builder) = Url(builder.dbuser, builder.hostname, builder.port, builder.certs,
                           Written(OptionsAsParameters(builder.certs, builder.clientlocale)))
  BY <1>1, NoOptions DEF ToUrl
<1> QED BY <1>2 DEF Build, ConnectString

\* A URL of a builder with certificates is refused, or has some.
LEMMA TlsBack ==
  ASSUME NEW b
  PROVE  TlsIsKept(b)
<1> DEFINE text == Written([i \in DOMAIN b.options |-> OptionText(b.options[i])]
                             \o OptionsAsParameters(b.certs, b.clientlocale))
           query == QueryPairs(Parsed(text))
           url == Url(b.dbuser, b.hostname, b.port, b.certs, text)
<1> SUFFICES ASSUME ToUrl(b) # Err, UsesTls(b.certs), IntoBuilder(ToUrl(b)) # Err
             PROVE  UsesTls(IntoBuilder(ToUrl(b)).certs)
  BY Zenon DEF TlsIsKept
<1>1. ToUrl(b) = url
  BY DEF ToUrl
<1>2. url.scheme = "hdbsqls" /\ url.query = text
  BY DEF Url, Scheme
<1> HIDE DEF url, text
<1>3. ~IsRefused(url.scheme, query)
  BY <1>1, <1>2 DEF IntoBuilder
<1>4. CertsOf(query) # << >>
  BY <1>2, <1>3 DEF IsRefused
<1>5. IntoBuilder(url).certs = CertsOf(query)
  BY <1>2, <1>3 DEF IntoBuilder
<1> QED BY <1>1, <1>4, <1>5 DEF UsesTls

\* In every state the URL of a builder whose texts need no escapes gives it back,
\* however long its texts and however many its certificates, and the connect
\* string is that URL (to_url, Display of ConnectParams, IntoConnectParamsBuilder
\* for Url); whatever the texts, TLS is never lost on the way.
THEOREM UrlsGiveBack == Spec => []UrlsReflect
<1>1. Init => ParamsInv
  BY NewParamsInv DEF Init, ParamsInv
<1>2. ParamsInv /\ [Next]_vars => ParamsInv'
  BY ParamsStep
<1>3. ParamsInv => UrlsReflect
  BY BuilderBack, StringBack, TlsBack DEF UrlsReflect, UrlReflects
<1> QED BY <1>1, <1>2, <1>3, PTL DEF Spec

=============================================================================
