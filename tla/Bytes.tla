------------------------------- MODULE Bytes -------------------------------
(***************************************************************************)
(* What travels on the connection, as the sequence of the fields the code  *)
(* writes and reads one by one (write_i32, read_u8, write_all, ...): a     *)
(* field has a width in bytes and a number that stands for its content.    *)
(* A reader that asks for other widths than the writer used gets numbers   *)
(* that mean nothing (Garbage), and has lost the fields' borders for good. *)
(***************************************************************************)
EXTENDS FiniteSets, SeqOps

Garbage == 0

\* The rest of a stream whose borders are lost: no field has this width.
Lost == << [w |-> 0, v |-> Garbage] >>

\* Writes one field; a text or a filler without a byte is nothing.
Put(w, v) == IF w = 0 THEN << >> ELSE << [w |-> w, v |-> v] >>

\* Writes fields of the widths ws.
PutAll(ws, vs) == [i \in DOMAIN ws |-> [w |-> ws[i], v |-> vs[i]]]

\* The sum of a sequence of numbers.
Total(s) ==
    LET sum[i \in 0..Len(s)] == IF i = 0 THEN 0 ELSE sum[i - 1] + s[i] IN sum[Len(s)]

\* The bytes a sequence of fields has.
Width(fields) == Total([i \in DOMAIN fields |-> fields[i].w])

\* The members of a finite set, in some order: that of a hash map is any.
InSomeOrder(members) == S!SetToSeq(members)

Flat(s) == S!FlattenSeq(s)

\* What a reader returns: ok says that it returned no error, v is what was
\* read, and "in" is what is left to read.
Done(v, in) == [ok |-> TRUE,  v |-> v,       in |-> in]
Fail(in)    == [ok |-> FALSE, v |-> Garbage, in |-> in]

\* Goes on with what was read, or leaves with the error (the ? of Rust).
Then(r, F(_, _)) == IF r.ok THEN F(r.v, r.in) ELSE r

\* Reads fields of the widths ws, none of them zero.
Rd(ws, in) ==
    IF Len(in) >= Len(ws) /\ \A i \in DOMAIN ws : in[i].w = ws[i]
    THEN Done([i \in DOMAIN ws |-> in[i].v], SubSeq(in, Len(ws) + 1, Len(in)))
    ELSE Done([i \in DOMAIN ws |-> Garbage], Lost)

\* Reads one field of w bytes, which may be none.
Rd1(w, in) ==
    IF w = 0 THEN Done(Garbage, in)
    ELSE IF in # << >> /\ Head(in).w = w THEN Done(Head(in).v, Tail(in))
    ELSE Done(Garbage, Lost)

\* Reads a text or bytes of this length: <<content, length>>.
RdBytes(l, in) == Then(Rd1(l, in), LAMBDA b, s : Done(<<b, l>>, s))

\* Reads n times with the reader P(i, acc, in), up to the first error; acc is
\* what the one before has returned.
RdFold(P(_, _, _), start, n, in) ==
    LET read[i \in 0..n] == IF i = 0 THEN Done(start, in)
                            ELSE Then(read[i - 1], LAMBDA acc, s : P(i, acc, s))
    IN  read[n]

\* Reads n things with the reader P(i, in).
RdEach(P(_, _), n, in) ==
    RdFold(LAMBDA i, vs, s : Then(P(i, s), LAMBDA v, rest : Done(Append(vs, v), rest)),
           << >>, n, in)

\* Writes one thing after the other, up to the first error: a writer returns
\* whether it succeeds, and what it has written (in).
WriteEach(writers) ==
    LET failed == {i \in DOMAIN writers : ~writers[i].ok}
        n == IF failed = {} THEN Len(writers)
             ELSE CHOOSE i \in failed : \A j \in failed : i <= j
    IN  [ok |-> failed = {}, v |-> << >>, in |-> Flat([i \in 1..n |-> writers[i].in])]
=============================================================================
