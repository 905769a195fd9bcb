------------------------------ MODULE Response ------------------------------
(***************************************************************************)
(* From the parts of a reply to an HdbResponse: the parts that matter      *)
(* become InternalReturnValues (protocol/parts.rs), these, depending on    *)
(* the type of the reply, an HdbResponse (hdb_response.rs), from which the *)
(* program takes what it expects.                                          *)
(*                                                                         *)
(* A part, and a return value, is [kind, val].  The parts:                 *)
(*   "rs"  a ResultSet                  "md"   ResultSetMetadata           *)
(*   "id"  a ResultSetId                "out"  OutputParameters            *)
(*   "pm"  ParameterMetadata            "er"   ExecutionResults            *)
(*   "wlr" a WriteLobReply              "closing"  TransactionFlags that   *)
(*   "other" anything else                     declare the session closed  *)
(* An ExecutionResult is a number, as on the wire: the rows affected, or   *)
(* SuccessNoInfo or Failure.                                               *)
(***************************************************************************)
EXTENDS SeqOps, FiniteSets

Value(kind, val) == [kind |-> kind, val |-> val]
SuccessNoInfo == -2
ExecFailure == -3   \* ExecutionResult::Failure

Err == [ok |-> FALSE, values |-> <<>>]
Ok(values) == [ok |-> TRUE, values |-> values]

OfKind(kind, values) == Kept(values, {i \in DOMAIN values : values[i].kind = kind})

\* Parts::remove_first_of_kind
RemoveFirstOfKind(parts, kind) ==
  Kept(parts, {i \in DOMAIN parts :
                 parts[i].kind = kind => \E j \in 1..(i - 1) : parts[j].kind = kind})

-----------------------------------------------------------------------------
(* Parts::into_internal_return_values                                      *)

\* ResultSetMetadata come with a ResultSetId.
MetadataHasId(parts, i) == i < Len(parts) /\ parts[i + 1].kind = "id"

InternalReturnValue(parts, i) ==
  CASE parts[i].kind \in {"rs", "out", "pm", "er", "wlr"} -> <<parts[i]>>
    [] parts[i].kind = "md" -> <<Value("rs", parts[i + 1].val)>>
    [] OTHER -> <<>>

IntoInternalReturnValues(parts) ==
  IF \E i \in DOMAIN parts :
       \/ parts[i].kind = "closing"
       \/ parts[i].kind = "md" /\ ~MetadataHasId(parts, i)
  THEN Err
  ELSE Ok(S!FlattenSeq([i \in DOMAIN parts |-> InternalReturnValue(parts, i)]))

-----------------------------------------------------------------------------
(* Reply::handle_db_error: a reply with errors and ExecutionResults.       *)

\* Bug variant: every failure gets the first error.
ErrorOf_First(results, errors, i) == IF errors # <<>> THEN errors[1] ELSE 0

\* The failures take the errors in their order; 0 is no error.
ErrorOf(results, errors, i) ==
  LET k == Cardinality({j \in 1..i : results[j] = ExecFailure})
  IN IF k <= Len(errors) THEN errors[k] ELSE 0

\* [result, error] for each row, and more for errors that are left over.
MixErrors(results, errors) ==
  LET failures == Cardinality({i \in DOMAIN results : results[i] = ExecFailure})
  IN [i \in DOMAIN results |->
        [result |-> results[i],
         error |-> IF results[i] = ExecFailure THEN ErrorOf(results, errors, i) ELSE 0]]
     \o [i \in 1..(Len(errors) - failures) |->
           [result |-> ExecFailure, error |-> errors[failures + i]]]

-----------------------------------------------------------------------------
(* HdbResponse::try_new                                                    *)

\* single(): without ParameterMetadata there must be exactly one.
Single(irvs) ==
  LET values == Kept(irvs, {i \in DOMAIN irvs : irvs[i].kind # "pm"})
  IN IF Len(values) = 1 THEN Ok(values) ELSE Err

HasFailure(results) == \E i \in DOMAIN results : results[i] = ExecFailure

\* The counters of a list of ExecutionResults.
AffectedRows(results) ==
  Value("rows", [i \in DOMAIN results |-> IF results[i] = SuccessNoInfo THEN 0 ELSE results[i]])

ResultsetResponse(irvs) ==   \* resultset
  LET single == Single(irvs)
  IN IF single.ok /\ single.values[1].kind = "rs" THEN single ELSE Err

RowsAffectedResponse(irvs) ==   \* rows_affected
  LET single == Single(irvs)
  IN IF single.ok /\ single.values[1].kind = "er" /\ ~HasFailure(single.values[1].val)
     THEN Ok(<<AffectedRows(single.values[1].val)>>) ELSE Err

SuccessResponse(irvs) ==   \* success
  LET single == Single(irvs)
  IN IF /\ single.ok /\ single.values[1].kind = "er"
        /\ Len(single.values[1].val) = 1
        /\ single.values[1].val[1] \in {0, SuccessNoInfo}
     THEN Ok(<<Value("success", 0)>>) ELSE Err

\* Bug variant: the values are not reversed.
Arranged_AsSent(irvs) == irvs

\* The order in which multiple_return_values builds the response.
Arranged(irvs) == S!Reverse(irvs)

MultipleReturnValues(irvs) ==   \* multiple_return_values
  IF \E i \in DOMAIN irvs :
       irvs[i].kind = "wlr" \/ (irvs[i].kind = "er" /\ HasFailure(irvs[i].val))
  THEN Err
  ELSE LET arranged == Arranged(irvs)
           values == Kept(arranged, {i \in DOMAIN arranged : arranged[i].kind # "pm"})
       IN Ok([i \in DOMAIN values |->
                IF values[i].kind = "er" THEN AffectedRows(values[i].val) ELSE values[i]])

HdbResponse(irvs, replytype) ==   \* try_new
  CASE replytype \in {"Select", "SelectForUpdate"} -> ResultsetResponse(irvs)
    [] replytype \in {"Connect", "Ddl", "Commit", "Rollback"} -> SuccessResponse(irvs)
    [] replytype \in {"Nil", "Explain", "Insert", "Update", "Delete"} ->
         RowsAffectedResponse(irvs)
    [] replytype \in {"DbProcedureCall", "DbProcedureCallWithResult"} ->
         MultipleReturnValues(irvs)
    [] OTHER -> Err

-----------------------------------------------------------------------------
(* What the program takes out of a response.                               *)

IsSuccess(v) == v.kind = "success" \/ (v.kind = "rows" /\ v.val = <<0>>)

\* find_success, find_resultset, find_affected_rows, find_output_parameters:
\* the last value that fits, 0 if there is none.
Find(values, kind) ==
  LET fits == {i \in DOMAIN values :
                 IF kind = "success" THEN IsSuccess(values[i]) ELSE values[i].kind = kind}
  IN IF fits = {} THEN 0 ELSE CHOOSE i \in fits : \A j \in fits : j <= i

\* get_success, get_resultset, ...: the value, and the response without it.
Get(values, kind) ==
  LET i == Find(values, kind)
  IN IF i = 0 THEN [ok |-> FALSE, value |-> Value("none", 0), rest |-> values]
     ELSE [ok |-> TRUE, value |-> values[i], rest |-> Kept(values, DOMAIN values \ {i})]

\* into_resultset, into_affected_rows, into_output_parameters, into_success:
\* information must not get lost.
IntoSingle(values, kind) ==
  /\ Len(values) = 1
  /\ IF kind = "success" THEN IsSuccess(values[1]) ELSE values[1].kind = kind

=============================================================================
