------------------------ MODULE MCPreparedStatement ------------------------
(* Instances of PreparedStatement for TLC. *)
EXTENDS PreparedStatement

Er(results) == Value("er", results)
P(kind) == Value(kind, 1)

\* Statements of each kind: an insert, with a LOB of each type, a procedure with
\* two LOBs, queries, DDL, and replies that do not fit.
Statement(params, maxRows, type, parts) ==
  [params |-> params, maxRows |-> maxRows, type |-> type, parts |-> parts]

SomeStatements ==
  {Statement(<<"INT">>, 3, "Insert", <<Er(<<1>>)>>),
   Statement(<<"BLOB">>, 2, "Insert", <<Er(<<SuccessNoInfo>>)>>),
   Statement(<<"INT", "CLOB">>, 1, "Insert", <<Er(<<SuccessNoInfo>>)>>),
   Statement(<<"TEXT">>, 1, "Update", <<P("pm"), Er(<<1>>)>>),
   Statement(<<"CLOB", "BLOB">>, 1, "DbProcedureCall",
     <<Value("out", 1), Value("rs", 2), Value("md", 0), Value("id", 3), Er(<<0>>)>>),
   Statement(<<>>, 0, "DbProcedureCall",
     <<P("out"), Value("rs", 1), Er(<<2>>), P("other"), Value("rs", 2)>>),
   Statement(<<>>, 0, "DbProcedureCall", <<P("md"), P("rs"), P("id")>>),
   Statement(<<>>, 0, "Select", <<P("pm"), P("rs")>>),
   Statement(<<>>, 0, "Select", <<Value("rs", 1), Value("rs", 2)>>),
   Statement(<<>>, 0, "Ddl", <<Er(<<SuccessNoInfo>>)>>),
   Statement(<<>>, 0, "Fetch", <<P("rs")>>)}

Reader(content) == Param("reader", content)

Texts == {<<>>, <<"A">>, <<"F", "c", "c", "c">>, <<"L", "c", "E", "c", "c">>,
          <<"A", "E", "c", "c", "L", "c">>, <<"E", "c", "c", "F", "c", "c", "c">>,
          <<"X", "A">>, <<"A", "E", "c">>, <<"L">>, <<"F", "c", "c", "c", "c", "c", "c", "c">>}

SomeValues ==
  [INT |-> {Param("value", <<>>), Param("wrong", <<>>), Reader(<<>>)},
   CLOB |-> {Param("value", <<>>), Param("null", <<>>), Param("lobnull", <<>>)} \cup
            {Reader(t) : t \in Texts},
   BLOB |-> {Param("null", <<>>), Reader(<<"X", "c", "A">>)},
   TEXT |-> {Param("value", <<>>), Reader(<<"A">>)}]
=============================================================================
