--------------------------- MODULE ConnectParams ---------------------------
(***************************************************************************)
(* The parameters of a connection: the builder, what it makes of them, and *)
(* the URL they are written to and read from.                              *)
(*                                                                         *)
(* A URL is a record of its parts, [scheme, user, password, host, port,    *)
(* query]; a part that is missing is None.  The URL library escapes what   *)
(* may not stand in a user's name (Escaped); nobody removes the escapes.   *)
(*                                                                         *)
(* The query, and the values that are written into it, are texts: sequences*)
(* of symbols, a symbol being one of the characters that mean something in *)
(* a query, an escape like %2B, or a run of characters that mean nothing.  *)
(* Each assignment of a query starts with "&", the first one, too, where   *)
(* the code has "?".  The writer escapes nothing; the reader cuts the text *)
(* up and decodes it as a form.  The feature alpha_nonblocking is not      *)
(* active.                                                                 *)
(***************************************************************************)
EXTENDS SeqOps

CONSTANTS
  Symbols,      \* of which texts consist
  None,         \* a parameter that is not given, a variable that is not set
  Escaped,      \* a user's name as the URL library writes it
  Environment   \* the environment variables of the process, by their names

Err == [error |-> TRUE]

Certs   == {"Directory", "Environment", "Direct", "RootCertificates", "None"}
CertKey == [Directory |-> "tls_certificate_dir", Environment |-> "tls_certificate_env",
            Direct |-> "tls_certificate_direct",
            RootCertificates |-> "use_mozillas_root_certificates",
            None |-> "insecure_omit_server_certificate_check"]
\* What reading a URL knows of them.
UrlCerts == Certs \ {"Direct"}

\* What the code writes, and what decoding yields.
ASSUME SymbolsAssumption ==
  {"&", "=", " ", "+", "#", "<...>", "client_locale"} \cup {CertKey[c] : c \in Certs}
     \subseteq Symbols

NewBuilder == [hostname |-> None, port |-> None, dbuser |-> None, password |-> None,
               clientlocale |-> None, certs |-> << >>, options |-> << >>]

Getenv(name) == IF name \in DOMAIN Environment THEN Environment[name] ELSE None

-----------------------------------------------------------------------------
(* From the builder to the parameters and to the URL.                      *)
\* ConnectParamsBuilder::build: runtime options do not get any further.
Build(b) ==
    IF None \in {b.hostname, b.port, b.dbuser, b.password} THEN Err
    ELSE [host |-> b.hostname, port |-> b.port, dbuser |-> b.dbuser, password |-> b.password,
          clientlocale |-> b.clientlocale, certs |-> b.certs]

UsesTls(certs) == certs # << >>
Scheme(certs)  == IF UsesTls(certs) THEN "hdbsqls" ELSE "hdbsql"

\* A runtime option, ServerCerts (a certificate that is given directly is not
\* shown), and the locale, as they are written.
Assignment(key, value) == <<key, "=">> \o value

OptionText(option) ==
    IF option[2] = << >> THEN <<option[1]>> ELSE Assignment(option[1], option[2])

CertText(cert) ==
    CASE cert[1] \in {"Directory", "Environment"} -> Assignment(CertKey[cert[1]], cert[2])
      [] cert[1] = "Direct" -> Assignment(CertKey[cert[1]], <<"<...>">>)
      [] OTHER -> <<CertKey[cert[1]]>>

LocaleTexts(locale) ==
    IF locale = None THEN << >> ELSE <<Assignment("client_locale", locale)>>

\* Mutant: the locale is forgotten.
OptionsAsParametersWithoutLocale(certs, locale) ==
    [i \in DOMAIN certs |-> CertText(certs[i])]

OptionsAsParameters(certs, locale) ==
    [i \in DOMAIN certs |-> CertText(certs[i])] \o LocaleTexts(locale)

\* The text of a query.
Written(assignments) ==
    S!FlattenSeq([i \in DOMAIN assignments |-> <<"&">> \o assignments[i]])

Url(user, host, port, certs, query) ==
    [scheme |-> Scheme(certs), user |-> user, password |-> None,
     host |-> host, port |-> port, query |-> query]

\* ConnectParamsBuilder::to_url.
ToUrl(b) ==
    IF None \in {b.dbuser, b.hostname, b.port} THEN Err
    ELSE Url(b.dbuser, b.hostname, b.port, b.certs,
             Written([i \in DOMAIN b.options |-> OptionText(b.options[i])]
                       \o OptionsAsParameters(b.certs, b.clientlocale)))

\* Display of ConnectParams, which Connection::connect_string shows.
ConnectString(p) ==
    Url(p.dbuser, p.host, p.port, p.certs,
        Written(OptionsAsParameters(p.certs, p.clientlocale)))

-----------------------------------------------------------------------------
(* From the URL to the builder.                                            *)
\* Url::parse: blanks at the end are dropped, line breaks everywhere, and what
\* follows a "#" is no part of the query.
Parsed(text) ==
    Kept(text, {i \in DOMAIN text :
                  /\ text[i] # "\n"
                  /\ \A j \in 1..i : text[j] # "#"
                  /\ \E j \in i..Len(text) : text[j] \notin {" ", "\n"}})

\* A symbol of a form, decoded.
Decoded(symbol) ==
    CASE symbol = "+"   -> " "
      [] symbol = "%2B" -> "+"
      [] symbol = "%20" -> " "
      [] symbol = "%26" -> "&"
      [] symbol = "%23" -> "#"
      [] OTHER          -> symbol
DecodedText(text) == [i \in DOMAIN text |-> Decoded(text[i])]

\* The assignment that starts at i, and its name and value.
AssignmentAt(text, i) ==
    Kept(text, {j \in DOMAIN text : j > i /\ \A k \in (i + 1)..j : text[k] # "&"})
NameIn(text)  == Kept(text, {j \in DOMAIN text : \A k \in 1..j : text[k] # "="})
ValueIn(text) == Kept(text, {j \in DOMAIN text : \E k \in 1..(j - 1) : text[k] = "="})
PairOf(text)  == <<DecodedText(NameIn(text)), DecodedText(ValueIn(text))>>

\* Url::query_pairs.
QueryPairs(text) ==
    Kept([i \in DOMAIN text |-> PairOf(AssignmentAt(text, i))],
         {i \in DOMAIN text : text[i] = "&"})

\* client_locale_from_env names the variable to read: without a value it
\* reads the variable without a name, and the locale stays as it was.
LocaleGiven(option) ==
    CASE option[1] = <<"client_locale">> -> option[2]
      [] option[1] = <<"client_locale_from_env">> -> Getenv(option[2])
      [] OTHER -> None

\* The last one counts.
LocaleOf(query) ==
    LET given == Kept(query, {i \in DOMAIN query : LocaleGiven(query[i]) # None})
    IN  IF given = << >> THEN None ELSE LocaleGiven(given[Len(given)])

UserOf(url) == IF url.user = None THEN None ELSE Escaped[url.user]

\* Options that are not known are ignored, tls_certificate_direct is one.
CertKind(option)     == CHOOSE c \in UrlCerts : option[1] = <<CertKey[c]>>
CertOptionsAt(query) == {i \in DOMAIN query : \E c \in UrlCerts : query[i][1] = <<CertKey[c]>>}
CertIn(option) ==
    <<CertKind(option),
      IF CertKind(option) \in {"Directory", "Environment"} THEN option[2] ELSE << >>>>
CertsOf(query) ==
    LET given == Kept(query, CertOptionsAt(query))
    IN  [i \in DOMAIN given |-> CertIn(given[i])]

\* Mutant: nobody looks whether there are certificates.
IsRefusedWithoutCheck(scheme, query) ==
    \/ scheme \notin {"hdbsql", "hdbsqls"}
    \/ \E i \in DOMAIN query : query[i][1] = <<"nonblocking">>

IsRefused(scheme, query) ==
    \/ scheme \notin {"hdbsql", "hdbsqls"}
    \/ \E i \in DOMAIN query : query[i][1] = <<"nonblocking">>
    \/ scheme = "hdbsqls" /\ CertsOf(query) = << >>

\* IntoConnectParamsBuilder for &str and for Url.
IntoBuilder(url) ==
    LET query == QueryPairs(Parsed(url.query))
    IN  IF IsRefused(url.scheme, query) THEN Err
        ELSE [hostname |-> url.host, port |-> url.port, dbuser |-> UserOf(url),
              password |-> url.password, clientlocale |-> LocaleOf(query),
              certs |-> CertsOf(query), options |-> << >>]

-----------------------------------------------------------------------------
(* What should hold of every builder.                                      *)
\* There is a URL, and an option of URLs for all that the builder has, but for
\* the password.
HasUrl(b) ==
    /\ None \notin {b.dbuser, b.hostname, b.port} /\ b.options = << >>
    /\ \A i \in DOMAIN b.certs : b.certs[i][1] \in UrlCerts

\* The URL of a builder brings it back without the password.
ComesBack(b) == IntoBuilder(ToUrl(b)) = [b EXCEPT !.password = None]

\* A text that reads as it is written: nothing in it ends a value or is decoded.
Plain(text) ==
    /\ \A i \in DOMAIN text : text[i] \notin {"&", "#", "\n"} /\ Decoded(text[i]) = text[i]
    /\ text # << >> => text[Len(text)] # " "

\* There is a URL, and its parts need no escapes.
CanBeWritten(b) ==
    /\ HasUrl(b) /\ Escaped[b.dbuser] = b.dbuser
    /\ b.clientlocale # None => Plain(b.clientlocale)
    /\ \A i \in DOMAIN b.certs : Plain(b.certs[i][2])

\* Such a URL brings the builder back, and the URL that a connection shows is
\* that of the builder it was made with, whatever the texts.
UrlReflects(b) ==
    /\ CanBeWritten(b) => ComesBack(b)
    /\ HasUrl(b) /\ Build(b) # Err => ConnectString(Build(b)) = ToUrl(b)

\* Whoever uses TLS does not come back from its URL without, whatever
\* certificates and names the URL cannot express and whatever texts cut the
\* query short.
TlsIsKept(b) ==
    ToUrl(b) # Err /\ UsesTls(b.certs) =>
        LET back == IntoBuilder(ToUrl(b)) IN back = Err \/ UsesTls(back.certs)
=============================================================================
