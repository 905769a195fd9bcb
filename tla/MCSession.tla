----------------------------- MODULE MCSession -----------------------------
(* Two connections, one of which may serve a pool, three sessions, two rows *)
(* and one branch; builders with every kind of certificates, a user's name  *)
(* that is escaped in a URL, an environment that knows LANG, and texts with  *)
(* characters that mean something in a query.                               *)
EXTENDS Session

MCSymbols ==
  {"&", "=", " ", "+", "#", "%26", "<...>", "client_locale", "client_locale_from_env"}
    \cup {CertKey[c] : c \in Certs}
    \cup {"en", "server's", "certificate", "/certs", "/a", "b", "PEM", "pem", "/x", "y",
          "LANG", "LC_ALL"}
MCEscaped == [joe |-> "joe", mel |-> "m%C3%A9l"] @@ [u \in {"m%C3%A9l"} |-> u]
MCEnvironment == (<<"LANG">> :> <<"en">>) @@ (<<"PEM">> :> <<"certificate">>)
MCLocales == {<<"en">>}
MCCertChoices == {<<"Directory", <<"/certs">>>>, <<"Directory", <<"/a", "#", "b">>>>,
                  <<"Environment", <<"PEM">>>>, <<"Direct", <<"pem">>>>,
                  <<"RootCertificates", << >>>>, <<"None", << >>>>}
MCRuntimeOptions == {<<"nonblocking", << >>>>, <<"tls_certificate_direct", <<"pem">>>>, <<"some", <<"#">>>>}
MCUrl(scheme, query) ==
  [scheme |-> scheme, user |-> "joe", password |-> "secret", host |-> "hxe", port |-> "39013",
   query |-> query]
MCUrls ==
  {MCUrl("hdbsqls", <<"&", "client_locale_from_env", "=", "LANG",
                      "&", "tls_certificate_env", "=", "PEM">>),
   MCUrl("hdbsqls", <<"&", "tls_certificate_direct", "=", "pem">>),
   MCUrl("hdbsqls", <<"&", "tls_certificate_dir", "=", "/x", "%26", "y", "&">>),
   MCUrl("hdbsql",  <<"&", "client_locale", "=", "en", "&", "client_locale_from_env", "=", "LC_ALL">>),
   MCUrl("hdbsql",  <<"&", "client_locale_from_env">>)}
MCSymmetry == Permutations(Changes)
=============================================================================
