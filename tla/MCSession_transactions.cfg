SPECIFICATION Spec
SYMMETRY MCSymmetry
CHECK_DEADLOCK FALSE
CONSTANTS
  Symbols <- MCSymbols
  None = None
  Escaped <- MCEscaped
  Environment <- MCEnvironment
  Conns = {c1, c2}
  First = c1
  Threads = {t1}
  Changes = {r1, r2}
  Xids = {x1}
  NoXid = NoXid
  MaxSessions = 3
  MaxLost = 1
  Hostnames = {"hxe"}
  Ports = {"39013"}
  Users = {"joe", "mel"}
  Passwords = {"secret"}
  Locales <- MCLocales
  CertChoices <- MCCertChoices
  RuntimeOptions <- MCRuntimeOptions
  Urls <- MCUrls
  OsUserName = "os"
INVARIANT CommitsAreComplete
