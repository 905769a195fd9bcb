----------------------------- MODULE MCLobRead -----------------------------
(* Instances of LobRead for TLC. *)
EXTENDS LobRead

\* One character of each kind.
One == <<"A">>
Two == <<"L", "s">>
Three == <<"E", "f", "l">>
ThreeOfED == <<"D", "l", "s">>
Pair == <<"D", "f", "l", "D", "s", "f">>
Characters == {One, Two, Three, ThreeOfED, Pair}

UpToTwo == {<<>>} \cup Characters \cup {c \o d : c, d \in Characters}
SomeTexts == UpToTwo \cup {c \o Pair \o d : c, d \in {One, Two, Three, Pair}}
                     \cup {Two \o Three \o Pair \o Three}

EveryKind == {"BLOB", "CLOB", "NCLOB"}
=============================================================================
