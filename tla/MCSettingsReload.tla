-------------------------- MODULE MCSettingsReload --------------------------
(* Small instances of SettingsReload for TLC: a required text, the hash of  *)
(* the password, a name that has a default and a number.                    *)
EXTENDS SettingsReload

MCFields == <<"VWORLD_WMTS_KEY", "ADMIN_PW_HASH", "UPLOAD_SHEET_NAME", "LOGIN_MAX_ATTEMPTS">>

Names == {"VWORLD_WMTS_KEY", "UPLOAD_SHEET_NAME"}

(* A text in quotes, which are lost in reading, and one that opens a quote. *)
Quoted == "\"1\""
Open == "\"1"

MCTexts == {Blank, "1", "2", Quoted, Open}

MCPlain == {Blank, "1", "2", Missing}

(* A quote that is opened ends at the next one: all lines up to that are    *)
(* swallowed.  Without a next one only the line itself is skipped.          *)
MCLoadDotenv(file) ==
    LET at(i) == file[Fields[i]]
        swallowed(k) == \E i, j \in DOMAIN Fields :
                           /\ i < j /\ at(i) = Open /\ at(j) \in {Quoted, Open}
                           /\ \E n \in i .. j : Fields[n] = k
    IN  [k \in Keys |-> CASE file[k] = Open \/ swallowed(k) -> Missing
                          [] file[k] = Quoted /\ ~swallowed(k) -> "1"
                          [] OTHER -> file[k]]

(* A form takes any text for a name; a number is one.  The hash is bcrypt's.*)
MCValid == [k \in Keys |-> CASE k = "VWORLD_WMTS_KEY" -> {Blank, "1", "2", Open}
                             [] k = "UPLOAD_SHEET_NAME" -> {Blank, "1", Quoted}
                             [] OTHER -> {"1", "2"}]

(* The first two are required, the others have a default. *)
MCReadable == [k \in Keys |-> CASE k = "VWORLD_WMTS_KEY" -> MCTexts \ {Blank}
                                [] k = "ADMIN_PW_HASH" -> {"1", "2"}
                                [] k = "UPLOAD_SHEET_NAME" -> MCTexts \cup {Missing}
                                [] OTHER -> {"1", "2", Missing}]

Nothing == [k \in Keys |-> Missing]

AllSet == [k \in Keys |-> "1"]

(* A process beside its .env, which may leave out what has a default, and a *)
(* container that is handed all settings.                                   *)
MCStarts == {[supplied |-> Nothing, file |-> AllSet],
             [supplied |-> Nothing, file |-> [AllSet EXCEPT !["LOGIN_MAX_ATTEMPTS"] = Missing]],
             [supplied |-> AllSet, file |-> Nothing]}

(* Texts that read back, in a process beside its .env. *)
PlainTexts == {Blank, "1", "2"}

PlainValid == [k \in Keys |-> IF k \in Names THEN PlainTexts ELSE {"1", "2"}]

PlainStarts == {[supplied |-> Nothing, file |-> AllSet]}

Identity(file) == file
=============================================================================
