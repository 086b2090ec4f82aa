------------------------ MODULE SettingsReloadProofs ------------------------
(***************************************************************************)
(* Theorems about SettingsReload for every value of its constants: any     *)
(* fields and texts, whatever load_dotenv makes of them, any number of     *)
(* threads, updates, failed writes and crashes.                            *)
(***************************************************************************)
EXTENDS SettingsReload, TLAPS

-----------------------------------------------------------------------------
(* The inductive invariant. *)

(* A call of get_settings that is under way has not met a text that it      *)
(* would have raised for.                                                   *)
WellRead(read) ==
    /\ Len(read) <= Len(Fields)
    /\ \A i \in DOMAIN read : read[i] \in Readable[Fields[i]]

(* What get_settings has returned, or is about to, has all that is required.*)
ResultsParse ==
    /\ WellRead(server.read) /\ \A t \in Threads : WellRead(thread[t].read)
    /\ cache # NoSettings => Parses(cache)
    /\ server.pc \in {"config", "limiter"} =>
          server.result \in Settings /\ Parses(server.result)

(* A text in os.environ that a restart is to find in a line is there.       *)
FollowsLine(k, line) ==
    (supplied[k] = Missing /\ environ[k] # Missing /\ k \notin torn /\ line \in Plain)
        => line = environ[k]

(* os.environ is what .env holds where nothing was lost, less what          *)
(* update_env_file has not written yet, or os.environ.update not yet set.   *)
EnvironFollowsFile ==
    /\ server.pc \notin {"down", "write", "environ"} =>
          \A k \in Keys : FollowsLine(k, envFile[k])
    /\ server.pc = "write" =>
          /\ envFile = [k \in Keys |-> Missing]
          /\ \A k \in Keys : FollowsLine(k, server.lines[k])
    /\ server.pc = "environ" =>
          /\ server.todo \subseteq DOMAIN server.update
          /\ \A k \in Keys : IF k \in server.todo THEN envFile[k] = server.update[k]
                             ELSE FollowsLine(k, envFile[k])

(* The limiter is behind the configuration only between the two assignments *)
(* of rebuild_runtime_state, and then it is known to be.                    *)
LimiterFollowsConfig ==
    /\ server.pc \notin {"down", "limiter"} => limiter = config[LimiterKey]
    /\ server.pc = "limiter" /\ ~server.rebuild => limiter = config[LimiterKey]

(* As long as no thread is at get_settings, the cache is empty from         *)
(* cache_clear on, and the handler reads what os.environ holds.             *)
AloneIsCurrent ==
    ~overlap =>
        /\ \A t \in Threads : ~Busy(t)
        /\ server.pc \in {"idle", "open", "write"} /\ Parses(environ) =>
              config = environ /\ cache = environ
        /\ server.pc \in {"get", "load"} => cache = NoSettings
        /\ server.pc = "read" =>
              /\ cache = NoSettings
              /\ \A i \in DOMAIN server.read : server.read[i] = environ[Fields[i]]
        /\ server.pc = "config" => server.result = environ /\ cache = environ
        /\ server.pc = "limiter" => config = environ /\ cache = environ

(* A handler has read nothing before it comes to read. *)
NothingReadYet ==
    server.pc \in {"open", "write", "environ", "clear", "get", "load"} =>
        server.read = <<>>

(* What was read back from .env is all there. *)
LinesAreComplete == server.pc = "write" => server.lines \in Settings

IInv ==
    /\ TypeOK
    /\ LinesAreComplete
    /\ ResultsParse
    /\ EnvironFollowsFile
    /\ LimiterFollowsConfig
    /\ NothingReadYet
    /\ AloneIsCurrent

-----------------------------------------------------------------------------
(* get_settings. *)

(* The fields are a sequence of keys, and each key is one of them. *)
LEMMA FieldsAreKeys ==
    /\ Fields \in Seq(Keys) /\ Len(Fields) \in Nat /\ DOMAIN Fields = 1 .. Len(Fields)
    /\ \A i \in 1 .. Len(Fields) : Fields[i] \in Keys
    /\ \A k \in Keys : \E i \in 1 .. Len(Fields) : Fields[i] = k
    /\ LimiterKey \in Keys /\ PasswordKey \in Keys /\ FormKeys \subseteq Keys
    /\ Missing \in Line /\ Valid[PasswordKey] \subseteq Texts
<1>1. Fields \in Seq(Keys)
  BY SettingsAssumption DEF SettingsAssumption
<1>2. Len(Fields) \in Nat /\ DOMAIN Fields = 1 .. Len(Fields)
  BY <1>1
<1> QED
  BY <1>1, <1>2, SettingsAssumption DEF SettingsAssumption, Keys, Line

(* No settings are not settings. *)
LEMMA NoSettingsIsNone == NoSettings \notin Settings
<1>1. LimiterKey \in Keys
  BY FieldsAreKeys
<1>2. DOMAIN NoSettings = {}
  BY DEF NoSettings
<1> QED
  BY <1>1, <1>2 DEF Settings

(* Settings built from all fields have a text for each key, none that       *)
(* get_settings raises for, and are those of a file if each text was.       *)
LEMMA SettingsFromFields ==
    ASSUME NEW read \in Seq(Line), ReadAll(read), WellRead(read)
    PROVE  /\ SettingsOf(read) \in Settings /\ Parses(SettingsOf(read))
           /\ \A file \in Settings :
                 (\A i \in DOMAIN read : read[i] = file[Fields[i]]) => SettingsOf(read) = file
<1> DEFINE at(k) == CHOOSE i \in DOMAIN Fields : Fields[i] = k
<1>1. \A k \in Keys : at(k) \in 1 .. Len(Fields) /\ Fields[at(k)] = k
  BY FieldsAreKeys
<1>2. DOMAIN read = 1 .. Len(Fields)
  BY DEF ReadAll
<1>3. SettingsOf(read) = [k \in Keys |-> read[at(k)]]
  BY DEF SettingsOf
<1> HIDE DEF at
<1>4. SettingsOf(read) \in Settings
  BY <1>1, <1>2, <1>3 DEF Settings
<1>5. Parses(SettingsOf(read))
  BY <1>1, <1>2, <1>3 DEF Parses, WellRead
<1>6. ASSUME NEW file \in Settings, \A i \in DOMAIN read : read[i] = file[Fields[i]]
      PROVE  SettingsOf(read) = file
  BY <1>1, <1>2, <1>3, <1>6 DEF Settings
<1> QED
  BY <1>4, <1>5, <1>6

(* One more field that does not raise. *)
LEMMA NextFieldRead ==
    ASSUME TypeOK, NEW read \in Seq(Line), WellRead(read),
           ~ReadAll(read)
    PROVE  /\ NextField(read) \in Keys
           /\ Raises(read) => ~Parses(environ)
           /\ ~Raises(read) =>
                 /\ Append(read, environ[NextField(read)]) \in Seq(Line)
                 /\ WellRead(Append(read, environ[NextField(read)]))
<1>1. Len(read) \in Nat /\ Len(read) + 1 \in 1 .. Len(Fields)
  BY FieldsAreKeys DEF WellRead, ReadAll
<1>2. NextField(read) \in Keys
  BY <1>1, FieldsAreKeys DEF NextField
<1>3. environ[NextField(read)] \in Line
  BY <1>2 DEF TypeOK, Settings
<1>4. Raises(read) => ~Parses(environ)
  BY <1>2 DEF Raises, Parses
<1>5. ASSUME ~Raises(read)
      PROVE  WellRead(Append(read, environ[NextField(read)]))
  <2> DEFINE more == Append(read, environ[NextField(read)])
  <2>1. Len(more) = Len(read) + 1 /\ DOMAIN more = 1 .. Len(read) + 1
    BY <1>1, <1>3
  <2>2. \A i \in 1 .. Len(read) : more[i] = read[i]
    BY <1>1, <1>3
  <2>3. more[Len(read) + 1] = environ[NextField(read)]
    BY <1>1, <1>3
  <2>4. environ[NextField(read)] \in Readable[NextField(read)]
    BY <1>5 DEF Raises
  <2> HIDE DEF more
  <2> QED
    BY <1>1, <2>1, <2>2, <2>3, <2>4, FieldsAreKeys DEF WellRead, NextField, more
<1> QED
  BY <1>2, <1>3, <1>4, <1>5

-----------------------------------------------------------------------------
(* load_dotenv. *)

LEMMA LoadedType ==
    ASSUME NEW environment \in Settings, NEW file \in Settings
    PROVE  /\ Loaded(environment, file) \in Settings
           /\ \A k \in Keys : Loaded(environment, file)[k] =
                  IF environment[k] = Missing THEN LoadDotenv(file)[k] ELSE environment[k]
<1>1. LoadDotenv(file) \in Settings
  BY LoadDotenvAssumption DEF LoadDotenvAssumption
<1> QED
  BY <1>1 DEF Loaded, Settings

(* .env is loaded: what os.environ has stays, and the rest is as in .env.   *)
LEMMA LoadKeepsFollowing ==
    ASSUME IInv, environ' = Loaded(environ, envFile), UNCHANGED files,
           server.pc # "down"
    PROVE  /\ environ' \in Settings
           /\ \A k \in Keys : FollowsLine(k, envFile[k]) => FollowsLine(k, envFile[k])'
           /\ server.pc = "write" => environ' = environ
<1>1. environ \in Settings /\ envFile \in Settings
  BY DEF IInv, TypeOK
<1>2. /\ environ' \in Settings
      /\ \A k \in Keys : environ'[k] = IF environ[k] = Missing THEN LoadDotenv(envFile)[k]
                                        ELSE environ[k]
  BY <1>1, LoadedType
<1>3. \A k \in Keys : envFile[k] \in Plain => LoadDotenv(envFile)[k] \in {envFile[k], Missing}
  BY <1>1, LoadDotenvAssumption DEF LoadDotenvAssumption
<1>4. \A k \in Keys : FollowsLine(k, envFile[k]) => FollowsLine(k, envFile[k])'
  BY <1>2, <1>3 DEF FollowsLine, files
<1>5. ASSUME server.pc = "write"
      PROVE  environ' = environ
  <2>1. \A k \in Keys : envFile[k] = Missing /\ Missing \in Plain
    BY <1>5, SettingsAssumption DEF IInv, EnvironFollowsFile, SettingsAssumption
  <2>2. \A k \in Keys : environ'[k] = environ[k]
    BY <1>2, <1>3, <2>1
  <2> QED
    BY <1>1, <1>2, <2>2 DEF Settings
<1> QED
  BY <1>2, <1>4, <1>5

(* A process starts: its environment follows .env. *)
LEMMA StartFollows ==
    ASSUME NEW k \in Keys, supplied \in Settings, envFile \in Settings,
           environ = Loaded(supplied, envFile)
    PROVE  FollowsLine(k, envFile[k])
<1>1. environ[k] = IF supplied[k] = Missing THEN LoadDotenv(envFile)[k] ELSE supplied[k]
  BY LoadedType
<1>2. envFile[k] \in Plain => LoadDotenv(envFile)[k] \in {envFile[k], Missing}
  BY LoadDotenvAssumption DEF LoadDotenvAssumption
<1> QED
  BY <1>1, <1>2 DEF FollowsLine

-----------------------------------------------------------------------------
(* The invariant holds at first. *)

LEMMA RestingIsServer ==
    /\ Resting \in Server /\ [Resting EXCEPT !.pc = "down"] \in Server
    /\ NoCall \in Call /\ NoCall.pc = "idle" /\ NoCall.read = <<>>
    /\ Resting.pc = "idle" /\ Resting.read = <<>>
    /\ [Resting EXCEPT !.pc = "down"].pc = "down" /\ [Resting EXCEPT !.pc = "down"].read = <<>>
    /\ WellRead(<<>>)
<1>1. <<>> \in Seq(Line)
  OBVIOUS
<1>2. NoSettings \in [{} -> Texts]
  BY DEF NoSettings
<1>3. NoSettings \in Update
  BY <1>2 DEF Update
<1>4. WellRead(<<>>)
  BY FieldsAreKeys DEF WellRead
<1> QED
  BY <1>1, <1>3, <1>4 DEF Resting, Server, NoCall, Call

LEMMA InitIInv == Init => IInv
<1> SUFFICES ASSUME Init
             PROVE  IInv
  OBVIOUS
<1>1. supplied \in Settings /\ envFile \in Settings /\ Parses(Loaded(supplied, envFile))
  BY SettingsAssumption DEF Init, SettingsAssumption
<1>2. /\ environ = Loaded(supplied, envFile) /\ environ \in Settings /\ Parses(environ)
      /\ cache = environ /\ config = environ /\ limiter = environ[LimiterKey]
      /\ limiter \in Line
  <2>1. environ = Loaded(supplied, envFile)
    BY DEF Init
  <2>2. environ \in Settings
    BY <1>1, <2>1, LoadedType
  <2> QED
    BY <1>1, <2>1, <2>2, FieldsAreKeys DEF Init, Settings
<1>3. /\ server = Resting /\ thread = [t \in Threads |-> NoCall] /\ torn = {} /\ ~overlap
      /\ overlap = FALSE /\ updates = 0 /\ faults = 0
  BY DEF Init
<1>4. \A t \in Threads : thread[t].pc = "idle" /\ thread[t].read = <<>>
  BY <1>3, RestingIsServer
<1>5. TypeOK
  BY <1>1, <1>2, <1>3, RestingIsServer DEF TypeOK
<1>6. ResultsParse
  BY <1>2, <1>3, <1>4, RestingIsServer DEF ResultsParse
<1>7. \A k \in Keys : FollowsLine(k, envFile[k])
  BY <1>1, <1>2, StartFollows
<1> QED
  BY <1>2, <1>3, <1>4, <1>5, <1>6, <1>7, RestingIsServer
     DEF IInv, LinesAreComplete, EnvironFollowsFile, LimiterFollowsConfig, NothingReadYet,
         AloneIsCurrent, Busy

-----------------------------------------------------------------------------
(* Each action keeps it. *)

(* A request is accepted. *)
LEMMA AcceptStep ==
    ASSUME IInv, NEW update \in Update, Accept(update)
    PROVE  IInv'
<1> DEFINE s == [Resting EXCEPT !.pc = "open", !.update = update]
<1>1. s \in Server /\ s.pc = "open" /\ s.read = <<>>
  BY RestingIsServer DEF Server, Resting
<1>2. /\ server' = s /\ server.pc = "idle" /\ updates' = updates + 1
      /\ UNCHANGED <<supplied, envFile, torn, environ, cache, config, limiter, thread,
                     overlap, faults>>
  BY DEF Accept, files, memory
<1> HIDE DEF s
<1>3. TypeOK'
  BY <1>1, <1>2 DEF IInv, TypeOK, Parses
<1>4. ResultsParse'
  BY <1>1, <1>2, RestingIsServer DEF IInv, ResultsParse, Parses, WellRead
<1>5. EnvironFollowsFile' /\ LimiterFollowsConfig' /\ LinesAreComplete' /\ NothingReadYet'
  BY <1>1, <1>2 DEF IInv, EnvironFollowsFile, FollowsLine, LimiterFollowsConfig,
     LinesAreComplete, NothingReadYet
<1>6. AloneIsCurrent'
  BY <1>1, <1>2 DEF IInv, AloneIsCurrent, Busy, Parses
<1> QED
  BY <1>3, <1>4, <1>5, <1>6 DEF IInv

(* The two halves of update_env_file. *)
LEMMA OpenEnvFileStep ==
    ASSUME IInv, OpenEnvFile
    PROVE  IInv'
<1> DEFINE s == [server EXCEPT !.pc = "write", !.lines = envFile]
<1>1. /\ s \in Server /\ s.pc = "write" /\ s.read = server.read
      /\ s.lines = envFile
  BY DEF IInv, TypeOK, Server
<1>2. /\ server' = s /\ server.pc = "open" /\ envFile' = [k \in Keys |-> Missing]
      /\ UNCHANGED <<supplied, torn, environ, cache, config, limiter, thread, overlap,
                     updates, faults>>
  BY DEF OpenEnvFile, memory
<1> HIDE DEF s
<1>3. envFile' \in Settings
  BY <1>2, FieldsAreKeys DEF Settings
<1>4. TypeOK'
  BY <1>1, <1>2, <1>3 DEF IInv, TypeOK, Parses
<1>5. ResultsParse'
  BY <1>1, <1>2 DEF IInv, ResultsParse, Parses, WellRead
<1>6. EnvironFollowsFile'
  BY <1>1, <1>2 DEF IInv, EnvironFollowsFile, FollowsLine
<1>7. LimiterFollowsConfig' /\ LinesAreComplete' /\ NothingReadYet'
  BY <1>1, <1>2 DEF IInv, LimiterFollowsConfig, LinesAreComplete, NothingReadYet, TypeOK
<1>8. AloneIsCurrent'
  BY <1>1, <1>2 DEF IInv, AloneIsCurrent, Busy, Parses
<1> QED
  BY <1>4, <1>5, <1>6, <1>7, <1>8 DEF IInv

(* What is to be written. *)
LEMMA RewrittenType ==
    ASSUME IInv, server.pc = "write"
    PROVE  /\ DOMAIN server.update \subseteq Keys
           /\ Rewritten(server.update) \in Settings
           /\ \A k \in Keys : Rewritten(server.update)[k] =
                  IF k \in DOMAIN server.update THEN server.update[k] ELSE server.lines[k]
<1>1. \E K \in SUBSET Keys : server.update \in [K -> Texts]
  BY DEF IInv, TypeOK, Server, Update
<1>2. DOMAIN server.update \subseteq Keys
      /\ \A k \in DOMAIN server.update : server.update[k] \in Line
  BY <1>1 DEF Line
<1>3. server.lines \in Settings
  BY DEF IInv, LinesAreComplete
<1> QED
  BY <1>2, <1>3 DEF Rewritten, Settings

LEMMA WriteEnvFileStep ==
    ASSUME IInv, WriteEnvFile
    PROVE  IInv'
<1> DEFINE s == [server EXCEPT !.pc = "environ", !.todo = DOMAIN server.update]
<1>1. server.pc = "write"
  BY DEF WriteEnvFile, Written
<1>2. /\ DOMAIN server.update \subseteq Keys /\ Rewritten(server.update) \in Settings
      /\ \A k \in Keys : Rewritten(server.update)[k] =
             IF k \in DOMAIN server.update THEN server.update[k] ELSE server.lines[k]
  BY <1>1, RewrittenType
<1>3. /\ s \in Server /\ s.pc = "environ" /\ s.read = server.read
      /\ s.update = server.update /\ s.todo = DOMAIN server.update
  BY <1>2 DEF IInv, TypeOK, Server
<1>4. /\ server' = s /\ envFile' = Rewritten(server.update)
      /\ torn' = torn \ DOMAIN server.update
      /\ UNCHANGED <<supplied, environ, cache, config, limiter, thread, overlap, updates, faults>>
  BY DEF WriteEnvFile, Written, memory
<1> HIDE DEF s
<1>5. \A k \in Keys : FollowsLine(k, server.lines[k])
  BY <1>1 DEF IInv, EnvironFollowsFile
<1>6. TypeOK'
  BY <1>2, <1>3, <1>4 DEF IInv, TypeOK, Parses
<1>7. ResultsParse'
  BY <1>3, <1>4 DEF IInv, ResultsParse, Parses, WellRead
<1>8. EnvironFollowsFile'
  <2>1. ASSUME NEW k \in Keys, k \notin DOMAIN server.update
        PROVE  FollowsLine(k, envFile[k])'
    BY <1>2, <1>4, <1>5, <2>1 DEF FollowsLine
  <2> QED
    BY <1>2, <1>3, <1>4, <2>1 DEF EnvironFollowsFile
<1>9. LimiterFollowsConfig' /\ LinesAreComplete' /\ NothingReadYet'
  BY <1>1, <1>3, <1>4 DEF IInv, LimiterFollowsConfig, LinesAreComplete, NothingReadYet
<1>10. AloneIsCurrent'
  BY <1>3, <1>4 DEF IInv, AloneIsCurrent, Busy
<1> QED
  BY <1>6, <1>7, <1>8, <1>9, <1>10 DEF IInv

(* The write fails: the lines that changed or were to change are torn.      *)
LEMMA WriteFailsStep ==
    ASSUME IInv, NEW n \in 0 .. Len(Fields), NEW rest \in Line, WriteFails(n, rest)
    PROVE  IInv'
<1>1. /\ server.pc = "write" /\ server' = Resting /\ faults' = faults + 1
      /\ envFile' = CutOff(Rewritten(server.update), n, rest)
      /\ torn' = torn \cup DOMAIN server.update
                      \cup {k \in Keys : envFile'[k] # server.lines[k]}
      /\ UNCHANGED <<supplied, environ, cache, config, limiter, thread, overlap, updates>>
  BY DEF WriteFails, memory
<1>2. DOMAIN server.update \subseteq Keys /\ Rewritten(server.update) \in Settings
  BY <1>1, RewrittenType
<1>3. envFile' \in Settings
  <2>1. \A lines \in Settings : CutOff(lines, n, rest) \in Settings
    BY FieldsAreKeys DEF CutOff, Settings
  <2> QED
    BY <1>1, <1>2, <2>1
<1>4. \A k \in Keys : FollowsLine(k, server.lines[k])
  BY <1>1 DEF IInv, EnvironFollowsFile
<1>5. \A k \in Keys : FollowsLine(k, envFile[k])'
  BY <1>1, <1>4 DEF FollowsLine
<1>6. TypeOK'
  BY <1>1, <1>2, <1>3, RestingIsServer DEF IInv, TypeOK, Parses
<1>7. ResultsParse'
  BY <1>1, RestingIsServer DEF IInv, ResultsParse, Parses, WellRead
<1>8. EnvironFollowsFile' /\ LimiterFollowsConfig' /\ LinesAreComplete' /\ NothingReadYet'
  BY <1>1, <1>5, RestingIsServer DEF IInv, EnvironFollowsFile, LimiterFollowsConfig,
     LinesAreComplete, NothingReadYet
<1>9. AloneIsCurrent'
  BY <1>1, RestingIsServer DEF IInv, AloneIsCurrent, Busy, Parses
<1> QED
  BY <1>6, <1>7, <1>8, <1>9 DEF IInv

(* os.environ.update sets one key. *)
LEMMA SetEnvironStep ==
    ASSUME IInv, NEW k \in Keys, SetEnviron(k)
    PROVE  IInv'
<1> DEFINE s == [server EXCEPT !.todo = @ \ {k},
                               !.pc = IF server.todo = {k} THEN "clear" ELSE "environ"]
<1>1. \E K \in SUBSET Keys : server.update \in [K -> Texts]
  BY DEF IInv, TypeOK, Server, Update
<1>2. server.pc = "environ" /\ k \in server.todo /\ k \in DOMAIN server.update
  BY DEF SetEnviron, IInv, EnvironFollowsFile
<1>3. server.update[k] \in Line
  BY <1>1, <1>2 DEF Line
<1>4. /\ s \in Server /\ s.pc \in {"environ", "clear"} /\ s.read = server.read
      /\ s.update = server.update /\ s.todo = server.todo \ {k}
      /\ s.pc = "clear" => server.todo = {k}
  BY DEF IInv, TypeOK, Server
<1>5. /\ server' = s /\ environ' = [environ EXCEPT ![k] = server.update[k]]
      /\ UNCHANGED <<supplied, envFile, torn, cache, config, limiter, thread, overlap,
                     updates, faults>>
  BY DEF SetEnviron, files
<1> HIDE DEF s
<1>6. TypeOK'
  BY <1>3, <1>4, <1>5 DEF IInv, TypeOK, Parses, Settings
<1>7. ResultsParse'
  BY <1>4, <1>5 DEF IInv, ResultsParse, Parses, WellRead
<1>8. EnvironFollowsFile'
  <2>1. \A q \in Keys : IF q \in server.todo THEN envFile[q] = server.update[q]
                        ELSE FollowsLine(q, envFile[q])
    BY <1>2 DEF IInv, EnvironFollowsFile
  <2>2. \A q \in Keys : environ'[q] = IF q = k THEN server.update[k] ELSE environ[q]
    BY <1>5 DEF IInv, TypeOK, Settings
  <2>3. ASSUME NEW q \in Keys, q \notin s.todo
        PROVE  FollowsLine(q, envFile[q])'
    BY <1>2, <1>4, <1>5, <2>1, <2>2, <2>3 DEF FollowsLine
  <2>4. \A q \in s.todo : envFile'[q] = server.update[q]
    BY <1>2, <1>4, <1>5, <2>1 DEF IInv, TypeOK, Server
  <2>5. s.todo \subseteq DOMAIN s.update /\ (s.pc = "clear" => s.todo = {})
    BY <1>2, <1>4 DEF IInv, EnvironFollowsFile
  <2> QED
    BY <1>4, <1>5, <2>3, <2>4, <2>5 DEF EnvironFollowsFile
<1>9. LimiterFollowsConfig' /\ LinesAreComplete' /\ NothingReadYet' /\ AloneIsCurrent'
  BY <1>2, <1>4, <1>5 DEF IInv, LimiterFollowsConfig, LinesAreComplete, NothingReadYet,
     AloneIsCurrent, Busy
<1> QED
  BY <1>6, <1>7, <1>8, <1>9 DEF IInv

(* get_settings.cache_clear(), and the lookup of the handler. *)
LEMMA LookupStep ==
    ASSUME IInv, ClearCache \/ GetCached
    PROVE  IInv'
<1>1. CASE ClearCache
  <2>1. /\ server' \in Server /\ server'.pc = "get" /\ server'.read = server.read
        /\ server.pc = "clear" /\ cache' = NoSettings
        /\ overlap' = \E t \in Threads : Busy(t)
        /\ UNCHANGED <<supplied, envFile, torn, environ, config, limiter, thread, updates, faults>>
    BY <1>1 DEF ClearCache, IInv, TypeOK, Server, files
  <2>2. overlap' \in BOOLEAN
    BY <2>1
  <2>3. TypeOK' /\ ResultsParse'
    BY <2>1, <2>2 DEF IInv, TypeOK, ResultsParse, Parses, WellRead
  <2> QED
    BY <2>1, <2>3 DEF IInv, EnvironFollowsFile, FollowsLine, LimiterFollowsConfig,
       LinesAreComplete, NothingReadYet, AloneIsCurrent, Busy
<1>2. CASE GetCached /\ cache = NoSettings
  <2>1. /\ server' \in Server /\ server'.pc = "load" /\ server'.read = server.read
        /\ server.pc = "get"
        /\ UNCHANGED <<supplied, envFile, torn, environ, cache, config, limiter, thread,
                       overlap, updates, faults>>
    BY <1>2 DEF GetCached, IInv, TypeOK, Server, files, memory
  <2>2. TypeOK' /\ ResultsParse'
    BY <2>1 DEF IInv, TypeOK, ResultsParse, Parses, WellRead
  <2> QED
    BY <1>2, <2>1, <2>2 DEF IInv, EnvironFollowsFile, FollowsLine, LimiterFollowsConfig,
       LinesAreComplete, NothingReadYet, AloneIsCurrent, Busy
<1>3. CASE GetCached /\ cache # NoSettings
  <2>1. /\ server' \in Server /\ server'.pc = "config" /\ server'.read = server.read
        /\ server'.result = cache /\ server.pc = "get"
        /\ UNCHANGED <<supplied, envFile, torn, environ, cache, config, limiter, thread,
                       overlap, updates, faults>>
    BY <1>3 DEF GetCached, IInv, TypeOK, Server, files, memory
  <2>2. cache \in Settings /\ Parses(cache)
    BY <1>3 DEF IInv, TypeOK, ResultsParse
  <2>3. TypeOK' /\ ResultsParse'
    BY <2>1, <2>2 DEF IInv, TypeOK, ResultsParse, Parses, WellRead
  <2> QED
    BY <1>3, <2>1, <2>3 DEF IInv, EnvironFollowsFile, FollowsLine, LimiterFollowsConfig,
       LinesAreComplete, NothingReadYet, AloneIsCurrent, Busy
<1> QED
  BY <1>1, <1>2, <1>3

(* The handler loads .env before it reads anything. *)
LEMMA LoadSettingsStep ==
    ASSUME IInv, LoadSettings
    PROVE  IInv'
<1>1. /\ server' \in Server /\ server'.pc = "read" /\ server'.read = server.read
      /\ server.pc = "load" /\ server.read = <<>>
      /\ environ' = Loaded(environ, envFile)
      /\ UNCHANGED <<supplied, envFile, torn, cache, config, limiter, thread, overlap,
                     updates, faults>>
  BY DEF LoadSettings, IInv, TypeOK, Server, files, NothingReadYet
<1>2. /\ environ' \in Settings
      /\ \A k \in Keys : FollowsLine(k, envFile[k]) => FollowsLine(k, envFile[k])'
  BY <1>1, LoadKeepsFollowing DEF files
<1>3. TypeOK' /\ ResultsParse'
  BY <1>1, <1>2 DEF IInv, TypeOK, ResultsParse, Parses, WellRead
<1>4. EnvironFollowsFile'
  BY <1>1, <1>2 DEF IInv, EnvironFollowsFile
<1> QED
  BY <1>1, <1>3, <1>4 DEF IInv, LimiterFollowsConfig, LinesAreComplete, NothingReadYet,
     AloneIsCurrent, Busy

(* get_settings reads one more field, or raises. *)
LEMMA ReadSettingStep ==
    ASSUME IInv, ReadSetting
    PROVE  IInv'
<1>1. /\ server.pc = "read" /\ ~ReadAll(server.read)
      /\ server.read \in Seq(Line) /\ WellRead(server.read)
      /\ UNCHANGED <<supplied, envFile, torn, environ, cache, config, limiter, thread,
                     overlap, updates, faults>>
  BY DEF ReadSetting, memory, files, IInv, TypeOK, ResultsParse, Server
<1>2. CASE Raises(server.read)
  <2>1. server' = Resting
    BY <1>2 DEF ReadSetting
  <2>2. ~Parses(environ)
    BY <1>1, <1>2, NextFieldRead DEF IInv
  <2>3. TypeOK' /\ ResultsParse'
    BY <1>1, <2>1, RestingIsServer DEF IInv, TypeOK, ResultsParse, Parses, WellRead
  <2>4. EnvironFollowsFile' /\ LimiterFollowsConfig' /\ LinesAreComplete' /\ NothingReadYet'
    BY <1>1, <2>1, RestingIsServer DEF IInv, EnvironFollowsFile, FollowsLine,
       LimiterFollowsConfig, LinesAreComplete, NothingReadYet
  <2>5. AloneIsCurrent'
    BY <1>1, <2>1, <2>2, RestingIsServer DEF IInv, AloneIsCurrent, Busy, Parses
  <2> QED
    BY <2>3, <2>4, <2>5 DEF IInv
<1>3. CASE ~Raises(server.read)
  <2> DEFINE more == Append(server.read, environ[NextField(server.read)])
  <2>1. more \in Seq(Line) /\ WellRead(more)
    BY <1>1, <1>3, NextFieldRead DEF IInv
  <2>2. server' = [server EXCEPT !.read = more]
    BY <1>3 DEF ReadSetting
  <2>3. \A i \in DOMAIN more : IF i \in DOMAIN server.read THEN more[i] = server.read[i]
                               ELSE more[i] = environ[Fields[i]]
    BY <1>1 DEF NextField
  <2> HIDE DEF more
  <2>4. server' \in Server /\ server'.pc = "read" /\ server'.read = more
    BY <1>1, <2>1, <2>2 DEF IInv, TypeOK, Server
  <2>5. TypeOK' /\ ResultsParse'
    BY <1>1, <2>1, <2>4 DEF IInv, TypeOK, ResultsParse, Parses, WellRead
  <2>6. AloneIsCurrent'
    BY <1>1, <2>3, <2>4 DEF IInv, AloneIsCurrent, Busy
  <2> QED
    BY <1>1, <2>4, <2>5, <2>6 DEF IInv, EnvironFollowsFile, FollowsLine,
       LimiterFollowsConfig, LinesAreComplete, NothingReadYet
<1> QED
  BY <1>2, <1>3

(* The handler stores what it has read. *)
LEMMA StoreSettingsStep ==
    ASSUME IInv, StoreSettings
    PROVE  IInv'
<1> DEFINE result == SettingsOf(server.read)
<1>1. /\ server.pc = "read" /\ cache' = Keep(result)
      /\ server' = [server EXCEPT !.pc = "config", !.result = result]
      /\ UNCHANGED <<supplied, envFile, torn, environ, config, limiter, thread, overlap,
                     updates, faults>>
  BY DEF StoreSettings, files
<1>2. /\ server.read \in Seq(Line)
      /\ ReadAll(server.read) /\ WellRead(server.read)
  BY DEF StoreSettings, IInv, TypeOK, ResultsParse, Server
<1>3. /\ result \in Settings /\ Parses(result)
      /\ (\A i \in DOMAIN server.read : server.read[i] = environ[Fields[i]]) => result = environ
  BY <1>2, SettingsFromFields DEF IInv, TypeOK
<1> HIDE DEF result
<1>4. cache' \in Settings /\ Parses(cache') /\ (cache = NoSettings => cache' = result)
  BY <1>1, <1>3 DEF Keep, IInv, TypeOK, ResultsParse
<1>5. /\ server' \in Server /\ server'.pc = "config" /\ server'.read = server.read
      /\ server'.result = result
  BY <1>1, <1>3 DEF IInv, TypeOK, Server
<1>6. TypeOK' /\ ResultsParse'
  BY <1>1, <1>3, <1>4, <1>5 DEF IInv, TypeOK, ResultsParse, Parses, WellRead
<1>7. AloneIsCurrent'
  BY <1>1, <1>3, <1>4, <1>5 DEF IInv, AloneIsCurrent, Busy
<1> QED
  BY <1>1, <1>5, <1>6, <1>7 DEF IInv, EnvironFollowsFile, FollowsLine, LimiterFollowsConfig,
     LinesAreComplete, NothingReadYet

(* rebuild_runtime_state. *)
LEMMA RebuildStep ==
    ASSUME IInv, ReplaceConfig \/ ReplaceLimiter
    PROVE  IInv'
<1>1. CASE ReplaceConfig
  <2>1. server.result \in Settings /\ Parses(server.result)
    BY <1>1 DEF ReplaceConfig, IInv, ResultsParse
  <2>2. /\ server' \in Server /\ server'.pc = "limiter" /\ server'.read = server.read
        /\ server'.result = server.result /\ server.pc = "config" /\ config' = server.result
        /\ server'.rebuild = (config[LimiterKey] # server.result[LimiterKey])
        /\ UNCHANGED <<supplied, envFile, torn, environ, cache, limiter, thread, overlap,
                       updates, faults>>
    BY <1>1 DEF ReplaceConfig, IInv, TypeOK, Server, files
  <2>3. TypeOK' /\ ResultsParse'
    BY <2>1, <2>2 DEF IInv, TypeOK, ResultsParse, Parses, WellRead
  <2> QED
    BY <2>2, <2>3 DEF IInv, EnvironFollowsFile, FollowsLine, LimiterFollowsConfig,
       LinesAreComplete, NothingReadYet, AloneIsCurrent, Busy
<1>2. CASE ReplaceLimiter
  <2>1. /\ server' = Resting /\ server.pc = "limiter"
        /\ limiter' = IF server.rebuild THEN config[LimiterKey] ELSE limiter
        /\ UNCHANGED <<supplied, envFile, torn, environ, cache, config, thread, overlap,
                       updates, faults>>
    BY <1>2 DEF ReplaceLimiter, files
  <2>2. limiter' = config[LimiterKey] /\ limiter' \in Line
    BY <2>1, FieldsAreKeys DEF IInv, LimiterFollowsConfig, TypeOK, Settings
  <2>3. TypeOK' /\ ResultsParse'
    BY <2>1, <2>2, RestingIsServer DEF IInv, TypeOK, ResultsParse, Parses, WellRead
  <2> QED
    BY <2>1, <2>2, <2>3, RestingIsServer DEF IInv, EnvironFollowsFile, FollowsLine,
       LimiterFollowsConfig, LinesAreComplete, NothingReadYet, AloneIsCurrent, Busy
<1> QED
  BY <1>1, <1>2

(* A call of get_settings in a thread touches the thread and the cache. *)
LEMMA ThreadStep ==
    ASSUME IInv, NEW t \in Threads, NEW call \in Call, WellRead(call.read),
           thread' = [thread EXCEPT ![t] = call],
           overlap' \in BOOLEAN, overlap',
           cache' = cache \/ (cache' \in Settings /\ Parses(cache')),
           UNCHANGED <<files, environ, config, limiter, server, updates, faults>>
    PROVE  IInv'
<1>1. thread' \in [Threads -> Call] /\ \A u \in Threads : WellRead(thread'[u].read)
  BY DEF IInv, TypeOK, ResultsParse
<1>2. UNCHANGED <<supplied, envFile, torn>>
  BY DEF files
<1>3. TypeOK' /\ ResultsParse'
  BY <1>1, <1>2 DEF IInv, TypeOK, ResultsParse, Parses, WellRead
<1>4. AloneIsCurrent'
  BY DEF AloneIsCurrent
<1> QED
  BY <1>2, <1>3, <1>4 DEF IInv, EnvironFollowsFile, FollowsLine, LimiterFollowsConfig,
     LinesAreComplete, NothingReadYet

(* A thread loads .env; a handler that is writing is not disturbed.         *)
LEMMA LoadStep ==
    ASSUME IInv, NEW t \in Threads, Load(t)
    PROVE  IInv'
<1>1. /\ thread[t] \in Call /\ thread[t].pc = "load" /\ overlap
      /\ WellRead(thread[t].read)
  BY DEF Load, IInv, TypeOK, ResultsParse, AloneIsCurrent, Busy
<1> DEFINE call == [thread[t] EXCEPT !.pc = "read"]
<1>2. call \in Call /\ call.read = thread[t].read
  BY <1>1 DEF Call
<1>3. /\ thread' = [thread EXCEPT ![t] = call] /\ environ' = Loaded(environ, envFile)
      /\ UNCHANGED <<supplied, envFile, torn, cache, config, limiter, server, overlap,
                     updates, faults>>
  BY DEF Load, files
<1> HIDE DEF call
<1>4. environ' \in Settings
  BY <1>3, LoadedType DEF IInv, TypeOK
<1>5. thread' \in [Threads -> Call] /\ \A u \in Threads : WellRead(thread'[u].read)
  BY <1>1, <1>2, <1>3 DEF IInv, TypeOK, ResultsParse
<1>6. TypeOK' /\ ResultsParse'
  BY <1>3, <1>4, <1>5 DEF IInv, TypeOK, ResultsParse, Parses, WellRead
<1>7. EnvironFollowsFile'
  <2>1. CASE server.pc = "down"
    BY <1>3, <2>1 DEF EnvironFollowsFile
  <2>2. CASE server.pc # "down"
    <3>1. /\ \A k \in Keys : FollowsLine(k, envFile[k]) => FollowsLine(k, envFile[k])'
          /\ server.pc = "write" => environ' = environ
      BY <1>3, <2>2, LoadKeepsFollowing DEF files
    <3>2. server.pc = "write" =>
             \A k \in Keys : FollowsLine(k, server.lines[k]) => FollowsLine(k, server.lines[k])'
      BY <1>3, <3>1 DEF FollowsLine
    <3> QED
      BY <1>3, <2>2, <3>1, <3>2 DEF IInv, EnvironFollowsFile
  <2> QED
    BY <2>1, <2>2
<1> QED
  BY <1>1, <1>3, <1>6, <1>7 DEF IInv, LimiterFollowsConfig, LinesAreComplete, NothingReadYet,
     AloneIsCurrent

(* The process stops, and starts again. *)
LEMMA CrashStep ==
    ASSUME IInv, Crash
    PROVE  IInv'
<1>1. /\ server' = [Resting EXCEPT !.pc = "down"] /\ thread' = [t \in Threads |-> NoCall]
      /\ UNCHANGED <<supplied, envFile, torn, environ, cache, config, limiter, updates>>
      /\ overlap' = FALSE /\ faults' = faults + 1
  BY DEF Crash, files, memory
<1>2. \A t \in Threads : thread'[t] = NoCall
  BY <1>1
<1>3. TypeOK'
  <2>1. thread' \in [Threads -> Call] /\ overlap' \in BOOLEAN
    BY <1>1, RestingIsServer
  <2>2. faults' \in Nat
    BY <1>1 DEF IInv, TypeOK
  <2> QED
    BY <1>1, <2>1, <2>2, RestingIsServer DEF IInv, TypeOK, Parses
<1>4. ResultsParse'
  BY <1>1, <1>2, RestingIsServer DEF IInv, ResultsParse, Parses, WellRead
<1>5. EnvironFollowsFile' /\ LimiterFollowsConfig' /\ LinesAreComplete' /\ NothingReadYet'
  BY <1>1, RestingIsServer DEF EnvironFollowsFile, LimiterFollowsConfig, LinesAreComplete,
     NothingReadYet
<1>6. AloneIsCurrent'
  BY <1>1, <1>2, RestingIsServer DEF AloneIsCurrent, Busy
<1> QED
  BY <1>3, <1>4, <1>5, <1>6 DEF IInv

LEMMA RestartStep ==
    ASSUME IInv, Restart
    PROVE  IInv'
<1>1. /\ server' = Resting /\ torn' = {}
      /\ UNCHANGED <<supplied, envFile, thread, overlap, updates, faults>>
      /\ environ' = Loaded(supplied, envFile) /\ Parses(Loaded(supplied, envFile))
      /\ cache' = environ' /\ config' = environ' /\ limiter' = environ'[LimiterKey]
  BY DEF Restart
<1>2. environ' \in Settings /\ limiter' \in Line
  <2>1. environ' \in Settings
    BY <1>1, LoadedType DEF IInv, TypeOK
  <2> QED
    BY <1>1, <2>1, FieldsAreKeys DEF Settings
<1>3. ASSUME NEW k \in Keys PROVE FollowsLine(k, envFile[k])'
  <2>1. environ'[k] = IF supplied[k] = Missing THEN LoadDotenv(envFile)[k] ELSE supplied[k]
    BY <1>1, LoadedType DEF IInv, TypeOK
  <2>2. envFile[k] \in Plain => LoadDotenv(envFile)[k] \in {envFile[k], Missing}
    BY LoadDotenvAssumption DEF LoadDotenvAssumption, IInv, TypeOK
  <2> QED
    BY <1>1, <2>1, <2>2 DEF FollowsLine
<1>4. TypeOK'
  BY <1>1, <1>2, RestingIsServer DEF IInv, TypeOK, Parses
<1>5. ResultsParse'
  BY <1>1, RestingIsServer DEF IInv, ResultsParse, Parses, WellRead
<1>6. EnvironFollowsFile' /\ LimiterFollowsConfig' /\ LinesAreComplete' /\ NothingReadYet'
  BY <1>1, <1>3, RestingIsServer DEF EnvironFollowsFile, LimiterFollowsConfig,
     LinesAreComplete, NothingReadYet
<1>7. AloneIsCurrent'
  BY <1>1, RestingIsServer DEF IInv, AloneIsCurrent, Busy
<1> QED
  BY <1>4, <1>5, <1>6, <1>7 DEF IInv

(* Every step of the specification keeps the invariant. *)
LEMMA StepIInv == IInv /\ [Next]_vars => IInv'
<1> SUFFICES ASSUME IInv, [Next]_vars
             PROVE  IInv'
  OBVIOUS
<1>1. ASSUME NEW form \in [FormKeys -> Texts], UpdateSettings(form)
      PROVE  IInv'
  <2>1. form \in Update
    BY FieldsAreKeys DEF Update
  <2> QED
    BY <1>1, <2>1, AcceptStep DEF UpdateSettings
<1>2. ASSUME NEW hash \in Valid[PasswordKey], UpdatePassword(hash)
      PROVE  IInv'
  <2>1. hash \in Texts /\ {PasswordKey} \in SUBSET Keys
    BY FieldsAreKeys
  <2>2. [k \in {PasswordKey} |-> hash] \in [{PasswordKey} -> Texts]
    BY <2>1
  <2>3. [k \in {PasswordKey} |-> hash] \in Update
    <3> PICK f : f = [k \in {PasswordKey} |-> hash]
      OBVIOUS
    <3> QED
      BY <2>1, <2>2 DEF Update
  <2> QED
    BY <1>2, <2>3, AcceptStep DEF UpdatePassword
<1>3. ASSUME NEW t \in Threads, Miss(t)
      PROVE  IInv'
  <2>1. [thread[t] EXCEPT !.pc = "load"] \in Call
        /\ [thread[t] EXCEPT !.pc = "load"].read = thread[t].read
    BY DEF IInv, TypeOK, Call
  <2>2. thread' = [thread EXCEPT ![t] = [thread[t] EXCEPT !.pc = "load"]]
    BY <1>3 DEF Miss
  <2>3. WellRead(thread[t].read)
    BY DEF IInv, ResultsParse
  <2> QED
    BY <1>3, <2>1, <2>2, <2>3, ThreadStep DEF Miss, memory
<1>4. ASSUME NEW t \in Threads, ReadField(t)
      PROVE  IInv'
  <2>1. /\ thread[t] \in Call /\ thread[t].pc = "read" /\ overlap /\ ~ReadAll(thread[t].read)
        /\ thread[t].read \in Seq(Line) /\ WellRead(thread[t].read)
        /\ UNCHANGED <<files, environ, cache, config, limiter, server, overlap, updates, faults>>
    BY <1>4 DEF ReadField, memory, IInv, TypeOK, ResultsParse, AloneIsCurrent, Busy, Call
  <2>2. CASE Raises(thread[t].read)
    <3>1. thread' = [thread EXCEPT ![t] = NoCall]
      BY <1>4, <2>2 DEF ReadField
    <3> QED
      BY <2>1, <3>1, RestingIsServer, ThreadStep DEF IInv, TypeOK
  <2>3. CASE ~Raises(thread[t].read)
    <3> DEFINE more == Append(thread[t].read, environ[NextField(thread[t].read)])
               call == [thread[t] EXCEPT !.read = more]
    <3>1. more \in Seq(Line) /\ WellRead(more)
      BY <2>1, <2>3, NextFieldRead DEF IInv
    <3>2. thread' = [thread EXCEPT ![t] = call]
      BY <1>4, <2>3 DEF ReadField
    <3> HIDE DEF more
    <3>3. call \in Call /\ call.read = more
      BY <2>1, <3>1 DEF Call
    <3> HIDE DEF call
    <3> QED
      BY <2>1, <3>1, <3>2, <3>3, ThreadStep DEF IInv, TypeOK
  <2> QED
    BY <2>2, <2>3
<1>5. ASSUME NEW t \in Threads, Store(t)
      PROVE  IInv'
  <2> DEFINE result == SettingsOf(thread[t].read)
  <2>1. /\ thread[t].read \in Seq(Line) /\ overlap
        /\ ReadAll(thread[t].read) /\ WellRead(thread[t].read)
    BY <1>5 DEF Store, IInv, TypeOK, ResultsParse, AloneIsCurrent, Busy, Call
  <2>2. result \in Settings /\ Parses(result)
    BY <2>1, SettingsFromFields
  <2>3. cache' = Keep(result)
    BY <1>5 DEF Store
  <2> HIDE DEF result
  <2>4. cache' = cache \/ (cache' \in Settings /\ Parses(cache'))
    BY <2>2, <2>3 DEF Keep
  <2> QED
    BY <1>5, <2>1, <2>4, RestingIsServer, ThreadStep DEF Store, IInv, TypeOK
<1>6. CASE UNCHANGED vars
  BY <1>6 DEF vars, files, memory, IInv, TypeOK, ResultsParse, EnvironFollowsFile, FollowsLine,
     LimiterFollowsConfig, LinesAreComplete, NothingReadYet, AloneIsCurrent, Busy, Parses, WellRead
<1> QED
  BY <1>1, <1>2, <1>3, <1>4, <1>5, <1>6, OpenEnvFileStep, WriteEnvFileStep, WriteFailsStep,
     SetEnvironStep, LookupStep, LoadSettingsStep, ReadSettingStep, StoreSettingsStep,
     RebuildStep, LoadStep, CrashStep, RestartStep
     DEF Next, Handle

-----------------------------------------------------------------------------
(* The settings are typed in every reachable state, and get_settings could  *)
(* read those in use.                                                       *)
THEOREM TypeCorrect == Spec => []TypeOK
<1>1. IInv => TypeOK
  BY DEF IInv
<1> QED
  BY InitIInv, StepIInv, <1>1, PTL DEF Spec

(* Between updates a restart brings back no older text of a setting whose   *)
(* line is intact, whatever other lines say, what failed on the way and what*)
(* threads loaded meanwhile; and the text in use, if all lines read back.   *)
THEOREM RestartChangesNothing == Spec => []RestartIsTransparent
<1>1. ASSUME IInv, AtRest, NEW k \in Keys, FromEnvFile(k)
      PROVE  /\ Loaded(supplied, envFile)[k] \in {environ[k], Missing}
             /\ (\A q \in Keys : envFile[q] \in Plain) =>
                   Loaded(supplied, envFile)[k] = environ[k]
  <2>1. envFile[k] = environ[k]
    BY <1>1 DEF IInv, EnvironFollowsFile, FollowsLine, AtRest, FromEnvFile
  <2>2. Loaded(supplied, envFile)[k] = LoadDotenv(envFile)[k]
    BY <1>1, LoadedType DEF IInv, TypeOK, FromEnvFile
  <2>3. /\ LoadDotenv(envFile)[k] \in {envFile[k], Missing}
        /\ (\A q \in Keys : envFile[q] \in Plain) => LoadDotenv(envFile) = envFile
    BY <1>1, LoadDotenvAssumption DEF LoadDotenvAssumption, IInv, TypeOK, FromEnvFile
  <2> QED
    BY <2>1, <2>2, <2>3
<1>2. IInv => RestartIsTransparent
  BY <1>1 DEF RestartIsTransparent
<1> QED
  BY InitIInv, StepIInv, <1>2, PTL DEF Spec

(* Between updates the login limiter counts by the configuration in use,    *)
(* whatever threads store in the cache.                                     *)
THEOREM LimiterIsCurrent == Spec => []LimiterMatchesConfig
<1>1. IInv => LimiterMatchesConfig
  BY DEF IInv, LimiterFollowsConfig, LimiterMatchesConfig, AtRest
<1> QED
  BY InitIInv, StepIInv, <1>1, PTL DEF Spec

(* An update that no thread's call of get_settings overlaps is in all places*)
(* of the process when it is over, if what it set can be read.              *)
THEOREM SettledUpdateIsEverywhere == Spec => []SettledUpdateApplies
<1>1. IInv => SettledUpdateApplies
  BY DEF IInv, AloneIsCurrent, SettledUpdateApplies, AtRest
<1> QED
  BY InitIInv, StepIInv, <1>1, PTL DEF Spec
=============================================================================
