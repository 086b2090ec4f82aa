--------------------------- MODULE SettingsReload ---------------------------
(***************************************************************************)
(* The settings of the application and their change while it runs.         *)
(*                                                                         *)
(*   app/services/admin_settings_service.py   apply_settings_update,       *)
(*                                            apply_password_update        *)
(*   app/routers/admin.py          update_settings, update_password        *)
(*   app/core/config.py            get_settings, an lru_cache              *)
(*   app/core/runtime_config.py    rebuild_runtime_state                   *)
(*                                                                         *)
(* A setting is kept in four places: the file .env, os.environ, the cache  *)
(* of get_settings and app.state.config, to which the login limiter is     *)
(* tied.  The two handlers are coroutines without an await, so one of them *)
(* is at work at a time; the threads that serve requests and collect       *)
(* boundaries call get_settings between any two steps of it.               *)
(*                                                                         *)
(* A setting is a text.  What stands in a line of .env is not always what   *)
(* load_dotenv makes of it: _format_env_value quotes without escaping.      *)
(***************************************************************************)
EXTENDS Naturals, Sequences

CONSTANTS Fields,      \* the settings, in the order they are read and stand in .env
          FormKeys,    \* those of the form
          PasswordKey, \* ADMIN_PW_HASH
          LimiterKey,  \* what the login limiter is built from
          Texts,       \* texts of a setting, a blank one among them
          Missing,     \* no text: not in os.environ, no line in .env
          Plain,       \* what load_dotenv reads back as it was written
          LoadDotenv(_), \* what load_dotenv finds in a file
          Valid,       \* by key: what is accepted of an admin
          Readable,    \* by key: what get_settings does not raise for
          Starts,      \* what the process may be started with
          Threads,     \* threads that call get_settings
          MaxUpdates,  \* bound
          MaxFaults    \* bound: crashes and failed writes

Blank == ""

Keys == {Fields[i] : i \in DOMAIN Fields}

Line == Texts \cup {Missing}

(* The keys of os.environ, or of the lines of .env, with their texts. *)
Settings == [Keys -> Line]

(* load_dotenv sets what the environment lacks, and overrides nothing. *)
Loaded(environment, file) ==
    [k \in Keys |-> IF environment[k] = Missing THEN LoadDotenv(file)[k] ELSE environment[k]]

(* get_settings can be built from it. *)
Parses(settings) == \A k \in Keys : settings[k] \in Readable[k]

(* Whether a line is read back depends on the lines before it too: a quote  *)
(* that is not closed may swallow what follows.                             *)
ASSUME LoadDotenvAssumption ==
    \A file \in Settings :
        /\ LoadDotenv(file) \in Settings
        /\ \A k \in Keys : file[k] \in Plain => LoadDotenv(file)[k] \in {file[k], Missing}
        /\ (\A k \in Keys : file[k] \in Plain) => LoadDotenv(file) = file

(* supplied: by docker-compose.yml, which hands .env to the container; the  *)
(* image has no .env, nor is anything supplied to a process without it.     *)
ASSUME SettingsAssumption ==
    /\ Fields \in Seq(Keys) /\ LimiterKey \in Keys
    /\ FormKeys \subseteq Keys /\ PasswordKey \in Keys \ FormKeys
    /\ Blank \in Texts /\ Missing \notin Texts
    /\ Missing \in Plain /\ Plain \subseteq Line
    /\ \A k \in FormKeys \cup {PasswordKey} : Valid[k] \subseteq Texts
    /\ \A start \in Starts : /\ start.supplied \in Settings /\ start.file \in Settings
                             /\ Parses(Loaded(start.supplied, start.file))
    /\ MaxUpdates \in Nat /\ MaxFaults \in Nat

VARIABLES
    supplied,  \* the environment that the process is started with
    envFile,   \* .env
    environ,   \* os.environ
    cache,     \* the settings that get_settings returns, NoSettings if none
    config,    \* app.state.config
    limiter,   \* the parameters of app.state.login_limiter
    server,    \* the event loop
    thread,    \* calls of get_settings in threads
    torn,      \* history: keys that a failed write left unlike os.environ
    overlap,   \* history: a thread was at get_settings since the last cache_clear
    updates, faults

memory == <<environ, cache, config, limiter>>
files == <<supplied, envFile, torn>>
vars == <<files, memory, server, thread, overlap, updates, faults>>

-----------------------------------------------------------------------------
NoSettings == [k \in {} |-> Blank]

Update == UNION {[K -> Texts] : K \in SUBSET Keys}

(* update: the texts on their way; lines: what .env held; todo: the keys    *)
(* not yet in os.environ; read, result: get_settings                        *)
Server == [pc : {"down", "idle", "open", "write", "environ", "clear",
                 "get", "load", "read", "config", "limiter"},
           update : Update, lines : Settings \cup {NoSettings}, todo : SUBSET Keys,
           read : Seq(Line), result : Settings \cup {NoSettings}, rebuild : BOOLEAN]

Resting == [pc |-> "idle", update |-> NoSettings, lines |-> NoSettings, todo |-> {},
            read |-> <<>>, result |-> NoSettings, rebuild |-> FALSE]

(* A call that missed the cache, and what it has read so far. *)
Call == [pc : {"idle", "load", "read"}, read : Seq(Line)]

NoCall == [pc |-> "idle", read |-> <<>>]

Busy(t) == thread[t].pc # "idle"

Init ==
    /\ \E start \in Starts : supplied = start.supplied /\ envFile = start.file
    /\ environ = Loaded(supplied, envFile)
    /\ cache = environ /\ config = environ /\ limiter = environ[LimiterKey]
    /\ server = Resting
    /\ thread = [t \in Threads |-> NoCall]
    /\ torn = {} /\ overlap = FALSE
    /\ updates = 0 /\ faults = 0

-----------------------------------------------------------------------------
(* get_settings: .env is loaded, and the settings are built field by field  *)
(* from os.environ.                                                         *)

SettingsOf(read) == [k \in Keys |-> read[CHOOSE i \in DOMAIN Fields : Fields[i] = k]]

ReadAll(read) == Len(read) = Len(Fields)

NextField(read) == Fields[Len(read) + 1]

Raises(read) == environ[NextField(read)] \notin Readable[NextField(read)]

(* lru_cache: what another call has stored in the meantime is kept. *)
Keep(settings) == IF cache = NoSettings THEN settings ELSE cache

-----------------------------------------------------------------------------
(* The handlers.  A rejected request (token, password, validation) changes  *)
(* nothing; the password handler refuses an empty password itself.          *)

ValidateUpdates(form) == \A k \in FormKeys : form[k] \in Valid[k]

Accept(update) ==
    /\ server.pc = "idle" /\ updates < MaxUpdates
    /\ updates' = updates + 1
    /\ server' = [Resting EXCEPT !.pc = "open", !.update = update]
    /\ UNCHANGED <<files, memory, thread, overlap, faults>>

UpdateSettings(form) == ValidateUpdates(form) /\ Accept(form)

UpdatePassword(hash) == Accept([k \in {PasswordKey} |-> hash])

(* update_env_file: the lines are read and the file is emptied, ... *)
OpenEnvFile ==
    /\ server.pc = "open"
    /\ envFile' = [k \in Keys |-> Missing]
    /\ server' = [server EXCEPT !.pc = "write", !.lines = envFile]
    /\ UNCHANGED <<supplied, torn, memory, thread, overlap, updates, faults>>

(* The lines of the keys in the update are replaced or added. *)
Rewritten(update) ==
    [k \in Keys |-> IF k \in DOMAIN update THEN update[k] ELSE server.lines[k]]

Written(update) ==
    /\ server.pc = "write"
    /\ envFile' = Rewritten(update)
    /\ torn' = torn \ DOMAIN server.update
    /\ server' = [server EXCEPT !.pc = "environ", !.todo = DOMAIN server.update]
    /\ UNCHANGED <<supplied, memory, thread, overlap, updates, faults>>

(* Variant: a blank text is not written. *)
WriteNonBlank ==
    LET blank == {k \in DOMAIN server.update : server.update[k] = Blank}
    IN  Written([k \in DOMAIN server.update \ blank |-> server.update[k]])

(* ... and the new lines are written. *)
WriteEnvFile == Written(server.update)

(* The first n lines, what the write left of the next one, and no more. *)
CutOff(lines, n, rest) ==
    LET before(m) == {Fields[i] : i \in {j \in DOMAIN Fields : j <= m}}
    IN  [k \in Keys |-> IF lines[k] = Missing \/ k \in before(n) THEN lines[k]
                        ELSE IF k \in before(n + 1) THEN rest ELSE Missing]

(* The write fails on the way (a full disk): the handler ends with an error *)
(* and has set nothing in os.environ.                                       *)
WriteFails(n, rest) ==
    /\ server.pc = "write" /\ faults < MaxFaults
    /\ envFile' = CutOff(Rewritten(server.update), n, rest)
    /\ torn' = torn \cup DOMAIN server.update
                    \cup {k \in Keys : envFile'[k] # server.lines[k]}
    /\ server' = Resting
    /\ faults' = faults + 1
    /\ UNCHANGED <<supplied, memory, thread, overlap, updates>>

(* os.environ.update, one key after the other. *)
SetEnviron(k) ==
    /\ server.pc = "environ" /\ k \in server.todo
    /\ environ' = [environ EXCEPT ![k] = server.update[k]]
    /\ server' = [server EXCEPT !.todo = @ \ {k},
                                !.pc = IF server.todo = {k} THEN "clear" ELSE "environ"]
    /\ UNCHANGED <<files, cache, config, limiter, thread, overlap, updates, faults>>

(* Variant: the cache is left alone. *)
SkipClear ==
    /\ server.pc = "clear"
    /\ server' = [server EXCEPT !.pc = "get"]
    /\ UNCHANGED <<files, memory, thread, overlap, updates, faults>>

ClearCache ==
    /\ server.pc = "clear"
    /\ cache' = NoSettings
    /\ overlap' = \E t \in Threads : Busy(t)
    /\ server' = [server EXCEPT !.pc = "get"]
    /\ UNCHANGED <<files, environ, config, limiter, thread, updates, faults>>

(* get_settings(), called by the handler for rebuild_runtime_state: the     *)
(* cached settings, or those of .env and os.environ, ...                    *)
GetCached ==
    /\ server.pc = "get"
    /\ server' = IF cache = NoSettings THEN [server EXCEPT !.pc = "load"]
                 ELSE [server EXCEPT !.pc = "config", !.result = cache]
    /\ UNCHANGED <<files, memory, thread, overlap, updates, faults>>

LoadSettings ==
    /\ server.pc = "load"
    /\ environ' = Loaded(environ, envFile)
    /\ server' = [server EXCEPT !.pc = "read"]
    /\ UNCHANGED <<files, cache, config, limiter, thread, overlap, updates, faults>>

(* ... field by field; if one raises, the handler ends with an error.       *)
ReadSetting ==
    /\ server.pc = "read" /\ ~ReadAll(server.read)
    /\ server' = IF Raises(server.read) THEN Resting
                 ELSE [server EXCEPT !.read = Append(@, environ[NextField(@)])]
    /\ UNCHANGED <<files, memory, thread, overlap, updates, faults>>

StoreSettings ==
    /\ server.pc = "read" /\ ReadAll(server.read)
    /\ cache' = Keep(SettingsOf(server.read))
    /\ server' = [server EXCEPT !.pc = "config", !.result = SettingsOf(server.read)]
    /\ UNCHANGED <<files, environ, config, limiter, thread, overlap, updates, faults>>

(* Variant: the parameters are compared after the replacement. *)
ReplaceConfigFirst ==
    /\ server.pc = "config"
    /\ config' = server.result
    /\ server' = [server EXCEPT !.pc = "limiter",
                                !.rebuild = config'[LimiterKey] # server.result[LimiterKey]]
    /\ UNCHANGED <<files, environ, cache, limiter, thread, overlap, updates, faults>>

(* rebuild_runtime_state: the configuration, ... *)
ReplaceConfig ==
    /\ server.pc = "config"
    /\ config' = server.result
    /\ server' = [server EXCEPT !.pc = "limiter",
                                !.rebuild = config[LimiterKey] # server.result[LimiterKey]]
    /\ UNCHANGED <<files, environ, cache, limiter, thread, overlap, updates, faults>>

(* ... and a new limiter if its parameters changed. *)
ReplaceLimiter ==
    /\ server.pc = "limiter"
    /\ limiter' = IF server.rebuild THEN config[LimiterKey] ELSE limiter
    /\ server' = Resting
    /\ UNCHANGED <<files, environ, cache, config, thread, overlap, updates, faults>>

-----------------------------------------------------------------------------
(* A thread calls get_settings; a hit changes nothing. *)

Miss(t) ==
    /\ server.pc # "down" /\ ~Busy(t) /\ cache = NoSettings
    /\ thread' = [thread EXCEPT ![t].pc = "load"]
    /\ overlap' = TRUE
    /\ UNCHANGED <<files, memory, server, updates, faults>>

Load(t) ==
    /\ thread[t].pc = "load"
    /\ environ' = Loaded(environ, envFile)
    /\ thread' = [thread EXCEPT ![t].pc = "read"]
    /\ UNCHANGED <<files, cache, config, limiter, server, overlap, updates, faults>>

ReadField(t) ==
    /\ thread[t].pc = "read" /\ ~ReadAll(thread[t].read)
    /\ thread' = [thread EXCEPT ![t] =
                    IF Raises(thread[t].read) THEN NoCall
                    ELSE [thread[t] EXCEPT !.read = Append(@, environ[NextField(@)])]]
    /\ UNCHANGED <<files, memory, server, overlap, updates, faults>>

Store(t) ==
    /\ thread[t].pc = "read" /\ ReadAll(thread[t].read)
    /\ cache' = Keep(SettingsOf(thread[t].read))
    /\ thread' = [thread EXCEPT ![t] = NoCall]
    /\ UNCHANGED <<files, environ, config, limiter, server, overlap, updates, faults>>

-----------------------------------------------------------------------------
(* The process stops.  It comes back with what it is supplied with and what *)
(* it finds in .env, or does not come up if that does not parse.            *)
Crash ==
    /\ server.pc # "down" /\ faults < MaxFaults
    /\ faults' = faults + 1
    /\ server' = [Resting EXCEPT !.pc = "down"]
    /\ thread' = [t \in Threads |-> NoCall]
    /\ overlap' = FALSE
    /\ UNCHANGED <<files, memory, updates>>

Restart ==
    /\ server.pc = "down" /\ Parses(Loaded(supplied, envFile))
    /\ environ' = Loaded(supplied, envFile)
    /\ cache' = environ' /\ config' = environ' /\ limiter' = environ'[LimiterKey]
    /\ server' = Resting
    /\ torn' = {}
    /\ UNCHANGED <<supplied, envFile, thread, overlap, updates, faults>>

Handle ==
    \/ \E form \in [FormKeys -> Texts] : UpdateSettings(form)
    \/ \E hash \in Valid[PasswordKey] : UpdatePassword(hash)
    \/ OpenEnvFile \/ WriteEnvFile
    \/ \E n \in 0 .. Len(Fields), rest \in Line : WriteFails(n, rest)
    \/ \E k \in Keys : SetEnviron(k)
    \/ ClearCache \/ GetCached \/ LoadSettings \/ ReadSetting \/ StoreSettings
    \/ ReplaceConfig \/ ReplaceLimiter

Next ==
    \/ Handle
    \/ \E t \in Threads : Miss(t) \/ Load(t) \/ ReadField(t) \/ Store(t)
    \/ Crash \/ Restart

Spec == Init /\ [][Next]_vars

-----------------------------------------------------------------------------
(* Every variable has its type; get_settings could read the configuration   *)
(* in use, since an update that cannot be read leaves the one before.       *)
TypeOK ==
    /\ supplied \in Settings /\ envFile \in Settings /\ environ \in Settings
    /\ config \in Settings /\ Parses(config)
    /\ cache \in Settings \cup {NoSettings}
    /\ limiter \in Line
    /\ server \in Server /\ thread \in [Threads -> Call]
    /\ torn \subseteq Keys /\ overlap \in BOOLEAN /\ updates \in Nat /\ faults \in Nat

AtRest == server.pc = "idle"

(* README.MD:158, docs/maintenance.md:285: what an admin submits is in .env *)
(* and in app.state.config at once.                                         *)
UpdatesApply == AtRest => config = LoadDotenv(envFile)

(* That much of it is kept: if what is in os.environ can be read and no     *)
(* thread was at get_settings since the cache was last cleared, the         *)
(* configuration and the cache are those of os.environ, also after updates  *)
(* that could not be written or read (admin.py:135,                         *)
(* admin_settings_service.py:163-165).                                      *)
SettledUpdateApplies ==
    (AtRest /\ ~overlap /\ Parses(environ)) => config = environ /\ cache = environ

(* Whatever threads store in the cache and whatever fails on the way, the   *)
(* login limiter in use counts by the configuration in use                  *)
(* (runtime_config.py:44-56).                                               *)
LimiterMatchesConfig == AtRest => limiter = config[LimiterKey]

(* The process has a text for the key that a restart is to find in .env:    *)
(* none is supplied, none was lost, and the line is one that reads back.    *)
FromEnvFile(k) ==
    /\ supplied[k] = Missing /\ environ[k] # Missing
    /\ k \notin torn /\ envFile[k] \in Plain

(* The order of writing .env and os.environ: a restart never brings back an *)
(* older text of such a key, and brings back the one in use unless the line *)
(* of another key is in the way (admin_settings_service.py:133,163-164).    *)
RestartIsTransparent ==
    AtRest =>
        \A k \in Keys : FromEnvFile(k) =>
            LET after == Loaded(supplied, envFile)[k]
            IN  /\ after \in {environ[k], Missing}
                /\ (\A q \in Keys : envFile[q] \in Plain) => after = environ[k]
=============================================================================
