-------------------------------- MODULE Startup --------------------------------
(***************************************************************************)
(* The life of a `sentinel-dns` process: the dispatcher (cli.py), and main *)
(* and serve of sentinel_dns/forwarder.py with the merging of settings in  *)
(* config.py.  Settings come from the command line and from a TOML file;   *)
(* main builds the parts they ask for, serve starts the query log, binds   *)
(* the socket and waits; Ctrl-C undoes this in its own order.  Any step    *)
(* that touches the outside may fail.  What `tail` and `explain` make of   *)
(* the log is in TailFollow and Explanation.                               *)
(***************************************************************************)
EXTENDS FiniteSets

CONSTANTS Words,        \* first words of a command line; "" if it is empty
          CliSettings,  \* bound: what the command line may set
          FileSettings, \* bound: what a TOML file may set
          None          \* Python's None

(* Paths and URLs are "given", "" or None; "." is what Path("") becomes.   *)
PathFields == {"model_path", "log_path"}
Defaults ==
    [enforce |-> FALSE, cached |-> TRUE, model_path |-> None, log_path |-> None,
     score_logging |-> TRUE, blocklist_url |-> None, upstream_doh_url |-> None]
Fields == DOMAIN Defaults

ASSUME CliAssumption ==
    \A s \in CliSettings : DOMAIN s \subseteq (Fields \cup {"quiet_scoring"}) \ {"score_logging"}

(* A TOML file may set anything, but a field to a value of its kind.       *)
ASSUME ValuesAssumption ==
    /\ None \notin {"", ".", "given"}
    /\ \A s \in CliSettings \cup FileSettings :
          /\ \A f \in DOMAIN s \cap (PathFields \cup {"blocklist_url"}) : s[f] \in {"", "given"}
          /\ "quiet_scoring" \in DOMAIN s => s["quiet_scoring"]

VARIABLES stage,   \* how far the process has come, or how it ended
          word,    \* the first word of the command line
          flags,   \* the flags of the forwarder on it, as typed
          file,    \* the TOML file, as written
          config,  \* the merged Config
          parts,   \* what main has built
          open     \* what serve has opened

vars == <<stage, word, flags, file, config, parts, open>>

(* Exit status 0, 0, 2, 1, 1, and the interrupt itself.                    *)
Ended == {"helped", "read_log", "rejected", "failed", "crashed", "stopped"}

Help == {"-h", "--help"}
Subcommands == {"tail", "explain"}
IsFlag(w) == w \in Help \cup {"--flag"}

Init ==
    /\ stage = "typed" /\ word \in Words
    /\ flags \in IF word = "--flag" THEN CliSettings ELSE {<< >>}
    /\ file \in IF word = "--flag" THEN FileSettings ELSE {<< >>}
    /\ config = Defaults
    /\ parts = {} /\ open = {}

GoTo(next) == stage' = next /\ UNCHANGED <<word, flags, file>>

(* An exception, an error of the argument parser, or SystemExit.           *)
End(how) == GoTo(how) /\ UNCHANGED <<config, parts, open>>

------------------------------------------------------------------------------
(* The dispatcher.                                                         *)

Dispatch ==
    /\ stage = "typed"
    /\ \/ word \in Help /\ End("helped")
       \/ /\ word \notin Help
          /\ word = "" \/ IsFlag(word)
          /\ GoTo("read") /\ UNCHANGED <<config, parts, open>>
       \/ /\ ~IsFlag(word) /\ word \notin Subcommands \cup {""}
          /\ End("rejected")
       \/ word \in Subcommands /\ GoTo("open_log") /\ UNCHANGED <<config, parts, open>>

(* _open_readonly of both readers: no file, or not one that SQLite opens.  *)
OpenLogReadonly ==
    /\ stage = "open_log"
    /\ \/ GoTo("query_log") /\ open' = {"reader"} /\ UNCHANGED <<config, parts>>
       \/ End("failed")
       \/ End("crashed")

(* explain may find no record; the file may have no table, or be locked.   *)
ReadLog ==
    /\ stage = "query_log"
    /\ open' = {} /\ UNCHANGED <<config, parts>>
    /\ \/ GoTo("read_log")
       \/ word = "explain" /\ GoTo("rejected")
       \/ GoTo("crashed")

------------------------------------------------------------------------------
(* main: settings.                                                         *)

(* load_toml; without --config the file sets nothing.                      *)
ReadFile ==
    /\ stage = "read"
    /\ \/ GoTo("merge") /\ UNCHANGED <<config, parts, open>>
       \/ file # << >> /\ End("rejected")

(* argparse makes a Path of a path flag, coerce a Path or None of a TOML   *)
(* string; other values are taken as they are.                             *)
Argument(field, raw) ==
    IF field \in PathFields /\ raw = "" THEN "." ELSE raw

(* Mutant of Coerce: an empty string of the file stays one.                *)
CoerceAsTyped(field, raw) == raw

Coerce(field, raw) ==
    IF field \in PathFields /\ raw = "" THEN None ELSE raw

(* _args_to_overrides: what the flags set, under the names of the fields.  *)
Overrides ==
    LET typed == DOMAIN flags \ {"quiet_scoring"}
        quiet == {f \in {"score_logging"} : "quiet_scoring" \in DOMAIN flags}
    IN [f \in typed \cup quiet |->
           IF f \in typed THEN Argument(f, flags[f]) ELSE ~flags["quiet_scoring"]]

(* Mutant of Setting: the file wins.                                       *)
SettingFileFirst(f) ==
    IF f \in DOMAIN file THEN Coerce(f, file[f])
    ELSE IF f \in DOMAIN Overrides THEN Coerce(f, Overrides[f])
    ELSE Defaults[f]

Setting(f) ==
    IF f \in DOMAIN Overrides THEN Coerce(f, Overrides[f])
    ELSE IF f \in DOMAIN file THEN Coerce(f, file[f])
    ELSE Defaults[f]

Merged == [f \in Fields |-> Setting(f)]

(* merge rejects a key of the file that is not a field.                    *)
MergeSettings ==
    /\ stage = "merge"
    /\ IF DOMAIN file \subseteq Fields
       THEN GoTo("check") /\ config' = Merged /\ UNCHANGED <<parts, open>>
       ELSE End("rejected")

CheckEnforce ==
    /\ stage = "check"
    /\ IF config.enforce /\ config.model_path = None /\ config.blocklist_url = None
       THEN End("rejected")
       ELSE GoTo("classifier") /\ UNCHANGED <<config, parts, open>>

------------------------------------------------------------------------------
(* main: parts.                                                            *)

LoadClassifier ==
    /\ stage = "classifier"
    /\ \/ /\ config.model_path \notin {None, "."}
          /\ GoTo("blocklist") /\ parts' = parts \cup {"classifier"}
          /\ UNCHANGED <<config, open>>
       \/ config.model_path = None /\ GoTo("blocklist") /\ UNCHANGED <<config, parts, open>>
       \/ config.model_path # None /\ End("crashed")

WantsBlocklist == config.blocklist_url \notin {None, ""}

(* The first download, without which there is no start.                    *)
LoadBlocklist ==
    /\ stage = "blocklist"
    /\ \/ WantsBlocklist /\ GoTo("assemble") /\ parts' = parts \cup {"blocklist"}
             /\ UNCHANGED <<config, open>>
       \/ ~WantsBlocklist /\ GoTo("assemble") /\ UNCHANGED <<config, parts, open>>
       \/ WantsBlocklist /\ End("failed")

Assemble ==
    /\ stage = "assemble"
    /\ parts' = parts
         \cup {p \in {"cache"} : config.cached /\ parts # {}}
         \cup {p \in {"log"} : config.log_path # None}
    /\ GoTo("start") /\ UNCHANGED <<config, open>>

------------------------------------------------------------------------------
(* serve.                                                                  *)

(* query_log.start(); SQLite cannot open a directory.                      *)
StartLog ==
    /\ stage = "start"
    /\ \/ "log" \in parts /\ config.log_path # "." /\ GoTo("bind") /\ open' = {"log"}
             /\ UNCHANGED <<config, parts>>
       \/ "log" \notin parts /\ GoTo("bind") /\ UNCHANGED <<config, parts, open>>
       \/ "log" \in parts /\ End("crashed")

(* The DoH client and the socket.  A socket that cannot be bound ends      *)
(* serve before its try block: the log is not stopped.                     *)
Bind ==
    /\ stage = "bind"
    /\ LET opened == open \cup {c \in {"doh"} : config.upstream_doh_url # None}
       IN \/ GoTo("serving")
             /\ open' = opened \cup {"socket"}
                               \cup {t \in {"refresh"} : "blocklist" \in parts}
          \/ GoTo("crashed") /\ open' = opened
    /\ UNCHANGED <<config, parts>>

(* Mutant of CloseSocket: it stays open until the process ends.            *)
CloseSocketLast ==
    /\ stage = "serving"
    /\ open' = open \ {"refresh"}
    /\ GoTo("closing") /\ UNCHANGED <<config, parts>>

(* Ctrl-C: the refresh loop is cancelled, the socket closed; then serve    *)
(* awaits the DoH client, whose failure leaves the log to asyncio.run, and *)
(* the log.                                                                *)
CloseSocket ==
    /\ stage = "serving"
    /\ open' = open \ {"refresh", "socket"}
    /\ GoTo("closing") /\ UNCHANGED <<config, parts>>

CloseDoh ==
    /\ stage = "closing"
    /\ \/ open' = open \ {"doh"} /\ GoTo("stopping") /\ UNCHANGED <<config, parts>>
       \/ "doh" \in open /\ End("crashed")

StopLog ==
    /\ stage = "stopping"
    /\ open' = open \ {"log"}
    /\ GoTo("stopped") /\ UNCHANGED <<config, parts>>

Next ==
    \/ Dispatch \/ OpenLogReadonly \/ ReadLog
    \/ ReadFile \/ MergeSettings \/ CheckEnforce
    \/ LoadClassifier \/ LoadBlocklist \/ Assemble
    \/ StartLog \/ Bind \/ CloseSocket \/ CloseDoh \/ StopLog

Spec == Init /\ [][Next]_vars

------------------------------------------------------------------------------
TypeOK ==
    /\ stage \in {"typed", "open_log", "query_log", "read", "merge", "check",
                  "classifier", "blocklist", "assemble", "start", "bind", "serving", "closing", "stopping"} \cup Ended
    /\ DOMAIN config = Fields
    /\ config.model_path \in {None, ".", "given"} /\ config.log_path \in {None, ".", "given"}
    /\ parts \subseteq {"classifier", "blocklist", "cache", "log"}
    /\ open \subseteq {"log", "doh", "socket", "refresh", "reader"}

(* As long as the socket is open the log is: it is started before the      *)
(* first datagram can come and stopped after the last one, so that no      *)
(* record is handed to a log that nobody empties (forwarder.py:269-287,    *)
(* 312-319).                                                               *)
LogOutlivesSocket ==
    "socket" \in open /\ config.log_path # None => "log" \in open

(* A process that serves has every part its settings ask for: a flag wins  *)
(* over the file whatever the file says, --quiet-scoring turns             *)
(* score_logging off, a failed download or model stops the start, and the  *)
(* cache stands behind a tier; no misspelled key is passed over; a reader, *)
(* a request for help or a mistyped command never serves (config.py:97-113;*)
(* forwarder.py:387-400, 435-466; cli.py:42-64).                           *)
Asked(field) == IF field \in DOMAIN flags THEN flags[field]
                ELSE IF field \in DOMAIN file THEN file[field] ELSE Defaults[field]

ServesWhatWasAsked ==
    stage \in {"serving", "closing", "stopping", "stopped"} =>
        /\ word \in {"", "--flag"}
        /\ "classifier" \in parts <=> Asked("model_path") = "given"
        /\ "blocklist" \in parts <=> Asked("blocklist_url") = "given"
        /\ "log" \in parts <=> Asked("log_path") = "given"
        /\ "cache" \in parts <=> Asked("cached") /\ parts \cap {"classifier", "blocklist"} # {}
        /\ DOMAIN file \subseteq Fields
        /\ config.enforce = Asked("enforce")
        /\ config.score_logging <=> Asked("score_logging") /\ "quiet_scoring" \notin DOMAIN flags

==============================================================================
