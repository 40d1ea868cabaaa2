---------------------------- MODULE StartupProofs ----------------------------
(***************************************************************************)
(* Theorems about the life of a process, for every choice of what a        *)
(* command line and a file may set, and every failure on the way.          *)
(***************************************************************************)
EXTENDS Startup, TLAPS

(* The stages from the assembly of the parts to the end of serve.          *)
Assembled == {"start", "bind", "serving", "closing", "stopping", "stopped"}

(* The log is built when the settings name one, open before the socket is, *)
(* and stopped after it.                                                   *)
LogInv ==
    /\ stage \in {"typed", "open_log", "query_log", "read", "merge", "check"} => parts = {}
    /\ stage \in {"classifier", "blocklist", "assemble"} => "log" \notin parts
    /\ stage \in Assembled => ("log" \in parts <=> config.log_path # None)
    /\ stage \in {"bind", "serving", "closing", "stopping"} => ("log" \in parts => "log" \in open)
    /\ "socket" \in open => stage = "serving"

(* A process that has read nothing has built and opened nothing.           *)
LEMMA LogInit == Init => LogInv
BY DEF Init, LogInv, Assembled

(* No stage opens the socket before the log, and none stops the log before *)
(* the socket is closed (forwarder.py:269-287, 312-319).                   *)
LEMMA LogNext == LogInv /\ [Next]_vars => LogInv'
<1> SUFFICES ASSUME LogInv, [Next]_vars PROVE LogInv'
  OBVIOUS
<1> USE DEF LogInv, Assembled, GoTo, End
<1>1. CASE Dispatch \/ OpenLogReadonly \/ ReadLog
  BY <1>1 DEF Dispatch, OpenLogReadonly, ReadLog
<1>2. CASE ReadFile \/ MergeSettings \/ CheckEnforce
  BY <1>2 DEF ReadFile, MergeSettings, CheckEnforce
<1>3. CASE LoadClassifier \/ LoadBlocklist
  BY <1>3 DEF LoadClassifier, LoadBlocklist
<1>4. CASE Assemble
  BY <1>4 DEF Assemble
<1>5. CASE StartLog
  BY <1>5 DEF StartLog
<1>6. CASE Bind
  BY <1>6 DEF Bind
<1>7. CASE CloseSocket \/ CloseDoh \/ StopLog
  BY <1>7 DEF CloseSocket, CloseDoh, StopLog
<1>8. CASE UNCHANGED vars
  BY <1>8 DEF vars
<1> QED
  BY <1>1, <1>2, <1>3, <1>4, <1>5, <1>6, <1>7, <1>8 DEF Next

(* As long as the socket is open the log is, whatever was set and whatever *)
(* fails (forwarder.py:269-287, 312-319).                                  *)
THEOREM LogIsOpenWhileServing == Spec => []LogOutlivesSocket
<1>1. LogInv => LogOutlivesSocket
  BY DEF LogInv, LogOutlivesSocket, Assembled
<1> QED
  BY <1>1, LogInit, LogNext, PTL DEF Spec

------------------------------------------------------------------------------
(* The settings.                                                           *)

(* The stages of a process whose settings are merged, and of one that is   *)
(* past the two tiers.                                                     *)
Checked == {"classifier", "blocklist", "assemble"} \cup Assembled
Served  == {"bind", "serving", "closing", "stopping", "stopped"}

TypedInv ==
    /\ flags \in CliSettings \cup {<< >>} /\ file \in FileSettings \cup {<< >>}
    /\ stage \in {"read", "merge", "check"} \cup Checked => word \in {"", "--flag"}

MergedInv ==
    stage \in {"check"} \cup Checked =>
        DOMAIN file \subseteq Fields /\ \A f \in Fields : config[f] = Setting(f)

Tiers == {"classifier", "blocklist"}

PartsInv ==
    /\ stage \in {"typed", "open_log", "query_log", "read", "merge", "check", "classifier"} => parts = {}
    /\ stage \in {"blocklist", "assemble"} => parts \subseteq Tiers
    /\ stage = "blocklist" => "blocklist" \notin parts
    /\ stage \in {"blocklist", "assemble"} \cup Assembled =>
          /\ config.model_path # "."
          /\ "classifier" \in parts <=> config.model_path # None
    /\ stage \in {"assemble"} \cup Assembled => ("blocklist" \in parts <=> WantsBlocklist)
    /\ stage \in Assembled =>
          /\ "log" \in parts <=> config.log_path # None
          /\ "cache" \in parts <=> config.cached /\ parts \cap Tiers # {}
    /\ stage \in Served => ("log" \in parts => config.log_path # ".")

(* An empty setting sets nothing.                                          *)
LEMMA NothingSet == DOMAIN << >> = {}
OBVIOUS

(* What the flags override.                                                *)
LEMMA OverridesAre ==
    /\ \A f : f \in DOMAIN Overrides <=>
          \/ f \in DOMAIN flags /\ f # "quiet_scoring"
          \/ f = "score_logging" /\ "quiet_scoring" \in DOMAIN flags
    /\ \A f \in DOMAIN flags : f # "quiet_scoring" => Overrides[f] = Argument(f, flags[f])
    /\ "score_logging" \notin DOMAIN flags /\ "quiet_scoring" \in DOMAIN flags
          => (Overrides["score_logging"] <=> ~flags["quiet_scoring"])
BY DEF Overrides

(* The merge settles every field.                                          *)
LEMMA MergeSettles == \A f \in Fields : Merged[f] = Setting(f)
BY DEF Merged

(* A settled path or URL is what was asked for, or nothing usable.         *)
LEMMA SettingIsAsked ==
    ASSUME TypedInv
    PROVE  /\ \A f \in PathFields : Setting(f) \in {None, ".", "given"}
                                    /\ (Setting(f) = "given" <=> Asked(f) = "given")
           /\ Setting("blocklist_url") \in {None, "", "given"}
           /\ Setting("blocklist_url") = Asked("blocklist_url")
           /\ Setting("enforce") = Asked("enforce")
           /\ Setting("cached") = Asked("cached")
           /\ Setting("score_logging")
                 <=> Asked("score_logging") /\ "quiet_scoring" \notin DOMAIN flags
<1>1. /\ \A f \in DOMAIN flags \cap (PathFields \cup {"blocklist_url"}) : flags[f] \in {"", "given"}
      /\ \A f \in DOMAIN file \cap (PathFields \cup {"blocklist_url"}) : file[f] \in {"", "given"}
      /\ "quiet_scoring" \in DOMAIN flags => flags["quiet_scoring"]
      /\ "score_logging" \notin DOMAIN flags
  BY NothingSet, ValuesAssumption, CliAssumption DEF TypedInv
<1>2. \A f \in PathFields \cup {"blocklist_url", "enforce", "cached"} :
         /\ f \in DOMAIN Overrides <=> f \in DOMAIN flags
         /\ f \in DOMAIN flags => Overrides[f] = Argument(f, flags[f])
  BY OverridesAre DEF PathFields
<1>3. \A f \in PathFields : Defaults[f] = None
  BY DEF PathFields, Defaults
<1>4. ASSUME NEW f \in PathFields
      PROVE  /\ Setting(f) \in {None, ".", "given"}
             /\ Setting(f) = "given" <=> Asked(f) = "given"
  <2>1. CASE f \in DOMAIN flags
    BY <1>1, <1>2, <2>1 DEF Setting, Asked, Argument, Coerce
  <2>2. CASE f \notin DOMAIN flags
    BY <1>1, <1>2, <1>3, <2>2, ValuesAssumption DEF Setting, Asked, Coerce
  <2> QED
    BY <2>1, <2>2
<1>5. \A f \in {"blocklist_url", "enforce", "cached"} : Setting(f) = Asked(f)
  BY <1>2 DEF Setting, Asked, Argument, Coerce, PathFields
<1>6. Setting("blocklist_url") \in {None, "", "given"}
  <2>1. Defaults["blocklist_url"] = None
    BY DEF Defaults
  <2> QED
    BY <1>1, <1>5, <2>1 DEF Asked
<1>7. Setting("score_logging")
         <=> Asked("score_logging") /\ "quiet_scoring" \notin DOMAIN flags
  <2>1. CASE "quiet_scoring" \in DOMAIN flags
    BY <1>1, <2>1, OverridesAre DEF Setting, Coerce, PathFields
  <2>2. CASE "quiet_scoring" \notin DOMAIN flags
    <3>1. "score_logging" \notin DOMAIN Overrides
      BY <1>1, <2>2, OverridesAre
    <3> QED
      BY <1>1, <2>2, <3>1 DEF Setting, Asked, Coerce, PathFields
  <2> QED
    BY <2>1, <2>2
<1> QED
  BY <1>4, <1>5, <1>6, <1>7

(* Before the first stage nothing is settled or built.                     *)
LEMMA AskedInit == Init => TypedInv /\ MergedInv /\ PartsInv
BY DEF Init, TypedInv, MergedInv, PartsInv, Checked, Assembled, Served

(* The word decides who goes on; nothing changes what was typed            *)
(* (cli.py:42-64).                                                         *)
LEMMA TypedNext ==
    ASSUME TypedInv, [Next]_vars
    PROVE  TypedInv' /\ UNCHANGED <<word, flags, file>>
<1> USE DEF TypedInv, GoTo, End, Checked, Assembled
<1>1. CASE Dispatch
  BY <1>1 DEF Dispatch, IsFlag, Help
<1>2. CASE OpenLogReadonly \/ ReadLog \/ ReadFile
  BY <1>2 DEF OpenLogReadonly, ReadLog, ReadFile
<1>3. CASE MergeSettings \/ CheckEnforce \/ LoadClassifier \/ LoadBlocklist
  BY <1>3 DEF MergeSettings, CheckEnforce, LoadClassifier, LoadBlocklist
<1>4. CASE Assemble \/ StartLog \/ Bind \/ CloseSocket \/ CloseDoh \/ StopLog
  BY <1>4 DEF Assemble, StartLog, Bind, CloseSocket, CloseDoh, StopLog
<1>5. CASE UNCHANGED vars
  BY <1>5 DEF vars
<1> QED
  BY <1>1, <1>2, <1>3, <1>4, <1>5 DEF Next

(* The merge sets every field, once (config.py:106-113).                   *)
LEMMA MergedNext ==
    ASSUME TypedInv, MergedInv, [Next]_vars
    PROVE  MergedInv'
<1>1. \A f : Setting(f)' = Setting(f)
  BY TypedNext DEF Setting, Overrides
<1>2. CASE MergeSettings
  <2>1. (config' = Merged /\ DOMAIN file \subseteq Fields) \/ stage' = "rejected"
    BY <1>2 DEF MergeSettings, GoTo, End
  <2> QED
    BY <1>1, <2>1, TypedNext, MergeSettles DEF MergedInv, Checked, Assembled
<1>3. CASE ~MergeSettings
  <2>1. UNCHANGED config /\ (stage' \in {"check"} \cup Checked => stage \in {"check"} \cup Checked)
    BY <1>3
    DEF Next, vars, GoTo, End, Checked, Assembled, Dispatch, OpenLogReadonly, ReadLog, ReadFile,
        CheckEnforce, LoadClassifier, LoadBlocklist, Assemble, StartLog, Bind, CloseSocket,
        CloseDoh, StopLog
  <2> QED
    BY <1>1, <2>1, TypedNext DEF MergedInv
<1> QED
  BY <1>2, <1>3

(* Each part is built or the process ends (forwarder.py:435-466).          *)
LEMMA PartsNext ==
    ASSUME PartsInv, [Next]_vars
    PROVE  PartsInv'
<1> USE DEF PartsInv, GoTo, End, Assembled, Served, Tiers
<1>1. CASE Dispatch \/ OpenLogReadonly \/ ReadLog \/ ReadFile \/ MergeSettings \/ CheckEnforce
  BY <1>1 DEF Dispatch, OpenLogReadonly, ReadLog, ReadFile, MergeSettings, CheckEnforce
<1>2. CASE LoadClassifier
  BY <1>2, ValuesAssumption DEF LoadClassifier
<1>3. CASE LoadBlocklist
  BY <1>3 DEF LoadBlocklist, WantsBlocklist
<1>4. CASE Assemble
  <2>1. /\ stage = "assemble" /\ stage' = "start" /\ UNCHANGED config
        /\ "log" \in parts' <=> config.log_path # None
        /\ parts' \cap Tiers = parts
        /\ "cache" \in parts' <=> config.cached /\ parts # {}
    BY <1>4 DEF Assemble
  <2> QED
    BY <2>1 DEF WantsBlocklist
<1>5. CASE StartLog
  BY <1>5 DEF StartLog, WantsBlocklist
<1>6. CASE Bind \/ CloseSocket \/ CloseDoh \/ StopLog
  BY <1>6 DEF Bind, CloseSocket, CloseDoh, StopLog, WantsBlocklist
<1>7. CASE UNCHANGED vars
  BY <1>7 DEF vars, WantsBlocklist
<1> QED
  BY <1>1, <1>2, <1>3, <1>4, <1>5, <1>6, <1>7 DEF Next

(* What serves is what was asked for, for every combination of settings    *)
(* and every failure on the way (cli.py:42-64; config.py:106-113;          *)
(* forwarder.py:387-400, 435-466).                                         *)
THEOREM ServesOnlyWhatWasAsked == Spec => []ServesWhatWasAsked
<1>1. TypedInv /\ MergedInv /\ PartsInv /\ [Next]_vars => TypedInv' /\ MergedInv' /\ PartsInv'
  BY TypedNext, MergedNext, PartsNext
<1>2. TypedInv /\ MergedInv /\ PartsInv => ServesWhatWasAsked
  <2> SUFFICES ASSUME TypedInv, MergedInv, PartsInv,
                      stage \in {"serving", "closing", "stopping", "stopped"}
               PROVE  ServesWhatWasAsked
    BY DEF ServesWhatWasAsked
  <2>1. word \in {"", "--flag"}
    BY DEF TypedInv, Checked, Assembled
  <2>2. DOMAIN file \subseteq Fields /\ \A f \in Fields : config[f] = Setting(f)
    BY DEF MergedInv, Checked, Assembled
  <2>3. {"model_path", "log_path", "blocklist_url", "enforce", "cached", "score_logging"}
           \subseteq Fields /\ PathFields \subseteq Fields
    BY DEF Fields, Defaults, PathFields
  <2>4. /\ config.model_path = Setting("model_path") /\ config.log_path = Setting("log_path")
        /\ config.blocklist_url = Setting("blocklist_url")
        /\ config.enforce = Setting("enforce") /\ config.cached = Setting("cached")
        /\ config.score_logging = Setting("score_logging")
    BY <2>2, <2>3
  <2>5. /\ config.model_path \in {None, ".", "given"} /\ config.log_path \in {None, ".", "given"}
        /\ config.model_path = "given" <=> Asked("model_path") = "given"
        /\ config.log_path = "given" <=> Asked("log_path") = "given"
    BY <2>4, SettingIsAsked DEF PathFields
  <2>6. /\ "classifier" \in parts <=> Asked("model_path") = "given"
        /\ "log" \in parts <=> Asked("log_path") = "given"
    BY <2>5, ValuesAssumption DEF PartsInv, Assembled, Served
  <2>7. "blocklist" \in parts <=> Asked("blocklist_url") = "given"
    BY <2>4, SettingIsAsked, ValuesAssumption DEF PartsInv, Assembled, WantsBlocklist
  <2>8. config.enforce = Asked("enforce") /\ config.cached = Asked("cached")
    BY <2>4, SettingIsAsked
  <2>9. "cache" \in parts <=> Asked("cached") /\ parts \cap {"classifier", "blocklist"} # {}
    BY <2>8 DEF PartsInv, Assembled, Tiers
  <2>10. config.score_logging <=> Asked("score_logging") /\ "quiet_scoring" \notin DOMAIN flags
    BY <2>4, SettingIsAsked
  <2> QED
    BY <2>1, <2>2, <2>6, <2>7, <2>8, <2>9, <2>10 DEF ServesWhatWasAsked
<1> QED
  BY <1>1, <1>2, AskedInit, PTL DEF Spec

------------------------------------------------------------------------------
(* Types.                                                                  *)

(* A process starts with the defaults and nothing else.                    *)
LEMMA TypeInit == Init => TypeOK
<1>1. /\ Defaults.model_path = None /\ Defaults.log_path = None
      /\ DOMAIN Defaults = Fields
  BY DEF Defaults, Fields
<1> QED
  BY <1>1 DEF Init, TypeOK

(* Every stage leads to a stage there is, and the merge makes of a path    *)
(* None, "." or what was given (config.py:97-113; forwarder.py:387-466).   *)
LEMMA TypeNext ==
    ASSUME TypeOK, TypedInv, [Next]_vars
    PROVE  TypeOK'
<1> USE DEF TypeOK, GoTo, End, Ended
<1>1. CASE Dispatch \/ OpenLogReadonly \/ ReadLog \/ ReadFile \/ CheckEnforce
  BY <1>1 DEF Dispatch, OpenLogReadonly, ReadLog, ReadFile, CheckEnforce
<1>2. CASE MergeSettings
  <2>1. DOMAIN Merged = Fields
    BY DEF Merged
  <2>2. Merged.model_path \in {None, ".", "given"} /\ Merged.log_path \in {None, ".", "given"}
    <3>1. "model_path" \in Fields /\ "log_path" \in Fields
      BY DEF Fields, Defaults
    <3> QED
      BY <3>1, MergeSettles, SettingIsAsked DEF PathFields
  <2>3. \/ config' = Merged /\ stage' = "check" /\ UNCHANGED <<parts, open>>
        \/ stage' = "rejected" /\ UNCHANGED <<config, parts, open>>
    BY <1>2 DEF MergeSettings
  <2> QED
    BY <2>1, <2>2, <2>3
<1>3. CASE LoadClassifier \/ LoadBlocklist
  BY <1>3 DEF LoadClassifier, LoadBlocklist
<1>4. CASE Assemble
  BY <1>4 DEF Assemble
<1>5. CASE StartLog
  BY <1>5 DEF StartLog
<1>6. CASE Bind
  BY <1>6 DEF Bind
<1>7. CASE CloseSocket \/ CloseDoh \/ StopLog
  BY <1>7 DEF CloseSocket, CloseDoh, StopLog
<1>8. CASE UNCHANGED vars
  BY <1>8 DEF vars
<1> QED
  BY <1>1, <1>2, <1>3, <1>4, <1>5, <1>6, <1>7, <1>8 DEF Next

(* Whatever the command line and the file set, the settings, the parts and *)
(* what is open stay of their kinds.                                       *)
THEOREM TypeCorrect == Spec => []TypeOK
<1>1. TypeOK /\ TypedInv /\ [Next]_vars => TypeOK' /\ TypedInv'
  BY TypeNext, TypedNext
<1> QED
  BY <1>1, TypeInit, AskedInit, PTL DEF Spec

==============================================================================
