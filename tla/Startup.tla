------------------------------ MODULE Startup ------------------------------
(***************************************************************************)
(* A launch of the bridge: main of __main__.py with load_config and        *)
(* validate of config.py.  The settings of a channel come from the         *)
(* environment, the .env file and the configuration file; --only picks one *)
(* channel, --check and --test-notify look at the settings and end.        *)
(*                                                                         *)
(* Only the settings that say whether a channel can work are modelled.  A  *)
(* value is a word; the empty one and none at all count the same.  The     *)
(* files can be read, and do not change between launches.                  *)
(***************************************************************************)
EXTENDS Naturals, FiniteSets

CONSTANTS
  Environments, (* what the environment or .env may say: setting -> word    *)
  Files,        (* configuration files, see FileType                        *)
  Numeric,      (* words that are numbers                                   *)
  Targets,      (* what --only may say                                      *)
  NoTarget,     (* --only is not given                                      *)
  MaxLaunches   (* bound: launches                                          *)

Empty == ""

(* What load_config takes from the environment, of what is modelled. *)
Keys ==
  [feishu |-> {"webhookUrl", "appId", "appSecret"}, qq |-> {"wsUrl"},
   qq_official |-> {"appId", "appSecret"}, woa |-> {"appId", "secretKey"},
   console |-> {}, webhook |-> {}]

Known    == DOMAIN Keys
KeysOf(c) == IF c \in Known THEN Keys[c] ELSE {}

ASSUME StartupAssumption ==
  /\ NoTarget \notin UNION {DOMAIN f.channels : f \in Files}
  /\ Empty \notin Numeric /\ MaxLaunches \in Nat

VARIABLES
  env, dotenv, (* the environment and the .env file                         *)
  file,        (* conflict: a workspace and a directory are given;          *)
               (* channels: of those enabled, key -> word                   *)
  only, mode,  (* --only; "check", "test" for --test-notify, or "run"       *)
  pc,          (* what the process does next, "exited" for none             *)
  environ,     (* os.environ                                                *)
  channels,    (* config.channels                                           *)
  started,     (* channels whose start() has returned                       *)
  exit,        (* code of the last launch                                   *)
  launches,    (* so far, up to MaxLaunches                                 *)
  passed       (* a check of these files has said that all is well          *)

settings    == <<env, dotenv, file>>
startupVars == <<settings, only, mode, pc, environ, channels, started, exit, launches, passed>>

-----------------------------------------------------------------------------
Launch(m, target) ==
  /\ pc = "exited" /\ launches < MaxLaunches
  /\ mode' = m /\ only' = target /\ pc' = "dotenv"
  /\ environ' = env /\ channels' = [c \in {} |-> Empty] /\ started' = {}
  /\ launches' = launches + 1
  /\ passed' = (passed /\ target = only)
  /\ UNCHANGED <<settings, exit>>

Exit(code) == pc' = "exited" /\ exit' = code

(* A variable of the environment that is set, be it empty, stays.          *)
Filled(e) ==
  [v \in DOMAIN e \cup DOMAIN dotenv |-> IF v \in DOMAIN e THEN e[v] ELSE dotenv[v]]

LoadDotenv ==
  /\ pc = "dotenv" /\ pc' = "config"
  /\ environ' = Filled(environ)
  /\ UNCHANGED <<settings, only, mode, channels, started, exit, launches, passed>>

(* A variable that is set counts, also an empty one; then the file. *)
Setting(e, c, k) ==
  IF <<c, k>> \in DOMAIN e THEN e[<<c, k>>]
  ELSE IF k \in DOMAIN file.channels[c] THEN file.channels[c][k]
  ELSE IF k = "wsUrl" THEN "ws://127.0.0.1:3001" ELSE Empty

Enabled(e) == [c \in DOMAIN file.channels |-> [k \in KeysOf(c) |-> Setting(e, c, k)]]

LoadConfig ==
  /\ pc = "config" /\ pc' = "only"
  /\ channels' = Enabled(environ)
  /\ UNCHANGED <<settings, only, mode, environ, started, exit, launches, passed>>

(* Mutant of ApplyOnly: the other channels are kept. *)
ApplyOnlyKeeps ==
  /\ pc = "only"
  /\ IF only = NoTarget \/ only \in Known \cap DOMAIN channels
     THEN pc' = "mode" /\ UNCHANGED exit
     ELSE Exit(2)
  /\ UNCHANGED <<settings, only, mode, environ, channels, started, launches, passed>>

ApplyOnly ==
  /\ pc = "only"
  /\ \/ only = NoTarget
        /\ pc' = "mode" /\ UNCHANGED <<channels, exit>>
     \/ only # NoTarget /\ only \in Known \cap DOMAIN channels
        /\ pc' = "mode" /\ UNCHANGED exit
        /\ channels' = [c \in {only} |-> channels[c]]
     \/ only # NoTarget /\ only \notin Known \cap DOMAIN channels
        /\ Exit(2) /\ UNCHANGED channels
  /\ UNCHANGED <<settings, only, mode, environ, started, launches, passed>>

-----------------------------------------------------------------------------
(* Config.validate, of a channel c with the settings s. *)
Given(s, k) == s[k] # Empty

(* Mutant of Faulty: a secret without an id passes. *)
FaultyWithoutId(c, s) ==
  CASE c = "feishu" -> Given(s, "appId") /\ ~Given(s, "appSecret")
    [] c = "qq"     -> ~Given(s, "wsUrl")
    [] c = "qq_official" -> ~Given(s, "appId") \/ ~Given(s, "appSecret")
    [] c = "woa"    -> ~Given(s, "appId") \/ ~Given(s, "secretKey")
    [] OTHER        -> c \notin Known

Faulty(c, s) ==
  CASE c = "feishu" -> /\ ~Given(s, "webhookUrl")
                       /\ Given(s, "appId") # Given(s, "appSecret")
    [] c = "qq"     -> ~Given(s, "wsUrl")
    [] c = "qq_official" -> \/ ~Given(s, "appId") \/ ~Given(s, "appSecret")
                            \/ s["appId"] \notin Numeric
    [] c = "woa"    -> ~Given(s, "appId") \/ ~Given(s, "secretKey")
    [] OTHER        -> c \notin Known

Errors(config) == file.conflict \/ \E c \in DOMAIN config : Faulty(c, config[c])

(* Feishu with both ways of sending, or none. *)
Warned(c, s) ==
  c = "feishu" /\ (Given(s, "webhookUrl") <=> Given(s, "appId") \/ Given(s, "appSecret"))

(* What a channel then does, in its own module: whether it takes messages, *)
(* and where what is sent to a conversation goes.                          *)
Takes(c, s) ==
  IF c = "feishu" THEN Given(s, "appId") /\ Given(s, "appSecret")
  ELSE \A k \in Keys[c] : Given(s, k)

SendsTo(c, s) ==
  IF c = "feishu" /\ Given(s, "webhookUrl") THEN "group of the webhook"
  ELSE IF \A k \in Keys[c] \ {"webhookUrl"} : Given(s, k) THEN "conversation"
  ELSE "nobody"

-----------------------------------------------------------------------------
(* Mutant of Check: what validate calls errors is printed as a warning. *)
CheckWarns ==
  /\ pc = "mode" /\ mode = "check"
  /\ \E ok \in BOOLEAN :
       Exit(IF ok THEN 0 ELSE 1) /\ passed' = (passed \/ ok)
  /\ UNCHANGED <<settings, only, mode, environ, channels, started, launches>>

(* --check: errors, dsh out of reach or a directory that is not writable.  *)
Check ==
  /\ pc = "mode" /\ mode = "check"
  /\ \E reachable, writable \in BOOLEAN :
       LET ok == ~Errors(channels) /\ reachable /\ writable IN
       Exit(IF ok THEN 0 ELSE 1) /\ passed' = (passed \/ ok)
  /\ UNCHANGED <<settings, only, mode, environ, channels, started, launches>>

(* --test-notify: there is no validation; the channel starts, sends or     *)
(* raises, and stops.                                                      *)
TestNotify(c) ==
  /\ pc = "mode" /\ mode = "test"
  /\ \/ Exit(1)
     \/ c \in Known \cap DOMAIN channels /\ Exit(0)
  /\ UNCHANGED <<settings, only, mode, environ, channels, started, launches, passed>>

Validate ==
  /\ pc = "mode" /\ mode = "run"
  /\ IF Errors(channels) THEN Exit(2) ELSE pc' = "server" /\ UNCHANGED exit
  /\ UNCHANGED <<settings, only, mode, environ, channels, started, launches, passed>>

(* The port of the management API may be taken. *)
StartServer ==
  /\ pc = "server"
  /\ \/ pc' = "channels" /\ UNCHANGED exit
     \/ Exit(1)
  /\ UNCHANGED <<settings, only, mode, environ, channels, started, launches, passed>>

(* hub.start: channels one after the other.  Those that listen on a port,  *)
(* or write a file, may raise; the process then ends.                      *)
StartChannel(c) ==
  /\ pc = "channels" /\ c \in DOMAIN channels \ started
  /\ \/ started' = started \cup {c} /\ UNCHANGED <<pc, exit>>
     \/ c \in {"webhook", "woa", "console"} /\ Exit(1) /\ started' = {}
  /\ UNCHANGED <<settings, only, mode, environ, channels, launches, passed>>

Runs ==
  /\ pc = "channels" /\ started = DOMAIN channels
  /\ pc' = "running"
  /\ UNCHANGED <<settings, only, mode, environ, channels, started, exit, launches, passed>>

Stop ==
  /\ pc = "running"
  /\ Exit(0) /\ started' = {}
  /\ UNCHANGED <<settings, only, mode, environ, channels, launches, passed>>

StartupInit ==
  /\ env \in Environments /\ dotenv \in Environments /\ file \in Files
  /\ only = NoTarget /\ mode = "run" /\ pc = "exited"
  /\ environ = env /\ channels = [c \in {} |-> Empty] /\ started = {}
  /\ exit = 0 /\ launches = 0 /\ passed = FALSE

StartupNext ==
  \/ \E m \in {"check", "test", "run"}, target \in Targets : Launch(m, target)
  \/ LoadDotenv \/ LoadConfig \/ ApplyOnly
  \/ Check \/ (\E c \in Known : TestNotify(c)) \/ Validate
  \/ StartServer \/ (\E c \in DOMAIN channels : StartChannel(c)) \/ Runs \/ Stop

StartupSpec == StartupInit /\ [][StartupNext]_startupVars
-----------------------------------------------------------------------------
(* A channel that has been started can do its work, wherever its settings  *)
(* came from: it can send, and what it takes from a conversation it        *)
(* answers in that one; or the launch has warned of it.  What config.py    *)
(* lets pass is enough for what the channels need.                         *)
StartedIsUsable ==
  pc = "running" => \A c \in started :
    LET s == channels[c] IN
    \/ Warned(c, s)
    \/ SendsTo(c, s) = "conversation" /\ Takes(c, s)
    \/ SendsTo(c, s) = "group of the webhook" /\ ~Takes(c, s)

(* With --only the bridge talks to one platform "regardless of what else   *)
(* is in the config file" (__main__.py:264): no other channel starts, nor  *)
(* keeps this one from starting.                                           *)
OnlyIsolates ==
  only # NoTarget =>
    /\ started \subseteq {only}
    /\ pc = "exited" /\ exit = 2 /\ only \in Known \cap DOMAIN file.channels =>
         file.conflict \/ Faulty(only, channels[only])

(* After --check has said "you can start the bridge" (__main__.py:166) a   *)
(* launch is not refused for its settings.                                 *)
CheckedStarts == passed /\ pc = "exited" => exit # 2
=============================================================================
