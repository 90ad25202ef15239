------------------------------ MODULE MCParts ------------------------------
(* The parts of the system that stand alone, side by side for TLC: they    *)
(* share nothing, and a behaviour is one of a single part.                 *)
EXTENDS SplitMessage, DirectAnswer, FeishuFrame, Startup, TokenCache, TLC

CONSTANTS t1, t2

MCWords   == {"", "1", "2", "yes", "q2"}
MCOrdinal == "1" :> 1 @@ "2" :> 2

MCQuestionSets == {
  <<[id |-> "q1", options |-> <<"yes", "no">>]>>,
  <<[id |-> "q1", options |-> <<"yes">>]>>,
  <<[id |-> "q1", options |-> <<"yes", "no">>], [id |-> "q2", options |-> <<"no">>]>>}

(* From no room for a marker to six characters of text a part. *)
MCLimits == {0, 1, 7, 13, 14, 15, 16, 18}

(* A variable of Feishu is not set, empty or given; or those of an example *)
(* .env, all empty, also of QQ's official API.                             *)
MCEnvironments ==
  UNION {[S -> {Empty, "1"}] : S \in SUBSET ({"feishu"} \X Keys["feishu"])}
    \cup {[v \in {"qq_official", "woa"} \X {"appId"} |-> Empty]}

Nothing == [k \in {} |-> Empty]
Local   == [c \in {"console", "webhook"} |-> Nothing]

MCFiles ==
  LET Feishu(s) == [conflict |-> FALSE, channels |-> [c \in {"feishu"} |-> s]]
      Other(f)  == [conflict |-> FALSE, channels |-> f]
      Both      == [k \in {"appId", "appSecret"} |-> "1"]
  IN  {Feishu(Nothing), Feishu([k \in {"webhookUrl"} |-> "1"]), Feishu(Both),
       Feishu([k \in {"appId", "secretKey"} |-> "1"]),
       [conflict |-> TRUE, channels |-> Local], Other(Local),
       Other([c \in {"feishu", "qq"} |->
                IF c = "qq" THEN [k \in {"wsUrl"} |-> Empty] ELSE Both]),
       Other([c \in {"qq", "woa"} |->
                IF c = "qq" THEN Nothing ELSE [k \in {"appId", "secretKey"} |-> "1"]]),
       Other([c \in {"qq_official", "woa"} |-> IF c = "woa" THEN Nothing ELSE Both]),
       Other([c \in {"qq_official"} |-> [k \in {"appId", "appSecret"} |-> "cli"]]),
       Other([c \in {"feishu", "matrix"} |-> Both])}

NotAnswering == questions = <<>> /\ reply = <<>> /\ outcome = None
NotSplitting ==
  /\ length = 0 /\ breaks = {} /\ maxChars = 1 /\ rest = 0
  /\ parts = <<[from |-> 0, to |-> 0]>> /\ split = TRUE

(* The plugin keeps numbers below 128, the bridge all.  Numbers of one and *)
(* of several digits, at the edges of a digit and of what is kept.         *)
MCExact == "bridge" :> 1024 @@ "plugin" :> 128
MCType  == <<1, 2>>
MCEvent == <<3>>
MCOk    == <<6>>
MCJson  == {<<5, 6, 7>>}

MCHeaders == {
  <<>>, <<[key |-> MCType, value |-> MCEvent]>>, <<[key |-> MCType, value |-> <<4>>]>>,
  <<[key |-> <<7>>, value |-> <<>>], [key |-> MCType, value |-> MCEvent]>>}

MCFrames ==
  [seq : {0, 3, 4, 127, 129, 131, 1023}, log : {0, 16, 128}, service : {0, 5}, method : {0, 1},
   headers : MCHeaders, payload : MCJson \cup {<<>>}]

NoFrame ==
  /\ client = "bridge" /\ frame \in {CHOOSE f \in MCFrames : TRUE}
  /\ bytes = <<>> /\ handled = "ignored" /\ ack = <<>>

NoLaunch ==
  /\ env = Nothing /\ dotenv = Nothing /\ file = [conflict |-> FALSE, channels |-> Nothing]
  /\ only = NoTarget /\ mode = "run" /\ pc = "exited" /\ environ = Nothing /\ channels = Nothing
  /\ started = {} /\ exit = 0 /\ launches = MaxLaunches /\ passed = FALSE

NoTokens ==
  /\ now = MaxTime /\ ends = <<>> /\ token = 0 /\ expires = 0 /\ owner = 0
  /\ thread = [t \in Threads |-> Free]

VARIABLE part   (* which one it is *)

PartsInit ==
  \/ part = "split" /\ SplitInit /\ NotAnswering /\ NoFrame /\ NoLaunch /\ NoTokens
  \/ part = "answer" /\ AnswerInit /\ NotSplitting /\ NoFrame /\ NoLaunch /\ NoTokens
  \/ part = "frame" /\ FrameInit /\ NotSplitting /\ NotAnswering /\ NoLaunch /\ NoTokens
  \/ part = "startup" /\ StartupInit /\ NotSplitting /\ NotAnswering /\ NoFrame /\ NoTokens
  \/ part = "token" /\ TokenInit /\ NotSplitting /\ NotAnswering /\ NoFrame /\ NoLaunch

PartsNext ==
  /\ UNCHANGED part
  /\ \/ /\ part = "split" /\ SplitNext
        /\ UNCHANGED <<answerVars, frameVars, startupVars, tokenVars>>
     \/ /\ part = "answer" /\ ReadReply
        /\ UNCHANGED <<splitVars, frameVars, startupVars, tokenVars>>
     \/ /\ part = "frame" /\ HandleFrame
        /\ UNCHANGED <<splitVars, answerVars, startupVars, tokenVars>>
     \/ /\ part = "startup" /\ StartupNext
        /\ UNCHANGED <<splitVars, answerVars, frameVars, tokenVars>>
     \/ /\ part = "token" /\ TokenNext
        /\ UNCHANGED <<splitVars, answerVars, frameVars, startupVars>>

partsVars == <<part, splitVars, answerVars, frameVars, startupVars, tokenVars>>
PartsSpec == PartsInit /\ [][PartsNext]_partsVars
=============================================================================
