---------------------------- MODULE Parts_proofs ----------------------------
(***************************************************************************)
(* Theorems about the parts of the system that stand alone: SplitMessage,  *)
(* Startup, TokenCache and DirectAnswer, in that order; and of the         *)
(* abstract specifications: DurableCursor, which the notification side     *)
(* implements, and Delivery, which Sending implements on every channel.    *)
(***************************************************************************)
EXTENDS SplitMessage, Startup, TokenCache, DirectAnswer, DurableCursor, Delivery,
        FiniteSetTheorems, TLAPS

(* What holds of the parts before the markers: none exceeds the budget,    *)
(* and a text that fits is its own only part.                              *)
PartsInBudget ==
  IF FitsInOne THEN parts = <<>> \/ parts = <<[from |-> 0, to |-> length]>>
  ELSE \A i \in DOMAIN parts : parts[i].to - parts[i].from <= Budget

SplitInv ==
  /\ SplitTypeOK /\ PartsMakeTheText /\ PartsInBudget
  /\ parts = <<>> => rest = 0

(* An element of a sequence over a set is in the set. *)
LEMMA ElementOf == ASSUME NEW S, NEW s \in Seq(S), NEW i \in 1..Len(s) PROVE s[i] \in S
  OBVIOUS

(* The budget is positive, and leaves twelve characters for the marker     *)
(* unless it is at its lower bound.                                        *)
LEMMA BudgetType ==
  ASSUME maxChars \in Int
  PROVE  /\ Budget \in Nat /\ Budget >= 1
         /\ maxChars > 12 => Budget <= maxChars - 12 \/ Budget = 1
  BY DEF Budget

(* A part ends after its beginning, within the budget. *)
LEMMA CutsProgress ==
  ASSUME SplitTypeOK, NEW cut \in Cuts
  PROVE  cut \in Nat /\ rest < cut /\ cut <= rest + Budget
<1>1. maxChars \in Int /\ rest \in Nat /\ breaks \subseteq Int
  BY DEF SplitTypeOK
<1>2. Budget \in Nat /\ Budget >= 1
  BY <1>1, BudgetType
<1>3. CASE NearBreaks = {}
  BY <1>1, <1>2, <1>3 DEF Cuts
<1>4. CASE NearBreaks # {}
  <2>1. PICK p \in NearBreaks : cut = p + 1
    BY <1>4 DEF Cuts, Latest
  <2>2. p \in Int /\ rest + Budget \div 2 <= p /\ p < rest + Budget
    BY <2>1, <1>1 DEF NearBreaks
  <2>3. Budget \div 2 \in Nat
    BY <1>2
  <2> QED
    BY <2>1, <2>2, <2>3, <1>1, <1>2
<1> QED
  BY <1>3, <1>4

(* One more part, from where the last one ended, and the parts follow on   *)
(* each other as before.                                                   *)
LEMMA OneMorePart ==
  ASSUME SplitInv, NEW cut \in Int, rest < cut, cut <= length,
         parts' = Append(parts, [from |-> rest, to |-> cut]),
         rest' = cut, length' = length
  PROVE  /\ parts' \in Seq([from : 0..length, to : 0..length])
         /\ parts' # <<>>
         /\ parts'[1].from = 0 /\ parts'[Len(parts')].to = rest'
         /\ \A i \in 1 .. Len(parts') - 1 : parts'[i + 1].from = parts'[i].to
         /\ \A i \in DOMAIN parts' : parts'[i].from < parts'[i].to
         /\ \A i \in DOMAIN parts' :
              (i \in DOMAIN parts /\ parts'[i] = parts[i])
                \/ parts'[i] = [from |-> rest, to |-> cut]
<1> DEFINE Part == [from : 0..length, to : 0..length]
           new  == [from |-> rest, to |-> cut]
<1>1. /\ length \in Nat /\ rest \in 0..length
      /\ parts \in Seq(Part)
  BY DEF SplitInv, SplitTypeOK
<1>2. new \in Part /\ length > 0
  BY <1>1
<1>3. /\ parts' \in Seq(Part) /\ Len(parts') = Len(parts) + 1
      /\ \A i \in 1..Len(parts) : parts'[i] = parts[i]
      /\ parts'[Len(parts) + 1] = new
      /\ Len(parts) \in Nat /\ DOMAIN parts = 1..Len(parts)
      /\ DOMAIN parts' = 1 .. Len(parts) + 1
  <2> HIDE DEF Part, new
  <2> QED
    BY <1>1, <1>2 DEF new
<1>4. /\ parts # <<>> => parts[1].from = 0 /\ parts[Len(parts)].to = rest
      /\ \A i \in 1 .. Len(parts) - 1 : parts[i + 1].from = parts[i].to
      /\ \A i \in DOMAIN parts : parts[i].from < parts[i].to
      /\ parts = <<>> => rest = 0
  BY <1>2 DEF SplitInv, PartsMakeTheText
<1>5. new.from = rest /\ new.to = cut
  OBVIOUS
<1> HIDE DEF Part, new
<1>6. parts' # <<>>
  BY <1>3
<1>7. parts'[1].from = 0
  <2>1. CASE parts = <<>>
    BY <2>1, <1>3, <1>4, <1>5
  <2>2. CASE parts # <<>>
    BY <2>2, <1>1, <1>3, <1>4
  <2> QED BY <2>1, <2>2
<1>8. parts'[Len(parts')].to = rest'
  BY <1>3, <1>5
<1>9. ASSUME NEW i \in 1 .. Len(parts') - 1
      PROVE  parts'[i + 1].from = parts'[i].to
  <2>1. CASE i = Len(parts)
    <3>1. parts # <<>> /\ parts'[i] = parts[i]
      BY <2>1, <1>1, <1>3
    <3> QED BY <3>1, <2>1, <1>3, <1>4, <1>5
  <2>2. CASE i # Len(parts)
    <3>0. Len(parts') = Len(parts) + 1 /\ Len(parts) \in Nat
      BY <1>3
    <3>1. i \in 1 .. Len(parts) - 1 /\ i \in 1..Len(parts) /\ i + 1 \in 1..Len(parts)
      BY <2>2, <3>0
    <3>2. parts'[i] = parts[i] /\ parts'[i + 1] = parts[i + 1]
      BY <3>1, <1>3
    <3> QED BY <3>1, <3>2, <1>4
  <2> QED BY <2>1, <2>2
<1>10. ASSUME NEW i \in DOMAIN parts'
       PROVE  \/ i \in DOMAIN parts /\ parts'[i] = parts[i]
              \/ i = Len(parts) + 1 /\ parts'[i] = new
  BY <1>3
<1>11. \A i \in DOMAIN parts' : parts'[i].from < parts'[i].to
  BY <1>4, <1>5, <1>10
<1> QED
  BY <1>3, <1>6, <1>7, <1>8, <1>9, <1>10, <1>11 DEF Part, new

(* The invariant holds before the first turn, every turn keeps it, and so  *)
(* it always holds.                                                        *)
LEMMA SplitInvInit == SplitInit => SplitInv
<1> SUFFICES ASSUME SplitInit PROVE SplitInv
  OBVIOUS
<1> USE DEF SplitInit
<1>1. breaks \subseteq 0 .. length - 1
  BY DEF kSubset
<1>2. SplitTypeOK
  <2>1. \A S : <<>> \in Seq(S)
    OBVIOUS
  <2>2. parts \in Seq([from : 0..length, to : 0..length])
    BY <2>1
  <2>3. length \in Nat /\ maxChars \in Int /\ rest \in 0..length
    BY SplitAssumption
  <2> QED BY <1>1, <2>2, <2>3 DEF SplitTypeOK
<1>3. PartsMakeTheText /\ PartsInBudget
  BY SplitAssumption DEF PartsMakeTheText, PartsInBudget
<1> QED BY <1>2, <1>3 DEF SplitInv

(* The last part of a text, or another one: both extend the parts by a     *)
(* stretch within the budget.                                              *)
LEMMA ExtendKeepsInv ==
  ASSUME SplitInv, ~FitsInOne, NEW cut \in Int, rest < cut, cut <= length,
         cut <= rest + Budget,
         parts' = Append(parts, [from |-> rest, to |-> cut]), rest' = cut,
         UNCHANGED inputs, split' \in BOOLEAN, split' => cut = length
  PROVE  SplitInv'
<1>1. /\ length' = length /\ breaks' = breaks /\ maxChars' = maxChars
  BY DEF inputs
<1>2. length \in Nat /\ rest \in 0..length /\ Budget' = Budget /\ Budget \in Nat
  BY <1>1, BudgetType DEF SplitInv, SplitTypeOK, Budget
<1>3. SplitTypeOK'
  BY <1>1, <1>2, OneMorePart DEF SplitInv, SplitTypeOK
<1>4. PartsMakeTheText'
  BY <1>1, <1>2, OneMorePart DEF PartsMakeTheText
<1>5. PartsInBudget'
  <2>1. ~FitsInOne'
    BY <1>1 DEF FitsInOne
  <2>2. ASSUME NEW i \in DOMAIN parts'
        PROVE  parts'[i].to - parts'[i].from <= Budget
    <3>1. CASE i \in DOMAIN parts /\ parts'[i] = parts[i]
      BY <3>1 DEF SplitInv, PartsInBudget
    <3>2. CASE parts'[i] = [from |-> rest, to |-> cut]
      BY <3>2, <1>2
    <3> QED BY <3>1, <3>2, <1>1, OneMorePart
  <2> QED BY <2>1, <2>2, <1>2 DEF PartsInBudget
<1>6. parts' # <<>>
  BY <1>1, OneMorePart
<1> QED BY <1>3, <1>4, <1>5, <1>6 DEF SplitInv

(* One case for each way out of a turn of the loop. *)
LEMMA SplitInvNext == SplitInv /\ [SplitNext]_splitVars => SplitInv'
<1> SUFFICES ASSUME SplitInv, [SplitNext]_splitVars PROVE SplitInv'
  OBVIOUS
<1>t. /\ length \in Nat /\ rest \in 0..length /\ maxChars \in Int
      /\ Budget \in Nat /\ Budget >= 1
  BY BudgetType DEF SplitInv, SplitTypeOK
<1>1. CASE ReturnWhole
  <2>1. /\ length' = length /\ breaks' = breaks /\ maxChars' = maxChars
        /\ parts' = <<[from |-> 0, to |-> length]>> /\ rest' = length /\ split' = TRUE
        /\ FitsInOne
    BY <1>1 DEF ReturnWhole, inputs
  <2>2. SplitTypeOK'
    BY <2>1, <1>t DEF SplitInv, SplitTypeOK
  <2>3. PartsMakeTheText'
    BY <2>1, <1>t DEF PartsMakeTheText
  <2>4. PartsInBudget'
    BY <2>1 DEF PartsInBudget, FitsInOne
  <2> QED BY <2>1, <2>2, <2>3, <2>4 DEF SplitInv
<1>2. CASE CutPart
  <2>1. PICK cut \in Cuts :
          parts' = Append(parts, [from |-> rest, to |-> cut]) /\ rest' = cut
    BY <1>2 DEF CutPart
  <2>2. cut \in Nat /\ rest < cut /\ cut <= rest + Budget
    BY CutsProgress DEF SplitInv
  <2>3. /\ ~FitsInOne /\ UNCHANGED inputs /\ split' = FALSE
        /\ length - rest > Budget
    BY <1>2 DEF CutPart
  <2>4. cut \in Int /\ cut <= length
    BY <2>2, <2>3, <1>t
  <2> QED BY <2>1, <2>2, <2>3, <2>4, ExtendKeepsInv
<1>3. CASE ReturnParts
  <2>1. /\ ~FitsInOne /\ UNCHANGED inputs /\ split' = TRUE /\ rest' = length
        /\ length - rest <= Budget
    BY <1>3 DEF ReturnParts
  <2>2. CASE rest < length
    <3>1. parts' = Append(parts, [from |-> rest, to |-> length])
      BY <1>3, <2>2 DEF ReturnParts
    <3> QED BY <3>1, <2>1, <2>2, <1>t, ExtendKeepsInv
  <2>3. CASE ~(rest < length)
    <3>1. parts' = parts /\ rest = length
      BY <1>3, <2>3, <1>t DEF ReturnParts
    <3>2. /\ length' = length /\ breaks' = breaks /\ maxChars' = maxChars
      BY <2>1 DEF inputs
    <3>3. parts # <<>>
      BY <3>1, <2>1, <1>t DEF SplitInv, FitsInOne
    <3> QED
      BY <3>1, <3>2, <3>3, <2>1 DEF SplitInv, SplitTypeOK, PartsMakeTheText, PartsInBudget,
        FitsInOne, Budget
  <2> QED BY <2>2, <2>3
<1>4. CASE UNCHANGED splitVars
  BY <1>4 DEF splitVars, SplitInv, SplitTypeOK, PartsMakeTheText, PartsInBudget,
    FitsInOne, Budget
<1> QED BY <1>1, <1>2, <1>3, <1>4 DEF SplitNext

(* The inductive invariant of the splitting of a text. *)
LEMMA SplitInvariant == SplitSpec => []SplitInv
  BY SplitInvInit, SplitInvNext, PTL DEF SplitSpec

(* The type invariant of the splitting of a text, for texts of any length  *)
(* and every limit.                                                        *)
THEOREM SplitTypeCorrect == SplitSpec => []SplitTypeOK
<1>1. SplitInv => SplitTypeOK
  BY DEF SplitInv
<1> QED BY <1>1, SplitInvariant, PTL

(* split_message drops and repeats nothing, and every turn of its loop     *)
(* takes something off the text.                                           *)
THEOREM NothingDropped == SplitSpec => []PartsMakeTheText
<1>1. SplitInv => PartsMakeTheText
  BY DEF SplitInv
<1> QED BY <1>1, SplitInvariant, PTL

(* A part within the budget leaves the room of a marker. *)
LEMMA Within ==
  ASSUME NEW a \in Nat, NEW b \in Nat, NEW k \in Nat, NEW m \in Int,
         b - a <= k, k <= m - 12
  PROVE  b - a \in Int /\ (b - a) + 12 <= m
  OBVIOUS

(* Every chunk of split_message respects the limit, marker included.       *)
THEOREM ChunksRespectLimit == SplitSpec => []ChunksFit
<1>1. SplitInv => ChunksFit
  <2> SUFFICES ASSUME SplitInv, split, maxChars > 12, Len(parts) < 10000,
                      NEW i \in DOMAIN parts
               PROVE  ChunkLength(i) <= maxChars
    BY DEF ChunksFit
  <2>1. /\ maxChars \in Int /\ length \in Nat
        /\ parts \in Seq([from : 0..length, to : 0..length])
        /\ Budget \in Nat /\ Budget <= maxChars - 12
    BY BudgetType DEF SplitInv, SplitTypeOK, Budget
  <2>2. /\ Len(parts) \in Nat /\ i \in 1..Len(parts)
        /\ parts[i].from \in 0..length /\ parts[i].to \in 0..length
    <3>1. Len(parts) \in Nat /\ i \in 1..Len(parts)
      BY <2>1
    <3> DEFINE Part == [from : 0..length, to : 0..length]
    <3>2. parts \in Seq(Part)
      BY <2>1
    <3>3. \A p \in Part : p.from \in 0..length /\ p.to \in 0..length
      OBVIOUS
    <3> HIDE DEF Part
    <3>4. parts[i] \in Part
      BY <3>1, <3>2, ElementOf
    <3> QED BY <3>1, <3>3, <3>4
  <2>3. Digits(i) \in 1..4 /\ Digits(Len(parts)) \in 1..4
    BY DEF Digits
  <2>4. CASE FitsInOne
    <3>1. parts = <<[from |-> 0, to |-> length]>> /\ length <= maxChars
      BY <2>4, <2>2, <2>1 DEF SplitInv, PartsInBudget, FitsInOne
    <3>2. Len(parts) = 1 /\ i = 1 /\ parts[i].from = 0 /\ parts[i].to = length
      BY <3>1, <2>2
    <3> QED BY <3>1, <3>2, <2>1 DEF ChunkLength
  <2>5. CASE ~FitsInOne
    <3>1. parts[i].to - parts[i].from <= Budget
      BY <2>5 DEF SplitInv, PartsInBudget
    <3> DEFINE size == parts[i].to - parts[i].from
               mark == Digits(i) + Digits(Len(parts)) + 4
    <3>2. size \in Int /\ size + 12 <= maxChars
      <4>1. parts[i].from \in Nat /\ parts[i].to \in Nat
        BY <2>1, <2>2
      <4> HIDE DEF size
      <4>2. Budget \in Nat /\ maxChars \in Int /\ Budget <= maxChars - 12
        BY <2>1
      <4> QED BY <3>1, <4>1, <4>2, Within DEF size
    <3>3. mark \in 0..12
      BY <2>3
    <3>4. ChunkLength(i) = size + (IF Len(parts) > 1 THEN mark ELSE 0)
      BY DEF ChunkLength
    <3> HIDE DEF size, mark
    <3> QED BY <3>2, <3>3, <3>4, <2>1
  <2> QED BY <2>4, <2>5
<1> QED BY <1>1, SplitInvariant, PTL

-----------------------------------------------------------------------------
(***************************************************************************)
(* The properties of a launch for all settings, files and channels.  What  *)
(* a launch reads is a function of its environment, files and --only:      *)
(* Final is the configuration it comes to, so that what --check has seen   *)
(* is what a later launch sees.                                            *)
(***************************************************************************)

Final ==
  IF only = NoTarget THEN Enabled(Filled(env))
  ELSE [c \in {only} |-> Enabled(Filled(env))[c]]

(* What --only names is there. *)
Chosen == only = NoTarget \/ only \in Known \cap DOMAIN file.channels

Validated == pc \in {"server", "channels", "running"}

(* What the process has read at each place. *)
HasRead ==
  /\ pc = "dotenv" => environ = env
  /\ pc \in {"config"} => environ = Filled(env)
  /\ pc = "only" => channels = Enabled(Filled(env))
  /\ pc = "mode" \/ Validated => Chosen /\ channels = Final

HasStarted ==
  /\ Validated => ~Errors(channels)
  /\ started # {} => pc \in {"channels", "running"} /\ started \subseteq DOMAIN channels

(* Why a launch ended with 2, and why one after a check does not. *)
HasEnded ==
  /\ pc = "exited" /\ exit = 2 => ~Chosen \/ (channels = Final /\ Errors(Final))
  /\ passed => exit # 2 /\ Chosen /\ ~Errors(Final)

StartupInv == HasRead /\ HasStarted /\ HasEnded

-----------------------------------------------------------------------------
(* What no action but Launch changes. *)
LEMMA SameConfig ==
  ASSUME UNCHANGED <<settings, only>>
  PROVE  /\ Final' = Final /\ (Chosen' <=> Chosen) /\ env' = env /\ file' = file
         /\ Filled(env)' = Filled(env) /\ Enabled(Filled(env))' = Enabled(Filled(env))
         /\ Errors(Final)' <=> Errors(Final)
  BY DEF settings, Final, Chosen, Filled, Enabled, Setting, Errors

LEMMA FinalDomain == only # NoTarget => DOMAIN Final = {only}
  BY DEF Final

LEMMA StartupInvInit == StartupInit => StartupInv
  BY DEF StartupInit, StartupInv, HasRead, HasStarted, HasEnded, Validated

LEMMA LaunchInv ==
  ASSUME StartupInv, NEW m, NEW target, Launch(m, target)
  PROVE  StartupInv'
<1>1. /\ pc' = "dotenv" /\ environ' = env' /\ started' = {} /\ exit' = exit
      /\ passed' => passed /\ UNCHANGED <<settings, only>>
  BY DEF Launch, settings
<1>2. passed' => (exit # 2 /\ Chosen /\ ~Errors(Final))'
  BY <1>1, SameConfig DEF StartupInv, HasEnded
<1> QED BY <1>1, <1>2 DEF StartupInv, HasRead, HasStarted, HasEnded, Validated

LEMMA ReadsInv ==
  ASSUME StartupInv, LoadDotenv \/ LoadConfig PROVE StartupInv'
  BY SameConfig
  DEF StartupInv, HasRead, HasStarted, HasEnded, Validated, LoadDotenv, LoadConfig

LEMMA OnlyInv ==
  ASSUME StartupInv, ApplyOnly PROVE StartupInv'
<1>1. pc = "only" /\ channels = Enabled(Filled(env)) /\ started = {}
  BY DEF StartupInv, HasRead, HasStarted, ApplyOnly
<1>2. DOMAIN channels = DOMAIN file.channels
  BY <1>1 DEF Enabled
<1>3. UNCHANGED <<settings, only, environ, started, passed>>
  BY DEF ApplyOnly
<1>4. \/ pc' = "mode" /\ exit' = exit /\ Chosen /\ channels' = Final
      \/ pc' = "exited" /\ exit' = 2 /\ ~Chosen
  BY <1>1, <1>2 DEF ApplyOnly, Chosen, Final, Exit
<1> QED BY <1>1, <1>3, <1>4, SameConfig
        DEF StartupInv, HasRead, HasStarted, HasEnded, Validated

LEMMA ModesInv ==
  ASSUME StartupInv, Check \/ (\E c \in Known : TestNotify(c)) PROVE StartupInv'
<1>1. /\ pc = "mode" /\ pc' = "exited" /\ exit' \in {0, 1}
      /\ passed' => passed \/ ~Errors(channels)
      /\ UNCHANGED <<settings, only, channels, started>>
  <2>1. CASE Check
    <3>1. PICK ok \in BOOLEAN : /\ ok => ~Errors(channels)
                               /\ Exit(IF ok THEN 0 ELSE 1) /\ passed' = (passed \/ ok)
      BY <2>1, Zenon DEF Check
    <3>2. passed' => passed \/ ~Errors(channels)
      BY <3>1, Zenon
    <3> QED BY <2>1, <3>1, <3>2 DEF Check, Exit
  <2>2. CASE \E c \in Known : TestNotify(c)
    BY <2>2 DEF TestNotify, Exit
  <2> QED BY <2>1, <2>2
<1> QED BY <1>1, SameConfig
        DEF StartupInv, HasRead, HasStarted, HasEnded, Validated

LEMMA RunsInv ==
  ASSUME StartupInv,
         Validate \/ StartServer \/ (\E c \in DOMAIN channels : StartChannel(c)) \/ Runs \/ Stop
  PROVE  StartupInv'
<1>1. UNCHANGED <<settings, only, channels, passed>>
  BY DEF Validate, StartServer, StartChannel, Runs, Stop
<1>2. (Errors(channels)' <=> Errors(channels)) /\ (Final' = Final)
  BY <1>1, SameConfig DEF Errors, settings
<1>3. CASE Validate
  BY <1>1, <1>2, <1>3, SameConfig
  DEF Validate, Exit, StartupInv, HasRead, HasStarted, HasEnded, Validated
<1>4. CASE StartServer
  BY <1>1, <1>2, <1>4, SameConfig
  DEF StartServer, Exit, StartupInv, HasRead, HasStarted, HasEnded, Validated
<1>5. CASE \E c \in DOMAIN channels : StartChannel(c)
  BY <1>1, <1>2, <1>5, SameConfig
  DEF StartChannel, Exit, StartupInv, HasRead, HasStarted, HasEnded, Validated
<1>6. CASE Runs \/ Stop
  BY <1>1, <1>2, <1>6, SameConfig
  DEF Runs, Stop, Exit, StartupInv, HasRead, HasStarted, HasEnded, Validated
<1> QED BY <1>3, <1>4, <1>5, <1>6

LEMMA StartupInvariant == StartupSpec => []StartupInv
<1>1. StartupInv /\ [StartupNext]_startupVars => StartupInv'
  <2> SUFFICES ASSUME StartupInv, [StartupNext]_startupVars PROVE StartupInv'
    OBVIOUS
  <2>1. CASE UNCHANGED startupVars
    BY <2>1, SameConfig DEF startupVars, StartupInv, HasRead, HasStarted, HasEnded, Validated,
       Errors, settings
  <2>2. CASE StartupNext
    BY <2>2, LaunchInv, ReadsInv, OnlyInv, ModesInv, RunsInv DEF StartupNext
  <2> QED BY <2>1, <2>2
<1> QED BY StartupInvInit, <1>1, PTL DEF StartupSpec

-----------------------------------------------------------------------------
(* What validate lets pass is enough for the channel (StartedIsUsable).    *)
LEMMA SoundIsUsable ==
  ASSUME NEW c, NEW s, ~Faulty(c, s)
  PROVE  \/ Warned(c, s)
         \/ SendsTo(c, s) = "conversation" /\ Takes(c, s)
         \/ SendsTo(c, s) = "group of the webhook" /\ ~Takes(c, s)
<1>1. c \in {"feishu", "qq", "qq_official", "woa", "console", "webhook"}
  BY DEF Faulty, Known, Keys
<1>2. CASE c = "feishu"
  BY <1>2 DEF Faulty, Warned, SendsTo, Takes, Keys
<1>3. CASE c \in {"qq", "qq_official", "woa"}
  BY <1>3 DEF Faulty, Warned, SendsTo, Takes, Keys
<1>4. CASE c \in {"console", "webhook"}
  BY <1>4 DEF SendsTo, Takes, Keys
<1> QED BY <1>1, <1>2, <1>3, <1>4

(* A channel that has been started can send, and what it takes from a      *)
(* conversation it answers there, or the launch has warned of it: what     *)
(* validate lets pass is enough for the channels.                          *)
THEOREM StartedCorrect == StartupSpec => []StartedIsUsable
<1>1. StartupInv => StartedIsUsable
  BY SoundIsUsable DEF StartupInv, HasStarted, StartedIsUsable, Validated, Errors
<1> QED BY StartupInvariant, <1>1, PTL

(* With --only no other channel starts, and the settings of no other one   *)
(* keep the one it names from starting.                                    *)
THEOREM OnlyCorrect == StartupSpec => []OnlyIsolates
<1>1. StartupInv => OnlyIsolates
  <2> SUFFICES ASSUME StartupInv, only # NoTarget PROVE OnlyIsolates
    BY DEF OnlyIsolates
  <2>1. started \subseteq {only}
    BY FinalDomain DEF StartupInv, HasRead, HasStarted, Validated
  <2>2. ASSUME pc = "exited", exit = 2, only \in Known \cap DOMAIN file.channels
        PROVE  file.conflict \/ Faulty(only, channels[only])
    BY <2>2, FinalDomain DEF StartupInv, HasEnded, Chosen, Errors
  <2> QED BY <2>1, <2>2 DEF OnlyIsolates
<1> QED BY StartupInvariant, <1>1, PTL

(* A configuration that --check has passed is not refused by a launch.     *)
THEOREM CheckedCorrect == StartupSpec => []CheckedStarts
<1>1. StartupInv => CheckedStarts
  BY DEF StartupInv, HasEnded, CheckedStarts
<1> QED BY StartupInvariant, <1>1, PTL

-----------------------------------------------------------------------------
(***************************************************************************)
(* TokenIsValid for any number of threads, any margins and any lives that  *)
(* TokenAssumption allows.  A call takes at most Timeout, and what the     *)
(* cache gives out lasts longer than that, unless the cache is Confused.   *)
(* Time does not pass between the two assignments of a thread, so as long  *)
(* as one is between them the cache holds a token that is fresh.           *)
(***************************************************************************)

Pcs == {"free", "asking", "answered", "writing", "returning", "posting"}

ThreadType == [pc : Pcs, since : Nat, got : Nat, life : Nat, used : Nat, confused : BOOLEAN]

Types ==
  /\ now \in Nat /\ ends \in Seq(Nat) /\ expires \in Int
  /\ token \in 0 .. Len(ends) /\ owner \in 0 .. Len(ends)
  /\ thread \in [Threads -> ThreadType]
  /\ \A t \in Threads : thread[t].got \in 0 .. Len(ends) /\ thread[t].used \in 0 .. Len(ends)

(* A token that lasts for one more call. *)
Lasts(k) == k # 0 /\ ends[k] >= now + Timeout

(* What is known of thread t at each place of its code. *)
InTime(t) ==
  thread[t].pc \in {"asking", "answered", "writing", "posting"} =>
    thread[t].since <= now /\ now <= thread[t].since + Timeout

Asked(t) ==
  /\ thread[t].pc \in {"free", "asking"} => thread[t].got = 0
  /\ thread[t].pc \in {"answered", "writing"} =>
       /\ thread[t].got # 0
       /\ ends[thread[t].got] >= thread[t].since + 2 * Timeout
       /\ ends[thread[t].got] >= thread[t].since + thread[t].life

Cached(t) ==
  /\ thread[t].pc = "writing" => Lasts(token)
  /\ thread[t].pc = "returning" =>
       /\ token # 0 /\ (Confused \/ Lasts(token))
       /\ thread[t].got # 0 => Lasts(thread[t].got)

Covers(t) ==
  thread[t].pc = "posting" =>
    /\ thread[t].used # 0
    /\ thread[t].confused \/ ends[thread[t].used] >= thread[t].since + Timeout

(* The expiry leaves the margin to the end of the token it was written for. *)
Margin ==
  /\ owner = 0 => expires = 0
  /\ owner # 0 => expires + StoreMargin <= ends[owner]

TokenInv ==
  /\ Types /\ Margin
  /\ \A t \in Threads : InTime(t) /\ Asked(t) /\ Cached(t) /\ Covers(t)

-----------------------------------------------------------------------------
(* Appending to the tokens of the service leaves the others as they are. *)
LEMMA Appended ==
  ASSUME NEW s \in Seq(Nat), NEW n \in Nat
  PROVE  /\ Append(s, n) \in Seq(Nat) /\ Len(Append(s, n)) = Len(s) + 1
         /\ Append(s, n)[Len(s) + 1] = n
         /\ \A i \in 1 .. Len(s) : Append(s, n)[i] = s[i]
  OBVIOUS

LEMMA TokenInvInit == TokenInit => TokenInv
  BY TokenAssumption DEF TokenInit, TokenInv, Types, Margin, InTime, Asked, Cached, Covers,
     Free, ThreadType, Pcs

(* A thread that does nothing keeps what is known of it: while the cache is *)
(* as it was, and when it is given a token that lasts.                       *)
LEMMA Unmoved ==
  ASSUME NEW t \in Threads, thread'[t] = thread[t], UNCHANGED <<now, ends, token, owner>>,
         InTime(t), Asked(t), Cached(t), Covers(t)
  PROVE  (InTime(t) /\ Asked(t) /\ Cached(t) /\ Covers(t))'
<1>1. (Confused' <=> Confused) /\ \A k : Lasts(k)' <=> Lasts(k)
  BY DEF Confused, Lasts
<1>2. (InTime(t) /\ Asked(t) /\ Covers(t))'
  BY DEF InTime, Asked, Covers
<1>3. Cached(t)'
  BY <1>1 DEF Cached, Lasts
<1> QED BY <1>2, <1>3

LEMMA Refreshed ==
  ASSUME NEW t \in Threads, thread'[t] = thread[t], UNCHANGED <<now, ends>>,
         Lasts(token)', InTime(t), Asked(t), Cached(t), Covers(t)
  PROVE  (InTime(t) /\ Asked(t) /\ Cached(t) /\ Covers(t))'
<1>1. (InTime(t) /\ Asked(t) /\ Covers(t))'
  BY DEF InTime, Asked, Covers
<1>2. token' # 0 /\ Lasts(thread[t].got)' = Lasts(thread[t].got)
  BY DEF Lasts
<1>3. Cached(t)'
  BY <1>2 DEF Cached, Lasts
<1> QED BY <1>1, <1>3

LEMMA TickInv == ASSUME TokenInv, Tick PROVE TokenInv'
<1>1. now' = now + 1 /\ UNCHANGED <<ends, token, expires, thread, owner>>
  BY DEF Tick
<1>2. Types' /\ Margin'
  BY <1>1 DEF TokenInv, Types, Margin
<1>3. ASSUME NEW t \in Threads PROVE (InTime(t) /\ Asked(t) /\ Cached(t) /\ Covers(t))'
  <2>1. thread[t].since \in Nat /\ now \in Nat /\ Timeout \in Nat
    BY TokenAssumption DEF TokenInv, Types, ThreadType
  <2>2. InTime(t)'
    BY <1>1, <2>1 DEF Tick, TokenInv, InTime
  <2>3. (Asked(t) /\ Covers(t))'
    BY <1>1 DEF TokenInv, Asked, Covers
  <2>4. Cached(t)'
    BY <1>1 DEF Tick, Cached
  <2> QED BY <2>2, <2>3, <2>4
<1> QED BY <1>2, <1>3 DEF TokenInv

LEMMA LooksInv == ASSUME TokenInv, NEW u \in Threads, Looks(u) PROVE TokenInv'
<1> USE TokenAssumption
<1>1. PICK place \in {"returning", "asking"} :
        /\ place = "returning" => token # 0 /\ expires > now + CheckMargin
        /\ Enters(u, place)
  BY DEF Looks
<1>2. thread[u].pc = "free" /\ UNCHANGED <<now, ends, token, expires, owner>>
  BY DEF Looks
<1>3. /\ thread' \in [Threads -> ThreadType]
      /\ thread'[u].pc = place /\ thread'[u].since = now
      /\ thread'[u].got = thread[u].got /\ thread'[u].life = thread[u].life
      /\ thread'[u].used = thread[u].used /\ thread'[u].confused = thread[u].confused
      /\ \A t \in Threads \ {u} : thread'[t] = thread[t]
  BY <1>1 DEF Enters, TokenInv, Types, ThreadType, Pcs
<1>4. place = "returning" => Confused \/ Lasts(token)
  BY <1>1 DEF TokenInv, Types, Margin, Confused, Slack, Lasts
<1>5. (Confused' <=> Confused) /\ \A k \in Nat : Lasts(k)' <=> Lasts(k)
  BY <1>2 DEF Confused, Lasts
<1>6. Types' /\ Margin'
  BY <1>2, <1>3 DEF TokenInv, Types, Margin, ThreadType
<1>7. ASSUME NEW t \in Threads PROVE (InTime(t) /\ Asked(t) /\ Cached(t) /\ Covers(t))'
  <2>1. CASE t = u
    BY <1>1, <1>2, <1>3, <1>4, <1>5, <2>1
    DEF TokenInv, Types, ThreadType, InTime, Asked, Cached, Covers
  <2>2. CASE t # u
    BY <1>2, <1>3, <2>2, Unmoved DEF TokenInv
  <2> QED BY <2>1, <2>2
<1> QED BY <1>6, <1>7 DEF TokenInv

LEMMA FailsInv == ASSUME TokenInv, NEW u \in Threads, Fails(u) PROVE TokenInv'
  BY TokenAssumption DEF Fails, Free, TokenInv, Types, Margin, InTime, Asked, Cached, Covers,
     Lasts, Confused, Slack, ThreadType, Pcs

LEMMA PostsInv == ASSUME TokenInv, NEW u \in Threads, Posts(u) PROVE TokenInv'
  BY TokenAssumption DEF Posts, Free, TokenInv, Types, Margin, InTime, Asked, Cached, Covers,
     Lasts, Confused, Slack, ThreadType, Pcs

LEMMA WritesTokenInv == ASSUME TokenInv, NEW u \in Threads, WritesToken(u) PROVE TokenInv'
<1> USE TokenAssumption
<1>1. /\ thread[u].pc = "answered" /\ token' = thread[u].got
      /\ UNCHANGED <<now, ends, expires, owner>>
      /\ thread' \in [Threads -> ThreadType]
      /\ thread'[u].pc = "writing" /\ thread'[u].since = thread[u].since
      /\ thread'[u].got = thread[u].got /\ thread'[u].life = thread[u].life
      /\ thread'[u].used = thread[u].used /\ thread'[u].confused = thread[u].confused
      /\ \A t \in Threads \ {u} : thread'[t] = thread[t]
  BY DEF WritesToken, TokenInv, Types, ThreadType, Pcs
<1>2. Lasts(token)'
  BY <1>1 DEF TokenInv, Types, ThreadType, InTime, Asked, Lasts
<1>3. \A k \in Nat : Lasts(k)' <=> Lasts(k)
  BY <1>1 DEF Lasts
<1>4. Types' /\ Margin'
  BY <1>1 DEF TokenInv, Types, Margin, ThreadType
<1>5. token' # 0
  BY <1>2 DEF Lasts
<1>6. ASSUME NEW t \in Threads PROVE (InTime(t) /\ Asked(t) /\ Cached(t) /\ Covers(t))'
  <2>1. CASE t = u
    BY <1>1, <1>2, <2>1 DEF TokenInv, Types, ThreadType, InTime, Asked, Cached, Covers
  <2>2. CASE t # u
    BY <1>1, <1>2, <2>2, Refreshed DEF TokenInv
  <2> QED BY <2>1, <2>2
<1> QED BY <1>4, <1>6 DEF TokenInv

LEMMA WritesExpiryInv == ASSUME TokenInv, NEW u \in Threads, WritesExpiry(u) PROVE TokenInv'
<1> USE TokenAssumption
<1>1. /\ thread[u].pc = "writing" /\ UNCHANGED <<now, ends, token>>
      /\ thread' \in [Threads -> ThreadType]
      /\ \A t \in Threads \ {u} : thread'[t] = thread[t]
      /\ thread'[u] = Free \/
         /\ thread'[u].pc = "returning" /\ thread'[u].since = thread[u].since
         /\ thread'[u].got = thread[u].got /\ thread'[u].life = thread[u].life
         /\ thread'[u].used = thread[u].used /\ thread'[u].confused = thread[u].confused
  <2>1. CASE thread' = [thread EXCEPT ![u].pc = "returning"]
    <3>1. thread \in [Threads -> ThreadType]
      BY DEF TokenInv, Types
    <3>2. [thread[u] EXCEPT !.pc = "returning"] \in ThreadType
      BY <3>1 DEF ThreadType, Pcs
    <3>3. thread' \in [Threads -> ThreadType]
      BY <2>1, <3>1, <3>2
    <3>4. /\ \A t \in Threads \ {u} : thread'[t] = thread[t]
          /\ thread'[u] = [thread[u] EXCEPT !.pc = "returning"]
      BY <2>1, <3>1
    <3> QED BY <3>1, <3>3, <3>4 DEF WritesExpiry, ThreadType
  <2>2. CASE thread' = [thread EXCEPT ![u] = Free]
    <3>1. Free \in ThreadType
      BY DEF Free, ThreadType, Pcs
    <3> QED BY <2>2, <3>1 DEF WritesExpiry, TokenInv, Types
  <2> QED BY <2>1, <2>2 DEF WritesExpiry
<1>2. \/ expires' = thread[u].since + thread[u].life - StoreMargin /\ owner' = thread[u].got
      \/ UNCHANGED <<expires, owner>>
  BY DEF WritesExpiry
<1>3. Lasts(token) /\ Lasts(thread[u].got)
  <2>1. /\ Lasts(token) /\ thread[u].got # 0
        /\ thread[u].since <= now /\ now <= thread[u].since + Timeout
        /\ ends[thread[u].got] >= thread[u].since + 2 * Timeout
    BY <1>1 DEF TokenInv, InTime, Asked, Cached
  <2>2. thread[u].since \in Nat /\ now \in Nat /\ thread[u].got \in 1 .. Len(ends)
    BY <2>1 DEF TokenInv, Types, ThreadType
  <2>3. ends[thread[u].got] \in Nat
    BY <2>2 DEF TokenInv, Types
  <2> QED BY <2>1, <2>2, <2>3 DEF Lasts
<1>4. Lasts(token)' /\ \A k \in Nat : Lasts(k)' <=> Lasts(k)
  BY <1>1, <1>3 DEF Lasts
<1>5. Types'
  <2>1. now' \in Nat /\ ends' \in Seq(Nat) /\ token' \in 0 .. Len(ends')
    BY <1>1 DEF TokenInv, Types
  <2>2. expires' \in Int /\ owner' \in 0 .. Len(ends')
    BY <1>1, <1>2 DEF TokenInv, Types, ThreadType
  <2>3. ASSUME NEW t \in Threads
        PROVE  thread'[t].got \in 0 .. Len(ends') /\ thread'[t].used \in 0 .. Len(ends')
    BY <1>1 DEF TokenInv, Types, Free
  <2> QED BY <1>1, <2>1, <2>2, <2>3 DEF Types
<1>6. Margin'
  <2>1. /\ thread[u].got \in 0 .. Len(ends) /\ thread[u].got # 0
        /\ ends[thread[u].got] >= thread[u].since + thread[u].life
    BY <1>1 DEF TokenInv, Types, Asked
  <2>2. /\ thread[u].since \in Nat /\ thread[u].life \in Nat
        /\ ends[thread[u].got] \in Nat
    BY <2>1 DEF TokenInv, Types, ThreadType
  <2>3. Margin /\ StoreMargin \in Nat
    BY TokenAssumption DEF TokenInv
  <2> HIDE TokenAssumption
  <2> QED BY <1>1, <1>2, <2>1, <2>2, <2>3 DEF Margin
<1>7. token' # 0
  BY <1>4 DEF Lasts
<1>8. ASSUME NEW t \in Threads PROVE (InTime(t) /\ Asked(t) /\ Cached(t) /\ Covers(t))'
  <2>1. CASE t = u
    <3>1. CASE thread'[u] = Free
      BY <2>1, <3>1 DEF InTime, Asked, Cached, Covers, Free
    <3>2. CASE thread'[u] # Free
      <4>1. thread'[t].pc = "returning" /\ thread'[t].got = thread[u].got
        BY <1>1, <2>1, <3>2
      <4>2. (InTime(t) /\ Asked(t) /\ Covers(t))'
        BY <4>1 DEF InTime, Asked, Covers
      <4>3. thread[u].got # 0 /\ ends'[thread[u].got] >= now' + Timeout
        BY <1>1, <1>3 DEF Lasts
      <4>4. Cached(t)'
        BY <1>4, <1>7, <4>1, <4>3 DEF Cached, Lasts
      <4> QED BY <4>2, <4>4
    <3> QED BY <3>1, <3>2
  <2>2. CASE t # u
    BY <1>1, <1>4, <2>2, Refreshed DEF TokenInv
  <2> QED BY <2>1, <2>2
<1> QED BY <1>5, <1>6, <1>8 DEF TokenInv

LEMMA ReturnsInv == ASSUME TokenInv, NEW u \in Threads, Returns(u) PROVE TokenInv'
<1> USE TokenAssumption
<1>1. PICK own \in BOOLEAN :
        /\ own => thread[u].got # 0
        /\ thread' = [thread EXCEPT ![u] =
                        [@ EXCEPT !.pc = "posting", !.since = now,
                                  !.used = IF own THEN thread[u].got ELSE token,
                                  !.confused = ~own /\ Confused]]
  BY DEF Returns
<1>2. thread[u].pc = "returning" /\ UNCHANGED <<now, ends, token, expires, owner>>
  BY DEF Returns
<1> DEFINE used == IF own THEN thread[u].got ELSE token
<1>3. used # 0 /\ used \in 0 .. Len(ends) /\ ((~own /\ Confused) \/ Lasts(used))
  BY <1>1, <1>2 DEF TokenInv, Types, ThreadType, Cached
<1>4. (~own /\ Confused) \in BOOLEAN
  BY Zenon DEF Confused
<1> HIDE DEF used
<1> PICK confused \in BOOLEAN : confused = (~own /\ Confused)
  BY <1>4
<1>5. /\ thread' \in [Threads -> ThreadType]
      /\ thread'[u].pc = "posting" /\ thread'[u].since = now
      /\ thread'[u].used = used /\ thread'[u].confused = confused
      /\ thread'[u].got = thread[u].got /\ thread'[u].life = thread[u].life
      /\ \A t \in Threads \ {u} : thread'[t] = thread[t]
  <2>1. /\ thread \in [Threads -> ThreadType] /\ now \in Nat /\ used \in Nat
    BY <1>3 DEF TokenInv, Types
  <2>2. thread' = [thread EXCEPT ![u] = [@ EXCEPT !.pc = "posting", !.since = now, !.used = used,
                                                  !.confused = confused]]
    BY <1>1, Zenon DEF used
  <2> QED BY <2>1, <2>2 DEF ThreadType, Pcs
<1>6. (Confused' <=> Confused) /\ \A k \in Nat : Lasts(k)' <=> Lasts(k)
  BY <1>2 DEF Confused, Lasts
<1>7. Types' /\ Margin'
  BY <1>2, <1>3, <1>5 DEF TokenInv, Types, Margin, ThreadType
<1>8. confused \/ ends[used] >= now + Timeout
  BY <1>3 DEF Lasts
<1>9. ASSUME NEW t \in Threads PROVE (InTime(t) /\ Asked(t) /\ Cached(t) /\ Covers(t))'
  <2>1. CASE t = u
    <3>1. thread'[t].pc = "posting"
      BY <1>5, <2>1
    <3>2. (InTime(t) /\ Asked(t) /\ Cached(t))'
      BY <1>2, <1>5, <2>1, <3>1, TokenAssumption DEF TokenInv, Types, InTime, Asked, Cached
    <3>3. Covers(t)'
      BY <1>2, <1>3, <1>5, <1>8, <2>1 DEF Covers
    <3> QED BY <3>2, <3>3
  <2>2. CASE t # u
    BY <1>2, <1>5, <2>2, Unmoved DEF TokenInv
  <2> QED BY <2>1, <2>2
<1> QED BY <1>7, <1>9 DEF TokenInv

LEMMA ServiceAnswersInv ==
  ASSUME TokenInv, NEW u \in Threads, ServiceAnswers(u) PROVE TokenInv'
<1> USE TokenAssumption
<1>1. thread[u].pc = "asking" /\ UNCHANGED <<now, token, expires, owner>>
  BY DEF ServiceAnswers
<1> DEFINE Handed(life, got) ==
      /\ got # 0 /\ got \in 0 .. Len(ends')
      /\ ends' \in Seq(Nat) /\ Len(ends') >= Len(ends)
      /\ \A i \in 1 .. Len(ends) : ends'[i] = ends[i]
      /\ ends'[got] = now + life /\ life >= 2 * Timeout
      /\ thread' = [thread EXCEPT ![u] = [@ EXCEPT !.pc = "answered", !.got = got, !.life = life]]
<1>2. PICK life \in Nat, got \in Nat : Handed(life, got)
  <2>1. ASSUME NEW life \in Lives, ends' = Append(ends, now + life),
               thread' = [thread EXCEPT ![u] = [@ EXCEPT !.pc = "answered",
                                                  !.got = Len(ends) + 1, !.life = life]]
        PROVE  life \in Nat /\ Len(ends) + 1 \in Nat /\ Handed(life, Len(ends) + 1)
    <3>1. life \in Nat /\ life >= 2 * Timeout /\ now + life \in Nat
      BY DEF TokenInv, Types
    <3>2. Len(ends) \in Nat /\ ends \in Seq(Nat)
      BY DEF TokenInv, Types
    <3>3. /\ ends' \in Seq(Nat) /\ Len(ends') = Len(ends) + 1
          /\ ends'[Len(ends) + 1] = now + life
          /\ \A i \in 1 .. Len(ends) : ends'[i] = ends[i]
      BY <2>1, <3>1, <3>2, Appended
    <3> QED BY <2>1, <3>1, <3>2, <3>3
  <2>2. ASSUME ends # <<>>, ends[Len(ends)] - now >= 2 * Timeout, UNCHANGED ends,
               thread' = [thread EXCEPT ![u] = [@ EXCEPT !.pc = "answered", !.got = Len(ends),
                                                  !.life = ends[Len(ends)] - now]]
        PROVE  /\ ends[Len(ends)] - now \in Nat /\ Len(ends) \in Nat
               /\ Handed(ends[Len(ends)] - now, Len(ends))
    <3>1. ends \in Seq(Nat) /\ Len(ends) \in Nat /\ Len(ends) # 0 /\ now \in Nat
      BY <2>2 DEF TokenInv, Types
    <3>2. ends[Len(ends)] \in Nat
      BY <3>1
    <3> QED BY <2>2, <3>1, <3>2
  <2> QED BY <2>1, <2>2 DEF ServiceAnswers
<1>3. /\ got # 0 /\ got \in 0 .. Len(ends')
      /\ ends' \in Seq(Nat) /\ Len(ends') >= Len(ends)
      /\ \A i \in 1 .. Len(ends) : ends'[i] = ends[i]
      /\ ends'[got] = now + life /\ life >= 2 * Timeout
  BY <1>2, Zenon
<1>4. /\ thread' \in [Threads -> ThreadType]
      /\ thread'[u].pc = "answered" /\ thread'[u].got = got
      /\ thread'[u].life = life /\ thread'[u].since = thread[u].since
      /\ thread'[u].used = thread[u].used /\ thread'[u].confused = thread[u].confused
      /\ \A t \in Threads \ {u} : thread'[t] = thread[t]
  BY <1>2 DEF TokenInv, Types, ThreadType, Pcs
<1> HIDE DEF Handed
<1> /\ Len(ends) \in Nat /\ now \in Nat /\ token \in 0 .. Len(ends)
    /\ owner \in 0 .. Len(ends) /\ expires \in Int /\ ends \in Seq(Nat)
  BY DEF TokenInv, Types
<1>0. \A k \in 0 .. Len(ends) : k # 0 => ends[k] \in Nat /\ ends'[k] = ends[k]
  BY <1>3
<1>5. \A k \in 0 .. Len(ends) : Lasts(k) => Lasts(k)'
  BY <1>0, <1>1 DEF Lasts
<1>6. token # 0 /\ Confused => Confused'
  BY <1>0, <1>1 DEF Confused
<1>7. Types'
  <2>1. Len(ends') \in Nat
    BY <1>3
  <2>2. ASSUME NEW t \in Threads
        PROVE  thread'[t].got \in 0 .. Len(ends') /\ thread'[t].used \in 0 .. Len(ends')
    <3>1. thread[t].got \in 0 .. Len(ends) /\ thread[t].used \in 0 .. Len(ends)
      BY DEF TokenInv, Types
    <3>2. CASE t = u
      BY <1>3, <1>4, <2>1, <3>1, <3>2
    <3>3. CASE t # u
      BY <1>3, <1>4, <2>1, <3>1, <3>3
    <3> QED BY <3>2, <3>3
  <2> QED BY <1>1, <1>3, <1>4, <2>1, <2>2 DEF TokenInv, Types
<1>8. Margin'
  BY <1>0, <1>1 DEF TokenInv, Margin
<1>9. ASSUME NEW t \in Threads PROVE (InTime(t) /\ Asked(t) /\ Cached(t) /\ Covers(t))'
  <2>1. CASE t = u
    <3>1. InTime(t)' /\ Cached(t)' /\ Covers(t)'
      BY <1>1, <1>4, <2>1 DEF TokenInv, InTime, Cached, Covers
    <3>2. thread[u].since \in Nat /\ thread[u].since <= now
      BY <1>1 DEF TokenInv, Types, ThreadType, InTime
    <3>4. /\ ends'[got] >= thread[u].since + 2 * Timeout
          /\ ends'[got] >= thread[u].since + life
      <4> DEFINE end == ends'[got]
                 since == thread[u].since
      <4>1. /\ since \in Nat /\ since <= now /\ now \in Nat /\ life \in Nat
            /\ end = now + life /\ life >= 2 * Timeout /\ 2 * Timeout \in Nat
        BY <1>3, <3>2, TokenAssumption
      <4> HIDE DEF end, since
      <4>2. end >= since + 2 * Timeout /\ end >= since + life
        BY <4>1
      <4> QED BY <4>2 DEF end, since
    <3>3. Asked(t)'
      BY <1>3, <1>4, <2>1, <3>4 DEF Asked
    <3> QED BY <3>1, <3>3
  <2>2. CASE t # u
    <3>1. (InTime(t) /\ Asked(t))'
      BY <1>0, <1>1, <1>4, <2>2 DEF TokenInv, Types, ThreadType, InTime, Asked
    <3>2. Cached(t)'
      BY <1>1, <1>3, <1>4, <1>5, <1>6, <2>2 DEF TokenInv, Types, ThreadType, Cached
    <3>3. Covers(t)'
      BY <1>0, <1>1, <1>4, <2>2 DEF TokenInv, Types, ThreadType, Covers
    <3> QED BY <3>1, <3>2, <3>3
  <2> QED BY <2>1, <2>2
<1> QED BY <1>7, <1>8, <1>9 DEF TokenInv

(* A token does not end while a thread posts with it (TokenIsValid).       *)
THEOREM TokenAlwaysValid == TokenSpec => []TokenIsValid
<1>1. TokenInv /\ [TokenNext]_tokenVars => TokenInv'
  <2> SUFFICES ASSUME TokenInv, [TokenNext]_tokenVars PROVE TokenInv'
    OBVIOUS
  <2>1. CASE UNCHANGED tokenVars
    BY <2>1 DEF tokenVars, TokenInv, Types, Margin, InTime, Asked, Cached, Covers, Lasts,
       Confused
  <2>2. CASE TokenNext
    BY <2>2, TickInv, LooksInv, FailsInv, PostsInv, WritesTokenInv, WritesExpiryInv,
       ReturnsInv, ServiceAnswersInv DEF TokenNext
  <2> QED BY <2>1, <2>2
<1>2. TokenInv => TokenIsValid
  BY TokenAssumption DEF TokenInv, Types, InTime, Covers, TokenIsValid, ThreadType
<1> QED BY TokenInvInit, <1>1, <1>2, PTL DEF TokenSpec
-----------------------------------------------------------------------------
(* DirectAnswer. *)
(* Places of a reply are finitely many; all of them give the reply.        *)
LEMMA PlacesCounted ==
  ASSUME reply \in Seq(Segments), NEW places \in SUBSET DOMAIN reply
  PROVE  /\ IsFiniteSet(places) /\ Cardinality(places) \in Nat
         /\ DOMAIN At(places) = 1 .. Cardinality(places)
         /\ places # {} => Cardinality(places) >= 1
<1>1. IsFiniteSet(DOMAIN reply)
  BY FS_Interval
<1>2. IsFiniteSet(places) /\ Cardinality(places) \in Nat /\ (Cardinality(places) = 0 <=> places = {})
  BY <1>1, FS_Subset, FS_CardinalityType, FS_EmptySet
<1> QED BY <1>2 DEF At

LEMMA AllPlaces ==
  ASSUME reply \in Seq(Segments)
  PROVE  At(DOMAIN reply) = reply
<1> DEFINE n == Len(reply)
<1>1. n \in Nat /\ DOMAIN reply = 1 .. n /\ reply = [k \in 1 .. n |-> reply[k]]
  OBVIOUS
<1>2. Cardinality(1 .. n) = n
  BY <1>1, FS_Interval
<1>3. ASSUME NEW i \in 1 .. n PROVE Cardinality({j \in 1 .. n : j <= i}) = i
  <2>1. {j \in 1 .. n : j <= i} = 1 .. i
    BY <1>1
  <2>2. i \in Int /\ ~(1 > i) /\ (i - 1) + 1 = i
    BY <1>1
  <2>3. Cardinality(1 .. i) = (i - 1) + 1
    BY <2>2, FS_Interval
  <2> QED BY <2>1, <2>2, <2>3
<1>4. ASSUME NEW k \in 1 .. n
      PROVE  (CHOOSE i \in 1 .. n : Cardinality({j \in 1 .. n : j <= i}) = k) = k
  BY <1>3
<1> HIDE DEF n
<1>5. At(DOMAIN reply) = [k \in 1 .. n |-> reply[CHOOSE i \in 1 .. n : Cardinality({j \in 1 .. n : j <= i}) = k]]
  BY <1>1, <1>2 DEF At
<1> QED BY <1>1, <1>4, <1>5

(* An answer for a question of the request, that the host accepts.         *)
Fits(a) ==
  \E j \in DOMAIN questions :
    LET q == questions[j] IN
    /\ a.id = q.id
    /\ ToSet(a.selected) \subseteq Labels(q)
    /\ (a.selected = <<>>) # (a.custom = <<>>)

LEMMA SelectionFits ==
  ASSUME NEW j \in DOMAIN questions, NEW labels, labels # <<>>, ToSet(labels) \subseteq Labels(questions[j])
  PROVE  Fits(Selects(questions[j], labels))
  BY DEF Fits, Selects

LEMMA TextFits ==
  ASSUME NEW j \in DOMAIN questions, NEW text, text # <<>>
  PROVE  Fits(Writes(questions[j], text))
<1>1. ToSet(<<>>) = {}
  BY DEF ToSet
<1> QED BY <1>1 DEF Fits, Writes

LEMMA OneLabel ==
  ASSUME NEW w, NEW q, w \in Labels(q)
  PROVE  <<w>> # <<>> /\ ToSet(<<w>>) \subseteq Labels(q)
  BY DEF ToSet

LEMMA AnswerFits ==
  ASSUME NEW j \in DOMAIN questions, NEW w
  PROVE  Fits(Answer(questions[j], w))
<1>1. <<Plain(w)>> # <<>>
  OBVIOUS
<1> QED BY <1>1, OneLabel, SelectionFits, TextFits DEF Answer

LEMMA ArgFits ==
  ASSUME NEW i \in DOMAIN ParseAnswerArg.answers
  PROVE  Fits(ParseAnswerArg.answers[i])
<1>1. CASE ParseAnswerArg = None
  <2>1. DOMAIN None.answers = {}
    BY DEF None
  <2> QED BY <1>1, <2>1
<1>2. CASE /\ \A k \in DOMAIN Written : Position(k) \in DOMAIN questions
           /\ ParseAnswerArg = Answers([k \in DOMAIN Written |-> Answer(questions[Position(k)], Written[k].value)])
  <2>1. ParseAnswerArg.answers = [k \in DOMAIN Written |-> Answer(questions[Position(k)], Written[k].value)]
    BY <1>2 DEF Answers
  <2>2. i \in DOMAIN Written /\ ParseAnswerArg.answers[i] = Answer(questions[Position(i)], Written[i].value)
    BY <2>1
  <2> QED BY <1>2, <2>2, AnswerFits
<1> QED BY <1>1, <1>2 DEF ParseAnswerArg

LEMMA NumbersFit ==
  ASSUME reply \in Seq(Segments), reply # <<>>, NEW j \in DOMAIN questions,
         NEW i \in DOMAIN SelectByNumber(questions[j]).answers
  PROVE  Fits(SelectByNumber(questions[j]).answers[i])
<1> DEFINE q == questions[j]
           bad == {k \in DOMAIN Pieces : Pieces[k] = Blank \/ Ordinal[Pieces[k]] \notin DOMAIN q.options}
           labels == [k \in DOMAIN Pieces |-> q.options[Ordinal[Pieces[k]]]]
<1>1. CASE bad # {}
  <2>1. SelectByNumber(q) \in {Raises, None}
    BY <1>1 DEF SelectByNumber
  <2>2. DOMAIN Raises.answers = {} /\ DOMAIN None.answers = {}
    BY DEF Raises, None
  <2> QED BY <2>1, <2>2
<1>2. CASE bad = {}
  <2>1. SelectByNumber(q) = Answers(<<Selects(q, labels)>>)
    BY <1>2 DEF SelectByNumber
  <2>2. SelectByNumber(q).answers = <<Selects(q, labels)>>
    BY <2>1 DEF Answers
  <2>3. SelectByNumber(q).answers[i] = Selects(q, labels)
    BY <2>2
  <2>4. 1 \in DOMAIN Pieces
    <3> DEFINE kept == {k \in DOMAIN reply : reply[k].value # Blank \/ k \in {1, Len(reply)}}
    <3>1. 1 \in kept /\ kept \in SUBSET DOMAIN reply
      OBVIOUS
    <3>2. DOMAIN At(kept) = 1 .. Cardinality(kept) /\ Cardinality(kept) \in Nat /\ Cardinality(kept) >= 1
      BY <3>1, PlacesCounted
    <3> HIDE DEF kept
    <3>3. 1 \in DOMAIN At(kept)
      BY <3>2
    <3> QED BY <3>3 DEF Pieces, kept
  <2>5. ToSet(labels) \subseteq Labels(q)
    <3>1. \A k \in DOMAIN Pieces : Ordinal[Pieces[k]] \in DOMAIN q.options
      BY <1>2
    <3> QED BY <3>1 DEF ToSet, Labels
  <2>6. labels # <<>>
    <3>1. DOMAIN labels = DOMAIN Pieces
      OBVIOUS
    <3> HIDE DEF labels
    <3> QED BY <2>4, <3>1
  <2> QED BY <2>3, <2>5, <2>6, SelectionFits
<1> QED BY <1>1, <1>2

LEMMA WordsFit ==
  ASSUME reply # <<>>, NEW j \in DOMAIN questions, NEW i \in DOMAIN SelectOrWrite(questions[j]).answers
  PROVE  Fits(SelectOrWrite(questions[j]).answers[i])
<1>1. CASE Len(reply) = 1 /\ reply[1].value \in Labels(questions[j])
  <2>1. SelectOrWrite(questions[j]).answers = <<Selects(questions[j], <<reply[1].value>>)>>
    BY <1>1 DEF SelectOrWrite, Answers
  <2>2. SelectOrWrite(questions[j]).answers[i] = Selects(questions[j], <<reply[1].value>>)
    BY <2>1
  <2> QED BY <1>1, <2>2, OneLabel, SelectionFits
<1>2. CASE ~(Len(reply) = 1 /\ reply[1].value \in Labels(questions[j]))
  <2>1. SelectOrWrite(questions[j]).answers = <<Writes(questions[j], reply)>>
    BY <1>2 DEF SelectOrWrite, Answers
  <2>2. SelectOrWrite(questions[j]).answers[i] = Writes(questions[j], reply)
    BY <2>1
  <2> QED BY <2>2, TextFits
<1> QED BY <1>1, <1>2

AnswerInv ==
  /\ questions \in QuestionSets
  /\ reply \in Seq(Segments) /\ reply # <<>>
  /\ AnswersFitQuestions /\ ExplicitAnswersAreUnderstood

LEMMA ReadAnswersFit ==
  ASSUME AnswerInv, NEW i \in DOMAIN ParseDirectAnswer.answers
  PROVE  Fits(ParseDirectAnswer.answers[i])
<1>1. 1 \in DOMAIN questions /\ reply \in Seq(Segments) /\ reply # <<>>
  BY AnswerAssumption DEF AnswerInv
<1>2. ParseDirectAnswer \in {ParseAnswerArg, SelectByNumber(questions[1]), SelectOrWrite(questions[1])}
  BY DEF ParseDirectAnswer
<1> QED BY <1>1, <1>2, ArgFits, NumbersFit, WordsFit

LEMMA ReadExplicit ==
  ASSUME AnswerInv,
         \A i \in DOMAIN reply :
           /\ reply[i].ref \in Numbers /\ reply[i].value # Blank
           /\ Ordinal[reply[i].ref] \in DOMAIN questions
  PROVE  /\ Len(ParseDirectAnswer.answers) = Len(reply)
         /\ \A i \in DOMAIN reply :
              LET a == ParseDirectAnswer.answers[i] q == questions[Ordinal[reply[i].ref]]
                  w == reply[i].value IN
              /\ a.id = q.id
              /\ IF w \in Labels(q) THEN a.selected = <<w>> ELSE a.custom = <<Plain(w)>>
<1>1. reply \in Seq(Segments) /\ reply # <<>>
  BY DEF AnswerInv
<1>2. \A i \in DOMAIN reply : reply[i].ref # NoColon /\ reply[i].ref # Blank /\ reply[i].value # Blank
  BY AnswerAssumption DEF Numbers, AnswerAssumption
<1>3. 1 \in DOMAIN reply /\ Len(reply) \in Nat /\ DOMAIN reply = 1 .. Len(reply)
  BY <1>1
<1>4. ParseDirectAnswer = ParseAnswerArg
  BY <1>2, <1>3 DEF ParseDirectAnswer
<1>5. Written = reply
  <2>1. Plain(Blank).ref = NoColon
    BY DEF Plain
  <2>2. {i \in DOMAIN reply : reply[i] # Plain(Blank)} = DOMAIN reply
    BY <1>2, <2>1
  <2> QED BY <1>1, <2>2, AllPlaces DEF Written
<1>6. \A i \in DOMAIN reply : Position(i) = Ordinal[reply[i].ref]
  BY <1>2, <1>5 DEF Position
<1>7. ParseAnswerArg = Answers([i \in DOMAIN reply |-> Answer(questions[Ordinal[reply[i].ref]], reply[i].value)])
  BY <1>1, <1>2, <1>5, <1>6 DEF ParseAnswerArg
<1>8. ParseDirectAnswer.answers = [i \in 1 .. Len(reply) |-> Answer(questions[Ordinal[reply[i].ref]], reply[i].value)]
  BY <1>3, <1>4, <1>7 DEF Answers
<1>9. Len(ParseDirectAnswer.answers) = Len(reply)
  BY <1>3, <1>8
<1>10. ASSUME NEW i \in DOMAIN reply, NEW q, NEW w, q = questions[Ordinal[reply[i].ref]], w = reply[i].value
       PROVE  /\ ParseDirectAnswer.answers[i].id = q.id
              /\ IF w \in Labels(q) THEN ParseDirectAnswer.answers[i].selected = <<w>>
                                     ELSE ParseDirectAnswer.answers[i].custom = <<Plain(w)>>
  <2>1. ParseDirectAnswer.answers[i] = Answer(q, w)
    BY <1>3, <1>8, <1>10
  <2>2. CASE w \in Labels(q)
    BY <2>1, <2>2 DEF Answer, Selects
  <2>3. CASE w \notin Labels(q)
    BY <2>1, <2>3 DEF Answer, Writes
  <2> QED BY <2>2, <2>3
<1> QED BY <1>9, <1>10

LEMMA ReadReplyInv == AnswerInv /\ [ReadReply]_answerVars => AnswerInv'
<1> SUFFICES ASSUME AnswerInv, [ReadReply]_answerVars PROVE AnswerInv'
  OBVIOUS
<1>1. CASE UNCHANGED answerVars
  BY <1>1 DEF answerVars, AnswerInv, AnswersFitQuestions, ExplicitAnswersAreUnderstood
<1>2. CASE ReadReply
  <2>1. UNCHANGED <<questions, reply>> /\ outcome' = ParseDirectAnswer
    BY <1>2 DEF ReadReply
  <2>2. AnswersFitQuestions'
    BY <2>1, ReadAnswersFit DEF Fits, AnswersFitQuestions
  <2>3. ExplicitAnswersAreUnderstood'
    BY <2>1, ReadExplicit DEF ExplicitAnswersAreUnderstood
  <2> QED BY <2>1, <2>2, <2>3 DEF AnswerInv
<1> QED BY <1>1, <1>2

LEMMA AnswerInvInit == AnswerInit => AnswerInv
<1> SUFFICES ASSUME AnswerInit PROVE AnswerInv
  OBVIOUS
<1>1. reply \in Seq(Segments)
  BY DEF AnswerInit, BoundedSeq, SeqOf
<1>2. DOMAIN outcome.answers = {} /\ outcome = Unread
  BY DEF AnswerInit, Unread
<1> QED BY <1>1, <1>2 DEF AnswerInit, AnswerInv, AnswersFitQuestions, ExplicitAnswersAreUnderstood

(* Every answer a reply is read as is for a question of the request, and   *)
(* selects options of that question or says something, not both: the host  *)
(* refuses none of them (hub.py:891).                                      *)
THEOREM AnswersAlwaysFit == AnswerSpec => []AnswersFitQuestions
<1>1. AnswerInv => AnswersFitQuestions
  BY DEF AnswerInv
<1> QED BY <1>1, AnswerInvInit, ReadReplyInv, PTL DEF AnswerSpec

(* A reply that names every question by its number is read as it was       *)
(* written, each answer for the question it names (hub.py:948).            *)
THEOREM ExplicitAlwaysUnderstood == AnswerSpec => []ExplicitAnswersAreUnderstood
<1>1. AnswerInv => ExplicitAnswersAreUnderstood
  BY DEF AnswerInv
<1> QED BY <1>1, AnswerInvInit, ReadReplyInv, PTL DEF AnswerSpec

-----------------------------------------------------------------------------
(* The durable watermark is never ahead of the one in memory.              *)
THEOREM CursorNotAhead == CursorSpec => []DurableNotAhead
  <1>1. CursorInit => DurableNotAhead
    BY DEF CursorInit, DurableNotAhead, Marks
  <1>2. DurableNotAhead /\ [CursorNext]_cursorVars => DurableNotAhead'
    <2> SUFFICES ASSUME DurableNotAhead, [CursorNext]_cursorVars PROVE DurableNotAhead'
      OBVIOUS
    <2>1. CASE Advance
      BY <2>1 DEF Advance, Forwards, DurableNotAhead, Marks
    <2>2. CASE Persist
      BY <2>2 DEF Persist, Forwards, DurableNotAhead, Marks
    <2>3. CASE FallBack
      BY <2>3 DEF FallBack, DurableNotAhead, Marks
    <2>4. CASE UNCHANGED cursorVars
      BY <2>4 DEF cursorVars, DurableNotAhead
    <2> QED BY <2>1, <2>2, <2>3, <2>4 DEF CursorNext
  <1> QED BY <1>1, <1>2, PTL DEF CursorSpec

(* The watermark in the state file never moves back.                       *)
THEOREM CursorNeverRegresses == CursorSpec => DurableNeverRegresses
  <1>1. DurableNotAhead /\ [CursorNext]_cursorVars =>
          [\A s \in Sessions : durable[s] <= durable'[s]]_cursorVars
    <2> SUFFICES ASSUME DurableNotAhead, CursorNext
                 PROVE  \A s \in Sessions : durable[s] <= durable'[s]
      BY DEF cursorVars
    <2>1. \A s \in Sessions : durable[s] \in Nat /\ volatile[s] \in Nat
      BY DEF DurableNotAhead, Marks
    <2>2. CASE Advance \/ FallBack
      BY <2>1, <2>2 DEF Advance, FallBack
    <2>3. CASE Persist
      <3>1. \A s \in Sessions : volatile'[s] \in Nat
        BY <2>3 DEF Persist, Forwards, Marks
      <3> QED
        BY <2>1, <2>3, <3>1 DEF Persist, Forwards, DurableNotAhead
    <2> QED BY <2>2, <2>3 DEF CursorNext
  <1> QED
    BY <1>1, CursorNotAhead, PTL DEF CursorSpec, DurableNeverRegresses

-----------------------------------------------------------------------------
(* A sequence with one element more has the old ones where they were. *)
LEMMA AppendedElements ==
  ASSUME NEW S, NEW s \in Seq(S), NEW e \in S
  PROVE  /\ Append(s, e) \in Seq(S)
         /\ DOMAIN Append(s, e) = DOMAIN s \cup {Len(s) + 1}
         /\ \A i \in DOMAIN s : i < Len(s) + 1 /\ Append(s, e)[i] = s[i]
         /\ Append(s, e)[Len(s) + 1] = e
  OBVIOUS

LEMMA ContainsIsElement ==
  ASSUME NEW S, NEW s \in Seq(S), NEW e
  PROVE  Contains(s, e) <=> \E i \in DOMAIN s : s[i] = e
  BY DEF Contains

(* The variables keep their types. *)
LEMMA DeliveryTypeInit == DeliveryInit => DeliveryTypeOK
  BY DEF DeliveryInit, DeliveryTypeOK

LEMMA CurrentIsText ==
  ASSUME DeliveryTypeOK, NEW t \in Tasks, part[t] # 0
  PROVE  Current(t) \in Texts
  BY DEF DeliveryTypeOK, Current, Texts

LEMMA MoveOnType ==
  ASSUME DeliveryTypeOK, NEW t \in Tasks, part[t] # 0, MoveOn(t) \/ UNCHANGED part, UNCHANGED sends
  PROVE  part' \in [Tasks -> Nat] /\ \A u \in Tasks : part'[u] # 0 => sends'[u] # 0
  BY DEF DeliveryTypeOK, MoveOn

(* What is shown is a part of a text. *)
LEMMA ShowType ==
  ASSUME DeliveryTypeOK, NEW p, Show(p)
  PROVE  p \in Texts /\ shown' \in Seq(Texts)
<1>1. p \in Texts
  BY CurrentIsText DEF Show, DeliveryTypeOK
<1>2. QED
  BY <1>1, AppendedElements DEF Show, DeliveryTypeOK

LEMMA DeliveryTypeStep ==
  ASSUME DeliveryTypeOK, [DeliveryNext]_deliveryVars
  PROVE  DeliveryTypeOK'
<1>1. ASSUME NEW t \in Tasks, Begin(t) PROVE DeliveryTypeOK'
  BY <1>1 DEF Begin, DeliveryTypeOK
<1>2. ASSUME NEW t \in Tasks, Deliver(t) PROVE DeliveryTypeOK'
  BY <1>2, CurrentIsText, MoveOnType DEF Deliver, DeliveryTypeOK
<1>3. ASSUME NEW t \in Tasks, Fail(t) PROVE DeliveryTypeOK'
  BY <1>3, CurrentIsText, MoveOnType DEF Fail, DeliveryTypeOK
<1>4. ASSUME NEW p \in Showable, ShowInTurn(p) PROVE DeliveryTypeOK'
  BY <1>4, ShowType DEF ShowInTurn, Show, DeliveryTypeOK
<1>5. ASSUME NEW p \in Showable, ShowLate(p) PROVE DeliveryTypeOK'
  BY <1>5, ShowType DEF ShowLate, Show, DeliveryTypeOK
<1>6. CASE UNCHANGED deliveryVars
  BY <1>6 DEF deliveryVars, DeliveryTypeOK
<1>7. QED
  BY <1>1, <1>2, <1>3, <1>4, <1>5, <1>6 DEF DeliveryNext

-----------------------------------------------------------------------------
(* A step shows one more part or leaves what was shown as it is, and takes *)
(* no part out of `unanswered` or `late`.                                  *)
LEMMA ShownGrows ==
  ASSUME DeliveryTypeOK, [DeliveryNext]_deliveryVars
  PROVE  /\ unanswered \subseteq unanswered' /\ late \subseteq late'
         /\ \/ UNCHANGED shown
            \/ \E p \in Showable :
                 Show(p) /\ UNCHANGED delivered /\ (ShowInTurn(p) \/ ShowLate(p))
<1>1. CASE UNCHANGED deliveryVars
  BY <1>1 DEF deliveryVars
<1>2. ASSUME NEW t \in Tasks, Begin(t) \/ Deliver(t) \/ Fail(t)
      PROVE  unanswered \subseteq unanswered' /\ late \subseteq late' /\ UNCHANGED shown
  BY <1>2 DEF Begin, Deliver, Fail
<1>3. ASSUME NEW p \in Showable, ShowInTurn(p) \/ ShowLate(p)
      PROVE  /\ unanswered \subseteq unanswered' /\ late \subseteq late'
             /\ Show(p) /\ UNCHANGED delivered
  BY <1>3 DEF ShowInTurn, ShowLate, Show
<1>4. QED
  BY <1>1, <1>2, <1>3 DEF DeliveryNext

(* Where the parts of the longer sequence are. *)
LEMMA ShownElements ==
  ASSUME DeliveryTypeOK, NEW p, Show(p)
  PROVE  /\ DOMAIN shown' = DOMAIN shown \cup {Len(shown) + 1}
         /\ \A i \in DOMAIN shown : i < Len(shown) + 1 /\ shown'[i] = shown[i]
         /\ shown'[Len(shown) + 1] = p
  BY ShowType, AppendedElements DEF Show, DeliveryTypeOK

LEMMA DeliveredStep ==
  ASSUME DeliveryTypeOK, DeliveredIsShown, [DeliveryNext]_deliveryVars, DeliveryTypeOK'
  PROVE  DeliveredIsShown'
<1>1. \A p : Contains(shown, p) => Contains(shown', p)
  <2>1. CASE UNCHANGED shown
    BY <2>1
  <2>2. ASSUME NEW q, Show(q) PROVE \A p : Contains(shown, p) => Contains(shown', p)
    <3>1. shown \in Seq(Texts) /\ shown' \in Seq(Texts)
      BY DEF DeliveryTypeOK
    <3>2. QED
      BY <2>2, <3>1, ShownElements, ContainsIsElement
  <2>3. QED
    BY <2>1, <2>2, ShownGrows
<1>2. \A p \in delivered' : p \in delivered \/ Contains(shown, p)
  <2>1. ASSUME NEW t \in Tasks, Begin(t) \/ Deliver(t) \/ Fail(t)
        PROVE  \A p \in delivered' : p \in delivered \/ Contains(shown, p)
    BY <2>1 DEF Begin, Deliver, Fail
  <2>2. ASSUME NEW p \in Showable, ShowInTurn(p) \/ ShowLate(p) PROVE UNCHANGED delivered
    BY <2>2 DEF ShowInTurn, ShowLate, Show
  <2>3. QED
    BY <2>1, <2>2 DEF DeliveryNext, deliveryVars
<1>3. QED
  BY <1>1, <1>2 DEF DeliveredIsShown

LEMMA AgainStep ==
  ASSUME DeliveryTypeOK, ShownAgainOnlyUnanswered, [DeliveryNext]_deliveryVars
  PROVE  ShownAgainOnlyUnanswered'
<1>1. CASE UNCHANGED shown
  BY <1>1, ShownGrows DEF ShownAgainOnlyUnanswered
<1>2. ASSUME NEW p, Show(p) PROVE ShownAgainOnlyUnanswered'
  <2>1. p \in unanswered \/ \A i \in DOMAIN shown : shown[i] # p
    BY <1>2, ContainsIsElement DEF Show, DeliveryTypeOK
  <2>2. SUFFICES ASSUME NEW i \in DOMAIN shown', NEW j \in DOMAIN shown',
                        i < j, shown'[i] = shown'[j]
                 PROVE  shown'[i] \in unanswered
    BY ShownGrows DEF ShownAgainOnlyUnanswered
  <2>3. i \in DOMAIN shown
    <3>1. Len(shown) \in Nat /\ DOMAIN shown = 1 .. Len(shown)
      BY DEF DeliveryTypeOK
    <3>2. QED
      BY <1>2, <2>2, <3>1, ShownElements
  <2>4. CASE j \in DOMAIN shown
    BY <1>2, <2>2, <2>3, <2>4, ShownElements DEF ShownAgainOnlyUnanswered
  <2>5. CASE j = Len(shown) + 1
    BY <1>2, <2>1, <2>2, <2>3, <2>5, ShownElements
  <2>6. QED
    BY <1>2, <2>4, <2>5, ShownElements
<1>3. QED
  BY <1>1, <1>2, ShownGrows

LEMMA OrderStep ==
  ASSUME DeliveryTypeOK, PartsInOrder, [DeliveryNext]_deliveryVars
  PROVE  PartsInOrder'
<1>1. CASE UNCHANGED shown
  BY <1>1, ShownGrows DEF PartsInOrder, Before
<1>2. ASSUME NEW p, Show(p), ShowInTurn(p) \/ ShowLate(p) PROVE PartsInOrder'
  <2>1. p \in late' \/ \A i \in DOMAIN shown : ~Before(p, shown[i])
    BY <1>2 DEF ShowInTurn, ShowLate
  <2>2. SUFFICES ASSUME NEW i \in DOMAIN shown', NEW j \in DOMAIN shown',
                        i < j, Before(shown'[j], shown'[i])
                 PROVE  shown'[j] \in late'
    BY DEF PartsInOrder, Before
  <2>3. i \in DOMAIN shown
    <3>1. Len(shown) \in Nat /\ DOMAIN shown = 1 .. Len(shown)
      BY DEF DeliveryTypeOK
    <3>2. QED
      BY <1>2, <2>2, <3>1, ShownElements
  <2>4. CASE j \in DOMAIN shown
    BY <1>2, <2>2, <2>3, <2>4, ShownElements, ShownGrows DEF PartsInOrder
  <2>5. CASE j = Len(shown) + 1
    BY <1>2, <2>1, <2>2, <2>3, <2>5, ShownElements
  <2>6. QED
    BY <1>2, <2>4, <2>5, ShownElements
<1>3. QED
  BY <1>1, <1>2, ShownGrows

-----------------------------------------------------------------------------
DeliveryInv ==
  DeliveryTypeOK /\ DeliveredIsShown /\ ShownAgainOnlyUnanswered /\ PartsInOrder

LEMMA DeliveryInvInit == DeliveryInit => DeliveryInv
  BY DeliveryTypeInit
  DEF DeliveryInit, DeliveryInv, DeliveredIsShown, ShownAgainOnlyUnanswered, PartsInOrder

LEMMA DeliveryInvStep == DeliveryInv /\ [DeliveryNext]_deliveryVars => DeliveryInv'
  BY DeliveryTypeStep, DeliveredStep, AgainStep, OrderStep DEF DeliveryInv

(* Whatever fails on the way: a part that counts as sent was shown; one    *)
(* that is shown again had a try without an answer; and the parts of a     *)
(* task are in order, but for those shown late.                            *)
THEOREM DeliveryCorrect ==
  DeliverySpec => [](DeliveredIsShown /\ ShownAgainOnlyUnanswered /\ PartsInOrder)
<1>1. DeliveryInv => DeliveredIsShown /\ ShownAgainOnlyUnanswered /\ PartsInOrder
  BY DEF DeliveryInv
<1>2. QED
  BY <1>1, DeliveryInvInit, DeliveryInvStep, PTL DEF DeliverySpec
=============================================================================
