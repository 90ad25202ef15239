---------------------------- MODULE DirectAnswer ----------------------------
(***************************************************************************)
(* What a chat reply answers: parse_direct_answer and parse_answer_arg of  *)
(* hub.py.                                                                 *)
(*                                                                         *)
(* A reply is the sequence of its segments between commas.  A segment has  *)
(* what stands before its first colon, NoColon without one, and what       *)
(* stands after it, both without the white space around them.  Words are   *)
(* members of a small set; some are numbers, the empty one is Blank.       *)
(***************************************************************************)
EXTENDS Integers, Sequences, SequencesExt, FiniteSetsExt

CONSTANTS
  Words,        (* what a person may write in a segment                    *)
  Ordinal,      (* the value of the words that are numbers                 *)
  Blank,        (* the empty word                                          *)
  NoColon,      (* not a word                                              *)
  QuestionSets, (* sequences of [id, options], the questions of a request  *)
  MaxSegments   (* bound: segments of a reply                              *)

ASSUME AnswerAssumption ==
  /\ Blank \in Words /\ NoColon \notin Words
  /\ DOMAIN Ordinal \subseteq Words \ {Blank}
  /\ \A w \in DOMAIN Ordinal : Ordinal[w] \in Nat
  /\ MaxSegments \in Nat
  (* A request has questions, and the host knows each of them by its id.   *)
  /\ \A s \in QuestionSets : 1 \in DOMAIN s /\ IsInjective([j \in DOMAIN s |-> s[j].id])

VARIABLES
  questions, (* of the pending request                                     *)
  reply,     (* what the person wrote                                      *)
  outcome    (* of parse_direct_answer, see Outcomes                       *)

answerVars == <<questions, reply, outcome>>

Segments == [ref : Words \cup {NoColon}, value : Words]
Numbers  == DOMAIN Ordinal
Plain(w) == [ref |-> NoColon, value |-> w]

(* An answer selects options, or is a text of the person's own: a reply.   *)
Selects(q, labels) == [id |-> q.id, selected |-> labels, custom |-> <<>>]
Writes(q, text)    == [id |-> q.id, selected |-> <<>>, custom |-> text]

None       == [kind |-> "none", answers |-> <<>>]
Raises     == [kind |-> "raises", answers |-> <<>>]
Unread     == [kind |-> "unread", answers |-> <<>>]
Answers(s) == [kind |-> "answers", answers |-> s]

Labels(q) == ToSet(q.options)

(* The segments of the reply at some places, in their order. *)
At(places) ==
  [n \in 1 .. Cardinality(places) |->
     reply[CHOOSE i \in places : Cardinality({j \in places : j <= i}) = n]]

-----------------------------------------------------------------------------
(* parse_answer_arg: "1:first,2:second". *)

(* Empty segments are passed over. *)
Written == At({i \in DOMAIN reply : reply[i] # Plain(Blank)})

(* Mutant of Position: places are counted from zero. *)
PositionFromZero(i) ==
  LET ref == Written[i].ref IN
  IF ref = NoColon THEN i
  ELSE IF ref \in Numbers THEN Ordinal[ref] + 1
  ELSE IF \E j \in DOMAIN questions : questions[j].id = ref
  THEN CHOOSE j \in DOMAIN questions : questions[j].id = ref
  ELSE 0

(* The place of the question the i-th written segment is for; a place      *)
(* there may be no question at.  One without a colon goes by its own place.*)
Position(i) ==
  LET ref == Written[i].ref IN
  IF ref = NoColon THEN i
  ELSE IF ref \in Numbers THEN Ordinal[ref]
  ELSE IF \E j \in DOMAIN questions : questions[j].id = ref
  THEN CHOOSE j \in DOMAIN questions :
         questions[j].id = ref /\ \A k \in 1 .. j - 1 : questions[k].id # ref
  ELSE 0

(* Mutant of Answer: the options of the first question count for all. *)
AnswerByFirst(q, w) ==
  IF w \in Labels(questions[1]) THEN Selects(q, <<w>>) ELSE Writes(q, <<Plain(w)>>)

Answer(q, w) == IF w \in Labels(q) THEN Selects(q, <<w>>) ELSE Writes(q, <<Plain(w)>>)

(* One answer a segment, or nothing at all if one has no question or text. *)
ParseAnswerArg ==
  IF /\ Written # <<>>
     /\ \A i \in DOMAIN Written :
          /\ Written[i].ref # Blank /\ Written[i].value # Blank
          /\ Position(i) \in DOMAIN questions
  THEN Answers([i \in DOMAIN Written |-> Answer(questions[Position(i)], Written[i].value)])
  ELSE None

-----------------------------------------------------------------------------
(* parse_direct_answer. *)

(* What re.split leaves: one comma or several come to the same, but an     *)
(* empty string before the first and after the last one stays.             *)
Pieces ==
  LET kept == At({i \in DOMAIN reply : reply[i].value # Blank \/ i \in {1, Len(reply)}})
  IN  [n \in DOMAIN kept |-> kept[n].value]

OnlyNumbers == \A i \in DOMAIN reply : reply[i].value \in Numbers \cup {Blank}

(* The numbers are taken in turn: int("") raises, and one that is out of   *)
(* range ends it.                                                          *)
SelectByNumber(q) ==
  LET bad == {i \in DOMAIN Pieces :
                \/ Pieces[i] = Blank
                \/ Ordinal[Pieces[i]] \notin DOMAIN q.options} IN
  IF bad = {}
  THEN Answers(<<Selects(q, [i \in DOMAIN Pieces |-> q.options[Ordinal[Pieces[i]]]])>>)
  ELSE IF Pieces[Min(bad)] = Blank THEN Raises ELSE None

SelectOrWrite(q) ==
  IF Len(reply) = 1 /\ reply[1].value \in Labels(q)
  THEN Answers(<<Selects(q, <<reply[1].value>>)>>)
  ELSE Answers(<<Writes(q, reply)>>)

ParseDirectAnswer ==
  IF \E i \in DOMAIN reply : reply[i].ref # NoColon THEN ParseAnswerArg
  ELSE IF Len(questions) = 1 /\ OnlyNumbers THEN SelectByNumber(questions[1])
  ELSE SelectOrWrite(questions[1])

-----------------------------------------------------------------------------
(* A reply that is not blank, to a request that has questions. *)
AnswerInit ==
  /\ questions \in QuestionSets
  /\ reply \in BoundedSeq(Segments, MaxSegments) \ {<<>>, <<Plain(Blank)>>}
  /\ outcome = Unread

ReadReply ==
  /\ outcome = Unread
  /\ outcome' = ParseDirectAnswer
  /\ UNCHANGED <<questions, reply>>

AnswerSpec == AnswerInit /\ [][ReadReply]_answerVars
-----------------------------------------------------------------------------
(* Every answer is for a question of the request, and selects options of   *)
(* that question or says something, not both: the host refuses others      *)
(* (hub.py:891).                                                           *)
AnswersFitQuestions ==
  \A i \in DOMAIN outcome.answers :
    \E j \in DOMAIN questions :
      LET a == outcome.answers[i] q == questions[j] IN
      /\ a.id = q.id
      /\ ToSet(a.selected) \subseteq Labels(q)
      /\ (a.selected = <<>>) # (a.custom = <<>>)

(* A reply that names every question by its number is understood: the      *)
(* answers are those that were written, each for the question it names     *)
(* (hub.py:948).                                                           *)
ExplicitAnswersAreUnderstood ==
  ( /\ outcome # Unread
    /\ Len(reply) = Len(questions)
    /\ \A i \in DOMAIN reply :
         /\ reply[i].ref \in Numbers /\ reply[i].value # Blank
         /\ Ordinal[reply[i].ref] \in DOMAIN questions ) =>
    /\ Len(outcome.answers) = Len(reply)
    /\ \A i \in DOMAIN reply :
         LET a == outcome.answers[i] q == questions[Ordinal[reply[i].ref]]
             w == reply[i].value IN
         /\ a.id = q.id
         /\ IF w \in Labels(q) THEN a.selected = <<w>> ELSE a.custom = <<Plain(w)>>
=============================================================================
