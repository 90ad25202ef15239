---------------------------- MODULE SplitMessage ----------------------------
(***************************************************************************)
(* split_message of formatter.py: a text that is too long for one message  *)
(* is cut into parts, at line breaks where one is near, and each part gets *)
(* a marker "[i/total] ".  One action per turn of the loop.                *)
(*                                                                         *)
(* Of a text only its length and the places of its line breaks matter; a   *)
(* part is the stretch [from, to) of the text.                             *)
(***************************************************************************)
EXTENDS Integers, Sequences, FiniteSetsExt

CONSTANTS
  MaxLength,   (* bound: characters of a text                              *)
  MaxBreaks,   (* bound: line breaks of a text                             *)
  Limits       (* values of max_chars                                      *)

ASSUME SplitAssumption ==
  MaxLength \in Nat /\ MaxBreaks \in Nat /\ Limits \subseteq Int

VARIABLES
  length,   (* of the text                                                 *)
  breaks,   (* positions of "\n" in it                                     *)
  maxChars, (* max_chars                                                   *)
  rest,     (* where `remaining` begins                                    *)
  parts,    (* the parts so far                                            *)
  split     (* done: split_message has returned                            *)

splitVars == <<length, breaks, maxChars, rest, parts, split>>
inputs    == <<length, breaks, maxChars>>

(* Mutant of Budget: room for one digit each only. *)
BudgetTight == IF maxChars > 6 THEN maxChars - 5 ELSE 1

(* What is left for the text of a part when its marker is reserved for.    *)
Budget == IF maxChars - 12 > 1 THEN maxChars - 12 ELSE 1

FitsInOne == maxChars <= 0 \/ length <= maxChars

(* The last line break of the next stretch of Budget characters counts if  *)
(* it is in the second half.                                               *)
NearBreaks == {p \in breaks : rest + Budget \div 2 <= p /\ p < rest + Budget}

Latest(S) == {p \in S : \A q \in S : q <= p}

(* Mutant of Cuts: the part ends before the line break. *)
CutsBefore == IF NearBreaks = {} THEN {rest + Budget} ELSE Latest(NearBreaks)

(* Where the next part ends (one place). *)
Cuts == IF NearBreaks = {} THEN {rest + Budget} ELSE {p + 1 : p \in Latest(NearBreaks)}

SplitInit ==
  /\ length \in 0..MaxLength
  /\ breaks \in UNION {kSubset(k, 0 .. length - 1) : k \in 0..MaxBreaks}
  /\ maxChars \in Limits
  /\ rest = 0 /\ parts = <<>> /\ split = FALSE

ReturnWhole ==
  /\ ~split /\ FitsInOne
  /\ parts' = <<[from |-> 0, to |-> length]>>
  /\ rest' = length /\ split' = TRUE
  /\ UNCHANGED inputs

CutPart ==
  /\ ~split /\ ~FitsInOne
  /\ length - rest > Budget
  /\ \E cut \in Cuts :
       parts' = Append(parts, [from |-> rest, to |-> cut]) /\ rest' = cut
  /\ UNCHANGED <<inputs, split>>

ReturnParts ==
  /\ ~split /\ ~FitsInOne
  /\ length - rest <= Budget
  /\ parts' = IF rest < length
              THEN Append(parts, [from |-> rest, to |-> length]) ELSE parts
  /\ rest' = length /\ split' = TRUE
  /\ UNCHANGED inputs

SplitNext == ReturnWhole \/ CutPart \/ ReturnParts

SplitSpec == SplitInit /\ [][SplitNext]_splitVars
-----------------------------------------------------------------------------
(* Decimal digits of a part's number, below the bound of ChunksFit. *)
Digits(n) == IF n < 10 THEN 1 ELSE IF n < 100 THEN 2 ELSE IF n < 1000 THEN 3 ELSE 4

(* A part as it is sent: with "[i/total] " if there are several. *)
ChunkLength(i) ==
  parts[i].to - parts[i].from
    + (IF Len(parts) > 1 THEN Digits(i) + Digits(Len(parts)) + 4 ELSE 0)

(* The values the variables take. *)
SplitTypeOK ==
  /\ length \in Nat /\ breaks \subseteq 0 .. length - 1 /\ maxChars \in Int
  /\ rest \in 0..length /\ split \in BOOLEAN
  /\ parts \in Seq([from : 0..length, to : 0..length])

(* Nothing of the text is dropped or repeated (formatter.py:159): the      *)
(* parts follow on each other from its beginning to its end, and each has  *)
(* something in it, so that the loop comes to its end.                     *)
PartsMakeTheText ==
  /\ parts # <<>> => parts[1].from = 0 /\ parts[Len(parts)].to = rest
  /\ \A i \in 1 .. Len(parts) - 1 : parts[i + 1].from = parts[i].to
  /\ length > 0 => \A i \in DOMAIN parts : parts[i].from < parts[i].to
  /\ split => parts # <<>> /\ rest = length

(* A chunk, with its marker, has at most max_chars characters              *)
(* (formatter.py:161), for every limit that leaves room for the reserved   *)
(* marker and less than ten thousand parts.                                *)
ChunksFit ==
  (split /\ maxChars > 12 /\ Len(parts) < 10000) =>
    \A i \in DOMAIN parts : ChunkLength(i) <= maxChars
=============================================================================
