---------------------------- MODULE MCBridgeHub ----------------------------
(* Instances of BridgeHub for TLC. *)
EXTENDS BridgeHub, TLC

CONSTANTS s1, s2, c1, c2, q1, q2, a1

(* Two questions of the same session. *)
TwoSessions == q1 :> s1 @@ q2 :> s1
TwoKinds    == q1 :> "question" @@ q2 :> "question"

(* A question and an approval. *)
BothSessions == q1 :> s1 @@ a1 :> s1
BothKinds    == q1 :> "question" @@ a1 :> "approval"

(* One question. *)
QuestionSession == q1 :> s1
QuestionKind    == q1 :> "question"

Say(t) == [text |-> t, arg |-> NoSession]
Attach == [text : {"/attach"}, arg : Sessions]

(* One text for each way the handlers go. *)
AroundQuestions == Attach \cup {Say(t) : t \in {"reply", "garbled", "/cancel-question", "/new", "/other"}}
AroundBoth      == Attach \cup {Say(t) : t \in {"reply", "allow", "/allow", "/new"}}
Rebinding       == Attach \cup {Say(t) : t \in {"reply", "/new"}}

(* The host asks one of its requests only, the question or the approval.   *)
(* Only HostAsks can break it, which no fairness is about, so as a          *)
(* CONSTRAINT it leaves out no step that fairness asks for.                *)
AsksOne == \A r, t \in Requests : r # t => host[r] = "unasked" \/ host[t] = "unasked"

FairSpec == Spec /\ Fairness

(* Conversations, and the two questions, are interchangeable. *)
Symmetry == Permutations({c1, c2}) \cup Permutations({q1, q2})
=============================================================================
