---------------------------- MODULE HttpSending ----------------------------
(***************************************************************************)
(* Sending on the channels that post over HTTP from a thread: qq_official, *)
(* feishu and woa.  A try is one thread, which gets a token and posts the  *)
(* text; qq_official posts a question as markdown first, and as plain text *)
(* when that is refused.  A call that breaks (a timeout, no connection, an *)
(* answer that cannot be read) raises at once, in whatever state the post  *)
(* is.  The services are external: they show a post or refuse it, and one  *)
(* whose answer nobody waits for any more may still be shown.              *)
(***************************************************************************)
EXTENDS Sending, FiniteSets

CONSTANTS
  Rich,      (* tasks whose texts are sent as markdown first               *)
  MaxDelayed (* bound: posts under way at once that nobody waits for       *)

ASSUME HttpAssumption == Rich \subseteq Tasks /\ MaxDelayed \in Nat

VARIABLES
  post,     (* of a task's thread: the post that is under way              *)
  delayed   (* posts under way that nobody waits for: [part, attempt]      *)

httpVars == <<post, delayed>>

(* A post has a form, "markdown" or "plain", and a state: "sent" while it  *)
(* is under way, "shown" or "refused" by the service.                      *)
NoPost     == [form |-> "none", state |-> "none"]
Post(form) == [form |-> form, state |-> "sent"]

-----------------------------------------------------------------------------
(* send() gives the loop away, and the thread begins. *)
StartsThread(t) ==
  /\ at[t].pc = "trying"
  /\ at' = [at EXCEPT ![t].pc = "waiting"]
  /\ post' = [post EXCEPT ![t] = Post(IF t \in Rich THEN "markdown" ELSE "plain")]
  /\ UNCHANGED <<delayed, sends, historyVars>>

(* The markdown is refused, or there is no token for it. *)
FallsBack(t) ==
  /\ post[t].form = "markdown" /\ post[t].state = "refused"
  /\ post' = [post EXCEPT ![t] = Post("plain")]
  /\ UNCHANGED <<delayed, taskVars, historyVars>>

(* The answer says that the text is shown. *)
Accepted(t) ==
  /\ Turn
  /\ post[t].state = "shown"
  /\ at' = [at EXCEPT ![t] = Settled(t)]
  /\ delivered' = delivered \cup {Part(t)}
  /\ post' = [post EXCEPT ![t] = NoPost]
  /\ UNCHANGED <<delayed, sends, shown, unanswered, late>>

(* The plain text is refused, or there is no token for it. *)
Refused(t) ==
  /\ Turn
  /\ post[t].form = "plain" /\ post[t].state = "refused"
  /\ at' = [at EXCEPT ![t] = Failed(t)]
  /\ post' = [post EXCEPT ![t] = NoPost]
  /\ UNCHANGED <<delayed, sends, historyVars>>

(* Another exception of the token's call or the post's, at any moment.     *)
Breaks(t) ==
  /\ Turn
  /\ post[t] # NoPost
  /\ at' = [at EXCEPT ![t] = Failed(t)]
  /\ unanswered' = unanswered \cup {Part(t)}
  /\ post' = [post EXCEPT ![t] = NoPost]
  /\ \/ UNCHANGED delayed
     \/ /\ post[t].state = "sent" /\ Cardinality(delayed) < MaxDelayed
        /\ delayed' = delayed \cup {[part |-> Part(t), attempt |-> at[t].attempt]}
  /\ UNCHANGED <<sends, shown, delivered, late>>

-----------------------------------------------------------------------------
(* The service. *)
ServiceShows(t) ==
  /\ post[t].state = "sent"
  /\ post' = [post EXCEPT ![t].state = "shown"]
  /\ shown' = Append(shown, Part(t))
  /\ UNCHANGED <<delayed, taskVars, delivered, unanswered, late>>

ServiceRefuses(t) ==
  /\ post[t].state = "sent"
  /\ post' = [post EXCEPT ![t].state = "refused"]
  /\ UNCHANGED <<delayed, taskVars, historyVars>>

ServiceShowsLate ==
  \E d \in delayed :
    /\ delayed' = delayed \ {d}
    /\ shown' = Append(shown, d.part)
    /\ late' = late \cup {d.part}
    /\ UNCHANGED <<post, taskVars, delivered, unanswered>>

-----------------------------------------------------------------------------
HttpInit == post = [t \in Tasks |-> NoPost] /\ delayed = {}

(* A task that is sending goes on. *)
HttpProceeds(t) ==
  \/ Resumes(t) /\ UNCHANGED httpVars
  \/ StartsThread(t) \/ FallsBack(t) \/ Accepted(t) \/ Refused(t) \/ Breaks(t)

HttpNext ==
  \/ \E t \in Tasks :
       \/ Sends(t) /\ UNCHANGED httpVars
       \/ HttpProceeds(t) \/ ServiceShows(t) \/ ServiceRefuses(t)
  \/ ServiceShowsLate

HttpSpec ==
  /\ SendingInit /\ HttpInit
  /\ [][HttpNext]_<<taskVars, historyVars, httpVars>>
=============================================================================
