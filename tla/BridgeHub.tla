------------------------------ MODULE BridgeHub ------------------------------
(***************************************************************************)
(* The request side of the hub (hub.py): conversation bindings, the table  *)
(* of pending questions and approvals, and the three kinds of asyncio task *)
(* that share them on one event loop:                                      *)
(*                                                                         *)
(*   - the inbound consumer, which takes one chat message at a time;       *)
(*   - the mux reader, which takes one frame of the agent host at a time;  *)
(*   - one coroutine per call of the management API (server.py).           *)
(*                                                                         *)
(* The calls to the agent host are synchronous, so a task gives way only   *)
(* where it awaits a channel send.  An action below is the code between    *)
(* two such awaits.  The agent host and the people chatting are external.  *)
(***************************************************************************)
EXTENDS Naturals, Sequences, FiniteSets

CONSTANTS
  Sessions,       (* ids of agent sessions                                 *)
  Conversations,  (* conversation keys, "channel:conversation_id"          *)
  Requests,       (* rpc ids of questions and approvals the host may raise *)
  NoSession,      (* the binding of a conversation that has none           *)
  SessionOf,      (* the session each request belongs to                   *)
  KindOf,         (* "question" or "approval", per request                 *)
  Texts,          (* what people type, see Utterances                      *)
  MaxMessages,    (* bound: chat messages in a behaviour                   *)
  MaxDrops,       (* bound: times the mux connection is lost               *)
  MaxRestarts     (* bound: restarts of the bridge process                 *)

(* A chat text is reduced to how the hub classifies it.  "reply" parses as *)
(* an answer, "garbled" does not, "skip" closes a question, "allow" and    *)
(* "reject" are also the approval words.  arg is the session of /attach.   *)
Plain    == {"reply", "garbled", "skip", "allow", "reject"}
Commands == {"/cancel-question", "/allow", "/reject", "/new", "/other"}
Words    == Plain \cup Commands \cup {"/attach"}
Utterances == [text : Plain \cup Commands, arg : {NoSession}]
              \cup [text : {"/attach"}, arg : Sessions]

ASSUME HubAssumption ==
  /\ NoSession \notin Sessions
  /\ SessionOf \in [Requests -> Sessions]
  /\ KindOf \in [Requests -> {"question", "approval"}]
  /\ Texts \subseteq Utterances
  /\ MaxMessages \in Nat /\ MaxDrops \in Nat /\ MaxRestarts \in Nat

Messages == 1..MaxMessages

VARIABLES
  bindings,   (* conversation -> session, BridgeHub.bindings               *)
  bySession,  (* session -> conversations, BridgeHub._by_session           *)
  pending,    (* request -> conversations it was registered for; {} when   *)
              (* BridgeHub.pending has no entry for it                     *)
  older,      (* <<q, r>>: q was put into the dict pending before r        *)
  inbox,      (* BridgeHub._queue: [id, conv, text, arg]                   *)
  replying,   (* the inbound consumer awaits a channel send                *)
  toDrop,     (* the request it removes from pending after that send       *)
  showing,    (* sends the mux reader still has to make: <<r, what, c>>    *)
  sessions,   (* host: sessions that exist                                 *)
  host,       (* host: "unasked", "open" or "closed", per request          *)
  connected,  (* the mux WebSocket is up                                   *)
  stream,     (* frames on their way to the mux reader                     *)
  replay,     (* host: open requests it may still repeat on this           *)
              (* connection                                                *)
  fate,       (* chat message -> what became of it                         *)
  shown,      (* conversation -> requests whose text has appeared in it    *)
  lost,       (* closed requests whose resolved frame went with a          *)
              (* connection (history, read by the properties only)         *)
  drops,      (* connections lost so far, up to MaxDrops                   *)
  restarts    (* restarts so far, up to MaxRestarts                        *)

hubVars  == <<bindings, bySession, pending, older>>
taskVars == <<replying, toDrop, showing>>
hostVars == <<sessions, host, connected, stream, replay, lost, drops>>
chatVars == <<inbox, fate, shown>>
vars     == <<hubVars, taskVars, hostVars, chatVars, restarts>>

Frames == [what : {"requested", "resolved"}, rpc : Requests]
Requested(r) == [what |-> "requested", rpc |-> r]
Resolved(r)  == [what |-> "resolved", rpc |-> r]

(* The mux reader between two frames. *)
NotShowing == {}

-----------------------------------------------------------------------------
(* The pending table.  A Python dict keeps insertion order, and assigning  *)
(* to a key it already has keeps that key's place.                         *)

Pending == {r \in Requests : pending[r] # {}}

Register(r, convs) ==
  /\ pending' = [pending EXCEPT ![r] = convs]
  /\ older' = IF r \in Pending THEN older
              ELSE older \cup {<<q, r>> : q \in Pending}

(* Mutant of Drop: the entry loses its row instead of being emptied. *)
DropRow(rs) ==
  /\ pending' = [r \in Requests \ rs |-> pending[r]]
  /\ older' = {p \in older : p[1] \notin rs /\ p[2] \notin rs}

Drop(rs) ==
  /\ pending' = [r \in Requests |-> IF r \in rs THEN {} ELSE pending[r]]
  /\ older' = {p \in older : p[1] \notin rs /\ p[2] \notin rs}

Candidates(c, kind) == {r \in Requests : KindOf[r] = kind /\ c \in pending[r]}

(* Two mutants of FirstPending: the newest entry, and the first entry of   *)
(* the kind in the whole table, when the conversation is one of its own.   *)
LastPending(c, kind) ==
  {r \in Candidates(c, kind) :
     \A q \in Candidates(c, kind) : <<r, q>> \notin older}

FirstOfAll(c, kind) ==
  {r \in Candidates(c, kind) :
     \A q \in Pending : KindOf[q] = kind => <<q, r>> \notin older}

(* The first entry of a kind registered for a conversation: no element or  *)
(* exactly one (theorem FirstPendingUnique in BridgeHub_proofs).           *)
FirstPending(c, kind) ==
  {r \in Candidates(c, kind) :
     \A q \in Candidates(c, kind) : <<q, r>> \notin older}

AddBinding(c, s) ==
  /\ bindings' = [bindings EXCEPT ![c] = s]
  /\ bySession' = [bySession EXCEPT ![s] = @ \cup {c}]

-----------------------------------------------------------------------------
(* The agent host.  It closes a request once, tells the mux connection,    *)
(* and on a new connection may repeat the requests that are still open:    *)
(* the repository disagrees about that (see HostRepeats), so it is free to *)
(* repeat all, some or none of them.                                       *)

Settle(r) ==
  /\ host' = [host EXCEPT ![r] = "closed"]
  /\ stream' = IF connected THEN Append(stream, Resolved(r)) ELSE stream
  /\ lost' = IF connected THEN lost ELSE lost \cup {r}
  /\ UNCHANGED <<sessions, connected, replay, drops>>

(* The three outcomes of DshClient.respond: accepted, refused because the  *)
(* request is no longer open, and an exception, before or after the host   *)
(* has taken the response.                                                 *)
Accepts(r) == host[r] = "open" /\ Settle(r)
Refuses(r) == host[r] # "open" /\ UNCHANGED hostVars
Raises(r)  == Accepts(r) \/ UNCHANGED hostVars

HostCreatesSession(s) ==
  /\ s \notin sessions
  /\ sessions' = sessions \cup {s}
  /\ UNCHANGED <<host, connected, stream, replay, lost, drops>>
  /\ UNCHANGED <<hubVars, taskVars, chatVars, restarts>>

HostAsks(r) ==
  /\ host[r] = "unasked"
  /\ SessionOf[r] \in sessions
  /\ host' = [host EXCEPT ![r] = "open"]
  /\ stream' = IF connected THEN Append(stream, Requested(r)) ELSE stream
  /\ UNCHANGED <<sessions, connected, replay, lost, drops>>
  /\ UNCHANGED <<hubVars, taskVars, chatVars, restarts>>

(* Answered in the agent's own user interface, or the turn is cancelled.   *)
HostCloses(r) ==
  /\ Accepts(r)
  /\ UNCHANGED <<hubVars, taskVars, chatVars, restarts>>

HostReplays(r) ==
  /\ connected
  /\ r \in replay
  /\ replay' = replay \ {r}
  /\ stream' = IF host[r] = "open" THEN Append(stream, Requested(r)) ELSE stream
  /\ UNCHANGED <<sessions, host, connected, lost, drops>>
  /\ UNCHANGED <<hubVars, taskVars, chatVars, restarts>>

(* The connection breaks; the first n frames were already received and are *)
(* still handed to the reader, the others are lost.                        *)
MuxDrops ==
  /\ connected
  /\ drops < MaxDrops
  /\ drops' = drops + 1
  /\ connected' = FALSE
  /\ replay' = {}
  /\ \E n \in 0..Len(stream) :
       /\ stream' = SubSeq(stream, 1, n)
       /\ lost' = lost \cup {r \in Requests :
                               \E i \in n + 1 .. Len(stream) : stream[i] = Resolved(r)}
  /\ UNCHANGED <<sessions, host>>
  /\ UNCHANGED <<hubVars, taskVars, chatVars, restarts>>

(* DshClient.stream reconnects after its loop over the old connection.     *)
MuxConnects ==
  /\ ~connected
  /\ stream = <<>>
  /\ showing = NotShowing
  /\ connected' = TRUE
  /\ replay' = {r \in Requests : host[r] = "open"}
  /\ UNCHANGED <<sessions, host, stream, lost, drops>>
  /\ UNCHANGED <<hubVars, taskVars, chatVars, restarts>>

-----------------------------------------------------------------------------
(* The mux reader: _on_frame, one frame at a time, with one await per      *)
(* conversation the text goes to.                                          *)

MuxRequested(r) ==
  LET keys == bySession[SessionOf[r]] IN
  /\ stream # <<>> /\ Head(stream) = Requested(r)
  /\ showing = NotShowing
  /\ stream' = Tail(stream)
  /\ IF keys = {}
     THEN UNCHANGED <<pending, older, showing>>
     ELSE /\ Register(r, keys)
          /\ showing' = {<<r, "request", c>> : c \in keys}
  /\ UNCHANGED <<bindings, bySession, replying, toDrop>>
  /\ UNCHANGED <<sessions, host, connected, replay, lost, drops>>
  /\ UNCHANGED <<chatVars, restarts>>

(* Mutant of MuxResolved: the notice goes out and the entry stays. *)
ResolvedKeeps(r) ==
  /\ stream # <<>> /\ Head(stream) = Resolved(r)
  /\ showing = NotShowing
  /\ stream' = Tail(stream)
  /\ showing' = {<<r, "notice", c>> : c \in pending[r]}
  /\ UNCHANGED <<hubVars, replying, toDrop>>
  /\ UNCHANGED <<sessions, host, connected, replay, lost, drops>>
  /\ UNCHANGED <<chatVars, restarts>>

MuxResolved(r) ==
  /\ stream # <<>> /\ Head(stream) = Resolved(r)
  /\ showing = NotShowing
  /\ stream' = Tail(stream)
  /\ Drop({r})
  /\ showing' = {<<r, "notice", c>> : c \in pending[r]}
  /\ UNCHANGED <<bindings, bySession, replying, toDrop>>
  /\ UNCHANGED <<sessions, host, connected, replay, lost, drops>>
  /\ UNCHANGED <<chatVars, restarts>>

(* One send of the reader ends: delivered, or given up after the retries.  *)
MuxSent(r, c) ==
  \E what \in {"request", "notice"} :
    /\ <<r, what, c>> \in showing
    /\ showing' = showing \ {<<r, what, c>>}
    /\ \/ shown' = [shown EXCEPT ![c] = IF what = "request" THEN @ \cup {r} ELSE @]
       \/ UNCHANGED shown
    /\ UNCHANGED <<hubVars, replying, toDrop, hostVars, inbox, fate, restarts>>

-----------------------------------------------------------------------------
(* The inbound consumer: _handle_inbound and the slash commands, up to     *)
(* their only send; ConsumerSent is the code after it.                     *)

UserSends(c, u) ==
  \E m \in Messages :
    /\ fate[m] = "unsent"
    /\ \A k \in 1 .. m - 1 : fate[k] # "unsent"
    /\ inbox' = Append(inbox, [id |-> m, conv |-> c, text |-> u.text, arg |-> u.arg])
    /\ fate' = [fate EXCEPT ![m] = "queued"]
    /\ UNCHANGED <<shown, hubVars, taskVars, hostVars, restarts>>

(* Taking the head of the queue. *)
Taken(msg, outcome) ==
  /\ ~replying
  /\ inbox # <<>>
  /\ msg = Head(inbox)
  /\ inbox' = Tail(inbox)
  /\ fate' = [fate EXCEPT ![msg.id] = outcome]
  /\ UNCHANGED <<shown, showing, restarts>>

(* The handler goes on to send a reply and then removes rs from pending.   *)
ReplyThenDrop(rs) == replying' = TRUE /\ toDrop' = rs

(* A response to the host, a reply in the chat, and the entry is dropped   *)
(* only if the host accepted.                                              *)
RespondFromChat(r) ==
  /\ \/ Accepts(r) /\ ReplyThenDrop({r})
     \/ (Refuses(r) \/ Raises(r)) /\ ReplyThenDrop({})
  /\ UNCHANGED hubVars

JustReply ==
  /\ ReplyThenDrop({})
  /\ UNCHANGED <<hubVars, hostVars>>

Questions(c) == FirstPending(c, "question")
Approvals(c) == FirstPending(c, "approval")

DirectQuestionAnswer(msg) ==
  \E r \in Questions(msg.conv) :
    /\ msg.text \in Plain
    /\ Taken(msg, "answer")
    /\ IF msg.text = "garbled" THEN JustReply ELSE RespondFromChat(r)

DirectApprovalAnswer(msg) ==
  /\ Questions(msg.conv) = {}
  /\ \E r \in Approvals(msg.conv) :
       /\ msg.text \in Plain
       /\ Taken(msg, "answer")
       /\ IF msg.text \in {"allow", "reject"} THEN RespondFromChat(r) ELSE JustReply

(* session.create returned a session that did not exist before. *)
AutoBind(c) ==
  \E s \in Sessions \ sessions :
    /\ sessions' = sessions \cup {s}
    /\ AddBinding(c, s)
    /\ UNCHANGED <<pending, older, host, connected, stream, replay, lost, drops>>

(* A plain text of a bound conversation goes to the agent, and the handler *)
(* ends without a send.                                                    *)
PromptBound(msg) ==
  /\ msg.text \in Plain
  /\ Questions(msg.conv) = {} /\ Approvals(msg.conv) = {}
  /\ bindings[msg.conv] # NoSession
  /\ \/ /\ Taken(msg, "prompt")
        /\ UNCHANGED <<replying, toDrop, hubVars, hostVars>>
     \/ Taken(msg, "done") /\ JustReply      \* session.prompt failed

PromptUnbound(msg) ==
  /\ msg.text \in Plain
  /\ Questions(msg.conv) = {} /\ Approvals(msg.conv) = {}
  /\ bindings[msg.conv] = NoSession
  /\ \/ Taken(msg, "prompt") /\ AutoBind(msg.conv) /\ ReplyThenDrop({})
     \/ Taken(msg, "done") /\ AutoBind(msg.conv) /\ ReplyThenDrop({})
     \/ Taken(msg, "done") /\ JustReply      \* session.create failed

CmdCancelQuestion(msg) ==
  /\ msg.text = "/cancel-question"
  /\ Taken(msg, "done")
  /\ \/ Questions(msg.conv) = {} /\ JustReply
     \/ \E r \in Questions(msg.conv) : RespondFromChat(r)

CmdApproval(msg) ==
  /\ msg.text \in {"/allow", "/reject"}
  /\ Taken(msg, "done")
  /\ \/ Approvals(msg.conv) = {} /\ JustReply
     \/ \E r \in Approvals(msg.conv) : RespondFromChat(r)

CmdNew(msg) ==
  /\ msg.text = "/new"
  /\ Taken(msg, "done")
  /\ \/ AutoBind(msg.conv) /\ ReplyThenDrop({})
     \/ JustReply

CmdAttach(msg) ==
  /\ msg.text = "/attach"
  /\ Taken(msg, "done")
  /\ \/ /\ msg.arg \in sessions
        /\ AddBinding(msg.conv, msg.arg)
        /\ ReplyThenDrop({})
        /\ UNCHANGED <<pending, older, hostVars>>
     \/ JustReply                            \* no such session

(* /help, /status, /sessions, /history, /cancel and unknown commands leave *)
(* the state alone; what /cancel does to open requests is HostCloses.      *)
CmdOther(msg) ==
  /\ msg.text = "/other"
  /\ Taken(msg, "done")
  /\ JustReply

Consume ==
  \E msg \in {inbox[i] : i \in DOMAIN inbox} :
    \/ DirectQuestionAnswer(msg) \/ DirectApprovalAnswer(msg)
    \/ PromptBound(msg) \/ PromptUnbound(msg)
    \/ CmdCancelQuestion(msg) \/ CmdApproval(msg)
    \/ CmdNew(msg) \/ CmdAttach(msg) \/ CmdOther(msg)

(* Mutant of ConsumerSent: the task ends with the reply it made. *)
ConsumerEnds ==
  /\ replying
  /\ toDrop' = {}
  /\ Drop(toDrop)
  /\ UNCHANGED <<bindings, bySession, replying, showing, hostVars, chatVars, restarts>>

(* The send has ended, delivered or not; the handler's last statement.     *)
ConsumerSent ==
  /\ replying
  /\ replying' = FALSE
  /\ toDrop' = {}
  /\ Drop(toDrop)
  /\ UNCHANGED <<bindings, bySession, showing, hostVars, chatVars, restarts>>

-----------------------------------------------------------------------------
(* The management API.  These routes never await between reading pending   *)
(* and writing it.                                                         *)

RespondFromApi(r) ==
  /\ \/ Accepts(r) /\ Drop({r})
     \/ (Refuses(r) \/ Raises(r)) /\ UNCHANGED <<pending, older>>
  /\ UNCHANGED <<bindings, bySession, taskVars, chatVars, restarts>>

ApiAnswer(c)   == \E r \in Questions(c) : RespondFromApi(r)
ApiApproval(c) == \E r \in Approvals(c) : RespondFromApi(r)

(* The route takes any session id, known to the host or not.               *)
ApiBind(c, s) ==
  /\ AddBinding(c, s)
  /\ UNCHANGED <<pending, older, taskVars, hostVars, chatVars, restarts>>

-----------------------------------------------------------------------------
(* Mutant of LoadState: the index is not rebuilt. *)
LoadUnindexed ==
  /\ bySession' = [s \in Sessions |-> {}]
  /\ pending' = [r \in Requests |-> {}]
  /\ older' = {}

(* The hub of a new process: the bindings come back from the state file,   *)
(* the index is rebuilt from them, the table starts empty.                 *)
LoadState ==
  /\ bySession' = [s \in Sessions |-> {c \in Conversations : bindings[c] = s}]
  /\ pending' = [r \in Requests |-> {}]
  /\ older' = {}

(* The process ends and is started again. *)
Restart ==
  /\ restarts < MaxRestarts
  /\ restarts' = restarts + 1
  /\ LoadState
  /\ inbox' = <<>>
  /\ fate' = [m \in Messages |-> IF fate[m] = "queued" THEN "lost" ELSE fate[m]]
  /\ replying' = FALSE
  /\ toDrop' = {}
  /\ showing' = NotShowing
  /\ connected' = FALSE
  /\ stream' = <<>>
  /\ replay' = {}
  /\ UNCHANGED <<bindings, shown, sessions, host, lost, drops>>

-----------------------------------------------------------------------------
Init ==
  /\ bindings = [c \in Conversations |-> NoSession]
  /\ bySession = [s \in Sessions |-> {}]
  /\ pending = [r \in Requests |-> {}]
  /\ older = {}
  /\ inbox = <<>>
  /\ replying = FALSE
  /\ toDrop = {}
  /\ showing = NotShowing
  /\ sessions = {}
  /\ host = [r \in Requests |-> "unasked"]
  /\ connected = FALSE
  /\ stream = <<>>
  /\ replay = {}
  /\ fate = [m \in Messages |-> "unsent"]
  /\ shown = [c \in Conversations |-> {}]
  /\ lost = {}
  /\ drops = 0
  /\ restarts = 0

Host ==
  \/ \E s \in Sessions : HostCreatesSession(s)
  \/ \E r \in Requests : HostAsks(r) \/ HostCloses(r) \/ HostReplays(r)

Mux ==
  \/ MuxDrops \/ MuxConnects
  \/ \E r \in Requests : MuxRequested(r) \/ MuxResolved(r)
  \/ \E r \in Requests, c \in Conversations : MuxSent(r, c)

(* /status and /attachment only read, /prompt goes straight to the host:    *)
(* what is modelled here they leave as it is.                              *)
Api ==
  \/ \E c \in Conversations : ApiAnswer(c) \/ ApiApproval(c)
  \/ \E c \in Conversations, s \in Sessions : ApiBind(c, s)

Next ==
  \/ Host \/ Mux \/ Api
  \/ \E c \in Conversations, u \in Texts : UserSends(c, u)
  \/ Consume \/ ConsumerSent
  \/ Restart

Spec == Init /\ [][Next]_vars

(* Every task that can run does: one event loop, sends that end after a    *)
(* bounded number of attempts, and a reader that always reconnects.        *)
(* People, and what the host asks or repeats, are free.                    *)
Fairness ==
  /\ WF_vars(Consume) /\ WF_vars(ConsumerSent) /\ WF_vars(MuxConnects)
  /\ \A r \in Requests :
       /\ WF_vars(MuxRequested(r)) /\ WF_vars(MuxResolved(r))
       /\ \A c \in Conversations : WF_vars(MuxSent(r, c))

-----------------------------------------------------------------------------
Fates == {"unsent", "queued", "prompt", "answer", "done", "lost"}

(* The values the variables take. *)
TypeOK ==
  /\ bindings \in [Conversations -> Sessions \cup {NoSession}]
  /\ bySession \in [Sessions -> SUBSET Conversations]
  /\ pending \in [Requests -> SUBSET Conversations]
  /\ older \subseteq Requests \X Requests
  /\ inbox \in Seq([id : Messages, conv : Conversations, text : Words,
                    arg : Sessions \cup {NoSession}])
  /\ replying \in BOOLEAN
  /\ toDrop \subseteq Requests
  /\ showing \subseteq Requests \X {"request", "notice"} \X Conversations
  /\ sessions \subseteq Sessions
  /\ host \in [Requests -> {"unasked", "open", "closed"}]
  /\ connected \in BOOLEAN
  /\ stream \in Seq(Frames)
  /\ replay \subseteq Requests
  /\ fate \in [Messages -> Fates]
  /\ shown \in [Conversations -> SUBSET Requests]
  /\ lost \subseteq Requests
  /\ drops \in 0..MaxDrops
  /\ restarts \in 0..MaxRestarts

(* A conversation is always in the index of the session it is bound to, so *)
(* that events and requests of the session reach it (_add_binding).        *)
IndexCoversBindings ==
  \A c \in Conversations :
    bindings[c] # NoSession => c \in bySession[bindings[c]]

(* A reply in c that is meant for r meets r, or an older request of its    *)
(* kind that comes first and is                                            *)
(*   - open, so that it is answered in its turn;                           *)
(*   - closed, and its entry about to leave the table; or                  *)
(*   - closed, and its resolved frame lost with a connection.  Such an     *)
(*     entry swallows every reply, for as long as the process lives.       *)
Leaving(q) == q \in toDrop \/ \E i \in DOMAIN stream : stream[i] = Resolved(q)

MeetsOrQueuesFor(c, r) ==
  \E q \in FirstPending(c, KindOf[r]) :
    \/ q = r
    \/ /\ <<q, r>> \in older
       /\ host[q] = "open" \/ Leaving(q) \/ q \in lost

(* What a person has been shown and the agent still waits for stays        *)
(* registered for that conversation, through replies, API calls, notices,  *)
(* repeated frames and rebinding, and replies there go to it or to the     *)
(* older requests before it (_first_pending): none that was asked later,   *)
(* or of another conversation, gets in between, and a closed one keeps     *)
(* them off for good only if its resolved frame was lost.  (One process    *)
(* lifetime; a plain word meets open questions before approvals.)          *)
ShownRequestsAnswerable ==
  \A c \in Conversations : \A r \in shown[c] :
    host[r] = "open" => c \in pending[r] /\ MeetsOrQueuesFor(c, r)

(* What makes ShownRequestsAnswerable inductive: nothing the hub holds or  *)
(* is told about is unasked, the consumer only drops what is closed, and   *)
(* registering a request again cannot lose a conversation, because the     *)
(* index of the sessions never shrinks while the process lives.            *)
Raised(r) == host[r] # "unasked"

FramesAreRaised ==
  /\ \A r \in replay : Raised(r)
  /\ \A i \in DOMAIN stream :
       /\ Raised(stream[i].rpc)
       /\ stream[i].what = "resolved" => host[stream[i].rpc] = "closed"

PendingIsIndexed ==
  \A r \in Requests : \A c \in pending[r] :
    Raised(r) /\ c \in bySession[SessionOf[r]]

ShowingIsPending ==
  \A r \in Requests, c \in Conversations :
    <<r, "request", c>> \in showing \/ r \in shown[c] =>
      Raised(r) /\ (host[r] = "open" => c \in pending[r])

HubInv ==
  /\ FramesAreRaised
  /\ \A r \in toDrop : host[r] = "closed"
  /\ PendingIsIndexed
  /\ ShowingIsPending

(* An entry for a request the host has closed is on its way out: its       *)
(* resolved frame is coming, or the consumer drops it after the send it is *)
(* in.  The one other cause is a resolved frame lost with a connection.    *)
StaleEntriesHaveACause ==
  \A r \in Pending :
    host[r] = "closed" =>
      \/ r \in toDrop
      \/ \E i \in DOMAIN stream : stream[i] = Resolved(r)
      \/ r \in lost

(* A chat text is not handed to the agent as a new prompt while a request  *)
(* shown in that conversation is still open (hub.py, comment in            *)
(* _handle_inbound).                                                       *)
RepliesDoNotLeak ==
  [][\A m \in Messages :
       fate'[m] = "prompt" /\ fate[m] = "queued" =>
         \A r \in shown[Head(inbox).conv] : host[r] # "open"]_vars

(* A request is registered only for conversations bound to its session.    *)
AskedOnlyWhereBound ==
  [][\A r \in Requests :
       pending'[r] # pending[r] =>
         \A c \in pending'[r] : bindings[c] = SessionOf[r]]_vars

(* Every chat message gets its turn. *)
MessagesAreHandled ==
  \A m \in Messages : fate[m] = "queued" ~> fate[m] # "queued"

(* Whether the host repeats its open requests on a new connection is said  *)
(* both ways: REPORT.md:177 and :220 report an experiment in which it did, *)
(* hub.py:373, :428 and :996 say that it does not.                         *)
HostRepeats == \A r \in Requests : WF_vars(HostReplays(r))

(* If it does, a request that is open while the connection is down is      *)
(* registered after the reconnect, also when the bridge itself was down,   *)
(* as long as some conversation stays bound to its session.                *)
ReconnectRecoversRequests ==
  HostRepeats =>
    \A r \in Requests :
      LET bound == \E c \in Conversations : bindings[c] = SessionOf[r]
      IN  (host[r] = "open" /\ ~connected /\ bound)
            ~> (r \in Pending \/ host[r] = "closed" \/ ~bound)

(* An entry whose request the host has closed leaves the table, unless the *)
(* resolved frame was lost.                                                *)
StaleEntriesLeave ==
  \A r \in Requests :
    (r \in Pending /\ host[r] = "closed") ~> (r \notin Pending \/ r \in lost)
=============================================================================
