---------------------------- MODULE Notifications ----------------------------
(***************************************************************************)
(* The notification side of the hub (hub.py) and its state file: session   *)
(* events are forwarded to the bound conversations by two asyncio tasks,   *)
(* the mux reader (live events) and the catch-up task (events missed while *)
(* the bridge was down), under a watermark per session that is persisted   *)
(* together with the bindings.  The life of a process goes                 *)
(*                                                                         *)
(*   down -> serving -> running -> stopping -> stopped -> down             *)
(*                                                                         *)
(* (__main__.py: the API is served before the hub starts and until after   *)
(* it has stopped), and a crash may end it anywhere.  Tasks interleave     *)
(* where they await a channel send.  The agent host is external.           *)
(***************************************************************************)
EXTENDS Integers, Sequences

CONSTANTS
  Sessions,       (* ids of agent sessions                                 *)
  Conversations,  (* conversation keys                                     *)
  NoSession,      (* the binding of a conversation that has none           *)
  Silent,         (* events <<s, n>> the forward policy filters out        *)
  MaxEvents,      (* bound: events of a session                            *)
  Window,         (* catch_up_max_events                                   *)
  Reminders,      (* whether the histories hold unanswered questions       *)
  MaxBinds,       (* bound: times a conversation is bound                  *)
  MaxDrops,       (* bound: times the mux connection is lost               *)
  MaxLives,       (* bound: processes started one after the other          *)
  EarlyBinds,     (* whether /bind is called before the state file is read *)
  MaxUnsaved,     (* bound: writes of the state file that fail             *)
  Tears,          (* whether a write that fails may be cut short           *)
  MaxFailures     (* bound: steps in which session.history calls fail      *)

ASSUME NotificationAssumption ==
  /\ NoSession \notin Sessions
  /\ MaxEvents \in Nat /\ Window \in Nat
  /\ MaxBinds \in Nat /\ MaxDrops \in Nat /\ MaxLives \in Nat
  /\ MaxUnsaved \in Nat /\ MaxFailures \in Nat
  /\ EarlyBinds \in BOOLEAN /\ Reminders \in BOOLEAN /\ Tears \in BOOLEAN

VARIABLES
  phase,      (* of the process, see above                                 *)
  binding,    (* conversation -> session, BridgeHub.bindings               *)
  index,      (* session -> conversations, BridgeHub._by_session           *)
  notified,   (* session -> watermark, BridgeHub._notified_seq; 0 for none *)
  file,       (* the state file: [current, binding, notified], current     *)
              (* when the last write went through                          *)
  forwarding, (* task -> the event it forwards: [s, n, left], or Idle      *)
  catchup,    (* the catch-up task: [stage, todo, at, page, last]          *)
  emitted,    (* host: number of events of each session                    *)
  online,     (* the mux WebSocket is up                                   *)
  wire,       (* events on their way to the mux reader: <<s, n>>           *)
  offered,    (* conversation -> events a send was made for                *)
  binds, drops, lives, unsaved, failures,  (* so far, up to the bounds       *)
  (* History, read by the properties only:                                 *)
  bound,      (* conversation -> the session it was last bound to, but for *)
              (* what was not in the file when its process ended           *)
  finished,   (* events this process sent to all conversations of theirs   *)
  settled,    (* what was finished when its process stopped and saved      *)
  before,     (* emitted, when the process last ended                      *)
  due         (* <<c, s, n>>: event n of s was emitted while no process    *)
              (* ran, s had a watermark, c is bound to s since then, and   *)
              (* the history of s could be read                            *)

Tasks  == {"mux", "catchup"}
Events == Sessions \X (1..MaxEvents)
Idle   == [s |-> NoSession, n |-> 0, left |-> {}]
Unbound == [c \in Conversations |-> NoSession]
NoMarks == [s \in Sessions |-> 0]

memory  == <<binding, index, notified>>
tasks   == <<forwarding, catchup>>
host    == <<emitted, online, wire>>
bounds  == <<binds, drops, lives, unsaved, failures>>
history == <<bound, finished, settled, before, due>>
vars    == <<phase, memory, file, tasks, host, offered, bounds, history>>


Bigger(m, n) == IF m < n THEN n ELSE m

-----------------------------------------------------------------------------
(* The state file.  It is written in place: a write that fails before it   *)
(* has begun leaves the old file, and one that is cut short a file that    *)
(* cannot be read.  The exception is logged and swallowed.                 *)
SaveState(b, marks) ==
  \/ file' = [current |-> TRUE, binding |-> b, notified |-> marks] /\ UNCHANGED unsaved
  \/ /\ unsaved < MaxUnsaved
     /\ unsaved' = unsaved + 1
     /\ \/ file' = [file EXCEPT !.current = FALSE]
        \/ Tears /\ file' = [current |-> FALSE, binding |-> Unbound, notified |-> NoMarks]

(* The rows of the file are added to what the memory holds already; a file *)
(* that cannot be read adds nothing.                                       *)
LoadState ==
  LET saved(c) == file.binding[c] IN
  /\ binding' = [c \in Conversations |->
                   IF saved(c) # NoSession THEN saved(c) ELSE binding[c]]
  /\ index' = [s \in Sessions |-> index[s] \cup {c \in Conversations : saved(c) = s}]
  /\ notified' = [s \in Sessions |->
                    IF file.notified[s] # 0 THEN file.notified[s] ELSE notified[s]]

(* Mutant of Bind: the state is saved before the binding is added. *)
BindSavesFirst(c, s) ==
  /\ phase \in {"running", "stopping", "stopped"}
  /\ binds < MaxBinds
  /\ binds' = binds + 1
  /\ SaveState(binding, notified)
  /\ binding' = [binding EXCEPT ![c] = s]
  /\ index' = [index EXCEPT ![s] = @ \cup {c}]
  /\ bound' = [bound EXCEPT ![c] = s]
  /\ due' = {d \in due : d[1] # c \/ d[2] = s}
  /\ UNCHANGED <<phase, notified, tasks, host, offered>>
  /\ UNCHANGED <<drops, lives, failures, finished, settled, before>>

(* /attach, /new, the first message of a conversation and the API's /bind: *)
(* _add_binding, then _save_state.                                         *)
Bind(c, s) ==
  /\ phase \in {"running", "stopping", "stopped"} \cup (IF EarlyBinds THEN {"serving"} ELSE {})
  /\ binds < MaxBinds
  /\ binds' = binds + 1
  /\ binding' = [binding EXCEPT ![c] = s]
  /\ index' = [index EXCEPT ![s] = @ \cup {c}]
  /\ SaveState(binding', notified)
  /\ bound' = [bound EXCEPT ![c] = s]
  /\ due' = {d \in due : d[1] # c \/ d[2] = s}
  /\ UNCHANGED <<phase, notified, tasks, host, offered>>
  /\ UNCHANGED <<drops, lives, failures, finished, settled, before>>

-----------------------------------------------------------------------------
(* The life of a process. *)

StartServer ==
  /\ phase = "down"
  /\ lives < MaxLives
  /\ lives' = lives + 1
  /\ phase' = "serving"
  /\ UNCHANGED <<memory, file, tasks, host, offered, binds, drops, unsaved, failures, history>>

(* hub.start: the state file is read and the tasks are made.               *)
StartHub ==
  /\ phase = "serving"
  /\ phase' = "running"
  /\ LoadState
  /\ catchup' = [catchup EXCEPT !.stage = "new"]
  /\ due' = {d \in Conversations \X Sessions \X (1..MaxEvents) :
               LET c == d[1]  s == d[2]  n == d[3] IN
               /\ binding'[c] = s /\ notified'[s] # 0
               /\ Bigger(before[s], notified'[s]) < n /\ n <= emitted[s]
               /\ <<s, n>> \notin Silent}
  /\ UNCHANGED <<file, forwarding, host, offered, bounds>>
  /\ UNCHANGED <<bound, finished, settled, before>>

(* hub.stop cancels the tasks, waits for the channels to stop, and saves.  *)
StopTasks ==
  /\ phase = "running"
  /\ phase' = "stopping"
  /\ forwarding' = [t \in Tasks |-> Idle]
  /\ catchup' = [catchup EXCEPT !.stage = "done", !.todo = {}, !.at = NoSession,
                                  !.page = {}, !.last = 0]
  /\ online' = FALSE
  /\ wire' = <<>>
  /\ UNCHANGED <<memory, file, emitted, offered, bounds, history>>

(* Mutant of StopSaves: the hub stops without saving. *)
StopOnly ==
  /\ phase = "stopping"
  /\ phase' = "stopped"
  /\ settled' = IF file.current THEN settled \cup finished ELSE settled
  /\ UNCHANGED <<memory, file, tasks, host, offered, bounds, bound, finished, before, due>>

StopSaves ==
  /\ phase = "stopping"
  /\ phase' = "stopped"
  /\ SaveState(binding, notified)
  /\ settled' = IF file'.current THEN settled \cup finished ELSE settled
  /\ UNCHANGED <<memory, tasks, host, offered, binds, drops, lives, failures>>
  /\ UNCHANGED <<bound, finished, before, due>>

(* The process ends, after stopping or by a crash at any point.            *)
Exit ==
  /\ phase # "down"
  /\ phase' = "down"
  /\ binding' = Unbound
  /\ index' = [s \in Sessions |-> {}]
  /\ notified' = NoMarks
  /\ forwarding' = [t \in Tasks |-> Idle]
  /\ catchup' = [catchup EXCEPT !.stage = "done", !.todo = {}, !.at = NoSession,
                                  !.page = {}, !.last = 0]
  /\ online' = FALSE
  /\ wire' = <<>>
  /\ before' = emitted
  /\ bound' = IF file.current THEN bound ELSE file.binding
  /\ finished' = {}
  /\ due' = {}
  /\ UNCHANGED <<file, emitted, offered, bounds, settled>>

-----------------------------------------------------------------------------
(* The agent host and the mux connection. *)

Emit(s) ==
  /\ emitted[s] < MaxEvents
  /\ emitted' = [emitted EXCEPT ![s] = @ + 1]
  /\ wire' = IF online THEN Append(wire, <<s, emitted'[s]>>) ELSE wire
  /\ UNCHANGED <<phase, memory, file, tasks, online, offered, bounds, history>>

(* The first step of the catch-up task comes before the first connection:  *)
(* both tasks get their first turn at once, and connecting takes several.  *)
MuxConnects ==
  /\ phase = "running"
  /\ catchup.stage # "new"
  /\ ~online /\ wire = <<>> /\ forwarding["mux"] = Idle
  /\ online' = TRUE
  /\ UNCHANGED <<phase, memory, file, tasks, emitted, wire, offered, bounds, history>>

(* Frames already received are still handed to the reader.                 *)
MuxDrops ==
  /\ online
  /\ drops < MaxDrops
  /\ drops' = drops + 1
  /\ online' = FALSE
  /\ \E k \in 0..Len(wire) : wire' = SubSeq(wire, 1, k)
  /\ UNCHANGED <<phase, memory, file, tasks, emitted, offered>>
  /\ UNCHANGED <<binds, lives, unsaved, failures, history>>

-----------------------------------------------------------------------------
(* _forward_session_event, in the two tasks that run it. *)

Forward(t, s, n) ==
  forwarding' = IF index[s] = {} \/ <<s, n>> \in Silent THEN forwarding
                ELSE [forwarding EXCEPT ![t] = [s |-> s, n |-> n, left |-> index[s]]]

(* One send ends, after its retries; the order within a set is arbitrary.  *)
Offer(t, c) ==
  LET f == forwarding[t] IN
  /\ c \in f.left
  /\ forwarding' = [forwarding EXCEPT ![t].left = @ \ {c}]
  /\ offered' = [offered EXCEPT ![c] = @ \cup {<<f.s, f.n>>}]
  /\ UNCHANGED <<phase, memory, file, catchup, host, bounds, history>>

(* Mutant of Forwarded: the watermark is the next event, not the last one. *)
ForwardedNext(t) ==
  LET f == forwarding[t] IN
  /\ f # Idle /\ f.left = {}
  /\ notified' = [notified EXCEPT ![f.s] = Bigger(@, f.n + 1)]
  /\ forwarding' = [forwarding EXCEPT ![t] = Idle]
  /\ finished' = finished \cup {<<f.s, f.n>>}
  /\ UNCHANGED <<phase, binding, index, file, catchup, host, offered, bounds>>
  /\ UNCHANGED <<bound, settled, before, due>>

(* After the last send the watermark follows. *)
Forwarded(t) ==
  LET f == forwarding[t] IN
  /\ f # Idle /\ f.left = {}
  /\ notified' = [notified EXCEPT ![f.s] = Bigger(@, f.n)]
  /\ forwarding' = [forwarding EXCEPT ![t] = Idle]
  /\ finished' = finished \cup {<<f.s, f.n>>}
  /\ UNCHANGED <<phase, binding, index, file, catchup, host, offered, bounds>>
  /\ UNCHANGED <<bound, settled, before, due>>

(* Mutant of MuxFrame: events of the session being caught up are left out. *)
MuxFrameLeavesOut ==
  /\ forwarding["mux"] = Idle
  /\ wire # <<>>
  /\ wire' = Tail(wire)
  /\ IF Head(wire)[1] = catchup.at THEN UNCHANGED forwarding
     ELSE Forward("mux", Head(wire)[1], Head(wire)[2])
  /\ UNCHANGED <<phase, memory, file, catchup, emitted, online, offered, bounds, history>>

MuxFrame ==
  /\ forwarding["mux"] = Idle
  /\ wire # <<>>
  /\ wire' = Tail(wire)
  /\ Forward("mux", Head(wire)[1], Head(wire)[2])
  /\ UNCHANGED <<phase, memory, file, catchup, emitted, online, offered, bounds, history>>

(* The events of a session that catch-up reads: newer than the watermark   *)
(* and in the window of the newest ones.                                   *)
Missed(s) == {n \in 1..emitted[s] : n > notified[s] /\ n > emitted[s] - Window}

(* The bound sessions, as the task finds them at its first step, or those  *)
(* of them that it has not come to.                                        *)
Todo ==
  IF catchup.stage = "new"
  THEN {s \in Sessions : \E c \in Conversations : binding[c] = s}
  ELSE catchup.todo

(* The catch-up task passes over sessions without giving way: those that   *)
(* have no watermark, those whose history cannot be read, and those of     *)
(* which there is nothing to send, which it has then read to the end.      *)
PassesOver(skipped) ==
  LET marked == {t \in skipped : notified[t] # 0} IN
  \E failed \in SUBSET marked :
    /\ \A t \in marked \ failed : \A n \in Missed(t) : <<t, n>> \in Silent
    /\ failed # {} => failures < MaxFailures
    /\ failures' = IF failed = {} THEN failures ELSE failures + 1
    /\ due' = {d \in due : d[2] \notin failed}
    /\ notified' = [t \in Sessions |-> IF t \in marked \ failed
                                       THEN Bigger(notified[t], emitted[t])
                                       ELSE notified[t]]

(* Mutant of CatchUpSession: no watermark is taken for a watermark of 0. *)
CatchUpAnySession(s) ==
  /\ s \in Todo
  /\ catchup.at = NoSession
  /\ catchup' = [stage |-> "on", todo |-> Todo \ {s},
                 at |-> s, page |-> Missed(s), last |-> emitted[s]]
  /\ UNCHANGED <<phase, memory, file, forwarding, host, offered, bounds, history>>

(* It stops at a session with something to send: an event, or a reminder   *)
(* of unanswered questions in the history.                                 *)
CatchUpSession(s) ==
  /\ s \in Todo
  /\ catchup.at = NoSession
  /\ notified[s] # 0
  /\ Reminders \/ \E n \in Missed(s) : <<s, n>> \notin Silent
  /\ \E skipped \in SUBSET (Todo \ {s}) :
       /\ PassesOver(skipped)
       /\ catchup' = [stage |-> "on", todo |-> (Todo \ skipped) \ {s},
                      at |-> s, page |-> Missed(s), last |-> emitted[s]]
  /\ UNCHANGED <<phase, binding, index, file, forwarding, host, offered>>
  /\ UNCHANGED <<binds, drops, lives, unsaved, bound, finished, settled, before>>

(* Mutant of CatchUpEvent: an event is compared with the watermark as it   *)
(* is when its turn comes, not as it was when the history was read.        *)
CatchUpEventLate ==
  \E n \in catchup.page :
    /\ \A k \in catchup.page : n <= k
    /\ forwarding["catchup"] = Idle
    /\ catchup' = [catchup EXCEPT !.page = @ \ {n}]
    /\ IF n <= notified[catchup.at] THEN UNCHANGED forwarding
       ELSE Forward("catchup", catchup.at, n)
    /\ UNCHANGED <<phase, memory, file, host, offered, bounds, history>>

(* The events of the page, in their order. *)
CatchUpEvent ==
  \E n \in catchup.page :
    /\ \A k \in catchup.page : n <= k
    /\ forwarding["catchup"] = Idle
    /\ catchup' = [catchup EXCEPT !.page = @ \ {n}]
    /\ Forward("catchup", catchup.at, n)
    /\ UNCHANGED <<phase, memory, file, host, offered, bounds, history>>

(* Mutant of CatchUpSessionDone: the watermark is set, even backwards. *)
CatchUpSessionSets ==
  /\ catchup.at # NoSession
  /\ catchup.page = {}
  /\ forwarding["catchup"] = Idle
  /\ notified' = [notified EXCEPT ![catchup.at] = catchup.last]
  /\ catchup' = [catchup EXCEPT !.at = NoSession, !.last = 0]
  /\ UNCHANGED <<phase, binding, index, file, forwarding, host, offered, bounds, history>>

(* After the events of a session, and the reminder of its unanswered       *)
(* questions, the watermark covers everything that was read.               *)
CatchUpSessionDone ==
  /\ catchup.at # NoSession
  /\ catchup.page = {}
  /\ forwarding["catchup"] = Idle
  /\ notified' = [notified EXCEPT ![catchup.at] = Bigger(@, catchup.last)]
  /\ catchup' = [catchup EXCEPT !.at = NoSession, !.last = 0]
  /\ UNCHANGED <<phase, binding, index, file, forwarding, host, offered, bounds, history>>

(* Mutant of CatchUpDone: it waits for sessions that have no watermark. *)
CatchUpWaits ==
  /\ catchup.stage # "done"
  /\ catchup.at = NoSession /\ Todo = {}
  /\ catchup' = [catchup EXCEPT !.stage = "done"]
  /\ SaveState(binding, notified)
  /\ UNCHANGED <<phase, memory, forwarding, host, offered>>
  /\ UNCHANGED <<binds, drops, lives, failures, history>>

CatchUpDone ==
  /\ catchup.stage # "done"
  /\ catchup.at = NoSession
  /\ PassesOver(Todo)
  /\ catchup' = [catchup EXCEPT !.stage = "done", !.todo = {}]
  /\ IF \E s \in Sessions : notified[s] # 0
     THEN SaveState(binding, notified')
     ELSE UNCHANGED <<file, unsaved>>
  /\ UNCHANGED <<phase, binding, index, forwarding, host, offered>>
  /\ UNCHANGED <<binds, drops, lives, bound, finished, settled, before>>

-----------------------------------------------------------------------------
Init ==
  /\ phase = "down"
  /\ binding = Unbound /\ index = [s \in Sessions |-> {}] /\ notified = NoMarks
  /\ file = [current |-> TRUE, binding |-> Unbound, notified |-> NoMarks]
  /\ forwarding = [t \in Tasks |-> Idle]
  /\ catchup = [stage |-> "done", todo |-> {}, at |-> NoSession, page |-> {}, last |-> 0]
  /\ emitted = NoMarks /\ online = FALSE /\ wire = <<>>
  /\ offered = [c \in Conversations |-> {}]
  /\ binds = 0 /\ drops = 0 /\ lives = 0 /\ unsaved = 0 /\ failures = 0
  /\ bound = Unbound /\ finished = {} /\ settled = {}
  /\ before = NoMarks /\ due = {}

Next ==
  \/ \E c \in Conversations, s \in Sessions : Bind(c, s)
  \/ StartServer \/ StartHub \/ StopTasks \/ StopSaves \/ Exit
  \/ \E s \in Sessions : Emit(s) \/ CatchUpSession(s)
  \/ MuxConnects \/ MuxDrops \/ MuxFrame
  \/ \E t \in Tasks : Forwarded(t) \/ \E c \in Conversations : Offer(t, c)
  \/ CatchUpEvent \/ CatchUpSessionDone \/ CatchUpDone

Spec == Init /\ [][Next]_vars

(* The two tasks of the hub run on; starting, stopping, crashing and what  *)
(* the host and the clients do is left to chance.                          *)
Fairness ==
  /\ WF_vars(MuxConnects) /\ WF_vars(MuxFrame)
  /\ WF_vars(CatchUpEvent) /\ WF_vars(CatchUpSessionDone) /\ WF_vars(CatchUpDone)
  /\ \A s \in Sessions : WF_vars(CatchUpSession(s))
  /\ \A t \in Tasks :
       /\ WF_vars(Forwarded(t))
       /\ \A c \in Conversations : WF_vars(Offer(t, c))

FairSpec == Spec /\ Fairness
-----------------------------------------------------------------------------
Bindings    == [Conversations -> Sessions \cup {NoSession}]
Marks       == [Sessions -> 0..MaxEvents]
Files       == [current : BOOLEAN, binding : Bindings, notified : Marks]
Forwardings == [s : Sessions, n : 1..MaxEvents, left : SUBSET Conversations]
CatchUps    == [stage : {"new", "on", "done"}, todo : SUBSET Sessions,
                at : Sessions \cup {NoSession}, page : SUBSET (1..MaxEvents),
                last : 0..MaxEvents]

(* The values the variables take. *)
TypeOK ==
  /\ phase \in {"down", "serving", "running", "stopping", "stopped"}
  /\ binding \in Bindings /\ index \in [Sessions -> SUBSET Conversations]
  /\ notified \in Marks
  /\ file \in Files
  /\ forwarding \in [Tasks -> Forwardings \cup {Idle}]
  /\ catchup \in CatchUps
  /\ catchup.at = NoSession => catchup.page = {}
  /\ emitted \in Marks
  /\ online \in BOOLEAN
  /\ wire \in Seq(Events)
  /\ offered \in [Conversations -> SUBSET Events]
  /\ binds \in 0..MaxBinds /\ drops \in 0..MaxDrops /\ lives \in 0..MaxLives
  /\ unsaved \in 0..MaxUnsaved /\ failures \in 0..MaxFailures
  /\ bound \in Bindings
  /\ finished \subseteq Events /\ settled \subseteq Events
  /\ before \in Marks
  /\ due \subseteq Conversations \X Sessions \X (1..MaxEvents)

(* While the hub runs, what it would be restarted with is what it has: the *)
(* same bindings, and watermarks that are behind, never ahead.             *)
FileMatchesMemory ==
  phase = "running" /\ file.current =>
    /\ file.binding = binding
    /\ \A s \in Sessions : file.notified[s] <= notified[s]

(* The bindings are persistent: a hub that runs has the last binding that  *)
(* was made for each conversation, in this process or in an earlier one;   *)
(* what is lost was missing from the file when its process ended, because  *)
(* the last write had failed, and a later write brings all bindings back.  *)
BindingsPersist == phase = "running" => binding = bound

(* Catch-up backfills the notifications missed while the bridge was down:  *)
(* once it is done, each was sent to the conversations bound all along,    *)
(* unless the history of its session could not be read.                    *)
MissedAreBackfilled ==
  phase = "running" /\ catchup.stage = "done" =>
    \A d \in due : <<d[2], d[3]>> \in offered[d[1]]

(* A start never spams history: catch-up sends an event only if an earlier *)
(* one of that session was sent to somebody (docstring of _catch_up).      *)
NoHistorySpam ==
  LET f == forwarding["catchup"] IN
  f # Idle => \E m \in 1 .. f.n - 1, c \in Conversations : <<f.s, m>> \in offered[c]

(* What was sent to everybody before an orderly stop that could save is    *)
(* not sent again by the catch-up of a later process.                      *)
SettledIsNotRepeated ==
  LET f == forwarding["catchup"] IN
  f # Idle => <<f.s, f.n>> \notin settled

(* An event that has reached the mux reader's connection is sent to the    *)
(* conversations bound to its session, unless the connection, the process  *)
(* or the binding ends first.                                              *)
LiveEventsAreOffered ==
  \A s \in Sessions, n \in 1..MaxEvents, c \in Conversations :
    LET coming == \E i \in DOMAIN wire : wire[i] = <<s, n>> IN
    (coming /\ binding[c] = s /\ <<s, n>> \notin Silent)
      ~> (<<s, n>> \in offered[c] \/ ~online \/ binding[c] # s)

(* Catch-up comes to its end. *)
CatchUpEnds ==
  catchup.stage = "new" ~> catchup.stage = "done"

(* The watermarks implement a durable cursor. *)
Cursor == INSTANCE DurableCursor
  WITH durable <- file.notified,
       volatile <- IF phase \in {"down", "serving"} THEN file.notified ELSE notified
CursorRefinement == Cursor!CursorSpec
=============================================================================
