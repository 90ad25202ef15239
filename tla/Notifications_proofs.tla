------------------------ MODULE Notifications_proofs ------------------------
(***************************************************************************)
(* Theorems about Notifications, for every value of its constants.         *)
(***************************************************************************)
EXTENDS Notifications, TLAPS

(* The watermarks stay numbers of events when they move forward.           *)
LEMMA MarksAdvance ==
  ASSUME NEW m \in 0..MaxEvents, NEW n \in 0..MaxEvents
  PROVE  Bigger(m, n) \in 0..MaxEvents /\ m <= Bigger(m, n) /\ n <= Bigger(m, n)
  BY NotificationAssumption DEF Bigger

LEMMA Nothing ==
  /\ Unbound \in Bindings /\ NoMarks \in Marks
  /\ Idle.left = {} /\ [t \in Tasks |-> Idle] \in [Tasks -> Forwardings \cup {Idle}]
  BY NotificationAssumption DEF Unbound, NoMarks, Idle, Bindings, Marks

LEMMA FileFields ==
  ASSUME file \in Files PROVE file.binding \in Bindings /\ file.notified \in Marks
  BY DEF Files

LEMMA CatchUpFields ==
  ASSUME catchup \in CatchUps
  PROVE  /\ catchup.todo \subseteq Sessions /\ Todo \subseteq Sessions
         /\ catchup.at \in Sessions \cup {NoSession}
         /\ catchup.page \subseteq 1..MaxEvents
         /\ catchup.last \in 0..MaxEvents
  BY DEF CatchUps, Todo

(* The catch-up task that is done, and the one that is between sessions.   *)
LEMMA CatchUpRests ==
  ASSUME catchup \in CatchUps
  PROVE  /\ LET ended == [catchup EXCEPT !.stage = "done", !.todo = {}, !.at = NoSession,
                                         !.page = {}, !.last = 0]
            IN  ended \in CatchUps /\ ended.page = {} /\ ended.at = NoSession
         /\ [catchup EXCEPT !.at = NoSession, !.last = 0] \in CatchUps
         /\ [catchup EXCEPT !.at = NoSession, !.last = 0].page = catchup.page
  <1>1. 0 \in 0..MaxEvents /\ {} \in SUBSET (1..MaxEvents) /\ {} \in SUBSET Sessions
    BY NotificationAssumption
  <1>2. "done" \in {"new", "on", "done"} /\ NoSession \in Sessions \cup {NoSession}
    OBVIOUS
  <1> QED
    BY <1>1, <1>2 DEF CatchUps

LEMMA SaveStateType ==
  ASSUME file \in Files, unsaved \in 0..MaxUnsaved, NEW b \in Bindings, NEW marks \in Marks,
         SaveState(b, marks)
  PROVE  file' \in Files /\ unsaved' \in 0..MaxUnsaved
  <1>1. CASE file' = [current |-> TRUE, binding |-> b, notified |-> marks] /\ UNCHANGED unsaved
    BY <1>1 DEF Files
  <1>2. CASE /\ unsaved < MaxUnsaved
             /\ unsaved' = unsaved + 1
             /\ \/ file' = [file EXCEPT !.current = FALSE]
                \/ file' = [current |-> FALSE, binding |-> Unbound, notified |-> NoMarks]
    <2>1. unsaved' \in 0..MaxUnsaved
      BY <1>2, NotificationAssumption
    <2>2. CASE file' = [file EXCEPT !.current = FALSE]
      BY <2>1, <2>2 DEF Files
    <2>3. CASE file' = [current |-> FALSE, binding |-> Unbound, notified |-> NoMarks]
      BY <2>1, <2>3, Nothing DEF Files
    <2> QED
      BY <1>2, <2>2, <2>3
  <1> QED
    BY <1>1, <1>2 DEF SaveState

LEMMA ForwardType ==
  ASSUME forwarding \in [Tasks -> Forwardings \cup {Idle}],
         index \in [Sessions -> SUBSET Conversations],
         NEW t \in Tasks, NEW s \in Sessions, NEW n \in 1..MaxEvents,
         Forward(t, s, n)
  PROVE  forwarding' \in [Tasks -> Forwardings \cup {Idle}]
  <1>1. [s |-> s, n |-> n, left |-> index[s]] \in Forwardings
    BY DEF Forwardings
  <1> QED
    BY <1>1 DEF Forward

LEMMA PassesOverType ==
  ASSUME notified \in Marks, emitted \in Marks, failures \in 0..MaxFailures,
         NEW skipped \in SUBSET Sessions, PassesOver(skipped)
  PROVE  /\ notified' \in Marks
         /\ \A s \in Sessions : notified[s] <= notified'[s]
         /\ failures' \in 0..MaxFailures
         /\ due' \subseteq due
  <1> DEFINE marked == {t \in skipped : notified[t] # 0}
  <1>1. PICK failed \in SUBSET marked :
          /\ failed # {} => failures < MaxFailures
          /\ failures' = IF failed = {} THEN failures ELSE failures + 1
          /\ due' = {d \in due : d[2] \notin failed}
          /\ notified' = [t \in Sessions |-> IF t \in marked \ failed
                                             THEN Bigger(notified[t], emitted[t])
                                             ELSE notified[t]]
    BY DEF PassesOver
  <1>2. \A s \in Sessions : /\ notified[s] \in 0..MaxEvents
                            /\ Bigger(notified[s], emitted[s]) \in 0..MaxEvents
                            /\ notified[s] <= Bigger(notified[s], emitted[s])
    BY MarksAdvance DEF Marks
  <1>3. notified' \in Marks
    BY <1>1, <1>2 DEF Marks
  <1>4. \A s \in Sessions : notified[s] <= notified'[s]
    <2> TAKE s \in Sessions
    <2>1. notified[s] \in Nat
      BY <1>2
    <2> QED
      BY <1>1, <1>2, <2>1
  <1>5. failures' \in 0..MaxFailures
    BY <1>1, NotificationAssumption
  <1>6. due' \subseteq due
    BY <1>1
  <1> QED
    BY <1>3, <1>4, <1>5, <1>6

LEMMA InitType == Init => TypeOK
  <1> SUFFICES ASSUME Init PROVE TypeOK
    OBVIOUS
  <1>1. file \in Files
    BY Nothing DEF Init, Files
  <1>2. catchup \in CatchUps /\ catchup.page = {}
    BY NotificationAssumption DEF Init, CatchUps
  <1>3. wire \in Seq(Events)
    BY DEF Init
  <1>4. /\ binds \in 0..MaxBinds /\ drops \in 0..MaxDrops /\ lives \in 0..MaxLives
        /\ unsaved \in 0..MaxUnsaved /\ failures \in 0..MaxFailures
    BY NotificationAssumption DEF Init
  <1> QED
    BY <1>1, <1>2, <1>3, <1>4, Nothing DEF Init, TypeOK

LEMMA TypeStep == TypeOK /\ [Next]_vars => TypeOK'
  <1> SUFFICES ASSUME TypeOK, [Next]_vars PROVE TypeOK'
    OBVIOUS
  <1> USE NotificationAssumption
  <1>1. ASSUME NEW c \in Conversations, NEW s \in Sessions, Bind(c, s) PROVE TypeOK'
    <2>1. /\ binding' \in Bindings
          /\ index' \in [Sessions -> SUBSET Conversations]
          /\ bound' \in Bindings
          /\ binds' \in 0..MaxBinds
      BY <1>1 DEF Bind, TypeOK, Bindings
    <2>2. SaveState(binding', notified)
      BY <1>1 DEF Bind
    <2>3. /\ file' \in Files
          /\ unsaved' \in 0..MaxUnsaved
      BY <2>1, <2>2, SaveStateType DEF TypeOK
    <2>4. due' \subseteq Conversations \X Sessions \X (1..MaxEvents)
      BY <1>1 DEF Bind, TypeOK
    <2> QED
      BY <1>1, <2>1, <2>3, <2>4 DEF Bind, TypeOK, tasks, host
  <1>2. CASE StartServer
    BY <1>2 DEF StartServer, TypeOK, memory, tasks, host, history
  <1>3. CASE StartHub
    <2>1. /\ binding' \in Bindings
          /\ index' \in [Sessions -> SUBSET Conversations]
          /\ notified' \in Marks
      BY <1>3, FileFields DEF StartHub, LoadState, TypeOK, Bindings, Marks
    <2>2. catchup' \in CatchUps
          /\ (catchup'.at = NoSession => catchup'.page = {})
      BY <1>3 DEF StartHub, CatchUps, TypeOK
    <2>3. due' \subseteq Conversations \X Sessions \X (1..MaxEvents)
      BY <1>3 DEF StartHub
    <2>4. phase' = "running"
      BY <1>3 DEF StartHub
    <2> QED
      BY <1>3, <2>1, <2>2, <2>3, <2>4 DEF StartHub, TypeOK, host, bounds
  <1>4. CASE StopTasks
    <2>1. catchup' \in CatchUps /\ catchup'.page = {}
      BY <1>4, CatchUpRests DEF StopTasks, TypeOK
    <2>2. wire' \in Seq(Events)
      BY <1>4 DEF StopTasks
    <2> QED
      BY <1>4, <2>1, <2>2, Nothing DEF StopTasks, TypeOK, memory, bounds, history
  <1>5. CASE StopSaves
    <2>1. /\ file' \in Files
          /\ unsaved' \in 0..MaxUnsaved
      BY <1>5, SaveStateType DEF StopSaves, TypeOK
    <2> QED
      BY <1>5, <2>1 DEF StopSaves, TypeOK, memory, tasks, host
  <1>6. CASE Exit
    <2>1. catchup' \in CatchUps /\ catchup'.page = {}
      BY <1>6, CatchUpRests DEF Exit, TypeOK
    <2>2. wire' \in Seq(Events)
      BY <1>6 DEF Exit
    <2>3. bound' \in Bindings
      BY <1>6, FileFields DEF Exit, TypeOK
    <2> QED
      BY <1>6, <2>1, <2>2, <2>3, Nothing DEF Exit, TypeOK, bounds
  <1>7. ASSUME NEW s \in Sessions, Emit(s) PROVE TypeOK'
    <2>1. emitted' \in Marks /\ emitted'[s] \in 1..MaxEvents
      <3>1. emitted[s] \in 0..MaxEvents /\ emitted[s] < MaxEvents
        BY <1>7 DEF Emit, TypeOK, Marks
      <3>2. emitted[s] + 1 \in 1..MaxEvents /\ emitted[s] + 1 \in 0..MaxEvents
        BY <3>1
      <3> QED
        BY <1>7, <3>2 DEF Emit, TypeOK, Marks
    <2>2. wire' \in Seq(Events)
      <3>1. <<s, emitted'[s]>> \in Events
        BY <2>1 DEF Events
      <3> QED
        BY <1>7, <3>1 DEF Emit, TypeOK
    <2> QED
      BY <1>7, <2>1, <2>2 DEF Emit, TypeOK, memory, tasks, bounds, history
  <1>8. ASSUME NEW s \in Sessions, CatchUpSession(s) PROVE TypeOK'
    <2>1. PICK skipped \in SUBSET (Todo \ {s}) :
            /\ PassesOver(skipped)
            /\ catchup' = [stage |-> "on", todo |-> (Todo \ skipped) \ {s},
                           at |-> s, page |-> Missed(s), last |-> emitted[s]]
      BY <1>8 DEF CatchUpSession
    <2>2. notified' \in Marks /\ failures' \in 0..MaxFailures /\ due' \subseteq due
      <3>1. skipped \in SUBSET Sessions
        BY CatchUpFields DEF TypeOK
      <3> QED
        BY <2>1, <3>1, PassesOverType DEF TypeOK
    <2>3. Missed(s) \in SUBSET (1..MaxEvents)
      BY DEF Missed, TypeOK, Marks
    <2>4. catchup' \in CatchUps
          /\ (catchup'.at = NoSession => catchup'.page = {})
      BY <2>1, <2>3, CatchUpFields DEF TypeOK, CatchUps, Marks
    <2> QED
      BY <1>8, <2>2, <2>4 DEF CatchUpSession, TypeOK, host
  <1>9. CASE MuxConnects
    BY <1>9 DEF MuxConnects, TypeOK, memory, tasks, bounds, history
  <1>10. CASE MuxDrops
    <2>1. wire' \in Seq(Events)
      BY <1>10 DEF MuxDrops, TypeOK
    <2> QED
      <3>1. drops' \in 0..MaxDrops
        BY <1>10 DEF MuxDrops, TypeOK
      <3> QED
        BY <1>10, <2>1, <3>1 DEF MuxDrops, TypeOK, memory, tasks, history
  <1>11. CASE MuxFrame
    <2>1. /\ Head(wire)[1] \in Sessions /\ Head(wire)[2] \in 1..MaxEvents
          /\ wire' \in Seq(Events)
      <3>1. Head(wire) \in Events /\ wire' \in Seq(Events)
        BY <1>11 DEF MuxFrame, TypeOK
      <3> QED
        BY <3>1 DEF Events
    <2>2. forwarding' \in [Tasks -> Forwardings \cup {Idle}]
      BY <1>11, <2>1, ForwardType DEF MuxFrame, Tasks, TypeOK
    <2> QED
      BY <1>11, <2>1, <2>2 DEF MuxFrame, TypeOK, memory, bounds, history
  <1>12. ASSUME NEW t \in Tasks, Forwarded(t) PROVE TypeOK'
    <2>1. forwarding[t].s \in Sessions /\ forwarding[t].n \in 1..MaxEvents
      BY <1>12 DEF Forwarded, TypeOK, Forwardings
    <2>2. Bigger(notified[forwarding[t].s], forwarding[t].n) \in 0..MaxEvents
      <3>1. notified[forwarding[t].s] \in 0..MaxEvents /\ forwarding[t].n \in 0..MaxEvents
        BY <2>1 DEF TypeOK, Marks
      <3> QED
        BY <3>1, MarksAdvance
    <2>3. notified' \in Marks
      BY <1>12, <2>1, <2>2 DEF Forwarded, TypeOK, Marks
    <2>4. finished' \subseteq Events
      BY <1>12, <2>1 DEF Forwarded, TypeOK, Events
    <2>5. forwarding' \in [Tasks -> Forwardings \cup {Idle}]
      BY <1>12 DEF Forwarded, TypeOK
    <2> QED
      BY <1>12, <2>3, <2>4, <2>5 DEF Forwarded, TypeOK, host, bounds
  <1>13. ASSUME NEW t \in Tasks, NEW c \in Conversations, Offer(t, c) PROVE TypeOK'
    <2>1. forwarding[t] \in Forwardings
      BY <1>13, Nothing DEF Offer, TypeOK
    <2>2. forwarding' \in [Tasks -> Forwardings \cup {Idle}]
      BY <1>13, <2>1 DEF Offer, TypeOK, Forwardings
    <2>3. offered' \in [Conversations -> SUBSET Events]
      BY <1>13, <2>1 DEF Offer, TypeOK, Events, Forwardings
    <2> QED
      BY <1>13, <2>2, <2>3 DEF Offer, TypeOK, memory, host, bounds, history
  <1>14. CASE CatchUpEvent
    <2>1. PICK n \in catchup.page :
            /\ catchup' = [catchup EXCEPT !.page = @ \ {n}]
            /\ Forward("catchup", catchup.at, n)
      BY <1>14 DEF CatchUpEvent
    <2>2. catchup.at \in Sessions /\ n \in 1..MaxEvents
      BY <2>1, CatchUpFields DEF TypeOK
    <2>3. forwarding' \in [Tasks -> Forwardings \cup {Idle}]
      BY <2>1, <2>2, ForwardType DEF Tasks, TypeOK
    <2>4. catchup' \in CatchUps /\ catchup'.at # NoSession
      BY <2>1, <2>2 DEF TypeOK, CatchUps
    <2> QED
      BY <1>14, <2>3, <2>4 DEF CatchUpEvent, TypeOK, memory, host, bounds, history
  <1>15. CASE CatchUpSessionDone
    <2>1. /\ catchup.at \in Sessions
          /\ Bigger(notified[catchup.at], catchup.last) \in 0..MaxEvents
      BY <1>15, CatchUpFields, MarksAdvance DEF CatchUpSessionDone, TypeOK, Marks
    <2>2. notified' \in Marks
      BY <1>15, <2>1 DEF CatchUpSessionDone, TypeOK, Marks
    <2>3. catchup' \in CatchUps /\ catchup'.page = {}
      BY <1>15, CatchUpRests DEF CatchUpSessionDone, TypeOK
    <2> QED
      BY <1>15, <2>2, <2>3 DEF CatchUpSessionDone, TypeOK, host, bounds, history
  <1>16. CASE CatchUpDone
    <2>1. notified' \in Marks /\ failures' \in 0..MaxFailures /\ due' \subseteq due
      BY <1>16, CatchUpFields, PassesOverType DEF CatchUpDone, TypeOK
    <2>2. /\ file' \in Files
          /\ unsaved' \in 0..MaxUnsaved
      <3>1. CASE \E s \in Sessions : notified[s] # 0
        BY <1>16, <2>1, <3>1, SaveStateType DEF CatchUpDone, TypeOK
      <3>2. CASE ~\E s \in Sessions : notified[s] # 0
        BY <1>16, <3>2 DEF CatchUpDone, TypeOK
      <3> QED
        BY <3>1, <3>2
    <2>3. catchup' \in CatchUps /\ catchup'.page = {}
      BY <1>16 DEF CatchUpDone, TypeOK, CatchUps
    <2> QED
      BY <1>16, <2>1, <2>2, <2>3 DEF CatchUpDone, TypeOK, host
  <1>17. CASE UNCHANGED vars
    BY <1>17 DEF vars, TypeOK, memory, tasks, host, bounds, history
  <1> QED
    BY <1>1, <1>2, <1>3, <1>4, <1>5, <1>6, <1>7, <1>8, <1>9, <1>10, <1>11, <1>12,
       <1>13, <1>14, <1>15, <1>16, <1>17 DEF Next

(* The variables of the notification side keep their types.                *)
THEOREM TypeCorrect == Spec => []TypeOK
  <1>1. Init => TypeOK
    BY InitType
  <1> QED
    BY <1>1, TypeStep, PTL DEF Spec

-----------------------------------------------------------------------------
(* Tasks exist only while the hub runs. *)
TasksRest ==
  phase # "running" =>
    /\ \A t \in Tasks : forwarding[t] = Idle
    /\ catchup.stage = "done" /\ catchup.todo = {} /\ catchup.at = NoSession
    /\ catchup.page = {}
    /\ ~online /\ wire = <<>>

LEMMA TasksRestStep == TypeOK /\ TasksRest /\ [Next]_vars => TasksRest'
  <1> SUFFICES ASSUME TypeOK, TasksRest, [Next]_vars PROVE TasksRest'
    OBVIOUS
  <1>1. CASE phase' = "running"
    BY <1>1 DEF TasksRest
  <1>2. CASE StopTasks \/ Exit
    BY <1>2 DEF StopTasks, Exit, TasksRest, TypeOK, CatchUps
  <1>3. CASE phase # "running" /\ UNCHANGED <<tasks, online, wire>>
    BY <1>3 DEF TasksRest, tasks
  <1>4. ASSUME phase # "running", phase' # "running",
               NEW t \in Tasks, Forwarded(t) \/ \E c \in Conversations : Offer(t, c)
        PROVE  FALSE
    BY <1>4 DEF Forwarded, Offer, TasksRest, Idle
  <1>5. ASSUME phase # "running", phase' # "running",
               \/ \E s \in Sessions : CatchUpSession(s)
               \/ CatchUpEvent \/ CatchUpSessionDone \/ CatchUpDone
               \/ MuxConnects \/ MuxDrops \/ MuxFrame
        PROVE  FALSE
    BY <1>5 DEF CatchUpSession, CatchUpEvent, CatchUpSessionDone, CatchUpDone, Todo,
                MuxConnects, MuxDrops, MuxFrame, TasksRest
  <1>6. ASSUME phase # "running", phase' # "running",
               \/ \E c \in Conversations, s \in Sessions : Bind(c, s)
               \/ StartServer \/ StopSaves
               \/ \E s \in Sessions : Emit(s)
               \/ UNCHANGED vars
        PROVE  UNCHANGED <<tasks, online, wire>>
    <2>1. online = FALSE
      BY <1>6 DEF TasksRest, TypeOK
    <2> QED
      BY <1>6, <2>1 DEF Bind, StartServer, StopSaves, Emit, vars, tasks, host
  <1>7. phase = "running" /\ phase' # "running" => StopTasks \/ Exit
    BY DEF Next, Bind, StartServer, StartHub, StopSaves, Emit, CatchUpSession,
           MuxConnects, MuxDrops, MuxFrame, Forwarded, Offer, CatchUpEvent,
           CatchUpSessionDone, CatchUpDone, vars
  <1>8. StartHub => phase' = "running"
    BY DEF StartHub
  <1> QED
    BY <1>1, <1>2, <1>3, <1>4, <1>5, <1>6, <1>7, <1>8 DEF Next

(* What the state file says of a process.  Before the file is read memory  *)
(* holds no more than early /bind calls have put there, and in the file    *)
(* too; from then on the file has the bindings and older watermarks.       *)
FileInv ==
  /\ phase \in {"down", "serving"} => notified = NoMarks
  /\ phase = "down" => binding = Unbound
  /\ phase = "serving" /\ file.current =>
       \A c \in Conversations : binding[c] \in {NoSession, file.binding[c]}
  /\ phase \in {"running", "stopping", "stopped"} =>
       \A s \in Sessions : file.notified[s] <= notified[s]
  /\ phase = "running" /\ file.current => file.binding = binding

(* No step moves a watermark back while the process runs.                  *)
LEMMA MarksGrow ==
  ASSUME TypeOK
  PROVE  /\ \A t \in Tasks : Forwarded(t) =>
               \A s \in Sessions : notified[s] <= notified'[s]
         /\ CatchUpSessionDone => \A s \in Sessions : notified[s] <= notified'[s]
         /\ \A s \in Sessions : CatchUpSession(s) =>
               \A t \in Sessions : notified[t] <= notified'[t]
         /\ CatchUpDone => \A s \in Sessions : notified[s] <= notified'[s]
  <1>1. \A s \in Sessions : notified[s] \in 0..MaxEvents /\ notified[s] \in Nat
    BY NotificationAssumption DEF TypeOK, Marks
  <1>2. ASSUME NEW t \in Tasks, Forwarded(t), NEW s \in Sessions
        PROVE  notified[s] <= notified'[s]
    <2>1. forwarding[t].s \in Sessions /\ forwarding[t].n \in 0..MaxEvents
      BY <1>2, NotificationAssumption DEF Forwarded, TypeOK, Forwardings
    <2>2. CASE s = forwarding[t].s
      <3>1. notified'[s] = Bigger(notified[s], forwarding[t].n)
        BY <1>2, <2>2 DEF Forwarded, TypeOK, Marks
      <3> QED
        BY <1>1, <2>1, <3>1, MarksAdvance
    <2>3. CASE s # forwarding[t].s
      BY <1>1, <1>2, <2>3 DEF Forwarded, TypeOK, Marks
    <2> QED
      BY <2>2, <2>3
  <1>3. ASSUME CatchUpSessionDone, NEW s \in Sessions
        PROVE  notified[s] <= notified'[s]
    <2>1. catchup.last \in 0..MaxEvents
      BY CatchUpFields DEF TypeOK
    <2>2. CASE s = catchup.at
      <3>1. notified'[s] = Bigger(notified[s], catchup.last)
        BY <1>3, <2>2 DEF CatchUpSessionDone, TypeOK, Marks
      <3> QED
        BY <1>1, <2>1, <3>1, MarksAdvance
    <2>3. CASE s # catchup.at
      BY <1>1, <1>3, <2>3 DEF CatchUpSessionDone, TypeOK, Marks
    <2> QED
      BY <2>2, <2>3
  <1>4. ASSUME NEW s \in Sessions, CatchUpSession(s), NEW t \in Sessions
        PROVE  notified[t] <= notified'[t]
    <2>1. PICK skipped \in SUBSET (Todo \ {s}) : PassesOver(skipped)
      BY <1>4 DEF CatchUpSession
    <2>2. skipped \in SUBSET Sessions
      BY CatchUpFields DEF TypeOK
    <2> QED
      BY <2>1, <2>2, PassesOverType DEF TypeOK
  <1>5. ASSUME CatchUpDone, NEW s \in Sessions PROVE notified[s] <= notified'[s]
    BY <1>5, CatchUpFields, PassesOverType DEF CatchUpDone, TypeOK
  <1> QED
    BY <1>2, <1>3, <1>4, <1>5

(* Saving makes the file what the memory is, or fails and leaves it as it  *)
(* was, or tears it.                                                       *)
LEMMA SaveStateFile ==
  ASSUME file \in Files, NEW b \in Bindings, NEW marks \in Marks, SaveState(b, marks)
  PROVE  /\ file'.current => file'.binding = b
         /\ \A s \in Sessions : \/ file'.notified[s] <= marks[s]
                                \/ file'.notified[s] = file.notified[s]
         /\ Tears = FALSE => file'.notified \in {marks, file.notified}
  <1>0. file \in Files => /\ [file EXCEPT !.current = FALSE].notified = file.notified
                          /\ [file EXCEPT !.current = FALSE].current = FALSE
    BY DEF Files
  <1>1. \A s \in Sessions : marks[s] \in Nat /\ marks[s] <= marks[s] /\ 0 <= marks[s]
    BY NotificationAssumption DEF Marks
  <1>2. CASE file' = [current |-> TRUE, binding |-> b, notified |-> marks]
    BY <1>1, <1>2
  <1>3. CASE file' = [file EXCEPT !.current = FALSE]
    BY <1>0, <1>3
  <1>4. CASE Tears /\ file' = [current |-> FALSE, binding |-> Unbound, notified |-> NoMarks]
    BY <1>1, <1>4 DEF NoMarks
  <1> QED
    BY <1>2, <1>3, <1>4 DEF SaveState

LEMMA FileStep ==
  TypeOK /\ TypeOK' /\ TasksRest /\ FileInv /\ [Next]_vars => FileInv'
  <1> SUFFICES ASSUME TypeOK, TypeOK', TasksRest, FileInv, [Next]_vars PROVE FileInv'
    OBVIOUS
  <1>0. \A s \in Sessions : /\ notified[s] \in Nat /\ notified'[s] \in Nat
                            /\ file.notified[s] \in Nat
    BY FileFields, NotificationAssumption DEF TypeOK, Marks
  <1>1. ASSUME NEW c \in Conversations, NEW s \in Sessions, Bind(c, s) PROVE FileInv'
    <2>1. binding' \in Bindings /\ notified \in Marks /\ SaveState(binding', notified)
      BY <1>1 DEF Bind, TypeOK
    <2>2. /\ file'.current => file'.binding = binding'
          /\ \A t \in Sessions : \/ file'.notified[t] <= notified[t]
                                 \/ file'.notified[t] = file.notified[t]
      BY <2>1, SaveStateFile DEF TypeOK
    <2>3. phase' = phase /\ notified' = notified /\ phase # "down"
      BY <1>1 DEF Bind
    <2> QED
      BY <2>2, <2>3 DEF FileInv
  <1>2. CASE StartServer
    <2>1. phase' = "serving" /\ UNCHANGED <<binding, notified, file>> /\ phase = "down"
      BY <1>2 DEF StartServer, memory
    <2> QED
      BY <2>1 DEF FileInv, Unbound
  <1>3. CASE StartHub
    <2>1. phase = "serving" /\ phase' = "running" /\ file' = file
      BY <1>3 DEF StartHub
    <2>2. \A s \in Sessions : file.notified[s] <= notified'[s]
      <3> TAKE s \in Sessions
      <3>1. CASE file.notified[s] # 0
        <4>1. notified'[s] = file.notified[s]
          BY <1>3, <3>1 DEF StartHub, LoadState
        <4> QED
          BY <1>0, <4>1
      <3>2. CASE file.notified[s] = 0
        BY <1>0, <3>2
      <3> QED
        BY <3>1, <3>2
    <2>3. ASSUME file.current PROVE file.binding = binding'
      <3>1. \A c \in Conversations : binding[c] \in {NoSession, file.binding[c]}
        BY <2>1, <2>3 DEF FileInv
      <3>2. \A c \in Conversations : binding'[c] = file.binding[c]
        BY <1>3, <3>1 DEF StartHub, LoadState
      <3> QED
        BY <1>3, <3>2, FileFields DEF StartHub, LoadState, TypeOK, Bindings
    <2> QED
      BY <2>1, <2>2, <2>3 DEF FileInv
  <1>4. CASE StopTasks
    <2>1. /\ phase = "running" /\ phase' = "stopping"
          /\ UNCHANGED <<binding, notified, file>>
      BY <1>4 DEF StopTasks, memory
    <2> QED
      BY <2>1 DEF FileInv
  <1>5. CASE StopSaves
    <2>1. \A s \in Sessions : \/ file'.notified[s] <= notified[s]
                             \/ file'.notified[s] = file.notified[s]
      BY <1>5, SaveStateFile DEF StopSaves, TypeOK
    <2>2. phase = "stopping" /\ phase' = "stopped" /\ UNCHANGED <<binding, notified>>
      BY <1>5 DEF StopSaves, memory
    <2> QED
      BY <2>1, <2>2 DEF FileInv
  <1>6. CASE Exit
    BY <1>6 DEF Exit, FileInv
  <1>7. CASE UNCHANGED <<phase, binding, notified, file>>
    BY <1>7 DEF FileInv
  <1>8. ASSUME UNCHANGED <<phase, binding, file>>, phase = "running",
               \A s \in Sessions : notified[s] <= notified'[s]
        PROVE  FileInv'
    BY <1>0, <1>8 DEF FileInv
  <1>9. ASSUME NEW t \in Tasks, Forwarded(t) PROVE FileInv'
    BY <1>8, <1>9, MarksGrow DEF Forwarded, TasksRest
  <1>10. ASSUME NEW s \in Sessions, CatchUpSession(s) PROVE FileInv'
    <2>1. \A t \in Sessions : notified[t] <= notified'[t]
      BY <1>10, MarksGrow
    <2>2. phase = "running"
      BY <1>10 DEF CatchUpSession, Todo, TasksRest
    <2> QED
      BY <1>8, <1>10, <2>1, <2>2 DEF CatchUpSession
  <1>11. CASE CatchUpSessionDone
    BY <1>8, <1>11, MarksGrow DEF CatchUpSessionDone, TasksRest
  <1>12. CASE CatchUpDone
    <2>1. phase = "running" /\ phase' = phase /\ binding' = binding
      BY <1>12 DEF CatchUpDone, TasksRest
    <2>2. CASE UNCHANGED file
      BY <1>8, <1>12, <2>1, <2>2, MarksGrow
    <2>3. CASE SaveState(binding, notified')
      <3>1. /\ file'.current => file'.binding = binding
            /\ \A s \in Sessions : \/ file'.notified[s] <= notified'[s]
                                   \/ file'.notified[s] = file.notified[s]
        BY <2>3, SaveStateFile DEF TypeOK
      <3>2. \A s \in Sessions : file.notified[s] <= notified[s] /\ notified[s] <= notified'[s]
        BY <1>12, <2>1, MarksGrow DEF FileInv
      <3>3. \A s \in Sessions : file'.notified[s] <= notified'[s]
        BY <1>0, <3>1, <3>2
      <3> QED
        BY <2>1, <3>1, <3>3 DEF FileInv
    <2> QED
      BY <1>12, <2>2, <2>3 DEF CatchUpDone
  <1>13. ASSUME NEW s \in Sessions, Emit(s) PROVE FileInv'
    BY <1>7, <1>13 DEF Emit, memory
  <1>14. CASE MuxConnects \/ MuxDrops \/ MuxFrame
    BY <1>7, <1>14 DEF MuxConnects, MuxDrops, MuxFrame, memory
  <1>15. ASSUME NEW t \in Tasks, NEW c \in Conversations, Offer(t, c) PROVE FileInv'
    BY <1>7, <1>15 DEF Offer, memory
  <1>16. CASE CatchUpEvent
    BY <1>7, <1>16 DEF CatchUpEvent, memory
  <1>17. CASE UNCHANGED vars
    BY <1>7, <1>17 DEF vars, memory
  <1> QED
    BY <1>1, <1>2, <1>3, <1>4, <1>5, <1>6, <1>9, <1>10, <1>11, <1>12, <1>13, <1>14,
       <1>15, <1>16, <1>17 DEF Next

NotificationInv == TypeOK /\ TasksRest /\ FileInv

(* The inductive invariant of the notification side.                       *)
THEOREM NotificationInvariant == Spec => []NotificationInv
  <1>1. Init => NotificationInv
    <2> SUFFICES ASSUME Init PROVE NotificationInv
      OBVIOUS
    <2>1. TypeOK
      BY InitType
    <2> QED
      BY <2>1 DEF Init, NotificationInv, TasksRest, FileInv
  <1>2. NotificationInv /\ [Next]_vars => NotificationInv'
    BY TypeStep, TasksRestStep, FileStep DEF NotificationInv
  <1> QED
    BY <1>1, <1>2, PTL DEF Spec

(* While the hub runs, its state file has its bindings, and no watermark   *)
(* that is ahead of the one in memory, unless the last write failed.       *)
THEOREM FileCorrect == Spec => []FileMatchesMemory
  <1>1. NotificationInv => FileMatchesMemory
    BY DEF NotificationInv, FileInv, FileMatchesMemory
  <1> QED
    BY <1>1, NotificationInvariant, PTL

-----------------------------------------------------------------------------
(* The abstract cursor: what it holds in memory. *)
Volatile == IF phase \in {"down", "serving"} THEN file.notified ELSE notified

LEMMA CursorStep ==
  ASSUME EarlyBinds = FALSE, Tears = FALSE, NotificationInv, NotificationInv',
         [Next]_vars
  PROVE  [Cursor!CursorNext]_<<Volatile, file.notified>>
  <1> USE DEF NotificationInv
  <1>0. file.notified \in Marks /\ notified \in Marks /\ notified' \in Marks
    BY FileFields DEF TypeOK
  <1>1. \A m \in Marks : m \in Cursor!Marks /\ \A s \in Sessions : m[s] <= m[s]
    BY NotificationAssumption DEF Marks, Cursor!Marks
  <1>2. ASSUME UNCHANGED <<phase, notified, file>> PROVE UNCHANGED <<Volatile, file.notified>>
    BY <1>2 DEF Volatile
  <1>3. ASSUME phase = "running", phase' = phase, UNCHANGED file,
               \A s \in Sessions : notified[s] <= notified'[s]
        PROVE  Cursor!Advance
    BY <1>0, <1>1, <1>3 DEF Cursor!Advance, Cursor!Forwards, Volatile
  <1>4. ASSUME phase \notin {"down", "serving"}, phase' \notin {"down", "serving"},
               \A s \in Sessions : notified[s] <= notified'[s],
               SaveState(binding', notified')
        PROVE  Cursor!Persist \/ Cursor!Advance
    <2>1. file'.notified \in {notified', file.notified}
      BY <1>0, <1>4, SaveStateFile DEF TypeOK
    <2> QED
      BY <1>0, <1>1, <1>4, <2>1
      DEF Cursor!Persist, Cursor!Advance, Cursor!Forwards, Volatile
  <1>5. ASSUME NEW c \in Conversations, NEW s \in Sessions, Bind(c, s)
        PROVE  Cursor!Persist \/ Cursor!Advance
    <2>1. phase \notin {"down", "serving"} /\ phase' = phase /\ notified' = notified
      BY <1>5 DEF Bind
    <2> QED
      BY <1>0, <1>1, <1>4, <1>5, <2>1 DEF Bind
  <1>6. CASE StartServer
    BY <1>6 DEF StartServer, Volatile
  <1>7. CASE StartHub
    <2>1. phase = "serving" /\ phase' = "running" /\ file' = file /\ notified = NoMarks
      BY <1>7 DEF StartHub, FileInv
    <2>2. notified' = [s \in Sessions |-> IF file.notified[s] # 0 THEN file.notified[s]
                                           ELSE notified[s]]
      BY <1>7 DEF StartHub, LoadState
    <2>3. \A s \in Sessions : notified'[s] = file.notified[s]
      BY <2>1, <2>2 DEF NoMarks
    <2>4. notified' = file.notified
      BY <1>0, <2>3 DEF Marks
    <2> QED
      BY <2>1, <2>4 DEF Volatile
  <1>8. CASE StopTasks
    BY <1>8 DEF StopTasks, memory, Volatile
  <1>9. CASE StopSaves
    <2>1. /\ phase \notin {"down", "serving"} /\ phase' \notin {"down", "serving"}
          /\ notified' = notified /\ binding' = binding
      BY <1>9 DEF StopSaves, memory
    <2> QED
      BY <1>0, <1>1, <1>4, <1>9, <2>1 DEF StopSaves, Cursor!CursorNext
  <1>10. CASE Exit
    BY <1>10 DEF Exit, Volatile, Cursor!CursorNext, Cursor!FallBack
  <1>11. ASSUME NEW t \in Tasks, Forwarded(t) PROVE Cursor!Advance
    BY <1>3, <1>11, MarksGrow DEF Forwarded, TasksRest
  <1>12. ASSUME NEW s \in Sessions, CatchUpSession(s) PROVE Cursor!Advance
    BY <1>3, <1>12, MarksGrow DEF CatchUpSession, Todo, TasksRest
  <1>13. CASE CatchUpSessionDone
    BY <1>3, <1>13, MarksGrow DEF CatchUpSessionDone, TasksRest, Cursor!CursorNext
  <1>14. CASE CatchUpDone
    <2>1. phase = "running" /\ phase' = phase /\ binding' = binding
      BY <1>14 DEF CatchUpDone, TasksRest
    <2>2. \A s \in Sessions : notified[s] <= notified'[s]
      BY <1>14, MarksGrow
    <2>3. CASE UNCHANGED file
      BY <1>3, <2>1, <2>2, <2>3 DEF Cursor!CursorNext
    <2>4. CASE SaveState(binding, notified')
      BY <1>4, <2>1, <2>2, <2>4 DEF Cursor!CursorNext
    <2> QED
      BY <1>14, <2>3, <2>4 DEF CatchUpDone
  <1>15. ASSUME NEW s \in Sessions, Emit(s) PROVE UNCHANGED <<Volatile, file.notified>>
    BY <1>2, <1>15 DEF Emit, memory
  <1>16. ASSUME MuxConnects \/ MuxDrops \/ MuxFrame \/ CatchUpEvent \/ UNCHANGED vars
         PROVE  UNCHANGED <<Volatile, file.notified>>
    BY <1>2, <1>16 DEF MuxConnects, MuxDrops, MuxFrame, CatchUpEvent, vars, memory
  <1>17. ASSUME NEW t \in Tasks, NEW c \in Conversations, Offer(t, c)
         PROVE  UNCHANGED <<Volatile, file.notified>>
    BY <1>2, <1>17 DEF Offer, memory
  <1> QED
    BY <1>5, <1>6, <1>7, <1>8, <1>9, <1>10, <1>11, <1>12, <1>13, <1>14, <1>15, <1>16,
       <1>17 DEF Next, Cursor!CursorNext

(* The watermarks are a durable cursor: they only move forward, what is    *)
(* written is what is in memory, and a process that ends, in order or not, *)
(* leaves the next one with what was last written.  It holds of a process  *)
(* whose writes may fail but are not cut short, and that is bound to       *)
(* nothing before it has read its state file.                              *)
THEOREM WatermarksAreDurableCursor ==
  ASSUME EarlyBinds = FALSE, Tears = FALSE
  PROVE  Spec => CursorRefinement
  <1>1. Init => Cursor!CursorInit
    BY DEF Init, Cursor!CursorInit, NoMarks
  <1>2. NotificationInv /\ NotificationInv' /\ [Next]_vars
          => [Cursor!CursorNext]_(Cursor!cursorVars)
    BY CursorStep DEF Cursor!cursorVars, Volatile
  <1> QED
    BY <1>1, <1>2, NotificationInvariant, PTL DEF Spec, CursorRefinement, Cursor!CursorSpec

-----------------------------------------------------------------------------
(* Where the last binding of each conversation is: in the file until it is *)
(* read, then in memory, and in the file too if the last write succeeded.  *)
BoundInv ==
  /\ phase \in {"down", "serving"} => binding = Unbound /\ file.binding = bound
  /\ phase \in {"running", "stopping", "stopped"} =>
       binding = bound /\ (file.current => file.binding = bound)

LEMMA BoundStep ==
  ASSUME EarlyBinds = FALSE, TypeOK, TypeOK', TasksRest, BoundInv, [Next]_vars
  PROVE  BoundInv'
  <1>1. \A b \in Bindings, marks \in Marks :
          SaveState(b, marks) /\ file'.current => file'.binding = b
    BY SaveStateFile DEF TypeOK
  <1>2. ASSUME NEW c \in Conversations, NEW s \in Sessions, Bind(c, s) PROVE BoundInv'
    <2>1. phase \in {"running", "stopping", "stopped"} /\ phase' = phase
      BY <1>2 DEF Bind
    <2>2. binding' = bound'
      BY <1>2, <2>1 DEF Bind, BoundInv
    <2>3. file'.current => file'.binding = binding'
      BY <1>1, <1>2 DEF Bind, TypeOK
    <2> QED
      BY <2>1, <2>2, <2>3 DEF BoundInv
  <1>3. CASE StartServer
    BY <1>3 DEF StartServer, BoundInv, memory, history
  <1>4. CASE StartHub
    <2>1. phase = "serving" /\ phase' = "running" /\ file' = file /\ bound' = bound
      BY <1>4 DEF StartHub
    <2>2. binding = Unbound /\ file.binding = bound
      BY <2>1 DEF BoundInv
    <2>3. \A c \in Conversations : binding'[c] = bound[c]
      BY <1>4, <2>2 DEF StartHub, LoadState, Unbound
    <2>4. binding' = bound
      BY <2>1, <2>3 DEF TypeOK, Bindings
    <2> QED
      BY <2>1, <2>2, <2>4 DEF BoundInv
  <1>5. CASE StopTasks
    BY <1>5 DEF StopTasks, BoundInv, memory, history
  <1>6. CASE StopSaves
    <2>1. phase = "stopping" /\ phase' = "stopped" /\ binding' = binding /\ bound' = bound
      BY <1>6 DEF StopSaves, memory
    <2>2. file'.current => file'.binding = binding
      BY <1>1, <1>6 DEF StopSaves, TypeOK
    <2> QED
      BY <2>1, <2>2 DEF BoundInv
  <1>7. CASE Exit
    BY <1>7 DEF Exit, BoundInv, TypeOK
  <1>8. CASE CatchUpDone
    <2>1. phase = "running" /\ phase' = phase /\ binding' = binding /\ bound' = bound
      BY <1>8 DEF CatchUpDone, TasksRest
    <2>2. (file'.current => file'.binding = binding) \/ UNCHANGED file
      BY <1>1, <1>8 DEF CatchUpDone, TypeOK
    <2> QED
      BY <2>1, <2>2 DEF BoundInv
  <1>9. CASE UNCHANGED <<phase, binding, file, bound>>
    BY <1>9 DEF BoundInv
  <1>10. ASSUME NEW s \in Sessions, Emit(s) \/ CatchUpSession(s) PROVE BoundInv'
    BY <1>9, <1>10 DEF Emit, CatchUpSession, memory, history
  <1>11. ASSUME NEW t \in Tasks, Forwarded(t) \/ \E c \in Conversations : Offer(t, c)
         PROVE  BoundInv'
    BY <1>9, <1>11 DEF Forwarded, Offer, memory, history
  <1>12. CASE MuxConnects \/ MuxDrops \/ MuxFrame
    BY <1>9, <1>12 DEF MuxConnects, MuxDrops, MuxFrame, memory, history
  <1>13. CASE CatchUpEvent \/ CatchUpSessionDone \/ UNCHANGED vars
    BY <1>9, <1>13 DEF CatchUpEvent, CatchUpSessionDone, vars, memory, history
  <1> QED
    BY <1>2, <1>3, <1>4, <1>5, <1>6, <1>7, <1>8, <1>10, <1>11, <1>12, <1>13 DEF Next

(* A running hub has the last binding that was made for each conversation, *)
(* whatever crashes, restarts and failing or torn writes came in between,  *)
(* but for those its predecessor could not save.  It holds if nothing is   *)
(* bound before the state file is read; NotifyTwo checks such an instance. *)
THEOREM BindingsAreKept ==
  ASSUME EarlyBinds = FALSE
  PROVE  Spec => []BindingsPersist
  <1>1. Init => BoundInv
    BY DEF Init, BoundInv
  <1>2. NotificationInv /\ NotificationInv' /\ BoundInv /\ [Next]_vars => BoundInv'
    BY BoundStep DEF NotificationInv
  <1>3. BoundInv => BindingsPersist
    BY DEF BoundInv, BindingsPersist
  <1> QED
    BY <1>1, <1>2, <1>3, NotificationInvariant, PTL DEF Spec
-----------------------------------------------------------------------------
(* Which steps change what. *)
LEMMA WhatChangesMarks ==
  ASSUME [Next]_vars
  PROVE  \/ UNCHANGED notified
         \/ StartHub \/ Exit \/ CatchUpSessionDone \/ CatchUpDone
         \/ \E t \in Tasks : Forwarded(t)
         \/ \E s \in Sessions : CatchUpSession(s)
  BY DEF Next, Bind, StartServer, StopTasks, StopSaves, Emit, MuxConnects, MuxDrops,
         MuxFrame, Offer, CatchUpEvent, vars, memory

LEMMA WhatChangesFile ==
  ASSUME [Next]_vars
  PROVE  \/ UNCHANGED file
         \/ SaveState(binding', notified')
  <1>1. ASSUME NEW c \in Conversations, NEW s \in Sessions, Bind(c, s)
        PROVE  SaveState(binding', notified')
    BY <1>1 DEF Bind
  <1>2. ASSUME StopSaves PROVE SaveState(binding', notified')
    BY <1>2 DEF StopSaves, memory
  <1>3. ASSUME CatchUpDone PROVE SaveState(binding', notified') \/ UNCHANGED file
    BY <1>3 DEF CatchUpDone
  <1> QED
    BY <1>1, <1>2, <1>3
    DEF Next, StartServer, StartHub, StopTasks, Exit, Emit, CatchUpSession, MuxConnects,
        MuxDrops, MuxFrame, Forwarded, Offer, CatchUpEvent, CatchUpSessionDone, vars

LEMMA WhatChangesTasks ==
  ASSUME [Next]_vars
  PROVE  /\ \/ UNCHANGED catchup
            \/ StartHub \/ StopTasks \/ Exit
            \/ CatchUpEvent \/ CatchUpSessionDone \/ CatchUpDone
            \/ \E s \in Sessions : CatchUpSession(s)
         /\ \/ UNCHANGED forwarding
            \/ StopTasks \/ Exit \/ MuxFrame \/ CatchUpEvent
            \/ \E t \in Tasks : Forwarded(t) \/ \E c \in Conversations : Offer(t, c)
         /\ \/ UNCHANGED offered
            \/ \E t \in Tasks, c \in Conversations : Offer(t, c)
  BY DEF Next, Bind, StartServer, StartHub, StopTasks, StopSaves, Exit, Emit,
         CatchUpSession, MuxConnects, MuxDrops, MuxFrame, Forwarded, Offer,
         CatchUpEvent, CatchUpSessionDone, CatchUpDone, vars, tasks, memory

(* What the two steps that load and save the marks can make of them.       *)
LEMMA LoadedMarks ==
  ASSUME StartHub, NEW s \in Sessions
  PROVE  notified'[s] \in {notified[s], file.notified[s]}
  BY DEF StartHub, LoadState

LEMMA SavedMarks ==
  ASSUME file \in Files, NEW b, NEW marks, SaveState(b, marks), NEW s \in Sessions
  PROVE  file'.notified[s] \in {0, marks[s], file.notified[s]}
  BY DEF SaveState, NoMarks, Files

LEMMA PassedMarks ==
  ASSUME NEW skipped \in SUBSET Sessions, PassesOver(skipped), NEW s \in Sessions
  PROVE  \/ notified'[s] = notified[s]
         \/ s \in skipped /\ notified[s] # 0 /\ notified'[s] = Bigger(notified[s], emitted[s])
  BY DEF PassesOver

(* A step changes the mark of a session to what was forwarded, or to what  *)
(* catch-up has read, if it had a mark before.                             *)
LEMMA ChangedMarks ==
  ASSUME TypeOK, [Next]_vars, NEW s \in Sessions
  PROVE  \/ notified'[s] = notified[s]
         \/ StartHub /\ notified'[s] = file.notified[s]
         \/ Exit /\ notified'[s] = 0
         \/ \E t \in Tasks : /\ Forwarded(t) /\ forwarding[t].s = s
                             /\ notified'[s] = Bigger(notified[s], forwarding[t].n)
         \/ /\ CatchUpSessionDone /\ catchup.at = s
            /\ notified'[s] = Bigger(notified[s], catchup.last)
         \/ /\ \/ CatchUpDone
               \/ \E r \in Sessions : CatchUpSession(r)
            /\ notified[s] # 0 /\ notified'[s] = Bigger(notified[s], emitted[s])
  <1>1. CASE UNCHANGED notified
    BY <1>1
  <1>2. CASE StartHub
    BY <1>2, LoadedMarks
  <1>3. CASE Exit
    BY <1>3 DEF Exit, NoMarks
  <1>4. ASSUME NEW t \in Tasks, Forwarded(t)
        PROVE  \/ notified'[s] = notified[s]
               \/ /\ forwarding[t].s = s
                  /\ notified'[s] = Bigger(notified[s], forwarding[t].n)
    BY <1>4 DEF Forwarded, TypeOK, Marks
  <1>5. CASE CatchUpSessionDone
    BY <1>5 DEF CatchUpSessionDone, TypeOK, Marks
  <1>6. CASE CatchUpDone
    BY <1>6, CatchUpFields, PassedMarks DEF CatchUpDone, TypeOK
  <1>7. ASSUME NEW r \in Sessions, CatchUpSession(r)
        PROVE  \/ notified'[s] = notified[s]
               \/ notified[s] # 0 /\ notified'[s] = Bigger(notified[s], emitted[s])
    <2>1. PICK skipped \in SUBSET (Todo \ {r}) : PassesOver(skipped)
      BY <1>7 DEF CatchUpSession
    <2>2. skipped \in SUBSET Sessions
      BY CatchUpFields DEF TypeOK
    <2> QED
      BY <2>1, <2>2, PassedMarks
  <1> QED
    BY <1>1, <1>2, <1>3, <1>4, <1>5, <1>6, <1>7, WhatChangesMarks

-----------------------------------------------------------------------------
(* Somebody was sent one of the first k events of s. *)
Told(s, k) == \E m \in 1..k, c \in Conversations : <<s, m>> \in offered[c]

MarksTold == \A s \in Sessions : notified[s] # 0 => Told(s, notified[s])
FileTold  == \A s \in Sessions : file.notified[s] # 0 => Told(s, file.notified[s])

(* What catch-up has before it are events after one that was sent. *)
PageTold ==
  catchup.at # NoSession =>
    /\ notified[catchup.at] # 0
    /\ \A n \in catchup.page : Told(catchup.at, n - 1)

(* A task that forwards an event has sent it or has it still to send. *)
TaskTold ==
  \A t \in Tasks : LET f == forwarding[t] IN f # Idle => Told(f.s, f.n) \/ f.left # {}

(* A watermark stands for something that was sent.  NoHistorySpam follows  *)
(* because catch-up reads only what is newer than a watermark.             *)
SpamInv == MarksTold /\ FileTold /\ PageTold /\ TaskTold /\ NoHistorySpam

LEMMA OfferedGrows ==
  ASSUME TypeOK, [Next]_vars, NEW c \in Conversations
  PROVE  offered[c] \subseteq offered'[c]
  BY WhatChangesTasks DEF Offer, TypeOK

LEMMA ToldLasts ==
  ASSUME TypeOK, [Next]_vars, NEW s, NEW k \in Int, NEW j \in Int, k <= j, Told(s, k)
  PROVE  Told(s, j)'
  <1>1. PICK m \in 1..k, c \in Conversations : <<s, m>> \in offered[c]
    BY DEF Told
  <1>2. m \in 1..j /\ <<s, m>> \in offered'[c]
    BY <1>1, OfferedGrows
  <1> QED
    BY <1>2 DEF Told

LEMMA MarksToldStep == TypeOK /\ SpamInv /\ [Next]_vars => MarksTold'
  <1> SUFFICES ASSUME TypeOK, SpamInv, [Next]_vars,
                      NEW s \in Sessions, notified'[s] # 0
               PROVE  Told(s, notified[s])'
    BY DEF MarksTold
  <1>0. /\ notified[s] \in 0..MaxEvents /\ emitted[s] \in 0..MaxEvents
        /\ file.notified[s] \in 0..MaxEvents /\ catchup.last \in 0..MaxEvents
    BY FileFields, CatchUpFields DEF TypeOK, Marks
  <1>1. ASSUME NEW k \in 0..MaxEvents, NEW j \in 0..MaxEvents, k <= j, Told(s, k),
               notified'[s] = j
        PROVE  Told(s, notified[s])'
    <2>1. k \in Int /\ j \in Int
      BY <1>1
    <2>2. Told(s, j)'
      BY <1>1, <2>1, ToldLasts
    <2> QED
      BY <1>1, <2>2 DEF Told
  <1>2. CASE notified'[s] = notified[s]
    BY <1>0, <1>1, <1>2 DEF SpamInv, MarksTold
  <1>3. CASE notified'[s] = file.notified[s]
    BY <1>0, <1>1, <1>3 DEF SpamInv, FileTold
  <1>4. ASSUME NEW t \in Tasks, Forwarded(t), forwarding[t].s = s,
               notified'[s] = Bigger(notified[s], forwarding[t].n)
        PROVE  Told(s, notified[s])'
    <2>1. forwarding[t] # Idle /\ forwarding[t].left = {} /\ forwarding[t].n \in 1..MaxEvents
      BY <1>4 DEF Forwarded, TypeOK, Forwardings
    <2>2. Told(s, forwarding[t].n)
      BY <1>4, <2>1 DEF SpamInv, TaskTold
    <2>3. forwarding[t].n \in 0..MaxEvents
      BY <2>1
    <2> QED
      BY <1>0, <1>1, <1>4, <2>2, <2>3, MarksAdvance
  <1>5. ASSUME NEW k \in 0..MaxEvents, notified[s] # 0, notified'[s] = Bigger(notified[s], k)
        PROVE  Told(s, notified[s])'
    BY <1>0, <1>1, <1>5, MarksAdvance DEF SpamInv, MarksTold
  <1>6. CASE /\ CatchUpSessionDone /\ catchup.at = s
             /\ notified'[s] = Bigger(notified[s], catchup.last)
    BY <1>0, <1>5, <1>6 DEF SpamInv, PageTold, CatchUpSessionDone
  <1> QED
    BY <1>0, <1>2, <1>3, <1>4, <1>5, <1>6, ChangedMarks

LEMMA FileToldStep == TypeOK /\ SpamInv /\ MarksTold' /\ [Next]_vars => FileTold'
  <1> SUFFICES ASSUME TypeOK, SpamInv, MarksTold', [Next]_vars,
                      NEW s \in Sessions, file'.notified[s] # 0
               PROVE  Told(s, file.notified[s])'
    BY DEF FileTold
  <1>0. ASSUME file.notified[s] # 0
        PROVE  \E m \in 1..file.notified[s], c \in Conversations : <<s, m>> \in offered'[c]
    <2>1. file.notified[s] \in Int /\ Told(s, file.notified[s])
      BY <1>0, FileFields DEF TypeOK, Marks, SpamInv, FileTold
    <2>2. \A j \in Int : j = file.notified[s] => Told(s, j)'
      BY <2>1, ToldLasts
    <2> QED
      BY <2>1, <2>2 DEF Told
  <1>1. CASE UNCHANGED file
    BY <1>0, <1>1 DEF Told
  <1>2. CASE SaveState(binding', notified')
    <2>1. file'.notified[s] \in {notified'[s], file.notified[s]}
      BY <1>2, SavedMarks DEF TypeOK
    <2>2. CASE file'.notified[s] = notified'[s]
      BY <2>2 DEF MarksTold, Told
    <2>3. CASE file'.notified[s] = file.notified[s]
      BY <1>0, <2>3 DEF Told
    <2> QED
      BY <2>1, <2>2, <2>3
  <1> QED
    BY <1>1, <1>2, WhatChangesFile

LEMMA PageToldStep ==
  TypeOK /\ TypeOK' /\ TasksRest /\ SpamInv /\ [Next]_vars => PageTold'
  <1> SUFFICES ASSUME TypeOK, TypeOK', TasksRest, SpamInv, [Next]_vars,
                      catchup'.at # NoSession
               PROVE  PageTold'
    BY DEF PageTold
  <1>0. \A s \in Sessions : notified[s] \in 0..MaxEvents
    BY DEF TypeOK, Marks
  <1>1. ASSUME catchup.at # NoSession, catchup'.at = catchup.at,
               catchup'.page \subseteq catchup.page, ~StartHub, ~Exit
        PROVE  PageTold'
    <2>1. catchup.at \in Sessions /\ notified[catchup.at] # 0
      BY <1>1, CatchUpFields DEF TypeOK, SpamInv, PageTold
    <2>2. notified'[catchup.at] # 0
      <3>1. \A s \in Sessions, k \in 0..MaxEvents :
              notified[s] # 0 => Bigger(notified[s], k) # 0
        BY <1>0 DEF Bigger
      <3>2. \A t \in Tasks : Forwarded(t) => forwarding[t].n \in 0..MaxEvents
        BY DEF Forwarded, TypeOK, Forwardings
      <3>3. catchup.last \in 0..MaxEvents /\ emitted[catchup.at] \in 0..MaxEvents
        BY <2>1, CatchUpFields DEF TypeOK, Marks
      <3> QED
        BY <1>1, <2>1, <3>1, <3>2, <3>3, ChangedMarks
    <2>3. ASSUME NEW n \in catchup'.page PROVE Told(catchup.at, n - 1)'
      <3>1. n \in 1..MaxEvents /\ Told(catchup.at, n - 1)
        BY <1>1, <2>3, CatchUpFields DEF TypeOK, SpamInv, PageTold
      <3>2. n - 1 \in Int
        BY <3>1
      <3>3. \E m \in 1..(n-1), c \in Conversations : <<catchup.at, m>> \in offered'[c]
        <4>1. PICK m \in 1..(n-1), c \in Conversations : <<catchup.at, m>> \in offered[c]
          BY <3>1 DEF Told
        <4> QED
          BY <4>1, OfferedGrows
      <3> QED
        BY <1>1, <3>3 DEF Told
    <2> QED
      BY <1>1, <2>1, <2>2, <2>3 DEF PageTold
  <1>2. CASE UNCHANGED catchup /\ ~StartHub /\ ~Exit
    BY <1>1, <1>2
  <1>3. CASE StartHub \/ StopTasks \/ Exit
    <2>1. StartHub => catchup'.at = NoSession
      BY DEF StartHub, TypeOK, CatchUps, TasksRest
    <2>2. CASE StopTasks \/ Exit
      <3>1. catchup \in CatchUps
        BY DEF TypeOK
      <3> QED
        BY <2>2, <3>1, CatchUpRests DEF StopTasks, Exit
    <2> QED
      BY <1>3, <2>1, <2>2
  <1>4. CASE CatchUpEvent
    <2>1. catchup'.at = catchup.at /\ catchup'.page \subseteq catchup.page
      BY <1>4 DEF CatchUpEvent, TypeOK, CatchUps
    <2>2. UNCHANGED phase
      BY <1>4 DEF CatchUpEvent
    <2> QED
      BY <1>1, <2>1, <2>2 DEF StartHub, Exit
  <1>5. CASE CatchUpSessionDone \/ CatchUpDone
    BY <1>5 DEF CatchUpSessionDone, CatchUpDone, TypeOK, CatchUps
  <1>6. ASSUME NEW s \in Sessions, CatchUpSession(s) PROVE PageTold'
    <2>1. catchup'.at = s /\ catchup'.page = Missed(s) /\ notified[s] # 0
      BY <1>6 DEF CatchUpSession
    <2>2. notified'[s] # 0
      <3>1. notified[s] <= notified'[s]
        BY <1>6, MarksGrow
      <3>2. notified'[s] \in 0..MaxEvents
        BY DEF TypeOK, Marks
      <3> QED
        BY <1>0, <2>1, <3>1, <3>2
    <2>3. ASSUME NEW n \in Missed(s) PROVE Told(s, n - 1)'
      <3>1. n \in Int /\ n - 1 \in Int /\ notified[s] \in Int /\ notified[s] <= n - 1
        <4>1. n \in 1..emitted[s] /\ n > notified[s]
          BY <2>3 DEF Missed
        <4>2. notified[s] \in 0..MaxEvents /\ emitted[s] \in 0..MaxEvents
          BY DEF TypeOK, Marks
        <4> QED
          BY <4>1, <4>2
      <3>2. Told(s, notified[s])
        BY <2>1 DEF SpamInv, MarksTold
      <3> QED
        BY <3>1, <3>2, ToldLasts
    <2> QED
      BY <2>1, <2>2, <2>3 DEF PageTold, Told
  <1> QED
    BY <1>2, <1>3, <1>4, <1>5, <1>6, WhatChangesTasks

LEMMA TaskToldStep == TypeOK /\ TypeOK' /\ SpamInv /\ [Next]_vars => TaskTold'
  <1> SUFFICES ASSUME TypeOK, TypeOK', SpamInv, [Next]_vars,
                      NEW r \in Tasks, forwarding'[r] # Idle
               PROVE  Told(forwarding[r].s, forwarding[r].n)' \/ forwarding'[r].left # {}
    BY DEF TaskTold
  <1>1. CASE forwarding'[r] = forwarding[r]
    <2>1. forwarding[r] \in Forwardings
      BY <1>1 DEF TypeOK
    <2>2. CASE forwarding[r].left # {}
      BY <1>1, <2>2
    <2>3. CASE Told(forwarding[r].s, forwarding[r].n)
      <3>1. PICK m \in 1..forwarding[r].n, c \in Conversations :
              <<forwarding[r].s, m>> \in offered[c]
        BY <2>3 DEF Told
      <3> QED
        BY <1>1, <3>1, OfferedGrows DEF Told
    <2> QED
      BY <1>1, <2>2, <2>3 DEF SpamInv, TaskTold
  <1>2. CASE StopTasks \/ Exit
    BY <1>2 DEF StopTasks, Exit
  <1>3. CASE MuxFrame \/ CatchUpEvent
    <2>1. forwarding \in [Tasks -> Forwardings \cup {Idle}] /\ "mux" \in Tasks
          /\ "catchup" \in Tasks
      BY DEF TypeOK, Tasks
    <2>2. ASSUME NEW t \in Tasks, NEW s, NEW n, Forward(t, s, n)
          PROVE  forwarding'[r] = forwarding[r] \/ forwarding'[r].left # {}
      <3>1. \/ forwarding'[r] = forwarding[r]
            \/ /\ forwarding'[r] = [s |-> s, n |-> n, left |-> index[s]]
               /\ index[s] # {}
        BY <2>1, <2>2 DEF Forward
      <3> QED
        BY <3>1
    <2>3. CASE MuxFrame
      BY <1>1, <2>1, <2>2, <2>3 DEF MuxFrame
    <2>4. CASE CatchUpEvent
      BY <1>1, <2>1, <2>2, <2>4 DEF CatchUpEvent
    <2> QED
      BY <1>3, <2>3, <2>4
  <1>4. ASSUME NEW t \in Tasks, Forwarded(t)
        PROVE  forwarding'[r] \in {forwarding[r], Idle}
    BY <1>4 DEF Forwarded, TypeOK
  <1>5. ASSUME NEW t \in Tasks, NEW c \in Conversations, Offer(t, c), r = t
        PROVE  Told(forwarding[r].s, forwarding[r].n)'
    <2>1. forwarding[r] \in Forwardings
      BY <1>5, Nothing DEF Offer, TypeOK
    <2>2. forwarding'[r].s = forwarding[r].s /\ forwarding'[r].n = forwarding[r].n
      BY <1>5, <2>1 DEF Offer, TypeOK, Forwardings
    <2>3. <<forwarding[r].s, forwarding[r].n>> \in offered'[c]
      BY <1>5 DEF Offer, TypeOK
    <2>4. forwarding[r].n \in 1..forwarding[r].n
      BY <2>1 DEF Forwardings
    <2> QED
      BY <2>2, <2>3, <2>4 DEF Told
  <1>6. ASSUME NEW t \in Tasks, NEW c \in Conversations, Offer(t, c), r # t
        PROVE  forwarding'[r] = forwarding[r]
    BY <1>6 DEF Offer, TypeOK
  <1> QED
    BY <1>1, <1>2, <1>3, <1>4, <1>5, <1>6, WhatChangesTasks

LEMMA SpamStep == TypeOK /\ TypeOK' /\ SpamInv /\ [Next]_vars => NoHistorySpam'
  <1> SUFFICES ASSUME TypeOK, TypeOK', SpamInv, [Next]_vars,
                      forwarding'["catchup"] # Idle
               PROVE  Told(forwarding["catchup"].s, forwarding["catchup"].n - 1)'
    BY DEF NoHistorySpam, Told
  <1> DEFINE f == forwarding["catchup"]
  <1>0. "catchup" \in Tasks /\ "mux" \in Tasks /\ "mux" # "catchup"
    BY DEF Tasks
  <1>1. ASSUME f # Idle, forwarding'["catchup"].s = f.s, forwarding'["catchup"].n = f.n
        PROVE  Told(forwarding["catchup"].s, forwarding["catchup"].n - 1)'
    <2>1. PICK m \in 1..(f.n - 1), c \in Conversations : <<f.s, m>> \in offered[c]
      BY <1>1 DEF SpamInv, NoHistorySpam
    <2> QED
      BY <1>1, <2>1, OfferedGrows DEF Told
  <1>2. CASE forwarding'["catchup"] = f
    BY <1>1, <1>2
  <1>3. CASE StopTasks \/ Exit
    BY <1>0, <1>3 DEF StopTasks, Exit
  <1>4. CASE MuxFrame
    <2>1. PICK s, n : Forward("mux", s, n)
      BY <1>4, Zenon DEF MuxFrame
    <2> QED
      BY <1>0, <1>2, <2>1 DEF Forward, TypeOK
  <1>5. CASE CatchUpEvent
    <2>1. PICK n \in catchup.page : Forward("catchup", catchup.at, n)
      BY <1>5 DEF CatchUpEvent
    <2>2. catchup.at # NoSession /\ n \in 1..MaxEvents
      BY <2>1, CatchUpFields DEF TypeOK
    <2>3. CASE forwarding'["catchup"] = [s |-> catchup.at, n |-> n, left |-> index[catchup.at]]
      <3>1. Told(catchup.at, n - 1)
        BY <2>1, <2>2 DEF SpamInv, PageTold
      <3>2. PICK m \in 1..(n - 1), c \in Conversations : <<catchup.at, m>> \in offered[c]
        BY <3>1 DEF Told
      <3> QED
        BY <2>3, <3>2, OfferedGrows DEF Told
    <2>4. forwarding \in [Tasks -> Forwardings \cup {Idle}]
      BY DEF TypeOK
    <2>5. \/ forwarding'["catchup"] = f
          \/ forwarding'["catchup"] = [s |-> catchup.at, n |-> n, left |-> index[catchup.at]]
      BY <1>0, <2>1, <2>4 DEF Forward
    <2> QED
      BY <1>0, <1>2, <2>1, <2>3, <2>4, <2>5
  <1>6. ASSUME NEW t \in Tasks, Forwarded(t) PROVE forwarding'["catchup"] \in {f, Idle}
    BY <1>0, <1>6 DEF Forwarded, TypeOK
  <1>7. ASSUME NEW t \in Tasks, NEW c \in Conversations, Offer(t, c)
        PROVE  Told(forwarding["catchup"].s, forwarding["catchup"].n - 1)'
    <2>1. CASE t = "catchup"
      <3>1. f \in Forwardings /\ f # Idle
        BY <1>7, <2>1, Nothing DEF Offer, TypeOK
      <3>2. forwarding'["catchup"].s = f.s /\ forwarding'["catchup"].n = f.n
        BY <1>7, <2>1, <3>1 DEF Offer, TypeOK, Forwardings
      <3> QED
        BY <1>1, <3>1, <3>2
    <2>2. CASE t # "catchup"
      BY <1>0, <1>2, <1>7, <2>2 DEF Offer, TypeOK
    <2> QED
      BY <2>1, <2>2
  <1> QED
    BY <1>2, <1>3, <1>4, <1>5, <1>6, <1>7, WhatChangesTasks

LEMMA SpamInvariant == Spec => []SpamInv
  <1>1. Init => SpamInv
    BY Nothing DEF Init, SpamInv, MarksTold, FileTold, PageTold, TaskTold, NoHistorySpam,
                   NoMarks, Tasks
  <1>2. NotificationInv /\ NotificationInv' /\ SpamInv /\ [Next]_vars => SpamInv'
    BY MarksToldStep, FileToldStep, PageToldStep, TaskToldStep, SpamStep
    DEF NotificationInv, SpamInv
  <1> QED
    BY <1>1, <1>2, NotificationInvariant, PTL DEF Spec

(* A start never spams history: catch-up sends an event only if an earlier *)
(* one of the same session was sent to somebody, in this life or before,   *)
(* whatever crashes, torn files and early bindings came in between.        *)
THEOREM HistoryIsNotSpammed == Spec => []NoHistorySpam
  <1>1. SpamInv => NoHistorySpam
    BY DEF SpamInv
  <1> QED
    BY <1>1, SpamInvariant, PTL

-----------------------------------------------------------------------------
(* An event the host has emitted, after all that are settled. *)
Fresh(s, n) == n <= emitted[s] /\ \A m \in 1..MaxEvents : <<s, m>> \in settled => m < n

(* A watermark that is there is not behind what is settled: it may be lost *)
(* with a torn file, but what makes the next one is a later event.         *)
SettledPast ==
  \A s \in Sessions, m \in 1..MaxEvents : <<s, m>> \in settled =>
    /\ m <= emitted[s]
    /\ notified[s] # 0 => m <= notified[s]
    /\ file.notified[s] # 0 => m <= file.notified[s]

FinishedPast ==
  /\ phase \in {"down", "serving"} => finished = {}
  /\ \A s \in Sessions, m \in 1..MaxEvents :
       <<s, m>> \in finished => m <= notified[s] /\ m <= emitted[s]

(* Whatever is on its way to be sent is fresh. *)
WireFresh == \A i \in 1..Len(wire) : Fresh(wire[i][1], wire[i][2])
PageFresh == catchup.at # NoSession => \A n \in catchup.page : Fresh(catchup.at, n)
TaskFresh == \A t \in Tasks : forwarding[t] # Idle => Fresh(forwarding[t].s, forwarding[t].n)

SettledInv == SettledPast /\ FinishedPast /\ WireFresh /\ PageFresh /\ TaskFresh

LEMMA WhatIsSettled ==
  ASSUME [Next]_vars
  PROVE  /\ \/ settled' = settled
            \/ /\ StopSaves /\ SaveState(binding', notified')
               /\ file'.current /\ settled' = settled \cup finished
         /\ \/ finished' = finished
            \/ Exit /\ finished' = {}
            \/ \E t \in Tasks : /\ Forwarded(t)
                                /\ finished' = finished \cup {<<forwarding[t].s, forwarding[t].n>>}
         /\ emitted' = emitted \/ \E s \in Sessions : Emit(s)
         /\ \/ wire' = wire
            \/ StopTasks \/ Exit \/ MuxDrops \/ MuxFrame \/ \E s \in Sessions : Emit(s)
  BY DEF Next, Bind, StartServer, StartHub, StopTasks, StopSaves, Exit, Emit,
         CatchUpSession, MuxConnects, MuxDrops, MuxFrame, Forwarded, Offer,
         CatchUpEvent, CatchUpSessionDone, CatchUpDone, vars, host, history, memory

LEMMA EmittedGrows ==
  ASSUME TypeOK, [Next]_vars, NEW s \in Sessions
  PROVE  emitted[s] <= emitted'[s] /\ emitted[s] \in 0..MaxEvents /\ emitted'[s] \in Int
  <1>1. emitted \in Marks /\ emitted[s] \in 0..MaxEvents
    BY DEF TypeOK, Marks
  <1>2. CASE emitted' = emitted
    BY <1>1, <1>2
  <1>3. ASSUME NEW r \in Sessions, Emit(r)
        PROVE  emitted'[s] \in {emitted[s], emitted[s] + 1}
    BY <1>1, <1>3 DEF Emit, Marks
  <1> QED
    BY <1>1, <1>2, <1>3, WhatIsSettled

LEMMA FreshLasts ==
  ASSUME TypeOK, [Next]_vars, phase' = "running",
         NEW s \in Sessions, NEW n \in Int, Fresh(s, n)
  PROVE  Fresh(s, n)'
  <1>1. settled' = settled
    BY WhatIsSettled DEF StopSaves
  <1>2. n <= emitted'[s]
    BY EmittedGrows DEF Fresh
  <1> QED
    BY <1>1, <1>2 DEF Fresh

LEMMA SettledPastStep ==
  TypeOK /\ TypeOK' /\ PageTold /\ SettledInv /\ [Next]_vars => SettledPast'
  <1> SUFFICES ASSUME TypeOK, TypeOK', PageTold, SettledInv, [Next]_vars,
                      NEW s \in Sessions, NEW m \in 1..MaxEvents, <<s, m>> \in settled'
               PROVE  /\ m <= emitted'[s]
                      /\ notified'[s] # 0 => m <= notified'[s]
                      /\ file'.notified[s] # 0 => m <= file'.notified[s]
    BY DEF SettledPast
  <1>0. /\ notified[s] \in 0..MaxEvents /\ emitted[s] \in 0..MaxEvents
        /\ file.notified[s] \in 0..MaxEvents /\ catchup.last \in 0..MaxEvents
    BY FileFields, CatchUpFields DEF TypeOK, Marks
  <1>1. m <= emitted[s] /\ (notified[s] # 0 => m <= notified[s])
    <2>1. CASE <<s, m>> \in settled
      BY <2>1 DEF SettledInv, SettledPast
    <2>2. CASE <<s, m>> \in finished
      BY <2>2 DEF SettledInv, FinishedPast
    <2> QED
      BY <2>1, <2>2, WhatIsSettled
  <1>2. m <= emitted'[s]
    BY <1>0, <1>1, EmittedGrows
  <1>3. notified'[s] # 0 => m <= notified'[s]
    <2>1. CASE notified'[s] = notified[s]
      BY <1>1, <2>1
    <2>2. CASE StartHub /\ notified'[s] = file.notified[s]
      <3>1. <<s, m>> \in settled
        BY <2>2, WhatIsSettled DEF StartHub, StopSaves
      <3> QED
        BY <2>2, <3>1 DEF SettledInv, SettledPast
    <2>3. ASSUME NEW t \in Tasks, Forwarded(t), forwarding[t].s = s,
                 notified'[s] = Bigger(notified[s], forwarding[t].n)
          PROVE  m <= notified'[s]
      <3>1. forwarding[t] # Idle /\ forwarding[t].n \in 1..MaxEvents
        BY <2>3 DEF Forwarded, TypeOK, Forwardings
      <3>2. Fresh(s, forwarding[t].n)
        BY <2>3, <3>1 DEF SettledInv, TaskFresh
      <3>3. settled' = settled
        BY <2>3, WhatIsSettled DEF StopSaves, Forwarded, tasks
      <3>4. m < forwarding[t].n
        BY <3>2, <3>3 DEF Fresh
      <3> QED
        BY <1>0, <2>3, <3>1, <3>4 DEF Bigger
    <2>4. ASSUME NEW k \in 0..MaxEvents, notified[s] # 0,
                 notified'[s] = Bigger(notified[s], k)
          PROVE  m <= notified'[s]
      BY <1>0, <1>1, <2>4 DEF Bigger
    <2>5. CASE /\ CatchUpSessionDone /\ catchup.at = s
               /\ notified'[s] = Bigger(notified[s], catchup.last)
      BY <1>0, <2>4, <2>5 DEF PageTold, CatchUpSessionDone
    <2> QED
      BY <1>0, <2>1, <2>2, <2>3, <2>4, <2>5, ChangedMarks
  <1>4. file'.notified[s] # 0 => m <= file'.notified[s]
    <2>1. CASE SaveState(binding', notified')
      <3>1. CASE file'.notified[s] \in {0, notified'[s]}
        BY <1>3, <3>1
      <3>2. CASE file'.notified[s] = file.notified[s] /\ <<s, m>> \in settled
        BY <3>2 DEF SettledInv, SettledPast
      <3>3. CASE file'.notified[s] = file.notified[s] /\ StopSaves /\ file'.current
        <4>1. file'.notified = notified
          BY <3>3, <1>0 DEF StopSaves, SaveState, TypeOK, Files
        <4> QED
          BY <1>1, <4>1
      <3> QED
        BY <2>1, <3>1, <3>2, <3>3, SavedMarks, WhatIsSettled DEF TypeOK
    <2>2. CASE UNCHANGED file /\ <<s, m>> \in settled
      BY <2>2 DEF SettledInv, SettledPast
    <2> QED
      BY <2>1, <2>2, WhatChangesFile, WhatIsSettled
  <1> QED
    BY <1>2, <1>3, <1>4

LEMMA FinishedPastStep ==
  TypeOK /\ TypeOK' /\ TasksRest /\ SettledInv /\ [Next]_vars => FinishedPast'
  <1> SUFFICES ASSUME TypeOK, TypeOK', TasksRest, SettledInv, [Next]_vars PROVE FinishedPast'
    OBVIOUS
  <1>1. CASE Exit
    BY <1>1 DEF Exit, FinishedPast
  <1>2. ASSUME ~Exit, phase' \in {"down", "serving"} PROVE finished' = {}
    <2>1. phase \in {"down", "serving"}
      BY <1>2 DEF Next, Bind, StartServer, StartHub, StopTasks, StopSaves, Emit,
                  CatchUpSession, MuxConnects, MuxDrops, MuxFrame, Forwarded, Offer,
                  CatchUpEvent, CatchUpSessionDone, CatchUpDone, vars
    <2>2. finished = {} /\ \A t \in Tasks : ~Forwarded(t)
      BY <2>1 DEF SettledInv, FinishedPast, TasksRest, Forwarded
    <2> QED
      BY <1>2, <2>2, WhatIsSettled
  <1>3. ASSUME ~Exit, NEW s \in Sessions, NEW m \in 1..MaxEvents, <<s, m>> \in finished'
        PROVE  m <= notified'[s] /\ m <= emitted'[s]
    <2>0. /\ notified[s] \in 0..MaxEvents /\ emitted[s] \in 0..MaxEvents
          /\ notified'[s] \in 0..MaxEvents /\ catchup.last \in 0..MaxEvents
      BY CatchUpFields DEF TypeOK, Marks
    <2>1. CASE <<s, m>> \in finished
      <3>1. m <= notified[s] /\ m <= emitted[s] /\ ~StartHub
        BY <2>1 DEF SettledInv, FinishedPast, StartHub
      <3>2. notified[s] <= notified'[s]
        <4>1. \A t \in Tasks : Forwarded(t) => forwarding[t].n \in 0..MaxEvents
          BY DEF Forwarded, TypeOK, Forwardings
        <4>2. \A k \in 0..MaxEvents : notified[s] <= Bigger(notified[s], k)
          BY <2>0 DEF Bigger
        <4> QED
          BY <1>3, <2>0, <3>1, <4>1, <4>2, ChangedMarks
      <3> QED
        BY <2>0, <3>1, <3>2, EmittedGrows
    <2>2. ASSUME NEW t \in Tasks, Forwarded(t), <<s, m>> = <<forwarding[t].s, forwarding[t].n>>
          PROVE  m <= notified'[s] /\ m <= emitted'[s]
      <3>1. notified'[s] = Bigger(notified[s], m)
        BY <2>2 DEF Forwarded, TypeOK, Marks
      <3>2. m <= emitted[s]
        BY <2>2 DEF Forwarded, SettledInv, TaskFresh, Fresh
      <3> QED
        BY <2>0, <3>1, <3>2, EmittedGrows DEF Bigger
    <2> QED
      BY <1>3, <2>1, <2>2, WhatIsSettled
  <1> QED
    BY <1>1, <1>2, <1>3 DEF FinishedPast

(* What is on the wire are events. *)
LEMMA WireEvents ==
  ASSUME wire \in Seq(Events), NEW i \in 1..Len(wire)
  PROVE  /\ wire[i] \in Events /\ wire[i][1] \in Sessions /\ wire[i][2] \in 1..MaxEvents
  <1>1. wire[i] \in Events
    OBVIOUS
  <1> QED
    BY <1>1 DEF Events

LEMMA WireFreshStep ==
  TypeOK /\ TasksRest' /\ SettledInv /\ [Next]_vars => WireFresh'
  <1> SUFFICES ASSUME TypeOK, TasksRest', SettledInv, [Next]_vars PROVE WireFresh'
    OBVIOUS
  <1>0. wire \in Seq(Events)
    BY DEF TypeOK
  <1>1. CASE phase' # "running"
    BY <1>1 DEF TasksRest, WireFresh
  <1>2. ASSUME phase' = "running", NEW i \in 1..Len(wire)
        PROVE  Fresh(wire[i][1], wire[i][2]) /\ \A s, n : <<s, n>> = wire[i] => Fresh(s, n)'
    <2>1. /\ wire[i] \in Events /\ wire[i][1] \in Sessions /\ wire[i][2] \in Int
          /\ wire[i] = <<wire[i][1], wire[i][2]>>
      BY <1>0, WireEvents DEF Events
    <2>2. Fresh(wire[i][1], wire[i][2])
      BY DEF SettledInv, WireFresh
    <2> QED
      BY <1>2, <2>1, <2>2, FreshLasts
  <1>3. ASSUME phase' = "running", NEW j \in 1..Len(wire'),
               \E i \in 1..Len(wire) : wire'[j] = wire[i]
        PROVE  Fresh(wire[j][1], wire[j][2])'
    <2>1. PICK i \in 1..Len(wire) : wire'[j] = wire[i]
      BY <1>3
    <2>2. wire[i] = <<wire'[j][1], wire'[j][2]>>
      BY <1>0, <2>1, WireEvents DEF Events
    <2>3. \A s, n : <<s, n>> = wire[i] => Fresh(s, n)'
      BY <1>2, <1>3
    <2> QED
      BY <2>2, <2>3 DEF Fresh
  <1>4. CASE phase' = "running" /\ wire' = wire
    BY <1>3, <1>4 DEF WireFresh
  <1>5. CASE phase' = "running" /\ MuxDrops
    <2>1. PICK k \in 0..Len(wire) : wire' = SubSeq(wire, 1, k)
      BY <1>5 DEF MuxDrops
    <2>2. \A j \in 1..Len(wire') : j \in 1..Len(wire) /\ wire'[j] = wire[j]
      BY <1>0, <2>1
    <2> QED
      BY <1>3, <1>5, <2>2 DEF WireFresh
  <1>6. CASE phase' = "running" /\ MuxFrame
    <2>1. wire' = Tail(wire) /\ wire # <<>>
      BY <1>6 DEF MuxFrame
    <2>2. \A j \in 1..Len(wire') : j + 1 \in 1..Len(wire) /\ wire'[j] = wire[j + 1]
      BY <1>0, <2>1
    <2> QED
      BY <1>3, <1>6, <2>2 DEF WireFresh
  <1>7. ASSUME phase' = "running", NEW s \in Sessions, Emit(s) PROVE WireFresh'
    <2>1. wire' = wire \/ wire' = Append(wire, <<s, emitted'[s]>>)
      BY <1>7 DEF Emit
    <2>2. /\ \A m \in 1..MaxEvents : <<s, m>> \in settled => m <= emitted[s]
          /\ settled' = settled /\ emitted[s] \in 0..MaxEvents /\ emitted'[s] = emitted[s] + 1
      BY <1>7 DEF Emit, history, SettledInv, SettledPast, TypeOK, Marks
    <2>3. Fresh(s, emitted[s])'
      BY <2>2 DEF Fresh
    <2>4. CASE wire' = Append(wire, <<s, emitted'[s]>>)
      <3>1. ASSUME NEW j \in 1..Len(wire')
            PROVE  \/ j \in 1..Len(wire) /\ wire'[j] = wire[j]
                   \/ wire'[j] = <<s, emitted'[s]>>
        BY <1>0, <2>4
      <3>2. ASSUME NEW j \in 1..Len(wire'), wire'[j] = <<s, emitted'[s]>>
            PROVE  Fresh(wire[j][1], wire[j][2])'
        BY <2>3, <3>2 DEF Fresh
      <3> QED
        BY <1>3, <1>7, <3>1, <3>2 DEF WireFresh
    <2> QED
      BY <1>4, <1>7, <2>1, <2>4
  <1>8. StopTasks \/ Exit => phase' # "running"
    BY DEF StopTasks, Exit
  <1> QED
    BY <1>1, <1>4, <1>5, <1>6, <1>7, <1>8, WhatIsSettled

LEMMA PageFreshStep ==
  TypeOK /\ TasksRest' /\ SettledInv /\ [Next]_vars => PageFresh'
  <1> SUFFICES ASSUME TypeOK, TasksRest', SettledInv, [Next]_vars,
                      phase' = "running", catchup'.at # NoSession,
                      NEW n \in catchup'.page
               PROVE  Fresh(catchup.at, n)'
    BY DEF TasksRest, PageFresh
  <1>1. ASSUME catchup.at # NoSession, catchup'.at = catchup.at, n \in catchup.page
        PROVE  Fresh(catchup.at, n)'
    <2>1. catchup.at \in Sessions /\ n \in Int /\ Fresh(catchup.at, n)
      BY <1>1, CatchUpFields DEF TypeOK, SettledInv, PageFresh
    <2>2. \A s \in Sessions : s = catchup.at => Fresh(s, n)'
      BY <2>1, FreshLasts
    <2>3. \A s \in Sessions : s = catchup'.at => (Fresh(s, n)' <=> Fresh(catchup.at, n)')
      BY DEF Fresh
    <2> QED
      BY <1>1, <2>1, <2>2, <2>3
  <1>2. CASE UNCHANGED catchup
    BY <1>1, <1>2
  <1>3. CASE StartHub \/ StopTasks \/ Exit
    <2>1. StartHub => catchup'.at = catchup.at /\ catchup'.page = catchup.page
      BY DEF StartHub, TypeOK, CatchUps
    <2> QED
      BY <1>1, <1>3, <2>1 DEF StopTasks, Exit
  <1>4. CASE CatchUpEvent
    <2>1. catchup \in CatchUps
      BY DEF TypeOK
    <2>2. catchup'.at = catchup.at /\ catchup'.page \subseteq catchup.page
      BY <1>4, <2>1 DEF CatchUpEvent, CatchUps
    <2> QED
      BY <1>1, <2>2
  <1>5. CASE CatchUpSessionDone \/ CatchUpDone
    <2>1. catchup \in CatchUps
      BY DEF TypeOK
    <2>2. CatchUpSessionDone => catchup'.at = NoSession
      BY <2>1 DEF CatchUpSessionDone, CatchUps
    <2>3. CatchUpDone => catchup'.at = NoSession
      BY <2>1 DEF CatchUpDone, CatchUps
    <2> QED
      BY <1>5, <2>2, <2>3
  <1>6. ASSUME NEW s \in Sessions, CatchUpSession(s) PROVE Fresh(catchup.at, n)'
    <2>1. catchup'.at = s /\ n \in Missed(s) /\ notified[s] # 0
      BY <1>6 DEF CatchUpSession
    <2>2. \A m \in 1..MaxEvents : <<s, m>> \in settled => m <= notified[s]
      BY <2>1 DEF SettledInv, SettledPast
    <2>3. n \in Int /\ n <= emitted[s] /\ notified[s] < n /\ notified[s] \in Int
      <3>1. emitted[s] \in 0..MaxEvents /\ notified[s] \in 0..MaxEvents
        BY DEF TypeOK, Marks
      <3> QED
        BY <2>1, <3>1 DEF Missed
    <2>4. Fresh(s, n)
      BY <2>2, <2>3 DEF Fresh
    <2>5. Fresh(s, n)'
      BY <2>3, <2>4, FreshLasts
    <2> QED
      BY <2>1, <2>5 DEF Fresh
  <1> QED
    BY <1>2, <1>3, <1>4, <1>5, <1>6, WhatChangesTasks

LEMMA TaskFreshStep ==
  TypeOK /\ TypeOK' /\ TasksRest' /\ SettledInv /\ [Next]_vars => TaskFresh'
  <1> SUFFICES ASSUME TypeOK, TypeOK', TasksRest', SettledInv, [Next]_vars,
                      phase' = "running", NEW r \in Tasks, forwarding'[r] # Idle
               PROVE  Fresh(forwarding[r].s, forwarding[r].n)'
    BY DEF TasksRest, TaskFresh
  <1>0. forwarding \in [Tasks -> Forwardings \cup {Idle}] /\ "mux" \in Tasks /\ "catchup" \in Tasks
    BY DEF TypeOK, Tasks
  <1>1. ASSUME NEW s \in Sessions, NEW n \in 1..MaxEvents, Fresh(s, n),
               forwarding'[r].s = s, forwarding'[r].n = n
        PROVE  Fresh(forwarding[r].s, forwarding[r].n)'
    <2>1. Fresh(s, n)'
      BY <1>1, FreshLasts
    <2> QED
      BY <1>1, <2>1 DEF Fresh
  <1>2. ASSUME forwarding[r] # Idle, forwarding'[r].s = forwarding[r].s,
               forwarding'[r].n = forwarding[r].n
        PROVE  Fresh(forwarding[r].s, forwarding[r].n)'
    <2>1. forwarding[r].s \in Sessions /\ forwarding[r].n \in 1..MaxEvents
      BY <1>0, <1>2 DEF Forwardings
    <2> QED
      BY <1>1, <1>2, <2>1 DEF SettledInv, TaskFresh
  <1>3. CASE forwarding'[r] = forwarding[r]
    BY <1>2, <1>3
  <1>4. CASE StopTasks \/ Exit
    BY <1>4 DEF StopTasks, Exit
  <1>5. ASSUME NEW t \in Tasks, NEW s \in Sessions, NEW n \in 1..MaxEvents,
               Forward(t, s, n), Fresh(s, n)
        PROVE  Fresh(forwarding[r].s, forwarding[r].n)'
    <2>1. \/ forwarding'[r] = forwarding[r]
          \/ forwarding'[r] = [s |-> s, n |-> n, left |-> index[s]]
      BY <1>0, <1>5 DEF Forward
    <2>2. CASE forwarding'[r] = [s |-> s, n |-> n, left |-> index[s]]
      BY <1>1, <1>5, <2>2
    <2> QED
      BY <1>3, <2>1, <2>2
  <1>6. CASE MuxFrame
    <2>1. wire # <<>> /\ Forward("mux", Head(wire)[1], Head(wire)[2]) /\ wire \in Seq(Events)
      BY <1>6 DEF MuxFrame, TypeOK
    <2>2. Head(wire) = wire[1] /\ 1 \in 1..Len(wire)
      BY <2>1
    <2>3. /\ Head(wire)[1] \in Sessions /\ Head(wire)[2] \in 1..MaxEvents
          /\ Fresh(Head(wire)[1], Head(wire)[2])
      BY <2>1, <2>2, WireEvents DEF SettledInv, WireFresh
    <2> QED
      BY <1>0, <1>5, <2>1, <2>3
  <1>7. CASE CatchUpEvent
    <2>1. PICK n \in catchup.page : Forward("catchup", catchup.at, n)
      BY <1>7 DEF CatchUpEvent
    <2>2. catchup.at \in Sessions /\ n \in 1..MaxEvents
      BY <2>1, CatchUpFields DEF TypeOK
    <2>3. Fresh(catchup.at, n)
      BY <2>1, <2>2, NotificationAssumption DEF SettledInv, PageFresh
    <2> QED
      BY <1>0, <1>5, <2>1, <2>2, <2>3
  <1>8. ASSUME NEW t \in Tasks, Forwarded(t) PROVE forwarding'[r] \in {forwarding[r], Idle}
    BY <1>0, <1>8 DEF Forwarded
  <1>9. ASSUME NEW t \in Tasks, NEW c \in Conversations, Offer(t, c)
        PROVE  Fresh(forwarding[r].s, forwarding[r].n)'
    <2>1. CASE t = r
      <3>1. forwarding[r] \in Forwardings /\ forwarding[r] # Idle
        BY <1>0, <1>9, <2>1, Nothing DEF Offer
      <3>2. forwarding'[r].s = forwarding[r].s /\ forwarding'[r].n = forwarding[r].n
        BY <1>0, <1>9, <2>1, <3>1 DEF Offer, Forwardings
      <3> QED
        BY <1>2, <3>1, <3>2
    <2>2. CASE t # r
      BY <1>0, <1>3, <1>9, <2>2 DEF Offer
    <2> QED
      BY <2>1, <2>2
  <1> QED
    BY <1>3, <1>4, <1>6, <1>7, <1>8, <1>9, WhatChangesTasks

(* What was sent to all bound conversations before an orderly stop that    *)
(* could save is not sent again by the catch-up of a later process,        *)
(* whatever crashes, failing or torn writes and early bindings came in     *)
(* between.                                                                *)
THEOREM SettledIsNotSentAgain == Spec => []SettledIsNotRepeated
  <1>1. Init => SettledInv
    BY Nothing DEF Init, SettledInv, SettledPast, FinishedPast, WireFresh, PageFresh,
                   TaskFresh, NoMarks, Tasks
  <1>2. NotificationInv /\ NotificationInv' /\ SpamInv /\ SettledInv /\ [Next]_vars
          => SettledInv'
    BY SettledPastStep, FinishedPastStep, WireFreshStep, PageFreshStep, TaskFreshStep
    DEF NotificationInv, SpamInv, SettledInv
  <1>3. NotificationInv /\ SettledInv => SettledIsNotRepeated
    <2> SUFFICES ASSUME NotificationInv, SettledInv, forwarding["catchup"] # Idle,
                        <<forwarding["catchup"].s, forwarding["catchup"].n>> \in settled
                 PROVE  FALSE
      BY DEF SettledIsNotRepeated
    <2>1. "catchup" \in Tasks
      BY DEF Tasks
    <2>2. forwarding["catchup"].n \in 1..MaxEvents
      BY <2>1 DEF NotificationInv, TypeOK, Forwardings
    <2>3. Fresh(forwarding["catchup"].s, forwarding["catchup"].n)
      BY <2>1 DEF SettledInv, TaskFresh
    <2> QED
      BY <2>2, <2>3 DEF Fresh
  <1> QED
    BY <1>1, <1>2, <1>3, NotificationInvariant, SpamInvariant, PTL DEF Spec

-----------------------------------------------------------------------------
(* What Bind and LoadState add to the bindings they add to the index. *)
IndexInv == \A c \in Conversations, s \in Sessions : binding[c] = s => c \in index[s]

(* The catch-up task forwards events only for a session it has in hand,    *)
(* and has none when it is done.                                           *)
HandInv ==
  /\ catchup.at = NoSession => forwarding["catchup"] = Idle
  /\ catchup.stage = "done" => catchup.at = NoSession

(* The first step of catch-up comes before the first connection. *)
NewWaits ==
  phase = "running" /\ catchup.stage = "new" =>
    /\ catchup.at = NoSession /\ ~online /\ wire = <<>>
    /\ \A t \in Tasks : forwarding[t] = Idle

(* Before that step, an event that is due is after the watermark. *)
DueAhead ==
  phase = "running" /\ catchup.stage = "new" =>
    \A c \in Conversations, s \in Sessions, n \in 1..MaxEvents : <<c, s, n>> \in due =>
      /\ binding[c] = s /\ notified[s] # 0
      /\ notified[s] < n /\ n <= emitted[s]

(* After it, the event is in hand, half forwarded, or sent. *)
Underway(c, s, n) ==
  LET f == forwarding["catchup"] IN
  \/ <<s, n>> \in offered[c]
  \/ catchup.at = s /\ n \in catchup.page
  \/ f # Idle /\ f.s = s /\ f.n = n /\ c \in f.left

DueUnderway ==
  phase = "running" /\ catchup.stage # "new" =>
    \A c \in Conversations, s \in Sessions, n \in 1..MaxEvents :
      <<c, s, n>> \in due => Underway(c, s, n)

DueBound ==
  phase = "running" =>
    \A c \in Conversations, s \in Sessions, n \in 1..MaxEvents :
      <<c, s, n>> \in due => c \in index[s] /\ <<s, n>> \notin Silent

BackfillInv == IndexInv /\ HandInv /\ NewWaits /\ DueAhead /\ DueUnderway /\ DueBound

LEMMA IndexStep == TypeOK /\ IndexInv /\ [Next]_vars => IndexInv'
  <1> SUFFICES ASSUME TypeOK, IndexInv, [Next]_vars PROVE IndexInv'
    OBVIOUS
  <1>1. CASE UNCHANGED <<binding, index>>
    BY <1>1 DEF IndexInv
  <1>2. ASSUME NEW c \in Conversations, NEW s \in Sessions, Bind(c, s) PROVE IndexInv'
    BY <1>2 DEF Bind, IndexInv, TypeOK, Bindings
  <1>3. CASE StartHub
    BY <1>3 DEF StartHub, LoadState, IndexInv
  <1>4. CASE Exit
    BY <1>4, NotificationAssumption DEF Exit, Unbound, IndexInv
  <1> QED
    BY <1>1, <1>2, <1>3, <1>4
    DEF Next, StartServer, StopTasks, StopSaves, Emit, CatchUpSession, MuxConnects,
        MuxDrops, MuxFrame, Forwarded, Offer, CatchUpEvent, CatchUpSessionDone,
        CatchUpDone, vars, memory

(* Who writes what catch-up depends on. *)
LEMMA WhatIsDue ==
  ASSUME TypeOK, [Next]_vars, phase' = "running"
  PROVE  \/ StartHub
         \/ /\ phase = "running" /\ due' \subseteq due
            /\ ~StartHub /\ ~StopTasks /\ ~Exit
            /\ \A c \in Conversations, s \in Sessions, n \in 1..MaxEvents :
                 <<c, s, n>> \in due' /\ binding[c] = s => binding'[c] = s
  <1>1. \/ StartHub
        \/ phase = "running" /\ ~StartHub /\ ~StopTasks /\ ~Exit
    BY DEF Next, Bind, StartServer, StartHub, StopTasks, StopSaves, Exit, Emit,
           CatchUpSession, MuxConnects, MuxDrops, MuxFrame, Forwarded, Offer,
           CatchUpEvent, CatchUpSessionDone, CatchUpDone, vars
  <1>2. ASSUME NEW d \in Conversations, NEW r \in Sessions, Bind(d, r)
        PROVE  /\ due' \subseteq due
               /\ \A c \in Conversations, s \in Sessions, n \in 1..MaxEvents :
                    <<c, s, n>> \in due' /\ binding[c] = s => binding'[c] = s
    BY <1>2 DEF Bind, TypeOK, Bindings
  <1>3. CatchUpDone => due' \subseteq due
    BY CatchUpFields, PassesOverType DEF CatchUpDone, TypeOK
  <1>4. ASSUME NEW r \in Sessions, CatchUpSession(r)
        PROVE  due' \subseteq due /\ binding' = binding
    <2>1. PICK skipped \in SUBSET (Todo \ {r}) : PassesOver(skipped)
      BY <1>4 DEF CatchUpSession
    <2>2. skipped \in SUBSET Sessions
      BY CatchUpFields DEF TypeOK
    <2> QED
      BY <1>4, <2>1, <2>2, PassesOverType DEF CatchUpSession, TypeOK
  <1>5. \/ StartHub \/ StopTasks \/ Exit \/ CatchUpDone
        \/ \E d \in Conversations, r \in Sessions : Bind(d, r)
        \/ \E r \in Sessions : CatchUpSession(r)
        \/ due' = due /\ binding' = binding
    BY DEF Next, StartServer, StopSaves, Emit, MuxConnects, MuxDrops, MuxFrame,
           Forwarded, Offer, CatchUpEvent, CatchUpSessionDone, vars, history, memory
  <1>6. CatchUpDone => binding' = binding
    BY DEF CatchUpDone
  <1> QED
    BY <1>1, <1>2, <1>3, <1>4, <1>5, <1>6

LEMMA IndexGrows ==
  ASSUME TypeOK, [Next]_vars, ~Exit, NEW s \in Sessions
  PROVE  index[s] \subseteq index'[s]
  <1>1. CASE UNCHANGED index
    BY <1>1
  <1>2. ASSUME NEW c \in Conversations, NEW r \in Sessions, Bind(c, r)
        PROVE  index[s] \subseteq index'[s]
    BY <1>2 DEF Bind, TypeOK
  <1>3. CASE StartHub
    BY <1>3 DEF StartHub, LoadState
  <1> QED
    BY <1>1, <1>2, <1>3
    DEF Next, StartServer, StopTasks, StopSaves, Emit, CatchUpSession, MuxConnects,
        MuxDrops, MuxFrame, Forwarded, Offer, CatchUpEvent, CatchUpSessionDone,
        CatchUpDone, vars, memory

(* What the steps of catch-up do to the record of it. *)
LEMMA CatchUpSteps ==
  ASSUME TypeOK, TasksRest
  PROVE  /\ StartHub => catchup'.stage = "new" /\ catchup'.at = NoSession
         /\ StopTasks \/ Exit => catchup'.stage = "done" /\ catchup'.at = NoSession
         /\ CatchUpEvent => /\ catchup'.stage = catchup.stage /\ catchup'.at = catchup.at
                            /\ catchup.at \in Sessions
         /\ CatchUpSessionDone => /\ catchup'.stage = catchup.stage
                                  /\ catchup'.at = NoSession
                                  /\ catchup.at \in Sessions
         /\ CatchUpDone => catchup'.stage = "done" /\ catchup'.at = NoSession
         /\ \A s \in Sessions : CatchUpSession(s) =>
              catchup'.stage = "on" /\ catchup'.at = s /\ catchup'.page = Missed(s)
  <1>0. catchup \in CatchUps
    BY DEF TypeOK
  <1>1. StartHub => catchup'.stage = "new" /\ catchup'.at = NoSession
    BY <1>0 DEF StartHub, CatchUps, TasksRest
  <1>2. ASSUME StopTasks \/ Exit PROVE catchup'.stage = "done" /\ catchup'.at = NoSession
    BY <1>0, <1>2 DEF StopTasks, Exit, CatchUps
  <1>3. ASSUME CatchUpEvent
        PROVE  /\ catchup'.stage = catchup.stage /\ catchup'.at = catchup.at
               /\ catchup.at \in Sessions
    <2>1. catchup.page # {}
      BY <1>3 DEF CatchUpEvent
    <2>2. catchup.at \in Sessions
      BY <2>1, CatchUpFields DEF TypeOK
    <2>3. PICK n \in catchup.page : catchup' = [catchup EXCEPT !.page = @ \ {n}]
      BY <1>3 DEF CatchUpEvent
    <2> QED
      BY <1>0, <2>2, <2>3 DEF CatchUps
  <1>4. ASSUME CatchUpSessionDone
        PROVE  /\ catchup'.stage = catchup.stage
               /\ catchup'.at = NoSession
               /\ catchup.at \in Sessions
    BY <1>0, <1>4 DEF CatchUpSessionDone, CatchUps
  <1>5. ASSUME CatchUpDone PROVE catchup'.stage = "done" /\ catchup'.at = NoSession
    BY <1>0, <1>5 DEF CatchUpDone, CatchUps
  <1>6. \A s \in Sessions : CatchUpSession(s) =>
              catchup'.stage = "on" /\ catchup'.at = s /\ catchup'.page = Missed(s)
    BY DEF CatchUpSession
  <1> QED
    BY <1>1, <1>2, <1>3, <1>4, <1>5, <1>6

LEMMA HandStep == TypeOK /\ TasksRest /\ HandInv /\ [Next]_vars => HandInv'
  <1> SUFFICES ASSUME TypeOK, TasksRest, HandInv, [Next]_vars PROVE HandInv'
    OBVIOUS
  <1>0. /\ forwarding \in [Tasks -> Forwardings \cup {Idle}]
        /\ "mux" \in Tasks /\ "catchup" \in Tasks /\ "mux" # "catchup"
    BY DEF TypeOK, Tasks
  <1>1. ASSUME catchup'.at = NoSession PROVE forwarding'["catchup"] = Idle
    <2>1. CASE StopTasks \/ Exit
      BY <1>0, <2>1 DEF StopTasks, Exit
    <2>2. CASE StartHub
      BY <1>0, <2>2 DEF StartHub, TasksRest
    <2>3. CASE CatchUpSessionDone
      BY <2>3 DEF CatchUpSessionDone
    <2>4. CASE CatchUpDone
      BY <2>4 DEF CatchUpDone, HandInv
    <2>5. CASE CatchUpEvent
      BY <1>1, <2>5, CatchUpSteps, NotificationAssumption
    <2>6. ASSUME NEW s \in Sessions, CatchUpSession(s) PROVE FALSE
      BY <1>1, <2>6, CatchUpSteps, NotificationAssumption
    <2>7. CASE UNCHANGED catchup /\ ~StopTasks /\ ~Exit /\ ~CatchUpEvent
      <3>1. forwarding["catchup"] = Idle
        BY <1>1, <2>7 DEF HandInv
      <3>2. MuxFrame => forwarding'["catchup"] = forwarding["catchup"]
        BY <1>0 DEF MuxFrame, Forward
      <3>3. ASSUME NEW t \in Tasks, Forwarded(t) PROVE forwarding'["catchup"] = Idle
        BY <1>0, <3>1, <3>3 DEF Forwarded
      <3>4. ASSUME NEW t \in Tasks, NEW c \in Conversations, Offer(t, c)
            PROVE  forwarding'["catchup"] = forwarding["catchup"]
        <4>1. t # "catchup"
          BY <3>1, <3>4, Nothing DEF Offer
        <4> QED
          BY <1>0, <3>4, <4>1 DEF Offer
      <3> QED
        BY <2>7, <3>1, <3>2, <3>3, <3>4, WhatChangesTasks
    <2> QED
      BY <2>1, <2>2, <2>3, <2>4, <2>5, <2>6, <2>7, WhatChangesTasks
  <1>2. ASSUME catchup'.stage = "done" PROVE catchup'.at = NoSession
    BY <1>2, CatchUpSteps, WhatChangesTasks DEF HandInv
  <1> QED
    BY <1>1, <1>2 DEF HandInv

(* While catch-up has not begun, a step that leaves it so changes nothing  *)
(* it depends on.                                                          *)
LEMMA NothingBegins ==
  ASSUME TypeOK, TasksRest, NewWaits, [Next]_vars,
         phase = "running", phase' = "running", catchup.stage = "new", catchup'.stage = "new"
  PROVE  /\ UNCHANGED <<catchup, notified, forwarding, wire, online>>
  <1>0. /\ catchup.at = NoSession /\ online = FALSE /\ wire = <<>> /\ catchup.page = {}
        /\ \A t \in Tasks : forwarding[t] = Idle
    BY DEF NewWaits, TypeOK
  <1>1. ~StartHub /\ ~StopTasks /\ ~Exit
    BY WhatIsDue DEF StartHub
  <1>2. ~CatchUpEvent /\ ~CatchUpSessionDone /\ ~CatchUpDone
    BY <1>0, CatchUpSteps, NotificationAssumption
  <1>3. \A s \in Sessions : ~CatchUpSession(s)
    BY CatchUpSteps
  <1>4. \A t \in Tasks : ~Forwarded(t) /\ \A c \in Conversations : ~Offer(t, c)
    BY <1>0, Nothing DEF Forwarded, Offer
  <1>5. ~MuxConnects /\ ~MuxDrops /\ ~MuxFrame
    BY <1>0 DEF MuxConnects, MuxDrops, MuxFrame
  <1>6. catchup' = catchup /\ forwarding' = forwarding
    BY <1>1, <1>2, <1>3, <1>4, <1>5, WhatChangesTasks
  <1>7. notified' = notified
    BY <1>1, <1>2, <1>3, <1>4, WhatChangesMarks
  <1>8. online' = online /\ wire' = wire
    BY <1>0, <1>1, <1>2, <1>3, <1>4, <1>5
    DEF Next, Bind, StartServer, StopSaves, Emit, vars, host
  <1> QED
    BY <1>6, <1>7, <1>8

LEMMA NewWaitsStep == TypeOK /\ TasksRest /\ NewWaits /\ [Next]_vars => NewWaits'
  <1> SUFFICES ASSUME TypeOK, TasksRest, NewWaits, [Next]_vars,
                      phase' = "running", catchup'.stage = "new"
               PROVE  NewWaits'
    BY DEF NewWaits
  <1>1. CASE StartHub
    <2>1. catchup'.at = NoSession /\ UNCHANGED <<online, wire, forwarding>>
          /\ phase = "serving"
      BY <1>1, CatchUpSteps DEF StartHub, host
    <2> QED
      BY <2>1 DEF NewWaits, TasksRest
  <1>2. CASE ~StartHub
    <2>1. phase = "running" /\ ~StopTasks /\ ~Exit
      BY <1>2, WhatIsDue
    <2>2. catchup.stage = "new"
      BY <1>2, <2>1, CatchUpSteps, WhatChangesTasks
    <2> QED
      BY <2>1, <2>2, NothingBegins DEF NewWaits
  <1> QED
    BY <1>1, <1>2

LEMMA DueAheadStep ==
  TypeOK /\ TypeOK' /\ TasksRest /\ NewWaits /\ DueAhead /\ [Next]_vars => DueAhead'
  <1> SUFFICES ASSUME TypeOK, TypeOK', TasksRest, NewWaits, DueAhead, [Next]_vars,
                      phase' = "running", catchup'.stage = "new",
                      NEW c \in Conversations, NEW s \in Sessions, NEW n \in 1..MaxEvents,
                      <<c, s, n>> \in due'
               PROVE  /\ binding'[c] = s /\ notified'[s] # 0
                      /\ notified'[s] < n /\ n <= emitted'[s]
    BY DEF DueAhead
  <1>1. CASE StartHub
    <2>1. /\ binding'[c] = s /\ notified'[s] # 0
          /\ Bigger(before[s], notified'[s]) < n /\ n <= emitted[s]
      BY <1>1 DEF StartHub
    <2>2. before[s] \in Int /\ notified'[s] \in Int
      BY DEF TypeOK, Marks
    <2>3. notified'[s] < n
      BY <2>1, <2>2 DEF Bigger
    <2>4. emitted' = emitted
      BY <1>1 DEF StartHub, host
    <2> QED
      BY <2>1, <2>3, <2>4
  <1>2. CASE ~StartHub
    <2>1. /\ phase = "running" /\ ~StopTasks /\ ~Exit /\ <<c, s, n>> \in due
          /\ binding[c] = s => binding'[c] = s
      BY <1>2, WhatIsDue
    <2>2. catchup.stage = "new"
      BY <1>2, <2>1, CatchUpSteps, WhatChangesTasks
    <2>3. UNCHANGED <<catchup, notified>>
      BY <2>1, <2>2, NothingBegins
    <2>4. n <= emitted[s] /\ binding[c] = s /\ notified[s] # 0 /\ notified[s] < n
      BY <2>1, <2>2 DEF DueAhead
    <2>5. n <= emitted'[s]
      BY <2>4, EmittedGrows
    <2> QED
      BY <2>1, <2>3, <2>4, <2>5
  <1> QED
    BY <1>1, <1>2

LEMMA DueBoundStep ==
  TypeOK /\ IndexInv' /\ DueBound /\ [Next]_vars => DueBound'
  <1> SUFFICES ASSUME TypeOK, IndexInv', DueBound, [Next]_vars, phase' = "running",
                      NEW c \in Conversations, NEW s \in Sessions, NEW n \in 1..MaxEvents,
                      <<c, s, n>> \in due'
               PROVE  c \in index'[s] /\ <<s, n>> \notin Silent
    BY DEF DueBound
  <1>1. CASE StartHub
    BY <1>1 DEF StartHub, IndexInv
  <1>2. CASE ~StartHub
    <2>1. phase = "running" /\ ~Exit /\ <<c, s, n>> \in due
      BY <1>2, WhatIsDue
    <2>2. c \in index[s] /\ <<s, n>> \notin Silent
      BY <2>1 DEF DueBound
    <2> QED
      BY <2>1, <2>2, IndexGrows
  <1> QED
    BY <1>1, <1>2

(* The first step of catch-up takes what is due in hand, if there is one   *)
(* session, its history can be read and the window is not exceeded.        *)
LEMMA CatchUpTakesDue ==
  ASSUME \A r, s \in Sessions : r = s, MaxEvents <= Window,
         TypeOK, TasksRest, NewWaits, DueAhead, DueBound, [Next]_vars,
         phase = "running", phase' = "running", catchup.stage = "new", catchup'.stage # "new",
         NEW c \in Conversations, NEW s \in Sessions, NEW n \in 1..MaxEvents,
         <<c, s, n>> \in due, <<c, s, n>> \in due'
  PROVE  Underway(c, s, n)'
  <1>1. /\ s \in Todo /\ notified[s] # 0 /\ notified[s] < n /\ n <= emitted[s]
        /\ <<s, n>> \notin Silent
    BY DEF DueAhead, DueBound, Todo
  <1>2. n \in Missed(s)
    <2>1. emitted[s] \in 0..MaxEvents
      BY DEF TypeOK, Marks
    <2> QED
      BY <1>1, <2>1, NotificationAssumption DEF Missed
  <1>3. ASSUME NEW r \in Sessions, CatchUpSession(r) PROVE Underway(c, s, n)'
    BY <1>2, <1>3 DEF CatchUpSession, Underway
  <1>4. ~CatchUpDone
    <2> SUFFICES ASSUME CatchUpDone PROVE FALSE
      OBVIOUS
    <2>1. PassesOver(Todo)
      BY DEF CatchUpDone
    <2>2. PICK failed \in SUBSET {t \in Todo : notified[t] # 0} :
            /\ \A t \in {t \in Todo : notified[t] # 0} \ failed :
                 \A k \in Missed(t) : <<t, k>> \in Silent
            /\ due' = {d \in due : d[2] \notin failed}
      BY <2>1 DEF PassesOver
    <2>3. s \notin failed
      BY <2>2
    <2> QED
      BY <1>1, <1>2, <2>2, <2>3
  <1>5. ~StartHub /\ ~StopTasks /\ ~Exit
    BY WhatIsDue DEF StartHub
  <1>6. ~CatchUpEvent /\ ~CatchUpSessionDone
    BY CatchUpSteps, NotificationAssumption DEF NewWaits
  <1> QED
    BY <1>3, <1>4, <1>5, <1>6, WhatChangesTasks

LEMMA DueUnderwayStep ==
  ASSUME \A r, s \in Sessions : r = s, MaxEvents <= Window,
         TypeOK, TypeOK', TasksRest, BackfillInv, [Next]_vars
  PROVE  DueUnderway'
  <1> SUFFICES ASSUME phase' = "running", catchup'.stage # "new",
                      NEW c \in Conversations, NEW s \in Sessions, NEW n \in 1..MaxEvents,
                      <<c, s, n>> \in due'
               PROVE  Underway(c, s, n)'
    BY DEF DueUnderway
  <1> DEFINE f == forwarding["catchup"]
  <1>0. /\ forwarding \in [Tasks -> Forwardings \cup {Idle}]
        /\ "mux" \in Tasks /\ "catchup" \in Tasks /\ "mux" # "catchup"
        /\ catchup \in CatchUps /\ NoSession \notin Sessions
    BY NotificationAssumption DEF TypeOK, Tasks
  <1>1. phase = "running" /\ <<c, s, n>> \in due /\ ~StartHub /\ ~StopTasks /\ ~Exit
    BY CatchUpSteps, WhatIsDue
  <1>2. CASE catchup.stage = "new"
    BY <1>1, <1>2, CatchUpTakesDue DEF BackfillInv
  <1>3. CASE catchup.stage # "new" /\ <<s, n>> \in offered[c]
    BY <1>3, OfferedGrows DEF Underway
  <1>4. CASE catchup.stage # "new" /\ catchup.at = s /\ n \in catchup.page
    <2>1. CASE UNCHANGED catchup
      BY <1>4, <2>1 DEF Underway
    <2>2. CASE CatchUpEvent
      <3>1. PICK k \in catchup.page : /\ catchup' = [catchup EXCEPT !.page = @ \ {k}]
                                      /\ Forward("catchup", catchup.at, k)
        BY <2>2 DEF CatchUpEvent
      <3>2. CASE k # n
        BY <1>0, <1>4, <3>1, <3>2 DEF Underway, CatchUps
      <3>3. CASE k = n
        <4>1. c \in index[s] /\ <<s, n>> \notin Silent
          BY <1>1 DEF BackfillInv, DueBound
        <4>2. forwarding'["catchup"] = [s |-> s, n |-> n, left |-> index[s]]
          BY <1>0, <1>4, <3>1, <3>3, <4>1 DEF Forward
        <4> QED
          BY <4>1, <4>2, Nothing DEF Underway
      <3> QED
        BY <3>2, <3>3
    <2>3. ~CatchUpSessionDone /\ ~CatchUpDone /\ \A r \in Sessions : ~CatchUpSession(r)
      BY <1>0, <1>4 DEF CatchUpSessionDone, CatchUpDone, CatchUpSession
    <2> QED
      BY <1>1, <2>1, <2>2, <2>3, WhatChangesTasks
  <1>5. CASE f # Idle /\ f.s = s /\ f.n = n /\ c \in f.left
    <2>1. CASE forwarding'["catchup"] = f
      BY <1>5, <2>1 DEF Underway
    <2>2. CASE MuxFrame
      BY <1>0, <2>1, <2>2 DEF MuxFrame, Forward
    <2>3. ~CatchUpEvent
      BY <1>5 DEF CatchUpEvent
    <2>4. ASSUME NEW t \in Tasks, Forwarded(t) PROVE forwarding'["catchup"] = f
      <3>1. t # "catchup"
        BY <1>5, <2>4 DEF Forwarded
      <3> QED
        BY <1>0, <2>4, <3>1 DEF Forwarded
    <2>5. ASSUME NEW t \in Tasks, NEW d \in Conversations, Offer(t, d)
          PROVE  Underway(c, s, n)'
      <3>1. CASE t # "catchup"
        BY <1>0, <2>1, <2>5, <3>1 DEF Offer
      <3>2. CASE t = "catchup" /\ d = c
        BY <1>5, <2>5, <3>2 DEF Offer, TypeOK, Underway
      <3>3. CASE t = "catchup" /\ d # c
        <4>1. f \in Forwardings
          BY <1>0, <1>5
        <4>2. /\ forwarding'["catchup"].s = s /\ forwarding'["catchup"].n = n
              /\ forwarding'["catchup"].left = f.left \ {d}
          BY <1>0, <1>5, <2>5, <3>3, <4>1 DEF Offer, Forwardings
        <4>3. c \in forwarding'["catchup"].left
          BY <1>5, <3>3, <4>2
        <4> QED
          BY <4>2, <4>3, Nothing DEF Underway
      <3> QED
        BY <3>1, <3>2, <3>3
    <2> QED
      BY <1>1, <2>1, <2>2, <2>3, <2>4, <2>5, WhatChangesTasks
  <1> QED
    BY <1>1, <1>2, <1>3, <1>4, <1>5 DEF BackfillInv, DueUnderway, Underway

(* Catch-up backfills what was missed while the bridge was down, for a hub *)
(* with one session: once it is done, each such event was sent to the      *)
(* conversations bound all along, if its history could be read.  It holds  *)
(* if no more was missed than catch-up reads; torn files and early         *)
(* bindings do not matter.  With two sessions it fails (NotifyMissed).     *)
THEOREM OneSessionIsBackfilled ==
  ASSUME \A r, s \in Sessions : r = s, MaxEvents <= Window
  PROVE  Spec => []MissedAreBackfilled
  <1>1. Init => BackfillInv
    <2> SUFFICES ASSUME Init PROVE BackfillInv
      OBVIOUS
    <2>1. IndexInv
      BY NotificationAssumption DEF Init, IndexInv, Unbound
    <2>2. HandInv
      BY DEF Init, HandInv, Tasks
    <2> QED
      BY <2>1, <2>2 DEF Init, BackfillInv, NewWaits, DueAhead, DueUnderway, DueBound
  <1>2. NotificationInv /\ NotificationInv' /\ BackfillInv /\ [Next]_vars => BackfillInv'
    BY IndexStep, HandStep, NewWaitsStep, DueAheadStep, DueBoundStep, DueUnderwayStep
    DEF NotificationInv, BackfillInv
  <1>3. NotificationInv /\ BackfillInv => MissedAreBackfilled
    <2> SUFFICES ASSUME NotificationInv, BackfillInv, phase = "running",
                        catchup.stage = "done", NEW d \in due
                 PROVE  <<d[2], d[3]>> \in offered[d[1]]
      BY DEF MissedAreBackfilled
    <2>1. /\ d[1] \in Conversations /\ d[2] \in Sessions /\ d[3] \in 1..MaxEvents
          /\ d = <<d[1], d[2], d[3]>>
      BY DEF NotificationInv, TypeOK
    <2>2. Underway(d[1], d[2], d[3])
      BY <2>1 DEF BackfillInv, DueUnderway
    <2>3. catchup.at = NoSession /\ forwarding["catchup"] = Idle
      BY DEF BackfillInv, HandInv
    <2> QED
      BY <2>1, <2>2, <2>3, NotificationAssumption DEF Underway
  <1> QED
    BY <1>1, <1>2, <1>3, NotificationInvariant, PTL DEF Spec
=============================================================================
