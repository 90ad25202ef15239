--------------------------- MODULE BridgeHub_proofs ---------------------------
(* Theorems about BridgeHub, for every value of its constants.             *)
EXTENDS BridgeHub, SequenceTheorems, WellFoundedInduction, TLAPS

(* An entry added at the end of a sequence, or a shorter sequence, brings  *)
(* in no other element.                                                    *)
LEMMA AppendElements ==
  ASSUME NEW S, NEW s \in Seq(S), NEW e \in S
  PROVE  /\ Append(s, e) \in Seq(S)
         /\ \A i \in DOMAIN Append(s, e) :
              Append(s, e)[i] = e \/ \E j \in DOMAIN s : Append(s, e)[i] = s[j]
  OBVIOUS

LEMMA PrefixElements ==
  ASSUME NEW S, NEW s \in Seq(S), NEW n \in 0..Len(s)
  PROVE  /\ SubSeq(s, 1, n) \in Seq(S)
         /\ \A i \in DOMAIN SubSeq(s, 1, n) :
              \E j \in DOMAIN s : SubSeq(s, 1, n)[i] = s[j]
  OBVIOUS

LEMMA TailElements ==
  ASSUME NEW S, NEW s \in Seq(S), s # <<>>
  PROVE  /\ Tail(s) \in Seq(S)
         /\ Head(s) = s[1] /\ 1 \in DOMAIN s
         /\ \A i \in DOMAIN Tail(s) : \E j \in DOMAIN s : Tail(s)[i] = s[j]
  OBVIOUS

-----------------------------------------------------------------------------
(* The variables of the hub's own table keep their types. *)
LEMMA RegisterType ==
  ASSUME TypeOK, NEW r \in Requests, NEW k \in SUBSET Conversations, Register(r, k)
  PROVE  /\ pending' \in [Requests -> SUBSET Conversations]
         /\ older' \subseteq Requests \X Requests
  BY DEF TypeOK, Register, Pending

LEMMA DropType ==
  ASSUME TypeOK, NEW rs, Drop(rs)
  PROVE  /\ pending' \in [Requests -> SUBSET Conversations]
         /\ older' \subseteq Requests \X Requests
  BY DEF TypeOK, Drop

HostTypeOK ==
  /\ sessions \subseteq Sessions
  /\ host \in [Requests -> {"unasked", "open", "closed"}]
  /\ connected \in BOOLEAN
  /\ stream \in Seq(Frames)
  /\ replay \subseteq Requests
  /\ lost \subseteq Requests
  /\ drops \in 0..MaxDrops

LEMMA FramesType ==
  ASSUME NEW r \in Requests
  PROVE  Requested(r) \in Frames /\ Resolved(r) \in Frames
  BY DEF Requested, Resolved, Frames

LEMMA SettleType ==
  ASSUME TypeOK, NEW r \in Requests, Settle(r)
  PROVE  HostTypeOK'
  <1>1. stream' \in Seq(Frames)
    BY FramesType, AppendElements DEF TypeOK, Settle
  <1>2. QED
    BY <1>1 DEF TypeOK, Settle, HostTypeOK

LEMMA RespondType ==
  ASSUME TypeOK, NEW r \in Requests, Accepts(r) \/ Refuses(r) \/ Raises(r)
  PROVE  HostTypeOK'
  <1>1. CASE Settle(r)
    BY <1>1, SettleType
  <1>2. CASE UNCHANGED hostVars
    BY <1>2 DEF TypeOK, HostTypeOK, hostVars
  <1>3. QED
    BY <1>1, <1>2 DEF Accepts, Refuses, Raises

HubTypeOK ==
  /\ bindings \in [Conversations -> Sessions \cup {NoSession}]
  /\ bySession \in [Sessions -> SUBSET Conversations]
  /\ pending \in [Requests -> SUBSET Conversations]
  /\ older \subseteq Requests \X Requests

TaskTypeOK ==
  /\ replying \in BOOLEAN
  /\ toDrop \subseteq Requests
  /\ showing \subseteq Requests \X {"request", "notice"} \X Conversations

InboxType == [id : Messages, conv : Conversations, text : Words,
              arg : Sessions \cup {NoSession}]

ChatTypeOK ==
  /\ inbox \in Seq(InboxType)
  /\ fate \in [Messages -> Fates]
  /\ shown \in [Conversations -> SUBSET Requests]

(* TypeOK, part by part. *)
LEMMA TypeParts ==
  /\ TypeOK <=> /\ HubTypeOK /\ TaskTypeOK /\ HostTypeOK /\ ChatTypeOK
                /\ restarts \in 0..MaxRestarts
  /\ TypeOK' <=> /\ HubTypeOK' /\ TaskTypeOK' /\ HostTypeOK' /\ ChatTypeOK'
                 /\ restarts' \in 0..MaxRestarts
  BY DEF TypeOK, HubTypeOK, TaskTypeOK, HostTypeOK, ChatTypeOK, InboxType

LEMMA Unchanged ==
  ASSUME TypeOK
  PROVE  /\ UNCHANGED hubVars => HubTypeOK'
         /\ UNCHANGED taskVars => TaskTypeOK'
         /\ UNCHANGED hostVars => HostTypeOK'
         /\ UNCHANGED chatVars => ChatTypeOK'
  <1> USE TypeParts
  <1>1. UNCHANGED hubVars => HubTypeOK'    BY DEF HubTypeOK, hubVars
  <1>2. UNCHANGED taskVars => TaskTypeOK'  BY DEF TaskTypeOK, taskVars
  <1>3. UNCHANGED hostVars => HostTypeOK'  BY DEF HostTypeOK, hostVars
  <1>4. UNCHANGED chatVars => ChatTypeOK'  BY DEF ChatTypeOK, chatVars
  <1> QED BY <1>1, <1>2, <1>3, <1>4

LEMMA AddBindingType ==
  ASSUME TypeOK, NEW c \in Conversations, NEW s \in Sessions, AddBinding(c, s)
  PROVE  /\ bindings' \in [Conversations -> Sessions \cup {NoSession}]
         /\ bySession' \in [Sessions -> SUBSET Conversations]
  BY DEF TypeOK, AddBinding

LEMMA AutoBindType ==
  ASSUME TypeOK, NEW c \in Conversations, AutoBind(c)
  PROVE  HubTypeOK' /\ HostTypeOK'
  BY AddBindingType DEF AutoBind, HubTypeOK, HostTypeOK, TypeOK

LEMMA FirstPendingType ==
  ASSUME NEW c, NEW k
  PROVE  FirstPending(c, k) \subseteq Requests
  BY DEF FirstPending, Candidates

(* What the handlers of the inbound consumer have in common. *)
LEMMA TakenType ==
  ASSUME TypeOK, NEW msg, NEW f \in Fates, Taken(msg, f)
  PROVE  /\ msg \in InboxType
         /\ ChatTypeOK' /\ restarts' \in 0..MaxRestarts
         /\ showing' \subseteq Requests \X {"request", "notice"} \X Conversations
  <1>1. msg \in InboxType /\ inbox' \in Seq(InboxType)
    BY TypeParts, TailElements, ElementOfSeq DEF Taken, ChatTypeOK
  <1>2. QED
    BY <1>1, TypeParts DEF Taken, ChatTypeOK, TaskTypeOK

LEMMA ReplyType ==
  ASSUME NEW rs \in SUBSET Requests, ReplyThenDrop(rs),
         showing' \subseteq Requests \X {"request", "notice"} \X Conversations
  PROVE  TaskTypeOK'
  BY DEF ReplyThenDrop, TaskTypeOK

LEMMA JustReplyType ==
  ASSUME TypeOK, JustReply
  PROVE  HubTypeOK' /\ HostTypeOK' /\ ReplyThenDrop({})
  BY Unchanged DEF JustReply

LEMMA RespondFromChatType ==
  ASSUME TypeOK, NEW r \in Requests, RespondFromChat(r)
  PROVE  /\ HubTypeOK' /\ HostTypeOK'
         /\ \E rs \in SUBSET Requests : ReplyThenDrop(rs)
  <1>1. HubTypeOK'
    BY Unchanged DEF RespondFromChat
  <1>2. HostTypeOK'
    BY RespondType DEF RespondFromChat
  <1>3. \E rs \in SUBSET Requests : ReplyThenDrop(rs)
    BY DEF RespondFromChat
  <1> QED BY <1>1, <1>2, <1>3

(* Every handler of an inbound message has these effects. *)
LEMMA ConsumeType ==
  ASSUME TypeOK, NEW msg,
         \/ DirectQuestionAnswer(msg) \/ DirectApprovalAnswer(msg)
         \/ PromptBound(msg) \/ PromptUnbound(msg)
         \/ CmdCancelQuestion(msg) \/ CmdApproval(msg)
         \/ CmdNew(msg) \/ CmdAttach(msg) \/ CmdOther(msg)
  PROVE  TypeOK'
  <1>a. ASSUME NEW f \in Fates, Taken(msg, f), JustReply
        PROVE  TypeOK'
    BY <1>a, TakenType, JustReplyType, ReplyType, TypeParts
  <1>b. ASSUME NEW f \in Fates, NEW r \in Requests, Taken(msg, f), RespondFromChat(r)
        PROVE  TypeOK'
    BY <1>b, TakenType, RespondFromChatType, ReplyType, TypeParts
  <1>c. ASSUME NEW f \in Fates, Taken(msg, f), AutoBind(msg.conv), ReplyThenDrop({})
        PROVE  TypeOK'
    <2>1. msg.conv \in Conversations
      BY <1>c, TakenType DEF InboxType
    <2>2. QED
      BY <1>c, <2>1, TakenType, AutoBindType, ReplyType, TypeParts
  <1>p. "prompt" \in Fates /\ "answer" \in Fates /\ "done" \in Fates
    BY DEF Fates
  <1>1. CASE DirectQuestionAnswer(msg)
    BY <1>1, <1>a, <1>b, <1>p, FirstPendingType DEF DirectQuestionAnswer, Questions
  <1>2. CASE DirectApprovalAnswer(msg)
    BY <1>2, <1>a, <1>b, <1>p, FirstPendingType DEF DirectApprovalAnswer, Approvals
  <1>3. CASE PromptBound(msg)
    <2>1. CASE Taken(msg, "prompt") /\ UNCHANGED <<replying, toDrop, hubVars, hostVars>>
      <3>1. TaskTypeOK'
        BY <2>1, <1>p, TakenType, TypeParts DEF TaskTypeOK
      <3> QED BY <3>1, <2>1, <1>p, TakenType, Unchanged, TypeParts
    <2> QED BY <1>3, <2>1, <1>a, <1>p DEF PromptBound
  <1>4. CASE PromptUnbound(msg)
    BY <1>4, <1>a, <1>c, <1>p DEF PromptUnbound
  <1>5. CASE CmdCancelQuestion(msg)
    BY <1>5, <1>a, <1>b, <1>p, FirstPendingType DEF CmdCancelQuestion, Questions
  <1>6. CASE CmdApproval(msg)
    BY <1>6, <1>a, <1>b, <1>p, FirstPendingType DEF CmdApproval, Approvals
  <1>7. CASE CmdNew(msg)
    BY <1>7, <1>a, <1>c, <1>p DEF CmdNew
  <1>8. CASE CmdAttach(msg)
    <2>1. CASE /\ msg.arg \in sessions
               /\ AddBinding(msg.conv, msg.arg)
               /\ ReplyThenDrop({})
               /\ UNCHANGED <<pending, older, hostVars>>
      <3>1. Taken(msg, "done")
        BY <1>8 DEF CmdAttach
      <3>2. msg.conv \in Conversations /\ msg.arg \in Sessions
        BY <2>1, <3>1, <1>p, TakenType DEF InboxType, TypeOK
      <3>3. HubTypeOK'
        BY <2>1, <3>2, AddBindingType, TypeParts DEF HubTypeOK
      <3> QED BY <2>1, <3>1, <3>3, <1>p, TakenType, ReplyType, Unchanged, TypeParts
    <2> QED BY <1>8, <2>1, <1>a, <1>p DEF CmdAttach
  <1>9. CASE CmdOther(msg)
    BY <1>9, <1>a, <1>p DEF CmdOther
  <1> QED BY <1>1, <1>2, <1>3, <1>4, <1>5, <1>6, <1>7, <1>8, <1>9

(* A step of the API, a task of the hub or the host keeps the types. *)
LEMMA RespondFromApiType ==
  ASSUME TypeOK, NEW r \in Requests, RespondFromApi(r)
  PROVE  TypeOK'
  <1>1. HostTypeOK'
    BY RespondType DEF RespondFromApi
  <1>2. HubTypeOK'
    BY DropType, TypeParts DEF RespondFromApi, HubTypeOK
  <1> QED
    BY <1>1, <1>2, Unchanged, TypeParts DEF RespondFromApi

LEMMA TypeStep ==
  ASSUME TypeOK, [Next]_vars
  PROVE  TypeOK'
  <1> USE HubAssumption
  <1>1. ASSUME NEW s \in Sessions, HostCreatesSession(s)
        PROVE  TypeOK'
    <2>1. HostTypeOK'
      BY <1>1, TypeParts DEF HostCreatesSession, HostTypeOK
    <2> QED
      BY <1>1, <2>1, Unchanged, TypeParts DEF HostCreatesSession
  <1>2. ASSUME NEW r \in Requests, HostAsks(r)
        PROVE  TypeOK'
    <2>1. stream' \in Seq(Frames)
      BY <1>2, FramesType, AppendElements, TypeParts DEF HostAsks, HostTypeOK
    <2>2. HostTypeOK'
      BY <1>2, <2>1, TypeParts DEF HostAsks, HostTypeOK
    <2> QED
      BY <1>2, <2>2, Unchanged, TypeParts DEF HostAsks
  <1>3. ASSUME NEW r \in Requests, HostCloses(r)
        PROVE  TypeOK'
    BY <1>3, RespondType, Unchanged, TypeParts DEF HostCloses
  <1>4. ASSUME NEW r \in Requests, HostReplays(r)
        PROVE  TypeOK'
    <2>1. stream' \in Seq(Frames)
      BY <1>4, FramesType, AppendElements, TypeParts DEF HostReplays, HostTypeOK
    <2>2. HostTypeOK'
      BY <1>4, <2>1, TypeParts DEF HostReplays, HostTypeOK
    <2> QED
      BY <1>4, <2>2, Unchanged, TypeParts DEF HostReplays
  <1>5. ASSUME MuxDrops PROVE TypeOK'
    <2>1. stream' \in Seq(Frames) /\ lost' \subseteq Requests
      BY <1>5, PrefixElements, TypeParts DEF MuxDrops, HostTypeOK
    <2>2. drops' \in 0..MaxDrops
      BY <1>5, TypeParts DEF MuxDrops, HostTypeOK
    <2>3. HostTypeOK'
      BY <1>5, <2>1, <2>2, TypeParts DEF MuxDrops, HostTypeOK
    <2> QED
      BY <1>5, <2>3, Unchanged, TypeParts DEF MuxDrops
  <1>6. ASSUME MuxConnects PROVE TypeOK'
    <2>1. HostTypeOK'
      BY <1>6, TypeParts DEF MuxConnects, HostTypeOK
    <2> QED
      BY <1>6, <2>1, Unchanged, TypeParts DEF MuxConnects
  <1>7. ASSUME NEW r \in Requests, MuxRequested(r)
        PROVE  TypeOK'
    <2>1. stream' \in Seq(Frames)
      BY <1>7, TailElements, TypeParts DEF MuxRequested, HostTypeOK
    <2>2. HostTypeOK'
      BY <1>7, <2>1, TypeParts DEF MuxRequested, HostTypeOK
    <2>3. bySession[SessionOf[r]] \in SUBSET Conversations
      BY TypeParts DEF HubTypeOK
    <2>4. HubTypeOK'
      BY <1>7, <2>3, RegisterType, TypeParts DEF MuxRequested, HubTypeOK
    <2>5. TaskTypeOK'
      BY <1>7, <2>3, TypeParts DEF MuxRequested, TaskTypeOK
    <2> QED
      BY <1>7, <2>2, <2>4, <2>5, Unchanged, TypeParts DEF MuxRequested
  <1>8. ASSUME NEW r \in Requests, MuxResolved(r)
        PROVE  TypeOK'
    <2>1. stream' \in Seq(Frames)
      BY <1>8, TailElements, TypeParts DEF MuxResolved, HostTypeOK
    <2>2. HostTypeOK'
      BY <1>8, <2>1, TypeParts DEF MuxResolved, HostTypeOK
    <2>3. HubTypeOK'
      BY <1>8, DropType, TypeParts DEF MuxResolved, HubTypeOK
    <2>4. TaskTypeOK'
      BY <1>8, TypeParts DEF MuxResolved, TaskTypeOK, HubTypeOK
    <2> QED
      BY <1>8, <2>2, <2>3, <2>4, Unchanged, TypeParts DEF MuxResolved
  <1>9. ASSUME NEW r \in Requests, NEW c \in Conversations, MuxSent(r, c)
        PROVE  TypeOK'
    <2>1. TaskTypeOK' /\ ChatTypeOK'
      BY <1>9, TypeParts DEF MuxSent, TaskTypeOK, ChatTypeOK
    <2> QED
      BY <1>9, <2>1, Unchanged, TypeParts DEF MuxSent
  <1>10. ASSUME NEW c \in Conversations, ApiAnswer(c) \/ ApiApproval(c)
         PROVE  TypeOK'
    BY <1>10, RespondFromApiType, FirstPendingType
       DEF ApiAnswer, ApiApproval, Questions, Approvals
  <1>11. ASSUME NEW c \in Conversations, NEW s \in Sessions, ApiBind(c, s)
         PROVE  TypeOK'
    <2>1. HubTypeOK'
      BY <1>11, AddBindingType, TypeParts DEF ApiBind, HubTypeOK
    <2> QED
      BY <1>11, <2>1, Unchanged, TypeParts DEF ApiBind
  <1>12. ASSUME NEW c \in Conversations, NEW u \in Texts, UserSends(c, u)
         PROVE  TypeOK'
    <2>1. PICK m \in Messages :
            /\ inbox' = Append(inbox, [id |-> m, conv |-> c, text |-> u.text, arg |-> u.arg])
            /\ fate' = [fate EXCEPT ![m] = "queued"]
      BY <1>12 DEF UserSends
    <2>u. u.text \in Words /\ u.arg \in Sessions \cup {NoSession}
      <3>1. u \in Utterances
        OBVIOUS
      <3>2. CASE u \in [text : Plain \cup Commands, arg : {NoSession}]
        BY <3>2 DEF Words
      <3>3. CASE u \in [text : {"/attach"}, arg : Sessions]
        BY <3>3 DEF Words
      <3> QED
        BY <3>1, <3>2, <3>3 DEF Utterances
    <2>2. [id |-> m, conv |-> c, text |-> u.text, arg |-> u.arg] \in InboxType
      BY <2>u DEF InboxType
    <2>3. inbox' \in Seq(InboxType)
      BY <2>1, <2>2, AppendElements, TypeParts DEF ChatTypeOK
    <2>4. ChatTypeOK'
      BY <1>12, <2>1, <2>3, TypeParts DEF UserSends, ChatTypeOK, Fates
    <2> QED
      BY <1>12, <2>4, Unchanged, TypeParts DEF UserSends
  <1>13. ASSUME Consume PROVE TypeOK'
    BY <1>13, ConsumeType DEF Consume
  <1>14. ASSUME ConsumerSent PROVE TypeOK'
    <2>1. HubTypeOK' /\ TaskTypeOK'
      BY <1>14, DropType, TypeParts DEF ConsumerSent, HubTypeOK, TaskTypeOK
    <2> QED
      BY <1>14, <2>1, Unchanged, TypeParts DEF ConsumerSent
  <1>15. ASSUME Restart PROVE TypeOK'
    <2>1. HubTypeOK' /\ TaskTypeOK'
      BY <1>15, TypeParts DEF Restart, LoadState, HubTypeOK, TaskTypeOK, NotShowing
    <2>2. HostTypeOK'
      BY <1>15, EmptySeq, TypeParts DEF Restart, LoadState, HostTypeOK
    <2>3. ChatTypeOK' /\ restarts' \in 0..MaxRestarts
      BY <1>15, TypeParts DEF Restart, LoadState, ChatTypeOK, Fates
    <2> QED
      BY <2>1, <2>2, <2>3, TypeParts
  <1>16. CASE UNCHANGED vars
    BY <1>16, Unchanged, TypeParts DEF vars
  <1> QED
    BY <1>1, <1>2, <1>3, <1>4, <1>5, <1>6, <1>7, <1>8, <1>9, <1>10, <1>11,
       <1>12, <1>13, <1>14, <1>15, <1>16 DEF Next, Host, Mux, Api

(* Every variable of the hub keeps to its type, for any sets of sessions,  *)
(* conversations and requests and any number of messages and restarts.     *)
THEOREM TypeCorrect == Spec => []TypeOK
  <1>1. Init => TypeOK
    <2> SUFFICES ASSUME Init PROVE TypeOK
      OBVIOUS
    <2>1. HubTypeOK /\ TaskTypeOK
      BY DEF Init, HubTypeOK, TaskTypeOK, NotShowing
    <2>s. stream \in Seq(Frames) /\ drops \in 0..MaxDrops
      BY HubAssumption DEF Init
    <2>2. HostTypeOK
      BY <2>s DEF Init, HostTypeOK
    <2>3. ChatTypeOK /\ restarts \in 0..MaxRestarts
      BY HubAssumption, EmptySeq DEF Init, ChatTypeOK, Fates
    <2> QED
      BY <2>1, <2>2, <2>3, TypeParts
  <1>2. TypeOK /\ [Next]_vars => TypeOK'
    BY TypeStep
  <1> QED
    BY <1>1, <1>2, PTL DEF Spec

-----------------------------------------------------------------------------
(* A conversation is in the index of the session it is bound to: bindings  *)
(* and index change together, and the index only grows between restarts.   *)
LEMMA AddBindingCovers ==
  ASSUME TypeOK, IndexCoversBindings,
         NEW c \in Conversations, NEW s \in Sessions, AddBinding(c, s)
  PROVE  IndexCoversBindings'
  BY HubAssumption DEF AddBinding, IndexCoversBindings, TypeOK

LEMMA AutoBindCovers ==
  ASSUME TypeOK, IndexCoversBindings, NEW c \in Conversations, AutoBind(c)
  PROVE  IndexCoversBindings'
  BY AddBindingCovers DEF AutoBind

LEMMA SameBindings ==
  ASSUME IndexCoversBindings, UNCHANGED <<bindings, bySession>>
  PROVE  IndexCoversBindings'
  BY DEF IndexCoversBindings

LEMMA TakenConv ==
  ASSUME TypeOK, NEW msg, NEW f, Taken(msg, f)
  PROVE  msg \in InboxType
  BY TypeParts, TailElements, ElementOfSeq DEF Taken, ChatTypeOK

LEMMA IndexStep ==
  ASSUME TypeOK, IndexCoversBindings, [Next]_vars
  PROVE  IndexCoversBindings'
  <1>1. CASE Host \/ MuxDrops \/ MuxConnects \/ UNCHANGED vars
    BY <1>1, SameBindings
       DEF Host, HostCreatesSession, HostAsks, HostCloses, HostReplays, MuxDrops,
           MuxConnects, vars, hubVars
  <1>2. ASSUME NEW r \in Requests, MuxRequested(r) \/ MuxResolved(r)
        PROVE  IndexCoversBindings'
    BY <1>2, SameBindings DEF MuxRequested, MuxResolved
  <1>3. ASSUME NEW r \in Requests, NEW c \in Conversations, MuxSent(r, c)
        PROVE  IndexCoversBindings'
    BY <1>3, SameBindings DEF MuxSent, hubVars
  <1>4. ASSUME NEW c \in Conversations, ApiAnswer(c) \/ ApiApproval(c)
        PROVE  IndexCoversBindings'
    BY <1>4, SameBindings DEF ApiAnswer, ApiApproval, RespondFromApi
  <1>5. ASSUME NEW c \in Conversations, NEW s \in Sessions, ApiBind(c, s)
        PROVE  IndexCoversBindings'
    BY <1>5, AddBindingCovers DEF ApiBind
  <1>6. ASSUME NEW c \in Conversations, NEW u \in Texts, UserSends(c, u)
        PROVE  IndexCoversBindings'
    BY <1>6, SameBindings DEF UserSends, hubVars
  <1>7. ASSUME Consume PROVE IndexCoversBindings'
    <2>1. PICK msg :
            \/ DirectQuestionAnswer(msg) \/ DirectApprovalAnswer(msg)
            \/ PromptBound(msg) \/ PromptUnbound(msg)
            \/ CmdCancelQuestion(msg) \/ CmdApproval(msg)
            \/ CmdNew(msg) \/ CmdAttach(msg) \/ CmdOther(msg)
      BY <1>7 DEF Consume
    <2>2. msg.conv \in Conversations
      BY <2>1, TakenConv
         DEF DirectQuestionAnswer, DirectApprovalAnswer, PromptBound, PromptUnbound,
             CmdCancelQuestion, CmdApproval, CmdNew, CmdAttach, CmdOther, InboxType
    <2>3. CASE UNCHANGED hubVars
      BY <2>3, SameBindings DEF hubVars
    <2>4. CASE AutoBind(msg.conv)
      BY <2>2, <2>4, AutoBindCovers
    <2>5. CASE msg.arg \in sessions /\ AddBinding(msg.conv, msg.arg)
      BY <2>2, <2>5, AddBindingCovers DEF TypeOK
    <2> QED
      BY <2>1, <2>3, <2>4, <2>5
         DEF DirectQuestionAnswer, DirectApprovalAnswer, PromptBound, PromptUnbound,
             CmdCancelQuestion, CmdApproval, CmdNew, CmdAttach, CmdOther,
             JustReply, RespondFromChat, hubVars
  <1>8. ASSUME ConsumerSent PROVE IndexCoversBindings'
    BY <1>8, SameBindings DEF ConsumerSent
  <1>9. ASSUME Restart PROVE IndexCoversBindings'
    BY <1>9, HubAssumption DEF Restart, LoadState, IndexCoversBindings, TypeOK
  <1> QED
    BY <1>1, <1>2, <1>3, <1>4, <1>5, <1>6, <1>7, <1>8, <1>9 DEF Next, Mux, Api

(* Restarts included, a conversation is always in the index of the session *)
(* it is bound to.                                                         *)
THEOREM IndexCorrect == Spec => []IndexCoversBindings
  <1>1. Init => IndexCoversBindings
    BY DEF Init, IndexCoversBindings
  <1>2. TypeOK /\ IndexCoversBindings /\ [Next]_vars => IndexCoversBindings'
    BY IndexStep
  <1> QED
    BY <1>1, <1>2, TypeCorrect, PTL DEF Spec

-----------------------------------------------------------------------------
(* Between restarts, what a conversation was shown stays answerable.       *)

(* A request goes from unasked to open to closed. *)
HostAdvances ==
  \A r \in Requests :
    \/ host'[r] = host[r]
    \/ host[r] = "open" /\ host'[r] = "closed"

LEMMA FrameRequest ==
  ASSUME TypeOK, NEW j \in DOMAIN stream
  PROVE  stream[j].rpc \in Requests
  <1>1. stream[j] \in Frames
    BY ElementOfSeq DEF TypeOK
  <1> QED
    BY <1>1 DEF Frames

LEMMA SettleAdvances ==
  ASSUME TypeOK, FramesAreRaised, NEW r \in Requests, Accepts(r)
  PROVE  HostAdvances /\ FramesAreRaised' /\ host'[r] = "closed"
  <1>1. /\ host' = [host EXCEPT ![r] = "closed"] /\ host[r] = "open"
        /\ replay' = replay
        /\ stream' = Append(stream, Resolved(r)) \/ stream' = stream
    BY DEF Accepts, Settle
  <1>2. HostAdvances /\ host'[r] = "closed"
    BY <1>1 DEF HostAdvances, TypeOK
  <1>3. \A q \in replay' : Raised(q)'
    BY <1>1, <1>2 DEF FramesAreRaised, Raised, TypeOK
  <1>4. ASSUME NEW i \in DOMAIN stream'
        PROVE  /\ Raised(stream[i].rpc)'
               /\ stream'[i].what = "resolved" => host'[stream'[i].rpc] = "closed"
    <2>1. CASE stream'[i] = Resolved(r)
      BY <2>1, <1>2 DEF Resolved, Raised
    <2>2. CASE \E j \in DOMAIN stream : stream'[i] = stream[j]
      <3>1. PICK j \in DOMAIN stream : stream'[i] = stream[j]
        BY <2>2
      <3>2. stream[j].rpc \in Requests
        BY <3>1, FrameRequest
      <3> QED
        BY <3>1, <3>2, <1>2 DEF FramesAreRaised, Raised, HostAdvances
    <2>3. CASE stream' = stream
      BY <2>2, <2>3
    <2>4. CASE stream' = Append(stream, Resolved(r))
      <3>1. stream \in Seq(Frames) /\ Resolved(r) \in Frames
        BY FramesType DEF TypeOK
      <3> QED
        BY <2>1, <2>2, <2>4, <3>1, AppendElements
    <2> QED
      BY <2>3, <2>4, <1>1
  <1> QED
    BY <1>2, <1>3, <1>4 DEF FramesAreRaised

LEMMA RespondAdvances ==
  ASSUME TypeOK, FramesAreRaised, NEW r \in Requests,
         Accepts(r) \/ Refuses(r) \/ Raises(r)
  PROVE  HostAdvances /\ FramesAreRaised'
  <1>1. CASE UNCHANGED hostVars
    BY <1>1 DEF hostVars, HostAdvances, FramesAreRaised, Raised
  <1> QED
    BY <1>1, SettleAdvances DEF Refuses, Raises

(* The parts of the invariant that a step can only break by dropping an    *)
(* entry, by shrinking the index or by showing something new.              *)
LEMMA RestOfInv ==
  ASSUME TypeOK, HubInv, HostAdvances, UNCHANGED <<pending, showing, shown>>,
         \A s \in Sessions : bySession[s] \subseteq bySession'[s]
  PROVE  PendingIsIndexed' /\ ShowingIsPending'
  <1>1. SessionOf \in [Requests -> Sessions]
    BY HubAssumption
  <1>2. PendingIsIndexed'
    BY <1>1 DEF HubInv, PendingIsIndexed, HostAdvances, Raised, TypeOK
  <1>3. ShowingIsPending'
    BY DEF HubInv, ShowingIsPending, HostAdvances, Raised, TypeOK
  <1> QED BY <1>2, <1>3

(* A step that leaves the host and the mux reader's sends alone. *)
LEMMA QuietStep ==
  ASSUME TypeOK, HubInv, UNCHANGED <<host, stream, replay, pending, showing, shown>>,
         \A r \in toDrop' : host[r] = "closed",
         \A s \in Sessions : bySession[s] \subseteq bySession'[s]
  PROVE  HubInv'
  <1>1. HostAdvances
    BY DEF HostAdvances
  <1>2. FramesAreRaised'
    BY DEF HubInv, FramesAreRaised, Raised
  <1> QED
    BY <1>1, <1>2, RestOfInv DEF HubInv

LEMMA GrowingIndex ==
  ASSUME TypeOK, NEW c, NEW s, AddBinding(c, s)
  PROVE  \A t \in Sessions : bySession[t] \subseteq bySession'[t]
  BY DEF AddBinding, TypeOK

(* The host raises a request for the first time: nothing the hub holds     *)
(* mentions it yet.                                                        *)
LEMMA HostAsksInv ==
  ASSUME TypeOK, HubInv, NEW r \in Requests, HostAsks(r)
  PROVE  HubInv'
  <1>1. /\ host[r] = "unasked" /\ host' = [host EXCEPT ![r] = "open"]
        /\ stream' = Append(stream, Requested(r)) \/ stream' = stream
        /\ UNCHANGED <<replay, bySession, pending, toDrop, showing, shown>>
    BY DEF HostAsks, hubVars, taskVars, chatVars
  <1>2. \A q \in Requests : Raised(q) => host'[q] = host[q] /\ Raised(q)'
    BY <1>1 DEF Raised, TypeOK
  <1>3. Raised(r)'
    BY <1>1 DEF Raised, TypeOK
  <1>4. ASSUME NEW i \in DOMAIN stream'
        PROVE  /\ Raised(stream[i].rpc)'
               /\ stream'[i].what = "resolved" => host'[stream'[i].rpc] = "closed"
    <2>1. CASE stream'[i] = Requested(r)
      BY <2>1, <1>3 DEF Requested, Raised
    <2>2. CASE \E j \in DOMAIN stream : stream'[i] = stream[j]
      <3>1. PICK j \in DOMAIN stream : stream'[i] = stream[j]
        BY <2>2
      <3>2. stream[j].rpc \in Requests
        BY <3>1, FrameRequest
      <3> QED
        BY <3>1, <3>2, <1>2 DEF HubInv, FramesAreRaised, Raised
    <2>3. CASE stream' = stream
      BY <2>2, <2>3
    <2>4. CASE stream' = Append(stream, Requested(r))
      <3>1. stream \in Seq(Frames) /\ Requested(r) \in Frames
        BY FramesType DEF TypeOK
      <3> QED
        BY <2>1, <2>2, <2>4, <3>1, AppendElements
    <2> QED
      BY <2>3, <2>4, <1>1
  <1>5. FramesAreRaised'
    BY <1>1, <1>2, <1>4 DEF HubInv, FramesAreRaised, TypeOK
  <1>6. \A q \in toDrop' : host'[q] = "closed"
    BY <1>1, <1>2 DEF HubInv, Raised, TypeOK
  <1>7. PendingIsIndexed' /\ ShowingIsPending'
    BY <1>1, <1>2 DEF HubInv, PendingIsIndexed, ShowingIsPending, Raised
  <1> QED
    BY <1>5, <1>6, <1>7 DEF HubInv

(* A frame whose elements all were in the stream before. *)
LEMMA FewerFrames ==
  ASSUME TypeOK, HubInv, UNCHANGED host, replay' \subseteq replay,
         \A i \in DOMAIN stream' : \E j \in DOMAIN stream : stream'[i] = stream[j]
  PROVE  FramesAreRaised'
  BY DEF HubInv, FramesAreRaised, Raised

LEMMA MuxRequestedInv ==
  ASSUME TypeOK, HubInv, NEW r \in Requests, MuxRequested(r)
  PROVE  HubInv'
  <1> DEFINE keys == bySession[SessionOf[r]]
  <1>1. stream \in Seq(Frames) /\ stream # <<>>
    BY DEF MuxRequested, TypeOK
  <1>2. FramesAreRaised'
    BY <1>1, TailElements, FewerFrames DEF MuxRequested
  <1>3. Raised(r)
    <2>1. stream[1] = Requested(r) /\ 1 \in DOMAIN stream
      BY <1>1, TailElements DEF MuxRequested
    <2> QED
      BY <2>1 DEF HubInv, FramesAreRaised, Requested
  <1>4. CASE keys = {}
    BY <1>4, <1>2 DEF MuxRequested, HubInv, PendingIsIndexed, ShowingIsPending, Raised,
                      chatVars
  <1>5. CASE keys # {}
    <2>1. /\ pending' = [pending EXCEPT ![r] = keys]
          /\ showing' = {<<r, "request", c>> : c \in keys}
          /\ UNCHANGED <<host, shown, bySession, toDrop>>
      BY <1>5 DEF MuxRequested, Register, chatVars
    <2>2. \A q \in Requests : pending[q] \subseteq pending'[q]
      BY <2>1 DEF HubInv, PendingIsIndexed, TypeOK
    <2>3. PendingIsIndexed'
      BY <2>1, <1>3 DEF HubInv, PendingIsIndexed, Raised, TypeOK
    <2>4. ASSUME NEW q \in Requests, NEW c \in Conversations,
                 <<q, "request", c>> \in showing' \/ q \in shown'[c]
          PROVE  Raised(q)' /\ (host'[q] = "open" => c \in pending'[q])
      <3>1. CASE <<q, "request", c>> \in showing'
        <4>1. q = r /\ c \in keys
          BY <3>1, <2>1
        <4> QED
          BY <4>1, <2>1, <1>3 DEF Raised, TypeOK
      <3>2. CASE q \in shown'[c]
        BY <3>2, <2>1, <2>2 DEF HubInv, ShowingIsPending, Raised
      <3> QED
        BY <2>4, <3>1, <3>2
    <2>5. ShowingIsPending'
      BY <2>4 DEF ShowingIsPending, Raised
    <2> QED
      BY <1>2, <2>1, <2>3, <2>5 DEF HubInv
  <1> QED
    BY <1>4, <1>5

LEMMA DropInv ==
  ASSUME TypeOK, HubInv, NEW rs \in SUBSET Requests, Drop(rs),
         \A r \in rs : host'[r] = "closed",
         HostAdvances, UNCHANGED <<bySession, shown>>,
         \A r \in Requests, c \in Conversations :
           <<r, "request", c>> \in showing' => <<r, "request", c>> \in showing
  PROVE  PendingIsIndexed' /\ ShowingIsPending'
  <1>1. \A r \in Requests :
          pending'[r] = IF r \in rs THEN {} ELSE pending[r]
    BY DEF Drop
  <1>2. PendingIsIndexed'
    BY <1>1 DEF HubInv, PendingIsIndexed, HostAdvances, Raised
  <1>3. ShowingIsPending'
    BY <1>1 DEF HubInv, ShowingIsPending, HostAdvances, Raised
  <1> QED BY <1>2, <1>3

LEMMA MuxResolvedInv ==
  ASSUME TypeOK, HubInv, NEW r \in Requests, MuxResolved(r)
  PROVE  HubInv'
  <1>1. stream \in Seq(Frames) /\ stream # <<>>
    BY DEF MuxResolved, TypeOK
  <1>2. FramesAreRaised'
    BY <1>1, TailElements, FewerFrames DEF MuxResolved
  <1>3. host[r] = "closed"
    <2>1. stream[1] = Resolved(r) /\ 1 \in DOMAIN stream
      BY <1>1, TailElements DEF MuxResolved
    <2> QED
      BY <2>1 DEF HubInv, FramesAreRaised, Resolved
  <1>4. \A q \in Requests, c \in Conversations : <<q, "request", c>> \notin showing'
    BY DEF MuxResolved
  <1>5. PendingIsIndexed' /\ ShowingIsPending'
    BY <1>3, <1>4, DropInv DEF MuxResolved, HostAdvances, chatVars
  <1> QED
    BY <1>2, <1>5 DEF HubInv, MuxResolved

LEMMA ChatResponseInv ==
  ASSUME TypeOK, HubInv, NEW r \in Requests, RespondFromChat(r),
         UNCHANGED <<showing, shown>>
  PROVE  HubInv'
  <1>1. UNCHANGED <<pending, bySession>>
    BY DEF RespondFromChat, hubVars
  <1>2. HostAdvances /\ FramesAreRaised'
    BY RespondAdvances DEF RespondFromChat, HubInv
  <1>3. \A q \in toDrop' : host'[q] = "closed"
    BY SettleAdvances DEF RespondFromChat, ReplyThenDrop, HubInv
  <1> QED
    BY <1>1, <1>2, <1>3, RestOfInv DEF HubInv

LEMMA ConsumeInv ==
  ASSUME TypeOK, HubInv, Consume
  PROVE  HubInv'
  <1>1. PICK msg :
          \/ DirectQuestionAnswer(msg) \/ DirectApprovalAnswer(msg)
          \/ PromptBound(msg) \/ PromptUnbound(msg)
          \/ CmdCancelQuestion(msg) \/ CmdApproval(msg)
          \/ CmdNew(msg) \/ CmdAttach(msg) \/ CmdOther(msg)
    BY DEF Consume
  <1>2. \E f : Taken(msg, f)
    BY <1>1 DEF DirectQuestionAnswer, DirectApprovalAnswer, PromptBound, PromptUnbound,
                CmdCancelQuestion, CmdApproval, CmdNew, CmdAttach, CmdOther
  <1>3. UNCHANGED <<showing, shown>>
    BY <1>2 DEF Taken
  <1>4. ASSUME NEW r \in Requests, RespondFromChat(r) PROVE HubInv'
    BY <1>3, <1>4, ChatResponseInv
  <1>5. ASSUME JustReply PROVE HubInv'
    BY <1>3, <1>5, QuietStep DEF JustReply, ReplyThenDrop, hubVars, hostVars
  <1>6. ASSUME AutoBind(msg.conv), ReplyThenDrop({}) PROVE HubInv'
    BY <1>3, <1>6, QuietStep, GrowingIndex DEF AutoBind, ReplyThenDrop
  <1>7. CASE DirectQuestionAnswer(msg) \/ CmdCancelQuestion(msg)
    BY <1>7, <1>4, <1>5, FirstPendingType
       DEF DirectQuestionAnswer, CmdCancelQuestion, Questions
  <1>8. CASE DirectApprovalAnswer(msg) \/ CmdApproval(msg)
    BY <1>8, <1>4, <1>5, FirstPendingType
       DEF DirectApprovalAnswer, CmdApproval, Approvals
  <1>9. CASE PromptBound(msg)
    <2>1. CASE UNCHANGED <<replying, toDrop, hubVars, hostVars>>
      BY <2>1, <1>3, QuietStep DEF HubInv, hubVars, hostVars
    <2> QED BY <1>9, <2>1, <1>5 DEF PromptBound
  <1>10. CASE PromptUnbound(msg) \/ CmdNew(msg)
    BY <1>10, <1>5, <1>6 DEF PromptUnbound, CmdNew
  <1>11. CASE CmdAttach(msg)
    <2>1. CASE /\ AddBinding(msg.conv, msg.arg) /\ ReplyThenDrop({})
               /\ UNCHANGED <<pending, older, hostVars>>
      BY <2>1, <1>3, QuietStep, GrowingIndex DEF ReplyThenDrop, hostVars
    <2> QED BY <1>11, <2>1, <1>5 DEF CmdAttach
  <1>12. CASE CmdOther(msg)
    BY <1>12, <1>5 DEF CmdOther
  <1> QED
    BY <1>1, <1>7, <1>8, <1>9, <1>10, <1>11, <1>12

LEMMA HubInvStep ==
  ASSUME TypeOK, HubInv, [Next]_vars, MaxRestarts = 0
  PROVE  HubInv'
  <1>1. ASSUME NEW s \in Sessions, HostCreatesSession(s) PROVE HubInv'
    BY <1>1, QuietStep DEF HostCreatesSession, hubVars, taskVars, chatVars, HubInv
  <1>2. ASSUME NEW r \in Requests, HostAsks(r) PROVE HubInv'
    BY <1>2, HostAsksInv
  <1>3. ASSUME NEW r \in Requests, HostCloses(r) PROVE HubInv'
    <2>1. UNCHANGED <<pending, bySession, toDrop, showing, shown>>
      BY <1>3 DEF HostCloses, hubVars, taskVars, chatVars
    <2>2. HostAdvances /\ FramesAreRaised'
      BY <1>3, RespondAdvances DEF HostCloses, HubInv
    <2>3. \A q \in toDrop' : host'[q] = "closed"
      BY <2>1, <2>2 DEF HostAdvances, HubInv, TypeOK
    <2> QED BY <2>1, <2>2, <2>3, RestOfInv DEF HubInv
  <1>4. ASSUME NEW r \in Requests, HostReplays(r) PROVE HubInv'
    <2>1. UNCHANGED <<host, pending, bySession, toDrop, showing, shown>>
      BY <1>4 DEF HostReplays, hubVars, taskVars, chatVars
    <2>2. FramesAreRaised'
      <3>1. CASE stream' = stream
        BY <3>1, <2>1, <1>4, FewerFrames DEF HostReplays
      <3>2. CASE stream' = Append(stream, Requested(r))
        <4>1. stream \in Seq(Frames) /\ Requested(r) \in Frames
          BY FramesType DEF TypeOK
        <4>2. Raised(r) /\ Requested(r).what # "resolved" /\ Requested(r).rpc = r
          BY <1>4 DEF HubInv, FramesAreRaised, HostReplays, Requested
        <4>3. \A i \in DOMAIN stream' :
                stream'[i] = Requested(r) \/ \E j \in DOMAIN stream : stream'[i] = stream[j]
          BY <3>2, <4>1, AppendElements
        <4> QED
          BY <1>4, <2>1, <4>2, <4>3 DEF HubInv, FramesAreRaised, HostReplays, Raised
      <3> QED BY <1>4, <3>1, <3>2 DEF HostReplays
    <2> QED BY <2>1, <2>2, RestOfInv DEF HubInv, HostAdvances
  <1>5. ASSUME MuxDrops PROVE HubInv'
    <2>1. UNCHANGED <<host, pending, bySession, toDrop, showing, shown>>
      BY <1>5 DEF MuxDrops, hubVars, taskVars, chatVars
    <2>2. FramesAreRaised'
      BY <1>5, PrefixElements, FewerFrames DEF MuxDrops, TypeOK
    <2> QED BY <2>1, <2>2, RestOfInv DEF HubInv, HostAdvances
  <1>6. ASSUME MuxConnects PROVE HubInv'
    <2>1. UNCHANGED <<host, stream, pending, bySession, toDrop, showing, shown>>
      BY <1>6 DEF MuxConnects, hubVars, taskVars, chatVars
    <2>2. FramesAreRaised'
      BY <1>6, <2>1 DEF MuxConnects, HubInv, FramesAreRaised, Raised
    <2> QED BY <2>1, <2>2, RestOfInv DEF HubInv, HostAdvances
  <1>7. ASSUME NEW r \in Requests, MuxRequested(r) PROVE HubInv'
    BY <1>7, MuxRequestedInv
  <1>8. ASSUME NEW r \in Requests, MuxResolved(r) PROVE HubInv'
    BY <1>8, MuxResolvedInv
  <1>9. ASSUME NEW r \in Requests, NEW c \in Conversations, MuxSent(r, c) PROVE HubInv'
    <2>1. UNCHANGED <<host, stream, replay, pending, bySession, toDrop>>
      BY <1>9 DEF MuxSent, hubVars, hostVars
    <2>2. PICK what \in {"request", "notice"} :
            /\ <<r, what, c>> \in showing
            /\ showing' = showing \ {<<r, what, c>>}
            /\ \/ shown' = [shown EXCEPT ![c] = IF what = "request" THEN @ \cup {r} ELSE @]
               \/ UNCHANGED shown
      BY <1>9 DEF MuxSent
    <2>3. \A q \in Requests, d \in Conversations :
            q \in shown'[d] => q \in shown[d] \/ <<q, "request", d>> \in showing
      <3>1. CASE UNCHANGED shown
        BY <3>1
      <3>2. CASE shown' = [shown EXCEPT ![c] = IF what = "request" THEN @ \cup {r} ELSE @]
        <4>1. CASE what = "request"
          BY <2>2, <3>2, <4>1 DEF TypeOK
        <4>2. CASE what # "request"
          BY <3>2, <4>2 DEF TypeOK
        <4> QED BY <4>1, <4>2
      <3> QED BY <2>2, <3>1, <3>2
    <2>4. ShowingIsPending'
      BY <2>1, <2>2, <2>3 DEF HubInv, ShowingIsPending, Raised
    <2> QED BY <2>1, <2>4 DEF HubInv, FramesAreRaised, PendingIsIndexed, Raised
  <1>10. ASSUME NEW c \in Conversations, ApiAnswer(c) \/ ApiApproval(c) PROVE HubInv'
    <2>1. PICK r \in Requests : RespondFromApi(r)
      BY <1>10, FirstPendingType DEF ApiAnswer, ApiApproval, Questions, Approvals
    <2>2. UNCHANGED <<bySession, toDrop, showing, shown>>
      BY <2>1 DEF RespondFromApi, taskVars, chatVars
    <2>3. HostAdvances /\ FramesAreRaised'
      BY <2>1, RespondAdvances DEF RespondFromApi, HubInv
    <2>4. \A q \in toDrop' : host'[q] = "closed"
      BY <2>2, <2>3 DEF HostAdvances, HubInv, TypeOK
    <2>5. CASE Accepts(r) /\ Drop({r})
      BY <2>2, <2>3, <2>4, <2>5, SettleAdvances, DropInv DEF HubInv
    <2>6. CASE UNCHANGED <<pending, older>>
      BY <2>2, <2>3, <2>4, <2>6, RestOfInv DEF HubInv
    <2> QED BY <2>1, <2>5, <2>6 DEF RespondFromApi
  <1>11. ASSUME NEW c \in Conversations, NEW s \in Sessions, ApiBind(c, s) PROVE HubInv'
    BY <1>11, QuietStep, GrowingIndex DEF ApiBind, taskVars, hostVars, chatVars, HubInv
  <1>12. ASSUME NEW c \in Conversations, NEW u \in Texts, UserSends(c, u) PROVE HubInv'
    BY <1>12, QuietStep DEF UserSends, hubVars, taskVars, hostVars, HubInv
  <1>13. ASSUME Consume PROVE HubInv'
    BY <1>13, ConsumeInv
  <1>14. ASSUME ConsumerSent PROVE HubInv'
    <2>1. /\ toDrop \in SUBSET Requests /\ toDrop' = {} /\ Drop(toDrop)
          /\ UNCHANGED <<bySession, showing, shown, host, stream, replay>>
      BY <1>14 DEF ConsumerSent, hostVars, chatVars, TypeOK
    <2>2. PendingIsIndexed' /\ ShowingIsPending'
      BY <2>1, DropInv DEF HubInv, HostAdvances
    <2> QED BY <2>1, <2>2 DEF HubInv, FramesAreRaised, Raised
  <1>15. ASSUME Restart PROVE HubInv'
    BY <1>15 DEF Restart, LoadState, TypeOK
  <1>16. CASE UNCHANGED vars
    BY <1>16, QuietStep DEF vars, hubVars, taskVars, hostVars, chatVars, HubInv
  <1> QED
    BY <1>1, <1>2, <1>3, <1>4, <1>5, <1>6, <1>7, <1>8, <1>9, <1>10, <1>11,
       <1>12, <1>13, <1>14, <1>15, <1>16 DEF Next, Host, Mux, Api

(* The strengthening the theorems below rest on is inductive while the     *)
(* process lives: the pending table never forgets an open request for a    *)
(* conversation that has been shown it, nor one about to be.               *)
THEOREM HubInvariant ==
  ASSUME MaxRestarts = 0
  PROVE  Spec => []HubInv
  <1>1. Init => HubInv
    BY HubAssumption DEF Init, HubInv, FramesAreRaised, PendingIsIndexed, ShowingIsPending,
                         NotShowing
  <1>2. TypeOK /\ HubInv /\ [Next]_vars => HubInv'
    BY HubInvStep
  <1> QED
    BY <1>1, <1>2, TypeCorrect, PTL DEF Spec

-----------------------------------------------------------------------------
(* The order of the pending table: older is a strict total order on the    *)
(* entries, and a rank in the natural numbers shows it has no endless      *)
(* descent, so a table with a matching entry has a first one.              *)
Ranks(n) == {rank \in [Requests -> 0..n] : \A p \in older : rank[p[1]] < rank[p[2]]}

OrderInv ==
  /\ \A p \in older : p[1] \in Pending /\ p[2] \in Pending
  /\ \A q, r \in Pending : q # r => <<q, r>> \in older \/ <<r, q>> \in older
  /\ \E n \in Nat : Ranks(n) # {}

LEMMA RegisterOrder ==
  ASSUME TypeOK, OrderInv, NEW r \in Requests, NEW k \in SUBSET Conversations, k # {},
         Register(r, k)
  PROVE  OrderInv'
  <1>1. Pending' = Pending \cup {r}
    BY DEF Register, Pending, TypeOK
  <1>2. CASE r \in Pending
    <2>1. older' = older /\ Pending' = Pending
      BY <1>1, <1>2 DEF Register
    <2> QED
      BY <2>1 DEF OrderInv, Ranks
  <1>3. CASE r \notin Pending
    <2>1. older' = older \cup {<<q, r>> : q \in Pending}
      BY <1>3 DEF Register
    <2>2. \A p \in older' : p[1] \in Pending' /\ p[2] \in Pending'
      BY <2>1, <1>1 DEF OrderInv
    <2>3. \A q, s \in Pending' : q # s => <<q, s>> \in older' \/ <<s, q>> \in older'
      BY <2>1, <1>1 DEF OrderInv
    <2>a. PICK n \in Nat : Ranks(n) # {}
      BY DEF OrderInv
    <2>4. PICK rank \in Ranks(n) : TRUE
      BY <2>a
    <2>5. rank \in [Requests -> 0..n] /\ \A p \in older : rank[p[1]] < rank[p[2]]
      BY <2>4 DEF Ranks
    <2> DEFINE new == [q \in Requests |-> IF q = r THEN n + 1 ELSE rank[q]]
    <2>6. new \in [Requests -> 0..(n + 1)] /\ n + 1 \in Nat
      BY <2>5
    <2>7. ASSUME NEW p \in older' PROVE new[p[1]] < new[p[2]]
      <3>1. CASE p \in older
        <4>1. p[1] \in Pending /\ p[2] \in Pending
          BY <3>1 DEF OrderInv
        <4> QED
          BY <3>1, <4>1, <1>3, <2>5 DEF Pending
      <3>2. CASE p \in {<<q, r>> : q \in Pending}
        <4>1. PICK q \in Pending : p = <<q, r>>
          BY <3>2
        <4>2. q \in Requests /\ q # r /\ rank[q] \in 0..n
          BY <4>1, <1>3, <2>5 DEF Pending
        <4>3. new[p[1]] = rank[q] /\ new[p[2]] = n + 1
          BY <4>1, <4>2
        <4> QED
          BY <4>2, <4>3
      <3> QED
        BY <2>1, <2>7, <3>1, <3>2
    <2>8. new \in Ranks(n + 1)'
      BY <2>6, <2>7 DEF Ranks
    <2> QED
      BY <2>2, <2>3, <2>6, <2>8 DEF OrderInv
  <1> QED BY <1>2, <1>3

LEMMA DropOrder ==
  ASSUME TypeOK, OrderInv, NEW rs, Drop(rs)
  PROVE  OrderInv'
  <1>1. Pending' = Pending \ rs
    BY DEF Drop, Pending, TypeOK
  <1>2. older' = {p \in older : p[1] \notin rs /\ p[2] \notin rs}
    BY DEF Drop
  <1>3. \E n \in Nat : Ranks(n)' # {}
    BY <1>2 DEF OrderInv, Ranks
  <1> QED
    BY <1>1, <1>2, <1>3 DEF OrderInv

LEMMA SameOrder ==
  ASSUME OrderInv, UNCHANGED <<pending, older>>
  PROVE  OrderInv'
  BY DEF OrderInv, Ranks, Pending

LEMMA OrderStep ==
  ASSUME TypeOK, OrderInv, [Next]_vars
  PROVE  OrderInv'
  <1>1. CASE Host \/ MuxDrops \/ MuxConnects \/ UNCHANGED vars
    BY <1>1, SameOrder
       DEF Host, HostCreatesSession, HostAsks, HostCloses, HostReplays, MuxDrops,
           MuxConnects, vars, hubVars
  <1>2. ASSUME NEW r \in Requests, MuxRequested(r) PROVE OrderInv'
    <2>1. bySession[SessionOf[r]] \in SUBSET Conversations
      BY HubAssumption DEF TypeOK
    <2> QED
      BY <1>2, <2>1, RegisterOrder, SameOrder DEF MuxRequested
  <1>3. ASSUME NEW r \in Requests, MuxResolved(r) PROVE OrderInv'
    BY <1>3, DropOrder DEF MuxResolved
  <1>4. ASSUME NEW r \in Requests, NEW c \in Conversations, MuxSent(r, c) PROVE OrderInv'
    BY <1>4, SameOrder DEF MuxSent, hubVars
  <1>5. ASSUME NEW c \in Conversations, ApiAnswer(c) \/ ApiApproval(c) PROVE OrderInv'
    BY <1>5, DropOrder, SameOrder DEF ApiAnswer, ApiApproval, RespondFromApi
  <1>6. ASSUME NEW c \in Conversations, NEW s \in Sessions, ApiBind(c, s) PROVE OrderInv'
    BY <1>6, SameOrder DEF ApiBind
  <1>7. ASSUME NEW c \in Conversations, NEW u \in Texts, UserSends(c, u) PROVE OrderInv'
    BY <1>7, SameOrder DEF UserSends, hubVars
  <1>8. ASSUME Consume PROVE OrderInv'
    <2>1. UNCHANGED <<pending, older>>
      BY <1>8
         DEF Consume, DirectQuestionAnswer, DirectApprovalAnswer, PromptBound,
             PromptUnbound, CmdCancelQuestion, CmdApproval, CmdNew, CmdAttach, CmdOther,
             JustReply, RespondFromChat, AutoBind, hubVars
    <2> QED BY <2>1, SameOrder
  <1>9. ASSUME ConsumerSent PROVE OrderInv'
    BY <1>9, DropOrder DEF ConsumerSent
  <1>10. ASSUME Restart PROVE OrderInv'
    <2>1. Pending' = {} /\ older' = {}
      BY <1>10 DEF Restart, LoadState, Pending
    <2>2. [r \in Requests |-> 0] \in Ranks(0)'
      BY <2>1 DEF Ranks
    <2> QED BY <2>1, <2>2 DEF OrderInv
  <1> QED
    BY <1>1, <1>2, <1>3, <1>4, <1>5, <1>6, <1>7, <1>8, <1>9, <1>10 DEF Next, Mux, Api

(* The insertion order of the dict pending survives every registration,    *)
(* removal and restart as a well-founded total order on its entries.       *)
THEOREM OrderInvariant == Spec => []OrderInv
  <1>1. Init => OrderInv
    <2> SUFFICES ASSUME Init PROVE OrderInv
      OBVIOUS
    <2>1. Pending = {} /\ older = {}
      BY DEF Init, Pending
    <2>2. [r \in Requests |-> 0] \in Ranks(0)
      BY <2>1 DEF Ranks
    <2> QED BY <2>1, <2>2 DEF OrderInv
  <1>2. TypeOK /\ OrderInv /\ [Next]_vars => OrderInv'
    BY OrderStep
  <1> QED
    BY <1>1, <1>2, TypeCorrect, PTL DEF Spec

(* A conversation with an entry of a kind has exactly one first entry of   *)
(* that kind, so _first_pending finds an entry whenever there is one, and  *)
(* it is always the same.                                                  *)
THEOREM FirstPendingUnique ==
  ASSUME TypeOK, OrderInv, NEW c \in Conversations, NEW k, Candidates(c, k) # {}
  PROVE  \E r \in Candidates(c, k) : FirstPending(c, k) = {r}
  <1>a. PICK n \in Nat : Ranks(n) # {}
    BY DEF OrderInv
  <1>1. PICK rank \in Ranks(n) : TRUE
    BY <1>a
  <1>2. rank \in [Requests -> 0..n] /\ \A p \in older : rank[p[1]] < rank[p[2]]
    BY <1>1 DEF Ranks
  <1>3. Candidates(c, k) \subseteq Requests /\ Candidates(c, k) \subseteq Pending
    BY DEF Candidates, Pending
  <1> DEFINE T == {rank[r] : r \in Candidates(c, k)}
  <1>4. T \subseteq Nat /\ T # {}
    BY <1>2, <1>3
  <1>5. PICK m \in T : \A j \in T : ~ (j < m)
    <2>1. PICK m \in T : \A j \in T : <<j, m>> \notin OpToRel(<, Nat)
      BY <1>4, NatLessThanWellFounded, WFMin
    <2> QED
      BY <2>1, <1>4 DEF OpToRel
  <1>6. PICK r \in Candidates(c, k) : m = rank[r]
    BY <1>5
  <1>7. r \in FirstPending(c, k)
    <2>1. ASSUME NEW q \in Candidates(c, k), <<q, r>> \in older
          PROVE  FALSE
      BY <2>1, <1>2, <1>5, <1>6
    <2> QED BY <2>1, <1>6 DEF FirstPending
  <1>8. ASSUME NEW q \in FirstPending(c, k) PROVE q = r
    BY <1>3, <1>7, <1>8 DEF FirstPending, OrderInv
  <1> QED BY <1>6, <1>7, <1>8

LEMMA PromptedUnasked ==
  ASSUME TypeOK, OrderInv, NEW c \in Conversations,
         Questions(c) = {}, Approvals(c) = {}
  PROVE  \A r \in Requests : c \notin pending[r]
  <1>1. Candidates(c, "question") = {} /\ Candidates(c, "approval") = {}
    BY FirstPendingUnique DEF Questions, Approvals
  <1> QED
    BY <1>1, HubAssumption DEF Candidates

(* Until the bridge restarts, a chat text never becomes a prompt while a   *)
(* request that was shown in that conversation is still open.              *)
THEOREM RepliesNeverLeak ==
  ASSUME MaxRestarts = 0
  PROVE  Spec => RepliesDoNotLeak
  <1>1. ASSUME TypeOK, OrderInv, HubInv, [Next]_vars, NEW m \in Messages,
               fate'[m] = "prompt", fate[m] = "queued"
        PROVE  \A r \in shown[Head(inbox).conv] : host[r] # "open"
    <2>1. CASE Consume
      <3>1. PICK msg :
              \/ DirectQuestionAnswer(msg) \/ DirectApprovalAnswer(msg)
              \/ PromptBound(msg) \/ PromptUnbound(msg)
              \/ CmdCancelQuestion(msg) \/ CmdApproval(msg)
              \/ CmdNew(msg) \/ CmdAttach(msg) \/ CmdOther(msg)
        BY <2>1 DEF Consume
      <3>2. PICK f : Taken(msg, f)
        BY <3>1 DEF DirectQuestionAnswer, DirectApprovalAnswer, PromptBound, PromptUnbound,
                    CmdCancelQuestion, CmdApproval, CmdNew, CmdAttach, CmdOther
      <3>3. msg = Head(inbox) /\ msg.conv \in Conversations
        <4>1. msg \in InboxType
          BY <1>1, <3>2, TakenConv
        <4> QED
          BY <3>2, <4>1 DEF Taken, InboxType
      <3>4. CASE PromptBound(msg) \/ PromptUnbound(msg)
        <4>1. \A r \in Requests : msg.conv \notin pending[r]
          BY <1>1, <3>3, <3>4, PromptedUnasked DEF PromptBound, PromptUnbound
        <4> QED
          BY <1>1, <3>3, <4>1 DEF HubInv, ShowingIsPending, TypeOK
      <3>5. CASE ~ (PromptBound(msg) \/ PromptUnbound(msg))
        <4>1. Taken(msg, "answer") \/ Taken(msg, "done")
          BY <3>1, <3>5
             DEF DirectQuestionAnswer, DirectApprovalAnswer, CmdCancelQuestion,
                 CmdApproval, CmdNew, CmdAttach, CmdOther
        <4> QED
          BY <1>1, <4>1 DEF Taken, TypeOK
      <3> QED BY <3>4, <3>5
    <2>2. CASE UNCHANGED fate
      BY <1>1, <2>2
    <2>3. ASSUME NEW c \in Conversations, NEW u \in Texts, UserSends(c, u)
          PROVE  FALSE
      BY <1>1, <2>3 DEF UserSends, TypeOK
    <2>4. CASE Restart
      BY <1>1, <2>4 DEF Restart, LoadState
    <2> QED
      BY <1>1, <2>1, <2>2, <2>3, <2>4
         DEF Next, Host, Mux, Api, HostCreatesSession, HostAsks, HostCloses, HostReplays,
             MuxDrops, MuxConnects, MuxRequested, MuxResolved, MuxSent, ApiAnswer,
             ApiApproval, RespondFromApi, ApiBind, ConsumerSent, vars, chatVars
  <1>2. TypeOK /\ OrderInv /\ HubInv /\ [Next]_vars =>
          [\A m \in Messages :
             fate'[m] = "prompt" /\ fate[m] = "queued" =>
               \A r \in shown[Head(inbox).conv] : host[r] # "open"]_vars
    BY <1>1
  <1> QED
    BY <1>2, TypeCorrect, OrderInvariant, HubInvariant, PTL DEF Spec, RepliesDoNotLeak
-----------------------------------------------------------------------------
(* Entries of closed requests do not stay without a cause. *)

(* Its resolved frame is coming or went with a connection. *)
Followed(r) == r \in lost \/ \E i \in DOMAIN stream : stream[i] = Resolved(r)

(* A frame that asks again what is closed by now is followed, in this      *)
(* order, by the frame that says so: it cannot bring back an entry that    *)
(* nothing removes.                                                        *)
ClosedIsFollowed ==
  \A r \in Requests, i \in DOMAIN stream :
    stream[i] = Requested(r) /\ host[r] = "closed" =>
      r \in lost \/ \E j \in DOMAIN stream : i < j /\ stream[j] = Resolved(r)

(* The consumer has something to drop only while it replies. *)
DropsWhileReplying == ~replying => toDrop = {}

CauseInv == StaleEntriesHaveACause /\ ClosedIsFollowed /\ DropsWhileReplying

(* What a step may leave of the cause of an entry. *)
FollowsLast(S) ==
  /\ \A r \in Requests \ S : Followed(r) => Followed(r)'
  /\ \A r \in Requests : host'[r] = "closed" => host[r] = "closed" \/ Followed(r)'

LEMMA DifferentFrames ==
  \A q, r : /\ Requested(q) # Resolved(r)
            /\ Requested(q) = Requested(r) => q = r
            /\ Resolved(q) = Resolved(r) => q = r
  BY DEF Requested, Resolved

LEMMA SettleFollows ==
  ASSUME TypeOK, ClosedIsFollowed, NEW r \in Requests, Accepts(r)
  PROVE  ClosedIsFollowed' /\ FollowsLast({})
  <1>0. stream \in Seq(Frames) /\ Resolved(r) \in Frames
    BY FramesType DEF TypeOK
  <1>1. \A q \in Requests : q # r => host'[q] = host[q]
    BY DEF Accepts, Settle, TypeOK
  <1>2. CASE connected
    <2>1. stream' = Append(stream, Resolved(r)) /\ lost' = lost
      BY <1>2 DEF Accepts, Settle
    <2>2. /\ DOMAIN stream' = 1..(Len(stream) + 1) /\ DOMAIN stream = 1..Len(stream)
          /\ Len(stream) \in Nat
          /\ stream'[Len(stream) + 1] = Resolved(r)
          /\ \A i \in DOMAIN stream : stream'[i] = stream[i] /\ i \in DOMAIN stream'
      BY <1>0, <2>1
    <2>3. Followed(r)'
      BY <2>2 DEF Followed
    <2>4. \A q \in Requests : Followed(q) => Followed(q)'
      BY <2>1, <2>2 DEF Followed
    <2>5. ASSUME NEW q \in Requests, NEW i \in DOMAIN stream',
                 stream'[i] = Requested(q), host'[q] = "closed"
          PROVE  q \in lost' \/ \E j \in DOMAIN stream' : i < j /\ stream'[j] = Resolved(q)
      <3>1. i \in DOMAIN stream /\ stream[i] = Requested(q)
        BY <2>2, <2>5, DifferentFrames
      <3>2. CASE q = r
        BY <2>2, <3>1, <3>2
      <3>3. CASE q # r
        <4>1. q \in lost \/ \E j \in DOMAIN stream : i < j /\ stream[j] = Resolved(q)
          BY <1>1, <2>5, <3>1, <3>3 DEF ClosedIsFollowed
        <4> QED
          BY <2>1, <2>2, <4>1
      <3> QED
        BY <3>2, <3>3
    <2> QED
      BY <1>1, <2>3, <2>4, <2>5 DEF ClosedIsFollowed, FollowsLast
  <1>3. CASE ~connected
    <2>1. stream' = stream /\ lost' = lost \cup {r}
      BY <1>3 DEF Accepts, Settle
    <2> QED
      BY <1>1, <2>1 DEF ClosedIsFollowed, FollowsLast, Followed
  <1> QED
    BY <1>2, <1>3

LEMMA AskingFollows ==
  ASSUME TypeOK, ClosedIsFollowed, NEW r \in Requests, HostAsks(r) \/ HostReplays(r)
  PROVE  ClosedIsFollowed' /\ FollowsLast({})
  <1>0. stream \in Seq(Frames) /\ Requested(r) \in Frames
    BY FramesType DEF TypeOK
  <1>1. lost' = lost
    BY DEF HostAsks, HostReplays
  <1>2. \A q \in Requests : host'[q] = "closed" => host[q] = "closed"
    BY DEF HostAsks, HostReplays, TypeOK
  <1>3. \/ stream' = stream
        \/ stream' = Append(stream, Requested(r)) /\ host'[r] # "closed"
    <2>1. CASE HostAsks(r)
      <3>1. host'[r] = "open"
        BY <2>1 DEF HostAsks, TypeOK
      <3> QED
        BY <2>1, <3>1 DEF HostAsks
    <2>2. CASE HostReplays(r)
      <3>1. /\ stream' = IF host[r] = "open" THEN Append(stream, Requested(r)) ELSE stream
            /\ host' = host
        BY <2>2 DEF HostReplays
      <3>2. CASE host[r] = "open"
        BY <3>1, <3>2
      <3>3. CASE host[r] # "open"
        BY <3>1, <3>3
      <3> QED
        BY <3>2, <3>3
    <2> QED
      BY <2>1, <2>2
  <1>4. CASE stream' = stream
    BY <1>1, <1>2, <1>4 DEF ClosedIsFollowed, FollowsLast, Followed
  <1>5. CASE stream' = Append(stream, Requested(r)) /\ host'[r] # "closed"
    <2>2. /\ DOMAIN stream' = 1..(Len(stream) + 1) /\ DOMAIN stream = 1..Len(stream)
          /\ Len(stream) \in Nat
          /\ stream'[Len(stream) + 1] = Requested(r)
          /\ \A i \in DOMAIN stream : stream'[i] = stream[i] /\ i \in DOMAIN stream'
      BY <1>0, <1>5
    <2>3. \A q \in Requests : Followed(q) => Followed(q)'
      BY <1>1, <2>2 DEF Followed
    <2>4. ASSUME NEW q \in Requests, NEW i \in DOMAIN stream',
                 stream'[i] = Requested(q), host'[q] = "closed"
          PROVE  q \in lost' \/ \E j \in DOMAIN stream' : i < j /\ stream'[j] = Resolved(q)
      <3>1. q # r
        BY <1>5, <2>4
      <3>2. i \in DOMAIN stream /\ stream[i] = Requested(q)
        BY <2>2, <2>4, <3>1, DifferentFrames
      <3>3. q \in lost \/ \E j \in DOMAIN stream : i < j /\ stream[j] = Resolved(q)
        BY <1>2, <2>4, <3>2 DEF ClosedIsFollowed
      <3> QED
        BY <1>1, <2>2, <3>3
    <2> QED
      BY <1>2, <2>3, <2>4 DEF ClosedIsFollowed, FollowsLast
  <1> QED
    BY <1>3, <1>4, <1>5

LEMMA DropFollows ==
  ASSUME TypeOK, ClosedIsFollowed, MuxDrops
  PROVE  ClosedIsFollowed' /\ FollowsLast({})
  <1>1. PICK n \in 0..Len(stream) :
          /\ stream' = SubSeq(stream, 1, n)
          /\ lost' = lost \cup {r \in Requests :
                                  \E i \in n + 1 .. Len(stream) : stream[i] = Resolved(r)}
    BY DEF MuxDrops
  <1>2. stream \in Seq(Frames) /\ host' = host
    BY DEF MuxDrops, TypeOK
  <1>3. /\ DOMAIN stream = 1..Len(stream) /\ DOMAIN stream' = 1..n
        /\ \A i \in 1..n : stream'[i] = stream[i]
    BY <1>1, <1>2
  <1>4. ASSUME NEW r \in Requests, NEW j \in DOMAIN stream, stream[j] = Resolved(r)
        PROVE  r \in lost' \/ (j \in DOMAIN stream' /\ stream'[j] = Resolved(r))
    <2>1. CASE j \in 1..n
      BY <1>3, <1>4, <2>1
    <2>2. CASE j \in n + 1 .. Len(stream)
      BY <1>1, <1>4, <2>2
    <2> QED
      BY <1>2, <1>3, <2>1, <2>2
  <1>5. FollowsLast({})
    BY <1>1, <1>2, <1>4 DEF FollowsLast, Followed
  <1>6. ASSUME NEW q \in Requests, NEW i \in DOMAIN stream',
               stream'[i] = Requested(q), host'[q] = "closed"
        PROVE  q \in lost' \/ \E j \in DOMAIN stream' : i < j /\ stream'[j] = Resolved(q)
    <2>1. i \in DOMAIN stream /\ stream[i] = Requested(q) /\ host[q] = "closed"
      BY <1>2, <1>3, <1>6
    <2>2. q \in lost \/ \E j \in DOMAIN stream : i < j /\ stream[j] = Resolved(q)
      BY <2>1 DEF ClosedIsFollowed
    <2> QED
      BY <1>1, <1>4, <2>2
  <1> QED
    BY <1>5, <1>6 DEF ClosedIsFollowed

(* Taking the first frame from the stream. *)
LEMMA TailFollows ==
  ASSUME TypeOK, ClosedIsFollowed, stream # <<>>, stream' = Tail(stream),
         UNCHANGED <<host, lost>>
  PROVE  /\ ClosedIsFollowed'
         /\ \A r \in Requests : Head(stream) # Resolved(r) => (Followed(r) => Followed(r)')
         /\ \A r \in Requests : Head(stream) = Requested(r) /\ host[r] = "closed"
                                  => Followed(r)'
  <1>1. stream \in Seq(Frames)
    BY DEF TypeOK
  <1>2. /\ DOMAIN stream = 1..Len(stream) /\ DOMAIN stream' = 1..(Len(stream) - 1)
        /\ Len(stream) \in Nat /\ Len(stream) >= 1 /\ Head(stream) = stream[1]
        /\ \A i \in DOMAIN stream' : stream'[i] = stream[i + 1]
    BY <1>1
  <1>3. \A j \in DOMAIN stream : j > 1 => j - 1 \in DOMAIN stream' /\ stream'[j - 1] = stream[j]
    BY <1>2
  <1>4. ASSUME NEW q \in Requests, NEW i \in DOMAIN stream',
               stream'[i] = Requested(q), host'[q] = "closed"
        PROVE  q \in lost' \/ \E j \in DOMAIN stream' : i < j /\ stream'[j] = Resolved(q)
    <2>1. i + 1 \in DOMAIN stream /\ stream[i + 1] = Requested(q) /\ host[q] = "closed"
      BY <1>2, <1>4
    <2>2. q \in lost \/ \E j \in DOMAIN stream : i + 1 < j /\ stream[j] = Resolved(q)
      BY <2>1 DEF ClosedIsFollowed
    <2>3. ASSUME NEW j \in DOMAIN stream, i + 1 < j
          PROVE  i < j - 1 /\ j - 1 \in DOMAIN stream' /\ stream'[j - 1] = stream[j]
      BY <1>2, <1>3, <2>3
    <2> QED
      BY <2>2, <2>3
  <1>5. ASSUME NEW r \in Requests, Head(stream) # Resolved(r), Followed(r)
        PROVE  Followed(r)'
    <2>1. ASSUME NEW i \in DOMAIN stream, stream[i] = Resolved(r) PROVE i > 1
      BY <1>2, <1>5, <2>1
    <2> QED
      BY <1>3, <1>5, <2>1 DEF Followed
  <1>6. ASSUME NEW r \in Requests, Head(stream) = Requested(r), host[r] = "closed"
        PROVE  Followed(r)'
    <2>1. r \in lost \/ \E j \in DOMAIN stream : 1 < j /\ stream[j] = Resolved(r)
      BY <1>2, <1>6 DEF ClosedIsFollowed
    <2> QED
      BY <1>2, <1>3, <2>1 DEF Followed
  <1> QED
    BY <1>4, <1>5, <1>6 DEF ClosedIsFollowed

(* An entry that stays keeps its cause. *)
LEMMA CauseStays ==
  ASSUME CauseInv, FollowsLast({}),
         \A r \in Requests : pending'[r] # {} => pending[r] # {},
         \A r \in toDrop : r \in toDrop' \/ pending'[r] = {}
  PROVE  StaleEntriesHaveACause'
  BY DEF CauseInv, StaleEntriesHaveACause, FollowsLast, Followed, Pending

LEMMA SameCauses ==
  ASSUME ClosedIsFollowed, UNCHANGED <<host, stream, lost>>
  PROVE  ClosedIsFollowed' /\ FollowsLast({})
  BY DEF ClosedIsFollowed, FollowsLast, Followed

LEMMA RespondFollows ==
  ASSUME TypeOK, ClosedIsFollowed, NEW r \in Requests,
         Accepts(r) \/ Refuses(r) \/ Raises(r)
  PROVE  ClosedIsFollowed' /\ FollowsLast({})
  BY SettleFollows, SameCauses DEF Refuses, Raises, hostVars

LEMMA ConsumeCause ==
  ASSUME TypeOK, CauseInv, Consume
  PROVE  CauseInv'
  <1>1. PICK msg :
          \/ DirectQuestionAnswer(msg) \/ DirectApprovalAnswer(msg)
          \/ PromptBound(msg) \/ PromptUnbound(msg)
          \/ CmdCancelQuestion(msg) \/ CmdApproval(msg)
          \/ CmdNew(msg) \/ CmdAttach(msg) \/ CmdOther(msg)
    BY DEF Consume
  <1>2. \E f : Taken(msg, f)
    BY <1>1 DEF DirectQuestionAnswer, DirectApprovalAnswer, PromptBound, PromptUnbound,
                CmdCancelQuestion, CmdApproval, CmdNew, CmdAttach, CmdOther
  <1>3. toDrop = {}
    BY <1>2 DEF Taken, CauseInv, DropsWhileReplying
  <1>4. ASSUME UNCHANGED pending, ClosedIsFollowed', FollowsLast({}),
               replying' = TRUE \/ toDrop' = {}
        PROVE  CauseInv'
    BY <1>3, <1>4, CauseStays DEF CauseInv, DropsWhileReplying
  <1>5. ASSUME NEW r \in Requests, RespondFromChat(r) PROVE CauseInv'
    <2>1. UNCHANGED pending /\ replying' = TRUE
      BY <1>5 DEF RespondFromChat, ReplyThenDrop, hubVars
    <2>2. ClosedIsFollowed' /\ FollowsLast({})
      BY <1>5, RespondFollows DEF RespondFromChat, CauseInv
    <2> QED
      BY <1>4, <2>1, <2>2
  <1>6. ASSUME UNCHANGED <<pending, host, stream, lost>>, replying' = TRUE \/ toDrop' = {}
        PROVE  CauseInv'
    BY <1>4, <1>6, SameCauses DEF CauseInv
  <1>7. JustReply => CauseInv'
    BY <1>6 DEF JustReply, ReplyThenDrop, hubVars, hostVars
  <1>8. AutoBind(msg.conv) /\ ReplyThenDrop({}) => CauseInv'
    BY <1>6 DEF AutoBind, ReplyThenDrop
  <1>9. CASE DirectQuestionAnswer(msg) \/ CmdCancelQuestion(msg)
    BY <1>5, <1>7, <1>9, FirstPendingType
       DEF DirectQuestionAnswer, CmdCancelQuestion, Questions
  <1>10. CASE DirectApprovalAnswer(msg) \/ CmdApproval(msg)
    BY <1>5, <1>7, <1>10, FirstPendingType
       DEF DirectApprovalAnswer, CmdApproval, Approvals
  <1>11. CASE PromptBound(msg)
    <2>1. CASE UNCHANGED <<replying, toDrop, hubVars, hostVars>>
      BY <1>3, <1>6, <2>1 DEF hubVars, hostVars
    <2> QED
      BY <1>7, <1>11, <2>1 DEF PromptBound
  <1>12. CASE PromptUnbound(msg) \/ CmdNew(msg)
    BY <1>7, <1>8, <1>12 DEF PromptUnbound, CmdNew
  <1>13. CASE CmdAttach(msg)
    <2>1. CASE /\ AddBinding(msg.conv, msg.arg) /\ ReplyThenDrop({})
               /\ UNCHANGED <<pending, older, hostVars>>
      BY <1>6, <2>1 DEF ReplyThenDrop, hostVars
    <2> QED
      BY <1>7, <1>13, <2>1 DEF CmdAttach
  <1>14. CASE CmdOther(msg)
    BY <1>7, <1>14 DEF CmdOther
  <1> QED
    BY <1>1, <1>9, <1>10, <1>11, <1>12, <1>13, <1>14

LEMMA MuxFrameCause ==
  ASSUME TypeOK, CauseInv, NEW r \in Requests, MuxRequested(r) \/ MuxResolved(r)
  PROVE  CauseInv'
  <1>1. /\ stream # <<>> /\ stream' = Tail(stream)
        /\ UNCHANGED <<host, lost, replying, toDrop>>
    BY DEF MuxRequested, MuxResolved
  <1>2. /\ ClosedIsFollowed'
        /\ \A q \in Requests : Head(stream) # Resolved(q) => (Followed(q) => Followed(q)')
        /\ \A q \in Requests : Head(stream) = Requested(q) /\ host[q] = "closed"
                                 => Followed(q)'
    BY <1>1, TailFollows DEF CauseInv
  <1>3. ASSUME NEW q \in Requests, pending'[q] # {}, host'[q] = "closed"
        PROVE  q \in toDrop' \/ Followed(q)'
    <2>1. CASE MuxRequested(r)
      <3>1. Head(stream) = Requested(r)
        BY <2>1 DEF MuxRequested
      <3>2. CASE q = r
        BY <1>1, <1>2, <1>3, <3>1, <3>2
      <3>3. CASE q # r
        <4>1. pending'[q] = pending[q]
          BY <2>1, <3>3 DEF MuxRequested, Register, TypeOK
        <4>2. q \in toDrop \/ Followed(q)
          BY <1>1, <1>3, <4>1 DEF CauseInv, StaleEntriesHaveACause, Pending, Followed
        <4>3. Head(stream) # Resolved(q)
          BY <3>1, DifferentFrames
        <4> QED
          BY <1>1, <1>2, <4>2, <4>3
      <3> QED
        BY <3>2, <3>3
    <2>2. CASE MuxResolved(r)
      <3>1. q # r /\ pending'[q] = pending[q]
        BY <1>3, <2>2 DEF MuxResolved, Drop
      <3>2. q \in toDrop \/ Followed(q)
        BY <1>1, <1>3, <3>1 DEF CauseInv, StaleEntriesHaveACause, Pending, Followed
      <3>3. Head(stream) # Resolved(q)
        BY <2>2, <3>1, DifferentFrames DEF MuxResolved
      <3> QED
        BY <1>1, <1>2, <3>2, <3>3
    <2> QED
      BY <2>1, <2>2
  <1>4. StaleEntriesHaveACause'
    BY <1>3 DEF StaleEntriesHaveACause, Pending, Followed
  <1> QED
    BY <1>1, <1>2, <1>4 DEF CauseInv, DropsWhileReplying

LEMMA CauseStep ==
  ASSUME TypeOK, CauseInv, [Next]_vars
  PROVE  CauseInv'
  <1>1. ASSUME UNCHANGED <<pending, toDrop, replying>>, ClosedIsFollowed', FollowsLast({})
        PROVE  CauseInv'
    BY <1>1, CauseStays DEF CauseInv, DropsWhileReplying
  <1>2. ASSUME UNCHANGED <<pending, toDrop, replying, host, stream, lost>> PROVE CauseInv'
    BY <1>1, <1>2, SameCauses DEF CauseInv
  <1>3. ASSUME NEW s \in Sessions, HostCreatesSession(s) PROVE CauseInv'
    BY <1>2, <1>3 DEF HostCreatesSession, hubVars, taskVars
  <1>4. ASSUME NEW r \in Requests, HostAsks(r) \/ HostReplays(r) PROVE CauseInv'
    BY <1>1, <1>4, AskingFollows DEF HostAsks, HostReplays, hubVars, taskVars, CauseInv
  <1>5. ASSUME NEW r \in Requests, HostCloses(r) PROVE CauseInv'
    BY <1>1, <1>5, SettleFollows DEF HostCloses, hubVars, taskVars, CauseInv
  <1>6. CASE MuxDrops
    BY <1>1, <1>6, DropFollows DEF MuxDrops, hubVars, taskVars, CauseInv
  <1>7. CASE MuxConnects
    BY <1>2, <1>7 DEF MuxConnects, hubVars, taskVars
  <1>8. ASSUME NEW r \in Requests, MuxRequested(r) \/ MuxResolved(r) PROVE CauseInv'
    BY <1>8, MuxFrameCause
  <1>9. ASSUME NEW r \in Requests, NEW c \in Conversations, MuxSent(r, c) PROVE CauseInv'
    BY <1>2, <1>9 DEF MuxSent, hubVars, hostVars
  <1>10. ASSUME NEW c \in Conversations, ApiAnswer(c) \/ ApiApproval(c) PROVE CauseInv'
    <2>1. PICK r \in Requests : RespondFromApi(r)
      BY <1>10, FirstPendingType DEF ApiAnswer, ApiApproval, Questions, Approvals
    <2>2. UNCHANGED <<toDrop, replying>>
      BY <2>1 DEF RespondFromApi, taskVars
    <2>3. ClosedIsFollowed' /\ FollowsLast({})
      BY <2>1, RespondFollows DEF RespondFromApi, CauseInv
    <2>4. \A q \in Requests : pending'[q] # {} => pending[q] # {}
      BY <2>1 DEF RespondFromApi, Drop
    <2> QED
      BY <2>2, <2>3, <2>4, CauseStays DEF CauseInv, DropsWhileReplying
  <1>11. ASSUME NEW c \in Conversations, NEW s \in Sessions, ApiBind(c, s) PROVE CauseInv'
    BY <1>2, <1>11 DEF ApiBind, taskVars, hostVars
  <1>12. ASSUME NEW c \in Conversations, NEW u \in Texts, UserSends(c, u) PROVE CauseInv'
    BY <1>2, <1>12 DEF UserSends, hubVars, taskVars, hostVars
  <1>13. CASE Consume
    BY <1>13, ConsumeCause
  <1>14. CASE ConsumerSent
    <2>1. /\ toDrop' = {} /\ UNCHANGED <<host, stream, lost>> /\ toDrop \subseteq Requests
          /\ \A r \in Requests : pending'[r] = IF r \in toDrop THEN {} ELSE pending[r]
      BY <1>14 DEF ConsumerSent, Drop, hostVars, TypeOK
    <2>2. ClosedIsFollowed' /\ FollowsLast({})
      BY <2>1, SameCauses DEF CauseInv
    <2> QED
      BY <2>1, <2>2, CauseStays DEF CauseInv, DropsWhileReplying
  <1>15. CASE Restart
    BY <1>15 DEF Restart, LoadState, CauseInv, StaleEntriesHaveACause, Pending,
                 ClosedIsFollowed, DropsWhileReplying
  <1>16. CASE UNCHANGED vars
    BY <1>2, <1>16 DEF vars, hubVars, taskVars, hostVars
  <1> QED
    BY <1>3, <1>4, <1>5, <1>6, <1>7, <1>8, <1>9, <1>10, <1>11, <1>12, <1>13, <1>14,
       <1>15, <1>16 DEF Next, Host, Mux, Api

(* A pending entry whose request the host has closed is on its way out, in *)
(* every life of the bridge: the consumer is about to drop it, or its      *)
(* resolved frame is coming, or was lost with a connection.                *)
THEOREM StaleEntriesGoAway == Spec => []StaleEntriesHaveACause
  <1>1. Init => CauseInv
    BY DEF Init, CauseInv, StaleEntriesHaveACause, ClosedIsFollowed, DropsWhileReplying,
           Pending
  <1>2. TypeOK /\ CauseInv /\ [Next]_vars => CauseInv'
    BY CauseStep
  <1>3. CauseInv => StaleEntriesHaveACause
    BY DEF CauseInv
  <1> QED
    BY <1>1, <1>2, <1>3, TypeCorrect, PTL DEF Spec

-----------------------------------------------------------------------------
(* What replies to a shown request meet. *)

(* What comes first for a conversation, when r is registered there, is r   *)
(* or was put into the table before it.                                    *)
LEMMA FirstIsOlder ==
  ASSUME TypeOK, OrderInv, NEW c \in Conversations, NEW r \in Requests, c \in pending[r]
  PROVE  \E q \in FirstPending(c, KindOf[r]) : q \in Pending /\ (q = r \/ <<q, r>> \in older)
  <1>1. r \in Candidates(c, KindOf[r]) /\ r \in Pending
    BY DEF Candidates, Pending
  <1>2. PICK q \in Candidates(c, KindOf[r]) : q \in FirstPending(c, KindOf[r])
    BY <1>1, FirstPendingUnique
  <1>3. q \in Pending
    BY <1>2 DEF Candidates, Pending
  <1>4. <<r, q>> \notin older
    BY <1>1, <1>2 DEF FirstPending
  <1>5. q = r \/ <<q, r>> \in older
    BY <1>1, <1>3, <1>4 DEF OrderInv
  <1> QED
    BY <1>2, <1>3, <1>5

(* Until the bridge restarts, a request that a conversation was shown and  *)
(* that is still open stays registered for it, and a reply there meets it  *)
(* or an older request of its kind that is open, about to leave the table, *)
(* or closed with its resolved frame lost, whatever replies, API calls,    *)
(* notices, reconnects and rebindings come in between.                     *)
THEOREM ShownRequestsStayAnswerable ==
  ASSUME MaxRestarts = 0
  PROVE  Spec => []ShownRequestsAnswerable
  <1>1. ASSUME TypeOK, HubInv, OrderInv, StaleEntriesHaveACause,
               NEW c \in Conversations, NEW r \in shown[c], host[r] = "open"
        PROVE  c \in pending[r] /\ MeetsOrQueuesFor(c, r)
    <2>1. r \in Requests
      BY <1>1 DEF TypeOK
    <2>2. c \in pending[r]
      BY <1>1, <2>1 DEF HubInv, ShowingIsPending
    <2>3. PICK q \in FirstPending(c, KindOf[r]) :
            q \in Pending /\ (q = r \/ <<q, r>> \in older)
      BY <1>1, <2>1, <2>2, FirstIsOlder
    <2>4. host[q] \in {"unasked", "open", "closed"} /\ host[q] # "unasked"
      BY <1>1, <2>3 DEF Pending, TypeOK, HubInv, PendingIsIndexed, Raised
    <2>5. host[q] = "open" \/ Leaving(q) \/ q \in lost
      BY <1>1, <2>3, <2>4 DEF StaleEntriesHaveACause, Leaving
    <2> QED
      BY <2>2, <2>3, <2>5 DEF MeetsOrQueuesFor
  <1>2. TypeOK /\ HubInv /\ OrderInv /\ StaleEntriesHaveACause => ShownRequestsAnswerable
    BY <1>1 DEF ShownRequestsAnswerable
  <1> QED
    BY <1>2, TypeCorrect, HubInvariant, OrderInvariant, StaleEntriesGoAway, PTL
=============================================================================
