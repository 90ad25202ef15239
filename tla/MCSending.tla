----------------------------- MODULE MCSending -----------------------------
(* The channels of Sending for TLC: a behaviour has one kind of them. *)
EXTENDS OneBotSending, HttpSending, TLC

CONSTANTS consumer, mux

(* The consumer's text goes out in two parts. *)
LongAndShort == consumer :> 2 @@ mux :> 1

VARIABLE channel   (* "onebot" or "http" *)

sendingVars == <<taskVars, historyVars, oneBotVars, httpVars, channel>>
OnOneBot == channel = "onebot" /\ UNCHANGED <<httpVars, channel>>
OnHttp   == channel = "http" /\ UNCHANGED <<oneBotVars, channel>>

SendersInit == SendingInit /\ OneBotInit /\ HttpInit /\ channel \in {"onebot", "http"}
SendersNext == (OnOneBot /\ OneBotNext) \/ (OnHttp /\ HttpNext)

(* The event loop runs a task whose await is over, timers fire and the     *)
(* calls of threads time out.  Nothing is asked of the other side.         *)
SendersSpec ==
  /\ SendersInit /\ [][SendersNext]_sendingVars
  /\ \A t \in Tasks :
       WF_sendingVars((OnOneBot /\ OneBotProceeds(t)) \/ (OnHttp /\ HttpProceeds(t)))
=============================================================================
