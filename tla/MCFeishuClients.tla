--------------------------- MODULE MCFeishuClients ---------------------------
(* The two clients of FeishuEvents for TLC: a behaviour has one of them. *)
EXTENDS FeishuSocket, FeishuChannel

VARIABLE client   (* "plugin" or "channel" *)

clientsVars == <<vars, client>>
HasPlugin  == client = "plugin" /\ UNCHANGED client
HasChannel == client = "channel" /\ UNCHANGED <<client, queue>>

ClientsInit == Init /\ client \in {"plugin", "channel"}
ClientsNext == (HasPlugin /\ Next) \/ (HasChannel /\ ChannelNext)

(* The event loops run what can run; the calls they make return or fail.   *)
ClientsSpec ==
  /\ ClientsInit /\ [][ClientsNext]_clientsVars
  /\ WF_clientsVars(HasPlugin /\ Client)
  /\ WF_clientsVars(HasChannel /\ Channel)
=============================================================================
