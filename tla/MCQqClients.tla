---------------------------- MODULE MCQqClients ----------------------------
(* The two clients of QqGateway for TLC: a behaviour has one of them. *)
EXTENDS PluginSocket, QqOfficial

VARIABLE client   (* "plugin" or "channel" *)

clientsVars == <<vars, client>>
HasPlugin  == client = "plugin" /\ UNCHANGED client
HasChannel == client = "channel" /\ UNCHANGED <<client, queue>>

ClientsInit == Init /\ client \in {"plugin", "channel"}
ClientsNext == (HasPlugin /\ Next) \/ (HasChannel /\ ChannelNext)

(* The fairness of FairSpec, of whichever client there is. *)
ClientsSpec ==
  /\ ClientsInit /\ [][ClientsNext]_clientsVars
  /\ WF_clientsVars(HasPlugin /\ Client)
  /\ WF_clientsVars(HasChannel /\ Channel)
  /\ WF_clientsVars(Answers /\ UNCHANGED <<queue, client>>)
=============================================================================
