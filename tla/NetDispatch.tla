----------------------------- MODULE NetDispatch -----------------------------
(***************************************************************************)
(* Jobs with an outnet processor that spread their events over jobs with   *)
(* an innet producer: clients, servers and the network between them.       *)
(***************************************************************************)
EXTENDS OutNetProc, InNetProducer

vars == <<socketVars, outnetVars, innetVars>>

Init == SocketInit /\ OutNetInit /\ InNetInit

ClientStep(c) == Client(c, Listening) /\ UNCHANGED innetVars
ServerStep(s) == Server(s) /\ UNCHANGED outnetVars

Network == \E k \in DOMAIN conns : Break(k) /\ UNCHANGED <<outnetVars, innetVars>>
User == \E s \in Servers : ServerSigInt(s) /\ UNCHANGED outnetVars

Next ==
  \/ \E c \in Clients : ClientStep(c)
  \/ \E s \in Servers : ServerStep(s)
  \/ Network
  \/ User

\* Each job is a thread that runs on; the network and the user owe nothing.
Fairness ==
  /\ \A c \in Clients : WF_vars(ClientStep(c))
  /\ \A s \in Servers : WF_vars(ServerStep(s))

Spec == Init /\ [][Next]_vars /\ Fairness

-----------------------------------------------------------------------------
(* Properties.                                                             *)

(* What a client reads when it waits for an event is that event: an answer *)
(* to an earlier one, or to another client, or a late answer after a       *)
(* retry, is never taken for it (OutNetProc::DSEvent, InNetProducer's      *)
(* SendObject).                                                            *)
AnswersAreOwn ==
  \A c \in Clients :
    outnet[c].pc = "wait" /\ conns[outnet[c].socket].toClient # <<>> =>
      conns[outnet[c].socket].toClient = << <<c, outnet[c].event>> >>

(* Every event that outnet returned OK for went through a server's main    *)
(* block, also when connections broke and servers left (DSEvent ends the   *)
(* job rather than go on with an event that did not come back).            *)
NoEventSkipped ==
  \A c \in Clients : \A e \in resumed[c] : passes[<<c, e>>] >= 1

(* A retry may run an event through a second server's block, but no event  *)
(* goes through more blocks than the first try and the retries allow.      *)
PassesBounded ==
  \A e \in Events : passes[e] <= MaxRetries + 1

(* Every event that goes on was processed, and not more often than allowed.*)
EventsAreProcessed == NoEventSkipped /\ PassesBounded

\* Connections that a client holds open beside those it still knows.
UsedBy(c) == {outnet[c].socket, outnet[c].best, outnet[c].trying}
Ghosts(c) == {k \in OwnSockets(c) : Up(k)} \ UsedBy(c)

(* A connection that is up although its client will never use it again,    *)
(* which its server counts for ever, was fSocket when the macro set host   *)
(* once more: a client has fewer of them than it had settings, and         *)
(* PickServer's search (which deletes what it does not choose) and all     *)
(* retries (which replace a dead socket) leave none.                       *)
GhostsOnlyFromSettings ==
  \A c \in Clients : Ghosts(c) # {} => Cardinality(Ghosts(c)) < outnet[c].settings

\* Retries used up by sending: DSEvent waits for an event that it did not send.
WaitsForNothing(c) == outnet[c].pc = "wait" /\ outnet[c].retries < 0

(* A client that looks for a server, sends or waits gets its event back or *)
(* ends, whatever connections break and servers stop, unless it used up    *)
(* its retries while sending (OutNetProc::DSEvent, Connect and PickServer, *)
(* InNetProducer::Listen).                                                 *)
ClientsAreServed ==
  \A c \in Clients :
    outnet[c].pc \in {"connect", "header", "send", "wait"} ~>
      outnet[c].pc \in {"idle", "done", "died"} \/ WaitsForNothing(c)

=============================================================================
