------------------------------- MODULE Sockets -------------------------------
(***************************************************************************)
(* The TCP connections (ROOT's TSocket) between outnet processors and      *)
(* innet producers.  TCP is external: a connection carries messages in     *)
(* order until one end closes it or the network breaks it; what was on its *)
(* way when it broke may or may not still be read.                         *)
(***************************************************************************)
EXTENDS Integers, Sequences, FiniteSets

CONSTANTS
  Clients,     \* jobs with an outnet processor
  Servers,     \* jobs that listen with innet
  MaxEvents,   \* bound: events of a client
  MaxSockets,  \* bound: connections of a client that exist at a time
  MaxFaults    \* bound: connections that break and servers that get a Ctrl-C

ASSUME SocketAssumption ==
  /\ IsFiniteSet(Clients)
  /\ MaxEvents \in Nat /\ MaxSockets \in Nat /\ MaxFaults \in Nat

VARIABLES
  conns,   \* the connections at least one end still holds
  faults   \* connections broken and servers stopped so far

socketVars == <<conns, faults>>

\* A connection is named by its client and a number.
NoSocket == <<>>
SocketIds == Clients \X (1 .. MaxSockets)

\* An event is its client and number.
Events == Clients \X (1 .. MaxEvents)

\* A connection has its server, its link ("up", "closed" or "broken"), whether the
\* client end is open, where the server end is (in the listen queue, "backlog", in
\* innet's list of sockets, "listed", or "gone"), and what is on its way: events,
\* and to the client also innet's header, which is its load.
SocketInit == conns = <<>> /\ faults = 0

Unused(c) == {n \in 1 .. MaxSockets : <<c, n>> \notin DOMAIN conns}
NextSocket(c) == <<c, CHOOSE n \in Unused(c) : \A m \in Unused(c) : n <= m>>
OwnSockets(c) == {k \in DOMAIN conns : k[1] = c}

Up(k) == conns[k].link = "up"
AtServer(s, place) == {k \in DOMAIN conns : conns[k].server = s /\ conns[k].at = place}

\* A connection is forgotten when neither end holds it.
Tidy(cs) ==
  [k \in {j \in DOMAIN cs : cs[j].open \/ cs[j].at # "gone"} |-> cs[k]]

Connect(c, s) ==
  [k \in DOMAIN conns \cup {NextSocket(c)} |->
     IF k \in DOMAIN conns THEN conns[k]
     ELSE [server |-> s, link |-> "up", open |-> TRUE, at |-> "backlog",
           toServer |-> <<>>, toClient |-> <<>>]]

Closed(link) == IF link = "up" THEN "closed" ELSE link

\* "delete socket": what was sent before can still be read at the other end.
CloseClientEnds(cs, ks) ==
  [k \in DOMAIN cs |->
     IF k \in ks THEN [cs[k] EXCEPT !.open = FALSE, !.link = Closed(@), !.toClient = <<>>]
                 ELSE cs[k]]
CloseServerEnds(cs, ks) ==
  [k \in DOMAIN cs |->
     IF k \in ks THEN [cs[k] EXCEPT !.at = "gone", !.link = Closed(@), !.toServer = <<>>]
                 ELSE cs[k]]

Disturb == faults < MaxFaults /\ faults' = faults + 1

\* The network breaks a connection, and may lose what it carries.
Break(k) ==
  /\ Up(k) /\ Disturb
  /\ \E request \in {conns[k].toServer, <<>>}, answer \in {conns[k].toClient, <<>>} :
       conns' = [conns EXCEPT ![k].link = "broken", ![k].toServer = request,
                              ![k].toClient = answer]

=============================================================================
