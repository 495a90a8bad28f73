---------------------------- MODULE InNetProducer ----------------------------
(***************************************************************************)
(* InNetProducer::Listen: one thread that in turn accepts a connection,    *)
(* reads one that is ready, runs the event through its main block and      *)
(* sends it back, until Ctrl-C or an error.                                *)
(***************************************************************************)
EXTENDS Sockets

VARIABLES
  innet,   \* each server: where it is, the connection it works for, SIGINT
  passes   \* history: how often each event went through a server's block

innetVars == <<innet, passes>>

NoEvent == <<>>

InNetInit ==
  /\ innet = [s \in Servers |->
                [pc |-> "listen", sock |-> NoSocket, event |-> NoEvent, sig |-> FALSE]]
  /\ passes = [e \in Events |-> 0]

\* The server socket exists, so that a client can connect.
Listening == {s \in Servers : innet[s].pc \notin {"stopped", "died"}}

\* "Use number of clients as our load measure".
Load(s) == Cardinality(AtServer(s, "listed"))

Accepted(k, header) ==
  [conns EXCEPT ![k].at = "listed", ![k].toClient = header]

\* A pass of the loop accepts, if a connection is there, then selects.  Both are
\* steps of their own; a Ctrl-C counts from the end of the pass that it falls in.
InLoop(s) == innet[s].pc = "listen" /\ ~innet[s].sig

\* Sending the header to a peer that left fails, or the header is lost.
Accept(s) ==
  /\ InLoop(s)
  /\ \E k \in AtServer(s, "backlog") :
       IF Up(k) THEN conns' = Accepted(k, << <<Load(s)>> >>)
       ELSE \/ conns' = Accepted(k, <<>>)
            \/ conns' = Tidy(CloseServerEnds(conns, {k}))
  /\ UNCHANGED <<faults, innetVars>>

\* What TMonitor::Select returns: a connection with data, or one that ended.
Ready(s) == {k \in AtServer(s, "listed") : conns[k].toServer # <<>> \/ ~Up(k)}

\* The block begins with the event.
ReadEvent(s) ==
  /\ InLoop(s)
  /\ \E k \in Ready(s) :
       /\ conns[k].toServer # <<>>
       /\ LET e == Head(conns[k].toServer) IN
          /\ innet' = [innet EXCEPT ![s].pc = "reply", ![s].sock = k, ![s].event = e]
          /\ passes' = [passes EXCEPT ![e] = @ + 1]
       /\ conns' = [conns EXCEPT ![k].toServer = Tail(@)]
  /\ UNCHANGED faults

Removed(k) == Tidy(CloseServerEnds(conns, {k}))

\* "Other side closed connection": a broken one may look like that, too.
ReadClosed(s) ==
  /\ InLoop(s)
  /\ \E k \in Ready(s) :
       /\ conns[k].toServer = <<>>
       /\ conns' = Removed(k)
  /\ UNCHANGED <<faults, innetVars>>

\* Mutant of EndListen: the sockets in the list are not freed.
EndListenOnly(s, how) ==
  /\ conns' = Tidy(CloseServerEnds(conns, AtServer(s, "backlog")))
  /\ innet' = [innet EXCEPT ![s].pc = how]
  /\ UNCHANGED <<faults, passes>>

\* "Free up sockets": the end of Listen, for all connections of the server.
EndListen(s, how) ==
  /\ conns' = Tidy(CloseServerEnds(conns, AtServer(s, "listed") \cup AtServer(s, "backlog")))
  /\ innet' = [innet EXCEPT ![s].pc = how]
  /\ UNCHANGED <<faults, passes>>

\* "Real error": Listen returns false, and the command is fatal.
ReadError(s) ==
  /\ InLoop(s)
  /\ \E k \in Ready(s) : conns[k].toServer = <<>> /\ conns[k].link = "broken"
  /\ EndListen(s, "died")

\* Mutant of Answer: the answer goes to any client that can take one.
AnswerAny(s) ==
  Accepted(CHOOSE k \in AtServer(s, "listed") : Up(k) /\ conns[k].toClient = <<>>,
           <<innet[s].event>>)

Answer(s) == Accepted(innet[s].sock, <<innet[s].event>>)

\* "Send updated event back to client"; when that fails, the client is dropped.
Reply(s) ==
  /\ innet[s].pc = "reply"
  /\ IF Up(innet[s].sock) THEN conns' = Answer(s)
     ELSE UNCHANGED conns \/ conns' = Removed(innet[s].sock)
  /\ innet' = [innet EXCEPT ![s].pc = "listen", ![s].sock = NoSocket, ![s].event = NoEvent]
  /\ UNCHANGED <<faults, passes>>

Stop(s) ==
  /\ innet[s].pc = "listen" /\ innet[s].sig
  /\ EndListen(s, "stopped")

ServerSigInt(s) ==
  /\ s \in Listening /\ ~innet[s].sig
  /\ Disturb
  /\ innet' = [innet EXCEPT ![s].sig = TRUE]
  /\ UNCHANGED <<conns, passes>>

Select(s) ==
  \/ ReadEvent(s)
  \/ ReadClosed(s)
  \/ ReadError(s)

Server(s) ==
  \/ Accept(s)
  \/ Select(s)
  \/ Reply(s)
  \/ Stop(s)

=============================================================================
