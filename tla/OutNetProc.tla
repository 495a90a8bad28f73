------------------------------ MODULE OutNetProc ------------------------------
(***************************************************************************)
(* The outnet processor: picks the server with the smallest load, sends it *)
(* each event, and waits for the event to come back; on a failure it picks *)
(* a server again and resends, as long as it has retries.                  *)
(***************************************************************************)
EXTENDS Sockets

CONSTANTS
  LongVersion, \* RATVERSION fills the words that Connect reads the load from
  MaxRetries,  \* "int retries = 5"
  HostLists,   \* the values a macro may give host, with their port ranges expanded
  MaxSettings  \* bound: how often it sets host

ASSUME OutNetAssumption ==
  /\ MaxRetries \in Nat /\ LongVersion \in BOOLEAN
  /\ HostLists \subseteq Seq(Servers) /\ MaxSettings \in Nat

VARIABLES
  outnet,   \* each client: where it is, fVersionCheck, fHostlist and fSocket; the locals of
            \* PickServer (position in the list, minLoadSocket, the load it announced; where
            \* it was called from) and Connect (socket), and of DSEvent (retries, the
            \* event's number); and how often host was set
  resumed   \* history: events that DSEvent returned OK for

outnetVars == <<outnet, resumed>>

OutNetInit ==
  /\ \E check \in [Clients -> BOOLEAN] :
       outnet = [c \in Clients |->
                   [pc |-> "macro", versionCheck |-> check[c], hosts |-> <<>>,
                    socket |-> NoSocket, host |-> 1, trying |-> NoSocket,
                    best |-> NoSocket, minLoad |-> 0, back |-> "idle",
                    retries |-> -1, event |-> 0, settings |-> 0]]
  /\ resumed = [c \in Clients |-> {}]

\* The job ends: its process, with all its sockets, or the processor alone.
Leave(c, how) ==
  /\ outnet' = [outnet EXCEPT ![c].pc = how, ![c].socket = NoSocket, ![c].best = NoSocket,
                              ![c].trying = NoSocket, ![c].minLoad = 0]
  /\ conns' = Tidy(CloseClientEnds(conns, OwnSockets(c)))

\* PickServer begins; it returns to the macro or to DSEvent.
Picking(r, back) == [r EXCEPT !.pc = "connect", !.host = 1, !.back = back]

\* /rat/procset host, before the first events or between any two.
SetHost(c) ==
  /\ outnet[c].pc \in {"macro", "idle"} /\ outnet[c].settings < MaxSettings
  /\ \E hosts \in HostLists :
       LET set == [outnet[c] EXCEPT !.hosts = hosts, !.settings = @ + 1]
       IN  outnet' = [outnet EXCEPT ![c] = Picking(set, "idle")]
  /\ UNCHANGED <<socketVars, resumed>>

HostsLeft(c) == outnet[c].host <= Len(outnet[c].hosts)

\* Connect to the next host, if it listens.
TryHost(c, listening) ==
  LET s == outnet[c].hosts[outnet[c].host] IN
  /\ outnet[c].pc = "connect" /\ HostsLeft(c)
  /\ IF s \in listening
       THEN /\ Unused(c) # {}
            /\ conns' = Connect(c, s)
            /\ outnet' = [outnet EXCEPT ![c].pc = "header", ![c].trying = NextSocket(c)]
       ELSE /\ UNCHANGED conns
            /\ outnet' = [outnet EXCEPT ![c].host = @ + 1]
  /\ UNCHANGED <<faults, resumed>>

\* The version was written as an array and is read as an integer, so that a long one is
\* what the load is read from: the same number for every server of that version.
LoadRead(load) == IF LongVersion THEN 0 ELSE load

\* The next host, keeping best as the one to beat.
NextHost(c, best, load) ==
  outnet' = [outnet EXCEPT ![c].pc = "connect", ![c].host = @ + 1, ![c].trying = NoSocket,
                           ![c].best = best, ![c].minLoad = load]

\* Mutant of DeleteBest: the socket that was best before is not deleted.
KeepBest(cs, c) == cs

DeleteBest(cs, c) == Tidy(CloseClientEnds(cs, {outnet[c].best}))

\* The header arrives.  With the version check the integer read from it is
\* compared with the version string, and never equals it.
ReadHeader(c) ==
  LET r == outnet[c]
      load == Head(conns[r.trying].toClient)[1]
      read == [conns EXCEPT ![r.trying].toClient = <<>>]
  IN
  /\ r.pc = "header" /\ conns[r.trying].toClient # <<>>
  /\ IF ~r.versionCheck /\ (r.best = NoSocket \/ LoadRead(load) < LoadRead(r.minLoad))
       THEN NextHost(c, r.trying, load) /\ conns' = DeleteBest(read, c)
       ELSE NextHost(c, r.best, r.minLoad)
            /\ conns' = Tidy(CloseClientEnds(read, {r.trying}))
  /\ UNCHANGED <<faults, resumed>>

\* The connection ends before the header arrives.
HeaderFails(c) ==
  LET r == outnet[c] IN
  /\ r.pc = "header" /\ conns[r.trying].toClient = <<>> /\ ~Up(r.trying)
  /\ NextHost(c, r.best, r.minLoad)
  /\ conns' = Tidy(CloseClientEnds(conns, {r.trying}))
  /\ UNCHANGED <<faults, resumed>>

\* PickServer returns.  It overwrites fSocket without deleting the old socket, whose end
\* at the client stays open: still up after a setting, dead after a retry, when nothing
\* more is heard of it.
Picked(c) ==
  LET r == outnet[c] IN
  /\ r.pc = "connect" /\ ~HostsLeft(c) /\ r.best # NoSocket
  /\ outnet' = [outnet EXCEPT ![c].pc = r.back, ![c].socket = r.best, ![c].best = NoSocket,
                              ![c].minLoad = 0, ![c].host = 1]
  /\ conns' = Tidy(CloseClientEnds(conns,
                     {k \in {r.socket} : k \in DOMAIN conns /\ ~Up(k)}))
  /\ UNCHANGED <<faults, resumed>>

\* "Could not locate a suitable server!": fatal in a macro, uncaught in DSEvent.
NoServer(c) ==
  /\ outnet[c].pc = "connect" /\ ~HostsLeft(c) /\ outnet[c].best = NoSocket
  /\ Leave(c, "died")
  /\ UNCHANGED <<faults, resumed>>

-----------------------------------------------------------------------------
(* DSEvent.                                                                *)

StartEvent(c) ==
  /\ outnet[c].pc = "idle" /\ outnet[c].event < MaxEvents
  /\ outnet' = [outnet EXCEPT ![c].pc = "send", ![c].event = @ + 1,
                              ![c].retries = MaxRetries]
  /\ UNCHANGED <<socketVars, resumed>>

\* Mutant of Retry: the retries are not counted.
RetryForever(r) == Picking(r, "send")

Retry(r) == Picking([r EXCEPT !.retries = @ - 1], "send")

\* On a dead connection sending fails, or seems to succeed and the event is lost.
\* Once sending has used up the retries, DSEvent reads without having sent.
Send(c) ==
  LET r == outnet[c] IN
  /\ r.pc = "send"
  /\ \/ /\ r.retries >= 0 /\ Up(r.socket)
        /\ conns' = [conns EXCEPT ![r.socket].toServer = << <<c, r.event>> >>]
        /\ outnet' = [outnet EXCEPT ![c].pc = "wait"]
     \/ /\ r.retries >= 0 /\ ~Up(r.socket)
        /\ outnet' = [outnet EXCEPT ![c] = Retry(@)]
        /\ UNCHANGED conns
     \/ /\ r.retries < 0 \/ ~Up(r.socket)
        /\ outnet' = [outnet EXCEPT ![c].pc = "wait"]
        /\ UNCHANGED conns
  /\ UNCHANGED <<faults, resumed>>

\* The event comes back and replaces the client's copy.
Receive(c) ==
  LET r == outnet[c] IN
  /\ r.pc = "wait" /\ conns[r.socket].toClient # <<>>
  /\ conns' = [conns EXCEPT ![r.socket].toClient = <<>>]
  /\ outnet' = [outnet EXCEPT ![c].pc = "idle", ![c].retries = -1]
  /\ resumed' = [resumed EXCEPT ![c] = @ \cup {r.event}]
  /\ UNCHANGED faults

ReadFailed(c) ==
  outnet[c].pc = "wait" /\ conns[outnet[c].socket].toClient = <<>> /\ ~Up(outnet[c].socket)

ReceiveFails(c) ==
  /\ ReadFailed(c) /\ outnet[c].retries > 0
  /\ outnet' = [outnet EXCEPT ![c] = Retry(@)]
  /\ UNCHANGED <<socketVars, resumed>>

\* "Aborting run due to network error."
GiveUp(c) == Leave(c, "died") /\ UNCHANGED resumed

OutOfRetries(c) ==
  /\ ReadFailed(c) /\ outnet[c].retries <= 0
  /\ GiveUp(c)
  /\ UNCHANGED faults

\* The macro is over, and ~OutNetProc deletes fSocket.
EndJob(c) ==
  /\ outnet[c].pc = "idle"
  /\ Leave(c, "done")
  /\ UNCHANGED <<faults, resumed>>

Client(c, listening) ==
  \/ SetHost(c)
  \/ TryHost(c, listening)
  \/ ReadHeader(c)
  \/ HeaderFails(c)
  \/ Picked(c)
  \/ NoServer(c)
  \/ StartEvent(c)
  \/ Send(c)
  \/ Receive(c)
  \/ ReceiveFails(c)
  \/ OutOfRetries(c)
  \/ EndJob(c)

=============================================================================
