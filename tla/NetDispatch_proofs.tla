------------------------- MODULE NetDispatch_proofs -------------------------
(***************************************************************************)
(* Proofs about NetDispatch, for any clients, servers, host lists, retries *)
(* and faults: no client takes another event for the one it waits for, no  *)
(* event goes on unprocessed or is processed more often than the retries   *)
(* allow, and only setting the host again leaves a connection in use.      *)
(***************************************************************************)
EXTENDS NetDispatch, FiniteSetTheorems, NaturalsInduction, WellFoundedInduction, TLAPS

-----------------------------------------------------------------------------
(* The inductive invariant.                                                *)

Requests == {<<>>} \cup {<<e>> : e \in Events}
Headers == {<< <<n>> >> : n \in Nat}
Conn ==
  [server : Servers, link : {"up", "closed", "broken"}, open : BOOLEAN,
   at : {"backlog", "listed", "gone"}, toServer : Requests, toClient : Requests \cup Headers]
Sock == SocketIds \cup {NoSocket}
ClientRec ==
  [pc : {"macro", "connect", "header", "idle", "send", "wait", "done", "died"},
   versionCheck : BOOLEAN, hosts : Seq(Servers), socket : Sock, host : Nat \ {0},
   trying : Sock, best : Sock, minLoad : Nat, back : {"idle", "send"}, retries : Int,
   event : 0 .. MaxEvents, settings : Nat]
ServerRec ==
  [pc : {"listen", "reply", "stopped", "died"}, sock : Sock, event : Events \cup {NoEvent},
   sig : BOOLEAN]

NetTypeOK ==
  /\ DOMAIN conns \subseteq SocketIds /\ conns \in [DOMAIN conns -> Conn]
  /\ faults \in Nat
  /\ outnet \in [Clients -> ClientRec]
  /\ resumed \in [Clients -> SUBSET (1 .. MaxEvents)]
  /\ innet \in [Servers -> ServerRec]
  /\ passes \in [Events -> Nat]

\* PickServer runs.
Picks(r) == r.pc \in {"connect", "header"}

\* The sockets that a client's locals hold at each place.  PickServer was called by a
\* macro between two events, or by DSEvent when the socket it had was dead.
Place(c) ==
  LET r == outnet[c] IN
  /\ r.trying # NoSocket <=> r.pc = "header"
  /\ r.pc \in {"macro", "done", "died"} => r.socket = NoSocket /\ r.best = NoSocket
  /\ r.pc \in {"idle", "send", "wait"} => r.socket # NoSocket /\ r.best = NoSocket
  /\ r.pc \in {"send", "wait"} => r.event # 0
  /\ r.pc \in {"macro", "idle"} \/ (Picks(r) /\ r.back = "idle") => r.retries = -1
  /\ Picks(r) /\ r.back = "send" =>
       r.event # 0 /\ r.socket # NoSocket /\ ~Up(r.socket)

\* They are its own, distinct and open.
Held(c) == {outnet[c].socket, outnet[c].best, outnet[c].trying} \ {NoSocket}
Holds(c) ==
  LET r == outnet[c] IN
  /\ \A k \in Held(c) : k \in DOMAIN conns /\ conns[k].open /\ k[1] = c
  /\ r.best # NoSocket => r.best \notin {r.socket, r.trying}
  /\ r.trying # NoSocket => r.trying # r.socket

\* A connection is open at one end at least, and at its client's if it is up.  A header
\* is on its way only to the socket that is tried, an event only over the one that is
\* used, while it is waited for, and only in one direction.
Waits(k) == k = outnet[k[1]].socket /\ outnet[k[1]].pc = "wait"
Current(k) == <<k[1], outnet[k[1]].event>>
Link(k) ==
  LET x == conns[k] IN
  /\ x.open \/ x.at # "gone"
  /\ Up(k) => x.open
  /\ x.at = "backlog" => x.toClient = <<>> /\ (Up(k) => k = outnet[k[1]].trying)
  /\ x.toClient # <<>> =>
       \/ k = outnet[k[1]].trying /\ x.toClient \in Headers
       \/ Waits(k) /\ x.toClient = <<Current(k)>> /\ passes[Current(k)] >= 1
  /\ x.toServer # <<>> /\ Up(k) =>
       Waits(k) /\ x.toServer = <<Current(k)>> /\ x.toClient = <<>>

\* The event that a server works on is the one its client waits for, if that
\* client can still be answered.
Serves(s) ==
  innet[s].pc = "reply" =>
    LET k == innet[s].sock
        e == innet[s].event IN
    /\ k \in DOMAIN conns /\ conns[k].server = s /\ conns[k].at = "listed"
    /\ e \in Events /\ passes[e] >= 1
    /\ Up(k) => /\ Waits(k) /\ e = Current(k)
                /\ conns[k].toServer = <<>> /\ conns[k].toClient = <<>>

NetInv ==
  /\ NetTypeOK
  /\ \A c \in Clients : Place(c) /\ Holds(c)
  /\ \A k \in DOMAIN conns : Link(k)
  /\ \A s \in Servers : Serves(s)
  /\ NoEventSkipped

-----------------------------------------------------------------------------
(* Connections.                                                            *)

LEMMA SocketIdShape ==
  /\ NoSocket \notin SocketIds
  /\ \A k \in SocketIds : k[1] \in Clients
  /\ \A e \in Events : e[1] \in Clients /\ e[2] \in 1 .. MaxEvents
BY DEF NoSocket, SocketIds, Events

(* The number of a new connection is not in use.                           *)
LEMMA NextSocketIsNew ==
  ASSUME NEW c \in Clients, Unused(c) # {}
  PROVE  NextSocket(c) \in SocketIds /\ NextSocket(c) \notin DOMAIN conns /\ NextSocket(c)[1] = c
<1> DEFINE R == {p \in Nat \X Nat : p[1] < p[2]}
           U == Unused(c)
<1>1. U \subseteq Nat
  BY SocketAssumption DEF Unused
<1>2. IsWellFoundedOn(R, Nat)
  BY NatLessThanWellFounded DEF OpToRel
<1>3. PICK n \in U : \A m \in U : n <= m
  <2>1. IsWellFoundedOn(R, U)
    BY <1>1, <1>2, IsWellFoundedOnSubset
  <2>2. \E n \in U : \A m \in U : ~(<<m, n>> \in R)
    <3> HIDE DEF R, U
    <3> QED BY <2>1, WFMin DEF U
  <2>3. PICK n \in U : \A m \in U : ~(<<m, n>> \in R)
    BY <2>2
  <2>4. ASSUME NEW m \in U PROVE n <= m
    <3>1. n \in Nat /\ m \in Nat /\ ~(m < n)
      BY <1>1, <2>3
    <3> QED BY <3>1
  <2> QED BY <2>4
<1> DEFINE min == CHOOSE i \in Unused(c) : \A m \in Unused(c) : i <= m
<1>4. min \in Unused(c)
  BY <1>3, Zenon
<1>5. NextSocket(c) = <<c, min>>
  BY DEF NextSocket
<1> HIDE DEF min
<1> QED BY <1>4, <1>5 DEF Unused, SocketIds

(* Closing client ends: those connections carry nothing more to the client *)
(* and are not up, the others stay as they are, and only connections that  *)
(* nobody holds are forgotten.                                             *)
LEMMA ClientEndsClosed ==
  ASSUME NEW cs, cs \in [DOMAIN cs -> Conn], NEW ks,
         NEW new, new = Tidy(CloseClientEnds(cs, ks))
  PROVE  /\ DOMAIN new \subseteq DOMAIN cs /\ new \in [DOMAIN new -> Conn]
         /\ \A k \in DOMAIN cs :
              (k \notin ks /\ cs[k].open) \/ cs[k].at # "gone" => k \in DOMAIN new
         /\ \A k \in DOMAIN new : new[k].open \/ new[k].at # "gone"
         /\ \A k \in DOMAIN new \ ks : new[k] = cs[k]
         /\ \A k \in DOMAIN new \cap ks :
              /\ new[k].server = cs[k].server /\ new[k].at = cs[k].at
              /\ new[k].toServer = cs[k].toServer /\ new[k].toClient = <<>>
              /\ ~new[k].open /\ new[k].link = Closed(cs[k].link)
<1> DEFINE F(k) == [cs[k] EXCEPT !.open = FALSE, !.link = Closed(cs[k].link), !.toClient = <<>>]
           closed == CloseClientEnds(cs, ks)
<1>1. closed = [k \in DOMAIN cs |-> IF k \in ks THEN F(k) ELSE cs[k]]
  BY DEF CloseClientEnds
<1>2. ASSUME NEW k \in DOMAIN cs
      PROVE  /\ F(k) \in Conn /\ ~F(k).open /\ F(k).toClient = <<>>
             /\ F(k).at = cs[k].at /\ F(k).server = cs[k].server
             /\ F(k).toServer = cs[k].toServer /\ F(k).link = Closed(cs[k].link)
  <2>1. cs[k] \in Conn
    OBVIOUS
  <2>2. Closed(cs[k].link) \in {"up", "closed", "broken"}
    BY <2>1 DEF Closed, Conn
  <2> QED BY <2>1, <2>2 DEF Conn, Requests
<1> HIDE DEF F, closed
<1>3. new = [k \in {j \in DOMAIN closed : closed[j].open \/ closed[j].at # "gone"} |-> closed[k]]
  BY DEF Tidy, closed
<1>4. DOMAIN closed = DOMAIN cs
      /\ \A k \in DOMAIN cs : closed[k] = IF k \in ks THEN F(k) ELSE cs[k]
  BY <1>1
<1>5. /\ DOMAIN new = {j \in DOMAIN cs : closed[j].open \/ closed[j].at # "gone"}
      /\ \A k \in DOMAIN new : new[k] = closed[k]
  BY <1>3, <1>4
<1>6. new \in [DOMAIN new -> Conn]
  BY <1>2, <1>3, <1>4, <1>5
<1> QED BY <1>2, <1>4, <1>5, <1>6

(* Closing server ends, likewise.                                          *)
LEMMA ServerEndsClosed ==
  ASSUME NEW cs, cs \in [DOMAIN cs -> Conn], NEW ks,
         NEW new, new = Tidy(CloseServerEnds(cs, ks))
  PROVE  /\ DOMAIN new \subseteq DOMAIN cs /\ new \in [DOMAIN new -> Conn]
         /\ \A k \in DOMAIN cs :
              cs[k].open \/ (k \notin ks /\ cs[k].at # "gone") => k \in DOMAIN new
         /\ \A k \in DOMAIN new : new[k].open \/ new[k].at # "gone"
         /\ \A k \in DOMAIN new \ ks : new[k] = cs[k]
         /\ \A k \in DOMAIN new \cap ks :
              /\ new[k].server = cs[k].server /\ new[k].at = "gone"
              /\ new[k].toServer = <<>> /\ new[k].toClient = cs[k].toClient
              /\ new[k].open = cs[k].open /\ new[k].link = Closed(cs[k].link)
<1> DEFINE F(k) == [cs[k] EXCEPT !.at = "gone", !.link = Closed(cs[k].link), !.toServer = <<>>]
           closed == CloseServerEnds(cs, ks)
<1>1. closed = [k \in DOMAIN cs |-> IF k \in ks THEN F(k) ELSE cs[k]]
  BY DEF CloseServerEnds
<1>2. ASSUME NEW k \in DOMAIN cs
      PROVE  /\ F(k) \in Conn /\ F(k).at = "gone" /\ F(k).toServer = <<>>
             /\ F(k).open = cs[k].open /\ F(k).server = cs[k].server
             /\ F(k).toClient = cs[k].toClient /\ F(k).link = Closed(cs[k].link)
  <2>1. cs[k] \in Conn
    OBVIOUS
  <2>2. Closed(cs[k].link) \in {"up", "closed", "broken"}
    BY <2>1 DEF Closed, Conn
  <2> QED BY <2>1, <2>2 DEF Conn, Requests
<1> HIDE DEF F, closed
<1>3. new = [k \in {j \in DOMAIN closed : closed[j].open \/ closed[j].at # "gone"} |-> closed[k]]
  BY DEF Tidy, closed
<1>4. DOMAIN closed = DOMAIN cs
      /\ \A k \in DOMAIN cs : closed[k] = IF k \in ks THEN F(k) ELSE cs[k]
  BY <1>1
<1>5. /\ DOMAIN new = {j \in DOMAIN cs : closed[j].open \/ closed[j].at # "gone"}
      /\ \A k \in DOMAIN new : new[k] = closed[k]
  BY <1>3, <1>4
<1>6. new \in [DOMAIN new -> Conn]
  BY <1>2, <1>3, <1>4, <1>5
<1>7. ASSUME NEW k \in DOMAIN cs PROVE cs[k].open \in BOOLEAN
  <2>1. cs[k] \in Conn
    OBVIOUS
  <2> QED BY <2>1 DEF Conn
<1> QED BY <1>2, <1>4, <1>5, <1>6, <1>7

LEMMA SocketsAreFinite == IsFiniteSet(SocketIds)
<1>1. IsFiniteSet(1 .. MaxSockets)
  BY SocketAssumption, FS_Interval
<1> QED BY <1>1, SocketAssumption, FS_Product DEF SocketIds

(* The load of a server is a number: it has finitely many connections.     *)
LEMMA LoadIsNumber == ASSUME NetTypeOK, NEW s PROVE Load(s) \in Nat
<1>1. IsFiniteSet(SocketIds)
  BY SocketsAreFinite
<1>2. AtServer(s, "listed") \in SUBSET SocketIds
  BY DEF AtServer, NetTypeOK
<1>3. IsFiniteSet(AtServer(s, "listed"))
  BY <1>1, <1>2, FS_Subset
<1> QED BY <1>3, FS_CardinalityType DEF Load

-----------------------------------------------------------------------------
(* Frames: what a step that keeps to its own part leaves true of the rest. *)

(* What a step of the client c leaves alone: the other clients, their      *)
(* connections, and the servers with the connections they listed.          *)
KeepsOthers(c) ==
  /\ \A d \in Clients \ {c} : outnet'[d] = outnet[d] /\ resumed'[d] = resumed[d]
  /\ \A k \in DOMAIN conns' : k[1] # c => k \in DOMAIN conns
  /\ \A k \in DOMAIN conns :
       /\ k[1] # c => k \in DOMAIN conns' /\ conns'[k] = conns[k]
       /\ conns[k].at = "listed" =>
            /\ k \in DOMAIN conns' /\ conns'[k].at = "listed"
            /\ conns'[k].server = conns[k].server /\ (Up(k)' => Up(k))
  /\ UNCHANGED innetVars

\* No server can work for a client that waits and has its answer, or a dead socket.
Answered(c) ==
  outnet[c].pc = "wait" => conns[outnet[c].socket].toClient # <<>> \/ ~Up(outnet[c].socket)

LEMMA ClientFrame ==
  ASSUME NetInv, NetTypeOK', NEW c \in Clients, KeepsOthers(c), Answered(c),
         (Place(c) /\ Holds(c))',
         \A k \in DOMAIN conns' : k[1] = c => Link(k)',
         \A e \in resumed'[c] : passes[<<c, e>>] >= 1
  PROVE  NetInv'
<1>1. ASSUME NEW d \in Clients \ {c} PROVE (Place(d) /\ Holds(d))'
  <2>1. Place(d) /\ Holds(d) /\ outnet'[d] = outnet[d]
    BY DEF NetInv, KeepsOthers
  <2>2. ASSUME NEW k \in Held(d)
        PROVE  k \in DOMAIN conns /\ k \in DOMAIN conns' /\ conns'[k] = conns[k]
    BY <2>1 DEF Holds, KeepsOthers
  <2>3. Holds(d)'
    BY <2>1, <2>2 DEF Holds, Held
  <2>4. outnet[d].socket # NoSocket => conns'[outnet[d].socket] = conns[outnet[d].socket]
    BY <2>2 DEF Held
  <2> QED BY <2>1, <2>3, <2>4 DEF Place, Picks, Up
<1>2. ASSUME NEW k \in DOMAIN conns', k[1] # c PROVE Link(k)'
  <2>1. /\ k \in DOMAIN conns /\ conns'[k] = conns[k] /\ Link(k)
        /\ k[1] \in Clients \ {c}
    BY <1>2, SocketIdShape DEF NetInv, NetTypeOK, KeepsOthers
  <2>2. outnet'[k[1]] = outnet[k[1]] /\ passes' = passes
    BY <2>1 DEF KeepsOthers, innetVars
  <2> QED BY <2>1, <2>2 DEF Link, Held, Waits, Current, Up
<1>3. ASSUME NEW s \in Servers PROVE Serves(s)'
  <2> SUFFICES ASSUME innet'[s].pc = "reply" PROVE Serves(s)'
    BY DEF Serves
  <2>1. innet' = innet /\ passes' = passes /\ Serves(s)
    BY DEF NetInv, KeepsOthers, innetVars
  <2> DEFINE k == innet[s].sock
             e == innet[s].event
  <2>2. /\ k \in DOMAIN conns /\ conns[k].server = s /\ conns[k].at = "listed"
        /\ e \in Events /\ passes[e] >= 1
        /\ Up(k) => /\ Waits(k) /\ e = Current(k)
                    /\ conns[k].toServer = <<>> /\ conns[k].toClient = <<>>
    BY <2>1 DEF Serves
  <2>3. /\ k \in DOMAIN conns' /\ conns'[k].at = "listed" /\ conns'[k].server = s
        /\ conns'[k].link = "up" => Up(k)
    BY <2>2 DEF KeepsOthers, Up
  <2>4. Up(k) => k[1] # c
    BY <2>2 DEF Answered, Waits
  <2>5. Up(k) => conns'[k] = conns[k] /\ outnet'[k[1]] = outnet[k[1]]
    <3>1. k[1] \in Clients
      BY <2>2, SocketIdShape DEF NetInv, NetTypeOK
    <3> QED BY <2>2, <2>4, <3>1 DEF KeepsOthers
  <2>6. conns'[k].link = "up" =>
          /\ k = outnet'[k[1]].socket /\ outnet'[k[1]].pc = "wait"
          /\ e = <<k[1], outnet'[k[1]].event>>
          /\ conns'[k].toServer = <<>> /\ conns'[k].toClient = <<>>
    BY <2>2, <2>3, <2>5 DEF Waits, Current
  <2> QED BY <2>1, <2>2, <2>3, <2>6 DEF Serves, Up, Waits, Current
<1>4. NoEventSkipped'
  <2>1. passes' = passes /\ \A d \in Clients \ {c} : resumed'[d] = resumed[d]
    BY DEF KeepsOthers, innetVars
  <2> QED BY <2>1 DEF NoEventSkipped, NetInv
<1> QED BY <1>1, <1>2, <1>3, <1>4 DEF NetInv

\* What a step of a server or of the network leaves alone: the clients and the ends
\* they hold; no event is passed less often.
KeepsClients ==
  /\ UNCHANGED outnetVars
  /\ DOMAIN conns' \subseteq DOMAIN conns
  /\ \A k \in DOMAIN conns :
       /\ conns[k].open => k \in DOMAIN conns' /\ conns'[k].open
       /\ k \in DOMAIN conns' /\ Up(k)' => Up(k)
  /\ \A e \in Events : passes'[e] >= passes[e]

LEMMA ClientsKept ==
  ASSUME NetInv, NetTypeOK', KeepsClients
  PROVE  (\A c \in Clients : Place(c) /\ Holds(c))' /\ NoEventSkipped'
<1>1. outnet' = outnet /\ resumed' = resumed
  BY DEF KeepsClients, outnetVars
<1>2. ASSUME NEW c \in Clients PROVE (Place(c) /\ Holds(c))'
  <2>1. Place(c) /\ Holds(c)
    BY DEF NetInv
  <2>2. ASSUME NEW k \in Held(c)
        PROVE  k \in DOMAIN conns' /\ conns'[k].open /\ (Up(k)' => Up(k))
    BY <2>1 DEF Holds, KeepsClients
  <2>3. Holds(c)'
    BY <1>1, <2>1, <2>2 DEF Holds, Held
  <2>4. outnet[c].socket # NoSocket /\ conns'[outnet[c].socket].link = "up" =>
          Up(outnet[c].socket)
    BY <2>2 DEF Held, Up
  <2> QED BY <1>1, <2>1, <2>3, <2>4 DEF Place, Picks, Up
<1>3. NoEventSkipped'
  <2> SUFFICES ASSUME NEW c \in Clients, NEW e \in resumed[c]
               PROVE  passes'[<<c, e>>] >= 1
    BY <1>1 DEF NoEventSkipped
  <2>1. <<c, e>> \in Events /\ passes[<<c, e>>] >= 1
    BY DEF NetInv, NetTypeOK, Events, NoEventSkipped
  <2>2. passes[<<c, e>>] \in Nat /\ passes'[<<c, e>>] \in Nat
    BY <2>1 DEF NetInv, NetTypeOK
  <2> QED BY <2>1, <2>2 DEF KeepsClients
<1> QED BY <1>2, <1>3

(* A connection that such a step does not touch keeps its invariant.       *)
LEMMA LinkKept ==
  ASSUME NetInv, NetTypeOK', KeepsClients,
         NEW k \in DOMAIN conns, conns'[k] = conns[k]
  PROVE  Link(k)'
<1>1. Link(k) /\ outnet' = outnet
  BY DEF NetInv, KeepsClients, outnetVars
<1>2. Waits(k) => passes[Current(k)] \in Nat /\ passes'[Current(k)] \in Nat
                  /\ passes'[Current(k)] >= passes[Current(k)]
  <2> SUFFICES ASSUME Waits(k) PROVE Current(k) \in Events
    BY DEF NetInv, NetTypeOK, KeepsClients
  <2>1. k[1] \in Clients
    BY SocketIdShape DEF NetInv, NetTypeOK
  <2>2. outnet[k[1]].event \in 0 .. MaxEvents /\ outnet[k[1]].event # 0
    BY <2>1 DEF NetInv, NetTypeOK, ClientRec, Place, Waits
  <2> QED BY <2>1, <2>2, SocketAssumption DEF Current, Events
<1> QED BY <1>1, <1>2 DEF Link, Held, Waits, Current, Up

-----------------------------------------------------------------------------
(* Steps of a client.                                                      *)

(* The facts about a client that its steps start from.                     *)
LEMMA ClientFacts ==
  ASSUME NetInv, NEW c \in Clients
  PROVE  /\ outnet[c] \in ClientRec /\ resumed[c] \subseteq 1 .. MaxEvents
         /\ Place(c) /\ Holds(c)
         /\ \A k \in DOMAIN conns :
              k \in SocketIds /\ k # NoSocket /\ conns[k] \in Conn /\ Link(k)
BY SocketIdShape DEF NetInv, NetTypeOK

(* A step that only moves the client to another place, with the same       *)
(* sockets, and leaves an event that it waits for only when nothing more   *)
(* can come for it.                                                        *)
LEMMA PlaceChanges ==
  ASSUME NetInv, NEW c \in Clients, NEW q \in ClientRec,
         outnet' = [outnet EXCEPT ![c] = q], UNCHANGED <<socketVars, resumed, innetVars>>,
         q.socket = outnet[c].socket, q.best = outnet[c].best, q.trying = outnet[c].trying,
         outnet[c].pc = "wait" => ReadFailed(c),
         Place(c)'
  PROVE  NetInv'
<1>1. /\ outnet'[c] = q /\ \A d \in Clients \ {c} : outnet'[d] = outnet[d]
      /\ outnet' \in [Clients -> ClientRec]
      /\ conns' = conns /\ faults' = faults /\ resumed' = resumed
      /\ innet' = innet /\ passes' = passes
  BY DEF NetInv, NetTypeOK, socketVars, innetVars
<1>2. NetTypeOK'
  BY <1>1 DEF NetInv, NetTypeOK
<1>3. Holds(c)'
  BY <1>1, ClientFacts DEF Holds, Held
<1>4. KeepsOthers(c) /\ Answered(c)
  BY <1>1 DEF KeepsOthers, Answered, ReadFailed, innetVars, Up
<1>5. ASSUME NEW k \in DOMAIN conns', k[1] = c PROVE Link(k)'
  <2>1. k \in DOMAIN conns /\ Link(k) /\ conns[k] \in Conn
    BY <1>1, ClientFacts
  <2>2. ~(Waits(k) /\ (conns[k].toClient # <<>> \/ Up(k)))
    BY <1>5, <2>1 DEF Waits, ReadFailed
  <2>3. /\ conns[k].toClient # <<>> =>
             k = outnet[k[1]].trying /\ conns[k].toClient \in Headers
        /\ conns[k].toServer # <<>> => ~Up(k)
    BY <2>1, <2>2 DEF Link
  <2> QED BY <1>1, <1>5, <2>1, <2>3 DEF Link, Held, Up
<1>6. \A e \in resumed'[c] : passes[<<c, e>>] >= 1
  BY <1>1 DEF NetInv, NoEventSkipped
<1> QED BY <1>2, <1>3, <1>4, <1>5, <1>6, ClientFrame

LEMMA PickingFacts ==
  ASSUME NEW r \in ClientRec, NEW back \in {"idle", "send"}
  PROVE  LET q == Picking(r, back) IN
         /\ q \in ClientRec /\ q.pc = "connect" /\ q.back = back
         /\ q.socket = r.socket /\ q.best = r.best /\ q.trying = r.trying
         /\ q.event = r.event /\ q.retries = r.retries
<1> DEFINE q == [r EXCEPT !.pc = "connect", !.host = 1, !.back = back]
<1>1. q \in ClientRec
  <2>1. 1 \in Nat \ {0}
    OBVIOUS
  <2> QED BY <2>1 DEF ClientRec
<1>2. /\ q.pc = "connect" /\ q.back = back /\ q.socket = r.socket /\ q.best = r.best
      /\ q.trying = r.trying /\ q.event = r.event /\ q.retries = r.retries
  BY DEF ClientRec
<1> QED BY <1>1, <1>2 DEF Picking

LEMMA StepSetHost ==
  ASSUME NetInv, NEW c \in Clients, SetHost(c), UNCHANGED innetVars
  PROVE  NetInv'
<1> DEFINE r == outnet[c]
           set(hosts) == [r EXCEPT !.hosts = hosts, !.settings = @ + 1]
           q(hosts) == Picking(set(hosts), "idle")
<1>1. r \in ClientRec /\ Place(c)
  BY ClientFacts
<1>2. PICK hosts \in HostLists : outnet' = [outnet EXCEPT ![c] = q(hosts)]
  BY DEF SetHost
<1>3. r.pc \in {"macro", "idle"} /\ UNCHANGED <<socketVars, resumed>>
  BY DEF SetHost
<1>4. /\ set(hosts) \in ClientRec /\ set(hosts).socket = r.socket
      /\ set(hosts).best = r.best /\ set(hosts).trying = r.trying
      /\ set(hosts).event = r.event /\ set(hosts).retries = r.retries
  <2>1. hosts \in Seq(Servers)
    BY OutNetAssumption
  <2>2. r.settings + 1 \in Nat
    BY <1>1 DEF ClientRec
  <2> QED BY <1>1, <2>1, <2>2 DEF ClientRec
<1> HIDE DEF set
<1>5. LET n == q(hosts) IN
      /\ n \in ClientRec /\ n.pc = "connect" /\ n.back = "idle"
      /\ n.socket = r.socket /\ n.best = r.best /\ n.trying = r.trying
      /\ n.event = r.event /\ n.retries = r.retries
  BY <1>4, PickingFacts
<1> HIDE DEF q
<1>6. outnet'[c] = q(hosts)
  BY <1>2 DEF NetInv, NetTypeOK
<1>7. Place(c)'
  BY <1>1, <1>3, <1>5, <1>6 DEF Place, Picks
<1> QED BY <1>2, <1>3, <1>5, <1>7, PlaceChanges

(* TryHost with a host that does not listen.                               *)
LEMMA StepSkipHost ==
  ASSUME NetInv, NEW c \in Clients, outnet[c].pc = "connect",
         outnet' = [outnet EXCEPT ![c].host = @ + 1],
         UNCHANGED <<socketVars, resumed, innetVars>>
  PROVE  NetInv'
<1> DEFINE q == [outnet[c] EXCEPT !.host = @ + 1]
<1>1. outnet[c] \in ClientRec /\ Place(c)
  BY ClientFacts
<1>2. /\ q \in ClientRec /\ q.pc = "connect" /\ q.socket = outnet[c].socket
      /\ q.best = outnet[c].best /\ q.trying = outnet[c].trying /\ q.back = outnet[c].back
      /\ q.event = outnet[c].event /\ q.retries = outnet[c].retries
  <2>1. outnet[c].host + 1 \in Nat \ {0}
    BY <1>1 DEF ClientRec
  <2> QED BY <1>1, <2>1 DEF ClientRec
<1>3. outnet' = [outnet EXCEPT ![c] = q] /\ outnet'[c] = q /\ conns' = conns
  BY DEF NetInv, NetTypeOK, socketVars
<1> HIDE DEF q
<1>4. Place(c)'
  BY <1>1, <1>2, <1>3 DEF Place, Picks, Up
<1> QED BY <1>2, <1>3, <1>4, PlaceChanges

(* The connection to the next host is new, and is the one that is tried.   *)
LEMMA StepTryHost ==
  ASSUME NetInv, NEW c \in Clients, TryHost(c, Listening), UNCHANGED innetVars
  PROVE  NetInv'
<1> DEFINE r == outnet[c]
           s == r.hosts[r.host]
<1>1. CASE s \notin Listening
  <2>1. UNCHANGED conns /\ outnet' = [outnet EXCEPT ![c].host = @ + 1]
    BY <1>1 DEF TryHost
  <2> QED BY <2>1, StepSkipHost DEF TryHost, socketVars
<1>2. CASE s \in Listening
  <2> DEFINE n == NextSocket(c)
             x == [server |-> s, link |-> "up", open |-> TRUE, at |-> "backlog",
                   toServer |-> <<>>, toClient |-> <<>>]
             q == [r EXCEPT !.pc = "header", !.trying = n]
  <2>1. /\ r.pc = "connect" /\ Unused(c) # {} /\ conns' = Connect(c, s)
        /\ outnet' = [outnet EXCEPT ![c].pc = "header", ![c].trying = n]
        /\ faults' = faults /\ resumed' = resumed /\ innet' = innet /\ passes' = passes
    BY <1>2 DEF TryHost, innetVars
  <2>2. n \in SocketIds /\ n \notin DOMAIN conns /\ n[1] = c /\ n # NoSocket
    BY <2>1, NextSocketIsNew, SocketIdShape
  <2>3. r \in ClientRec /\ Place(c) /\ Holds(c)
    BY ClientFacts
  <2> HIDE DEF n, s
  <2>4. /\ q \in ClientRec /\ q.pc = "header" /\ q.trying = n
        /\ q.socket = r.socket /\ q.best = r.best /\ q.event = r.event
        /\ q.back = r.back /\ q.retries = r.retries
    BY <2>2, <2>3 DEF ClientRec, Sock
  <2>5. x \in Conn
    BY <1>2 DEF Listening, Conn, Requests
  <2>6. outnet' = [outnet EXCEPT ![c] = q]
    BY <2>1
  <2> HIDE DEF x, q
  <2>7. /\ outnet'[c] = q /\ \A d \in Clients \ {c} : outnet'[d] = outnet[d]
        /\ outnet' \in [Clients -> ClientRec]
    BY <2>4, <2>6 DEF NetInv, NetTypeOK
  <2>8. conns' = [k \in DOMAIN conns \cup {n} |-> IF k \in DOMAIN conns THEN conns[k] ELSE x]
    BY <2>1 DEF Connect, n, x
  <2>9. /\ DOMAIN conns' = DOMAIN conns \cup {n} /\ conns'[n] = x
        /\ \A k \in DOMAIN conns : conns'[k] = conns[k]
        /\ conns' \in [DOMAIN conns' -> Conn]
    BY <2>2, <2>5, <2>8 DEF NetInv, NetTypeOK
  <2>10. NetTypeOK'
    BY <2>1, <2>2, <2>7, <2>9 DEF NetInv, NetTypeOK
  <2>11. Place(c)'
    <3>1. r.socket # NoSocket => conns'[r.socket] = conns[r.socket]
      BY <2>3, <2>9 DEF Holds, Held
    <3> QED BY <2>1, <2>2, <2>3, <2>4, <2>7, <3>1 DEF Place, Picks, Up
  <2>12. Holds(c)'
    <3>1. {q.socket, q.best, q.trying} \ {NoSocket} = Held(c) \cup {n}
      BY <2>1, <2>2, <2>3, <2>4 DEF Held, Place
    <3>2. \A k \in Held(c) : k # n /\ k \in DOMAIN conns' /\ conns'[k].open /\ k[1] = c
      BY <2>2, <2>3, <2>9 DEF Holds
    <3>3. n \in DOMAIN conns' /\ conns'[n].open
      BY <2>9 DEF x
    <3>4. q.best # NoSocket => q.best \notin {q.socket, n}
      BY <2>3, <2>4, <3>2 DEF Holds, Held
    <3>5. n # q.socket
      BY <2>2, <2>4, <3>2 DEF Held
    <3> QED BY <2>2, <2>4, <2>7, <3>1, <3>2, <3>3, <3>4, <3>5 DEF Holds, Held
  <2>13. KeepsOthers(c) /\ Answered(c)
    BY <2>1, <2>2, <2>7, <2>9 DEF KeepsOthers, Answered, innetVars, Up
  <2>14. ASSUME NEW k \in DOMAIN conns', k[1] = c PROVE Link(k)'
    <3>1. CASE k = n
      BY <2>2, <2>4, <2>7, <2>9, <3>1 DEF Link, Held, x, Up
    <3>2. CASE k # n
      <4>1. k \in DOMAIN conns /\ conns'[k] = conns[k] /\ Link(k)
        BY <2>9, <3>2, ClientFacts
      <4>2. k # outnet[c].trying
        BY <2>1, <2>3, <4>1, ClientFacts DEF Place
      <4>3. ~Waits(k)
        BY <2>1, <2>14 DEF Waits
      <4>4. /\ conns[k].toClient = <<>> /\ (conns[k].toServer # <<>> => ~Up(k))
            /\ conns[k].at = "backlog" => ~Up(k)
        BY <2>14, <4>1, <4>2, <4>3 DEF Link
      <4> QED BY <2>4, <2>7, <2>14, <4>1, <4>2, <4>4 DEF Link, Held, Up
    <3> QED BY <3>1, <3>2
  <2>15. \A e \in resumed'[c] : passes[<<c, e>>] >= 1
    BY <2>1 DEF NetInv, NoEventSkipped
  <2> QED BY <2>10, <2>11, <2>12, <2>13, <2>14, <2>15, ClientFrame
<1> QED BY <1>1, <1>2

\* A client closes some of its own ends, after reading what is on its way.
ClosesEnds(c, cs, ks) ==
  /\ \A k \in ks \cap DOMAIN conns : k[1] = c
  /\ cs \in [DOMAIN conns -> Conn]
  /\ \A k \in DOMAIN conns :
       /\ k[1] # c => cs[k] = conns[k]
       /\ cs[k].server = conns[k].server /\ cs[k].at = conns[k].at
       /\ cs[k].open = conns[k].open /\ cs[k].link = conns[k].link
  /\ conns' = Tidy(CloseClientEnds(cs, ks))
  /\ \A d \in Clients \ {c} : outnet'[d] = outnet[d] /\ resumed'[d] = resumed[d]
  /\ UNCHANGED innetVars

\* What is left then.
EndsAreClosed(cs, ks) ==
  /\ DOMAIN conns' \subseteq DOMAIN conns /\ conns' \in [DOMAIN conns' -> Conn]
  /\ \A k \in DOMAIN conns \ ks : k \in DOMAIN conns' /\ conns'[k] = cs[k]
  /\ \A k \in DOMAIN conns' \cap ks :
       /\ ~conns'[k].open /\ conns'[k].link # "up" /\ conns'[k].toClient = <<>>
       /\ conns'[k].at # "gone"

LEMMA OwnEndsClosed ==
  ASSUME NetInv, NEW c \in Clients, NEW cs, NEW ks, ClosesEnds(c, cs, ks)
  PROVE  KeepsOthers(c) /\ EndsAreClosed(cs, ks)
<1> USE DEF ClosesEnds
<1>1. DOMAIN cs = DOMAIN conns
  OBVIOUS
<1>2. /\ DOMAIN conns' \subseteq DOMAIN conns /\ conns' \in [DOMAIN conns' -> Conn]
      /\ \A k \in DOMAIN conns :
           (k \notin ks /\ cs[k].open) \/ cs[k].at # "gone" => k \in DOMAIN conns'
      /\ \A k \in DOMAIN conns' : conns'[k].open \/ conns'[k].at # "gone"
      /\ \A k \in DOMAIN conns' \ ks : conns'[k] = cs[k]
      /\ \A k \in DOMAIN conns' \cap ks :
           /\ conns'[k].server = cs[k].server /\ conns'[k].at = cs[k].at
           /\ conns'[k].toClient = <<>>
           /\ ~conns'[k].open /\ conns'[k].link = Closed(cs[k].link)
  BY <1>1, ClientEndsClosed
<1>3. \A k \in DOMAIN conns : cs[k].open \/ cs[k].at # "gone"
  BY DEF NetInv, Link
<1>4. \A k \in DOMAIN conns \ ks : k \in DOMAIN conns' /\ conns'[k] = cs[k]
  BY <1>2, <1>3
<1>5. \A k \in DOMAIN conns' \cap ks : conns'[k].link # "up"
  BY <1>2 DEF Closed
<1>6. ASSUME NEW k \in DOMAIN conns
      PROVE  /\ k[1] # c => k \in DOMAIN conns' /\ conns'[k] = conns[k]
             /\ conns[k].at = "listed" =>
                  /\ k \in DOMAIN conns' /\ conns'[k].at = "listed"
                  /\ conns'[k].server = conns[k].server
                  /\ conns'[k].link = "up" => conns[k].link = "up"
  <2>1. CASE k \in ks
    BY <1>2, <1>5, <2>1
  <2>2. CASE k \notin ks
    BY <1>4, <2>2
  <2> QED BY <2>1, <2>2
<1>7. KeepsOthers(c)
  BY <1>2, <1>6 DEF KeepsOthers, Up
<1> QED BY <1>2, <1>4, <1>5, <1>7 DEF EndsAreClosed

\* The connections once everything on the way to the client on t is read.
Emptied(read, t) ==
  /\ read \in [DOMAIN conns -> Conn] /\ read[t].toClient = <<>>
  /\ \A k \in DOMAIN conns :
       /\ k # t => read[k] = conns[k]
       /\ read[k].server = conns[k].server /\ read[k].at = conns[k].at
       /\ read[k].open = conns[k].open /\ read[k].link = conns[k].link
       /\ read[k].toServer = conns[k].toServer

(* The next host, after closing the tried socket or the best so far: the   *)
(* one that is kept is the best.                                           *)
LEMMA StepNextHost ==
  ASSUME NetInv, NEW c \in Clients, outnet[c].pc = "header",
         NEW x, NEW b,
         \/ x = outnet[c].trying /\ b = outnet[c].best
         \/ x = outnet[c].best /\ b = outnet[c].trying /\ conns[b].at # "backlog",
         NEW load \in Nat, NextHost(c, b, load),
         NEW read, Emptied(read, outnet[c].trying),
         conns' = Tidy(CloseClientEnds(read, {x})),
         UNCHANGED <<faults, resumed, innetVars>>
  PROVE  NetInv'
<1> DEFINE r == outnet[c]
           q == [r EXCEPT !.pc = "connect", !.host = @ + 1, !.trying = NoSocket,
                          !.best = b, !.minLoad = load]
<1>1. r \in ClientRec /\ Place(c) /\ Holds(c)
  BY ClientFacts
<1>2. /\ r.trying # NoSocket /\ r.trying \in DOMAIN conns /\ r.trying[1] = c
      /\ r.best # r.trying /\ r.socket # r.trying
  BY <1>1 DEF Place, Picks, Holds, Held
<1>3. /\ q \in ClientRec /\ q.pc = "connect" /\ q.trying = NoSocket
      /\ q.socket = r.socket /\ q.best = b /\ q.event = r.event
      /\ q.back = r.back /\ q.retries = r.retries
  <2>1. r.host + 1 \in Nat \ {0}
    BY <1>1 DEF ClientRec
  <2>2. b \in Sock
    BY <1>1 DEF ClientRec
  <2> QED BY <1>1, <2>1, <2>2 DEF ClientRec, Sock
<1>4. outnet' = [outnet EXCEPT ![c] = q]
  BY DEF NextHost
<1> HIDE DEF q
<1>5. /\ outnet'[c] = q /\ \A d \in Clients \ {c} : outnet'[d] = outnet[d]
      /\ outnet' \in [Clients -> ClientRec]
      /\ faults' = faults /\ resumed' = resumed /\ innet' = innet /\ passes' = passes
  BY <1>3, <1>4 DEF NetInv, NetTypeOK, innetVars
<1>6. /\ read \in [DOMAIN conns -> Conn] /\ read[r.trying].toClient = <<>>
      /\ \A k \in DOMAIN conns :
           /\ k # r.trying => read[k] = conns[k]
           /\ read[k].server = conns[k].server /\ read[k].at = conns[k].at
           /\ read[k].open = conns[k].open /\ read[k].link = conns[k].link
           /\ read[k].toServer = conns[k].toServer
  BY DEF Emptied
<1>7. \A k \in {x} \cap DOMAIN conns : k[1] = c
  BY <1>1, <1>2, ClientFacts DEF Holds, Held
<1>8. /\ KeepsOthers(c)
      /\ DOMAIN conns' \subseteq DOMAIN conns /\ conns' \in [DOMAIN conns' -> Conn]
      /\ \A k \in DOMAIN conns \ {x} : k \in DOMAIN conns' /\ conns'[k] = read[k]
      /\ \A k \in DOMAIN conns' \cap {x} :
           /\ ~conns'[k].open /\ conns'[k].link # "up" /\ conns'[k].toClient = <<>>
           /\ conns'[k].at # "gone"
  <2>1. \A d \in Clients \ {c} : outnet'[d] = outnet[d] /\ resumed'[d] = resumed[d]
    BY <1>5
  <2>2. ClosesEnds(c, read, {x})
    BY <1>2, <1>6, <1>7, <2>1 DEF ClosesEnds
  <2>3. KeepsOthers(c) /\ EndsAreClosed(read, {x})
    BY <2>2, OwnEndsClosed
  <2> QED BY <2>3 DEF EndsAreClosed
<1>9. NetTypeOK'
  BY <1>5, <1>8 DEF NetInv, NetTypeOK
<1>10. b # NoSocket => b # r.socket /\ b # x
  BY <1>1, <1>2 DEF Holds
<1>11. x # r.socket \/ r.socket = NoSocket
  BY <1>1, <1>2 DEF Holds
<1>12. Place(c)'
  <2>1. r.socket # NoSocket => conns'[r.socket] = conns[r.socket]
    <3> SUFFICES ASSUME r.socket # NoSocket PROVE conns'[r.socket] = conns[r.socket]
      OBVIOUS
    <3>1. r.socket \in DOMAIN conns /\ r.socket # r.trying /\ r.socket \notin {x}
      BY <1>1, <1>2, <1>11 DEF Holds, Held
    <3>2. conns'[r.socket] = read[r.socket]
      BY <1>8, <3>1
    <3>3. read[r.socket] = conns[r.socket]
      BY <1>6, <3>1
    <3> QED BY <3>2, <3>3
  <2> QED BY <1>1, <1>3, <1>5, <2>1 DEF Place, Picks, Up
<1>13. Holds(c)'
  <2>1. ASSUME NEW k \in {r.socket, b} \ {NoSocket}
        PROVE  k \in DOMAIN conns' /\ conns'[k].open /\ k[1] = c
    <3>1. k \in DOMAIN conns /\ conns[k].open /\ k[1] = c
      BY <1>1 DEF Holds, Held
    <3>2. k \notin {x}
      BY <1>10, <1>11
    <3>3. k \in DOMAIN conns' /\ conns'[k] = read[k]
      BY <1>8, <3>1, <3>2
    <3>4. read[k].open = conns[k].open
      BY <1>6, <3>1
    <3> QED BY <3>1, <3>3, <3>4
  <2>2. /\ outnet'[c].socket = r.socket /\ outnet'[c].best = b /\ outnet'[c].trying = NoSocket
        /\ b # NoSocket => b # r.socket
    BY <1>3, <1>5, <1>10
  <2>3. Held(c)' = {r.socket, b} \ {NoSocket}
    BY <2>2 DEF Held
  <2> QED BY <2>1, <2>2, <2>3 DEF Holds
<1>14. ASSUME NEW k \in DOMAIN conns', k[1] = c PROVE Link(k)'
  <2>1. k \in DOMAIN conns /\ k # NoSocket /\ Link(k)
    BY <1>8, ClientFacts
  <2>2. ~Waits(k)
    BY <1>14 DEF Waits
  <2>3. /\ k # r.trying => conns[k].toClient = <<>> /\ (conns[k].at = "backlog" => ~Up(k))
        /\ conns[k].toServer # <<>> => ~Up(k)
    BY <1>14, <2>1, <2>2 DEF Link
  <2>4. CASE k = x
    <3>1. ~conns'[k].open /\ conns'[k].link # "up" /\ conns'[k].toClient = <<>>
          /\ conns'[k].at # "gone"
      BY <1>8, <2>4
    <3> QED BY <3>1 DEF Link, Up
  <2>5. CASE k # x
    <3>1. conns'[k] = read[k]
      BY <1>8, <2>1, <2>5
    <3>2. conns'[k].toClient = <<>>
      BY <1>6, <2>1, <2>3, <3>1
    <3>3. conns[k].at = "backlog" => ~Up(k)
      BY <2>3, <2>5
    <3>4. /\ conns'[k].open = conns[k].open /\ conns'[k].link = conns[k].link
          /\ conns'[k].at = conns[k].at /\ conns'[k].toServer = conns[k].toServer
      BY <1>6, <2>1, <3>1
    <3> QED BY <1>3, <1>5, <1>14, <2>1, <2>3, <3>2, <3>3, <3>4 DEF Link, Up
  <2> QED BY <2>4, <2>5
<1>15. \A e \in resumed'[c] : passes[<<c, e>>] >= 1
  BY <1>5 DEF NetInv, NoEventSkipped
<1>16. Answered(c)
  BY DEF Answered
<1> QED BY <1>8, <1>9, <1>12, <1>13, <1>14, <1>15, <1>16, ClientFrame

LEMMA StepReadHeader ==
  ASSUME NetInv, NEW c \in Clients, ReadHeader(c), UNCHANGED innetVars
  PROVE  NetInv'
<1> DEFINE r == outnet[c]
           h == conns[r.trying].toClient
           load == Head(h)[1]
           read == [conns EXCEPT ![r.trying].toClient = <<>>]
<1>1. /\ r.pc = "header" /\ h # <<>> /\ UNCHANGED <<faults, resumed, innetVars>>
      /\ \/ NextHost(c, r.trying, load) /\ conns' = Tidy(CloseClientEnds(read, {r.best}))
         \/ NextHost(c, r.best, r.minLoad) /\ conns' = Tidy(CloseClientEnds(read, {r.trying}))
  BY DEF ReadHeader, DeleteBest
<1>2. r \in ClientRec /\ Place(c) /\ Holds(c)
  BY ClientFacts
<1>3. r.trying # NoSocket /\ r.trying \in DOMAIN conns /\ r.trying[1] = c
  BY <1>1, <1>2 DEF Place, Picks, Holds, Held
<1>4. Link(r.trying) /\ conns[r.trying] \in Conn
  BY <1>3, ClientFacts
<1>5. h \in Headers /\ conns[r.trying].at # "backlog"
  BY <1>1, <1>3, <1>4 DEF Link, Waits
<1>6. load \in Nat
  BY <1>5 DEF Headers
<1>7. Emptied(read, r.trying)
  BY <1>3, <1>4 DEF Emptied, NetInv, NetTypeOK, Conn, Requests
<1>8. r.minLoad \in Nat
  BY <1>2 DEF ClientRec
<1> HIDE DEF load, read
<1> QED BY <1>1, <1>5, <1>6, <1>7, <1>8, StepNextHost

LEMMA StepHeaderFails ==
  ASSUME NetInv, NEW c \in Clients, HeaderFails(c), UNCHANGED innetVars
  PROVE  NetInv'
<1> DEFINE r == outnet[c]
<1>1. /\ r.pc = "header" /\ conns[r.trying].toClient = <<>>
      /\ NextHost(c, r.best, r.minLoad)
      /\ conns' = Tidy(CloseClientEnds(conns, {r.trying}))
      /\ UNCHANGED <<faults, resumed, innetVars>>
  BY DEF HeaderFails
<1>2. Emptied(conns, r.trying)
  BY <1>1 DEF Emptied, NetInv, NetTypeOK
<1>3. r.minLoad \in Nat
  BY ClientFacts DEF ClientRec
<1> QED BY <1>1, <1>2, <1>3, StepNextHost

(* PickServer returns.  The socket that was used before stays open if it   *)
(* is up, and has nothing on its way.                                      *)
LEMMA StepPicked ==
  ASSUME NetInv, NEW c \in Clients, Picked(c), UNCHANGED innetVars
  PROVE  NetInv'
<1> DEFINE r == outnet[c]
           q == [r EXCEPT !.pc = r.back, !.socket = r.best, !.best = NoSocket,
                          !.minLoad = 0, !.host = 1]
           ks == {k \in {r.socket} : k \in DOMAIN conns /\ ~Up(k)}
<1>1. /\ r.pc = "connect" /\ r.best # NoSocket
      /\ outnet' = [outnet EXCEPT ![c] = q]
      /\ conns' = Tidy(CloseClientEnds(conns, ks))
      /\ faults' = faults /\ resumed' = resumed /\ innet' = innet /\ passes' = passes
  BY DEF Picked, innetVars
<1>2. r \in ClientRec /\ Place(c) /\ Holds(c)
  BY ClientFacts
<1>3. /\ q \in ClientRec /\ q.pc = r.back /\ q.trying = NoSocket /\ q.socket = r.best
      /\ q.best = NoSocket /\ q.event = r.event /\ q.retries = r.retries
      /\ r.back \in {"idle", "send"}
  <2>1. r.trying = NoSocket
    BY <1>1, <1>2 DEF Place
  <2>2. r.back \in {"idle", "send"} /\ 1 \in Nat \ {0}
    BY <1>2 DEF ClientRec
  <2> QED BY <1>2, <2>1, <2>2 DEF ClientRec, Sock
<1> HIDE DEF q
<1>4. /\ outnet'[c] = q /\ \A d \in Clients \ {c} : outnet'[d] = outnet[d]
      /\ outnet' \in [Clients -> ClientRec]
  BY <1>1, <1>3 DEF NetInv, NetTypeOK
<1>5. ClosesEnds(c, conns, ks)
  <2>1. \A k \in ks \cap DOMAIN conns : k[1] = c
    BY <1>2, ClientFacts DEF Holds, Held
  <2>2. UNCHANGED innetVars
    OBVIOUS
  <2> HIDE DEF ks
  <2> QED BY <1>1, <1>4, <2>1, <2>2 DEF ClosesEnds, NetInv, NetTypeOK
<1>6. KeepsOthers(c) /\ EndsAreClosed(conns, ks)
  BY <1>5, OwnEndsClosed
<1>7. NetTypeOK'
  BY <1>1, <1>4, <1>6 DEF NetInv, NetTypeOK, EndsAreClosed
<1>8. /\ r.best \in DOMAIN conns /\ conns[r.best].open /\ r.best[1] = c
      /\ r.best # r.socket
  BY <1>1, <1>2 DEF Holds, Held
<1>9. r.best \in DOMAIN conns' /\ conns'[r.best] = conns[r.best]
  BY <1>6, <1>8 DEF EndsAreClosed
<1>10. Place(c)'
  BY <1>1, <1>2, <1>3, <1>4 DEF Place, Picks
<1>11. Holds(c)'
  BY <1>3, <1>4, <1>8, <1>9 DEF Holds, Held
<1>12. ASSUME NEW k \in DOMAIN conns', k[1] = c PROVE Link(k)'
  <2>1. k \in DOMAIN conns /\ k # NoSocket /\ Link(k)
    BY <1>6, ClientFacts DEF EndsAreClosed
  <2>2. r.trying = NoSocket
    BY <1>1, <1>2 DEF Place
  <2>3. /\ conns[k].toClient = <<>> /\ (conns[k].at = "backlog" => ~Up(k))
        /\ conns[k].toServer # <<>> => ~Up(k)
    BY <1>1, <1>12, <2>1, <2>2 DEF Link, Waits
  <2>4. CASE k \in ks
    BY <1>6, <2>4 DEF EndsAreClosed, Link, Up
  <2>5. CASE k \notin ks
    <3>1. conns'[k] = conns[k]
      BY <1>6, <2>1, <2>5 DEF EndsAreClosed
    <3> QED BY <1>3, <1>4, <1>12, <2>1, <2>3, <3>1 DEF Link, Up
  <2> QED BY <2>4, <2>5
<1>13. \A e \in resumed'[c] : passes[<<c, e>>] >= 1
  BY <1>1 DEF NetInv, NoEventSkipped
<1>14. Answered(c)
  BY <1>1 DEF Answered
<1> QED BY <1>6, <1>7, <1>10, <1>11, <1>12, <1>13, <1>14, ClientFrame

(* The job or the processor ends, with all its sockets.                    *)
LEMMA StepLeave ==
  ASSUME NetInv, NEW c \in Clients, NEW how \in {"done", "died"}, Leave(c, how),
         outnet[c].pc = "wait" => ReadFailed(c),
         UNCHANGED <<faults, resumed, innetVars>>
  PROVE  NetInv'
<1> DEFINE r == outnet[c]
           q == [r EXCEPT !.pc = how, !.socket = NoSocket, !.best = NoSocket,
                          !.trying = NoSocket, !.minLoad = 0]
           ks == OwnSockets(c)
<1>1. /\ outnet' = [outnet EXCEPT ![c] = q]
      /\ conns' = Tidy(CloseClientEnds(conns, ks))
      /\ faults' = faults /\ resumed' = resumed /\ innet' = innet /\ passes' = passes
  BY DEF Leave, innetVars
<1>2. r \in ClientRec
  BY ClientFacts
<1>3. /\ q \in ClientRec /\ q.pc = how /\ q.trying = NoSocket /\ q.socket = NoSocket
      /\ q.best = NoSocket /\ q.event = r.event
  BY <1>2 DEF ClientRec, Sock
<1> HIDE DEF q
<1>4. /\ outnet'[c] = q /\ \A d \in Clients \ {c} : outnet'[d] = outnet[d]
      /\ outnet' \in [Clients -> ClientRec]
  BY <1>1, <1>3 DEF NetInv, NetTypeOK
<1>5. ClosesEnds(c, conns, ks)
  <2>1. \A k \in ks \cap DOMAIN conns : k[1] = c
    BY DEF OwnSockets
  <2>2. UNCHANGED innetVars
    OBVIOUS
  <2> HIDE DEF ks
  <2> QED BY <1>1, <1>4, <2>1, <2>2 DEF ClosesEnds, NetInv, NetTypeOK
<1>6. KeepsOthers(c) /\ EndsAreClosed(conns, ks)
  BY <1>5, OwnEndsClosed
<1>7. NetTypeOK'
  BY <1>1, <1>4, <1>6 DEF NetInv, NetTypeOK, EndsAreClosed
<1>8. (Place(c) /\ Holds(c))'
  BY <1>3, <1>4 DEF Place, Picks, Holds, Held
<1>9. ASSUME NEW k \in DOMAIN conns', k[1] = c PROVE Link(k)'
  <2>1. k \in ks
    BY <1>6, <1>9 DEF EndsAreClosed, OwnSockets
  <2> QED BY <1>6, <2>1 DEF EndsAreClosed, Link, Up
<1>10. \A e \in resumed'[c] : passes[<<c, e>>] >= 1
  BY <1>1 DEF NetInv, NoEventSkipped
<1>11. Answered(c)
  BY DEF Answered, ReadFailed
<1> QED BY <1>6, <1>7, <1>8, <1>9, <1>10, <1>11, ClientFrame

LEMMA StepStartEvent ==
  ASSUME NetInv, NEW c \in Clients, StartEvent(c), UNCHANGED innetVars
  PROVE  NetInv'
<1> DEFINE r == outnet[c]
           q == [r EXCEPT !.pc = "send", !.event = @ + 1, !.retries = MaxRetries]
<1>1. /\ r.pc = "idle" /\ r.event < MaxEvents /\ outnet' = [outnet EXCEPT ![c] = q]
      /\ UNCHANGED <<socketVars, resumed, innetVars>>
  BY DEF StartEvent
<1>2. r \in ClientRec /\ Place(c)
  BY ClientFacts
<1>3. /\ q \in ClientRec /\ q.pc = "send" /\ q.socket = r.socket /\ q.best = r.best
      /\ q.trying = r.trying /\ q.event # 0
  <2>1. r.event + 1 \in 0 .. MaxEvents /\ r.event + 1 # 0 /\ MaxRetries \in Int
    BY <1>1, <1>2, SocketAssumption, OutNetAssumption DEF ClientRec
  <2> QED BY <1>2, <2>1 DEF ClientRec
<1> HIDE DEF q
<1>4. outnet'[c] = q
  BY <1>1 DEF NetInv, NetTypeOK
<1>5. Place(c)'
  BY <1>1, <1>2, <1>3, <1>4 DEF Place, Picks
<1> QED BY <1>1, <1>3, <1>5, PlaceChanges

(* DSEvent tries again, over a connection that is not up.                  *)
LEMMA StepRetry ==
  ASSUME NetInv, NEW c \in Clients, outnet[c].pc \in {"send", "wait"}, ~Up(outnet[c].socket),
         outnet[c].pc = "wait" => ReadFailed(c),
         outnet' = [outnet EXCEPT ![c] = Retry(@)],
         UNCHANGED <<socketVars, resumed, innetVars>>
  PROVE  NetInv'
<1> DEFINE r == outnet[c]
           less == [r EXCEPT !.retries = @ - 1]
           q == Picking(less, "send")
<1>1. r \in ClientRec /\ Place(c)
  BY ClientFacts
<1>2. /\ less \in ClientRec /\ less.socket = r.socket /\ less.best = r.best
      /\ less.trying = r.trying /\ less.event = r.event
  BY <1>1 DEF ClientRec
<1>3. outnet' = [outnet EXCEPT ![c] = q] /\ conns' = conns
  BY DEF Retry, socketVars
<1> HIDE DEF less
<1>4. /\ q \in ClientRec /\ q.pc = "connect" /\ q.socket = r.socket /\ q.best = r.best
      /\ q.trying = r.trying /\ q.event = r.event /\ q.back = "send"
  BY <1>2, PickingFacts
<1> HIDE DEF q
<1>5. outnet'[c] = q
  BY <1>3 DEF NetInv, NetTypeOK
<1>6. Place(c)'
  BY <1>1, <1>3, <1>4, <1>5 DEF Place, Picks, Up
<1> QED BY <1>3, <1>4, <1>6, PlaceChanges

(* Sending: the event is the only thing on its way over this connection.   *)
LEMMA StepSend ==
  ASSUME NetInv, NEW c \in Clients, Send(c), UNCHANGED innetVars
  PROVE  NetInv'
<1> DEFINE r == outnet[c]
           q == [r EXCEPT !.pc = "wait"]
<1>1. r \in ClientRec /\ Place(c) /\ Holds(c) /\ r.pc = "send"
  BY ClientFacts DEF Send
<1>2. /\ q \in ClientRec /\ q.pc = "wait" /\ q.socket = r.socket /\ q.best = r.best
      /\ q.trying = r.trying /\ q.event = r.event
  BY <1>1 DEF ClientRec
<1>3. CASE ~Up(r.socket) /\ outnet' = [outnet EXCEPT ![c] = Retry(@)] /\ UNCHANGED conns
  BY <1>1, <1>3, StepRetry DEF Send, socketVars
<1>4. CASE outnet' = [outnet EXCEPT ![c].pc = "wait"] /\ UNCHANGED conns
  <2>1. /\ outnet' = [outnet EXCEPT ![c] = q]
        /\ UNCHANGED <<socketVars, resumed, innetVars>>
    BY <1>4 DEF Send, socketVars
  <2> HIDE DEF q
  <2>2. outnet'[c] = q
    BY <2>1 DEF NetInv, NetTypeOK
  <2>3. Place(c)'
    BY <1>1, <1>2, <2>2 DEF Place, Picks
  <2> QED BY <1>1, <1>2, <2>1, <2>3, PlaceChanges
<1>5. CASE /\ Up(r.socket) /\ outnet' = [outnet EXCEPT ![c].pc = "wait"]
           /\ conns' = [conns EXCEPT ![r.socket].toServer = << <<c, r.event>> >>]
  <2> DEFINE k0 == r.socket
             sent == [conns[k0] EXCEPT !.toServer = << <<c, r.event>> >>]
  <2>1. outnet' = [outnet EXCEPT ![c] = q] /\ conns' = [conns EXCEPT ![k0] = sent]
    BY <1>5
  <2>2. /\ faults' = faults /\ resumed' = resumed /\ innet' = innet /\ passes' = passes
    BY DEF Send, innetVars
  <2>3. /\ k0 \in DOMAIN conns /\ k0[1] = c /\ k0 # NoSocket /\ r.trying = NoSocket
        /\ r.best = NoSocket /\ conns[k0] \in Conn /\ Link(k0)
    BY <1>1, ClientFacts DEF Place, Picks, Holds, Held
  <2>4. <<c, r.event>> \in Events
    BY <1>1, SocketAssumption DEF Place, ClientRec, Events
  <2>5. /\ sent \in Conn /\ sent.toServer = << <<c, r.event>> >>
        /\ sent.server = conns[k0].server /\ sent.at = conns[k0].at
        /\ sent.open = conns[k0].open /\ sent.link = conns[k0].link
        /\ sent.toClient = conns[k0].toClient
    BY <2>3, <2>4 DEF Conn, Requests
  <2> HIDE DEF q, sent
  <2>6. /\ outnet'[c] = q /\ \A d \in Clients \ {c} : outnet'[d] = outnet[d]
        /\ outnet' \in [Clients -> ClientRec]
    BY <1>2, <2>1 DEF NetInv, NetTypeOK
  <2>7. /\ DOMAIN conns' = DOMAIN conns /\ conns' \in [DOMAIN conns' -> Conn]
        /\ conns'[k0] = sent /\ \A k \in DOMAIN conns \ {k0} : conns'[k] = conns[k]
    BY <2>1, <2>3, <2>5 DEF NetInv, NetTypeOK
  <2> HIDE DEF k0
  <2>8. NetTypeOK'
    BY <2>2, <2>6, <2>7 DEF NetInv, NetTypeOK
  <2>9. Place(c)'
    BY <1>1, <1>2, <2>6 DEF Place, Picks
  <2>10. Holds(c)'
    BY <1>1, <1>2, <2>3, <2>5, <2>6, <2>7 DEF Holds, Held
  <2>11. KeepsOthers(c) /\ Answered(c)
    <3>1. \A k \in DOMAIN conns :
            /\ conns'[k].at = conns[k].at /\ conns'[k].server = conns[k].server
            /\ conns'[k].link = conns[k].link /\ (k[1] # c => conns'[k] = conns[k])
      BY <2>3, <2>5, <2>7
    <3> QED BY <1>1, <2>2, <2>6, <2>7, <3>1 DEF KeepsOthers, Answered, Up, innetVars
  <2>12. ASSUME NEW k \in DOMAIN conns', k[1] = c PROVE Link(k)'
    <3>1. k \in DOMAIN conns /\ k # NoSocket /\ Link(k)
      BY <2>7, ClientFacts
    <3>2. /\ conns[k].toClient = <<>> /\ (conns[k].at = "backlog" => ~Up(k))
          /\ conns[k].toServer # <<>> => ~Up(k)
      BY <1>1, <2>3, <2>12, <3>1 DEF Link, Waits
    <3>3. CASE k = k0
      <4>1. /\ conns'[k].toClient = <<>> /\ conns'[k].toServer = << <<c, r.event>> >>
            /\ conns'[k].open = conns[k].open /\ conns'[k].at = conns[k].at
            /\ conns'[k].link = conns[k].link
        BY <2>5, <2>7, <3>2, <3>3
      <4>2. /\ outnet'[k[1]].socket = k /\ outnet'[k[1]].pc = "wait"
            /\ <<k[1], outnet'[k[1]].event>> = <<c, r.event>>
            /\ k \in {outnet'[k[1]].socket, outnet'[k[1]].best, outnet'[k[1]].trying} \ {NoSocket}
        BY <1>2, <2>6, <2>12, <3>1, <3>3 DEF k0
      <4> QED BY <3>1, <3>2, <4>1, <4>2 DEF Link, Held, Up, Waits, Current
    <3>4. CASE k # k0
      <4>1. conns'[k] = conns[k]
        BY <2>7, <3>1, <3>4
      <4> QED BY <1>2, <2>6, <2>12, <3>1, <3>2, <4>1 DEF Link, Held, Up
    <3> QED BY <3>3, <3>4
  <2>13. \A e \in resumed'[c] : passes[<<c, e>>] >= 1
    BY <2>2 DEF NetInv, NoEventSkipped
  <2> QED BY <2>8, <2>9, <2>10, <2>11, <2>12, <2>13, ClientFrame
<1> QED BY <1>3, <1>4, <1>5 DEF Send

(* Receiving: what is read is the event that was waited for, processed.    *)
LEMMA StepReceive ==
  ASSUME NetInv, NEW c \in Clients, Receive(c), UNCHANGED innetVars
  PROVE  NetInv'
<1> DEFINE r == outnet[c]
           q == [r EXCEPT !.pc = "idle", !.retries = -1]
           k0 == r.socket
           rest == [conns[k0] EXCEPT !.toClient = <<>>]
<1>1. /\ r.pc = "wait" /\ conns[k0].toClient # <<>>
      /\ conns' = [conns EXCEPT ![k0] = rest] /\ outnet' = [outnet EXCEPT ![c] = q]
      /\ resumed' = [resumed EXCEPT ![c] = @ \cup {r.event}]
      /\ faults' = faults /\ innet' = innet /\ passes' = passes
  BY DEF Receive, innetVars
<1>2. r \in ClientRec /\ Place(c) /\ Holds(c)
  BY ClientFacts
<1>3. /\ q \in ClientRec /\ q.pc = "idle" /\ q.socket = r.socket /\ q.best = r.best
      /\ q.trying = r.trying /\ q.event = r.event /\ q.retries = -1
  <2>1. -1 \in Int
    OBVIOUS
  <2> QED BY <1>2, <2>1 DEF ClientRec
<1>4. /\ k0 \in DOMAIN conns /\ k0[1] = c /\ k0 # NoSocket /\ r.trying = NoSocket
      /\ r.best = NoSocket /\ conns[k0] \in Conn /\ Link(k0)
  BY <1>1, <1>2, ClientFacts DEF Place, Picks, Holds, Held
<1>5. /\ rest \in Conn /\ rest.toClient = <<>>
      /\ rest.server = conns[k0].server /\ rest.at = conns[k0].at
      /\ rest.open = conns[k0].open /\ rest.link = conns[k0].link
      /\ rest.toServer = conns[k0].toServer
  BY <1>4 DEF Conn, Requests
<1> HIDE DEF q, rest
<1>6. /\ outnet'[c] = q /\ \A d \in Clients \ {c} : outnet'[d] = outnet[d]
      /\ outnet' \in [Clients -> ClientRec]
  BY <1>1, <1>3 DEF NetInv, NetTypeOK
<1>7. /\ DOMAIN conns' = DOMAIN conns /\ conns' \in [DOMAIN conns' -> Conn]
      /\ conns'[k0] = rest /\ \A k \in DOMAIN conns \ {k0} : conns'[k] = conns[k]
  BY <1>1, <1>4, <1>5 DEF NetInv, NetTypeOK
<1>8. r.event \in 1 .. MaxEvents
  BY <1>1, <1>2, SocketAssumption DEF Place, ClientRec
<1>9. /\ resumed'[c] = resumed[c] \cup {r.event}
      /\ \A d \in Clients \ {c} : resumed'[d] = resumed[d]
      /\ resumed' \in [Clients -> SUBSET (1 .. MaxEvents)]
  BY <1>1, <1>8 DEF NetInv, NetTypeOK
<1>10. passes[<<c, r.event>>] >= 1
  BY <1>1, <1>4 DEF Link, Current
<1> HIDE DEF k0
<1>11. NetTypeOK'
  BY <1>1, <1>6, <1>7, <1>9 DEF NetInv, NetTypeOK
<1>12. Place(c)'
  BY <1>1, <1>2, <1>3, <1>6 DEF Place, Picks
<1>13. Holds(c)'
  BY <1>2, <1>3, <1>4, <1>5, <1>6, <1>7 DEF Holds, Held
<1>14. KeepsOthers(c)
  <2>1. \A k \in DOMAIN conns :
          /\ conns'[k].at = conns[k].at /\ conns'[k].server = conns[k].server
          /\ conns'[k].link = conns[k].link /\ (k[1] # c => conns'[k] = conns[k])
    BY <1>4, <1>5, <1>7
  <2> QED BY <1>1, <1>6, <1>7, <1>9, <2>1 DEF KeepsOthers, Up, innetVars
<1>15. Answered(c)
  BY <1>1 DEF Answered, k0
<1>16. ASSUME NEW k \in DOMAIN conns', k[1] = c PROVE Link(k)'
  <2>1. k \in DOMAIN conns /\ k # NoSocket /\ Link(k)
    BY <1>7, ClientFacts
  <2>2. CASE k = k0
    <3>1. /\ conns[k0].toServer # <<>> => ~Up(k0)
          /\ conns[k0].at = "backlog" => ~Up(k0)
      BY <1>1, <1>4 DEF Link, k0
    <3> QED BY <1>3, <1>4, <1>5, <1>6, <1>7, <1>16, <2>1, <2>2, <3>1 DEF Link, Held, Up
  <2>3. CASE k # k0
    <3>1. conns'[k] = conns[k]
      BY <1>7, <2>1, <2>3
    <3>2. conns[k].toClient = <<>> /\ (conns[k].toServer # <<>> => ~Up(k))
      BY <1>4, <1>16, <2>1, <2>3 DEF Link, Waits, k0
    <3> QED BY <1>3, <1>6, <1>16, <2>1, <3>1, <3>2 DEF Link, Held, Up
  <2> QED BY <2>2, <2>3
<1>17. \A e \in resumed'[c] : passes[<<c, e>>] >= 1
  BY <1>9, <1>10 DEF NetInv, NoEventSkipped
<1> QED BY <1>11, <1>12, <1>13, <1>14, <1>15, <1>16, <1>17, ClientFrame

LEMMA StepClient ==
  ASSUME NetInv, NEW c \in Clients, ClientStep(c)
  PROVE  NetInv'
<1> USE DEF ClientStep
<1>1. CASE SetHost(c)
  BY <1>1, StepSetHost
<1>2. CASE TryHost(c, Listening)
  BY <1>2, StepTryHost
<1>3. CASE ReadHeader(c)
  BY <1>3, StepReadHeader
<1>4. CASE HeaderFails(c)
  BY <1>4, StepHeaderFails
<1>5. CASE Picked(c)
  BY <1>5, StepPicked
<1>6. CASE NoServer(c)
  BY <1>6, StepLeave DEF NoServer
<1>7. CASE StartEvent(c)
  BY <1>7, StepStartEvent
<1>8. CASE Send(c)
  BY <1>8, StepSend
<1>9. CASE Receive(c)
  BY <1>9, StepReceive
<1>10. CASE ReceiveFails(c)
  BY <1>10, StepRetry DEF ReceiveFails, ReadFailed
<1>11. CASE OutOfRetries(c)
  BY <1>11, StepLeave DEF OutOfRetries, GiveUp
<1>12. CASE EndJob(c)
  BY <1>12, StepLeave DEF EndJob
<1> QED
  BY <1>1, <1>2, <1>3, <1>4, <1>5, <1>6, <1>7, <1>8, <1>9, <1>10, <1>11, <1>12 DEF Client

-----------------------------------------------------------------------------
(* Steps of a server, of the network and of the user.                      *)

(* The facts about the connections of a server that its steps start from.  *)
LEMMA LinkFacts ==
  ASSUME NetInv, NEW k \in DOMAIN conns
  PROVE  k \in SocketIds /\ k[1] \in Clients /\ conns[k] \in Conn /\ Link(k)
         /\ Place(k[1])
BY SocketIdShape DEF NetInv, NetTypeOK

\* A step of the server s keeps to its own connections.
KeepsServers(s) ==
  /\ \A u \in Servers \ {s} : innet'[u] = innet[u]
  /\ \A k \in DOMAIN conns : conns[k].server # s => k \in DOMAIN conns' /\ conns'[k] = conns[k]

LEMMA ServerFrame ==
  ASSUME NetInv, NetTypeOK', NEW s \in Servers, KeepsClients, KeepsServers(s),
         \A k \in DOMAIN conns' : conns[k].server = s => Link(k)',
         Serves(s)'
  PROVE  NetInv'
<1>1. (\A c \in Clients : Place(c) /\ Holds(c))' /\ NoEventSkipped'
  BY ClientsKept
<1>2. ASSUME NEW k \in DOMAIN conns', conns[k].server # s PROVE Link(k)'
  <2>1. k \in DOMAIN conns /\ conns'[k] = conns[k]
    BY <1>2 DEF KeepsClients, KeepsServers
  <2> QED BY <2>1, LinkKept
<1>3. ASSUME NEW u \in Servers \ {s} PROVE Serves(u)'
  <2> SUFFICES ASSUME innet[u].pc = "reply" PROVE Serves(u)'
    BY DEF Serves, KeepsServers
  <2> DEFINE k == innet[u].sock
             e == innet[u].event
  <2>1. innet'[u] = innet[u] /\ outnet' = outnet
    BY DEF KeepsServers, KeepsClients, outnetVars
  <2>2. /\ k \in DOMAIN conns /\ conns[k].server = u /\ conns[k].at = "listed"
        /\ e \in Events /\ passes[e] >= 1
        /\ Up(k) => /\ Waits(k) /\ e = Current(k)
                    /\ conns[k].toServer = <<>> /\ conns[k].toClient = <<>>
    BY DEF NetInv, Serves
  <2>3. k \in DOMAIN conns' /\ conns'[k] = conns[k]
    BY <2>2 DEF KeepsServers
  <2>4. passes'[e] >= 1
    <3>1. passes[e] \in Nat /\ passes'[e] \in Nat /\ passes'[e] >= passes[e]
      BY <2>2 DEF NetInv, NetTypeOK, KeepsClients
    <3> QED BY <2>2, <3>1
  <2> QED BY <2>1, <2>2, <2>3, <2>4 DEF Serves, Up, Waits, Current
<1> QED BY <1>1, <1>2, <1>3 DEF NetInv

(* A server that works for none, and closes some of its ends.              *)
LEMMA StepCloseServerEnds ==
  ASSUME NetInv, NEW s \in Servers, NEW ks, \A k \in ks : k \in DOMAIN conns /\ conns[k].server = s,
         conns' = Tidy(CloseServerEnds(conns, ks)),
         innet' \in [Servers -> ServerRec], \A u \in Servers \ {s} : innet'[u] = innet[u],
         innet'[s].pc # "reply",
         UNCHANGED <<faults, passes, outnetVars>>
  PROVE  NetInv'
<1>1. conns \in [DOMAIN conns -> Conn]
  BY DEF NetInv, NetTypeOK
<1>2. /\ DOMAIN conns' \subseteq DOMAIN conns /\ conns' \in [DOMAIN conns' -> Conn]
      /\ \A k \in DOMAIN conns :
           conns[k].open \/ (k \notin ks /\ conns[k].at # "gone") => k \in DOMAIN conns'
      /\ \A k \in DOMAIN conns' : conns'[k].open \/ conns'[k].at # "gone"
      /\ \A k \in DOMAIN conns' \ ks : conns'[k] = conns[k]
      /\ \A k \in DOMAIN conns' \cap ks :
           /\ conns'[k].server = conns[k].server /\ conns'[k].at = "gone"
           /\ conns'[k].toServer = <<>> /\ conns'[k].toClient = conns[k].toClient
           /\ conns'[k].open = conns[k].open /\ conns'[k].link = Closed(conns[k].link)
  BY <1>1, ServerEndsClosed
<1>3. outnet' = outnet /\ resumed' = resumed /\ passes' = passes /\ faults' = faults
  BY DEF outnetVars
<1>4. NetTypeOK'
  BY <1>2, <1>3 DEF NetInv, NetTypeOK
<1>5. \A k \in DOMAIN conns' \cap ks : conns'[k].link # "up"
  BY <1>2 DEF Closed
<1>6. KeepsClients
  <2>1. \A e \in Events : passes'[e] >= passes[e]
    BY <1>3 DEF NetInv, NetTypeOK
  <2>2. ASSUME NEW k \in DOMAIN conns
        PROVE  /\ conns[k].open => k \in DOMAIN conns' /\ conns'[k].open
               /\ k \in DOMAIN conns' /\ conns'[k].link = "up" => conns[k].link = "up"
    BY <1>2, <1>5
  <2> QED BY <1>2, <1>3, <2>1, <2>2 DEF KeepsClients, Up, outnetVars
<1>7. KeepsServers(s)
  <2>1. ASSUME NEW k \in DOMAIN conns, conns[k].server # s
        PROVE  k \in DOMAIN conns' /\ conns'[k] = conns[k]
    <3>1. k \notin ks /\ (conns[k].open \/ conns[k].at # "gone")
      BY <2>1, LinkFacts DEF Link
    <3> QED BY <1>2, <3>1
  <2> QED BY <2>1 DEF KeepsServers
<1>8. ASSUME NEW k \in DOMAIN conns' PROVE Link(k)'
  <2>1. k \in DOMAIN conns /\ Link(k)
    BY <1>2, LinkFacts
  <2>2. CASE k \in ks
    <3>1. /\ conns'[k].open \/ conns'[k].at # "gone"
          /\ conns'[k].at = "gone" /\ conns'[k].toServer = <<>> /\ conns'[k].link # "up"
          /\ conns'[k].toClient = conns[k].toClient /\ conns'[k].open = conns[k].open
      BY <1>2, <1>5, <2>2
    <3> QED BY <1>3, <2>1, <3>1 DEF Link, Held, Up, Waits, Current
  <2>3. CASE k \notin ks
    BY <1>2, <1>4, <1>6, <2>1, <2>3, LinkKept
  <2> QED BY <2>2, <2>3
<1>9. Serves(s)'
  BY DEF Serves
<1> QED BY <1>4, <1>6, <1>7, <1>8, <1>9, ServerFrame

(* A server that works for none, and wrote to a client or accepted it.     *)
LEMMA StepAccepted ==
  ASSUME NetInv, NEW s \in Servers, NEW k \in DOMAIN conns, conns[k].server = s,
         NEW h \in Requests \cup Headers, conns' = Accepted(k, h),
         h # <<>> => \/ k = outnet[k[1]].trying /\ h \in Headers
                     \/ Waits(k) /\ h = <<Current(k)>> /\ passes[Current(k)] >= 1,
         Up(k) => conns[k].toServer = <<>>,
         innet' \in [Servers -> ServerRec], \A u \in Servers \ {s} : innet'[u] = innet[u],
         innet'[s].pc # "reply",
         UNCHANGED <<faults, passes, outnetVars>>
  PROVE  NetInv'
<1> DEFINE x == [conns[k] EXCEPT !.at = "listed", !.toClient = h]
<1>1. conns' = [conns EXCEPT ![k] = x]
  BY DEF Accepted
<1>2. conns[k] \in Conn /\ Link(k) /\ conns \in [DOMAIN conns -> Conn]
  BY LinkFacts DEF NetInv, NetTypeOK
<1>3. /\ x \in Conn /\ x.at = "listed" /\ x.toClient = h /\ x.open = conns[k].open
      /\ x.server = conns[k].server /\ x.link = conns[k].link
      /\ x.toServer = conns[k].toServer
  BY <1>2 DEF Conn
<1> HIDE DEF x
<1>4. /\ DOMAIN conns' = DOMAIN conns /\ conns' \in [DOMAIN conns' -> Conn]
      /\ conns'[k] = x /\ \A j \in DOMAIN conns \ {k} : conns'[j] = conns[j]
  BY <1>1, <1>2, <1>3
<1>5. outnet' = outnet /\ resumed' = resumed /\ passes' = passes /\ faults' = faults
  BY DEF outnetVars
<1>6. NetTypeOK'
  BY <1>4, <1>5 DEF NetInv, NetTypeOK
<1>7. KeepsClients
  <2>1. \A e \in Events : passes'[e] >= passes[e]
    BY <1>5 DEF NetInv, NetTypeOK
  <2> QED BY <1>3, <1>4, <1>5, <2>1 DEF KeepsClients, Up, outnetVars
<1>8. KeepsServers(s)
  BY <1>4 DEF KeepsServers
<1>9. ASSUME NEW j \in DOMAIN conns' PROVE Link(j)'
  <2>1. CASE j = k
    BY <1>2, <1>3, <1>4, <1>5, <2>1 DEF Link, Held, Up, Waits, Current
  <2>2. CASE j # k
    BY <1>4, <1>6, <1>7, <2>2, LinkKept
  <2> QED BY <2>1, <2>2
<1>10. Serves(s)'
  BY DEF Serves
<1> QED BY <1>6, <1>7, <1>8, <1>9, <1>10, ServerFrame

LEMMA StepAccept ==
  ASSUME NetInv, NEW s \in Servers, Accept(s), UNCHANGED outnetVars
  PROVE  NetInv'
<1>1. PICK k \in AtServer(s, "backlog") :
        IF Up(k) THEN conns' = Accepted(k, << <<Load(s)>> >>)
        ELSE \/ conns' = Accepted(k, <<>>)
             \/ conns' = Tidy(CloseServerEnds(conns, {k}))
  BY DEF Accept
<1>2. k \in DOMAIN conns /\ conns[k].server = s /\ conns[k].at = "backlog"
  BY DEF AtServer
<1>3. /\ innet' = innet /\ innet' \in [Servers -> ServerRec] /\ innet'[s].pc # "reply"
      /\ UNCHANGED <<faults, passes, outnetVars>>
  BY DEF Accept, InLoop, innetVars, NetInv, NetTypeOK
<1>4. CASE Up(k)
  <2>1. << <<Load(s)>> >> \in Headers
    BY LoadIsNumber DEF NetInv, Headers
  <2>2. k = outnet[k[1]].trying /\ k # NoSocket /\ k[1] \in Clients /\ Link(k)
    BY <1>2, <1>4, LinkFacts, SocketIdShape DEF Link
  <2>3. outnet[k[1]].pc = "header"
    BY <1>2, <2>2, LinkFacts DEF Place
  <2>4. conns[k].toServer = <<>>
    BY <1>4, <2>2, <2>3 DEF Link, Waits
  <2> QED BY <1>1, <1>2, <1>3, <1>4, <2>1, <2>2, <2>4, StepAccepted
<1>5. CASE ~Up(k) /\ conns' = Accepted(k, <<>>)
  <2>1. <<>> \in Requests \cup Headers
    BY DEF Requests
  <2> QED BY <1>2, <1>3, <1>5, <2>1, StepAccepted
<1>6. CASE conns' = Tidy(CloseServerEnds(conns, {k}))
  BY <1>2, <1>3, <1>6, StepCloseServerEnds
<1> QED BY <1>1, <1>4, <1>5, <1>6

LEMMA StepReadEvent ==
  ASSUME NetInv, NEW s \in Servers, ReadEvent(s), UNCHANGED outnetVars
  PROVE  NetInv'
<1>1. PICK k \in Ready(s) :
        /\ conns[k].toServer # <<>>
        /\ LET e == Head(conns[k].toServer) IN
           /\ innet' = [innet EXCEPT ![s].pc = "reply", ![s].sock = k, ![s].event = e]
           /\ passes' = [passes EXCEPT ![e] = @ + 1]
        /\ conns' = [conns EXCEPT ![k].toServer = Tail(@)]
  BY DEF ReadEvent
<1>2. k \in DOMAIN conns /\ conns[k].server = s /\ conns[k].at = "listed"
  BY DEF Ready, AtServer
<1>3. conns[k] \in Conn /\ Link(k) /\ conns \in [DOMAIN conns -> Conn] /\ k \in SocketIds
  BY <1>2, LinkFacts DEF NetInv, NetTypeOK
<1> DEFINE e == Head(conns[k].toServer)
           x == [conns[k] EXCEPT !.toServer = <<>>]
           q == [innet[s] EXCEPT !.pc = "reply", !.sock = k, !.event = e]
<1>4. e \in Events /\ conns[k].toServer = <<e>> /\ Tail(conns[k].toServer) = <<>>
  <2>1. PICK f \in Events : conns[k].toServer = <<f>>
    BY <1>1, <1>3 DEF Conn, Requests
  <2>2. Head(<<f>>) = f /\ Tail(<<f>>) = <<>>
    OBVIOUS
  <2> QED BY <2>1, <2>2
<1>5. conns' = [conns EXCEPT ![k] = x] /\ innet' = [innet EXCEPT ![s] = q]
      /\ passes' = [passes EXCEPT ![e] = @ + 1]
  BY <1>1, <1>4
<1>6. /\ x \in Conn /\ x.toServer = <<>> /\ x.toClient = conns[k].toClient
      /\ x.open = conns[k].open /\ x.at = conns[k].at
      /\ x.server = conns[k].server /\ x.link = conns[k].link
  BY <1>3 DEF Conn, Requests
<1> HIDE DEF x, e
<1>7. /\ q \in ServerRec /\ q.pc = "reply" /\ q.sock = k /\ q.event = e
  BY <1>3, <1>4 DEF NetInv, NetTypeOK, ServerRec, Sock
<1> HIDE DEF q
<1>8. /\ DOMAIN conns' = DOMAIN conns /\ conns' \in [DOMAIN conns' -> Conn]
      /\ conns'[k] = x /\ \A j \in DOMAIN conns \ {k} : conns'[j] = conns[j]
  BY <1>2, <1>3, <1>5, <1>6
<1>9. /\ innet' \in [Servers -> ServerRec] /\ innet'[s] = q
      /\ \A u \in Servers \ {s} : innet'[u] = innet[u]
  BY <1>5, <1>7 DEF NetInv, NetTypeOK
<1>10. /\ passes' \in [Events -> Nat] /\ passes'[e] >= 1
       /\ \A f \in Events : passes'[f] >= passes[f]
  BY <1>4, <1>5 DEF NetInv, NetTypeOK
<1>11. outnet' = outnet /\ resumed' = resumed /\ faults' = faults
  BY DEF outnetVars, ReadEvent
<1>12. NetTypeOK'
  BY <1>8, <1>9, <1>10, <1>11 DEF NetInv, NetTypeOK
<1>13. KeepsClients
  BY <1>6, <1>8, <1>10, <1>11 DEF KeepsClients, Up, outnetVars
<1>14. KeepsServers(s)
  BY <1>2, <1>8, <1>9 DEF KeepsServers
<1>15. Up(k) => Waits(k) /\ e = Current(k) /\ conns[k].toClient = <<>>
  BY <1>1, <1>3, <1>4 DEF Link
<1>16. ASSUME NEW j \in DOMAIN conns' PROVE Link(j)'
  <2>1. CASE j = k
    <3>1. Waits(k) => passes[Current(k)] \in Nat /\ passes'[Current(k)] \in Nat
                      /\ passes'[Current(k)] >= passes[Current(k)]
      <4> SUFFICES ASSUME Waits(k) PROVE Current(k) \in Events
        BY <1>10 DEF NetInv, NetTypeOK
      <4>1. k[1] \in Clients /\ Place(k[1])
        BY <1>2, LinkFacts
      <4>2. outnet[k[1]].event \in 0 .. MaxEvents /\ outnet[k[1]].event # 0
        BY <4>1 DEF NetInv, NetTypeOK, ClientRec, Place, Waits
      <4> QED BY <4>1, <4>2, SocketAssumption DEF Current, Events
    <3> QED BY <1>3, <1>6, <1>8, <1>11, <2>1, <3>1 DEF Link, Held, Up, Waits, Current
  <2>2. CASE j # k
    BY <1>8, <1>12, <1>13, <2>2, LinkKept
  <2> QED BY <2>1, <2>2
<1>17. Serves(s)'
  BY <1>2, <1>4, <1>6, <1>7, <1>8, <1>9, <1>10, <1>11, <1>15
     DEF Serves, Up, Waits, Current
<1> QED BY <1>12, <1>13, <1>14, <1>16, <1>17, ServerFrame

LEMMA StepReadClosed ==
  ASSUME NetInv, NEW s \in Servers, ReadClosed(s), UNCHANGED outnetVars
  PROVE  NetInv'
<1>1. PICK k \in Ready(s) : conns' = Removed(k)
  BY DEF ReadClosed
<1>2. k \in DOMAIN conns /\ conns[k].server = s
  BY DEF Ready, AtServer
<1>3. /\ innet' = innet /\ innet' \in [Servers -> ServerRec] /\ innet'[s].pc # "reply"
      /\ UNCHANGED <<faults, passes, outnetVars>>
  BY DEF ReadClosed, InLoop, innetVars, NetInv, NetTypeOK
<1> QED BY <1>1, <1>2, <1>3, StepCloseServerEnds DEF Removed

LEMMA StepEndListen ==
  ASSUME NetInv, NEW s \in Servers, NEW how \in {"stopped", "died"}, EndListen(s, how),
         UNCHANGED outnetVars
  PROVE  NetInv'
<1> DEFINE q == [innet[s] EXCEPT !.pc = how]
           ks == AtServer(s, "listed") \cup AtServer(s, "backlog")
<1>1. q \in ServerRec /\ q.pc = how
  BY DEF NetInv, NetTypeOK, ServerRec
<1>2. innet' = [innet EXCEPT ![s] = q] /\ conns' = Tidy(CloseServerEnds(conns, ks))
      /\ UNCHANGED <<faults, passes, outnetVars>>
  BY DEF EndListen
<1> HIDE DEF q
<1>3. /\ innet' \in [Servers -> ServerRec] /\ innet'[s].pc # "reply"
      /\ \A u \in Servers \ {s} : innet'[u] = innet[u]
  BY <1>1, <1>2 DEF NetInv, NetTypeOK
<1>4. \A k \in ks : k \in DOMAIN conns /\ conns[k].server = s
  BY DEF AtServer
<1> HIDE DEF ks
<1> QED BY <1>2, <1>3, <1>4, StepCloseServerEnds

LEMMA StepReply ==
  ASSUME NetInv, NEW s \in Servers, Reply(s), UNCHANGED outnetVars
  PROVE  NetInv'
<1> DEFINE k == innet[s].sock
           e == innet[s].event
           q == [innet[s] EXCEPT !.pc = "listen", !.sock = NoSocket, !.event = NoEvent]
<1>1. /\ innet[s].pc = "reply" /\ innet' = [innet EXCEPT ![s] = q]
      /\ UNCHANGED <<faults, passes, outnetVars>>
      /\ \/ Up(k) /\ conns' = Accepted(k, <<e>>)
         \/ UNCHANGED conns
         \/ conns' = Tidy(CloseServerEnds(conns, {k}))
  BY DEF Reply, Answer, Removed
<1>2. /\ k \in DOMAIN conns /\ conns[k].server = s /\ conns[k].at = "listed"
      /\ e \in Events /\ passes[e] >= 1
      /\ Up(k) => /\ Waits(k) /\ e = Current(k)
                  /\ conns[k].toServer = <<>> /\ conns[k].toClient = <<>>
  BY <1>1 DEF NetInv, Serves
<1>3. q \in ServerRec /\ q.pc = "listen"
  BY DEF NetInv, NetTypeOK, ServerRec, Sock
<1> HIDE DEF q
<1>4. /\ innet' \in [Servers -> ServerRec] /\ innet'[s].pc # "reply"
      /\ \A u \in Servers \ {s} : innet'[u] = innet[u]
  BY <1>1, <1>3 DEF NetInv, NetTypeOK
<1> HIDE DEF k, e
<1>5. CASE Up(k) /\ conns' = Accepted(k, <<e>>)
  <2>1. <<e>> \in Requests \cup Headers
    BY <1>2 DEF Requests
  <2>2. Waits(k) /\ <<e>> = <<Current(k)>> /\ passes[Current(k)] >= 1
    BY <1>2, <1>5
  <2> QED BY <1>1, <1>2, <1>4, <1>5, <2>1, <2>2, StepAccepted
<1>6. CASE UNCHANGED conns
  <2>1. NetTypeOK'
    BY <1>1, <1>4, <1>6 DEF NetInv, NetTypeOK, outnetVars
  <2>2. KeepsClients /\ KeepsServers(s)
    BY <1>1, <1>4, <1>6 DEF KeepsClients, KeepsServers, Up, outnetVars, NetInv, NetTypeOK
  <2>3. \A j \in DOMAIN conns' : Link(j)'
    BY <1>6, <2>1, <2>2, LinkKept
  <2>4. Serves(s)'
    BY <1>4 DEF Serves
  <2> QED BY <2>1, <2>2, <2>3, <2>4, ServerFrame
<1>7. CASE conns' = Tidy(CloseServerEnds(conns, {k}))
  BY <1>1, <1>2, <1>4, <1>7, StepCloseServerEnds
<1> QED BY <1>1, <1>5, <1>6, <1>7

LEMMA StepServer ==
  ASSUME NetInv, NEW s \in Servers, ServerStep(s)
  PROVE  NetInv'
<1> USE DEF ServerStep
<1>1. CASE Accept(s)
  BY <1>1, StepAccept
<1>2. CASE ReadEvent(s)
  BY <1>2, StepReadEvent
<1>3. CASE ReadClosed(s)
  BY <1>3, StepReadClosed
<1>4. CASE ReadError(s)
  BY <1>4, StepEndListen DEF ReadError
<1>5. CASE Reply(s)
  BY <1>5, StepReply
<1>6. CASE Stop(s)
  BY <1>6, StepEndListen DEF Stop
<1> QED BY <1>1, <1>2, <1>3, <1>4, <1>5, <1>6 DEF Server, Select

LEMMA StepBreak ==
  ASSUME NetInv, NEW k \in DOMAIN conns, Break(k), UNCHANGED <<outnetVars, innetVars>>
  PROVE  NetInv'
<1>1. PICK request \in {conns[k].toServer, <<>>}, answer \in {conns[k].toClient, <<>>} :
        conns' = [conns EXCEPT ![k].link = "broken", ![k].toServer = request,
                               ![k].toClient = answer]
  BY DEF Break
<1> DEFINE x == [conns[k] EXCEPT !.link = "broken", !.toServer = request, !.toClient = answer]
<1>2. conns' = [conns EXCEPT ![k] = x]
  BY <1>1
<1>3. conns[k] \in Conn /\ Link(k) /\ conns \in [DOMAIN conns -> Conn]
  BY LinkFacts DEF NetInv, NetTypeOK
<1>4. /\ x \in Conn /\ x.link = "broken" /\ x.toClient = answer
      /\ x.open = conns[k].open /\ x.at = conns[k].at /\ x.server = conns[k].server
  <2>1. request \in Requests /\ answer \in Requests \cup Headers
    BY <1>3 DEF Conn, Requests
  <2> QED BY <1>3, <2>1 DEF Conn
<1> HIDE DEF x
<1>5. /\ DOMAIN conns' = DOMAIN conns /\ conns' \in [DOMAIN conns' -> Conn]
      /\ conns'[k] = x /\ \A j \in DOMAIN conns \ {k} : conns'[j] = conns[j]
  BY <1>2, <1>3, <1>4
<1>6. outnet' = outnet /\ resumed' = resumed /\ innet' = innet /\ passes' = passes
  BY DEF outnetVars, innetVars
<1>7. NetTypeOK'
  <2>1. faults' \in Nat
    BY DEF Break, Disturb, NetInv, NetTypeOK
  <2> QED BY <1>5, <1>6, <2>1 DEF NetInv, NetTypeOK
<1>8. KeepsClients
  BY <1>4, <1>5, <1>6 DEF KeepsClients, Up, outnetVars, NetInv, NetTypeOK
<1>9. ASSUME NEW j \in DOMAIN conns' PROVE Link(j)'
  <2>1. CASE j = k
    BY <1>3, <1>4, <1>5, <1>6, <2>1 DEF Link, Held, Up, Waits, Current
  <2>2. CASE j # k
    BY <1>5, <1>7, <1>8, <2>2, LinkKept
  <2> QED BY <2>1, <2>2
<1>10. ASSUME NEW s \in Servers PROVE Serves(s)'
  <2>1. Serves(s)
    BY DEF NetInv
  <2>2. CASE innet[s].sock = k
    BY <1>4, <1>5, <1>6, <2>1, <2>2 DEF Serves, Up
  <2>3. CASE innet[s].sock # k
    BY <1>5, <1>6, <2>1, <2>3 DEF Serves, Up, Waits, Current
  <2> QED BY <2>2, <2>3
<1> QED BY <1>7, <1>8, <1>9, <1>10, ClientsKept DEF NetInv

LEMMA StepUser ==
  ASSUME NetInv, NEW s \in Servers, ServerSigInt(s), UNCHANGED outnetVars
  PROVE  NetInv'
<1> DEFINE q == [innet[s] EXCEPT !.sig = TRUE]
<1>1. /\ innet' = [innet EXCEPT ![s] = q] /\ conns' = conns /\ passes' = passes
      /\ outnet' = outnet /\ resumed' = resumed
  BY DEF ServerSigInt, outnetVars
<1>2. /\ q \in ServerRec /\ q.pc = innet[s].pc /\ q.sock = innet[s].sock
      /\ q.event = innet[s].event
  BY DEF NetInv, NetTypeOK, ServerRec
<1> HIDE DEF q
<1>3. /\ innet' \in [Servers -> ServerRec] /\ innet'[s] = q
      /\ \A u \in Servers \ {s} : innet'[u] = innet[u]
  BY <1>1, <1>2 DEF NetInv, NetTypeOK
<1>4. NetTypeOK'
  <2>1. faults' \in Nat
    BY DEF ServerSigInt, Disturb, NetInv, NetTypeOK
  <2> QED BY <1>1, <1>3, <2>1 DEF NetInv, NetTypeOK
<1>5. KeepsClients /\ KeepsServers(s)
  BY <1>1, <1>3 DEF KeepsClients, KeepsServers, Up, outnetVars, NetInv, NetTypeOK
<1>6. \A k \in DOMAIN conns' : Link(k)'
  BY <1>1, <1>4, <1>5, LinkKept
<1>7. Serves(s)'
  <2>1. Serves(s)
    BY DEF NetInv
  <2>2. /\ innet'[s].pc = innet[s].pc /\ innet'[s].sock = innet[s].sock
        /\ innet'[s].event = innet[s].event
    BY <1>2, <1>3
  <2> QED BY <1>1, <2>1, <2>2 DEF Serves, Up, Waits, Current
<1> QED BY <1>4, <1>5, <1>6, <1>7, ServerFrame

-----------------------------------------------------------------------------
(* The theorems.                                                           *)

LEMMA InitNet == Init => NetInv
<1> SUFFICES ASSUME Init PROVE NetInv
  OBVIOUS
<1> USE DEF Init, SocketInit, OutNetInit, InNetInit
<1>1. PICK check \in [Clients -> BOOLEAN] :
        outnet = [c \in Clients |->
                   [pc |-> "macro", versionCheck |-> check[c], hosts |-> <<>>,
                    socket |-> NoSocket, host |-> 1, trying |-> NoSocket,
                    best |-> NoSocket, minLoad |-> 0, back |-> "idle",
                    retries |-> -1, event |-> 0, settings |-> 0]]
  OBVIOUS
<1>2. conns = <<>> /\ DOMAIN conns = {}
  OBVIOUS
<1>3. outnet \in [Clients -> ClientRec]
  <2>1. -1 \in Int /\ 1 \in Nat \ {0} /\ 0 \in 0 .. MaxEvents /\ <<>> \in Seq(Servers)
    BY SocketAssumption
  <2> QED BY <1>1, <2>1 DEF ClientRec, Sock
<1>4. innet \in [Servers -> ServerRec] /\ \A s \in Servers : innet[s].pc = "listen"
  BY DEF ServerRec, Sock, NoEvent
<1>5. NetTypeOK
  <2>1. conns \in [DOMAIN conns -> Conn]
    BY <1>2
  <2> QED BY <1>2, <1>3, <1>4, <2>1 DEF NetTypeOK
<1>6. \A c \in Clients : Place(c) /\ Holds(c)
  BY <1>1 DEF Place, Picks, Holds, Held
<1> QED BY <1>2, <1>4, <1>5, <1>6 DEF NetInv, Serves, NoEventSkipped

(* The inductive invariant holds of the clients, servers and connections.  *)
THEOREM NetInvariant == Spec => []NetInv
<1>1. NetInv /\ [Next]_vars => NetInv'
  <2> SUFFICES ASSUME NetInv, [Next]_vars PROVE NetInv'
    OBVIOUS
  <2>1. CASE \E c \in Clients : ClientStep(c)
    BY <2>1, StepClient
  <2>2. CASE \E s \in Servers : ServerStep(s)
    BY <2>2, StepServer
  <2>3. CASE Network
    BY <2>3, StepBreak DEF Network
  <2>4. CASE User
    BY <2>4, StepUser DEF User
  <2>5. CASE UNCHANGED vars
    <3>1. /\ conns' = conns /\ faults' = faults /\ outnet' = outnet /\ resumed' = resumed
          /\ innet' = innet /\ passes' = passes
      BY <2>5 DEF vars, socketVars, outnetVars, innetVars
    <3> QED BY <3>1 DEF NetInv, NetTypeOK, Place, Picks, Holds, Held, Link, Serves, Waits, Current,
                        Up, NoEventSkipped
  <2> QED BY <2>1, <2>2, <2>3, <2>4, <2>5 DEF Next
<1> QED BY <1>1, InitNet, PTL DEF Spec

(* AnswersAreOwn for any number of clients, servers, events, retries and   *)
(* faults: what a client reads while it waits is the event that it sent    *)
(* (OutNetProc::DSEvent, InNetProducer::Listen).                           *)
THEOREM AnswersOwn == Spec => []AnswersAreOwn
<1>1. NetInv => AnswersAreOwn
  <2> SUFFICES ASSUME NetInv, NEW c \in Clients, outnet[c].pc = "wait",
                      conns[outnet[c].socket].toClient # <<>>
               PROVE  conns[outnet[c].socket].toClient = << <<c, outnet[c].event>> >>
    BY DEF AnswersAreOwn
  <2> DEFINE k == outnet[c].socket
  <2>1. k \in DOMAIN conns /\ k[1] = c /\ k # NoSocket /\ Link(k)
    BY ClientFacts DEF Place, Picks, Holds, Held
  <2>2. outnet[c].trying = NoSocket
    BY ClientFacts DEF Place
  <2> QED BY <2>1, <2>2 DEF Link, Waits, Current
<1> QED BY <1>1, NetInvariant, PTL

(* NoEventSkipped likewise: an event that outnet returned OK for was       *)
(* processed by a server, whatever broke meanwhile.                        *)
THEOREM NothingSkipped == Spec => []NoEventSkipped
<1>1. NetInv => NoEventSkipped
  BY DEF NetInv
<1> QED BY <1>1, NetInvariant, PTL

-----------------------------------------------------------------------------
(* Connections in use that their client forgot.                            *)

\* The next PickServer to return forgets a socket that may be up.
Forgets(c) ==
  IF Picks(outnet[c]) /\ outnet[c].back = "idle" /\ outnet[c].socket # NoSocket THEN 1 ELSE 0

GhostInv(c) ==
  IF outnet[c].pc = "macro" THEN Ghosts(c) \subseteq {}
  ELSE Cardinality(Ghosts(c)) + Forgets(c) < outnet[c].settings

\* Connections that are up were up, and those in ks are not any more.
UpKept(ks) == \A k \in DOMAIN conns' : Up(k)' => k \in DOMAIN conns \ ks /\ Up(k)

LEMMA ClosingUp ==
  ASSUME NEW cs, cs \in [DOMAIN conns -> Conn], NEW ks,
         \A k \in DOMAIN conns : cs[k].link = conns[k].link,
         \/ conns' = Tidy(CloseClientEnds(cs, ks))
         \/ conns' = Tidy(CloseServerEnds(cs, ks))
  PROVE  UpKept(ks)
<1>1. DOMAIN cs = DOMAIN conns /\ cs \in [DOMAIN cs -> Conn]
  OBVIOUS
<1>2. /\ DOMAIN conns' \subseteq DOMAIN cs
      /\ \A k \in DOMAIN conns' \ ks : conns'[k] = cs[k]
      /\ \A k \in DOMAIN conns' \cap ks : conns'[k].link = Closed(cs[k].link)
  <2>1. CASE conns' = Tidy(CloseClientEnds(cs, ks))
    BY <1>1, <2>1, ClientEndsClosed
  <2>2. CASE conns' = Tidy(CloseServerEnds(cs, ks))
    BY <1>1, <2>2, ServerEndsClosed
  <2> QED BY <2>1, <2>2
<1>3. \A k \in DOMAIN conns' \cap ks : conns'[k].link # "up"
  BY <1>2 DEF Closed
<1> QED BY <1>1, <1>2, <1>3 DEF UpKept, Up

LEMMA GhostsAreCounted ==
  ASSUME NetTypeOK, NetTypeOK', NEW c \in Clients, NEW k
  PROVE  /\ Cardinality(Ghosts(c)) \in Nat /\ Cardinality(Ghosts(c)') \in Nat
         /\ Ghosts(c)' \subseteq Ghosts(c) =>
              Cardinality(Ghosts(c)') <= Cardinality(Ghosts(c))
         /\ Ghosts(c)' \subseteq Ghosts(c) \cup {k} =>
              Cardinality(Ghosts(c)') <= Cardinality(Ghosts(c)) + 1
<1> DEFINE G == Ghosts(c)
           H == Ghosts(c)'
           I == G \cup {k}
<1>1. G \in SUBSET SocketIds /\ H \in SUBSET SocketIds
  BY DEF Ghosts, OwnSockets, NetTypeOK
<1>2. IsFiniteSet(G) /\ IsFiniteSet(H)
  BY <1>1, SocketsAreFinite, FS_Subset
<1> HIDE DEF G, H
<1>3. Cardinality(G) \in Nat /\ Cardinality(H) \in Nat
  BY <1>2, FS_CardinalityType
<1>4. H \subseteq G => Cardinality(H) <= Cardinality(G)
  BY <1>2, FS_Subset
<1>5. /\ IsFiniteSet(I) /\ Cardinality(I) \in Nat
      /\ Cardinality(I) = IF k \in G THEN Cardinality(G) ELSE Cardinality(G) + 1
  BY <1>2, FS_AddElement, FS_CardinalityType
<1> HIDE DEF I
<1>6. H \subseteq I => Cardinality(H) <= Cardinality(I)
  BY <1>5, FS_Subset
<1>7. H \subseteq I => Cardinality(H) <= Cardinality(G) + 1
  BY <1>3, <1>5, <1>6
<1> QED BY <1>3, <1>4, <1>7 DEF G, H, I

(* A step that leaves no more of them and is not one of SetHost.           *)
LEMMA GhostsStay ==
  ASSUME NetInv, NetInv', NEW c \in Clients, GhostInv(c), Ghosts(c)' \subseteq Ghosts(c),
         outnet[c].pc = "macro" <=> outnet'[c].pc = "macro",
         outnet'[c].settings = outnet[c].settings, Forgets(c)' <= Forgets(c)
  PROVE  GhostInv(c)'
<1>1. CASE outnet[c].pc = "macro"
  BY <1>1 DEF GhostInv
<1>2. CASE outnet[c].pc # "macro"
  <2> DEFINE a == Cardinality(Ghosts(c))
             b == Cardinality(Ghosts(c)')
             f == Forgets(c)
             g == Forgets(c)'
             n == outnet[c].settings
  <2>1. a \in Nat /\ b \in Nat /\ b <= a
    BY GhostsAreCounted DEF NetInv
  <2>2. f \in Nat /\ g \in Nat /\ g <= f
    BY DEF Forgets
  <2>3. n \in Nat
    BY ClientFacts DEF ClientRec
  <2>4. a + f < n
    BY <1>2 DEF GhostInv
  <2>5. outnet'[c].settings = n /\ outnet'[c].pc # "macro"
    BY <1>2
  <2> HIDE DEF a, b, f, g, n
  <2>6. b + g < n
    BY <2>1, <2>2, <2>3, <2>4
  <2> QED BY <2>5, <2>6 DEF GhostInv, b, g
<1> QED BY <1>1, <1>2

(* A client that a step does not concern.                                  *)
LEMMA GhostsOfOthers ==
  ASSUME NetInv, NetInv', NEW c \in Clients, GhostInv(c), outnet'[c] = outnet[c],
         \A k \in DOMAIN conns' : k[1] = c /\ Up(k)' => k \in DOMAIN conns /\ Up(k)
  PROVE  GhostInv(c)'
<1>1. Ghosts(c)' \subseteq Ghosts(c)
  BY DEF Ghosts, OwnSockets, UsedBy
<1>2. Forgets(c)' <= Forgets(c)
  BY DEF Forgets
<1> QED BY <1>1, <1>2, GhostsStay

LEMMA GhostsSetHost ==
  ASSUME NetInv, NetInv', NEW c \in Clients, GhostInv(c), SetHost(c)
  PROVE  GhostInv(c)'
<1> DEFINE r == outnet[c]
           a == Cardinality(Ghosts(c))
           g == Forgets(c)'
           n == r.settings
<1>1. outnet \in [Clients -> ClientRec] /\ r \in ClientRec /\ Place(c)
  BY ClientFacts DEF NetInv, NetTypeOK
<1>2. /\ r.pc \in {"macro", "idle"} /\ conns' = conns
      /\ outnet'[c].pc = "connect" /\ outnet'[c].back = "idle"
      /\ outnet'[c].socket = r.socket /\ outnet'[c].best = r.best
      /\ outnet'[c].trying = r.trying /\ outnet'[c].settings = n + 1
  BY <1>1 DEF SetHost, Picking, ClientRec, socketVars
<1>3. Ghosts(c)' = Ghosts(c)
  BY <1>2 DEF Ghosts, OwnSockets, UsedBy, Up
<1>4. a \in Nat /\ n \in Nat
  BY <1>1, GhostsAreCounted DEF NetInv, ClientRec
<1>5. g \in {0, 1} /\ (r.socket = NoSocket => g = 0)
  BY <1>2 DEF Forgets
<1>6. CASE r.pc = "macro"
  <2>1. a = 0
    <3>1. Ghosts(c) = {}
      BY <1>6 DEF GhostInv
    <3> QED BY <3>1, FS_EmptySet
  <2>2. g = 0
    BY <1>1, <1>5, <1>6 DEF Place
  <2> HIDE DEF a, g, n
  <2>3. a + g < n + 1
    BY <1>4, <2>1, <2>2
  <2> QED BY <1>2, <1>3, <2>3 DEF GhostInv, a, g
<1>7. CASE r.pc = "idle"
  <2>1. a + Forgets(c) < n /\ Forgets(c) = 0
    BY <1>7 DEF GhostInv, Forgets, Picks
  <2> HIDE DEF a, g, n
  <2>2. a + g < n + 1
    BY <1>4, <1>5, <2>1
  <2> QED BY <1>2, <1>3, <2>2 DEF GhostInv, a, g
<1> QED BY <1>2, <1>6, <1>7

LEMMA GhostsPicked ==
  ASSUME NetInv, NetInv', NEW c \in Clients, GhostInv(c), Picked(c)
  PROVE  GhostInv(c)'
<1> DEFINE r == outnet[c]
           a == Cardinality(Ghosts(c))
           b == Cardinality(Ghosts(c)')
           n == r.settings
<1>1. /\ outnet \in [Clients -> ClientRec] /\ r \in ClientRec /\ Place(c)
      /\ conns \in [DOMAIN conns -> Conn]
  BY ClientFacts DEF NetInv, NetTypeOK
<1>2. /\ r.pc = "connect" /\ r.trying = NoSocket
      /\ outnet'[c].pc = r.back /\ r.back \in {"idle", "send"}
      /\ outnet'[c].socket = r.best /\ outnet'[c].best = NoSocket
      /\ outnet'[c].trying = NoSocket /\ outnet'[c].settings = n
  BY <1>1 DEF Picked, Place, ClientRec
<1>3. UpKept({k \in {r.socket} : k \in DOMAIN conns /\ ~Up(k)})
  BY <1>1, ClosingUp DEF Picked
<1>4. Ghosts(c)' \subseteq Ghosts(c) \cup ({r.socket} \cap {k \in DOMAIN conns : Up(k)})
  BY <1>2, <1>3 DEF UpKept, Ghosts, OwnSockets, UsedBy
<1>5. Forgets(c)' = 0
  BY <1>2 DEF Forgets, Picks
<1>6. a \in Nat /\ b \in Nat /\ n \in Nat /\ a + Forgets(c) < n
  BY <1>1, <1>2, GhostsAreCounted DEF NetInv, ClientRec, GhostInv
<1>7. b <= a + Forgets(c)
  <2>1. CASE Forgets(c) = 1
    <3>1. Ghosts(c)' \subseteq Ghosts(c) \cup {r.socket}
      BY <1>4
    <3> QED BY <2>1, <3>1, GhostsAreCounted DEF NetInv
  <2>2. CASE Forgets(c) = 0
    <3>1. r.socket \notin {k \in DOMAIN conns : Up(k)}
      <4>1. r.socket = NoSocket \/ ~Up(r.socket)
        BY <1>1, <1>2, <2>2 DEF Forgets, Place, Picks
      <4> QED BY <4>1, ClientFacts
    <3>2. Ghosts(c)' \subseteq Ghosts(c)
      BY <1>4, <3>1
    <3>3. b <= a
      BY <3>2, GhostsAreCounted DEF NetInv
    <3> HIDE DEF a, b
    <3> QED BY <1>6, <2>2, <3>3
  <2> QED BY <2>1, <2>2 DEF Forgets
<1>8. Forgets(c) \in Nat
  BY DEF Forgets
<1> HIDE DEF a, b, n
<1>9. b + 0 < n
  BY <1>6, <1>7, <1>8
<1> QED BY <1>2, <1>5, <1>9 DEF GhostInv, b

LEMMA GhostsOfClient ==
  ASSUME NetInv, NetInv', NEW c \in Clients, GhostInv(c), ClientStep(c)
  PROVE  GhostInv(c)'
<1> DEFINE r == outnet[c]
           q == outnet'[c]
<1>1. /\ outnet \in [Clients -> ClientRec] /\ r \in ClientRec /\ Place(c)
      /\ conns \in [DOMAIN conns -> Conn]
  BY ClientFacts DEF NetInv, NetTypeOK
<1>2. CASE TryHost(c, Listening)
  <2>1. /\ r.pc = "connect" /\ q.socket = r.socket /\ q.best = r.best
        /\ q.back = r.back /\ q.settings = r.settings /\ r.trying = NoSocket
        /\ q.pc \in {"connect", "header"}
    BY <1>1, <1>2 DEF TryHost, Place, ClientRec
  <2>2. Forgets(c)' <= Forgets(c)
    BY <2>1 DEF Forgets, Picks
  <2>3. Ghosts(c)' \subseteq Ghosts(c)
    <3>1. \/ UNCHANGED conns /\ q.trying = NoSocket
          \/ (\E s : conns' = Connect(c, s)) /\ q.trying = NextSocket(c)
      BY <1>1, <1>2, <2>1 DEF TryHost, ClientRec
    <3>2. CASE UNCHANGED conns /\ q.trying = NoSocket
      BY <2>1, <3>2 DEF Ghosts, OwnSockets, UsedBy, Up
    <3>3. ASSUME NEW s, conns' = Connect(c, s), q.trying = NextSocket(c)
          PROVE  Ghosts(c)' \subseteq Ghosts(c)
      <4>1. /\ DOMAIN conns' = DOMAIN conns \cup {NextSocket(c)}
            /\ \A k \in DOMAIN conns : conns'[k] = conns[k]
        BY <3>3 DEF Connect
      <4>2. NoSocket \notin DOMAIN conns
        BY ClientFacts
      <4> QED BY <2>1, <3>3, <4>1, <4>2 DEF Ghosts, OwnSockets, UsedBy, Up
    <3> QED BY <3>1, <3>2, <3>3
  <2> QED BY <2>1, <2>2, <2>3, GhostsStay
<1>3. ASSUME NEW b, NEW x, NEW load, NEW read, r.pc = "header", NextHost(c, b, load),
             {b, x} = {r.best, r.trying}, read \in [DOMAIN conns -> Conn],
             \A k \in DOMAIN conns : read[k].link = conns[k].link,
             conns' = Tidy(CloseClientEnds(read, {x}))
      PROVE  GhostInv(c)'
  <2>1. /\ q.pc = "connect" /\ q.socket = r.socket /\ q.best = b /\ q.trying = NoSocket
        /\ q.back = r.back /\ q.settings = r.settings
    BY <1>1, <1>3 DEF NextHost, ClientRec
  <2>2. UpKept({x})
    BY <1>3, ClosingUp
  <2>3. Ghosts(c)' \subseteq Ghosts(c)
    BY <1>3, <2>1, <2>2 DEF UpKept, Ghosts, OwnSockets, UsedBy
  <2>4. Forgets(c)' <= Forgets(c)
    BY <1>3, <2>1 DEF Forgets, Picks
  <2> QED BY <1>3, <2>1, <2>3, <2>4, GhostsStay
<1>4. CASE ReadHeader(c)
  <2> DEFINE read == [conns EXCEPT ![r.trying].toClient = <<>>]
  <2>1. /\ r.pc = "header"
        /\ \E load : \/ /\ NextHost(c, r.trying, load)
                        /\ conns' = Tidy(CloseClientEnds(read, {r.best}))
                     \/ /\ NextHost(c, r.best, load)
                        /\ conns' = Tidy(CloseClientEnds(read, {r.trying}))
    BY <1>4 DEF ReadHeader, DeleteBest
  <2>2. /\ read \in [DOMAIN conns -> Conn]
        /\ \A k \in DOMAIN conns : read[k].link = conns[k].link
    BY <1>1 DEF Conn, Requests
  <2> HIDE DEF read
  <2> QED BY <1>3, <2>1, <2>2
<1>5. CASE HeaderFails(c)
  BY <1>1, <1>3, <1>5 DEF HeaderFails
<1>6. CASE NoServer(c) \/ OutOfRetries(c) \/ EndJob(c)
  <2>1. PICK how \in {"done", "died"} : Leave(c, how)
    BY <1>6 DEF NoServer, OutOfRetries, EndJob, GiveUp
  <2>2. q.pc = how /\ q.settings = r.settings /\ r.pc # "macro"
    BY <1>1, <1>6, <2>1 DEF Leave, ClientRec, NoServer, OutOfRetries, ReadFailed, EndJob
  <2>3. UpKept(OwnSockets(c))
    BY <1>1, <2>1, ClosingUp DEF Leave
  <2>4. Ghosts(c)' \subseteq Ghosts(c)
    BY <2>3 DEF UpKept, Ghosts, OwnSockets
  <2>5. Forgets(c)' <= Forgets(c)
    BY <2>2 DEF Forgets, Picks
  <2> QED BY <2>2, <2>4, <2>5, GhostsStay
<1>7. ASSUME q.socket = r.socket, q.best = r.best, q.trying = r.trying,
             r.pc # "macro", q.pc # "macro", q.settings = r.settings,
             \A k \in DOMAIN conns' : k \in DOMAIN conns /\ (Up(k)' => Up(k)),
             Forgets(c)' <= Forgets(c)
      PROVE  GhostInv(c)'
  <2>1. Ghosts(c)' \subseteq Ghosts(c)
    BY <1>7 DEF Ghosts, OwnSockets, UsedBy
  <2> QED BY <1>7, <2>1, GhostsStay
<1>8. CASE StartEvent(c)
  <2>1. /\ q.socket = r.socket /\ q.best = r.best /\ q.trying = r.trying
        /\ r.pc # "macro" /\ q.pc = "send" /\ q.settings = r.settings /\ conns' = conns
    BY <1>1, <1>8 DEF StartEvent, ClientRec, socketVars
  <2> QED BY <1>7, <2>1 DEF Forgets, Picks, Up
<1>9. CASE /\ r.pc \in {"send", "wait"} /\ outnet' = [outnet EXCEPT ![c] = Retry(@)]
           /\ UNCHANGED conns
  <2>1. /\ q.socket = r.socket /\ q.best = r.best /\ q.trying = r.trying
        /\ q.pc = "connect" /\ q.back = "send" /\ q.settings = r.settings
    BY <1>1, <1>9 DEF Retry, Picking, ClientRec
  <2> QED BY <1>7, <1>9, <2>1 DEF Forgets, Picks, Up
<1>10. CASE Send(c)
  <2>1. CASE outnet' = [outnet EXCEPT ![c].pc = "wait"]
    <3>1. /\ q.socket = r.socket /\ q.best = r.best /\ q.trying = r.trying
          /\ q.pc = "wait" /\ q.settings = r.settings /\ r.pc = "send"
      BY <1>1, <1>10, <2>1 DEF Send, ClientRec
    <3>2. /\ DOMAIN conns' = DOMAIN conns
          /\ \A k \in DOMAIN conns : conns'[k].link = conns[k].link
      BY <1>1, <1>10 DEF Send, Conn
    <3> QED BY <1>7, <3>1, <3>2 DEF Forgets, Picks, Up
  <2> QED BY <1>9, <1>10, <2>1 DEF Send
<1>11. CASE Receive(c)
  <2>1. /\ q.socket = r.socket /\ q.best = r.best /\ q.trying = r.trying
        /\ q.pc = "idle" /\ q.settings = r.settings /\ r.pc = "wait"
    BY <1>1, <1>11 DEF Receive, ClientRec
  <2>2. /\ DOMAIN conns' = DOMAIN conns
        /\ \A k \in DOMAIN conns : conns'[k].link = conns[k].link
    BY <1>1, <1>11 DEF Receive, Conn
  <2> QED BY <1>7, <2>1, <2>2 DEF Forgets, Picks, Up
<1>12. CASE ReceiveFails(c)
  BY <1>9, <1>12 DEF ReceiveFails, ReadFailed, socketVars
<1> QED BY <1>2, <1>4, <1>5, <1>6, <1>8, <1>10, <1>11, <1>12, GhostsSetHost, GhostsPicked
        DEF ClientStep, Client

(* A step of one client leaves the others where they are.                  *)
LEMMA OthersStay ==
  ASSUME NetInv, NEW c \in Clients, ClientStep(c)
  PROVE  \A d \in Clients \ {c} : outnet'[d] = outnet[d]
<1>1. \E q : outnet' = [outnet EXCEPT ![c] = q]
  <2>1. CASE SetHost(c) \/ TryHost(c, Listening)
    BY <2>1 DEF SetHost, TryHost
  <2>2. CASE ReadHeader(c) \/ HeaderFails(c)
    BY <2>2 DEF ReadHeader, HeaderFails, NextHost
  <2>3. CASE Picked(c)
    BY <2>3 DEF Picked
  <2>4. CASE NoServer(c) \/ OutOfRetries(c) \/ EndJob(c)
    BY <2>4 DEF NoServer, OutOfRetries, GiveUp, EndJob, Leave
  <2>5. CASE StartEvent(c)
    BY <2>5 DEF StartEvent
  <2>6. CASE Send(c)
    BY <2>6 DEF Send
  <2>7. CASE Receive(c) \/ ReceiveFails(c)
    BY <2>7 DEF Receive, ReceiveFails
  <2> QED BY <2>1, <2>2, <2>3, <2>4, <2>5, <2>6, <2>7 DEF ClientStep, Client
<1> QED BY <1>1 DEF NetInv, NetTypeOK

\* The connections of all clients but c are up only if they were.
OthersUp(c) ==
  \A k \in DOMAIN conns' : k[1] # c /\ Up(k)' => k \in DOMAIN conns /\ Up(k)

LEMMA ClientLeavesOthersUp ==
  ASSUME NetInv, NEW c \in Clients, ClientStep(c)
  PROVE  OthersUp(c)
<1> DEFINE r == outnet[c]
<1>1. conns \in [DOMAIN conns -> Conn] /\ Place(c)
  BY ClientFacts DEF NetInv, NetTypeOK
<1>2. CASE UNCHANGED conns
  BY <1>2 DEF OthersUp, Up
<1>3. ASSUME NEW cs, cs \in [DOMAIN conns -> Conn], NEW ks,
             \A k \in DOMAIN conns : cs[k].link = conns[k].link,
             conns' = Tidy(CloseClientEnds(cs, ks))
      PROVE  OthersUp(c)
  BY <1>3, ClosingUp DEF UpKept, OthersUp
<1>4. CASE TryHost(c, Listening)
  <2>1. \/ UNCHANGED conns
        \/ Unused(c) # {} /\ \E s : conns' = Connect(c, s)
    BY <1>4 DEF TryHost
  <2>2. ASSUME Unused(c) # {}, NEW s, conns' = Connect(c, s) PROVE OthersUp(c)
    <3>1. NextSocket(c)[1] = c
      BY <2>2, NextSocketIsNew
    <3> QED BY <2>2, <3>1 DEF Connect, OthersUp, Up
  <2> QED BY <1>2, <2>1, <2>2
<1>5. CASE ReadHeader(c)
  <2> DEFINE read == [conns EXCEPT ![r.trying].toClient = <<>>]
  <2>1. \E ks : conns' = Tidy(CloseClientEnds(read, ks))
    BY <1>5 DEF ReadHeader, DeleteBest
  <2>2. /\ read \in [DOMAIN conns -> Conn]
        /\ \A k \in DOMAIN conns : read[k].link = conns[k].link
    BY <1>1 DEF Conn, Requests
  <2> HIDE DEF read
  <2> QED BY <1>3, <2>1, <2>2
<1>6. CASE HeaderFails(c) \/ Picked(c) \/ NoServer(c) \/ OutOfRetries(c) \/ EndJob(c)
  <2>1. \E ks : conns' = Tidy(CloseClientEnds(conns, ks))
    BY <1>6 DEF HeaderFails, Picked, NoServer, OutOfRetries, EndJob, GiveUp, Leave
  <2> QED BY <1>1, <1>3, <2>1
<1>7. CASE Send(c) \/ Receive(c)
  <2>1. /\ DOMAIN conns' = DOMAIN conns
        /\ \A k \in DOMAIN conns : conns'[k].link = conns[k].link
    BY <1>1, <1>7 DEF Send, Receive, Conn
  <2> QED BY <2>1 DEF OthersUp, Up
<1>8. CASE SetHost(c) \/ StartEvent(c) \/ ReceiveFails(c)
  BY <1>2, <1>8 DEF SetHost, StartEvent, ReceiveFails, socketVars
<1> QED BY <1>4, <1>5, <1>6, <1>7, <1>8 DEF ClientStep, Client

(* A step of a server or the network brings no connection up again.        *)
LEMMA NothingComesUp ==
  ASSUME NetInv, (\E s \in Servers : ServerStep(s)) \/ Network \/ User \/ UNCHANGED vars
  PROVE  outnet' = outnet /\ UpKept({})
<1>1. conns \in [DOMAIN conns -> Conn]
  BY DEF NetInv, NetTypeOK
<1>2. CASE UNCHANGED conns /\ outnet' = outnet
  BY <1>2 DEF UpKept, Up
<1>3. ASSUME NEW ks, conns' = Tidy(CloseServerEnds(conns, ks)) PROVE UpKept({})
  <2>1. UpKept(ks)
    BY <1>1, <1>3, ClosingUp
  <2> QED BY <2>1 DEF UpKept
<1>4. ASSUME NEW k, NEW h, conns' = Accepted(k, h) PROVE UpKept({})
  BY <1>1, <1>4 DEF Accepted, Conn, UpKept, Up
<1>5. ASSUME NEW s \in Servers, ServerStep(s) PROVE outnet' = outnet /\ UpKept({})
  <2>1. outnet' = outnet
    BY <1>5 DEF ServerStep, outnetVars
  <2>2. CASE Accept(s)
    BY <1>3, <1>4, <2>1, <2>2 DEF Accept
  <2>3. CASE ReadEvent(s)
    BY <1>1, <2>1, <2>3 DEF ReadEvent, Conn, UpKept, Up
  <2>4. CASE ReadClosed(s) \/ ReadError(s) \/ Stop(s)
    BY <1>3, <2>1, <2>4 DEF ReadClosed, Removed, ReadError, Stop, EndListen
  <2>5. CASE Reply(s)
    BY <1>2, <1>3, <1>4, <2>1, <2>5 DEF Reply, Answer, Removed
  <2> QED BY <1>5, <2>1, <2>2, <2>3, <2>4, <2>5 DEF ServerStep, Server, Select
<1>6. CASE Network
  <2>1. outnet' = outnet
    BY <1>6 DEF Network, outnetVars
  <2>2. \A k \in DOMAIN conns' :
          k \in DOMAIN conns /\ conns'[k].link \in {conns[k].link, "broken"}
    BY <1>1, <1>6 DEF Network, Break, Conn
  <2> QED BY <2>1, <2>2 DEF UpKept, Up
<1>7. CASE User \/ UNCHANGED vars
  BY <1>2, <1>7 DEF User, ServerSigInt, vars, socketVars, outnetVars
<1> QED BY <1>5, <1>6, <1>7

(* GhostsOnlyFromSettings for any number of clients, servers, settings,    *)
(* events, retries and faults: a client has fewer connections in use that  *)
(* it forgot than its host was set (OutNetProc::SetS, PickServer).         *)
THEOREM GhostsAreFromSettings == Spec => []GhostsOnlyFromSettings
<1> DEFINE GhostsInv == \A c \in Clients : GhostInv(c)
<1>1. Init => GhostsInv
  <2> SUFFICES ASSUME Init, NEW c \in Clients PROVE GhostInv(c)
    OBVIOUS
  <2>1. outnet[c].pc = "macro" /\ DOMAIN conns = {}
    BY DEF Init, SocketInit, OutNetInit
  <2> QED BY <2>1 DEF GhostInv, Ghosts, OwnSockets
<1>2. NetInv /\ NetInv' /\ GhostsInv /\ [Next]_vars => GhostsInv'
  <2> SUFFICES ASSUME NetInv, NetInv', GhostsInv, [Next]_vars, NEW d \in Clients
               PROVE  GhostInv(d)'
    OBVIOUS
  <2>1. ASSUME NEW c \in Clients, ClientStep(c) PROVE GhostInv(d)'
    <3>1. CASE c = d
      BY <2>1, <3>1, GhostsOfClient
    <3>2. CASE c # d
      <4>1. outnet'[d] = outnet[d]
        BY <2>1, <3>2, OthersStay
      <4>2. \A k \in DOMAIN conns' : k[1] = d /\ Up(k)' => k \in DOMAIN conns /\ Up(k)
        BY <2>1, <3>2, ClientLeavesOthersUp DEF OthersUp
      <4> QED BY <4>1, <4>2, GhostsOfOthers
    <3> QED BY <3>1, <3>2
  <2>2. CASE (\E s \in Servers : ServerStep(s)) \/ Network \/ User \/ UNCHANGED vars
    <3>1. outnet'[d] = outnet[d] /\ UpKept({})
      BY <2>2, NothingComesUp
    <3>2. \A k \in DOMAIN conns' : k[1] = d /\ Up(k)' => k \in DOMAIN conns /\ Up(k)
      BY <3>1 DEF UpKept
    <3> QED BY <3>1, <3>2, GhostsOfOthers
  <2> QED BY <2>1, <2>2 DEF Next
<1>3. NetInv /\ GhostsInv => GhostsOnlyFromSettings
  <2> SUFFICES ASSUME NetInv, NEW c \in Clients, GhostInv(c), Ghosts(c) # {}
               PROVE  Cardinality(Ghosts(c)) < outnet[c].settings
    BY DEF GhostsOnlyFromSettings
  <2> DEFINE a == Cardinality(Ghosts(c))
             n == outnet[c].settings
  <2>1. a + Forgets(c) < n /\ Forgets(c) \in Nat
    BY DEF GhostInv, Forgets
  <2>2. a \in Nat /\ n \in Nat
    <3>1. Ghosts(c) \in SUBSET SocketIds
      BY DEF Ghosts, OwnSockets, NetInv, NetTypeOK
    <3>2. a \in Nat
      BY <3>1, SocketsAreFinite, FS_Subset, FS_CardinalityType
    <3> QED BY <3>2, ClientFacts DEF ClientRec
  <2> HIDE DEF a, n
  <2>3. a < n
    BY <2>1, <2>2
  <2> QED BY <2>3 DEF a, n
<1> HIDE DEF GhostsInv
<1> QED BY <1>1, <1>2, <1>3, NetInvariant, PTL DEF Spec

-----------------------------------------------------------------------------
(* The retries of outnet: whatever breaks, and whatever a server still     *)
(* reads from a connection that broke, no event is processed more often    *)
(* than the first try and the retries allow.                               *)

\* The events e on their way to a server, on live connections or dead ones.
Pending(e) == {k \in DOMAIN conns : conns[k].toServer = <<e>>}

\* The tries of e that reached a server or still may.
Tries(e) == passes[e] + Cardinality(Pending(e))

\* The tries of its event n that a client r has made at most.
AllowedFor(r, n) ==
  IF n > r.event THEN 0
  ELSE IF n = r.event /\ r.pc \in {"connect", "header", "send"} THEN MaxRetries - r.retries
  ELSE IF n = r.event /\ r.pc = "wait" /\ r.retries >= 0 THEN MaxRetries - r.retries + 1
  ELSE MaxRetries + 1

InBounds(r) == r.retries \in -1 .. MaxRetries
Within(e) == Tries(e) <= AllowedFor(outnet[e[1]], e[2])

RetriesInv ==
  /\ \A c \in Clients : InBounds(outnet[c])
  /\ \A e \in Events : Within(e)

-----------------------------------------------------------------------------
(* What is on its way.                                                     *)

LEMMA PendingIsFinite ==
  ASSUME NetTypeOK, NEW e \in Events
  PROVE  /\ IsFiniteSet(Pending(e)) /\ Cardinality(Pending(e)) \in Nat
         /\ passes[e] \in Nat /\ Tries(e) \in Nat
<1>1. Pending(e) \in SUBSET SocketIds
  BY DEF Pending, NetTypeOK
<1>2. IsFiniteSet(Pending(e)) /\ Cardinality(Pending(e)) \in Nat
  BY <1>1, SocketsAreFinite, FS_Subset, FS_CardinalityType
<1>3. passes[e] \in Nat
  BY DEF NetTypeOK
<1> QED BY <1>2, <1>3 DEF Tries

\* Nothing is sent.
Shrinks ==
  \A k \in DOMAIN conns' : conns'[k].toServer # <<>> =>
    k \in DOMAIN conns /\ conns[k].toServer = conns'[k].toServer

(* If nothing is sent or begun, no event has more tries than before.       *)
LEMMA TriesShrink ==
  ASSUME NetTypeOK, NetTypeOK', Shrinks, passes' = passes, NEW e \in Events
  PROVE  Tries(e)' <= Tries(e)
<1>1. Pending(e)' \in SUBSET Pending(e)
  BY DEF Shrinks, Pending
<1>2. IsFiniteSet(Pending(e)) /\ Cardinality(Pending(e)) \in Nat /\ passes[e] \in Nat
  BY PendingIsFinite
<1>3. Cardinality(Pending(e)') <= Cardinality(Pending(e)) /\ IsFiniteSet(Pending(e)')
  BY <1>1, <1>2, FS_Subset
<1>4. Cardinality(Pending(e)') \in Nat
  BY <1>3, FS_CardinalityType
<1>5. Tries(e)' = passes[e] + Cardinality(Pending(e)')
  BY DEF Tries
<1> QED BY <1>2, <1>3, <1>4, <1>5 DEF Tries

LEMMA TriesCounted ==
  ASSUME NetTypeOK', NEW e \in Events
  PROVE  Tries(e)' \in Nat
<1>1. Pending(e)' \in SUBSET SocketIds
  BY DEF Pending, NetTypeOK
<1>2. Cardinality(Pending(e)') \in Nat
  BY <1>1, SocketsAreFinite, FS_Subset, FS_CardinalityType
<1>3. Tries(e)' = passes'[e] + Cardinality(Pending(e)') /\ passes'[e] \in Nat
  BY DEF Tries, NetTypeOK
<1> QED BY <1>2, <1>3

LEMMA ClosingShrinks ==
  ASSUME NEW cs, cs \in [DOMAIN conns -> Conn], NEW ks,
         \A k \in DOMAIN conns : cs[k].toServer = conns[k].toServer,
         \/ conns' = Tidy(CloseClientEnds(cs, ks))
         \/ conns' = Tidy(CloseServerEnds(cs, ks))
  PROVE  Shrinks
<1>1. DOMAIN cs = DOMAIN conns /\ cs \in [DOMAIN cs -> Conn]
  OBVIOUS
<1>2. CASE conns' = Tidy(CloseClientEnds(cs, ks))
  <2>1. /\ DOMAIN conns' \subseteq DOMAIN cs
        /\ \A k \in DOMAIN conns' \ ks : conns'[k] = cs[k]
        /\ \A k \in DOMAIN conns' \cap ks : conns'[k].toServer = cs[k].toServer
    BY <1>1, <1>2, ClientEndsClosed
  <2> QED BY <1>1, <2>1 DEF Shrinks
<1>3. CASE conns' = Tidy(CloseServerEnds(cs, ks))
  <2>1. /\ DOMAIN conns' \subseteq DOMAIN cs
        /\ \A k \in DOMAIN conns' \ ks : conns'[k] = cs[k]
        /\ \A k \in DOMAIN conns' \cap ks : conns'[k].toServer = <<>>
    BY <1>1, <1>3, ServerEndsClosed
  <2> QED BY <1>1, <2>1 DEF Shrinks
<1> QED BY <1>2, <1>3

(* A step that keeps what is on its way to each server.                    *)
LEMMA KeepingShrinks ==
  ASSUME DOMAIN conns' = DOMAIN conns,
         \A k \in DOMAIN conns : conns'[k].toServer \in {conns[k].toServer, <<>>}
  PROVE  Shrinks
BY DEF Shrinks

LEMMA AllowedIsNumber ==
  ASSUME NEW r, InBounds(r), NEW n \in 1 .. MaxEvents
  PROVE  AllowedFor(r, n) \in Int
<1>1. r.retries \in Int /\ MaxRetries \in Int
  BY OutNetAssumption DEF InBounds
<1> QED BY <1>1 DEF AllowedFor

-----------------------------------------------------------------------------
(* Steps of a client.                                                      *)

\* The part of Send that puts an event on its way.
Sends(c) ==
  LET r == outnet[c] IN
  /\ r.pc = "send" /\ r.retries >= 0 /\ Up(r.socket)
  /\ conns' = [conns EXCEPT ![r.socket].toServer = << <<c, r.event>> >>]
  /\ outnet' = [outnet EXCEPT ![c].pc = "wait"]

LEMMA ClientShrinks ==
  ASSUME NetInv, NEW c \in Clients, ClientStep(c), ~Sends(c)
  PROVE  Shrinks
<1> DEFINE r == outnet[c]
<1>1. conns \in [DOMAIN conns -> Conn]
  BY DEF NetInv, NetTypeOK
<1>2. CASE UNCHANGED conns
  BY <1>2 DEF Shrinks
<1>3. CASE \E ks : conns' = Tidy(CloseClientEnds(conns, ks))
  BY <1>1, <1>3, ClosingShrinks
<1>4. CASE TryHost(c, Listening)
  <2>1. UNCHANGED conns \/ \E s : conns' = Connect(c, s)
    BY <1>4 DEF TryHost
  <2>2. ASSUME NEW s, conns' = Connect(c, s) PROVE Shrinks
    BY <2>2 DEF Connect, Shrinks
  <2> QED BY <1>2, <2>1, <2>2
<1>5. CASE ReadHeader(c)
  <2> DEFINE read == [conns EXCEPT ![r.trying].toClient = <<>>]
  <2>1. \E ks : conns' = Tidy(CloseClientEnds(read, ks))
    BY <1>5 DEF ReadHeader, DeleteBest
  <2>2. /\ read \in [DOMAIN conns -> Conn]
        /\ \A k \in DOMAIN conns : read[k].toServer = conns[k].toServer
    BY <1>1 DEF Conn, Requests
  <2> HIDE DEF read
  <2> QED BY <2>1, <2>2, ClosingShrinks
<1>6. CASE Send(c)
  <2>1. UNCHANGED conns
    BY <1>6 DEF Send, Sends
  <2> QED BY <1>2, <2>1
<1>7. CASE Receive(c)
  <2>1. /\ DOMAIN conns' = DOMAIN conns
        /\ \A k \in DOMAIN conns : conns'[k].toServer = conns[k].toServer
    BY <1>1, <1>7 DEF Receive, Conn
  <2> QED BY <2>1 DEF Shrinks
<1>8. CASE SetHost(c) \/ StartEvent(c) \/ ReceiveFails(c)
  <2>1. UNCHANGED conns
    BY <1>8 DEF SetHost, StartEvent, ReceiveFails, socketVars
  <2> QED BY <1>2, <2>1
<1>9. CASE HeaderFails(c) \/ Picked(c)
  BY <1>3, <1>9 DEF HeaderFails, Picked
<1>10. CASE NoServer(c) \/ OutOfRetries(c) \/ EndJob(c)
  BY <1>3, <1>10 DEF NoServer, OutOfRetries, EndJob, GiveUp, Leave
<1> QED BY <1>4, <1>5, <1>6, <1>7, <1>8, <1>9, <1>10 DEF ClientStep, Client

\* The client's step leaves as many tries for each of its events, or more.
Allows(c) ==
  /\ InBounds(outnet'[c])
  /\ \A n \in 1 .. MaxEvents : AllowedFor(outnet'[c], n) >= AllowedFor(outnet[c], n)

(* For that, where it goes, its event and its retries are what matters.    *)
LEMMA AllowsByPlace ==
  ASSUME NEW c \in Clients, outnet[c] \in ClientRec, InBounds(outnet[c]),
         NEW q, q = outnet'[c],
         \/ /\ q.pc = outnet[c].pc \/ {q.pc, outnet[c].pc} \subseteq {"connect", "header", "send"}
            /\ q.event = outnet[c].event /\ q.retries = outnet[c].retries
         \/ /\ q.pc \in {"idle", "done", "died"}
            /\ q.event = outnet[c].event /\ q.retries \in {outnet[c].retries, -1}
         \/ /\ q.pc = "connect" /\ outnet[c].retries = -1
            /\ q.event = outnet[c].event /\ q.retries = -1
         \/ /\ q.pc = "send" /\ outnet[c].pc = "idle" /\ q.retries = MaxRetries
            /\ q.event = outnet[c].event + 1
         \/ /\ q.pc = "wait" /\ outnet[c].pc = "send"
            /\ q.event = outnet[c].event /\ q.retries = outnet[c].retries
         \/ /\ q.pc = "connect" /\ outnet[c].pc \in {"send", "wait"} /\ outnet[c].retries >= 0
            /\ outnet[c].pc = "wait" => outnet[c].retries > 0
            /\ q.event = outnet[c].event /\ q.retries = outnet[c].retries - 1
  PROVE  Allows(c)
<1> DEFINE r == outnet[c]
<1>1. /\ r.event \in 0 .. MaxEvents /\ r.retries \in -1 .. MaxRetries /\ MaxRetries \in Nat
      /\ MaxEvents \in Nat
  BY SocketAssumption, OutNetAssumption DEF ClientRec, InBounds
<1>2. InBounds(q)
  BY <1>1 DEF InBounds
<1>3. ASSUME NEW n \in 1 .. MaxEvents PROVE AllowedFor(q, n) >= AllowedFor(r, n)
  BY <1>1 DEF AllowedFor
<1> QED BY <1>2, <1>3 DEF Allows

LEMMA ClientAllows ==
  ASSUME NetInv, NEW c \in Clients, InBounds(outnet[c]), ClientStep(c), ~Sends(c)
  PROVE  Allows(c)
<1> DEFINE r == outnet[c]
           q == outnet'[c]
<1>1. r \in ClientRec /\ Place(c) /\ outnet \in [Clients -> ClientRec]
  BY DEF NetInv, NetTypeOK
<1>2. r.retries \in Int /\ r.event \in Nat
  BY <1>1, SocketAssumption DEF ClientRec
<1>3. CASE SetHost(c)
  <2>1. /\ q.pc = "connect" /\ q.event = r.event /\ q.retries = r.retries
        /\ r.pc \in {"macro", "idle"}
    BY <1>1, <1>3 DEF SetHost, Picking, ClientRec
  <2>2. r.retries = -1
    BY <1>1, <2>1 DEF Place
  <2> QED BY <1>1, <2>1, <2>2, AllowsByPlace
<1>4. CASE TryHost(c, Listening)
  <2>1. /\ {q.pc, r.pc} \subseteq {"connect", "header", "send"}
        /\ q.event = r.event /\ q.retries = r.retries
    BY <1>1, <1>4 DEF TryHost, ClientRec
  <2> QED BY <1>1, <2>1, AllowsByPlace
<1>5. CASE ReadHeader(c) \/ HeaderFails(c)
  <2>1. PICK b, load : NextHost(c, b, load)
    BY <1>5 DEF ReadHeader, HeaderFails
  <2>2. r.pc = "header"
    BY <1>5 DEF ReadHeader, HeaderFails
  <2>3. q.pc = "connect" /\ q.event = r.event /\ q.retries = r.retries
    BY <1>1, <2>1 DEF NextHost, ClientRec
  <2> QED BY <1>1, <2>2, <2>3, AllowsByPlace
<1>6. CASE Picked(c)
  <2>1. /\ r.pc = "connect" /\ q.event = r.event /\ q.retries = r.retries
        /\ q.pc \in {"idle", "send"}
    BY <1>1, <1>6 DEF Picked, ClientRec
  <2> QED BY <1>1, <2>1, AllowsByPlace
<1>7. CASE NoServer(c) \/ OutOfRetries(c) \/ EndJob(c)
  <2>1. PICK how \in {"done", "died"} : Leave(c, how)
    BY <1>7 DEF NoServer, OutOfRetries, EndJob, GiveUp
  <2>2. q.pc = how /\ q.event = r.event /\ q.retries = r.retries
    BY <1>1, <2>1 DEF Leave, ClientRec
  <2> QED BY <1>1, <2>2, AllowsByPlace
<1>8. CASE StartEvent(c)
  <2>1. /\ r.pc = "idle" /\ q.pc = "send" /\ q.event = r.event + 1
        /\ q.retries = MaxRetries
    BY <1>1, <1>8 DEF StartEvent, ClientRec
  <2> QED BY <1>1, <2>1, AllowsByPlace
<1>9. CASE /\ r.pc \in {"send", "wait"} /\ r.retries >= 0 /\ (r.pc = "wait" => r.retries > 0)
           /\ outnet' = [outnet EXCEPT ![c] = Retry(@)]
  <2> DEFINE less == [r EXCEPT !.retries = @ - 1]
  <2>1. less \in ClientRec /\ less.event = r.event /\ less.retries = r.retries - 1
    <3>1. r.retries - 1 \in Int
      BY <1>2
    <3> QED BY <1>1, <3>1 DEF ClientRec
  <2>2. q = Picking(less, "send")
    BY <1>1, <1>9 DEF Retry
  <2> HIDE DEF less
  <2>3. q.pc = "connect" /\ q.event = r.event /\ q.retries = r.retries - 1
    BY <2>1, <2>2 DEF Picking, ClientRec
  <2> QED BY <1>1, <1>9, <2>3, AllowsByPlace
<1>10. CASE Send(c) /\ outnet' = [outnet EXCEPT ![c].pc = "wait"]
  <2>1. /\ r.pc = "send" /\ q.pc = "wait" /\ q.event = r.event
        /\ q.retries = r.retries
    BY <1>1, <1>10 DEF Send, ClientRec
  <2> QED BY <1>1, <2>1, AllowsByPlace
<1>11. CASE Send(c)
  BY <1>9, <1>10, <1>11 DEF Send
<1>12. CASE Receive(c)
  <2>1. q.pc = "idle" /\ q.event = r.event /\ q.retries = -1
    BY <1>1, <1>12 DEF Receive, ClientRec
  <2> QED BY <1>1, <2>1, AllowsByPlace
<1>13. CASE ReceiveFails(c)
  BY <1>2, <1>9, <1>13 DEF ReceiveFails, ReadFailed
<1> QED BY <1>3, <1>4, <1>5, <1>6, <1>7, <1>8, <1>11, <1>12, <1>13 DEF ClientStep, Client

(* Sending uses a try, and only the event that is sent gains one.          *)
LEMMA SendingCounts ==
  ASSUME NetInv, NetTypeOK', NEW c \in Clients, InBounds(outnet[c]), Sends(c),
         passes' = passes
  PROVE  /\ InBounds(outnet'[c])
         /\ \A n \in 1 .. MaxEvents :
              /\ n # outnet[c].event => AllowedFor(outnet'[c], n) = AllowedFor(outnet[c], n)
              /\ n = outnet[c].event => AllowedFor(outnet'[c], n) = AllowedFor(outnet[c], n) + 1
         /\ \A e \in Events : Tries(e)' <= IF e = <<c, outnet[c].event>> THEN Tries(e) + 1
                                                                   ELSE Tries(e)
<1> DEFINE r == outnet[c]
           q == outnet'[c]
           k == r.socket
           cur == <<c, r.event>>
<1>1. /\ r \in ClientRec /\ outnet \in [Clients -> ClientRec]
      /\ conns \in [DOMAIN conns -> Conn]
  BY DEF NetInv, NetTypeOK
<1>2. /\ r.pc = "send" /\ r.retries >= 0 /\ q.pc = "wait" /\ q.event = r.event
      /\ q.retries = r.retries
  BY <1>1 DEF Sends, ClientRec
<1>3. /\ r.event \in 0 .. MaxEvents /\ r.retries \in -1 .. MaxRetries /\ MaxRetries \in Nat
      /\ MaxEvents \in Nat
  BY <1>1, SocketAssumption, OutNetAssumption DEF ClientRec, InBounds
<1>4. InBounds(q)
  BY <1>2 DEF InBounds
<1>5. ASSUME NEW n \in 1 .. MaxEvents
      PROVE  /\ n # r.event => AllowedFor(q, n) = AllowedFor(r, n)
             /\ n = r.event => AllowedFor(q, n) = AllowedFor(r, n) + 1
  BY <1>2, <1>3 DEF AllowedFor
<1>6. k \in DOMAIN conns
  BY <1>2, ClientFacts DEF Place, Picks, Holds, Held
<1>7. /\ DOMAIN conns' = DOMAIN conns /\ conns'[k].toServer = <<cur>>
      /\ \A j \in DOMAIN conns \ {k} : conns'[j] = conns[j]
  BY <1>1, <1>6 DEF Sends, Conn
<1>8. ASSUME NEW e \in Events PROVE Tries(e)' <= IF e = cur THEN Tries(e) + 1 ELSE Tries(e)
  <2> DEFINE some == Pending(e) \cup {k}
  <2>1. IsFiniteSet(Pending(e)) /\ Cardinality(Pending(e)) \in Nat /\ passes[e] \in Nat
    BY PendingIsFinite DEF NetInv
  <2>2. IsFiniteSet(some) /\ Cardinality(some) <= Cardinality(Pending(e)) + 1
        /\ Cardinality(some) \in Nat
    <3>1. /\ IsFiniteSet(some)
          /\ Cardinality(some) = IF k \in Pending(e) THEN Cardinality(Pending(e))
                                ELSE Cardinality(Pending(e)) + 1
      BY <2>1, FS_AddElement
    <3> QED BY <2>1, <3>1
  <2>3. Tries(e)' = passes[e] + Cardinality(Pending(e)')
    BY DEF Tries
  <2>4. CASE e = cur
    <3>1. Pending(e)' \in SUBSET some
      BY <1>6, <1>7 DEF Pending
    <3>2. Cardinality(Pending(e)') <= Cardinality(some) /\ IsFiniteSet(Pending(e)')
      BY <2>2, <3>1, FS_Subset
    <3>3. Cardinality(Pending(e)') \in Nat
      BY <3>2, FS_CardinalityType
    <3> HIDE DEF some
    <3> QED BY <2>1, <2>2, <2>3, <2>4, <3>2, <3>3 DEF Tries
  <2>5. CASE e # cur
    <3>1. Pending(e)' \in SUBSET Pending(e)
      BY <1>6, <1>7, <2>5 DEF Pending
    <3>2. Cardinality(Pending(e)') <= Cardinality(Pending(e)) /\ IsFiniteSet(Pending(e)')
      BY <2>1, <3>1, FS_Subset
    <3>3. Cardinality(Pending(e)') \in Nat
      BY <3>2, FS_CardinalityType
    <3> QED BY <2>1, <2>3, <2>5, <3>2, <3>3 DEF Tries
  <2> QED BY <2>4, <2>5
<1> QED BY <1>4, <1>5, <1>8

LEMMA StepClientRetries ==
  ASSUME NetInv, NetInv', RetriesInv, NEW c \in Clients, ClientStep(c)
  PROVE  RetriesInv'
<1>1. /\ passes' = passes /\ \A d \in Clients \ {c} : outnet'[d] = outnet[d]
      /\ \A d \in Clients : InBounds(outnet[d])
  <2>1. UNCHANGED innetVars
    BY DEF ClientStep
  <2>2. \A d \in Clients \ {c} : outnet'[d] = outnet[d]
    BY OthersStay
  <2> QED BY <2>1, <2>2 DEF innetVars, RetriesInv
<1>2. NetTypeOK /\ NetTypeOK'
  BY DEF NetInv
<1>3. ASSUME NEW d \in Clients, NEW n \in 1 .. MaxEvents, InBounds(outnet'[d]),
             InBounds(outnet[d])
      PROVE  AllowedFor(outnet'[d], n) \in Int /\ AllowedFor(outnet[d], n) \in Int
  BY <1>3, AllowedIsNumber
<1>4. ASSUME NEW e \in Events
      PROVE  /\ e[1] \in Clients /\ e[2] \in 1 .. MaxEvents /\ e = <<e[1], e[2]>>
             /\ Tries(e) \in Nat
  <2>1. Tries(e) \in Nat
    BY <1>2, PendingIsFinite
  <2> QED BY <2>1 DEF Events
<1>5. \A e \in Events : Tries(e)' \in Nat
  BY <1>2, TriesCounted
<1>6. CASE ~Sends(c)
  <2>1. Allows(c)
    BY <1>1, <1>6, ClientAllows
  <2>2. \A d \in Clients : InBounds(outnet'[d])
    BY <1>1, <2>1 DEF Allows
  <2>3. ASSUME NEW e \in Events PROVE Within(e)'
    <3>1. Tries(e)' <= Tries(e)
      BY <1>1, <1>2, <1>6, ClientShrinks, TriesShrink
    <3>2. AllowedFor(outnet'[e[1]], e[2]) >= AllowedFor(outnet[e[1]], e[2])
      <4>1. CASE e[1] = c
        BY <1>4, <2>1, <4>1 DEF Allows
      <4>2. CASE e[1] # c
        <5>1. outnet'[e[1]] = outnet[e[1]] /\ AllowedFor(outnet[e[1]], e[2]) \in Int
          BY <1>1, <1>3, <1>4, <4>2
        <5> QED BY <5>1
      <4> QED BY <4>1, <4>2
    <3>3. /\ AllowedFor(outnet'[e[1]], e[2]) \in Int
          /\ AllowedFor(outnet[e[1]], e[2]) \in Int
      BY <1>1, <1>3, <1>4, <2>2
    <3>4. Tries(e) <= AllowedFor(outnet[e[1]], e[2])
      BY DEF RetriesInv, Within
    <3>5. Tries(e)' <= AllowedFor(outnet'[e[1]], e[2])
      BY <1>4, <1>5, <3>1, <3>2, <3>3, <3>4
    <3> QED BY <3>5 DEF Within
  <2> QED BY <2>2, <2>3 DEF RetriesInv
<1>7. CASE Sends(c)
  <2>1. /\ InBounds(outnet'[c])
        /\ \A n \in 1 .. MaxEvents :
             /\ n # outnet[c].event => AllowedFor(outnet'[c], n) = AllowedFor(outnet[c], n)
             /\ n = outnet[c].event => AllowedFor(outnet'[c], n) = AllowedFor(outnet[c], n) + 1
        /\ \A e \in Events : Tries(e)' <= IF e = <<c, outnet[c].event>> THEN Tries(e) + 1
                                                                  ELSE Tries(e)
    BY <1>1, <1>2, <1>7, SendingCounts
  <2>2. \A d \in Clients : InBounds(outnet'[d])
    BY <1>1, <2>1
  <2>3. ASSUME NEW e \in Events PROVE Within(e)'
    <3>1. /\ AllowedFor(outnet'[e[1]], e[2]) \in Int
          /\ AllowedFor(outnet[e[1]], e[2]) \in Int
      BY <1>1, <1>3, <1>4, <2>2
    <3>2. Tries(e) <= AllowedFor(outnet[e[1]], e[2])
      BY DEF RetriesInv, Within
    <3>3. CASE e = <<c, outnet[c].event>>
      <4>1. Tries(e)' <= Tries(e) + 1
        BY <2>1, <3>3
      <4>2. e[1] = c /\ e[2] = outnet[c].event
        BY <3>3
      <4>3. AllowedFor(outnet'[e[1]], e[2]) = AllowedFor(outnet[e[1]], e[2]) + 1
        BY <1>4, <2>1, <4>2
      <4>4. Tries(e)' <= AllowedFor(outnet'[e[1]], e[2])
        BY <1>4, <1>5, <3>1, <3>2, <4>1, <4>3
      <4> QED BY <4>4 DEF Within
    <3>4. CASE e # <<c, outnet[c].event>>
      <4>1. Tries(e)' <= Tries(e)
        BY <2>1, <3>4
      <4>2. e[1] # c \/ e[2] # outnet[c].event
        BY <1>4, <3>4
      <4>3. AllowedFor(outnet'[e[1]], e[2]) = AllowedFor(outnet[e[1]], e[2])
        BY <1>1, <1>4, <2>1, <4>2
      <4>4. Tries(e)' <= AllowedFor(outnet'[e[1]], e[2])
        BY <1>4, <1>5, <3>1, <3>2, <4>1, <4>3
      <4> QED BY <4>4 DEF Within
    <3> QED BY <3>3, <3>4
  <2> QED BY <2>2, <2>3 DEF RetriesInv
<1> QED BY <1>6, <1>7

-----------------------------------------------------------------------------
(* Steps of a server, of the network and of the user.                      *)

(* A step that neither sends nor begins an event.                          *)
LEMMA StepQuiet ==
  ASSUME NetInv, NetInv', RetriesInv, outnet' = outnet, passes' = passes, Shrinks
  PROVE  RetriesInv'
<1>1. ASSUME NEW e \in Events PROVE Within(e)'
  <2>1. Tries(e)' <= Tries(e) /\ Tries(e) \in Nat
    BY TriesShrink, PendingIsFinite DEF NetInv
  <2>2. Tries(e) <= AllowedFor(outnet[e[1]], e[2])
    BY DEF RetriesInv, Within
  <2>3. AllowedFor(outnet[e[1]], e[2]) \in Int
    <3>1. e[1] \in Clients /\ e[2] \in 1 .. MaxEvents
      BY SocketIdShape
    <3>2. InBounds(outnet[e[1]])
      BY <3>1 DEF RetriesInv
    <3> QED BY <3>1, <3>2, AllowedIsNumber
  <2>4. Tries(e)' \in Nat
    BY TriesCounted DEF NetInv
  <2>5. Tries(e)' <= AllowedFor(outnet[e[1]], e[2])
    BY <2>1, <2>2, <2>3, <2>4
  <2> QED BY <2>5 DEF Within
<1> QED BY <1>1 DEF RetriesInv

(* Reading an event from a connection turns a pending try into a pass.     *)
LEMMA StepReads ==
  ASSUME NetInv, NetInv', RetriesInv, NEW s \in Servers, ReadEvent(s), outnet' = outnet
  PROVE  RetriesInv'
<1>1. PICK k \in DOMAIN conns :
        /\ conns[k].toServer # <<>>
        /\ passes' = [passes EXCEPT ![Head(conns[k].toServer)] = @ + 1]
        /\ conns' = [conns EXCEPT ![k].toServer = Tail(@)]
  BY DEF ReadEvent, Ready, AtServer
<1>2. conns \in [DOMAIN conns -> Conn] /\ passes \in [Events -> Nat]
  BY DEF NetInv, NetTypeOK
<1>3. PICK read \in Events : conns[k].toServer = <<read>>
  BY <1>1, <1>2 DEF Conn, Requests
<1>4. Head(<<read>>) = read /\ Tail(<<read>>) = <<>>
  OBVIOUS
<1>5. passes' = [passes EXCEPT ![read] = @ + 1]
  BY <1>1, <1>3, <1>4
<1>6. /\ DOMAIN conns' = DOMAIN conns /\ conns'[k].toServer = <<>>
      /\ \A j \in DOMAIN conns \ {k} : conns'[j] = conns[j]
  <2>1. conns' = [conns EXCEPT ![k].toServer = <<>>]
    BY <1>1, <1>3, <1>4
  <2> QED BY <1>2, <2>1 DEF Conn
<1>7. ASSUME NEW e \in Events PROVE Within(e)'
  <2>1. /\ IsFiniteSet(Pending(e)) /\ Cardinality(Pending(e)) \in Nat
        /\ passes[e] \in Nat /\ Tries(e) \in Nat
    BY PendingIsFinite DEF NetInv
  <2>2. Tries(e)' = passes'[e] + Cardinality(Pending(e)')
    BY DEF Tries
  <2>3. Pending(e)' = Pending(e) \ {k}
    BY <1>6 DEF Pending
  <2>4. Tries(e)' <= Tries(e)
    <3>1. CASE e = read
      <4>1. k \in Pending(e)
        BY <1>3, <3>1 DEF Pending
      <4>2. Cardinality(Pending(e)') = Cardinality(Pending(e)) - 1
        BY <2>1, <2>3, <4>1, FS_RemoveElement
      <4>3. passes'[e] = passes[e] + 1
        BY <1>2, <1>5, <3>1
      <4> QED BY <2>1, <2>2, <4>2, <4>3 DEF Tries
    <3>2. CASE e # read
      <4>1. k \notin Pending(e)
        BY <1>3, <3>2 DEF Pending
      <4>2. Pending(e)' = Pending(e)
        BY <2>3, <4>1
      <4>3. passes'[e] = passes[e]
        BY <1>2, <1>5, <3>2
      <4> QED BY <2>1, <2>2, <4>2, <4>3 DEF Tries
    <3> QED BY <3>1, <3>2
  <2>5. Tries(e) <= AllowedFor(outnet[e[1]], e[2])
    BY DEF RetriesInv, Within
  <2>6. AllowedFor(outnet[e[1]], e[2]) \in Int /\ Tries(e)' \in Nat
    BY SocketIdShape, AllowedIsNumber, TriesCounted DEF RetriesInv, NetInv
  <2>7. Tries(e)' <= AllowedFor(outnet[e[1]], e[2])
    BY <2>1, <2>4, <2>5, <2>6
  <2> QED BY <2>7 DEF Within
<1> QED BY <1>7 DEF RetriesInv

LEMMA AcceptingShrinks ==
  ASSUME NetInv, NEW k, NEW h, conns' = Accepted(k, h)
  PROVE  Shrinks
<1>1. /\ DOMAIN conns' = DOMAIN conns
      /\ \A j \in DOMAIN conns : conns'[j].toServer = conns[j].toServer
  BY DEF Accepted, NetInv, NetTypeOK, Conn
<1> QED BY <1>1 DEF Shrinks

LEMMA StepServerRetries ==
  ASSUME NetInv, NetInv', RetriesInv, NEW s \in Servers, ServerStep(s)
  PROVE  RetriesInv'
<1>1. outnet' = outnet /\ conns \in [DOMAIN conns -> Conn]
  BY DEF ServerStep, outnetVars, NetInv, NetTypeOK
<1>2. CASE \E ks : conns' = Tidy(CloseServerEnds(conns, ks)) /\ passes' = passes
  <2>1. Shrinks
    BY <1>1, <1>2, ClosingShrinks
  <2> QED BY <1>1, <1>2, <2>1, StepQuiet
<1>3. CASE UNCHANGED conns /\ passes' = passes
  <2>1. Shrinks
    BY <1>3 DEF Shrinks
  <2> QED BY <1>1, <1>3, <2>1, StepQuiet
<1>4. CASE \E k, h : conns' = Accepted(k, h) /\ passes' = passes
  BY <1>1, <1>4, AcceptingShrinks, StepQuiet
<1>5. CASE Accept(s)
  BY <1>2, <1>4, <1>5 DEF Accept, innetVars
<1>6. CASE ReadEvent(s)
  BY <1>1, <1>6, StepReads
<1>7. CASE ReadClosed(s)
  BY <1>2, <1>7 DEF ReadClosed, Removed, innetVars
<1>8. CASE ReadError(s) \/ Stop(s)
  BY <1>2, <1>8 DEF ReadError, Stop, EndListen
<1>9. CASE Reply(s)
  BY <1>2, <1>3, <1>4, <1>9 DEF Reply, Answer, Removed
<1> QED BY <1>5, <1>6, <1>7, <1>8, <1>9 DEF ServerStep, Server, Select

LEMMA StepOtherRetries ==
  ASSUME NetInv, NetInv', RetriesInv, Network \/ User \/ UNCHANGED vars
  PROVE  RetriesInv'
<1>1. outnet' = outnet /\ passes' = passes
  BY DEF Network, User, ServerSigInt, vars, outnetVars, innetVars
<1>2. CASE UNCHANGED conns
  <2>1. Shrinks
    BY <1>2 DEF Shrinks
  <2> QED BY <1>1, <2>1, StepQuiet
<1>3. CASE Network
  <2>1. PICK k \in DOMAIN conns :
          \E request \in {conns[k].toServer, <<>>}, answer \in {conns[k].toClient, <<>>} :
            conns' = [conns EXCEPT ![k].link = "broken", ![k].toServer = request,
                                   ![k].toClient = answer]
    BY <1>3 DEF Network, Break
  <2>2. /\ DOMAIN conns' = DOMAIN conns
        /\ \A j \in DOMAIN conns : conns'[j].toServer \in {conns[j].toServer, <<>>}
    BY <2>1 DEF NetInv, NetTypeOK, Conn
  <2>3. Shrinks
    BY <2>2, KeepingShrinks
  <2> QED BY <1>1, <2>3, StepQuiet
<1> QED BY <1>2, <1>3 DEF User, ServerSigInt, vars, socketVars

-----------------------------------------------------------------------------
(* The theorem.                                                            *)

LEMMA InitRetries == Init => RetriesInv
<1> SUFFICES ASSUME Init PROVE RetriesInv
  OBVIOUS
<1> USE DEF Init, SocketInit, OutNetInit, InNetInit
<1>1. \A c \in Clients : outnet[c].event = 0 /\ outnet[c].retries = -1
  OBVIOUS
<1>2. ASSUME NEW e \in Events PROVE Within(e)
  <2>1. e[1] \in Clients /\ e[2] \in 1 .. MaxEvents
    BY SocketIdShape
  <2>2. Pending(e) = {}
    BY DEF Pending
  <2>3. Tries(e) = 0
    BY <2>2, FS_EmptySet DEF Tries
  <2>4. AllowedFor(outnet[e[1]], e[2]) = 0
    BY <1>1, <2>1 DEF AllowedFor
  <2> QED BY <2>3, <2>4 DEF Within
<1>3. \A c \in Clients : InBounds(outnet[c])
  BY <1>1, OutNetAssumption DEF InBounds
<1> QED BY <1>2, <1>3 DEF RetriesInv

(* EventsAreProcessed for any number of clients, servers, events, retries  *)
(* and faults: an event that outnet returned OK for was processed, and     *)
(* none was processed more often than the first try and MaxRetries more    *)
(* (OutNetProc::DSEvent, InNetProducer::Listen).                           *)
THEOREM ProcessedAsAllowed == Spec => []EventsAreProcessed
<1>1. NetInv /\ NetInv' /\ RetriesInv /\ [Next]_vars => RetriesInv'
  BY StepClientRetries, StepServerRetries, StepOtherRetries DEF Next
<1>2. NetInv /\ RetriesInv => EventsAreProcessed
  <2> SUFFICES ASSUME NetInv, RetriesInv, NEW e \in Events
               PROVE  passes[e] <= MaxRetries + 1
    BY DEF EventsAreProcessed, PassesBounded, NetInv
  <2>1. /\ Cardinality(Pending(e)) \in Nat /\ passes[e] \in Nat
        /\ Tries(e) = passes[e] + Cardinality(Pending(e))
    BY PendingIsFinite DEF NetInv, Tries
  <2>2. InBounds(outnet[e[1]]) /\ Tries(e) <= AllowedFor(outnet[e[1]], e[2])
    BY SocketIdShape DEF RetriesInv, Within
  <2>3. AllowedFor(outnet[e[1]], e[2]) <= MaxRetries + 1
    BY <2>2, OutNetAssumption DEF AllowedFor, InBounds
  <2>4. AllowedFor(outnet[e[1]], e[2]) \in Int
    BY <2>2, SocketIdShape, AllowedIsNumber
  <2> QED BY <2>1, <2>2, <2>3, <2>4, OutNetAssumption
<1> QED BY <1>1, <1>2, InitRetries, NetInvariant, PTL DEF Spec

=============================================================================
