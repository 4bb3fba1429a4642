--------------------------- MODULE ErpcSessionProofs ---------------------------
(***************************************************************************)
(* Proofs about ErpcSession, for any number of sessions and ring entries   *)
(* and whatever the network does.                                          *)
(***************************************************************************)
EXTENDS ErpcSession, TLAPS, SequenceTheorems, FiniteSetTheorems

(* Session n of the server is the one made for the client's session s. *)
Serves(n, s) == n \in DOMAIN sv.vec /\ sv.vec[n].client = s

(* The token map and session_vec_ say the same. *)
TokensMatch ==
    /\ \A n \in DOMAIN sv.vec : sv.token[sv.vec[n].client] = n
    /\ \A s \in Sessions : sv.token[s] # None => Serves(sv.token[s], s)

(* Packets that name a session of the server name the right one, and a     *)
(* disconnect is under way only for a session that is being disconnected   *)
(* or gone.                                                                *)
PacketsMatch ==
    \A p \in net :
        /\ p.type = "kConnectResp" /\ p.err = "kNoError" => Serves(p.server, p.client)
        /\ p.type \in {"kDisconnectReq", "kDisconnectResp"} =>
              /\ Serves(p.server, p.client)
              /\ cl.state[p.client] \in {"kDisconnectInProgress", "gone"}

(* The client knows which session of the server is its own. *)
PeersMatch ==
    \A s \in Sessions : cl.state[s] \in {"kConnected", "kDisconnectInProgress"} =>
        Serves(cl.server[s], s)

(* The server frees a session only after the client has given it up. *)
DeadAfterDisconnect ==
    \A n \in DOMAIN sv.vec : ~sv.vec[n].live =>
        cl.state[sv.vec[n].client] \in {"kDisconnectInProgress", "gone"}

(* What the application has heard of a session in each state, and of one   *)
(* that was given up for want of a route.                                  *)
Told(s) ==
    /\ cl.state[s] \in {"new", "kConnectInProgress"} =>
          events[s] = <<>> /\ s \notin cl.unresolved
    /\ cl.state[s] = "kConnected" => events[s] = <<"kConnected">> /\ s \notin cl.unresolved
    /\ cl.state[s] = "kDisconnectInProgress" =>
          events[s] = IF s \in cl.unresolved THEN <<>> ELSE <<"kConnected">>
    /\ cl.state[s] = "gone" =>
          events[s] \in IF s \in cl.unresolved THEN {<<"kDisconnected">>}
                       ELSE {<<"kConnectFailed">>, <<"kConnected", "kDisconnected">>}

EventsMatch == \A s \in Sessions : Told(s)

(***************************************************************************)
(* The inductive invariant.  OneServerSession follows from TokensMatch,    *)
(* PeerLive from PeersMatch and DeadAfterDisconnect, AssertsHold from      *)
(* PacketsMatch, PeersMatch and TokensMatch.                               *)
(***************************************************************************)
IInv ==
    /\ TypeOK
    /\ TokensMatch
    /\ PacketsMatch
    /\ PeersMatch
    /\ DeadAfterDisconnect
    /\ ConnectKeepsTrying
    /\ EventsMatch
-----------------------------------------------------------------------------
LEMMA AppendPair == ASSUME NEW a, NEW b PROVE Append(<<a>>, b) = <<a, b>>
<1> DEFINE S == {a, b}
<1>1. <<a>> \in Seq(S) /\ b \in S /\ Len(<<a>>) = 1 /\ <<a>>[1] = a
  OBVIOUS
<1>2. <<a, b>> \in Seq(S) /\ Len(<<a, b>>) = 2 /\ <<a, b>>[1] = a /\ <<a, b>>[2] = b
  OBVIOUS
<1>3. Append(<<a>>, b) \in Seq(S) /\ Len(Append(<<a>>, b)) = 2 /\ Append(<<a>>, b)[1] = a /\ Append(<<a>>, b)[2] = b
  BY <1>1, AppendProperties
<1>4. PICK s \in Seq(S), u \in Seq(S) : s = Append(<<a>>, b) /\ u = <<a, b>>
  BY <1>2, <1>3
<1>5. Len(s) = 2 /\ Len(u) = 2 /\ \A i \in 1..2 : s[i] = u[i]
  BY <1>2, <1>3, <1>4
<1>6. s = u
  BY <1>5, SeqEqual
<1> QED
  BY <1>4, <1>6

ClientType == [state : [Sessions -> States], server : [Sessions -> Numbers],
               pending : SUBSET Sessions, ring : Nat, unresolved : SUBSET Sessions]
Entries == [client : Sessions, live : BOOLEAN]
ServerType == [up : BOOLEAN, vec : Seq(Entries), token : [Sessions -> Numbers], ring : Nat]
Packets == [type : PktTypes, client : Sessions, server : Numbers, err : Errors]

LEMMA Shapes ==
    TypeOK <=> /\ cl \in ClientType /\ sv \in ServerType
               /\ net \in SUBSET Packets /\ events \in [Sessions -> Seq(Events)]
BY DEF TypeOK, ClientType, ServerType, Packets, Entries

LEMMA EntriesTyped ==
    ASSUME TypeOK, NEW n \in DOMAIN sv.vec
    PROVE  sv.vec[n] \in Entries /\ sv.vec[n].client \in Sessions
<1>1. sv.vec \in Seq(Entries)
  BY Shapes DEF ServerType
<1>2. sv.vec[n] \in Entries
  BY <1>1
<1> QED
  BY <1>2 DEF Entries

(* The disconnect of a session cannot be undone. *)
GivenUp(s) == cl.state[s] \in {"kDisconnectInProgress", "gone"}

PktOK(p) ==
    /\ p.type = "kConnectResp" /\ p.err = "kNoError" => Serves(p.server, p.client)
    /\ p.type \in {"kDisconnectReq", "kDisconnectResp"} =>
          Serves(p.server, p.client) /\ GivenUp(p.client)

LEMMA PacketsOK == PacketsMatch <=> \A p \in net : PktOK(p)
BY DEF PacketsMatch, PktOK, GivenUp

(* A step of the client that gives no session back keeps what is about the *)
(* server and the packets under way.                                       *)
LEMMA ClientKeeps ==
    ASSUME IInv, TypeOK', sv' = sv,
           \A s \in Sessions : GivenUp(s) => GivenUp(s)'
    PROVE  /\ TokensMatch'
           /\ DeadAfterDisconnect'
           /\ \A p \in net : PktOK(p)'
<1>1. TokensMatch'
  BY DEF IInv, TokensMatch, Serves
<1>2. DeadAfterDisconnect'
  <2> SUFFICES ASSUME NEW n \in DOMAIN sv.vec, ~sv.vec[n].live
               PROVE  GivenUp(sv.vec[n].client)'
    BY DEF DeadAfterDisconnect, GivenUp
  <2>1. GivenUp(sv.vec[n].client)
    BY DEF IInv, DeadAfterDisconnect, GivenUp
  <2>2. sv.vec[n].client \in Sessions
    BY EntriesTyped DEF IInv
  <2> QED
    BY <2>1, <2>2
<1>3. ASSUME NEW p \in net PROVE PktOK(p)'
  <2>1. p.client \in Sessions
    BY DEF IInv, TypeOK
  <2>2. PktOK(p)
    BY PacketsOK DEF IInv
  <2> QED
    BY <2>1, <2>2 DEF PktOK, Serves
<1> QED
  BY <1>1, <1>2, <1>3

(* A step of the server that keeps the sessions' owners keeps what is      *)
(* about the client and the packets under way.                             *)
LEMMA ServerKeeps ==
    ASSUME IInv, cl' = cl, events' = events,
           \A n \in DOMAIN sv.vec : n \in DOMAIN sv'.vec /\ sv'.vec[n].client = sv.vec[n].client
    PROVE  /\ PeersMatch'
           /\ ConnectKeepsTrying'
           /\ EventsMatch'
           /\ \A p \in net : PktOK(p)'
<1>1. \A n, s : Serves(n, s) => Serves(n, s)'
  BY DEF Serves
<1>2. \A p \in net : PktOK(p)'
  BY <1>1, PacketsOK DEF IInv, PktOK, GivenUp
<1>3. PeersMatch'
  BY <1>1 DEF IInv, PeersMatch
<1> QED
  BY <1>2, <1>3 DEF IInv, ConnectKeepsTrying, EventsMatch, Told

(* A session that a step does not concern. *)
LEMMA ToldAgain ==
    ASSUME NEW s \in Sessions, Told(s), cl'.state[s] = cl.state[s], events'[s] = events[s],
           s \in cl'.unresolved <=> s \in cl.unresolved
    PROVE  Told(s)'
<1>1. CASE s \in cl.unresolved
  <2>1. s \in cl'.unresolved
    BY <1>1
  <2> QED
    BY <1>1, <2>1 DEF Told
<1>2. CASE s \notin cl.unresolved
  <2>1. s \notin cl'.unresolved
    BY <1>2
  <2> QED
    BY <1>2, <2>1 DEF Told
<1> QED
  BY <1>1, <1>2

(* The packet that send_sm_req_st sends. *)
Request(c, s) == Pkt(IF c.state[s] = "kConnectInProgress" THEN "kConnectReq"
                     ELSE "kDisconnectReq", s, c.server[s], "kNoError")

LEMMA Sent ==
    ASSUME TypeOK, NEW s \in Sessions, NEW c \in ClientType, send_sm_req(c, s)
    PROVE  /\ cl' \in ClientType
           /\ cl'.state = c.state /\ cl'.server = c.server /\ cl'.pending = c.pending \cup {s}
           /\ cl'.unresolved = c.unresolved
           /\ net' \in SUBSET Packets
           /\ net' = net \cup {Request(c, s)}
           /\ Request(c, s).client = s /\ Request(c, s).server = c.server[s]
           /\ Request(c, s).type \in {"kConnectReq", "kDisconnectReq"}
           /\ c.state[s] = "kConnectInProgress" => Request(c, s).type = "kConnectReq"
<1>1. cl' = [c EXCEPT !.pending = @ \cup {s}] /\ net' = net \cup {Request(c, s)}
  BY DEF send_sm_req, Request
<1>2. Request(c, s) \in Packets
  BY DEF Packets, Pkt, PktTypes, Errors, ClientType, Request
<1>3. /\ Request(c, s).client = s /\ Request(c, s).server = c.server[s]
      /\ Request(c, s).type \in {"kConnectReq", "kDisconnectReq"}
      /\ c.state[s] = "kConnectInProgress" => Request(c, s).type = "kConnectReq"
  BY DEF Pkt, Request
<1>4. net' \in SUBSET Packets
  BY <1>1, <1>2, Shapes
<1>5. /\ cl' \in ClientType
      /\ cl'.state = c.state /\ cl'.server = c.server /\ cl'.pending = c.pending \cup {s}
      /\ cl'.unresolved = c.unresolved
  BY <1>1 DEF ClientType
<1> QED
  BY <1>1, <1>3, <1>4, <1>5

(* create_session_st. *)
LEMMA CreateKeeps ==
    ASSUME IInv, NEW s \in Sessions, CreateSession(s)
    PROVE  IInv'
<1> DEFINE c == [cl EXCEPT !.state[s] = "kConnectInProgress", !.ring = @ - 1]
<1>1. cl \in ClientType /\ TypeOK
  BY Shapes DEF IInv
<1>2. s \in Sessions /\ cl.state[s] = "new" /\ cl.ring - 1 \in Nat
  BY <1>1 DEF CreateSession, ClientType
<1>3. c \in ClientType /\ c.state = [cl.state EXCEPT ![s] = "kConnectInProgress"]
      /\ c.server = cl.server /\ c.pending = cl.pending /\ c.unresolved = cl.unresolved
  <2>1. "kConnectInProgress" \in States
    BY DEF States
  <2>2. PICK k \in Nat : k = cl.ring - 1
    BY <1>2
  <2>3. c = [cl EXCEPT !.state[s] = "kConnectInProgress", !.ring = k]
    BY <2>2
  <2> HIDE DEF c
  <2> QED
    BY <2>1, <2>3, <1>1 DEF ClientType
<1>4. send_sm_req(c, s) /\ sv' = sv /\ events' = events
  BY DEF CreateSession
<1> HIDE DEF c
<1>5. PICK q :
         /\ cl' \in ClientType
         /\ cl'.state = c.state /\ cl'.server = c.server /\ cl'.pending = c.pending \cup {s}
         /\ cl'.unresolved = c.unresolved
         /\ net' \in SUBSET Packets /\ net' = net \cup {q}
         /\ q.client = s /\ q.server = c.server[s]
         /\ q.type \in {"kConnectReq", "kDisconnectReq"}
         /\ c.state[s] = "kConnectInProgress" => q.type = "kConnectReq"
  <2> WITNESS Request(c, s)
  <2>1. s \in Sessions /\ c \in ClientType
    BY <1>3
  <2> QED
    BY <2>1, <1>1, <1>4, Sent
<1>6. cl.state \in [Sessions -> States] /\ cl.server \in [Sessions -> Numbers]
  BY <1>1 DEF ClientType
<1>7. \A t \in Sessions : GivenUp(t) => GivenUp(t)'
  BY <1>2, <1>3, <1>5, <1>6 DEF GivenUp
<1>10. TypeOK'
  BY <1>1, <1>4, <1>5 DEF TypeOK, ClientType, Packets
<1>11. TokensMatch' /\ DeadAfterDisconnect' /\ \A r \in net : PktOK(r)'
  BY <1>4, <1>7, <1>10, ClientKeeps
<1>12. PeersMatch'
  BY <1>2, <1>3, <1>4, <1>5, <1>6 DEF IInv, PeersMatch, Serves
<1>13. PacketsMatch'
  <2>1. PktOK(q)'
    BY <1>2, <1>3, <1>5, <1>6, <1>12 DEF PktOK, GivenUp, PeersMatch
  <2> QED
    BY <2>1, <1>5, <1>11 DEF PacketsMatch, PktOK, GivenUp
<1>14. ConnectKeepsTrying'
  BY <1>2, <1>3, <1>5, <1>6 DEF IInv, ConnectKeepsTrying
<1>15. EventsMatch'
  <2>1. \A t \in Sessions : /\ t # s => cl'.state[t] = cl.state[t]
                           /\ events'[t] = events[t]
    BY <1>3, <1>4, <1>5, <1>6
  <2>2. cl'.state[s] = c.state[s] /\ cl'.unresolved = c.unresolved
    BY <1>5
  <2>3. ASSUME NEW t \in Sessions, t # s PROVE Told(t)'
    <3>1. Told(t) /\ t \in Sessions
      BY DEF IInv, EventsMatch
    <3>2. cl'.state[t] = cl.state[t] /\ events'[t] = events[t]
      BY <2>1, <2>3
    <3>3. t \in cl'.unresolved <=> t \in cl.unresolved
      BY <1>3, <1>5, <2>3
    <3> QED
      BY ONLY <3>1, <3>2, <3>3, ToldAgain
  <2>4. Told(s) /\ events'[s] = events[s]
    BY <2>1 DEF IInv, EventsMatch
  <2>5. Told(s)'
    BY <2>2, <2>4, <1>2, <1>3, <1>6 DEF Told
  <2> QED
    BY <2>3, <2>5 DEF EventsMatch
<1> QED
  BY <1>10, <1>11, <1>12, <1>13, <1>14, <1>15 DEF IInv

(* destroy_session_st. *)
LEMMA DestroyKeeps ==
    ASSUME IInv, NEW s \in Sessions, DestroySession(s)
    PROVE  IInv'
<1> DEFINE c == [cl EXCEPT !.state[s] = "kDisconnectInProgress"]
<1>1. cl \in ClientType /\ TypeOK
  BY Shapes DEF IInv
<1>2. s \in Sessions /\ cl.state[s] = "kConnected"
  BY <1>1 DEF DestroySession
<1>3. c \in ClientType /\ c.state = [cl.state EXCEPT ![s] = "kDisconnectInProgress"]
      /\ c.server = cl.server /\ c.pending = cl.pending /\ c.unresolved = cl.unresolved
  BY <1>1, <1>2 DEF ClientType, States
<1>4. send_sm_req(c, s) /\ sv' = sv /\ events' = events
  BY DEF DestroySession
<1> HIDE DEF c
<1>5. PICK q :
         /\ cl' \in ClientType
         /\ cl'.state = c.state /\ cl'.server = c.server /\ cl'.pending = c.pending \cup {s}
         /\ cl'.unresolved = c.unresolved
         /\ net' \in SUBSET Packets /\ net' = net \cup {q}
         /\ q.client = s /\ q.server = c.server[s]
         /\ q.type \in {"kConnectReq", "kDisconnectReq"}
         /\ c.state[s] = "kConnectInProgress" => q.type = "kConnectReq"
  <2> WITNESS Request(c, s)
  <2>1. s \in Sessions /\ c \in ClientType
    BY <1>3
  <2> QED
    BY <2>1, <1>1, <1>4, Sent
<1>6. cl.state \in [Sessions -> States] /\ cl.server \in [Sessions -> Numbers]
  BY <1>1 DEF ClientType
<1>7. \A t \in Sessions : GivenUp(t) => GivenUp(t)'
  BY <1>2, <1>3, <1>5, <1>6 DEF GivenUp
<1>10. TypeOK'
  BY <1>1, <1>4, <1>5 DEF TypeOK, ClientType, Packets
<1>11. TokensMatch' /\ DeadAfterDisconnect' /\ \A r \in net : PktOK(r)'
  BY <1>4, <1>7, <1>10, ClientKeeps
<1>12. PeersMatch'
  BY <1>2, <1>3, <1>4, <1>5, <1>6 DEF IInv, PeersMatch, Serves
<1>13. PacketsMatch'
  <2>1. PktOK(q)'
    BY <1>2, <1>3, <1>5, <1>6, <1>12 DEF PktOK, GivenUp, PeersMatch
  <2> QED
    BY <2>1, <1>5, <1>11 DEF PacketsMatch, PktOK, GivenUp
<1>14. ConnectKeepsTrying'
  BY <1>2, <1>3, <1>5, <1>6 DEF IInv, ConnectKeepsTrying
<1>15. EventsMatch'
  <2>1. \A t \in Sessions : /\ t # s => cl'.state[t] = cl.state[t]
                           /\ events'[t] = events[t]
    BY <1>3, <1>4, <1>5, <1>6
  <2>2. cl'.state[s] = c.state[s] /\ cl'.unresolved = c.unresolved
    BY <1>5
  <2>3. ASSUME NEW t \in Sessions, t # s PROVE Told(t)'
    <3>1. Told(t) /\ t \in Sessions
      BY DEF IInv, EventsMatch
    <3>2. cl'.state[t] = cl.state[t] /\ events'[t] = events[t]
      BY <2>1, <2>3
    <3>3. t \in cl'.unresolved <=> t \in cl.unresolved
      BY <1>3, <1>5, <2>3
    <3> QED
      BY ONLY <3>1, <3>2, <3>3, ToldAgain
  <2>4. Told(s) /\ events'[s] = events[s]
    BY <2>1 DEF IInv, EventsMatch
  <2>5. Told(s)'
    BY <2>2, <2>4, <1>2, <1>3, <1>6 DEF Told
  <2> QED
    BY <2>3, <2>5 DEF EventsMatch
<1> QED
  BY <1>10, <1>11, <1>12, <1>13, <1>14, <1>15 DEF IInv

(* A request sent again by the packet loss scan. *)
LEMMA RetryKeeps ==
    ASSUME IInv, NEW s \in Sessions, RetrySmReq(s)
    PROVE  IInv'
<1> DEFINE c == cl
<1>1. cl \in ClientType /\ TypeOK
  BY Shapes DEF IInv
<1>2. s \in Sessions /\ cl.state[s] \in {"kConnectInProgress", "kDisconnectInProgress"}
  BY <1>1 DEF RetrySmReq
<1>3. c \in ClientType /\ c.state = cl.state /\ c.server = cl.server /\ c.pending = cl.pending
      /\ c.unresolved = cl.unresolved
  BY <1>1, <1>2 DEF ClientType, States
<1>4. send_sm_req(c, s) /\ sv' = sv /\ events' = events
  BY DEF RetrySmReq
<1> HIDE DEF c
<1>5. PICK q :
         /\ cl' \in ClientType
         /\ cl'.state = c.state /\ cl'.server = c.server /\ cl'.pending = c.pending \cup {s}
         /\ cl'.unresolved = c.unresolved
         /\ net' \in SUBSET Packets /\ net' = net \cup {q}
         /\ q.client = s /\ q.server = c.server[s]
         /\ q.type \in {"kConnectReq", "kDisconnectReq"}
         /\ c.state[s] = "kConnectInProgress" => q.type = "kConnectReq"
  <2> WITNESS Request(c, s)
  <2>1. s \in Sessions /\ c \in ClientType
    BY <1>3
  <2> QED
    BY <2>1, <1>1, <1>4, Sent
<1>6. cl.state \in [Sessions -> States] /\ cl.server \in [Sessions -> Numbers]
  BY <1>1 DEF ClientType
<1>7. \A t \in Sessions : GivenUp(t) => GivenUp(t)'
  BY <1>2, <1>3, <1>5, <1>6 DEF GivenUp
<1>10. TypeOK'
  BY <1>1, <1>4, <1>5 DEF TypeOK, ClientType, Packets
<1>11. TokensMatch' /\ DeadAfterDisconnect' /\ \A r \in net : PktOK(r)'
  BY <1>4, <1>7, <1>10, ClientKeeps
<1>12. PeersMatch'
  BY <1>2, <1>3, <1>4, <1>5, <1>6 DEF IInv, PeersMatch, Serves
<1>13. PacketsMatch'
  <2>1. PktOK(q)'
    BY <1>2, <1>3, <1>5, <1>6, <1>12 DEF PktOK, GivenUp, PeersMatch
  <2> QED
    BY <2>1, <1>5, <1>11 DEF PacketsMatch, PktOK, GivenUp
<1>14. ConnectKeepsTrying'
  BY <1>2, <1>3, <1>5, <1>6 DEF IInv, ConnectKeepsTrying
<1>15. EventsMatch'
  <2>1. \A t \in Sessions : /\ t # s => cl'.state[t] = cl.state[t]
                           /\ events'[t] = events[t]
    BY <1>3, <1>4, <1>5, <1>6
  <2>2. cl'.state[s] = c.state[s] /\ cl'.unresolved = c.unresolved
    BY <1>5
  <2>3. ASSUME NEW t \in Sessions, t # s PROVE Told(t)'
    <3>1. Told(t) /\ t \in Sessions
      BY DEF IInv, EventsMatch
    <3>2. cl'.state[t] = cl.state[t] /\ events'[t] = events[t]
      BY <2>1, <2>3
    <3>3. t \in cl'.unresolved <=> t \in cl.unresolved
      BY <1>3, <1>5, <2>3
    <3> QED
      BY ONLY <3>1, <3>2, <3>3, ToldAgain
  <2>4. Told(s) /\ events'[s] = events[s]
    BY <2>1 DEF IInv, EventsMatch
  <2>5. Told(s)'
    BY <2>2, <2>4, <1>2, <1>3, <1>6 DEF Told
  <2> QED
    BY <2>3, <2>5 DEF EventsMatch
<1> QED
  BY <1>10, <1>11, <1>12, <1>13, <1>14, <1>15 DEF IInv

(* A connect response whose routing information cannot be resolved. *)
LEMMA DisconnectUnresolvedKeeps ==
    ASSUME IInv, NEW p \in net, DisconnectUnresolved(p)
    PROVE  IInv'
<1>0. PICK s \in Sessions : s = p.client
  BY DEF IInv, TypeOK
<1> DEFINE c == [cl EXCEPT !.state[s] = "kDisconnectInProgress",
                           !.server[s] = p.server, !.unresolved = @ \cup {s}]
<1>1. cl \in ClientType /\ TypeOK
  BY Shapes DEF IInv
<1>2. /\ p.server \in Numbers
      /\ cl.state[s] = "kConnectInProgress" /\ Serves(p.server, s)
  BY <1>1, <1>0 DEF DisconnectUnresolved, Connecting, IInv, PacketsMatch, TypeOK
<1>3. c \in ClientType /\ c.state = [cl.state EXCEPT ![s] = "kDisconnectInProgress"]
      /\ c.server = [cl.server EXCEPT ![s] = p.server] /\ c.pending = cl.pending
      /\ c.unresolved = cl.unresolved \cup {s}
  BY <1>1, <1>2 DEF ClientType, States
<1>4. send_sm_req(c, s) /\ sv' = sv /\ events' = events
  BY <1>0 DEF DisconnectUnresolved
<1> HIDE DEF c
<1>5. PICK q :
         /\ cl' \in ClientType
         /\ cl'.state = c.state /\ cl'.server = c.server /\ cl'.pending = c.pending \cup {s}
         /\ cl'.unresolved = c.unresolved
         /\ net' \in SUBSET Packets /\ net' = net \cup {q}
         /\ q.client = s /\ q.server = c.server[s]
         /\ q.type \in {"kConnectReq", "kDisconnectReq"}
         /\ c.state[s] = "kConnectInProgress" => q.type = "kConnectReq"
  <2> WITNESS Request(c, s)
  <2>1. s \in Sessions /\ c \in ClientType
    BY <1>3
  <2> QED
    BY <2>1, <1>1, <1>4, Sent
<1>6. cl.state \in [Sessions -> States] /\ cl.server \in [Sessions -> Numbers]
  BY <1>1 DEF ClientType
<1>7. \A t \in Sessions : GivenUp(t) => GivenUp(t)'
  BY <1>2, <1>3, <1>5, <1>6 DEF GivenUp
<1>10. TypeOK'
  BY <1>1, <1>4, <1>5 DEF TypeOK, ClientType, Packets
<1>11. TokensMatch' /\ DeadAfterDisconnect' /\ \A r \in net : PktOK(r)'
  BY <1>4, <1>7, <1>10, ClientKeeps
<1>12. PeersMatch'
  BY <1>2, <1>3, <1>4, <1>5, <1>6 DEF IInv, PeersMatch, Serves
<1>13. PacketsMatch'
  <2>1. PktOK(q)'
    BY <1>2, <1>3, <1>5, <1>6, <1>12 DEF PktOK, GivenUp, PeersMatch
  <2> QED
    BY <2>1, <1>5, <1>11 DEF PacketsMatch, PktOK, GivenUp
<1>14. ConnectKeepsTrying'
  BY <1>2, <1>3, <1>5, <1>6 DEF IInv, ConnectKeepsTrying
<1>15. EventsMatch'
  <2>1. \A t \in Sessions : /\ t # s => cl'.state[t] = cl.state[t]
                           /\ events'[t] = events[t]
    BY <1>3, <1>4, <1>5, <1>6
  <2>2. cl'.state[s] = c.state[s] /\ cl'.unresolved = c.unresolved
    BY <1>5
  <2>3. ASSUME NEW t \in Sessions, t # s PROVE Told(t)'
    <3>1. Told(t) /\ t \in Sessions
      BY DEF IInv, EventsMatch
    <3>2. cl'.state[t] = cl.state[t] /\ events'[t] = events[t]
      BY <2>1, <2>3
    <3>3. t \in cl'.unresolved <=> t \in cl.unresolved
      BY <1>3, <1>5, <2>3
    <3> QED
      BY ONLY <3>1, <3>2, <3>3, ToldAgain
  <2>4. Told(s) /\ events'[s] = events[s]
    BY <2>1 DEF IInv, EventsMatch
  <2>5. Told(s)'
    BY <2>2, <2>4, <1>2, <1>3, <1>6 DEF Told
  <2> QED
    BY <2>3, <2>5 DEF EventsMatch
<1> QED
  BY <1>10, <1>11, <1>12, <1>13, <1>14, <1>15 DEF IInv

(* A response nobody waits for. *)
LEMMA HeardKeeps ==
    ASSUME IInv, NEW s \in Sessions, cl' = Heard(cl, s), sv' = sv, net' = net, events' = events,
           cl.state[s] # "kConnectInProgress"
    PROVE  IInv'
<1>1. cl \in ClientType /\ TypeOK
  BY Shapes DEF IInv
<1>2. cl.state[s] # "kConnectInProgress"
  OBVIOUS
<1>3. /\ cl' \in ClientType
      /\ cl'.state = cl.state /\ cl'.server = cl.server /\ cl'.pending = cl.pending \ {s}
      /\ cl'.unresolved = cl.unresolved
  BY <1>1 DEF Heard, ClientType
<1>4. sv' = sv /\ net' = net
  OBVIOUS
<1>5. events' \in [Sessions -> Seq(Events)] /\ events' = events
  BY <1>1, Shapes
<1>6. cl.state \in [Sessions -> States] /\ cl.server \in [Sessions -> Numbers]
  BY <1>1 DEF ClientType
<1>7. \A t \in Sessions : GivenUp(t) => GivenUp(t)'
  BY <1>2, <1>3, <1>6 DEF GivenUp
<1>10. TypeOK'
  BY <1>1, <1>3, <1>4, <1>5 DEF TypeOK, ClientType
<1>11. TokensMatch' /\ DeadAfterDisconnect' /\ \A r \in net : PktOK(r)'
  BY <1>4, <1>7, <1>10, ClientKeeps
<1>12. PeersMatch'
  BY <1>2, <1>3, <1>4, <1>6 DEF IInv, PeersMatch, Serves
<1>13. PacketsMatch'
  BY <1>4, <1>11 DEF PacketsMatch, PktOK, GivenUp
<1>14. ConnectKeepsTrying'
  BY <1>2, <1>3, <1>6 DEF IInv, ConnectKeepsTrying
<1>15. EventsMatch'
  BY <1>2, <1>3, <1>5, <1>6 DEF IInv, EventsMatch, Told
<1> QED
  BY <1>10, <1>11, <1>12, <1>13, <1>14, <1>15 DEF IInv

(* A connect response nobody waits for. *)
LEMMA IgnoreKeeps ==
    ASSUME IInv, NEW p \in net, IgnoreConnectResp(p)
    PROVE  IInv'
<1>1. p.client \in Sessions
  BY DEF IInv, TypeOK
<1>2. /\ cl' = Heard(cl, p.client) /\ sv' = sv /\ net' = net /\ events' = events
      /\ cl.state[p.client] # "kConnectInProgress"
  BY DEF IgnoreConnectResp, Connecting
<1> QED
  BY <1>1, <1>2, HeardKeeps

(* A connect response from a server whose Rpc does not exist yet. *)
LEMMA RetryLaterKeeps ==
    ASSUME IInv, NEW p \in net, RetryConnectLater(p)
    PROVE  IInv'
<1>0. PICK s \in Sessions : s = p.client
  BY DEF IInv, TypeOK
<1>1. cl \in ClientType /\ TypeOK
  BY Shapes DEF IInv
<1>2. s \in Sessions
  BY <1>0
<1>3. /\ cl' \in ClientType
      /\ cl'.state = cl.state /\ cl'.server = cl.server /\ cl'.pending = (cl.pending \ {s}) \cup {s}
      /\ cl'.unresolved = cl.unresolved
  BY <1>0, <1>1 DEF RetryConnectLater, Heard, ClientType
<1>4. sv' = sv /\ net' = net
  BY DEF RetryConnectLater
<1>5. events' \in [Sessions -> Seq(Events)] /\ events' = events
  BY <1>1, Shapes DEF RetryConnectLater
<1>6. cl.state \in [Sessions -> States] /\ cl.server \in [Sessions -> Numbers]
  BY <1>1 DEF ClientType
<1>7. \A t \in Sessions : GivenUp(t) => GivenUp(t)'
  BY <1>2, <1>3, <1>6 DEF GivenUp
<1>10. TypeOK'
  BY <1>1, <1>3, <1>4, <1>5 DEF TypeOK, ClientType
<1>11. TokensMatch' /\ DeadAfterDisconnect' /\ \A r \in net : PktOK(r)'
  BY <1>4, <1>7, <1>10, ClientKeeps
<1>12. PeersMatch'
  BY <1>2, <1>3, <1>4, <1>6 DEF IInv, PeersMatch, Serves
<1>13. PacketsMatch'
  BY <1>4, <1>11 DEF PacketsMatch, PktOK, GivenUp
<1>14. ConnectKeepsTrying'
  BY <1>2, <1>3, <1>6 DEF IInv, ConnectKeepsTrying
<1>15. EventsMatch'
  BY <1>2, <1>3, <1>5, <1>6 DEF IInv, EventsMatch, Told
<1> QED
  BY <1>10, <1>11, <1>12, <1>13, <1>14, <1>15 DEF IInv

(* A connect response of success. *)
LEMMA ConnectedKeeps ==
    ASSUME IInv, NEW p \in net, Connected(p)
    PROVE  IInv'
<1>0. PICK s \in Sessions : s = p.client
  BY DEF IInv, TypeOK
<1>1. cl \in ClientType /\ TypeOK
  BY Shapes DEF IInv
<1>2. /\ p.server \in Numbers /\ Serves(p.server, s)
      /\ cl.state[s] = "kConnectInProgress" /\ events[s] = <<>>
  BY <1>0, <1>1 DEF Connected, Connecting, IInv, PacketsMatch, EventsMatch, Told, TypeOK
<1>3. /\ cl' \in ClientType
      /\ cl'.state = [cl.state EXCEPT ![s] = "kConnected"]
      /\ cl'.server = [cl.server EXCEPT ![s] = p.server]
      /\ cl'.pending = cl.pending \ {s} /\ cl'.unresolved = cl.unresolved
  BY <1>0, <1>1, <1>2 DEF Connected, Heard, ClientType, States
<1>4. sv' = sv /\ net' = net
  BY DEF Connected
<1>5. events' \in [Sessions -> Seq(Events)] /\ events' = [events EXCEPT ![s] = <<"kConnected">>]
  BY <1>0, <1>1, <1>2, Shapes DEF Connected, Events
<1>6. cl.state \in [Sessions -> States] /\ cl.server \in [Sessions -> Numbers]
  BY <1>1 DEF ClientType
<1>7. \A t \in Sessions : GivenUp(t) => GivenUp(t)'
  BY <1>2, <1>3, <1>6 DEF GivenUp
<1>10. TypeOK'
  BY <1>1, <1>3, <1>4, <1>5 DEF TypeOK, ClientType
<1>11. TokensMatch' /\ DeadAfterDisconnect' /\ \A r \in net : PktOK(r)'
  BY <1>4, <1>7, <1>10, ClientKeeps
<1>12. PeersMatch'
  BY <1>2, <1>3, <1>4, <1>6 DEF IInv, PeersMatch, Serves
<1>13. PacketsMatch'
  BY <1>4, <1>11 DEF PacketsMatch, PktOK, GivenUp
<1>14. ConnectKeepsTrying'
  BY <1>2, <1>3, <1>6 DEF IInv, ConnectKeepsTrying
<1>15. EventsMatch'
  BY <1>2, <1>3, <1>5, <1>6 DEF IInv, EventsMatch, Told
<1> QED
  BY <1>10, <1>11, <1>12, <1>13, <1>14, <1>15 DEF IInv

(* The end of a session. *)
LEMMA BuryKeeps ==
    ASSUME IInv, NEW s \in Sessions, NEW e \in Events, Bury(s, e), sv' = sv,
           \/ cl.state[s] = "kConnectInProgress" /\ e = "kConnectFailed"
           \/ cl.state[s] = "kDisconnectInProgress" /\ e = "kDisconnected"
    PROVE  IInv'
<1>1. cl \in ClientType /\ TypeOK
  BY Shapes DEF IInv
<1>2. \/ /\ cl.state[s] = "kConnectInProgress" /\ e = "kConnectFailed"
         /\ events[s] = <<>> /\ s \notin cl.unresolved
      \/ /\ cl.state[s] = "kDisconnectInProgress" /\ e = "kDisconnected"
         /\ events[s] = IF s \in cl.unresolved THEN <<>> ELSE <<"kConnected">>
  BY DEF IInv, EventsMatch, Told
<1>3. /\ cl' \in ClientType
      /\ cl'.state = [cl.state EXCEPT ![s] = "gone"]
      /\ cl'.server = cl.server /\ cl'.pending = cl.pending \ {s}
      /\ cl'.unresolved = cl.unresolved
  <2>1. PICK k \in Nat : k = cl.ring + 1
    BY <1>1 DEF ClientType
  <2>2. cl' = [Heard(cl, s) EXCEPT !.state[s] = "gone", !.ring = k]
    BY <2>1, <1>1 DEF Bury, Heard, ClientType
  <2>3. /\ Heard(cl, s) \in ClientType
        /\ Heard(cl, s).state = cl.state /\ Heard(cl, s).server = cl.server
        /\ Heard(cl, s).pending = cl.pending \ {s} /\ Heard(cl, s).unresolved = cl.unresolved
    BY <1>1 DEF Heard, ClientType
  <2>4. "gone" \in States
    BY DEF States
  <2> QED
    BY <2>2, <2>3, <2>4 DEF ClientType
<1>4. sv' = sv /\ net' = net
  BY DEF Bury
<1>5. events' \in [Sessions -> Seq(Events)] /\ events' = [events EXCEPT ![s] = Append(@, e)]
  BY <1>1, Shapes DEF Bury
<1>6. cl.state \in [Sessions -> States] /\ cl.server \in [Sessions -> Numbers]
  BY <1>1 DEF ClientType
<1>7. \A t \in Sessions : GivenUp(t) => GivenUp(t)'
  BY <1>2, <1>3, <1>6 DEF GivenUp
<1>10. TypeOK'
  BY <1>1, <1>3, <1>4, <1>5 DEF TypeOK, ClientType
<1>11. TokensMatch' /\ DeadAfterDisconnect' /\ \A r \in net : PktOK(r)'
  BY <1>4, <1>7, <1>10, ClientKeeps
<1>12. PeersMatch'
  BY <1>2, <1>3, <1>4, <1>6 DEF IInv, PeersMatch, Serves
<1>13. PacketsMatch'
  BY <1>4, <1>11 DEF PacketsMatch, PktOK, GivenUp
<1>14. ConnectKeepsTrying'
  BY <1>2, <1>3, <1>6 DEF IInv, ConnectKeepsTrying
<1>15. EventsMatch'
  <2>1. events'[s] \in IF s \in cl.unresolved THEN {<<"kDisconnected">>}
                       ELSE {<<"kConnectFailed">>, <<"kConnected", "kDisconnected">>}
    <3>1. events'[s] = Append(events[s], e)
      BY <1>5, <1>1 DEF TypeOK
    <3>0. <<"kConnected">> # <<>> /\ Append(<<>>, e) = <<e>>
      OBVIOUS
    <3>2. CASE events[s] = <<>>
      <4>1. events'[s] = <<e>>
        BY <3>0, <3>1, <3>2
      <4>2. IF s \in cl.unresolved THEN e = "kDisconnected" ELSE e = "kConnectFailed"
        BY <3>0, <3>2, <1>2
      <4> QED
        BY <4>1, <4>2
    <3>3. CASE events[s] = <<"kConnected">>
      <4>1. Append(<<"kConnected">>, "kDisconnected") = <<"kConnected", "kDisconnected">>
        BY AppendPair
      <4>2. e = "kDisconnected" /\ s \notin cl.unresolved
        BY <3>0, <3>3, <1>2
      <4> QED
        BY <3>1, <3>3, <4>1, <4>2
    <3> QED
      BY <3>2, <3>3, <1>2
  <2>2. \A t \in Sessions : t # s => events'[t] = events[t] /\ cl'.state[t] = cl.state[t]
    BY <1>1, <1>3, <1>5, <1>6 DEF TypeOK
  <2>3. cl'.state[s] = "gone"
    BY <1>3, <1>6
  <2> QED
    BY <1>3, <2>1, <2>2, <2>3 DEF IInv, EventsMatch, Told
<1> QED
  BY <1>10, <1>11, <1>12, <1>13, <1>14, <1>15 DEF IInv

(* A connect response that says that the connect failed. *)
LEMMA FailedKeeps ==
    ASSUME IInv, NEW p \in net, ConnectFailed(p)
    PROVE  IInv'
<1>1. p.client \in Sessions /\ "kConnectFailed" \in Events
  BY DEF IInv, TypeOK, Events
<1>2. /\ cl.state[p.client] = "kConnectInProgress"
      /\ Bury(p.client, "kConnectFailed") /\ sv' = sv
  BY DEF ConnectFailed, Connecting
<1> QED
  BY <1>1, <1>2, BuryKeeps

(* A disconnect response, the first or a late one. *)
LEMMA DisconnectRespKeeps ==
    ASSUME IInv, NEW p \in net, HandleDisconnectResp(p)
    PROVE  IInv'
<1>1. p.client \in Sessions /\ "kDisconnected" \in Events
  BY DEF IInv, TypeOK, Events
<1>2. GivenUp(p.client)
  BY PacketsOK DEF HandleDisconnectResp, IInv, PktOK
<1>3. CASE cl.state[p.client] # "gone"
  <2>1. /\ cl.state[p.client] = "kDisconnectInProgress"
        /\ Bury(p.client, "kDisconnected") /\ sv' = sv
    BY <1>2, <1>3 DEF HandleDisconnectResp, GivenUp
  <2> QED
    BY <1>1, <2>1, BuryKeeps
<1>4. CASE cl.state[p.client] = "gone"
  <2>1. cl' = Heard(cl, p.client) /\ sv' = sv /\ net' = net /\ events' = events
    BY <1>4 DEF HandleDisconnectResp
  <2> QED
    BY <1>1, <1>4, <2>1, HeardKeeps
<1> QED
  BY <1>3, <1>4

(* The server's thread creates its Rpc. *)
LEMMA RegisterKeeps ==
    ASSUME IInv, RegisterRpc
    PROVE  IInv'
<1>1. cl' = cl /\ net' = net /\ events' = events
      /\ sv' \in ServerType /\ sv'.vec = sv.vec /\ sv'.token = sv.token
  BY Shapes DEF RegisterRpc, ServerType, IInv
<1>2. TypeOK'
  BY <1>1, Shapes DEF IInv, TypeOK, ServerType, Entries
<1>3. /\ TokensMatch' /\ DeadAfterDisconnect' /\ PacketsMatch' /\ PeersMatch'
      /\ ConnectKeepsTrying' /\ EventsMatch'
  BY <1>1 DEF IInv, TokensMatch, DeadAfterDisconnect, PacketsMatch, PeersMatch, Serves,
              ConnectKeepsTrying, EventsMatch, Told
<1> QED
  BY <1>2, <1>3 DEF IInv

(* A packet is lost. *)
LEMMA LoseKeeps ==
    ASSUME IInv, NEW p \in net, Lose(p)
    PROVE  IInv'
<1>1. cl' = cl /\ sv' = sv /\ events' = events /\ net' \subseteq net
  BY DEF Lose
<1>2. TypeOK'
  BY <1>1 DEF IInv, TypeOK
<1>3. /\ TokensMatch' /\ DeadAfterDisconnect' /\ PacketsMatch' /\ PeersMatch'
      /\ ConnectKeepsTrying' /\ EventsMatch'
  BY <1>1 DEF IInv, TokensMatch, DeadAfterDisconnect, PacketsMatch, PeersMatch, Serves,
              ConnectKeepsTrying, EventsMatch, Told
<1> QED
  BY <1>2, <1>3 DEF IInv

(* An answer of a known session, or one that names none, is a good packet. *)
LEMMA AnswerKeeps ==
    ASSUME IInv, NEW p \in net, NEW type \in {"kConnectResp", "kDisconnectResp"},
           NEW n \in Numbers, NEW err \in Errors, Answer(p, type, n, err),
           sv' \in ServerType,
           \A m \in DOMAIN sv.vec : m \in DOMAIN sv'.vec /\ sv'.vec[m].client = sv.vec[m].client,
           type = "kConnectResp" /\ err = "kNoError" => Serves(n, p.client)',
           type = "kDisconnectResp" => Serves(n, p.client)' /\ GivenUp(p.client)
    PROVE  TypeOK' /\ PacketsMatch' /\ PeersMatch' /\ ConnectKeepsTrying' /\ EventsMatch'
<1>1. PICK q : q = Pkt(type, p.client, n, err)
  OBVIOUS
<1>2. cl' = cl /\ events' = events /\ net' = net \cup {q}
  BY <1>1 DEF Answer
<1>3. q \in Packets /\ q.type = type /\ q.client = p.client /\ q.server = n /\ q.err = err
  <2>1. p.client \in Sessions
    BY DEF IInv, TypeOK
  <2> QED
    BY <1>1, <2>1 DEF Pkt, Packets, PktTypes
<1>4. TypeOK'
  BY <1>2, <1>3, Shapes DEF IInv, TypeOK, ServerType, Entries, Packets
<1>5. PeersMatch' /\ ConnectKeepsTrying' /\ EventsMatch' /\ \A r \in net : PktOK(r)'
  BY <1>2, ServerKeeps
<1>6. PktOK(q)'
  BY <1>2, <1>3 DEF PktOK, GivenUp, Serves
<1>7. PacketsMatch'
  BY <1>2, <1>5, <1>6 DEF PacketsMatch, PktOK, GivenUp
<1> QED
  BY <1>4, <1>5, <1>7

(* A connect request before the server's Rpc exists. *)
LEMMA RejectKeeps ==
    ASSUME IInv, NEW p \in net, RejectUnregistered(p)
    PROVE  IInv'
<1>1. p.client \in Sessions /\ p.server \in Numbers /\ sv \in ServerType
  BY Shapes DEF IInv, TypeOK
<1>2. /\ Answer(p, "kConnectResp", p.server, "kInvalidRemoteRpcId")
      /\ sv' = sv /\ "kInvalidRemoteRpcId" \in Errors
  BY DEF RejectUnregistered, Errors
<1>8. TypeOK' /\ PacketsMatch' /\ PeersMatch' /\ ConnectKeepsTrying' /\ EventsMatch'
  BY <1>1, <1>2, AnswerKeeps
<1>9. TokensMatch' /\ DeadAfterDisconnect'
  BY <1>2 DEF IInv, TokensMatch, DeadAfterDisconnect, Serves, Answer
<1> QED
  BY <1>8, <1>9 DEF IInv

(* A connect request that the server refuses. *)
LEMMA RefuseKeeps ==
    ASSUME IInv, NEW p \in net, Refuse(p)
    PROVE  IInv'
<1>1. p.client \in Sessions /\ p.server \in Numbers /\ sv \in ServerType
  BY Shapes DEF IInv, TypeOK
<1>2. PICK err \in Errors \ {"kNoError"} :
         Answer(p, "kConnectResp", p.server, err) /\ sv' = sv
  BY DEF Refuse, Errors
<1>8. TypeOK' /\ PacketsMatch' /\ PeersMatch' /\ ConnectKeepsTrying' /\ EventsMatch'
  BY <1>1, <1>2, AnswerKeeps
<1>9. TokensMatch' /\ DeadAfterDisconnect'
  BY <1>2 DEF IInv, TokensMatch, DeadAfterDisconnect, Serves, Answer
<1> QED
  BY <1>8, <1>9 DEF IInv

(* A connect request that comes again. *)
LEMMA AnswerAgainKeeps ==
    ASSUME IInv, NEW p \in net, AnswerAgain(p)
    PROVE  IInv'
<1>1. p.client \in Sessions /\ p.server \in Numbers /\ sv \in ServerType
  BY Shapes DEF IInv, TypeOK
<1>2. PICK n \in Numbers : /\ n = sv.token[p.client] /\ n # None
                         /\ Answer(p, "kConnectResp", n, "kNoError") /\ sv' = sv
  BY <1>1 DEF AnswerAgain, ServerType
<1>3. Serves(n, p.client)' /\ "kNoError" \in Errors
  BY <1>1, <1>2 DEF IInv, TokensMatch, Serves, Errors
<1>8. TypeOK' /\ PacketsMatch' /\ PeersMatch' /\ ConnectKeepsTrying' /\ EventsMatch'
  BY <1>1, <1>2, <1>3, AnswerKeeps
<1>9. TokensMatch' /\ DeadAfterDisconnect'
  BY <1>2 DEF IInv, TokensMatch, DeadAfterDisconnect, Serves, Answer
<1> QED
  BY <1>8, <1>9 DEF IInv

(* A connect request that gets a session. *)
LEMMA AcceptKeeps ==
    ASSUME IInv, NEW p \in net, Accept(p)
    PROVE  IInv'
<1>1. p.client \in Sessions /\ p.server \in Numbers /\ sv \in ServerType
  BY Shapes DEF IInv, TypeOK
<1>2. PICK num \in Nat, e \in Entries :
         /\ num = Len(sv.vec) + 1 /\ e.client = p.client /\ e.live
         /\ sv.token[p.client] = None
         /\ Answer(p, "kConnectResp", num, "kNoError")
         /\ sv' = [sv EXCEPT !.vec = Append(@, e), !.token[p.client] = num, !.ring = @ - 1]
         /\ sv.ring > 0
  <2>1. sv.vec \in Seq(Entries)
    BY <1>1 DEF ServerType
  <2>2. Len(sv.vec) + 1 \in Nat
    BY <2>1
  <2>3. [client |-> p.client, live |-> TRUE] \in Entries
    BY <1>1 DEF Entries
  <2> QED
    BY <2>2, <2>3 DEF Accept
<1>3. /\ sv.vec \in Seq(Entries) /\ sv.ring - 1 \in Nat
      /\ sv.token \in [Sessions -> Numbers] /\ num \in Numbers
  BY <1>1, <1>2 DEF ServerType, Numbers
<1>4. PICK v \in Seq(Entries) : v = Append(sv.vec, e)
  BY <1>3, AppendProperties
<1>5. /\ DOMAIN v = 1..num /\ v[num] = e /\ DOMAIN sv.vec = 1..(num - 1)
      /\ \A n \in DOMAIN sv.vec : n \in DOMAIN v /\ n # num /\ v[n] = sv.vec[n]
      /\ num \in DOMAIN v /\ \A n \in DOMAIN v : n = num \/ n \in DOMAIN sv.vec
  BY <1>2, <1>3, <1>4, AppendProperties
<1>6. /\ sv' \in ServerType /\ sv'.vec = v
      /\ sv'.token = [sv.token EXCEPT ![p.client] = num]
  <2>1. PICK k \in Nat : k = sv.ring - 1
    BY <1>3
  <2>2. sv' = [sv EXCEPT !.vec = v, !.token[p.client] = num, !.ring = k]
    BY <2>1, <1>2, <1>4
  <2> QED
    BY <2>2, <1>1, <1>3 DEF ServerType
<1>7. Serves(num, p.client)' /\ "kNoError" \in Errors
  BY <1>2, <1>5, <1>6 DEF Serves, Errors
<1>8. TypeOK' /\ PacketsMatch' /\ PeersMatch' /\ ConnectKeepsTrying' /\ EventsMatch'
  BY <1>1, <1>2, <1>3, <1>5, <1>6, <1>7, AnswerKeeps
<1>9. TokensMatch' /\ DeadAfterDisconnect'
  <2>1. \A n \in DOMAIN sv.vec : sv.vec[n].client # p.client /\ sv.vec[n].client \in Sessions
    <3>1. TAKE n \in DOMAIN sv.vec
    <3>2. sv.vec[n].client \in Sessions
      BY EntriesTyped DEF IInv
    <3>3. sv.token[sv.vec[n].client] = n /\ n \in Nat
      BY <1>2, <1>5 DEF IInv, TokensMatch
    <3> QED
      BY <1>2, <3>2, <3>3, RingAssumption
  <2>2. \A n \in DOMAIN v : v[n].client \in Sessions /\ sv'.token[v[n].client] = n
    BY <2>1, <1>1, <1>2, <1>3, <1>5, <1>6 DEF IInv, TokensMatch
  <2>3. (\A s \in Sessions : sv.token[s] # None => Serves(sv.token[s], s))'
    <3>1. SUFFICES ASSUME NEW s \in Sessions, sv'.token[s] # None
                   PROVE  sv'.token[s] \in DOMAIN v /\ v[sv'.token[s]].client = s
      BY <1>6 DEF Serves
    <3>2. CASE s = p.client
      BY <3>2, <1>2, <1>3, <1>5, <1>6
    <3>3. CASE s # p.client
      BY <3>1, <3>3, <1>3, <1>5, <1>6 DEF IInv, TokensMatch, Serves
    <3> QED
      BY <3>2, <3>3
  <2>4. cl' = cl
    BY <1>2 DEF Answer
  <2>5. \A n \in DOMAIN v : ~v[n].live => cl.state[v[n].client] \in {"kDisconnectInProgress", "gone"}
    BY <1>2, <1>5 DEF IInv, DeadAfterDisconnect
  <2> QED
    BY <2>2, <2>3, <2>4, <2>5, <1>6 DEF TokensMatch, DeadAfterDisconnect
<1> QED
  BY <1>8, <1>9 DEF IInv

(* A disconnect request, the first or a late one. *)
LEMMA DisconnectReqKeeps ==
    ASSUME IInv, NEW p \in net, HandleDisconnectReq(p)
    PROVE  IInv'
<1>1. p.client \in Sessions /\ p.server \in Numbers /\ sv \in ServerType
  BY Shapes DEF IInv, TypeOK
<1>2. /\ Answer(p, "kDisconnectResp", p.server, "kNoError")
      /\ Serves(p.server, p.client) /\ GivenUp(p.client) /\ "kNoError" \in Errors
      /\ sv.vec \in Seq(Entries) /\ p.server \in DOMAIN sv.vec
  BY <1>1, PacketsOK DEF HandleDisconnectReq, IInv, PktOK, Serves, Errors, ServerType
<1>3. PICK v \in Seq(Entries) :
         /\ sv' \in ServerType /\ sv'.vec = v /\ sv'.token = sv.token
         /\ \A n : n \in DOMAIN v <=> n \in DOMAIN sv.vec
         /\ \A n \in DOMAIN sv.vec : v[n].client = sv.vec[n].client
         /\ \A n \in DOMAIN sv.vec : n # p.server => v[n] = sv.vec[n]
  <2>1. CASE ~sv.vec[p.server].live
    <3>1. sv' = sv
      BY <2>1 DEF HandleDisconnectReq
    <3> QED
      BY <3>1, <1>1, <1>2
  <2>2. CASE sv.vec[p.server].live
    <3>1. PICK e \in Entries : e = [sv.vec[p.server] EXCEPT !.live = FALSE]
      BY <1>2, EntriesTyped DEF IInv, Entries
    <3>2. e.client = sv.vec[p.server].client
      BY <3>1, <1>2, EntriesTyped DEF IInv, Entries
    <3>3. PICK v \in Seq(Entries) : v = [sv.vec EXCEPT ![p.server] = e]
      <4>1. PICK w \in Seq(Entries) : w = sv.vec
        BY <1>2
      <4>2. p.server \in 1..Len(w)
        BY <1>2, <4>1
      <4>3. [w EXCEPT ![p.server] = e] \in Seq(Entries)
        BY <4>2, ExceptSeq
      <4> QED
        BY <4>1, <4>3
    <3>4. PICK k \in Nat : k = sv.ring + 1
      BY <1>1 DEF ServerType
    <3>5. sv' = [sv EXCEPT !.vec = v, !.ring = k]
      BY <2>2, <3>1, <3>3, <3>4, <1>1 DEF HandleDisconnectReq, ServerType
    <3>6. /\ \A n : n \in DOMAIN v <=> n \in DOMAIN sv.vec
          /\ \A n \in DOMAIN sv.vec : n # p.server => v[n] = sv.vec[n]
          /\ v[p.server] = e
      BY <3>3, <1>2
    <3> QED
      BY <3>2, <3>5, <3>6, <1>1 DEF ServerType
  <2> QED
    BY <2>1, <2>2
<1>4. Serves(p.server, p.client)'
  BY <1>2, <1>3 DEF Serves
<1>8. TypeOK' /\ PacketsMatch' /\ PeersMatch' /\ ConnectKeepsTrying' /\ EventsMatch'
  BY <1>1, <1>2, <1>3, <1>4, AnswerKeeps
<1>9. TokensMatch' /\ DeadAfterDisconnect'
  <2>1. TokensMatch'
    BY <1>3 DEF IInv, TokensMatch, Serves
  <2>2. cl' = cl
    BY <1>2 DEF Answer
  <2>3. SUFFICES ASSUME NEW n \in DOMAIN sv.vec, ~v[n].live
                 PROVE  GivenUp(sv.vec[n].client)
    BY <2>1, <2>2, <1>3 DEF DeadAfterDisconnect, GivenUp
  <2>4. CASE n = p.server
    BY <2>4, <1>2 DEF Serves
  <2>5. CASE n # p.server
    BY <2>3, <2>5, <1>3 DEF IInv, DeadAfterDisconnect, GivenUp
  <2> QED
    BY <2>4, <2>5
<1> QED
  BY <1>8, <1>9 DEF IInv

LEMMA InitIInv == Init => IInv
<1> SUFFICES ASSUME Init PROVE IInv
  OBVIOUS
<1>1. TypeOK
  <2>1. cl \in ClientType
    BY RingAssumption DEF Init, ClientType, States, Numbers
  <2>2. sv \in ServerType
    BY RingAssumption DEF Init, ServerType, Entries, Numbers
  <2>3. net \in SUBSET Packets /\ events \in [Sessions -> Seq(Events)]
    BY DEF Init
  <2> QED
    BY <2>1, <2>2, <2>3, Shapes
<1>2. TokensMatch /\ PacketsMatch /\ DeadAfterDisconnect
  BY DEF Init, TokensMatch, PacketsMatch, DeadAfterDisconnect
<1>3. PeersMatch /\ ConnectKeepsTrying /\ EventsMatch
  BY DEF Init, PeersMatch, ConnectKeepsTrying, EventsMatch, Told
<1> QED
  BY <1>1, <1>2, <1>3 DEF IInv

LEMMA NextIInv == IInv /\ [Next]_vars => IInv'
<1> SUFFICES ASSUME IInv, [Next]_vars PROVE IInv'
  OBVIOUS
<1>1. ASSUME NEW s \in Sessions, CreateSession(s) \/ DestroySession(s) \/ RetrySmReq(s)
      PROVE  IInv'
  BY <1>1, CreateKeeps, DestroyKeeps, RetryKeeps
<1>2. CASE RegisterRpc
  BY <1>2, RegisterKeeps
<1>3. ASSUME NEW p \in net, HandleConnectResp(p)
      PROVE  IInv'
  BY <1>3, IgnoreKeeps, RetryLaterKeeps, FailedKeeps, DisconnectUnresolvedKeeps, ConnectedKeeps
     DEF HandleConnectResp
<1>4. ASSUME NEW p \in net, HandleConnectReq(p)
      PROVE  IInv'
  BY <1>4, AnswerAgainKeeps, RefuseKeeps, AcceptKeeps DEF HandleConnectReq
<1>5. ASSUME NEW p \in net, Deliver(p) \/ Lose(p)
      PROVE  IInv'
  BY <1>3, <1>4, <1>5, DisconnectRespKeeps, RejectKeeps, DisconnectReqKeeps, LoseKeeps DEF Deliver
<1>6. CASE UNCHANGED vars
  BY <1>6 DEF vars, IInv, TypeOK, TokensMatch, PacketsMatch, PeersMatch, DeadAfterDisconnect,
              ConnectKeepsTrying, EventsMatch, Told, Serves
<1> QED
  BY <1>1, <1>2, <1>5, <1>6 DEF Next

LEMMA SpecIInv == Spec => []IInv
BY InitIInv, NextIInv, PTL DEF Spec

(* For any number of sessions, the state of both ends keeps its shape. *)
THEOREM TypesHold == Spec => []TypeOK
<1>1. IInv => TypeOK
  BY DEF IInv
<1> QED
  BY <1>1, SpecIInv, PTL

(* For any number of sessions and however connect requests are repeated    *)
(* and delayed, the server makes at most one session for each session of   *)
(* the client.                                                             *)
THEOREM NoSecondSession == Spec => []OneServerSession
<1>1. IInv => OneServerSession
  BY DEF IInv, TokensMatch, OneServerSession
<1> QED
  BY <1>1, SpecIInv, PTL

(* For any number of sessions, a session the client believes connected has *)
(* a live session of its own at the server.                                *)
THEOREM ConnectedPeers == Spec => []PeerLive
<1>1. ASSUME IInv PROVE PeerLive
  <2>1. SUFFICES ASSUME NEW s \in Sessions, cl.state[s] = "kConnected"
                 PROVE  /\ cl.server[s] \in DOMAIN sv.vec
                        /\ sv.vec[cl.server[s]] = [client |-> s, live |-> TRUE]
    BY DEF PeerLive
  <2>2. cl.server[s] \in DOMAIN sv.vec /\ sv.vec[cl.server[s]].client = s
    BY <1>1, <2>1 DEF IInv, PeersMatch, Serves
  <2>3. sv.vec[cl.server[s]].live
    BY <1>1, <2>1, <2>2 DEF IInv, DeadAfterDisconnect
  <2>4. sv.vec[cl.server[s]] \in Entries
    BY <1>1, <2>2, EntriesTyped DEF IInv
  <2> QED
    BY <2>2, <2>3, <2>4 DEF Entries
<1> QED
  BY <1>1, SpecIInv, PTL

(* The assertions of the disconnect handlers hold for every packet that    *)
(* may arrive, for any number of sessions.                                 *)
THEOREM HandlersAssert == Spec => []AssertsHold
<1>1. ASSUME IInv PROVE AssertsHold
  <2>1. SUFFICES ASSUME NEW p \in net
                 PROVE  /\ p.type = "kDisconnectReq" => Serves(p.server, p.client)
                        /\ p.type = "kDisconnectResp" /\ cl.state[p.client] # "gone" =>
                              /\ cl.state[p.client] = "kDisconnectInProgress"
                              /\ cl.server[p.client] = p.server
    BY DEF AssertsHold, Serves
  <2>2. PktOK(p) /\ p.client \in Sessions
    BY <1>1, PacketsOK DEF IInv, TypeOK
  <2>3. ASSUME p.type = "kDisconnectResp", cl.state[p.client] # "gone"
        PROVE  /\ cl.state[p.client] = "kDisconnectInProgress"
               /\ cl.server[p.client] = p.server
    <3>1. Serves(p.server, p.client) /\ cl.state[p.client] = "kDisconnectInProgress"
      BY <2>2, <2>3 DEF PktOK, GivenUp
    <3>2. Serves(cl.server[p.client], p.client)
      BY <1>1, <2>2, <3>1 DEF IInv, PeersMatch
    <3> QED
      BY <1>1, <3>1, <3>2 DEF IInv, TokensMatch, Serves
  <2> QED
    BY <2>2, <2>3 DEF PktOK
<1> QED
  BY <1>1, SpecIInv, PTL

(* A connect request without an answer is sent again, for any number of    *)
(* sessions.                                                               *)
THEOREM ConnectsRetried == Spec => []ConnectKeepsTrying
<1>1. IInv => ConnectKeepsTrying
  BY DEF IInv
<1> QED
  BY <1>1, SpecIInv, PTL

(* The application hears of each of any number of sessions at most one     *)
(* connect, or its failure, and one end, in this order; and of an end      *)
(* alone only when there was no route (handle_connect_resp_st).            *)
THEOREM CallbacksMakeSense == Spec => []CallbacksInOrder
<1>1. ASSUME IInv PROVE CallbacksInOrder
  <2>1. \A s \in Sessions : cl.state[s] \in States
    BY <1>1, Shapes DEF IInv, ClientType
  <2> QED
    BY <1>1, <2>1 DEF IInv, EventsMatch, Told, CallbacksInOrder, States
<1> QED
  BY <1>1, SpecIInv, PTL

-----------------------------------------------------------------------------
(***************************************************************************)
(* Ring entries.                                                           *)
(***************************************************************************)
HeldSessions == {s \in Sessions : Held(s)}
LiveNumbers == {n \in DOMAIN sv.vec : sv.vec[n].live}

(* What a step does to a count and to the set it goes with. *)
Kept(ring, newRing, S, T) == newRing = ring /\ T = S
Taken(ring, newRing, S, T) == newRing = ring - 1 /\ \E x : x \notin S /\ T = S \cup {x}
Freed(ring, newRing, S, T) == newRing = ring + 1 /\ \E x : x \in S /\ T = S \ {x}

LEMMA Balance ==
    ASSUME NEW S, NEW T, IsFiniteSet(S), NEW ring \in Nat, NEW newRing \in Nat,
           \/ Kept(ring, newRing, S, T)
           \/ Taken(ring, newRing, S, T)
           \/ Freed(ring, newRing, S, T)
    PROVE  newRing + Cardinality(T) = ring + Cardinality(S)
<1>1. Cardinality(S) \in Nat
  BY FS_CardinalityType
<1>2. CASE Kept(ring, newRing, S, T)
  BY <1>2 DEF Kept
<1>3. CASE Taken(ring, newRing, S, T)
  <2>1. PICK x : x \notin S /\ T = S \cup {x}
    BY <1>3 DEF Taken
  <2>2. Cardinality(T) = Cardinality(S) + 1
    BY <2>1, FS_AddElement
  <2> QED
    BY <1>1, <1>3, <2>2 DEF Taken
<1>4. CASE Freed(ring, newRing, S, T)
  <2>1. PICK x : x \in S /\ T = S \ {x}
    BY <1>4 DEF Freed
  <2>2. Cardinality(T) = Cardinality(S) - 1
    BY <2>1, FS_RemoveElement
  <2> QED
    BY <1>1, <1>4, <2>2 DEF Freed
<1> QED
  BY <1>2, <1>3, <1>4

LEMMA SetsFinite == ASSUME IInv PROVE IsFiniteSet(HeldSessions) /\ IsFiniteSet(LiveNumbers)
<1>1. IsFiniteSet(Sessions)
  BY RingAssumption, FS_Interval DEF Sessions
<1>2. IsFiniteSet(HeldSessions)
  BY <1>1, FS_Subset DEF HeldSessions
<1>3. sv.vec \in Seq(Entries)
  BY Shapes DEF IInv, ServerType
<1>4. DOMAIN sv.vec = 1..Len(sv.vec) /\ Len(sv.vec) \in Nat
  BY <1>3
<1>5. IsFiniteSet(DOMAIN sv.vec)
  BY <1>4, FS_Interval
<1> QED
  BY <1>2, <1>5, FS_Subset DEF LiveNumbers

ClientBalance ==
    \/ Kept(cl.ring, cl'.ring, HeldSessions, HeldSessions')
    \/ Taken(cl.ring, cl'.ring, HeldSessions, HeldSessions')
    \/ Freed(cl.ring, cl'.ring, HeldSessions, HeldSessions')

ServerBalance ==
    \/ Kept(sv.ring, sv'.ring, LiveNumbers, LiveNumbers')
    \/ Taken(sv.ring, sv'.ring, LiveNumbers, LiveNumbers')
    \/ Freed(sv.ring, sv'.ring, LiveNumbers, LiveNumbers')

(* The end of a session frees its entry. *)
LEMMA BuryBalance ==
    ASSUME TypeOK, NEW s \in Sessions, NEW e, Bury(s, e), Held(s)
    PROVE  ClientBalance
<1>1. cl \in ClientType
  BY Shapes
<1>2. Heard(cl, s) \in ClientType /\ Heard(cl, s).state = cl.state /\ Heard(cl, s).ring = cl.ring
  BY <1>1 DEF Heard, ClientType
<1>3. cl'.ring = cl.ring + 1 /\ cl'.state = [cl.state EXCEPT ![s] = "gone"]
  BY <1>2 DEF Bury, ClientType
<1>4. s \in HeldSessions /\ HeldSessions' = HeldSessions \ {s}
  BY <1>1, <1>3 DEF HeldSessions, Held, ClientType
<1> QED
  BY <1>3, <1>4 DEF ClientBalance, Freed

LEMMA SendBalance ==
    ASSUME NEW s \in Sessions, NEW c \in ClientType, send_sm_req(c, s)
    PROVE  cl'.ring = c.ring /\ cl'.state = c.state
BY DEF send_sm_req, ClientType

LEMMA ClientBalances == ASSUME IInv, [Next]_vars PROVE ClientBalance
<1>1. cl \in ClientType /\ TypeOK
  BY Shapes DEF IInv
<1>2. ASSUME cl'.ring = cl.ring,
             \A s \in Sessions : cl.state[s] \in {"new", "gone"} <=> cl'.state[s] \in {"new", "gone"}
      PROVE  ClientBalance
  BY <1>2 DEF ClientBalance, Kept, HeldSessions, Held
<1>3. ASSUME NEW s \in Sessions, CreateSession(s) PROVE ClientBalance
  <2> DEFINE c == [cl EXCEPT !.state[s] = "kConnectInProgress", !.ring = @ - 1]
  <2>1. PICK k \in Nat : k = cl.ring - 1
    BY <1>1, <1>3 DEF CreateSession, ClientType
  <2>2. "kConnectInProgress" \in States
    BY DEF States
  <2>3. c = [cl EXCEPT !.state[s] = "kConnectInProgress", !.ring = k]
    BY <2>1
  <2>4. send_sm_req(c, s) /\ cl.state[s] = "new"
    BY <1>3 DEF CreateSession
  <2> HIDE DEF c
  <2>5. c \in ClientType /\ c.ring = k /\ c.state = [cl.state EXCEPT ![s] = "kConnectInProgress"]
    BY <2>2, <2>3, <1>1 DEF ClientType
  <2>6. cl'.ring = cl.ring - 1 /\ cl'.state = [cl.state EXCEPT ![s] = "kConnectInProgress"]
    BY <2>1, <2>4, <2>5, SendBalance
  <2>7. s \notin HeldSessions /\ HeldSessions' = HeldSessions \cup {s}
    BY <1>1, <2>4, <2>6 DEF HeldSessions, Held, ClientType
  <2> QED
    BY <2>6, <2>7 DEF ClientBalance, Taken
<1>4. ASSUME NEW s \in Sessions, DestroySession(s) PROVE ClientBalance
  <2> DEFINE c == [cl EXCEPT !.state[s] = "kDisconnectInProgress"]
  <2>1. /\ c \in ClientType /\ c.ring = cl.ring
        /\ c.state = [cl.state EXCEPT ![s] = "kDisconnectInProgress"]
    BY <1>1 DEF ClientType, States
  <2>2. send_sm_req(c, s) /\ cl.state[s] = "kConnected"
    BY <1>4 DEF DestroySession
  <2> HIDE DEF c
  <2>3. cl'.ring = cl.ring /\ cl'.state = [cl.state EXCEPT ![s] = "kDisconnectInProgress"]
    BY <2>1, <2>2, SendBalance
  <2> QED
    BY <1>1, <1>2, <2>2, <2>3 DEF ClientType
<1>5. ASSUME NEW s \in Sessions, RetrySmReq(s) PROVE ClientBalance
  BY <1>1, <1>2, <1>5, SendBalance DEF RetrySmReq
<1>6. ASSUME NEW p \in net, HandleConnectResp(p) PROVE ClientBalance
  <2>1. PICK s \in Sessions : s = p.client
    BY <1>1 DEF TypeOK
  <2>2. Heard(cl, s) \in ClientType /\ Heard(cl, s).state = cl.state /\ Heard(cl, s).ring = cl.ring
    BY <1>1 DEF Heard, ClientType
  <2>3. CASE IgnoreConnectResp(p)
    BY <2>1, <2>2, <2>3, <1>2 DEF IgnoreConnectResp
  <2>4. CASE RetryConnectLater(p)
    <3>1. cl'.ring = cl.ring /\ cl'.state = cl.state
      BY <2>1, <2>2, <2>4 DEF RetryConnectLater, ClientType
    <3> QED
      BY <3>1, <1>2
  <2>5. CASE ConnectFailed(p)
    BY <1>1, <2>1, <2>5, BuryBalance DEF ConnectFailed, Connecting, Held
  <2>6. CASE DisconnectUnresolved(p)
    <3> DEFINE c == [cl EXCEPT !.state[s] = "kDisconnectInProgress", !.server[s] = p.server,
                               !.unresolved = @ \cup {s}]
    <3>1. p.server \in Numbers
      BY <1>1 DEF TypeOK
    <3>2. /\ c \in ClientType /\ c.ring = cl.ring
          /\ c.state = [cl.state EXCEPT ![s] = "kDisconnectInProgress"]
      BY <1>1, <3>1 DEF ClientType, States
    <3>3. send_sm_req(c, s) /\ cl.state[s] = "kConnectInProgress"
      BY <2>1, <2>6 DEF DisconnectUnresolved, Connecting
    <3> HIDE DEF c
    <3>4. cl'.ring = cl.ring /\ cl'.state = [cl.state EXCEPT ![s] = "kDisconnectInProgress"]
      BY <3>2, <3>3, SendBalance
    <3> QED
      BY <1>1, <1>2, <3>3, <3>4 DEF ClientType
  <2>7. CASE Connected(p)
    <3>1. /\ cl'.ring = cl.ring /\ cl.state[s] = "kConnectInProgress"
          /\ cl'.state = [cl.state EXCEPT ![s] = "kConnected"]
      BY <2>1, <2>2, <2>7 DEF Connected, Connecting, ClientType
    <3> QED
      BY <1>1, <1>2, <3>1 DEF ClientType
  <2> QED
    BY <1>6, <2>3, <2>4, <2>5, <2>6, <2>7 DEF HandleConnectResp
<1>7. ASSUME NEW p \in net, HandleDisconnectResp(p) PROVE ClientBalance
  <2>1. PICK s \in Sessions : s = p.client
    BY <1>1 DEF TypeOK
  <2>2. CASE cl.state[s] # "gone"
    <3>1. Held(s)
      BY <2>1, <2>2, <1>7, PacketsOK DEF IInv, PktOK, GivenUp, Held, HandleDisconnectResp
    <3> QED
      BY <1>1, <1>7, <2>1, <2>2, <3>1, BuryBalance DEF HandleDisconnectResp
  <2>3. CASE cl.state[s] = "gone"
    <3>1. cl'.ring = cl.ring /\ cl'.state = cl.state
      BY <1>1, <1>7, <2>1, <2>3 DEF HandleDisconnectResp, Heard, ClientType
    <3> QED
      BY <3>1, <1>2
  <2> QED
    BY <2>2, <2>3
<1>8. CASE cl' = cl
  BY <1>2, <1>8
<1>9. ASSUME NEW p \in net, RejectUnregistered(p) \/ HandleConnectReq(p)
                             \/ HandleDisconnectReq(p) \/ Lose(p)
      PROVE  cl' = cl
  BY <1>9 DEF RejectUnregistered, HandleConnectReq, AnswerAgain, Refuse, Accept,
              HandleDisconnectReq, Answer, Lose
<1> QED
  BY <1>3, <1>4, <1>5, <1>6, <1>7, <1>8, <1>9 DEF Next, vars, Deliver, RegisterRpc

LEMMA ServerBalances == ASSUME IInv, [Next]_vars PROVE ServerBalance
<1>1. sv \in ServerType /\ TypeOK /\ sv.vec \in Seq(Entries)
  BY Shapes DEF IInv, ServerType
<1>2. ASSUME sv'.ring = sv.ring, sv'.vec = sv.vec PROVE ServerBalance
  BY <1>2 DEF ServerBalance, Kept, LiveNumbers
<1>3. ASSUME NEW p \in net, Accept(p) PROVE ServerBalance
  <2>1. PICK e \in Entries : e = [client |-> p.client, live |-> TRUE]
    BY <1>1 DEF TypeOK, Entries
  <2>2. PICK v \in Seq(Entries) : v = Append(sv.vec, e)
    BY <1>1, AppendProperties
  <2>3. PICK num \in Nat : num = Len(sv.vec) + 1
    BY <1>1
  <2>4. sv'.ring = sv.ring - 1 /\ sv'.vec = v
    BY <1>1, <1>3, <2>1, <2>2 DEF Accept, ServerType
  <2>5. /\ num \in DOMAIN v /\ v[num] = e /\ num \notin DOMAIN sv.vec
        /\ \A n \in DOMAIN sv.vec : n \in DOMAIN v /\ v[n] = sv.vec[n]
        /\ \A n \in DOMAIN v : n = num \/ n \in DOMAIN sv.vec
    BY <1>1, <2>2, <2>3, AppendProperties
  <2>6. e.live
    BY <2>1
  <2>7. num \notin LiveNumbers /\ LiveNumbers' = LiveNumbers \cup {num}
    BY <2>4, <2>5, <2>6 DEF LiveNumbers
  <2> QED
    BY <2>4, <2>7 DEF ServerBalance, Taken
<1>4. ASSUME NEW p \in net, HandleDisconnectReq(p) PROVE ServerBalance
  <2>1. p.server \in DOMAIN sv.vec
    BY <1>4, PacketsOK DEF IInv, PktOK, Serves, HandleDisconnectReq
  <2>2. CASE ~sv.vec[p.server].live
    BY <1>2, <1>4, <2>2 DEF HandleDisconnectReq
  <2>3. CASE sv.vec[p.server].live
    <3>1. PICK e : e = [sv.vec[p.server] EXCEPT !.live = FALSE]
      OBVIOUS
    <3>2. ~e.live
      BY <1>1, <2>1, <3>1, EntriesTyped DEF Entries
    <3>3. PICK v : v = [sv.vec EXCEPT ![p.server] = e]
      OBVIOUS
    <3>4. sv'.ring = sv.ring + 1 /\ sv'.vec = v
      BY <1>1, <1>4, <2>3, <3>1, <3>3 DEF HandleDisconnectReq, ServerType
    <3>5. /\ \A n : n \in DOMAIN v <=> n \in DOMAIN sv.vec
          /\ \A n \in DOMAIN sv.vec : n # p.server => v[n] = sv.vec[n]
          /\ v[p.server] = e
      BY <3>3, <2>1
    <3>6. p.server \in LiveNumbers /\ LiveNumbers' = LiveNumbers \ {p.server}
      BY <2>1, <2>3, <3>2, <3>4, <3>5 DEF LiveNumbers
    <3> QED
      BY <3>4, <3>6 DEF ServerBalance, Freed
  <2> QED
    BY <2>2, <2>3
<1>5. CASE RegisterRpc
  <2>1. sv'.ring = sv.ring /\ sv'.vec = sv.vec
    BY <1>1, <1>5 DEF RegisterRpc, ServerType
  <2> QED
    BY <1>2, <2>1
<1>6. CASE sv' = sv
  BY <1>2, <1>6
<1>7. ASSUME NEW p \in net, HandleConnectReq(p) PROVE ServerBalance
  BY <1>3, <1>6, <1>7 DEF HandleConnectReq, AnswerAgain, Refuse
<1>8. ASSUME NEW p \in net, RejectUnregistered(p) \/ Lose(p) \/ HandleConnectResp(p)
                             \/ HandleDisconnectResp(p)
      PROVE  sv' = sv
  BY <1>8 DEF RejectUnregistered, Lose, HandleConnectResp, HandleDisconnectResp, IgnoreConnectResp,
              RetryConnectLater, ConnectFailed, DisconnectUnresolved, Connected
<1>9. ASSUME NEW s \in Sessions, CreateSession(s) \/ DestroySession(s) \/ RetrySmReq(s)
      PROVE  sv' = sv
  BY <1>9 DEF CreateSession, DestroySession, RetrySmReq
<1> QED
  BY <1>4, <1>5, <1>6, <1>7, <1>8, <1>9 DEF Next, vars, Deliver

(* For any number of sessions and ring entries, every ring entry of both   *)
(* ends is free or belongs to a session, so that neither counter leaves    *)
(* its range.                                                              *)
THEOREM RingEntriesConserved == Spec => []RingsConserved
<1>1. Init => RingsConserved
  <2> SUFFICES ASSUME Init PROVE RingsConserved
    OBVIOUS
  <2>1. cl.ring = ClientRing /\ {s \in Sessions : Held(s)} = {}
    BY DEF Init, Held
  <2>2. sv.ring = ServerRing /\ {n \in DOMAIN sv.vec : sv.vec[n].live} = {}
    BY DEF Init
  <2>3. /\ Cardinality({s \in Sessions : Held(s)}) = 0
        /\ Cardinality({n \in DOMAIN sv.vec : sv.vec[n].live}) = 0
    BY <2>1, <2>2, FS_EmptySet
  <2>4. ClientRing + 0 = ClientRing /\ ServerRing + 0 = ServerRing
    BY RingAssumption
  <2> QED
    BY <2>1, <2>2, <2>3, <2>4 DEF RingsConserved
<1>2. ASSUME IInv, IInv', RingsConserved, [Next]_vars PROVE RingsConserved'
  <2>1. /\ cl.ring \in Nat /\ cl'.ring \in Nat
        /\ sv.ring \in Nat /\ sv'.ring \in Nat
    BY <1>2 DEF IInv, TypeOK
  <2>2. IsFiniteSet(HeldSessions) /\ IsFiniteSet(LiveNumbers)
    BY <1>2, SetsFinite
  <2>3. cl'.ring + Cardinality(HeldSessions') = cl.ring + Cardinality(HeldSessions)
    BY <1>2, <2>1, <2>2, ClientBalances, Balance DEF ClientBalance
  <2>4. sv'.ring + Cardinality(LiveNumbers') = sv.ring + Cardinality(LiveNumbers)
    BY <1>2, <2>1, <2>2, ServerBalances, Balance DEF ServerBalance
  <2> QED
    BY <1>2, <2>3, <2>4 DEF RingsConserved, HeldSessions, LiveNumbers
<1> QED
  BY <1>1, <1>2, SpecIInv, PTL DEF Spec
=============================================================================
