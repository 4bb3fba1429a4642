------------------------------ MODULE ErpcSession ------------------------------
(***************************************************************************)
(* Session management of thirdparty/eRPC: how a client's Rpc connects      *)
(* sessions to a server's Rpc, and disconnects them, over UDP, which may   *)
(* lose, duplicate and reorder packets.  RpcClient and the split thread    *)
(* connect to every server thread in this way before they do anything      *)
(* else, and may do so before the server thread has created its Rpc.       *)
(*                                                                         *)
(* A session is a number in the client's session_vec_, and in the server's *)
(* another one; the unique token of a session is the client's number here. *)
(* A handler runs in the event loop of the Rpc it belongs to: one step.    *)
(* Ring entries are counted in units of kSessionCredits, one per session.  *)
(***************************************************************************)
EXTENDS Naturals, Sequences, FiniteSets

CONSTANTS MaxSessions,   \* sessions the client may create (bound)
          ClientRing,    \* ring entries of the client
          ServerRing,    \* ring entries of the server
          MayFail,       \* whether memory or routing information may be missing
          Lossy,         \* the types of the packets that may get lost
          None           \* kInvalidSessionNum

Sessions == 1..MaxSessions
PktTypes == {"kConnectReq", "kConnectResp", "kDisconnectReq", "kDisconnectResp"}

ASSUME RingAssumption ==
    /\ MaxSessions \in Nat /\ ClientRing \in Nat /\ ServerRing \in Nat
    /\ MayFail \in BOOLEAN
    /\ Lossy \subseteq PktTypes
    /\ None \notin Nat

VARIABLES cl,      \* the client: state and server number of its sessions,
                   \*   sm_pending_reqs_, ring_entries_available_; and, as a
                   \*   record, the sessions it could not resolve a route for
          sv,      \* the server: whether the Nexus has its hook, session_vec_,
                   \*   conn_req_token_map_, ring_entries_available_
          net,     \* the packets on the wire; one that was read may be read again
          events   \* the callbacks of sm_handler_ for each session

vars == <<cl, sv, net, events>>

(* "new" sessions are not created yet, the session_vec_ entry of "gone"    *)
(* ones is a null pointer again.                                           *)
States == {"new", "kConnectInProgress", "kConnected", "kDisconnectInProgress", "gone"}

Errors == {"kNoError", "kInvalidRemoteRpcId", "kRingExhausted", "kOutOfMemory"}

Pkt(type, s, n, err) == [type |-> type, client |-> s, server |-> n, err |-> err]

Init ==
    /\ cl = [state |-> [s \in Sessions |-> "new"], server |-> [s \in Sessions |-> None],
             pending |-> {}, ring |-> ClientRing, unresolved |-> {}]
    /\ sv = [up |-> FALSE, vec |-> <<>>, token |-> [s \in Sessions |-> None],
             ring |-> ServerRing]
    /\ net = {}
    /\ events = [s \in Sessions |-> <<>>]
-----------------------------------------------------------------------------
(***************************************************************************)
(* The client.                                                             *)
(***************************************************************************)
(* send_sm_req_st asks for what the session's state says. *)
send_sm_req(c, s) ==
    /\ cl' = [c EXCEPT !.pending = @ \cup {s}]
    /\ net' = net \cup {Pkt(IF c.state[s] = "kConnectInProgress" THEN "kConnectReq"
                            ELSE "kDisconnectReq", s, c.server[s], "kNoError")}

(* Without ring entries the call answers -ENOMEM and changes nothing. *)
CreateSession(s) ==
    /\ cl.state[s] = "new"
    /\ \A t \in 1..(s - 1) : cl.state[t] # "new"
    /\ cl.ring > 0
    /\ send_sm_req([cl EXCEPT !.state[s] = "kConnectInProgress", !.ring = @ - 1], s)
    /\ UNCHANGED <<sv, events>>

(* Only a connected session can be disconnected. *)
DestroySession(s) ==
    /\ cl.state[s] = "kConnected"
    /\ send_sm_req([cl EXCEPT !.state[s] = "kDisconnectInProgress"], s)
    /\ UNCHANGED <<sv, events>>

(* The packet loss scan, kSMTimeoutMs after the last request. *)
RetrySmReq(s) ==
    /\ s \in cl.pending
    /\ cl.state[s] \in {"kConnectInProgress", "kDisconnectInProgress"}
    /\ send_sm_req(cl, s)
    /\ UNCHANGED <<sv, events>>

(* handle_sm_rx_st: every response ends the retries of its session. *)
Heard(c, s) == [c EXCEPT !.pending = @ \ {s}]

(* The session is told of its end, freed and buried. *)
Bury(s, event) ==
    /\ cl' = [Heard(cl, s) EXCEPT !.state[s] = "gone", !.ring = @ + 1]
    /\ events' = [events EXCEPT ![s] = Append(@, event)]
    /\ UNCHANGED net

(* handle_connect_resp_st: a response nobody waits for is ignored. *)
Connecting(p) == p.type = "kConnectResp" /\ cl.state[p.client] = "kConnectInProgress"

IgnoreConnectResp(p) ==
    /\ p.type = "kConnectResp" /\ ~Connecting(p)
    /\ cl' = Heard(cl, p.client)
    /\ UNCHANGED <<sv, net, events>>

(* The server's Rpc does not exist yet: the scan will ask again. *)
RetryConnectLater(p) ==
    /\ Connecting(p) /\ p.err = "kInvalidRemoteRpcId"
    /\ cl' = [Heard(cl, p.client) EXCEPT !.pending = @ \cup {p.client}]
    /\ UNCHANGED <<sv, net, events>>

ConnectFailed(p) ==
    /\ Connecting(p) /\ p.err \notin {"kNoError", "kInvalidRemoteRpcId"}
    /\ Bury(p.client, "kConnectFailed")
    /\ UNCHANGED sv

(* Mutant: the server's number is not saved. *)
DisconnectUnnamed(p) ==
    /\ Connecting(p) /\ p.err = "kNoError" /\ MayFail
    /\ send_sm_req([cl EXCEPT !.state[p.client] = "kDisconnectInProgress",
                              !.unresolved = @ \cup {p.client}], p.client)
    /\ UNCHANGED <<sv, events>>

(* The server's routing information cannot be resolved: it must free its   *)
(* session, and no callback says that the connect has failed.              *)
DisconnectUnresolved(p) ==
    /\ Connecting(p) /\ p.err = "kNoError" /\ MayFail
    /\ send_sm_req([cl EXCEPT !.state[p.client] = "kDisconnectInProgress",
                              !.server[p.client] = p.server,
                              !.unresolved = @ \cup {p.client}], p.client)
    /\ UNCHANGED <<sv, events>>

(* Mutant: a late response connects the session again. *)
ConnectedLate(p) ==
    /\ p.type = "kConnectResp" /\ p.err = "kNoError"
    /\ cl' = [Heard(cl, p.client) EXCEPT !.state[p.client] = "kConnected",
                                         !.server[p.client] = p.server]
    /\ events' = [events EXCEPT ![p.client] = Append(@, "kConnected")]
    /\ UNCHANGED <<sv, net>>

Connected(p) ==
    /\ Connecting(p) /\ p.err = "kNoError"
    /\ cl' = [Heard(cl, p.client) EXCEPT !.state[p.client] = "kConnected",
                                         !.server[p.client] = p.server]
    /\ events' = [events EXCEPT ![p.client] = Append(@, "kConnected")]
    /\ UNCHANGED <<sv, net>>

HandleConnectResp(p) ==
    \/ IgnoreConnectResp(p)
    \/ RetryConnectLater(p)
    \/ ConnectFailed(p)
    \/ DisconnectUnresolved(p)
    \/ Connected(p)

(* Mutant: a second answer ends the session a second time. *)
HandleDisconnectRespAgain(p) ==
    /\ p.type = "kDisconnectResp"
    /\ Bury(p.client, "kDisconnected")
    /\ UNCHANGED sv

HandleDisconnectResp(p) ==
    /\ p.type = "kDisconnectResp"
    /\ \/ /\ cl.state[p.client] = "gone"
          /\ cl' = Heard(cl, p.client)
          /\ UNCHANGED <<net, events>>
       \/ /\ cl.state[p.client] # "gone"
          /\ Bury(p.client, "kDisconnected")
    /\ UNCHANGED sv
-----------------------------------------------------------------------------
(***************************************************************************)
(* The server.                                                             *)
(***************************************************************************)
(* The server's thread creates its Rpc, which registers with the Nexus. *)
RegisterRpc ==
    /\ ~sv.up
    /\ sv' = [sv EXCEPT !.up = TRUE]
    /\ UNCHANGED <<cl, net, events>>

Answer(p, type, n, err) ==
    /\ net' = net \cup {Pkt(type, p.client, n, err)}
    /\ UNCHANGED <<cl, events>>

(* sm_thread_func: no Rpc to pass a request to. *)
RejectUnregistered(p) ==
    /\ ~sv.up
    /\ p.type = "kConnectReq"
    /\ Answer(p, "kConnectResp", p.server, "kInvalidRemoteRpcId")
    /\ UNCHANGED sv

(* Mutant: a connect request seen before gets no answer. *)
AnswerNotAgain(p) == sv.token[p.client] # None /\ UNCHANGED vars

(* A connect request seen before is answered again while its session is    *)
(* there.                                                                  *)
AnswerAgain(p) ==
    LET n == sv.token[p.client]
    IN  /\ n # None
        /\ sv.vec[n].live
        /\ Answer(p, "kConnectResp", n, "kNoError")
        /\ UNCHANGED sv

(* No ring entries; or no memory, which stands here for routing            *)
(* information that cannot be resolved and for a foreign transport too.    *)
Refuse(p) ==
    /\ sv.token[p.client] = None
    /\ \/ sv.ring = 0 /\ Answer(p, "kConnectResp", p.server, "kRingExhausted")
       \/ sv.ring > 0 /\ MayFail /\ Answer(p, "kConnectResp", p.server, "kOutOfMemory")
    /\ UNCHANGED sv

(* A new request gets a session. *)
Accept(p) ==
    LET num == Len(sv.vec) + 1
    IN  /\ sv.token[p.client] = None /\ sv.ring > 0
        /\ sv' = [sv EXCEPT !.vec = Append(@, [client |-> p.client, live |-> TRUE]),
                            !.token[p.client] = num, !.ring = @ - 1]
        /\ Answer(p, "kConnectResp", num, "kNoError")

HandleConnectReq(p) ==
    /\ p.type = "kConnectReq" /\ sv.up
    /\ AnswerAgain(p) \/ Refuse(p) \/ Accept(p)

(* Mutants: the token is forgotten with the session, or the ring entries   *)
(* are freed for every request.                                            *)
HandleDisconnectReqForgetting(p) ==
    /\ p.type = "kDisconnectReq" /\ sv.up
    /\ Answer(p, "kDisconnectResp", p.server, "kNoError")
    /\ sv' = IF sv.vec[p.server].live
             THEN [sv EXCEPT !.vec[p.server].live = FALSE, !.ring = @ + 1,
                             !.token[p.client] = None]
             ELSE sv
HandleDisconnectReqFreeing(p) ==
    /\ p.type = "kDisconnectReq" /\ sv.up
    /\ Answer(p, "kDisconnectResp", p.server, "kNoError")
    /\ sv' = [sv EXCEPT !.vec[p.server].live = FALSE, !.ring = @ + 1]

(* A disconnect request that finds its session gone is answered again. *)
HandleDisconnectReq(p) ==
    /\ p.type = "kDisconnectReq" /\ sv.up
    /\ Answer(p, "kDisconnectResp", p.server, "kNoError")
    /\ sv' = IF sv.vec[p.server].live
             THEN [sv EXCEPT !.vec[p.server].live = FALSE, !.ring = @ + 1]
             ELSE sv

(* The network drops a packet. *)
Lose(p) ==
    /\ p.type \in Lossy
    /\ net' = net \ {p}
    /\ UNCHANGED <<cl, sv, events>>

Deliver(p) ==
    \/ HandleConnectResp(p)
    \/ HandleDisconnectResp(p)
    \/ RejectUnregistered(p)
    \/ HandleConnectReq(p)
    \/ HandleDisconnectReq(p)

Next ==
    \/ \E s \in Sessions : CreateSession(s) \/ DestroySession(s) \/ RetrySmReq(s)
    \/ RegisterRpc
    \/ \E p \in net : Deliver(p) \/ Lose(p)

Spec == Init /\ [][Next]_vars
-----------------------------------------------------------------------------
(***************************************************************************)
(* Fairness.  The event loops run for ever and so does the scan; the       *)
(* server thread starts at last; a packet that cannot get lost arrives,    *)
(* and of one that can, and is sent again and again, a copy arrives.       *)
(***************************************************************************)
(* The answer that leads further than the last state of the session. *)
DeliverTo(s, type) ==
    \E p \in net : /\ p.client = s /\ p.type = type /\ p.err # "kInvalidRemoteRpcId"
                   /\ Deliver(p)

(* Disconnect packets are among them: a session that cannot be used is     *)
(* disconnected, and only that ends the attempt to connect it.             *)
Fairness ==
    /\ WF_vars(RegisterRpc)
    /\ \A s \in Sessions :
           /\ WF_vars(RetrySmReq(s))
           /\ \A type \in Lossy : SF_vars(DeliverTo(s, type))
           /\ \A type \in PktTypes \ Lossy : WF_vars(DeliverTo(s, type))

FairSpec == Spec /\ Fairness
-----------------------------------------------------------------------------
(***************************************************************************)
(* Properties.                                                             *)
(***************************************************************************)
Numbers == Nat \cup {None}

Events == {"kConnected", "kConnectFailed", "kDisconnected"}

(* The shapes of both ends' state, of the packets and of the callbacks. *)
TypeOK ==
    /\ cl \in [state : [Sessions -> States], server : [Sessions -> Numbers],
               pending : SUBSET Sessions, ring : Nat, unresolved : SUBSET Sessions]
    /\ sv \in [up : BOOLEAN, vec : Seq([client : Sessions, live : BOOLEAN]),
               token : [Sessions -> Numbers], ring : Nat]
    /\ net \in SUBSET [type : PktTypes, client : Sessions, server : Numbers, err : Errors]
    /\ events \in [Sessions -> Seq(Events)]

Held(s) == cl.state[s] \notin {"new", "gone"}

(* However often and however late the packets of a session arrive, the     *)
(* server has made at most one session for it: a connect request that      *)
(* comes again, even after the session was disconnected, makes no other.   *)
OneServerSession ==
    \A m, n \in DOMAIN sv.vec : sv.vec[m].client = sv.vec[n].client => m = n

(* A client that considers itself connected has a session of its own at    *)
(* the server, so that the datapath's packets go to the right slots.       *)
PeerLive ==
    \A s \in Sessions : cl.state[s] = "kConnected" =>
        /\ cl.server[s] \in DOMAIN sv.vec
        /\ sv.vec[cl.server[s]] = [client |-> s, live |-> TRUE]

(* The ring entries of both ends are all accounted for, after connects     *)
(* that failed and requests and answers that came twice.  The receive      *)
(* rings never overflow because of this (the assertions in                 *)
(* alloc_ring_entries and free_ring_entries).                              *)
RingsConserved ==
    /\ cl.ring + Cardinality({s \in Sessions : Held(s)}) = ClientRing
    /\ sv.ring + Cardinality({n \in DOMAIN sv.vec : sv.vec[n].live}) = ServerRing

(* The assertions of the disconnect handlers, for every packet that may    *)
(* arrive: a disconnect request names a session of the server that belongs *)
(* to the client, and its answer finds the client's session gone or        *)
(* waiting for just this answer.                                           *)
AssertsHold ==
    \A p \in net :
        /\ p.type = "kDisconnectReq" =>
              p.server \in DOMAIN sv.vec /\ sv.vec[p.server].client = p.client
        /\ p.type = "kDisconnectResp" /\ cl.state[p.client] # "gone" =>
              /\ cl.state[p.client] = "kDisconnectInProgress"
              /\ cl.server[p.client] = p.server

(* A session whose connect request is not answered yet is in               *)
(* sm_pending_reqs_, or nobody would send the request again.               *)
ConnectKeepsTrying ==
    \A s \in Sessions : cl.state[s] = "kConnectInProgress" => s \in cl.pending

(* The application hears of each session what it can make sense of: first  *)
(* that it was connected or that the connect failed, as create_session     *)
(* promises, then at most once and last that it ended, and after a failed  *)
(* connect nothing more.  The one exception is a session whose route the   *)
(* client could not resolve: of it the application hears only that it      *)
(* ended.                                                                  *)
CallbacksInOrder ==
    \A s \in Sessions :
        events[s] \in IF s \in cl.unresolved THEN {<<>>, <<"kDisconnected">>}
                     ELSE {<<>>, <<"kConnected">>, <<"kConnectFailed">>,
                           <<"kConnected", "kDisconnected">>}

(* Every attempt to connect ends in a callback, although packets are lost, *)
(* the server's thread may start later than the client, and a session that *)
(* cannot be used is disconnected first: the loop of RpcClient's           *)
(* constructor, which counts the callbacks in num_sm_resps_, gets there.   *)
ConnectEnds ==
    \A s \in Sessions : (cl.state[s] = "kConnectInProgress") ~> (events[s] # <<>>)
=============================================================================
