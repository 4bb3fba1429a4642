------------------------------ MODULE MetaClient ------------------------------
(***************************************************************************)
(* A client process (src/client/metaclient.cc, src/rpc/rpc_client.cc): it  *)
(* caches the region map, routes a request by the hash of the parent       *)
(* directory, waits for the answer, and after kUpdateRegionMap or kEBUSY   *)
(* sends the request a second time, once.                                  *)
(*   off -> readmap -> idle -> sent -> served -> answered -> idle          *)
(* with answered -> [readmap ->] resend -> sent on the first such answer.  *)
(***************************************************************************)
EXTENDS ServerContext

CONSTANTS
    MaxLogId,    \* bound on the log ids, for the state space
    MaxMiscount, \* bound on how far kv_num falls below zero, likewise
    ClientOps    \* the operations that the clients call

ASSUME BoundsAssumption == MaxLogId \in Nat /\ MaxMiscount \in Nat
ASSUME ClientOpsAssumption == ClientOps \subseteq Ops

ServerUnchanged ==
    UNCHANGED <<region, globalMap, globalId, queue, store, allocInode,
                pinodeTable, logDb, fg, split, view, crash>>

\* Asking a random session for the region map; req is what the client goes on
\* with once the map has come.
RPC_ReadRegionmap(c, req) ==
    \E s \in Threads :
        client' = [client EXCEPT ![c] = [req EXCEPT !.pc = "readmap", !.session = s]]

\* init_client_ctx ends with the first ReadRegionmap.
init_client_ctx(c) ==
    /\ client[c].pc = "off"
    /\ RPC_ReadRegionmap(c, client[c])
    /\ ServerUnchanged

\* Directories a client can know the number of: the root, and those that
\* some store or table holds (its dentry cache is never told of a removal).
KnownDirs ==
    {Root} \cup UNION {pinodeTable[t] \cup
                       {i \in {e.inode : e \in store[t].files} : i.dir} : t \in Threads}

\* The hash field of a request is never written either.  It is 0, but in a
\* mknod it lies where older requests had their file names: any byte string,
\* represented by 0 and a number outside every region.
WireHash(op) == IF op = "mknod" THEN {0, NumThreads * HashRange} ELSE {0}

Route(c, pinode) == find_region_id(view[c], Hash(pinode))

\* The bounds of the state space: no request starts beyond them.  The program
\* has no such limits.
WithinBounds ==
    \A t \in Threads : /\ allocInode[t] < MaxInode
                       /\ region[t][t].logId < MaxLogId
                       /\ region[t][t].kvNum >= -MaxMiscount

\* p_assert: a hash without a region ends the client.
Transmit(c, req) ==
    LET id == Route(c, req.pinode)
    IN  /\ client' = [client EXCEPT ![c] =
                        IF id = -1 THEN [IdleClient EXCEPT !.pc = "dead"]
                        ELSE [req EXCEPT !.pc = "sent", !.session = SessionOf(id)]]
        /\ ServerUnchanged

send_request(c, op, pinode, name) ==
    /\ client[c].pc = "idle"
    /\ WithinBounds
    /\ \E h \in WireHash(op) :
          Transmit(c, [IdleClient EXCEPT !.op = op, !.pinode = pinode,
                                         !.name = name, !.hash = h])

\* The second and last attempt, routed by the cache as it is now.
resend_request(c) ==
    /\ client[c].pc = "resend"
    /\ Transmit(c, client[c])

\* handle_rpc_resp on the first answer; the second one is final.
handle_rpc_resp(c) ==
    LET again == [client[c] EXCEPT !.retried = TRUE, !.resp = "none"]
    IN  /\ client[c].pc = "answered"
        /\ \/ /\ ~client[c].retried /\ client[c].resp = "kUpdateRegionMap"
              /\ RPC_ReadRegionmap(c, again)
           \/ /\ ~client[c].retried /\ client[c].resp = "kEBUSY"
              /\ client' = [client EXCEPT ![c] = [again EXCEPT !.pc = "resend"]]
           \/ /\ client[c].retried \/ client[c].resp \notin {"kUpdateRegionMap", "kEBUSY"}
              /\ client' = [client EXCEPT ![c] = IdleClient]
        /\ ServerUnchanged

ClientStep(c) ==
    \/ init_client_ctx(c)
    \/ \E op \in ClientOps, pinode \in KnownDirs, name \in Names : send_request(c, op, pinode, name)
    \/ resend_request(c) \/ handle_rpc_resp(c)
===============================================================================
