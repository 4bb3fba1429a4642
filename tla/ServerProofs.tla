------------------------------ MODULE ServerProofs ------------------------------
(***************************************************************************)
(* Theorems about MetaFS, for every number of threads, every hash range    *)
(* and every threshold, in three parts: the types of the whole state; the  *)
(* region map under splits; the split pipeline, the log and the stores.    *)
(***************************************************************************)
EXTENDS MetaFS, SequenceTheorems, FiniteSetTheorems, TLAPS

(***************************************************************************)
(* The types, for every set of clients.                                    *)
(***************************************************************************)
\* The constants in the form the proofs use them.
LEMMA Constants ==
    /\ NumThreads \in Nat /\ HashRange \in Nat /\ MaxRegionId \in Nat
    /\ MaxInode \in Nat /\ MsgLogs \in Nat
    /\ 0 \in Threads /\ 0 \in RegionIds /\ Threads \subseteq RegionIds
    /\ Threads \subseteq Nat /\ RegionIds \subseteq Nat
    /\ InodeThreads = Threads /\ ClientIds \subseteq Threads
    /\ Root \in Inode
    /\ (CHOOSE n \in Names : TRUE) \in Names
    /\ \A id \in RegionIds : SessionOf(id) \in Threads
    /\ \A i \in Inode : Hash(i) \in Nat
  BY RegionAssumptions, KVAssumption, ClientAssumption, MsgAssumption, HashAssumption
  DEF Threads, RegionIds, Root, Inode, SessionOf, Hashes

\* The states at rest have their types.
LEMMA IdleTypes ==
    /\ IdleFg \in FgState
    /\ IdleSplit \in SplitState
    /\ IdleClient \in ClientState
    /\ NoRegion \in Region
    /\ \A t \in Threads : InitialRange(t) \in [start : Nat, end : Nat]
<1>1. IdleFg \in FgState
  BY Constants DEF IdleFg, FgState, FgPc, Responses
<1>2. IdleSplit \in SplitState
  BY Constants DEF IdleSplit, SplitState, SplitPc, None
<1>3. IdleClient \in ClientState
  BY Constants DEF IdleClient, ClientState, ClientPc, Responses, Ops, Lookups
<1>4. NoRegion \in Region
  BY Constants DEF NoRegion, NewRegion, Region, Status
<1>5. \A t \in Threads : InitialRange(t) \in [start : Nat, end : Nat]
  BY RegionAssumptions DEF Threads, InitialRange
<1>. QED
  BY <1>1, <1>2, <1>3, <1>4, <1>5

\* A split makes ranges of hashes out of a range of hashes.
LEMMA RangeTypes ==
    ASSUME NEW e \in Nat
    PROVE  NewRange(e) \in [start : Nat, end : Nat] /\ ShrunkEnd(e) \in Nat
  BY DEF NewRange, ShrunkEnd

\* A region made from a range is a region.
LEMMA NewRegionType ==
    ASSUME NEW range, range.start \in Nat, range.end \in Nat,
           NEW left \in RegionIds, NEW status \in Status
    PROVE  NewRegion(range, left, status) \in Region
  BY DEF NewRegion, Region

\* The initial state is well typed.
LEMMA InitTypeOK == Init => TypeOK
<1>. SUFFICES ASSUME Init PROVE TypeOK
  OBVIOUS
<1>1. region \in [Threads -> [RegionIds -> Region]]
  BY Constants, IdleTypes, NewRegionType DEF Init, Status
<1>2. globalMap \in SUBSET ClientRegion
  <2>1. \A t \in Threads : MapEntry(t, InitialRange(t)) \in ClientRegion
    BY Constants, IdleTypes DEF MapEntry, ClientRegion
  <2>. QED
    BY <2>1 DEF Init
<1>3. globalId \in 0 .. MaxRegionId + 1
  BY RegionAssumptions DEF Init
<1>4. store \in [Threads -> [files : SUBSET Entry, stats : SUBSET Inode]]
  BY DEF Init, EmptyStore
<1>5. fg \in [Threads -> FgState] /\ split \in SplitState
  BY IdleTypes DEF Init
<1>6. client \in [ClientIds -> ClientState]
  BY IdleTypes DEF Init, ClientState, ClientPc
<1>7. split = IdleSplit /\ split.pc = "poll" /\ \A t \in Threads : fg[t].pc = "idle"
  BY DEF Init, IdleSplit, IdleFg
<1>8. /\ queue \in Seq(Threads \X RegionIds)
      /\ allocInode \in [Threads -> 1 .. MaxInode + 1]
      /\ pinodeTable \in [Threads -> SUBSET Inode]
      /\ logDb \in [Threads -> Seq(LogRecord)]
      /\ view \in [ClientIds -> SUBSET ClientRegion]
  BY Constants DEF Init
<1>9. crash \in CrashReasons \cup {"no"}
  BY DEF Init
<1>. QED
  BY <1>1, <1>2, <1>3, <1>4, <1>5, <1>6, <1>7, <1>8, <1>9 DEF TypeOK

\* A step that kills the process keeps the types.
LEMMA DieTypes ==
    ASSUME TypeOK, NEW reason \in CrashReasons, Die(reason)
    PROVE  TypeOK'
  BY DEF TypeOK, Die

\* The client's steps keep the types: a request is routed to a session that
\* exists, because find_region_id returns -1 or the id of an entry.
LEMMA RouteType ==
    ASSUME NEW map \in SUBSET ClientRegion, NEW h
    PROVE  find_region_id(map, h) \in RegionIds \cup {-1}
<1>. DEFINE hits == {r \in map : InRange(h, r)}
            first == {r \in hits : \A q \in hits : r.start <= q.start}
<1>1. CASE first = {}
  BY <1>1 DEF find_region_id
<1>2. CASE first # {}
  <2>1. (CHOOSE r \in first : TRUE) \in first
    BY <1>2
  <2>2. (CHOOSE r \in first : TRUE) \in ClientRegion
    BY <2>1
  <2>. QED
    BY <1>2, <2>2 DEF find_region_id, ClientRegion
<1>. QED
  BY <1>1, <1>2

\* Sending a request, or dying on the p_assert of RPC_Open and its siblings, keeps
\* the types.
LEMMA TransmitTypes ==
    ASSUME TypeOK, NEW c \in ClientIds, NEW req \in ClientState, Transmit(c, req)
    PROVE  TypeOK'
<1>1. Route(c, req.pinode) \in RegionIds \cup {-1}
  BY RouteType DEF TypeOK, Route
<1>. DEFINE new == IF Route(c, req.pinode) = -1 THEN [IdleClient EXCEPT !.pc = "dead"]
                   ELSE [req EXCEPT !.pc = "sent", !.session = SessionOf(Route(c, req.pinode))]
<1>2. new \in ClientState
  <2>1. CASE Route(c, req.pinode) = -1
    BY <2>1, IdleTypes DEF ClientState, ClientPc
  <2>2. CASE Route(c, req.pinode) # -1
    BY <2>2, <1>1, Constants DEF ClientState, ClientPc
  <2>. QED
    BY <2>1, <2>2
<1>3. client' = [client EXCEPT ![c] = new] /\ ServerUnchanged
  BY DEF Transmit
<1>4. client' \in [ClientIds -> ClientState]
  BY <1>2, <1>3 DEF TypeOK
<1>. QED
  BY <1>3, <1>4 DEF TypeOK, ServerUnchanged

\* Every step of a client keeps the types.
LEMMA ClientTypes ==
    ASSUME TypeOK, NEW c \in ClientIds, ClientStep(c)
    PROVE  TypeOK'
<1>1. CASE init_client_ctx(c)
  <2>1. PICK s \in Threads :
            client' = [client EXCEPT ![c] = [client[c] EXCEPT !.pc = "readmap", !.session = s]]
    BY <1>1 DEF init_client_ctx, RPC_ReadRegionmap
  <2>2. client[c] \in ClientState /\ client \in [ClientIds -> ClientState]
    BY DEF TypeOK
  <2>3. [client[c] EXCEPT !.pc = "readmap", !.session = s] \in ClientState
    BY <2>2 DEF ClientState, ClientPc
  <2>4. client' \in [ClientIds -> ClientState]
    BY <2>1, <2>2, <2>3
  <2>. QED
    BY <1>1, <2>4 DEF TypeOK, init_client_ctx, ServerUnchanged
<1>2. CASE \E op \in ClientOps, pinode \in KnownDirs, name \in Names :
              send_request(c, op, pinode, name)
  <2>1. PICK op \in ClientOps, pinode \in KnownDirs, name \in Names :
            send_request(c, op, pinode, name)
    BY <1>2
  <2>2. PICK h \in WireHash(op) :
            Transmit(c, [IdleClient EXCEPT !.op = op, !.pinode = pinode,
                                           !.name = name, !.hash = h])
    BY <2>1 DEF send_request
  <2>3. pinode \in Inode
    <3>1. \A t \in Threads : pinodeTable[t] \subseteq Inode
      BY DEF TypeOK
    <3>2. \A t \in Threads : \A e \in store[t].files : e.inode \in Inode
      BY DEF TypeOK, Entry
    <3>. QED
      BY <3>1, <3>2, Constants DEF KnownDirs
  <2>4. h \in Nat /\ op \in Ops
    BY Constants, ClientOpsAssumption DEF WireHash
  <2>5. [IdleClient EXCEPT !.op = op, !.pinode = pinode, !.name = name, !.hash = h]
            \in ClientState
    BY <2>3, <2>4, IdleTypes DEF ClientState, ClientPc
  <2>. QED
    BY <2>2, <2>5, TransmitTypes
<1>3. CASE resend_request(c)
  BY <1>3, TransmitTypes DEF resend_request, TypeOK
<1>4. CASE handle_rpc_resp(c)
  <2>1. client[c] \in ClientState /\ client \in [ClientIds -> ClientState]
    BY DEF TypeOK
  <2>. DEFINE again == [client[c] EXCEPT !.retried = TRUE, !.resp = "none"]
  <2>2. /\ \A s \in Threads : [again EXCEPT !.pc = "readmap", !.session = s] \in ClientState
        /\ [again EXCEPT !.pc = "resend"] \in ClientState
    BY <2>1 DEF ClientState, ClientPc, Responses
  <2>3. PICK new \in ClientState : client' = [client EXCEPT ![c] = new]
    BY <1>4, <2>2, IdleTypes DEF handle_rpc_resp, RPC_ReadRegionmap
  <2>4. client' \in [ClientIds -> ClientState]
    BY <2>1, <2>3
  <2>. QED
    BY <1>4, <2>4 DEF TypeOK, handle_rpc_resp, ServerUnchanged
<1>. QED
  BY <1>1, <1>2, <1>3, <1>4 DEF ClientStep

\* What a foreground thread may become: of the right type, and busy only with
\* a client that exists.
FgOK(f) ==
    /\ f \in [Threads -> FgState]
    /\ \A t \in Threads : f[t].pc \notin {"idle", "stopped"} => f[t].client \in ClientIds

\* Replacing what one foreground thread is doing.
LEMMA FgUpdate ==
    ASSUME TypeOK, NEW t \in Threads, NEW new \in FgState,
           new.pc \notin {"idle", "stopped"} => new.client \in ClientIds
    PROVE  FgOK([fg EXCEPT ![t] = new])
  BY DEF TypeOK, FgOK

\* What the types say of one foreground thread.
LEMMA FgTyped ==
    ASSUME TypeOK, NEW t \in Threads
    PROVE  /\ fg \in [Threads -> FgState] /\ fg[t] \in FgState
           /\ fg[t].pc \notin {"idle", "stopped"} => fg[t].client \in ClientIds
  BY DEF TypeOK

\* Moving on within a handler keeps the types.
LEMMA GotoTypes ==
    ASSUME TypeOK, NEW t \in Threads, NEW pc \in FgPc, Goto(t, pc),
           fg[t].pc \notin {"idle", "stopped"} \/ pc = "stopped"
    PROVE  FgOK(fg')
<1>1. [fg[t] EXCEPT !.pc = pc] \in FgState
  BY FgTyped DEF FgState
<1>2. fg' = [fg EXCEPT ![t] = [fg[t] EXCEPT !.pc = pc]]
  BY FgTyped DEF Goto
<1>3. [fg[t] EXCEPT !.pc = pc].pc \notin {"idle", "stopped"} =>
          [fg[t] EXCEPT !.pc = pc].client \in ClientIds
  BY FgTyped DEF FgState
<1>. QED
  BY <1>1, <1>2, <1>3, FgUpdate

\* Setting the response of a handler keeps the types.
LEMMA ReplyTypes ==
    ASSUME TypeOK, NEW t \in Threads, NEW resp \in Responses, Reply(t, resp),
           fg[t].pc \notin {"idle", "stopped"}
    PROVE  FgOK(fg')
<1>. DEFINE new == [fg[t] EXCEPT !.pc = "reply", !.resp = resp]
<1>1. new \in FgState /\ new.client = fg[t].client
  BY FgTyped DEF FgState, FgPc
<1>2. fg' = [fg EXCEPT ![t] = new]
  BY FgTyped DEF Reply
<1>. QED
  BY <1>1, <1>2, FgUpdate, FgTyped

\* The steps of a handler up to the execution of the operation.
LEMMA HandlerHeadTypes ==
    ASSUME TypeOK, NEW t \in Threads,
           \/ \E c \in ClientIds : handler_begin(t, c) \/ read_region_map_handler(t, c)
           \/ check_region_status(t) \/ handler_reject(t) \/ run_server_thread_end(t)
    PROVE  TypeOK'
<1>1. CASE \E c \in ClientIds : handler_begin(t, c)
  <2>1. PICK c \in ClientIds : handler_begin(t, c)
    BY <1>1
  <2>2. CASE Die("null region")
    BY <2>2, DieTypes DEF CrashReasons
  <2>3. CASE ~Die("null region")
    <3>. DEFINE new == [IdleFg EXCEPT !.pc = "status", !.client = c,
                          !.belongs = check_is_blong_to_region(region[t][c], client[c].hash)]
    <3>1. /\ fg' = [fg EXCEPT ![t] = new]
          /\ client' = [client EXCEPT ![c].pc = "served"]
          /\ UNCHANGED <<region, globalMap, globalId, queue, store, allocInode,
                         pinodeTable, logDb, split, view, crash>>
      BY <2>1, <2>3 DEF handler_begin
    <3>2. check_is_blong_to_region(region[t][c], client[c].hash) \in BOOLEAN
      BY DEF check_is_blong_to_region, InRange
    <3>3. new \in FgState /\ new.client = c
      BY <3>2, IdleTypes, Constants DEF FgState, FgPc
    <3>4. FgOK(fg')
      BY <3>1, <3>3, FgUpdate
    <3>5. client[c] \in ClientState /\ client \in [ClientIds -> ClientState]
      BY DEF TypeOK
    <3>6. [client[c] EXCEPT !.pc = "served"] \in ClientState
      BY <3>5 DEF ClientState, ClientPc
    <3>7. client' \in [ClientIds -> ClientState]
      BY <3>1, <3>5, <3>6
    <3>. QED
      BY <3>1, <3>4, <3>7 DEF TypeOK, FgOK
  <2>. QED
    BY <2>2, <2>3
<1>2. CASE \E c \in ClientIds : read_region_map_handler(t, c)
  <2>1. PICK c \in ClientIds : read_region_map_handler(t, c)
    BY <1>2
  <2>. DEFINE new == [client[c] EXCEPT !.pc = IF client[c].retried THEN "resend" ELSE "idle",
                                       !.session = 0]
  <2>2. client[c] \in ClientState /\ client \in [ClientIds -> ClientState]
    BY DEF TypeOK
  <2>3. new \in ClientState
    BY <2>2, Constants DEF ClientState, ClientPc
  <2>4. client' = [client EXCEPT ![c] = new]
    BY <2>1, <2>2 DEF read_region_map_handler
  <2>5. client' \in [ClientIds -> ClientState]
    BY <2>2, <2>3, <2>4
  <2>6. view' \in [ClientIds -> SUBSET ClientRegion]
    BY <2>1 DEF TypeOK, read_region_map_handler
  <2>. QED
    BY <2>1, <2>5, <2>6 DEF TypeOK, read_region_map_handler
<1>3. CASE check_region_status(t)
  <2>1. FgOK(fg')
    BY <1>3, GotoTypes DEF check_region_status, FgPc
  <2>. QED
    BY <1>3, <2>1 DEF TypeOK, FgOK, check_region_status
<1>4. CASE handler_reject(t)
  <2>1. FgOK(fg')
    BY <1>4, ReplyTypes DEF handler_reject, Responses, Refusal
  <2>. QED
    BY <1>4, <2>1 DEF TypeOK, FgOK, handler_reject
<1>5. CASE run_server_thread_end(t)
  <2>1. FgOK(fg')
    BY <1>5, GotoTypes DEF run_server_thread_end, FgPc
  <2>. QED
    BY <1>5, <2>1 DEF TypeOK, FgOK, run_server_thread_end
<1>. QED
  BY <1>1, <1>2, <1>3, <1>4, <1>5

\* A region replaced by a region.
LEMMA RegionUpdate ==
    ASSUME TypeOK, NEW t \in Threads, NEW id \in RegionIds
    PROVE  /\ region[t][id] \in Region
           /\ \A new \in Region :
                 [region EXCEPT ![t][id] = new] \in [Threads -> [RegionIds -> Region]]
  BY DEF TypeOK

\* A step that assigns one region at most.
LEMMA RegionStep ==
    ASSUME TypeOK, NEW t \in Threads, NEW id \in RegionIds, NEW new \in Region,
           region' = [region EXCEPT ![t][id] = new] \/ UNCHANGED region
    PROVE  region' \in [Threads -> [RegionIds -> Region]]
<1>1. CASE region' = [region EXCEPT ![t][id] = new]
  BY <1>1, RegionUpdate
<1>2. CASE UNCHANGED region
  BY <1>2 DEF TypeOK
<1>. QED
  BY <1>1, <1>2

\* kv_num stays a number.
LEMMA AddKvTypes ==
    ASSUME TypeOK, NEW t \in Threads, NEW n \in Int, AddKv(t, n),
           fg[t].client \in ClientIds
    PROVE  region' \in [Threads -> [RegionIds -> Region]]
<1>. DEFINE c == fg[t].client
            new == [region[t][c] EXCEPT !.kvNum = @ + n]
<1>1. c \in RegionIds
  BY Constants
<1>2. region[t][c] \in Region
  BY <1>1, RegionUpdate
<1>3. new \in Region
  BY <1>2 DEF Region
<1>4. region' = [region EXCEPT ![t][c] = new]
  BY <1>1, <1>2 DEF AddKv, TypeOK
<1>. QED
  BY <1>1, <1>3, <1>4, RegionUpdate

\* The stores.
Store == [files : SUBSET Entry, stats : SUBSET Inode]

\* What a call of the store leaves is a store again.
OutcomeOK(o) == o.db \in Store /\ o.inode \in Inode
LEMMA OutcomeTypes ==
    ASSUME NEW db \in Store, NEW p \in Inode, NEW n \in Names, NEW i \in Inode
    PROVE  /\ \A o \in InsertFileInode(db, p, n, i) : OutcomeOK(o)
           /\ \A o \in InsertStat(db, i) : OutcomeOK(o)
           /\ \A o \in DeleteFileInode(db, p, n, i) : OutcomeOK(o)
           /\ \A o \in DeleteStat(db, i) : OutcomeOK(o)
<1>1. \A o \in Failure(db, i) : OutcomeOK(o)
  BY DEF Failure, Outcome, OutcomeOK
<1>2. \A o \in InsertFileInode(db, p, n, i) : OutcomeOK(o)
  <2>1. [db EXCEPT !.files = @ \cup {[pinode |-> p, name |-> n, inode |-> i]}] \in Store
    BY DEF Store, Entry
  <2>. QED
    BY <1>1, <2>1 DEF InsertFileInode, Outcome, OutcomeOK
<1>3. \A o \in InsertStat(db, i) : OutcomeOK(o)
  <2>1. [db EXCEPT !.stats = @ \cup {i}] \in Store
    BY DEF Store
  <2>. QED
    BY <1>1, <2>1 DEF InsertStat, Outcome, OutcomeOK
<1>4. \A o \in DeleteFileInode(db, p, n, i) : OutcomeOK(o)
  <2>1. \A e \in Found(db, p, n) : [db EXCEPT !.files = @ \ {e}] \in Store /\ e.inode \in Inode
    BY DEF Store, Found, Entry
  <2>. QED
    BY <1>1, <2>1 DEF DeleteFileInode, Outcome, OutcomeOK
<1>5. \A o \in DeleteStat(db, i) : OutcomeOK(o)
  <2>1. [db EXCEPT !.stats = @ \ {i}] \in Store
    BY DEF Store
  <2>. QED
    BY <1>1, <2>1 DEF DeleteStat, Outcome, OutcomeOK
<1>. QED
  BY <1>2, <1>3, <1>4, <1>5

\* What the steps around a call of the store have in common.
StorePc == {"exec", "addstat", "delstat"}
Did(t, db, resp, inode, kv, pc) ==
    /\ store' = [store EXCEPT ![t] = db]
    /\ AddKv(t, kv)
    /\ fg' = [fg EXCEPT ![t].pc = pc, ![t].resp = resp, ![t].inode = inode]
    /\ UNCHANGED <<globalMap, globalId, queue, pinodeTable, logDb, split, client,
                   view, crash>>
Counted(t) ==
    \/ allocInode[t] <= MaxInode /\ allocInode' = [allocInode EXCEPT ![t] = @ + 1]
    \/ UNCHANGED allocInode
StoreStep(t) ==
    /\ fg[t].pc \in StorePc
    /\ Counted(t)
    /\ \E db \in Store, resp \in Responses, inode \in Inode, kv \in {-1, 0, 1},
          pc \in {"addstat", "delstat", "table", "cas", "log"} : Did(t, db, resp, inode, kv, pc)

\* The status of a call, as an answer.
LEMMA StoredDid ==
    ASSUME NEW t \in Threads, NEW o, OutcomeOK(o), NEW kv \in {-1, 0, 1},
           NEW pc \in {"addstat", "delstat", "table", "cas", "log"},
           Stored(t, o, kv, pc), fg[t].pc \in StorePc, Counted(t)
    PROVE  StoreStep(t)
<1>1. convert_status_to_resptype(o.status) \in Responses
  BY DEF convert_status_to_resptype, Responses
<1>2. Did(t, o.db, convert_status_to_resptype(o.status), o.inode, kv, pc)
  BY DEF Stored, Did
<1>. QED
  BY <1>1, <1>2 DEF StoreStep, OutcomeOK

\* What the types say of the request and the store of a busy thread.
LEMMA ReqTyped ==
    ASSUME TypeOK, NEW t \in Threads, fg[t].pc \notin {"idle", "stopped"}
    PROVE  /\ Req(t).pinode \in Inode /\ Req(t).name \in Names /\ Req(t).op \in Ops
           /\ fg[t].inode \in Inode /\ store[t] \in Store /\ store \in [Threads -> Store]
<1>1. fg[t].client \in ClientIds /\ fg[t] \in FgState
  BY FgTyped
<1>2. client[fg[t].client] \in ClientState
  BY <1>1 DEF TypeOK
<1>. QED
  BY <1>1, <1>2 DEF TypeOK, Req, ClientState, FgState, Store

\* The steps of the handlers that call the store to change it.
LEMMA StoreSteps ==
    ASSUME TypeOK, NEW t \in Threads,
           \/ fs_mknod_exec(t) \/ fs_mkdir_exec(t) \/ insert_stat(t)
           \/ fs_unlink_exec(t) \/ delete_stat(t) \/ (Exec(t, "rmdir") /\ RemoveDirectory(t))
    PROVE  StoreStep(t)
<1>1. fg[t].pc \in StorePc
  BY DEF fs_mknod_exec, fs_mkdir_exec, insert_stat, fs_unlink_exec, delete_stat, Exec, StorePc
<1>2. /\ Req(t).pinode \in Inode /\ Req(t).name \in Names
      /\ fg[t].inode \in Inode /\ store[t] \in Store
  BY <1>1, ReqTyped DEF StorePc
<1>3. ASSUME NEW isDir \in BOOLEAN, CreateEntry(t, isDir) PROVE StoreStep(t)
  <2>. DEFINE i == [thr |-> t, num |-> allocInode[t], dir |-> isDir]
  <2>1. allocInode[t] \in 1 .. MaxInode + 1 /\ allocInode[t] <= MaxInode /\ Counted(t)
    BY <1>3 DEF TypeOK, CreateEntry, Counted
  <2>2. i \in Inode
    BY <2>1, Constants DEF Inode
  <2>3. PICK o \in InsertFileInode(store[t], Req(t).pinode, Req(t).name, i) :
            Stored(t, o, 0, IF o.status = "OK" THEN "addstat" ELSE "cas")
    BY <1>3 DEF CreateEntry
  <2>. HIDE DEF i
  <2>4. OutcomeOK(o)
    BY <1>2, <2>2, <2>3, OutcomeTypes
  <2>. QED
    BY <1>1, <2>1, <2>3, <2>4, StoredDid
<1>4. CASE insert_stat(t)
  <2>1. PICK o \in InsertStat(store[t], fg[t].inode) : Stored(t, o, 1, AfterStat(t))
    BY <1>4 DEF insert_stat
  <2>2. OutcomeOK(o)
    BY <1>2, <2>1, OutcomeTypes
  <2>3. AfterStat(t) \in {"table", "cas"} /\ Counted(t)
    BY <1>4 DEF AfterStat, insert_stat, Counted
  <2>. QED
    BY <1>1, <2>1, <2>2, <2>3, StoredDid
<1>5. CASE fs_unlink_exec(t)
  <2>1. PICK o \in DeleteFileInode(store[t], Req(t).pinode, Req(t).name, fg[t].inode) :
            Stored(t, o, 0, IF o.status = "OK" THEN "delstat" ELSE "log")
    BY <1>5 DEF fs_unlink_exec
  <2>2. OutcomeOK(o) /\ Counted(t)
    BY <1>2, <1>5, <2>1, OutcomeTypes DEF fs_unlink_exec, Counted
  <2>. QED
    BY <1>1, <2>1, <2>2, StoredDid
<1>6. CASE Exec(t, "rmdir") /\ RemoveDirectory(t)
  <2>1. PICK o \in DeleteFileInode(store[t], Req(t).pinode, Req(t).name, fg[t].inode) :
            IF o.status = "OK" THEN Stored(t, o, 0, "delstat") ELSE Stored(t, o, -1, "log")
    BY <1>6 DEF RemoveDirectory
  <2>2. OutcomeOK(o) /\ Counted(t)
    BY <1>2, <1>6, <2>1, OutcomeTypes DEF RemoveDirectory, Counted
  <2>. QED
    BY <1>1, <2>1, <2>2, StoredDid
<1>7. CASE delete_stat(t)
  <2>1. PICK o \in DeleteStat(store[t], fg[t].inode) : Stored(t, o, -1, "log")
    BY <1>7 DEF delete_stat
  <2>2. OutcomeOK(o) /\ Counted(t)
    BY <1>2, <1>7, <2>1, OutcomeTypes DEF delete_stat, Counted
  <2>. QED
    BY <1>1, <2>1, <2>2, StoredDid
<1>. QED
  BY <1>3, <1>4, <1>5, <1>6, <1>7 DEF fs_mknod_exec, fs_mkdir_exec

\* rmdir calls the store to change it or answers at once, and the lookups
\* answer at once.
LEMMA LookupSteps ==
    ASSUME TypeOK, NEW t \in Threads,
           \/ fs_rmdir_exec(t)
           \/ fs_open_exec(t) \/ fs_stat_exec(t) \/ fs_getinode_exec(t) \/ fs_readdir_exec(t)
    PROVE  \/ StoreStep(t)
           \/ fg[t].pc = "exec" /\ \E ok \in BOOLEAN : Lookup(t, ok)
<1>1. CASE fs_rmdir_exec(t)
  <2>1. (Exec(t, "rmdir") /\ RemoveDirectory(t)) \/ \E ok \in BOOLEAN : Lookup(t, ok)
    BY <1>1 DEF fs_rmdir_exec, Tried
  <2>. QED
    BY <1>1, <2>1, StoreSteps DEF fs_rmdir_exec, Exec
<1>2. CASE fs_open_exec(t) \/ fs_stat_exec(t) \/ fs_getinode_exec(t) \/ fs_readdir_exec(t)
  <2>1. HasStat(t) \in BOOLEAN
    BY DEF HasStat
  <2>. QED
    BY <1>2, <2>1 DEF fs_open_exec, fs_stat_exec, fs_getinode_exec, fs_readdir_exec, Exec, Tried
<1>. QED
  BY <1>1, <1>2

\* The execution of an operation on the thread's own store.
LEMMA ExecTypes ==
    ASSUME TypeOK, NEW t \in Threads,
           \/ fs_mknod_exec(t) \/ fs_mkdir_exec(t) \/ insert_stat(t)
           \/ fs_unlink_exec(t) \/ fs_rmdir_exec(t) \/ delete_stat(t)
           \/ fs_open_exec(t) \/ fs_stat_exec(t) \/ fs_getinode_exec(t) \/ fs_readdir_exec(t)
    PROVE  TypeOK'
<1>1. CASE StoreStep(t)
  <2>1. fg[t].client \in ClientIds /\ fg[t] \in FgState /\ fg \in [Threads -> FgState]
    BY <1>1, FgTyped DEF StoreStep, StorePc
  <2>2. PICK db \in Store, resp \in Responses, inode \in Inode, kv \in {-1, 0, 1},
             pc \in {"addstat", "delstat", "table", "cas", "log"} :
             Did(t, db, resp, inode, kv, pc)
    BY <1>1 DEF StoreStep
  <2>. DEFINE new == [fg[t] EXCEPT !.pc = pc, !.resp = resp, !.inode = inode]
  <2>3. store' \in [Threads -> [files : SUBSET Entry, stats : SUBSET Inode]]
    BY <2>2 DEF Did, TypeOK, Store
  <2>4. allocInode' \in [Threads -> 1 .. MaxInode + 1]
    <3>1. allocInode \in [Threads -> 1 .. MaxInode + 1] /\ Counted(t)
      BY <1>1 DEF StoreStep, TypeOK
    <3>2. CASE UNCHANGED allocInode
      BY <3>1, <3>2
    <3>3. CASE allocInode[t] <= MaxInode /\ allocInode' = [allocInode EXCEPT ![t] = @ + 1]
      <4>1. allocInode[t] + 1 \in 1 .. MaxInode + 1
        BY <3>1, <3>3, Constants
      <4>. QED
        BY <3>1, <3>3, <4>1
    <3>. QED
      BY <3>1, <3>2, <3>3 DEF Counted
  <2>5. region' \in [Threads -> [RegionIds -> Region]]
    BY <2>1, <2>2, AddKvTypes DEF Did
  <2>6. new \in FgState /\ new.client = fg[t].client
    BY <2>1 DEF FgState, FgPc
  <2>7. fg' = [fg EXCEPT ![t] = new]
    BY <2>1, <2>2 DEF Did
  <2>8. FgOK(fg')
    BY <2>1, <2>6, <2>7, FgUpdate
  <2>. QED
    BY <2>2, <2>3, <2>4, <2>5, <2>8 DEF TypeOK, FgOK, Did
<1>2. CASE fg[t].pc = "exec" /\ \E ok \in BOOLEAN : Lookup(t, ok)
  <2>1. FgOK(fg')
    BY <1>2, ReplyTypes DEF Lookup, Responses
  <2>. QED
    BY <1>2, <2>1 DEF TypeOK, FgOK, Lookup
<1>. QED
  BY <1>1, <1>2, StoreSteps, LookupSteps

\* The rest of a handler: the directory table, the start of a split, the log
\* and the answer.
LEMMA HandlerTailTypes ==
    ASSUME TypeOK, NEW t \in Threads,
           \/ fs_mkdir_table(t) \/ start_split(t) \/ check_region_and_split(t)
           \/ log_test(t) \/ log_op_id(t) \/ log_op_put(t) \/ log_op_fail(t)
           \/ handler_reply(t)
    PROVE  TypeOK'
<1>. DEFINE c == fg[t].client
<1>1. fg[t].pc \in {"table", "cas", "split", "log", "logId", "put", "reply"}
  BY DEF fs_mkdir_table, start_split, check_region_and_split, log_test, log_op_id, log_op_put,
         log_op_fail, handler_reply
<1>2. c \in ClientIds /\ fg[t] \in FgState /\ fg \in [Threads -> FgState]
  BY <1>1, FgTyped
<1>3. c \in RegionIds /\ region[t][c] \in Region
  BY <1>2, Constants, RegionUpdate
<1>4. CASE fs_mkdir_table(t)
  <2>1. FgOK(fg')
    BY <1>1, <1>4, GotoTypes DEF fs_mkdir_table, FgPc
  <2>2. fg[t].inode \in Inode
    BY <1>2 DEF FgState
  <2>3. pinodeTable' \in [Threads -> SUBSET Inode]
    <3>1. pinodeTable \in [Threads -> SUBSET Inode]
      BY DEF TypeOK
    <3>2. \/ pinodeTable' = [pinodeTable EXCEPT ![t] = @ \cup {fg[t].inode}]
          \/ UNCHANGED pinodeTable
      BY <1>4 DEF fs_mkdir_table
    <3>. QED
      BY <2>2, <3>1, <3>2
  <2>. QED
    BY <1>4, <2>1, <2>3 DEF TypeOK, FgOK, fs_mkdir_table
<1>5. CASE start_split(t)
  <2>1. FgOK(fg')
    BY <1>1, <1>5, GotoTypes DEF start_split, FgPc
  <2>2. [region[t][c] EXCEPT !.status = "IsSplit"] \in Region
    BY <1>3 DEF Region, Status
  <2>3. region' \in [Threads -> [RegionIds -> Region]]
    <3>1. region \in [Threads -> [RegionIds -> Region]]
      BY DEF TypeOK
    <3>2. \/ region' = [region EXCEPT ![t][c] = [region[t][c] EXCEPT !.status = "IsSplit"]]
          \/ UNCHANGED region
      BY <1>3, <1>5, <3>1 DEF start_split
    <3>. QED
      BY <1>3, <2>2, <3>2, RegionStep
  <2>. QED
    BY <1>5, <2>1, <2>3 DEF TypeOK, FgOK, start_split
<1>6. CASE check_region_and_split(t)
  <2>. DEFINE id == globalId
              nr == NewRegion(NewRange(MyRegion(t).end), c, "Normal")
  <2>1. id \in RegionIds /\ globalId' \in 0 .. MaxRegionId + 1
    BY <1>6, Constants DEF check_region_and_split, TypeOK, RegionIds
  <2>2. FgOK(fg')
    BY <1>1, <1>2, <1>6, GotoTypes, FgTyped DEF check_region_and_split, FgPc, TypeOK, FgOK
  <2>3. MyRegion(t).end \in Nat
    BY <1>3 DEF MyRegion, Region
  <2>4. nr \in Region
    BY <1>3, <2>3, RangeTypes, NewRegionType DEF Status
  <2>5. region' \in [Threads -> [RegionIds -> Region]]
    <3>1. region \in [Threads -> [RegionIds -> Region]]
      BY DEF TypeOK
    <3>. DEFINE new == IF Present(t, id) THEN region[t][id] ELSE nr
    <3>3. new \in Region
      BY <2>1, <2>4, RegionUpdate
    <3>4. region' = [region EXCEPT ![t][id] = new] \/ UNCHANGED region
      BY <1>6, <2>1, <3>1 DEF check_region_and_split
    <3>. HIDE DEF new
    <3>. QED
      BY <2>1, <3>3, <3>4, RegionStep
  <2>6. queue' \in Seq(Threads \X RegionIds)
    <3>1. queue \in Seq(Threads \X RegionIds)
      BY DEF TypeOK
    <3>2. queue' = Append(queue, <<t, id>>) \/ UNCHANGED queue
      BY <1>6 DEF check_region_and_split
    <3>3. <<t, id>> \in Threads \X RegionIds
      BY <2>1
    <3>. HIDE DEF id
    <3>4. Append(queue, <<t, id>>) \in Seq(Threads \X RegionIds)
      BY ONLY <3>1, <3>3
    <3>. QED
      BY ONLY <3>1, <3>2, <3>4
  <2>. QED
    BY <1>6, <2>1, <2>2, <2>5, <2>6 DEF TypeOK, FgOK, check_region_and_split
<1>7. CASE log_op_id(t)
  <2>. DEFINE new == [fg[t] EXCEPT !.pc = "put", !.logAt = MyRegion(t).logId]
              newRegion == [region[t][c] EXCEPT !.logId = @ + 1]
  <2>1. new \in FgState /\ new.client = c
    BY <1>2, <1>3 DEF FgState, FgPc, MyRegion, Region
  <2>2. fg' = [fg EXCEPT ![t] = new]
    BY <1>2, <1>7 DEF log_op_id
  <2>3. FgOK(fg')
    BY <1>2, <2>1, <2>2, FgUpdate
  <2>4. newRegion \in Region
    BY <1>3 DEF Region
  <2>5. region' = [region EXCEPT ![t][c] = newRegion]
    BY <1>3, <1>7 DEF log_op_id, TypeOK
  <2>6. region' \in [Threads -> [RegionIds -> Region]]
    BY <1>3, <2>4, <2>5, RegionUpdate
  <2>. QED
    BY <1>7, <2>3, <2>6 DEF TypeOK, FgOK, log_op_id
<1>10. CASE log_test(t)
  <2>1. FgOK(fg')
    BY <1>1, <1>10, GotoTypes DEF log_test, FgPc
  <2>. QED
    BY <1>10, <2>1 DEF TypeOK, FgOK, log_test
<1>11. CASE log_op_fail(t)
  BY <1>11, DieTypes DEF log_op_fail, CrashReasons
<1>8. CASE log_op_put(t)
  <2>. DEFINE rec == [del |-> Req(t).op \in {"unlink", "rmdir"},
                      pinode |-> Req(t).pinode, name |-> Req(t).name]
  <2>1. FgOK(fg')
    BY <1>1, <1>8, GotoTypes DEF log_op_put, FgPc
  <2>2. rec \in LogRecord
    <3>1. client[c] \in ClientState
      BY <1>2 DEF TypeOK
    <3>. QED
      BY <3>1 DEF Req, LogRecord, ClientState
  <2>3. logDb[t] \in Seq(LogRecord) /\ fg[t].logAt \in Nat
    BY <1>2 DEF TypeOK, FgState
  <2>4. /\ WriteAt(logDb[t], fg[t].logAt, rec) \in Seq(LogRecord)
        /\ Len(WriteAt(logDb[t], fg[t].logAt, rec)) >= Len(logDb[t])
    <3>1. CASE fg[t].logAt < Len(logDb[t])
      BY <3>1, <2>2, <2>3, ExceptSeq DEF WriteAt
    <3>2. CASE ~(fg[t].logAt < Len(logDb[t]))
      BY <3>2, <2>2, <2>3, AppendProperties DEF WriteAt
    <3>. QED
      BY <3>1, <3>2
  <2>5. logDb' = [logDb EXCEPT ![t] = WriteAt(logDb[t], fg[t].logAt, rec)]
    BY <1>8 DEF log_op_put, TypeOK
  <2>6. logDb' \in [Threads -> Seq(LogRecord)]
    BY <2>4, <2>5 DEF TypeOK
  <2>7. split.pc # "poll" => split.next + Len(split.msg) <= Len(logDb'[split.ctx])
    <3>. SUFFICES ASSUME split.pc # "poll"
                  PROVE  split.next + Len(split.msg) <= Len(logDb'[split.ctx])
      OBVIOUS
    <3>1. /\ split.ctx \in Threads /\ split.next + Len(split.msg) <= Len(logDb[split.ctx])
          /\ logDb \in [Threads -> Seq(LogRecord)]
          /\ split.next \in Nat /\ split.msg \in Seq(LogRecord)
      BY DEF TypeOK, SplitState
    <3>2. Len(logDb'[split.ctx]) >= Len(logDb[split.ctx])
      BY <2>4, <2>5, <3>1
    <3>. QED
      BY <2>6, <3>1, <3>2
  <2>. QED
    BY <1>8, <2>1, <2>6, <2>7 DEF TypeOK, FgOK, log_op_put
<1>9. CASE handler_reply(t)
  <2>1. FgOK(fg')
    BY <1>9, FgUpdate, IdleTypes DEF handler_reply, IdleFg
  <2>2. PICK resp \in Responses :
            client' = [client EXCEPT ![c].pc = "answered", ![c].resp = resp]
    BY <1>2, <1>9 DEF handler_reply, FgState, Responses
  <2>3. client[c] \in ClientState /\ client \in [ClientIds -> ClientState]
    BY <1>2 DEF TypeOK
  <2>4. [client[c] EXCEPT !.pc = "answered", !.resp = resp] \in ClientState
    BY <2>3 DEF ClientState, ClientPc
  <2>5. client' = [client EXCEPT ![c] = [client[c] EXCEPT !.pc = "answered", !.resp = resp]]
    BY <1>2, <2>2, <2>3
  <2>6. client' \in [ClientIds -> ClientState]
    BY <1>2, <2>3, <2>4, <2>5
  <2>. QED
    BY <1>9, <2>1, <2>6 DEF TypeOK, FgOK, handler_reply
<1>. QED
  BY <1>4, <1>5, <1>6, <1>7, <1>8, <1>9, <1>10, <1>11

\* What the split thread may become.
SplitOK(s) ==
    /\ s \in SplitState
    /\ s.pc = "poll" => s = IdleSplit
    /\ s.pc # "poll" => s.ctx \in Threads /\ s.nr \in RegionIds
    /\ s.pc \notin {"poll", "create"} => s.left \in RegionIds
    /\ s.pc # "poll" => s.next + Len(s.msg) <= Len(logDb[s.ctx])

\* A split thread that only moves on keeps what it knows.
LEMMA SplitGotoTypes ==
    ASSUME TypeOK, NEW pc \in SplitPc \ {"poll"}, SplitGoto(pc), split.pc \notin {"poll", "create"}
    PROVE  SplitOK(split')
<1>1. split \in SplitState /\ SplitOK(split)
  BY DEF TypeOK, SplitOK
<1>. DEFINE new == [split EXCEPT !.pc = pc]
<1>2. /\ new \in SplitState /\ new.ctx = split.ctx /\ new.nr = split.nr
      /\ new.left = split.left /\ new.next = split.next /\ new.msg = split.msg
      /\ new.pc # "poll"
  BY <1>1 DEF SplitState, SplitPc
<1>3. split' = new
  BY DEF SplitGoto
<1>. HIDE DEF new
<1>. QED
  BY <1>1, <1>2, <1>3 DEF SplitOK

\* The steps of the split thread up to the log transfer.
LEMMA SplitHeadTypes ==
    ASSUME TypeOK,
           \/ \E q \in Threads \X RegionIds : split_region_thread(q)
           \/ rpc_create_region \/ rpc_create_region_cb
           \/ \E d \in split.todo : rpc_send_region_dir(d)
           \/ rpc_send_region_end
    PROVE  TypeOK'
<1>1. split \in SplitState /\ SplitOK(split)
  BY DEF TypeOK, SplitOK
<1>2. CASE \E q \in Threads \X RegionIds : split_region_thread(q)
  <2>1. PICK q \in Threads \X RegionIds : split_region_thread(q)
    BY <1>2
  <2>2. CASE split.ctx = None
    <3>. DEFINE new == [split EXCEPT !.pc = "create", !.ctx = q[1], !.nr = q[2]]
    <3>1. q[1] \in Threads /\ q[2] \in RegionIds
      OBVIOUS
    <3>2. /\ split' = new /\ queue' = Tail(queue) /\ queue # <<>> /\ split.pc = "poll"
          /\ UNCHANGED <<region, globalMap, globalId, store, allocInode,
                         pinodeTable, logDb, fg, client, view, crash>>
      BY <2>1, <2>2 DEF split_region_thread
    <3>3. queue' \in Seq(Threads \X RegionIds)
      BY <3>2, HeadTailProperties DEF TypeOK
    <3>4. /\ new \in SplitState /\ new.pc = "create" /\ new.ctx = q[1] /\ new.nr = q[2]
          /\ new.next = 0 /\ new.msg = <<>>
      <4>1. split.next = 0 /\ split.msg = <<>>
        BY <1>1, <3>2 DEF SplitOK, IdleSplit
      <4>. QED
        BY <1>1, <3>1, <4>1 DEF SplitState, SplitPc
    <3>5. logDb[q[1]] \in Seq(LogRecord)
      BY <3>1 DEF TypeOK
    <3>6. SplitOK(new)
      BY <3>1, <3>4, <3>5 DEF SplitOK
    <3>. HIDE DEF new
    <3>. QED
      BY <3>2, <3>3, <3>6 DEF TypeOK, SplitOK
  <2>3. CASE split.ctx # None
    BY <2>1, <2>3, DieTypes DEF split_region_thread, CrashReasons
  <2>. QED
    BY <2>2, <2>3
<1>3. CASE rpc_create_region
  <2>1. CASE ~Present(split.ctx, split.nr)
    BY <1>3, <2>1, DieTypes DEF rpc_create_region, CrashReasons
  <2>2. CASE Present(split.ctx, split.nr)
    <3>. DEFINE new == [split EXCEPT !.pc = "createReq", !.left = Nr.left]
    <3>1. /\ split' = new /\ split.pc = "create"
          /\ UNCHANGED <<region, globalMap, globalId, queue, store,
                         allocInode, pinodeTable, logDb, fg, client, view, crash>>
      BY <1>3, <2>2 DEF rpc_create_region
    <3>2. Nr \in Region
      BY <1>1, <3>1, RegionUpdate DEF SplitOK, Nr
    <3>3. Nr.left \in RegionIds
      BY <3>2 DEF Region
    <3>4. /\ new \in SplitState /\ new.pc = "createReq" /\ new.left = Nr.left
          /\ new.ctx = split.ctx /\ new.nr = split.nr
          /\ new.next = split.next /\ new.msg = split.msg
      BY <1>1, <3>3 DEF SplitState, SplitPc
    <3>. HIDE DEF new
    <3>5. SplitOK(new)
      BY <1>1, <3>1, <3>3, <3>4 DEF SplitOK
    <3>. QED
      BY <3>1, <3>5 DEF TypeOK, SplitOK
  <2>. QED
    BY <2>1, <2>2
<1>4. CASE rpc_create_region_cb
  <2>1. CASE ~Present(split.ctx, split.nr)
    BY <1>4, <2>1, DieTypes DEF rpc_create_region_cb, CrashReasons
  <2>2. CASE Present(split.ctx, split.nr)
    <3>. DEFINE todo == {d \in pinodeTable[split.ctx] : InRange(Hash(d), Nr)}
                new == [split EXCEPT !.pc = "scan", !.todo = todo]
    <3>1. /\ split' = new /\ split.pc = "createResp"
          /\ UNCHANGED <<region, globalMap, globalId, queue, store,
                         allocInode, pinodeTable, logDb, fg, client, view, crash>>
      BY <1>4, <2>2 DEF rpc_create_region_cb
    <3>2. todo \in SUBSET Inode
      BY <1>1, <3>1 DEF SplitOK, TypeOK
    <3>. HIDE DEF todo
    <3>3. /\ new \in SplitState /\ new.pc = "scan" /\ new.left = split.left
          /\ new.ctx = split.ctx /\ new.nr = split.nr
          /\ new.next = split.next /\ new.msg = split.msg
      BY <1>1, <3>2 DEF SplitState, SplitPc
    <3>. HIDE DEF new
    <3>4. SplitOK(new)
      BY <1>1, <3>1, <3>3 DEF SplitOK
    <3>. QED
      BY <3>1, <3>4 DEF TypeOK, SplitOK
  <2>. QED
    BY <2>1, <2>2
<1>5. CASE \E d \in split.todo : rpc_send_region_dir(d)
  <2>1. PICK d \in split.todo : rpc_send_region_dir(d)
    BY <1>5
  <2>2. CASE ReadDir(store[split.ctx], d) # {}
    BY <2>1, <2>2, DieTypes DEF rpc_send_region_dir, CrashReasons
  <2>3. CASE ReadDir(store[split.ctx], d) = {}
    <3>. DEFINE new == [split EXCEPT !.todo = @ \ {d}]
    <3>1. /\ split' = new /\ split.pc = "scan"
          /\ UNCHANGED <<region, globalMap, globalId, queue, store,
                         allocInode, pinodeTable, logDb, fg, client, view, crash>>
      BY <2>1, <2>3 DEF rpc_send_region_dir
    <3>2. /\ new \in SplitState /\ new.pc = "scan" /\ new.left = split.left
          /\ new.ctx = split.ctx /\ new.nr = split.nr
          /\ new.next = split.next /\ new.msg = split.msg
      BY <1>1, <3>1 DEF SplitState, SplitPc
    <3>. HIDE DEF new
    <3>3. SplitOK(new)
      BY <1>1, <3>1, <3>2 DEF SplitOK
    <3>. QED
      BY <3>1, <3>3 DEF TypeOK, SplitOK
  <2>. QED
    BY <2>2, <2>3
<1>6. CASE rpc_send_region_end
  <2>. DEFINE new == [split EXCEPT !.pc = "logRead", !.next = 0]
  <2>1. /\ split' = new /\ split.pc = "scan"
        /\ UNCHANGED <<region, globalMap, globalId, queue, store,
                       allocInode, pinodeTable, logDb, fg, client, view, crash>>
    BY <1>6 DEF rpc_send_region_end
  <2>2. /\ new \in SplitState /\ new.pc = "logRead" /\ new.left = split.left
        /\ new.ctx = split.ctx /\ new.nr = split.nr
        /\ new.next = 0 /\ new.msg = split.msg /\ split.next \in Nat
        /\ split.msg \in Seq(LogRecord)
    BY <1>1, <2>1 DEF SplitState, SplitPc
  <2>3. logDb[split.ctx] \in Seq(LogRecord)
    BY <1>1, <2>1 DEF SplitOK, TypeOK
  <2>. HIDE DEF new
  <2>4. SplitOK(new)
    BY <1>1, <2>1, <2>2, <2>3, LenProperties DEF SplitOK
  <2>. QED
    BY <2>1, <2>4 DEF TypeOK, SplitOK
<1>. QED
  BY <1>2, <1>3, <1>4, <1>5, <1>6

\* A message of at most k records, read at cursor n of a log of len records.
LEMMA CursorStep ==
    ASSUME NEW S, NEW log \in Seq(S), NEW n \in Nat, NEW k \in Nat, n <= Len(log),
           NEW last, last = IF Len(log) < n + k THEN Len(log) ELSE n + k
    PROVE  /\ SubSeq(log, n + 1, last) \in Seq(S)
           /\ n + Len(SubSeq(log, n + 1, last)) <= Len(log)
<1>1. PICK len \in Nat : len = Len(log) /\ \A i \in 1 .. len : log[i] \in S
  BY LenProperties, ElementOfSeq
<1>2. last \in Nat /\ n <= last /\ last <= len
  BY <1>1
<1>3. \A i \in n + 1 .. last : log[i] \in S
  BY <1>1, <1>2
<1>4. /\ SubSeq(log, n + 1, last) \in Seq(S)
      /\ Len(SubSeq(log, n + 1, last)) = IF n + 1 <= last THEN last - (n + 1) + 1 ELSE 0
  BY <1>2, <1>3, SubSeqProperties
<1>. QED
  BY <1>1, <1>2, <1>4

\* The log transfer.
LEMMA SplitTailTypes ==
    ASSUME TypeOK,
           \/ read_log \/ count_log_left \/ shrink_left \/ publish_halves
           \/ rpc_send_region_log_resp \/ finish_split
    PROVE  TypeOK'
<1>1. /\ split \in SplitState /\ SplitOK(split)
      /\ split.pc \in {"logRead", "logLeft", "shrink", "publish", "logResp", "reset"}
  BY DEF TypeOK, SplitOK, read_log, count_log_left, shrink_left, publish_halves,
         rpc_send_region_log_resp, finish_split
<1>2. /\ split.ctx \in Threads /\ split.nr \in RegionIds /\ split.left \in RegionIds
      /\ split.next \in Nat /\ split.msg \in Seq(LogRecord)
      /\ split.next + Len(split.msg) <= Len(logDb[split.ctx])
  BY <1>1 DEF SplitOK, SplitState
<1>3. Nr \in Region /\ Left \in Region
  BY <1>2, RegionUpdate DEF Nr, Left
<1>4. logDb[split.ctx] \in Seq(LogRecord) /\ region \in [Threads -> [RegionIds -> Region]]
  BY <1>2 DEF TypeOK
<1>5. CASE read_log
  <2>1. CASE ~Present(split.ctx, split.left)
    BY <1>5, <2>1, DieTypes DEF read_log, CrashReasons
  <2>2. CASE Present(split.ctx, split.left)
    <3>. DEFINE log == logDb[split.ctx]
                last == IF Len(log) < split.next + MsgLogs THEN Len(log)
                        ELSE split.next + MsgLogs
                msg == SubSeq(log, split.next + 1, last)
                new == [split EXCEPT !.pc = "logLeft", !.msg = msg]
    <3>1. /\ split' = new
          /\ UNCHANGED <<region, globalMap, globalId, queue, store,
                         allocInode, pinodeTable, logDb, fg, client, view, crash>>
      BY <1>5, <2>2 DEF read_log
    <3>2. Len(log) \in Nat /\ Len(split.msg) \in Nat
      BY <1>2, <1>4, LenProperties
    <3>3. split.next <= Len(log)
      BY <1>2, <3>2
    <3>4. msg \in Seq(LogRecord) /\ split.next + Len(msg) <= Len(log)
      BY <1>2, <1>4, <3>3, Constants, CursorStep
    <3>. HIDE DEF msg, last
    <3>5. /\ new \in SplitState /\ new.pc = "logLeft" /\ new.left = split.left
          /\ new.ctx = split.ctx /\ new.nr = split.nr
          /\ new.next = split.next /\ new.msg = msg
      BY <1>1, <3>4 DEF SplitState, SplitPc
    <3>. HIDE DEF new
    <3>6. SplitOK(new)
      BY <1>2, <3>4, <3>5 DEF SplitOK
    <3>. QED
      BY <3>1, <3>6 DEF TypeOK, SplitOK
  <2>. QED
    BY <2>1, <2>2
<1>6. CASE count_log_left
  <2>. DEFINE status == LogStatus(Left.logId - (split.next + Len(split.msg)))
              pc == IF status # "FarToDone" /\ Left.status # "SplitAlmostDone"
                    THEN "shrink" ELSE "logReq"
              new == [split EXCEPT !.logStatus = status, !.pc = pc]
  <2>1. /\ split' = new
        /\ UNCHANGED <<region, globalMap, globalId, queue, store, allocInode,
                       pinodeTable, logDb, fg, client, view, crash>>
    BY <1>6 DEF count_log_left
  <2>2. status \in {"FarToDone", "AlmostDone", "Done"} /\ pc \in {"shrink", "logReq"}
    BY DEF LogStatus
  <2>. HIDE DEF status, pc
  <2>3. /\ new \in SplitState /\ new.pc \in {"shrink", "logReq"} /\ new.left = split.left
        /\ new.ctx = split.ctx /\ new.nr = split.nr
        /\ new.next = split.next /\ new.msg = split.msg
    BY <1>1, <2>2 DEF SplitState, SplitPc
  <2>. HIDE DEF new
  <2>4. SplitOK(new)
    BY <1>2, <2>3 DEF SplitOK
  <2>. QED
    BY <2>1, <2>4 DEF TypeOK, SplitOK
<1>7. CASE shrink_left
  <2>. DEFINE end == ShrunkEnd(Left.end)
              new == [Left EXCEPT !.end = end]
  <2>1. CASE Die("not in global map") \/ Die("range too small")
    BY <2>1, DieTypes DEF CrashReasons
  <2>2. CASE ~(Die("not in global map") \/ Die("range too small"))
    <3>1. /\ globalMap' = {r \in globalMap : r.id # split.left}
          /\ region' = [region EXCEPT ![split.ctx][split.left].end = end]
          /\ SplitGoto("publish")
          /\ UNCHANGED <<globalId, queue, store, allocInode, pinodeTable,
                         logDb, fg, client, view, crash>>
      BY <1>7, <2>2 DEF shrink_left
    <3>2. new \in Region
      <4>1. Left.end \in Nat
        BY <1>3 DEF Region
      <4>2. end \in Nat
        BY <4>1, RangeTypes
      <4>. HIDE DEF end
      <4>. QED
        BY <1>3, <4>2 DEF Region
    <3>3. region' = [region EXCEPT ![split.ctx][split.left] = new]
      BY <1>2, <1>4, <3>1 DEF Left
    <3>. HIDE DEF new
    <3>4. region' \in [Threads -> [RegionIds -> Region]]
      BY <1>2, <3>2, <3>3, RegionStep
    <3>5. SplitOK(split')
      BY <1>1, <3>1, SplitGotoTypes DEF SplitPc
    <3>. QED
      BY <3>1, <3>4, <3>5 DEF TypeOK, SplitOK
  <2>. QED
    BY <2>1, <2>2
<1>8. CASE publish_halves
  <2>. DEFINE new == [Left EXCEPT !.status = "SplitAlmostDone"]
  <2>1. SplitOK(split')
    BY <1>1, <1>8, SplitGotoTypes DEF publish_halves, SplitPc
  <2>2. new \in Region
    BY <1>3 DEF Region, Status
  <2>3. region' = [region EXCEPT ![split.ctx][split.left] = new]
    BY <1>2, <1>4, <1>8 DEF publish_halves, Left
  <2>. HIDE DEF new
  <2>4. region' \in [Threads -> [RegionIds -> Region]]
    BY <1>2, <2>2, <2>3, RegionStep
  <2>5. MapEntry(split.nr, Nr) \in ClientRegion /\ MapEntry(split.left, Left) \in ClientRegion
    BY <1>2, <1>3 DEF MapEntry, ClientRegion, Region
  <2>6. globalMap' \in SUBSET ClientRegion
    BY <1>8, <2>5 DEF publish_halves, TypeOK
  <2>. QED
    BY <1>8, <2>1, <2>4, <2>6 DEF TypeOK, SplitOK, publish_halves
<1>9. CASE rpc_send_region_log_resp
  <2>1. CASE split.logStatus = "Done"
    <3>1. SplitOK(split')
      BY <1>1, <1>9, <2>1, SplitGotoTypes DEF rpc_send_region_log_resp, SplitPc
    <3>2. region' = [region EXCEPT ![split.ctx][split.nr] = NoRegion,
                                   ![split.ctx][split.left].logId = 0]
      BY <1>9, <2>1 DEF rpc_send_region_log_resp
    <3>. DEFINE mid == [region EXCEPT ![split.ctx][split.nr] = NoRegion]
                new == [mid[split.ctx][split.left] EXCEPT !.logId = 0]
    <3>3. mid \in [Threads -> [RegionIds -> Region]]
      BY <1>2, IdleTypes, RegionUpdate
    <3>4. region' = [mid EXCEPT ![split.ctx][split.left].logId = 0]
      BY <3>2
    <3>. HIDE DEF mid
    <3>5. new \in Region
      <4>1. mid[split.ctx][split.left] \in Region
        BY <1>2, <3>3
      <4>. QED
        BY <4>1 DEF Region
    <3>6. region' = [mid EXCEPT ![split.ctx][split.left] = new]
      BY <1>2, <3>3, <3>4
    <3>. HIDE DEF new
    <3>7. region' \in [Threads -> [RegionIds -> Region]]
      BY <1>2, <3>3, <3>5, <3>6
    <3>. QED
      BY <1>9, <3>1, <3>7 DEF TypeOK, SplitOK, rpc_send_region_log_resp
  <2>2. CASE split.logStatus # "Done"
    <3>. DEFINE next == split.next + Len(split.msg)
                new == [split EXCEPT !.pc = "logRead", !.msg = <<>>, !.next = next]
    <3>1. split' = new /\ UNCHANGED region
      BY <1>1, <1>9, <2>2 DEF rpc_send_region_log_resp, SplitState
    <3>2. next \in Nat /\ next <= Len(logDb[split.ctx]) /\ <<>> \in Seq(LogRecord)
      BY <1>2, LenProperties
    <3>. HIDE DEF next
    <3>3. /\ new \in SplitState /\ new.pc = "logRead" /\ new.left = split.left
          /\ new.ctx = split.ctx /\ new.nr = split.nr
          /\ new.next = next /\ new.msg = <<>>
      BY <1>1, <3>2 DEF SplitState, SplitPc
    <3>. HIDE DEF new
    <3>4. SplitOK(new)
      BY <1>2, <3>2, <3>3 DEF SplitOK
    <3>. QED
      BY <1>9, <3>1, <3>4 DEF TypeOK, SplitOK, rpc_send_region_log_resp
  <2>. QED
    BY <2>1, <2>2
<1>10. CASE finish_split
  <2>. DEFINE new == [Left EXCEPT !.status = "Normal"]
  <2>1. new \in Region
    BY <1>3 DEF Region, Status
  <2>2. region' = [region EXCEPT ![split.ctx][split.left] = new]
    BY <1>2, <1>4, <1>10 DEF finish_split, Left
  <2>. HIDE DEF new
  <2>3. region' \in [Threads -> [RegionIds -> Region]]
    BY <1>2, <2>1, <2>2, RegionStep
  <2>4. SplitOK(IdleSplit)
    BY IdleTypes DEF SplitOK, IdleSplit
  <2>. QED
    BY <1>10, <2>3, <2>4 DEF TypeOK, SplitOK, finish_split
<1>. QED
  BY <1>5, <1>6, <1>7, <1>8, <1>9, <1>10

\* The handlers on the target.
LEMMA TargetTypes ==
    ASSUME TypeOK, NEW t \in Threads, TargetStep(t)
    PROVE  TypeOK'
<1>1. /\ split.pc \in {"createReq", "logReq"} /\ split \in SplitState
      /\ split.ctx \in Threads /\ split.nr \in RegionIds
      /\ split.msg \in Seq(LogRecord)
  BY DEF TypeOK, SplitState, TargetStep, s2s_create_region_handler,
         s2s_send_region_log_handler
<1>2. /\ Nr \in Region /\ region[t][split.nr] \in Region
      /\ region \in [Threads -> [RegionIds -> Region]]
  BY <1>1, RegionUpdate DEF Nr, TypeOK
<1>3. CASE s2s_create_region_handler(t)
  <2>. DEFINE new == IF Present(t, split.nr) THEN region[t][split.nr]
                     ELSE NewRegion(Nr, 0, "NotReady")
  <2>1. NewRegion(Nr, 0, "NotReady") \in Region
    BY <1>2, Constants, NewRegionType DEF Region, Status
  <2>2. new \in Region
    BY <1>2, <2>1
  <2>3. region' = [region EXCEPT ![t][split.nr] = new]
    BY <1>1, <1>2, <1>3 DEF s2s_create_region_handler
  <2>. HIDE DEF new
  <2>4. region' \in [Threads -> [RegionIds -> Region]]
    BY <1>1, <2>2, <2>3, RegionStep
  <2>5. SplitOK(split')
    BY <1>1, <1>3, SplitGotoTypes DEF s2s_create_region_handler, SplitPc
  <2>. QED
    BY <1>3, <2>4, <2>5 DEF TypeOK, SplitOK, s2s_create_region_handler
<1>4. CASE s2s_send_region_log_handler(t)
  <2>. DEFINE kv == region[t][split.nr].kvNum - Len(split.msg)
              mid == [region[t][split.nr] EXCEPT !.kvNum = kv]
              new == [mid EXCEPT !.status = IF split.logStatus = "Done" THEN "Normal" ELSE @]
  <2>1. kv \in Int
    BY <1>1, <1>2, LenProperties DEF Region
  <2>2. mid \in Region
    <3>. HIDE DEF kv
    <3>. QED
      BY <1>2, <2>1 DEF Region
  <2>3. new \in Region
    BY <2>2 DEF Region, Status
  <2>4. region' = [region EXCEPT ![t][split.nr] = new]
    BY <1>1, <1>2, <1>4 DEF s2s_send_region_log_handler, Region
  <2>. HIDE DEF new
  <2>5. region' \in [Threads -> [RegionIds -> Region]]
    BY <1>1, <2>3, <2>4, RegionStep
  <2>6. store' \in [Threads -> [files : SUBSET Entry, stats : SUBSET Inode]]
    <3>1. /\ store[t].files \in SUBSET Entry /\ store[t].stats \in SUBSET Inode
          /\ store \in [Threads -> [files : SUBSET Entry, stats : SUBSET Inode]]
      BY DEF TypeOK
    <3>2. \A db \in Replay(store[t], split.msg) :
              db \in [files : SUBSET Entry, stats : SUBSET Inode]
      BY <3>1 DEF Replay, Without
    <3>3. \E db \in Replay(store[t], split.msg) : store' = [store EXCEPT ![t] = db]
      BY <1>4, <3>1 DEF s2s_send_region_log_handler
    <3>. QED
      BY <3>1, <3>2, <3>3
  <2>7. SplitOK(split')
    BY <1>1, <1>4, SplitGotoTypes DEF s2s_send_region_log_handler, SplitPc
  <2>. QED
    BY <1>4, <2>5, <2>6, <2>7 DEF TypeOK, SplitOK, s2s_send_region_log_handler
<1>. QED
  BY <1>3, <1>4 DEF TargetStep

\* Every step keeps the types.
LEMMA TypeOKInductive == TypeOK /\ [Next]_vars => TypeOK'
<1>. SUFFICES ASSUME TypeOK, [Next]_vars PROVE TypeOK'
  OBVIOUS
<1>1. CASE UNCHANGED vars
  BY <1>1 DEF TypeOK, vars
<1>2. ASSUME NEW t \in Threads, FgStep(t) \/ run_server_thread_end(t) PROVE TypeOK'
  BY <1>2, HandlerHeadTypes, ExecTypes, HandlerTailTypes DEF FgStep
<1>3. CASE SplitStep
  BY <1>3, SplitHeadTypes, SplitTailTypes DEF SplitStep
<1>. QED
  BY <1>1, <1>2, <1>3, TargetTypes, ClientTypes DEF Next

\* MetaFS is well typed for every instance: no handler looks at a client, a
\* region or a log record that does not exist (TypeOK says which).
THEOREM MetaFSTypeOK == Spec => []TypeOK
  BY InitTypeOK, TypeOKInductive, PTL DEF Spec
-----------------------------------------------------------------------------
(***************************************************************************)
(* The region map under splits, for the clients that the code serves       *)
(* without losing the process: the first one, whose id is 0.  Only region  *)
(* 0 splits then.                                                          *)
(***************************************************************************)
R0 == region[0][0]

\* Region id has been cut off region 0 on paper, and the map does not know.
Pending(id) ==
    /\ id \in NumThreads .. globalId - 1
    /\ region[0][id].status # "Absent" /\ region[0][id].left = 0
    /\ region[0][id].start = ShrunkEnd(R0.end) + 1 /\ region[0][id].end = R0.end
    /\ \A r \in globalMap : r.id # id

\* Thread 0 is the only one that handles requests, and it works on region 0.
OnlyThread0 ==
    \A t \in Threads \ {0} :
        region[t][0].status = "Absent" /\ fg[t].pc \in {"idle", "stopped"}

\* A split of region 0 is in one place at a time: with the foreground thread,
\* in the queue or with the split thread.
OnePlace ==
    /\ R0.start = 0 /\ R0.status \in {"Normal", "IsSplit", "SplitAlmostDone"}
    /\ R0.status = "Normal" => fg[0].pc # "split" /\ queue = <<>> /\ split.pc = "poll"
    /\ R0.status = "SplitAlmostDone" => split.pc # "poll"
    /\ split.pc \in {"create", "shrink", "publish"} => R0.status = "IsSplit"
    /\ split.pc = "reset" => R0.status = "SplitAlmostDone"
    /\ (split.pc \in {"logReq", "logResp"} /\ split.logStatus # "FarToDone")
          => R0.status = "SplitAlmostDone"
    /\ fg[0].pc = "split" => queue = <<>> /\ split.pc = "poll"
    /\ split.pc # "poll" => queue = <<>> /\ split.ctx = 0
    /\ split.pc # "poll" => split.nr \in NumThreads .. globalId - 1
    /\ split.pc \notin {"poll", "create"} => split.left = 0

\* What is split off, before the map shows it.
PendingInv ==
    /\ queue # <<>> => \E id \in RegionIds : queue = << <<0, id>> >> /\ Pending(id)
    /\ split.pc \notin {"poll", "publish"} /\ R0.status = "IsSplit" => Pending(split.nr)
    /\ split.pc = "publish" =>
          /\ region[0][split.nr].start = R0.end + 1
          /\ R0.end < region[0][split.nr].end
          /\ \A r \in globalMap : r.id # split.nr

\* Region ids are not used twice.
FreshIds ==
    /\ NumThreads <= globalId
    /\ \A id \in RegionIds : id >= globalId => region[0][id].status = "Absent"
    /\ \A r \in globalMap : r.id < globalId

\* The map is a partition whose entry for region 0 is its range.
MapInv ==
    /\ IsPartition(VisibleMap)
    /\ \A r \in globalMap : r.id = 0 => r = MapEntry(0, R0)
    /\ IF MapLocked THEN \A r \in globalMap : r.id # 0
       ELSE MapEntry(0, R0) \in globalMap
    /\ \A c \in ClientIds : view[c] # {} => IsPartition(view[c])

SplitInv == TypeOK /\ OnlyThread0 /\ OnePlace /\ PendingInv /\ FreshIds /\ MapInv

\* Splitting one range of a partition in two gives a partition, if the new id is
\* new.
LEMMA SplitKeepsPartition ==
    ASSUME NEW map \in SUBSET ClientRegion, NEW e \in Nat, NEW m \in Nat, m < e,
           NEW nr \in RegionIds, nr # 0, \A r \in map : r.id # 0 /\ r.id # nr,
           IsPartition(map \cup {[id |-> 0, start |-> 0, end |-> e]})
    PROVE  IsPartition(map \cup {[id |-> nr, start |-> m + 1, end |-> e],
                                 [id |-> 0, start |-> 0, end |-> m]})
<1>. DEFINE old == [id |-> 0, start |-> 0, end |-> e]
            up == [id |-> nr, start |-> m + 1, end |-> e]
            low == [id |-> 0, start |-> 0, end |-> m]
<1>. SUFFICES ASSUME NEW h \in HashSpace
              PROVE  \E r \in map \cup {up, low} :
                        /\ InRange(h, r)
                        /\ \A q \in map \cup {up, low} : InRange(h, q) => q = r
  BY DEF IsPartition
<1>1. h \in Nat
  BY Constants DEF HashSpace
<1>2. PICK r \in map \cup {old} :
          InRange(h, r) /\ \A q \in map \cup {old} : InRange(h, q) => q = r
  BY DEF IsPartition
<1>3. (InRange(h, up) <=> m + 1 <= h /\ h <= e) /\ (InRange(h, low) <=> h <= m)
      /\ (InRange(h, old) <=> h <= e)
  BY <1>1 DEF InRange
<1>4. CASE r = old
  <2>1. \A q \in map : ~InRange(h, q)
    BY <1>2, <1>4
  <2>2. CASE h <= m
    <3>1. InRange(h, low) /\ ~InRange(h, up)
      BY <1>1, <1>3, <2>2
    <3>. QED
      BY <2>1, <3>1
  <2>3. CASE ~(h <= m)
    <3>1. InRange(h, up) /\ ~InRange(h, low)
      BY <1>1, <1>2, <1>3, <1>4, <2>3
    <3>. QED
      BY <2>1, <3>1
  <2>. QED
    BY <2>2, <2>3
<1>5. CASE r # old
  <2>1. ~InRange(h, old)
    BY <1>2, <1>5
  <2>2. ~InRange(h, up) /\ ~InRange(h, low)
    BY <1>1, <1>3, <2>1
  <2>. QED
    BY <1>2, <1>5, <2>2
<1>. QED
  BY <1>4, <1>5

\* Steps that the map does not notice: kv_num, log_id and most of the steps of
\* a handler.
Quiet ==
    /\ UNCHANGED <<globalMap, globalId, queue, split>>
    /\ \A c \in ClientIds : view'[c] = view[c] \/ (~MapLocked /\ view'[c] = globalMap)
    /\ \A t \in Threads, id \in RegionIds :
          /\ region'[t][id].start = region[t][id].start
          /\ region'[t][id].end = region[t][id].end
          /\ region'[t][id].left = region[t][id].left
          /\ region'[t][id].status = region[t][id].status
    /\ \A t \in Threads \ {0} : fg'[t].pc \in {"idle", "stopped"}
    /\ fg'[0].pc = "split" => fg[0].pc = "split"

\* A quiet step keeps the invariant.
LEMMA QuietStep ==
    ASSUME SplitInv, TypeOK', Quiet
    PROVE  SplitInv'
<1>1. 0 \in Threads /\ 0 \in RegionIds /\ NumThreads \in Nat
  BY Constants
<1>2. /\ R0'.start = R0.start /\ R0'.end = R0.end /\ R0'.left = R0.left
      /\ R0'.status = R0.status
  BY <1>1 DEF R0, Quiet
<1>3. OnlyThread0'
  BY <1>1 DEF SplitInv, OnlyThread0, Quiet
<1>4. OnePlace'
  BY <1>2 DEF SplitInv, OnePlace, Quiet
<1>5. \A id \in RegionIds : Pending(id) => Pending(id)'
  BY <1>1, <1>2 DEF Pending, Quiet
<1>6. split.pc # "poll" => split.nr \in RegionIds
  BY DEF SplitInv, TypeOK
<1>7. PendingInv'
  <2>1. queue' # <<>> => \E id \in RegionIds : queue' = << <<0, id>> >> /\ Pending(id)'
    BY <1>5 DEF SplitInv, PendingInv, Quiet
  <2>2. split'.pc \notin {"poll", "publish"} /\ R0'.status = "IsSplit" => Pending(split.nr)'
    BY <1>2, <1>5, <1>6 DEF SplitInv, PendingInv, Quiet
  <2>3. split'.pc = "publish" =>
          /\ region'[0][split'.nr].start = R0'.end + 1
          /\ R0'.end < region'[0][split'.nr].end
          /\ \A r \in globalMap' : r.id # split'.nr
    BY <1>1, <1>2, <1>6 DEF SplitInv, PendingInv, Quiet
  <2>4. split' = split
    BY DEF Quiet
  <2>. QED
    BY <2>1, <2>2, <2>3, <2>4 DEF PendingInv
<1>8. FreshIds'
  BY <1>1 DEF SplitInv, FreshIds, Quiet
<1>9. MapInv'
  <2>1. MapEntry(0, R0)' = MapEntry(0, R0)
    BY <1>2 DEF MapEntry
  <2>2. VisibleMap' = VisibleMap /\ MapLocked' = MapLocked
    <3>1. CASE split.pc = "publish"
      <4>1. split.ctx = 0 /\ split.left = 0 /\ split.nr \in RegionIds /\ split' = split
        BY <3>1, <1>6 DEF SplitInv, OnePlace, Quiet
      <4>2. Left'.start = Left.start /\ Nr'.end = Nr.end /\ globalMap' = globalMap
        BY <1>1, <4>1 DEF Left, Nr, Quiet
      <4>. QED
        BY <3>1, <4>1, <4>2 DEF VisibleMap, MapLocked
    <3>2. CASE split.pc # "publish"
      BY <3>2 DEF VisibleMap, MapLocked, Quiet
    <3>. QED
      BY <3>1, <3>2
  <2>3. \A c \in ClientIds : view'[c] # {} => IsPartition(view'[c])
    <3>1. ~MapLocked => IsPartition(globalMap)
      BY DEF SplitInv, MapInv, VisibleMap
    <3>. QED
      BY <3>1 DEF SplitInv, MapInv, Quiet
  <2>4. IsPartition(VisibleMap')
    BY <2>2 DEF SplitInv, MapInv
  <2>. QED
    BY <2>1, <2>2, <2>3, <2>4 DEF SplitInv, MapInv, Quiet
<1>. QED
  BY <1>3, <1>4, <1>7, <1>8, <1>9 DEF SplitInv

\* Moving one foreground thread on leaves the others where they are.
LEMMA GotoPc ==
    ASSUME TypeOK, NEW t \in Threads, NEW pc, Goto(t, pc)
    PROVE  fg'[t].pc = pc /\ \A u \in Threads \ {t} : fg'[u] = fg[u]
<1>1. fg \in [Threads -> FgState] /\ fg[t] \in FgState
  BY FgTyped
<1>2. fg' = [fg EXCEPT ![t] = [fg[t] EXCEPT !.pc = pc]]
  BY <1>1 DEF Goto
<1>3. [fg[t] EXCEPT !.pc = pc].pc = pc
  BY <1>1 DEF FgState
<1>. QED
  BY <1>1, <1>2, <1>3

\* Steps of thread 0 that leave everything but its own state, the store, the
\* log and the counters of its region alone.
LEMMA HandlerQuiet ==
    ASSUME SplitInv, TypeOK', NEW t \in Threads, fg[t].pc \notin {"idle", "stopped"},
           UNCHANGED <<globalMap, globalId, queue, split, view>>,
           fg'[t].pc # "split", \A u \in Threads \ {t} : fg'[u] = fg[u],
           \/ UNCHANGED region
           \/ \E n : region' = [region EXCEPT ![t][fg[t].client].kvNum = n]
           \/ \E n : region' = [region EXCEPT ![t][fg[t].client].logId = n]
    PROVE  SplitInv'
<1>1. t = 0
  BY DEF SplitInv, OnlyThread0
<1>2. fg[t].client \in RegionIds /\ region \in [Threads -> [RegionIds -> Region]]
  BY FgTyped, Constants DEF SplitInv, TypeOK
<1>3. \A u \in Threads, id \in RegionIds :
          /\ region'[u][id].start = region[u][id].start
          /\ region'[u][id].end = region[u][id].end
          /\ region'[u][id].left = region[u][id].left
          /\ region'[u][id].status = region[u][id].status
  <2>1. CASE UNCHANGED region
    BY <2>1
  <2>2. CASE \E n : region' = [region EXCEPT ![t][fg[t].client].kvNum = n]
    BY <1>2, <2>2 DEF Region
  <2>3. CASE \E n : region' = [region EXCEPT ![t][fg[t].client].logId = n]
    BY <1>2, <2>3 DEF Region
  <2>. QED
    BY <2>1, <2>2, <2>3
<1>4. \A u \in Threads \ {0} : fg'[u].pc \in {"idle", "stopped"}
  BY <1>1 DEF SplitInv, OnlyThread0
<1>5. Quiet
  BY <1>1, <1>3, <1>4 DEF Quiet, MapLocked
<1>. QED
  BY <1>5, QuietStep

\* A step that changes nothing of the map's business.
LEMMA AsideStep ==
    ASSUME SplitInv, TypeOK',
           UNCHANGED <<region, globalMap, globalId, queue, split, fg, view>>
    PROVE  SplitInv'
<1>1. \A u \in Threads \ {0} : fg'[u].pc \in {"idle", "stopped"}
  BY DEF SplitInv, OnlyThread0
<1>2. Quiet
  BY <1>1 DEF Quiet, MapLocked
<1>. QED
  BY <1>2, QuietStep

\* The initial map is a partition: thread t has the hashes from t * HashRange on.
LEMMA InitPartition == IsPartition({MapEntry(t, InitialRange(t)) : t \in Threads})
<1>. DEFINE entry(t) == MapEntry(t, InitialRange(t))
<1>. SUFFICES ASSUME NEW h \in HashSpace
              PROVE  \E t \in Threads : /\ InRange(h, entry(t))
                                        /\ \A u \in Threads : InRange(h, entry(u)) => u = t
  BY DEF IsPartition
<1>1. /\ h \in Nat /\ h < NumThreads * HashRange
      /\ NumThreads \in Nat /\ NumThreads > 0 /\ HashRange \in Nat /\ HashRange > 0
  BY RegionAssumptions DEF HashSpace
<1>2. \A t \in Threads : InRange(h, entry(t)) <=> t * HashRange <= h /\ h <= (t + 1) * HashRange - 1
  BY DEF InRange, MapEntry, InitialRange
<1>3. PICK t \in Nat : t * HashRange <= h /\ h <= (t + 1) * HashRange - 1
  <2>1. h \div HashRange \in Nat /\ (h \div HashRange) * HashRange + (h % HashRange) = h
        /\ h % HashRange \in 0 .. HashRange - 1
    BY <1>1
  <2>2. ((h \div HashRange) + 1) * HashRange = (h \div HashRange) * HashRange + HashRange
    BY <1>1, <2>1
  <2>. QED
    BY <1>1, <2>1, <2>2
<1>4. t < NumThreads
  BY <1>1, <1>3
<1>5. \A u \in Nat : u * HashRange <= h /\ h <= (u + 1) * HashRange - 1 => u = t
  BY <1>1, <1>3
<1>6. t \in Threads /\ Threads \subseteq Nat
  BY <1>1, <1>4 DEF Threads
<1>. HIDE DEF entry
<1>7. InRange(h, entry(t)) /\ \A u \in Threads : InRange(h, entry(u)) => u = t
  BY <1>2, <1>3, <1>5, <1>6
<1>. QED
  BY <1>6, <1>7

\* The initial state satisfies the invariant.
LEMMA InitSplitInv == Init => SplitInv
<1>. SUFFICES ASSUME Init PROVE SplitInv
  OBVIOUS
<1>1. TypeOK
  BY InitTypeOK
<1>2. 0 \in Threads /\ 0 \in RegionIds /\ NumThreads \in Nat /\ Threads \subseteq RegionIds
  BY Constants
<1>3. /\ \A t \in Threads : fg[t].pc = "idle"
      /\ split.pc = "poll" /\ queue = <<>> /\ globalId = NumThreads
  BY DEF Init, IdleFg, IdleSplit
<1>4. R0 = NewRegion(InitialRange(0), 0, "Normal")
  BY <1>2 DEF Init, R0
<1>5. R0.start = 0 /\ R0.end = HashRange - 1 /\ R0.status = "Normal"
  BY <1>4, RegionAssumptions DEF NewRegion, InitialRange
<1>6. OnlyThread0
  BY <1>2, <1>3 DEF Init, OnlyThread0, NoRegion, NewRegion
<1>7. OnePlace
  BY <1>2, <1>3, <1>5 DEF OnePlace
<1>8. PendingInv
  BY <1>3 DEF PendingInv
<1>9. FreshIds
  <2>1. \A id \in RegionIds : id >= globalId => region[0][id] = NoRegion
    BY <1>2, <1>3, RegionAssumptions DEF Init
  <2>2. \A t \in Threads : MapEntry(t, InitialRange(t)).id < NumThreads
    BY RegionAssumptions DEF Threads, MapEntry
  <2>. QED
    BY <1>2, <1>3, <2>1, <2>2 DEF Init, FreshIds, NoRegion, NewRegion
<1>10. MapInv
  <2>1. globalMap = {MapEntry(t, InitialRange(t)) : t \in Threads} /\ ~MapLocked
    BY <1>3 DEF Init, MapLocked
  <2>2. IsPartition(VisibleMap)
    BY <2>1, InitPartition DEF VisibleMap
  <2>3. MapEntry(0, R0) = MapEntry(0, InitialRange(0))
    BY <1>4 DEF MapEntry, NewRegion
  <2>4. \A c \in ClientIds : view[c] = {}
    BY DEF Init
  <2>5. \A t \in Threads : MapEntry(t, InitialRange(t)).id = t
    BY DEF MapEntry
  <2>. QED
    BY <1>2, <2>1, <2>2, <2>3, <2>4, <2>5 DEF MapInv
<1>. QED
  BY <1>1, <1>6, <1>7, <1>8, <1>9, <1>10 DEF SplitInv

\* The compare-and-swap marks region 0, which no split holds yet.
LEMMA StartSplitKeeps ==
    ASSUME SplitInv, TypeOK', ClientIds = {0}, NEW t \in Threads, start_split(t)
    PROVE  SplitInv'
<1>1. /\ 0 \in Threads /\ 0 \in RegionIds /\ TypeOK /\ t = 0 /\ fg[0].client = 0
      /\ region \in [Threads -> [RegionIds -> Region]]
  BY Constants, FgTyped DEF SplitInv, OnlyThread0, start_split, TypeOK
<1>2. CASE ~(AboveThreshold(R0.kvNum) /\ R0.status = "Normal")
  <2>1. Goto(t, "log") /\ UNCHANGED region
    BY <1>1, <1>2 DEF start_split, MyRegion, R0
  <2>2. fg'[t].pc = "log" /\ \A u \in Threads \ {t} : fg'[u] = fg[u]
    BY ONLY <1>1, <2>1, GotoPc, t \in Threads
  <2>3. UNCHANGED <<globalMap, globalId, queue, split, view>> /\ fg[t].pc = "cas"
    BY DEF start_split
  <2>. QED
    BY <2>1, <2>2, <2>3, HandlerQuiet
<1>3. CASE R0.status = "Normal" /\ AboveThreshold(R0.kvNum)
  <2>1. /\ region' = [region EXCEPT ![0][0].status = "IsSplit"]
        /\ Goto(0, "split")
        /\ UNCHANGED <<globalMap, globalId, queue, split, view>>
    BY <1>1, <1>3 DEF start_split, MyRegion, R0
  <2>2. fg'[0].pc = "split" /\ \A u \in Threads \ {0} : fg'[u] = fg[u]
    BY <1>1, <2>1, GotoPc
  <2>3. /\ R0' = [R0 EXCEPT !.status = "IsSplit"] /\ R0 \in Region
        /\ \A u \in Threads, id \in RegionIds :
              u # 0 \/ id # 0 => region'[u][id] = region[u][id]
    BY <1>1, <2>1 DEF R0
  <2>4. /\ R0'.start = R0.start /\ R0'.end = R0.end /\ R0'.status = "IsSplit"
    BY <2>3 DEF Region
  <2>5. queue = <<>> /\ split.pc = "poll"
    BY <1>3 DEF SplitInv, OnePlace
  <2>6. OnlyThread0'
    BY <1>1, <2>2, <2>3 DEF SplitInv, OnlyThread0
  <2>7. OnePlace'
    BY <2>1, <2>2, <2>4, <2>5 DEF SplitInv, OnePlace
  <2>8. PendingInv'
    BY <2>1, <2>5 DEF PendingInv
  <2>9. FreshIds'
    <3>1. \A id \in RegionIds : id >= globalId => id # 0
      BY RegionAssumptions DEF SplitInv, FreshIds, TypeOK
    <3>. QED
      BY <1>1, <2>1, <2>3, <3>1 DEF SplitInv, FreshIds
  <2>10. MapInv'
    <3>1. MapEntry(0, R0)' = MapEntry(0, R0)
      BY <2>4 DEF MapEntry
    <3>2. VisibleMap' = VisibleMap /\ ~MapLocked /\ ~MapLocked'
      BY <2>1, <2>5 DEF VisibleMap, MapLocked
    <3>3. IsPartition(VisibleMap')
      BY <3>2 DEF SplitInv, MapInv
    <3>. QED
      BY <2>1, <3>1, <3>2, <3>3 DEF SplitInv, MapInv
  <2>. QED
    BY <2>6, <2>7, <2>8, <2>9, <2>10 DEF SplitInv
<1>. QED
  BY <1>2, <1>3

\* The new region gets an id that nothing knows, and the upper half on paper.
LEMMA CheckRegionKeeps ==
    ASSUME SplitInv, TypeOK', ClientIds = {0}, NEW t \in Threads, check_region_and_split(t)
    PROVE  SplitInv'
<1>1. /\ 0 \in Threads /\ 0 \in RegionIds /\ TypeOK /\ t = 0 /\ fg[0].client = 0
      /\ region \in [Threads -> [RegionIds -> Region]] /\ fg[0].pc = "split"
  BY Constants, FgTyped DEF SplitInv, OnlyThread0, check_region_and_split, TypeOK
<1>2. /\ globalId' = globalId + 1 /\ globalId \in RegionIds /\ globalId > 0
      /\ NumThreads \in Nat /\ NumThreads <= globalId /\ RegionIds \subseteq Nat
      /\ NumThreads > 0
  BY RegionAssumptions DEF check_region_and_split, SplitInv, FreshIds, TypeOK, RegionIds
<1>3. /\ queue = <<>> /\ split.pc = "poll" /\ R0.status = "IsSplit"
      /\ UNCHANGED <<globalMap, split, view>>
  BY <1>1 DEF SplitInv, OnePlace, check_region_and_split
<1>4. ~Present(0, globalId) /\ \A r \in globalMap : r.id < globalId
  BY <1>2 DEF SplitInv, FreshIds, Present
<1>. DEFINE nr == NewRegion(NewRange(R0.end), 0, "Normal")
<1>5. \/ UNCHANGED <<region, queue, fg>>
      \/ /\ region' = [region EXCEPT ![0][globalId] = nr]
         /\ queue' = << <<0, globalId>> >> /\ Goto(0, "log")
  BY <1>1, <1>3, <1>4 DEF check_region_and_split, MyRegion, R0
<1>6. R0' = R0 /\ \A u \in Threads, id \in RegionIds :
          u # 0 \/ id # globalId => region'[u][id] = region[u][id]
  BY <1>1, <1>2, <1>5 DEF R0
<1>7. fg'[0].pc \in {"split", "log"} /\ \A u \in Threads \ {0} : fg'[u] = fg[u]
  BY <1>1, <1>5, GotoPc
<1>8. OnlyThread0'
  BY <1>1, <1>2, <1>6, <1>7 DEF SplitInv, OnlyThread0
<1>9. fg'[0].pc = "split" => queue' = <<>>
  BY <1>1, <1>3, <1>5, GotoPc
<1>10. OnePlace'
  BY <1>3, <1>6, <1>9 DEF SplitInv, OnePlace
<1>11. PendingInv'
  <2>1. CASE UNCHANGED queue
    BY <1>3, <2>1 DEF PendingInv
  <2>2. CASE region' = [region EXCEPT ![0][globalId] = nr] /\ queue' = << <<0, globalId>> >>
    <3>1. PICK id \in RegionIds : id = globalId
      BY <1>2
    <3>2. region'[0][id] = nr /\ queue' = << <<0, id>> >>
      BY <1>1, <2>2, <3>1
    <3>3. id \in NumThreads .. globalId' - 1
      BY <1>2, <3>1
    <3>4. \A r \in globalMap : r.id # id
      BY <1>2, <1>4, <3>1
    <3>5. Pending(id)'
      BY <1>3, <1>6, <3>2, <3>3, <3>4 DEF Pending, NewRegion, NewRange, ShrunkEnd
    <3>6. queue' # <<>> => \E i \in RegionIds : queue' = << <<0, i>> >> /\ Pending(i)'
      BY <3>2, <3>5
    <3>. QED
      BY <1>3, <3>6 DEF PendingInv
  <2>. QED
    BY <1>5, <2>1, <2>2
<1>12. FreshIds'
  <2>1. \A id \in RegionIds : id >= globalId' => region'[0][id] = region[0][id]
    BY <1>1, <1>2, <1>6
  <2>2. \A r \in globalMap : r.id \in Nat
    BY <1>1, <1>2 DEF TypeOK, ClientRegion
  <2>3. NumThreads <= globalId'
    BY <1>2
  <2>4. \A id \in RegionIds : id >= globalId' => region'[0][id].status = "Absent"
    <3>1. \A id \in RegionIds : id >= globalId' => id >= globalId
      BY <1>2
    <3>. QED
      BY <2>1, <3>1 DEF SplitInv, FreshIds
  <2>5. \A r \in globalMap : r.id < globalId'
    BY <1>2, <1>4, <2>2
  <2>. QED
    BY <1>3, <2>3, <2>4, <2>5 DEF FreshIds
<1>13. MapInv'
  <2>1. VisibleMap' = VisibleMap /\ ~MapLocked /\ ~MapLocked'
    BY <1>3 DEF VisibleMap, MapLocked
  <2>2. IsPartition(VisibleMap')
    BY <2>1 DEF SplitInv, MapInv
  <2>3. MapEntry(0, R0)' = MapEntry(0, R0)
    BY <1>6
  <2>. QED
    BY <1>3, <1>6, <2>1, <2>2, <2>3 DEF SplitInv, MapInv
<1>. QED
  BY <1>8, <1>10, <1>11, <1>12, <1>13 DEF SplitInv

\* The handlers keep the invariant; the only client is the one with id 0.
LEMMA FgKeeps ==
    ASSUME SplitInv, TypeOK', ClientIds = {0}, NEW t \in Threads,
           FgStep(t) \/ run_server_thread_end(t)
    PROVE  SplitInv'
<1>1. /\ 0 \in Threads /\ 0 \in RegionIds /\ TypeOK
      /\ fg \in [Threads -> FgState] /\ fg[t] \in FgState
      /\ fg[t].pc \notin {"idle", "stopped"} => t = 0 /\ fg[t].client = 0
  BY Constants, FgTyped DEF SplitInv, OnlyThread0
<1>2. CASE \E c \in ClientIds : handler_begin(t, c)
  <2>1. PICK c \in ClientIds : handler_begin(t, c)
    BY <1>2
  <2>2. CASE Die("null region")
    BY <2>2, AsideStep DEF Die
  <2>3. CASE ~Die("null region")
    <3>1. c = 0 /\ Present(t, 0)
      BY <2>1, <2>3 DEF handler_begin
    <3>2. t = 0
      BY <3>1 DEF Present, SplitInv, OnlyThread0
    <3>3. \A u \in Threads \ {t} : fg'[u] = fg[u]
      BY <1>1, <2>1, <2>3 DEF handler_begin
    <3>4. fg'[t].pc = "status"
      <4>1. PICK b : fg' = [fg EXCEPT ![t] = [IdleFg EXCEPT !.pc = "status", !.client = c,
                                                            !.belongs = b]]
        BY <2>1, <2>3 DEF handler_begin
      <4>2. [IdleFg EXCEPT !.pc = "status", !.client = c, !.belongs = b].pc = "status"
        BY DEF IdleFg
      <4>. QED
        BY <1>1, <4>1, <4>2
    <3>5. UNCHANGED <<region, globalMap, globalId, queue, split, view>>
      BY <2>1, <2>3 DEF handler_begin
    <3>6. \A u \in Threads \ {0} : fg'[u].pc \in {"idle", "stopped"}
      BY <3>2, <3>3 DEF SplitInv, OnlyThread0
    <3>7. Quiet
      BY <3>2, <3>4, <3>5, <3>6 DEF Quiet
    <3>. QED
      BY <3>7, QuietStep
  <2>. QED
    BY <2>2, <2>3
<1>3. CASE \E c \in ClientIds : read_region_map_handler(t, c)
  <2>1. PICK c \in ClientIds : read_region_map_handler(t, c)
    BY <1>3
  <2>2. \A u \in Threads \ {0} : fg'[u].pc \in {"idle", "stopped"}
    BY <2>1 DEF SplitInv, OnlyThread0, read_region_map_handler
  <2>3. \A d \in ClientIds : view'[d] = view[d] \/ (~MapLocked /\ view'[d] = globalMap)
    BY <1>1, <2>1 DEF read_region_map_handler, TypeOK
  <2>4. Quiet
    BY <2>1, <2>2, <2>3 DEF Quiet, read_region_map_handler
  <2>. QED
    BY <2>4, QuietStep
<1>4. CASE run_server_thread_end(t)
  <2>1. fg'[t].pc = "stopped" /\ \A u \in Threads \ {t} : fg'[u] = fg[u]
    BY <1>1, <1>4, GotoPc DEF run_server_thread_end
  <2>2. \A u \in Threads \ {0} : fg'[u].pc \in {"idle", "stopped"}
    BY <2>1 DEF SplitInv, OnlyThread0
  <2>3. fg'[0].pc = "split" => fg[0].pc = "split"
    BY <1>1, <2>1
  <2>4. Quiet
    BY <1>4, <2>2, <2>3 DEF Quiet, run_server_thread_end
  <2>. QED
    BY <2>4, QuietStep
<1>5. CASE check_region_status(t)
  <2>1. fg'[t].pc # "split" /\ \A u \in Threads \ {t} : fg'[u] = fg[u]
    BY <1>1, <1>5, GotoPc DEF check_region_status
  <2>. QED
    BY <1>5, <2>1, HandlerQuiet DEF check_region_status
<1>6. ASSUME NEW resp, Reply(t, resp)
      PROVE  fg'[t].pc # "split" /\ \A u \in Threads \ {t} : fg'[u] = fg[u]
  BY <1>1, <1>6 DEF Reply, FgState
<1>7. CASE handler_reject(t)
  BY <1>6, <1>7, HandlerQuiet DEF handler_reject
<1>8. CASE StoreStep(t)
  <2>1. PICK db \in Store, resp \in Responses, inode \in Inode, kv \in {-1, 0, 1},
             pc \in {"addstat", "delstat", "table", "cas", "log"} :
             Did(t, db, resp, inode, kv, pc)
    BY <1>8 DEF StoreStep
  <2>2. fg'[t].pc # "split" /\ \A u \in Threads \ {t} : fg'[u] = fg[u]
    BY <1>1, <2>1 DEF Did, FgState
  <2>3. \E n : region' = [region EXCEPT ![t][fg[t].client].kvNum = n]
    BY <2>1 DEF Did, AddKv
  <2>. QED
    BY <1>8, <2>1, <2>2, <2>3, HandlerQuiet DEF Did, StoreStep, StorePc
<1>9. CASE fg[t].pc = "exec" /\ \E ok \in BOOLEAN : Lookup(t, ok)
  BY <1>6, <1>9, HandlerQuiet DEF Lookup
<1>10. CASE \/ fs_mknod_exec(t) \/ fs_mkdir_exec(t) \/ insert_stat(t)
            \/ fs_unlink_exec(t) \/ delete_stat(t)
  BY <1>1, <1>8, <1>10, StoreSteps
<1>11. CASE \/ fs_rmdir_exec(t)
            \/ fs_open_exec(t) \/ fs_stat_exec(t) \/ fs_getinode_exec(t) \/ fs_readdir_exec(t)
  BY <1>1, <1>8, <1>9, <1>11, LookupSteps
<1>12. CASE log_test(t)
  <2>1. fg'[t].pc # "split" /\ \A u \in Threads \ {t} : fg'[u] = fg[u]
    BY <1>1, <1>12, GotoPc DEF log_test
  <2>. QED
    BY <1>12, <2>1, HandlerQuiet DEF log_test
<1>13. CASE log_op_fail(t)
  BY <1>13, AsideStep DEF log_op_fail, Die
<1>14. CASE fs_mkdir_table(t)
  <2>1. fg'[t].pc # "split" /\ \A u \in Threads \ {t} : fg'[u] = fg[u]
    BY <1>1, <1>14, GotoPc DEF fs_mkdir_table
  <2>. QED
    BY <1>14, <2>1, HandlerQuiet DEF fs_mkdir_table
<1>15. CASE log_op_id(t)
  <2>1. fg'[t].pc # "split" /\ \A u \in Threads \ {t} : fg'[u] = fg[u]
    BY <1>1, <1>15, GotoPc DEF log_op_id, FgState
  <2>2. \E n : region' = [region EXCEPT ![t][fg[t].client].logId = n]
    BY <1>15 DEF log_op_id
  <2>. QED
    BY <1>15, <2>1, <2>2, HandlerQuiet DEF log_op_id
<1>16. CASE log_op_put(t)
  <2>1. fg'[t].pc # "split" /\ \A u \in Threads \ {t} : fg'[u] = fg[u]
    BY <1>1, <1>16, GotoPc DEF log_op_put
  <2>. QED
    BY <1>16, <2>1, HandlerQuiet DEF log_op_put
<1>17. CASE handler_reply(t)
  <2>1. fg'[t].pc # "split" /\ \A u \in Threads \ {t} : fg'[u] = fg[u]
    BY <1>1, <1>17 DEF handler_reply, IdleFg
  <2>. QED
    BY <1>17, <2>1, HandlerQuiet DEF handler_reply
<1>18. CASE start_split(t)
  BY <1>18, StartSplitKeeps
<1>19. CASE check_region_and_split(t)
  BY <1>19, CheckRegionKeeps
<1>. QED
  BY <1>2, <1>3, <1>4, <1>5, <1>7, <1>10, <1>11, <1>12, <1>13, <1>14, <1>15, <1>16,
     <1>17, <1>18, <1>19 DEF FgStep

\* A step of the split thread between its visits to the map: its region and its
\* origin stay, and it turns to the map only from a region that is splitting.
LEMMA SplitMove ==
    ASSUME SplitInv, TypeOK', UNCHANGED <<region, globalMap, globalId, queue, fg, view>>,
           split.pc \notin {"poll", "publish", "reset"},
           split'.pc \notin {"poll", "publish", "reset", "create"},
           split'.ctx = split.ctx, split'.nr = split.nr, split'.left = 0,
           split'.pc = "shrink" => R0.status = "IsSplit",
           split'.pc \in {"logReq", "logResp"} /\ split'.logStatus # "FarToDone"
              => R0.status = "SplitAlmostDone"
    PROVE  SplitInv'
<1>1. R0' = R0
  BY DEF R0
<1>2. OnlyThread0'
  BY DEF SplitInv, OnlyThread0
<1>3. OnePlace'
  BY <1>1 DEF SplitInv, OnePlace
<1>4. Pending(split.nr) => Pending(split.nr)'
  BY <1>1 DEF Pending
<1>5. PendingInv'
  BY <1>1, <1>3, <1>4 DEF SplitInv, PendingInv, OnePlace
<1>6. FreshIds'
  BY DEF SplitInv, FreshIds
<1>7. MapInv'
  <2>1. VisibleMap' = VisibleMap /\ ~MapLocked /\ ~MapLocked'
    BY DEF VisibleMap, MapLocked
  <2>2. IsPartition(VisibleMap')
    BY <2>1 DEF SplitInv, MapInv
  <2>3. MapEntry(0, R0)' = MapEntry(0, R0)
    BY <1>1
  <2>. QED
    BY <1>1, <2>1, <2>2, <2>3 DEF SplitInv, MapInv
<1>. QED
  BY <1>2, <1>3, <1>5, <1>6, <1>7 DEF SplitInv

\* What the invariant says of the split thread at work.
LEMMA AtWork ==
    ASSUME SplitInv, split.pc # "poll"
    PROVE  /\ split \in SplitState /\ split.ctx = 0 /\ split.nr \in RegionIds /\ split.nr # 0
           /\ 0 \in Threads /\ 0 \in RegionIds
           /\ region \in [Threads -> [RegionIds -> Region]]
           /\ queue = <<>> /\ fg[0].pc # "split" /\ R0.status # "Normal" /\ R0 \in Region
           /\ Nr = region[0][split.nr]
           /\ split.pc # "create" => split.left = 0 /\ Left = R0
           /\ split.nr \in NumThreads .. globalId - 1
<1>1. /\ 0 \in Threads /\ 0 \in RegionIds /\ NumThreads \in Nat /\ NumThreads > 0
      /\ region \in [Threads -> [RegionIds -> Region]] /\ split \in SplitState
  BY Constants, RegionAssumptions DEF SplitInv, TypeOK
<1>2. /\ split.ctx = 0 /\ split.nr \in RegionIds /\ split.nr \in NumThreads .. globalId - 1
      /\ queue = <<>> /\ fg[0].pc # "split" /\ R0.status # "Normal"
      /\ split.pc # "create" => split.left = 0
  BY DEF SplitInv, OnePlace, TypeOK
<1>3. split.nr # 0
  BY <1>1, <1>2
<1>. QED
  BY <1>1, <1>2, <1>3 DEF R0, Nr, Left

\* The steps before and between the visits to the map.
LEMMA SplitMoves ==
    ASSUME SplitInv, TypeOK',
           \/ rpc_create_region \/ rpc_create_region_cb
           \/ \E d \in split.todo : rpc_send_region_dir(d)
           \/ rpc_send_region_end \/ read_log \/ count_log_left
    PROVE  SplitInv'
<1>1. split.pc \in {"create", "createResp", "scan", "logRead", "logLeft"}
  BY DEF rpc_create_region, rpc_create_region_cb, rpc_send_region_dir,
         rpc_send_region_end, read_log, count_log_left
<1>2. split \in SplitState /\ split.pc # "poll"
  BY <1>1, AtWork
<1>3. CASE \E reason : Die(reason)
  BY <1>3, AsideStep DEF Die
<1>4. CASE rpc_create_region /\ ~\E reason : Die(reason)
  <2>1. split' = [split EXCEPT !.pc = "createReq", !.left = Nr.left]
        /\ UNCHANGED <<region, globalMap, globalId, queue, fg, view>>
        /\ split.pc = "create"
    BY <1>4 DEF rpc_create_region
  <2>2. Nr.left = 0
    <3>1. Pending(split.nr)
      BY <2>1 DEF SplitInv, OnePlace, PendingInv
    <3>. QED
      BY <1>2, <3>1, AtWork DEF Pending
  <2>3. split'.pc = "createReq" /\ split'.ctx = split.ctx /\ split'.nr = split.nr /\ split'.left = 0
    BY <1>2, <2>1, <2>2 DEF SplitState
  <2>. QED
    BY <2>1, <2>3, SplitMove
<1>5. CASE rpc_create_region_cb /\ ~\E reason : Die(reason)
  <2>1. PICK d : split' = [split EXCEPT !.pc = "scan", !.todo = d]
    BY <1>5 DEF rpc_create_region_cb
  <2>2. split'.pc = "scan" /\ split'.ctx = split.ctx /\ split'.nr = split.nr /\ split'.left = 0
    BY <1>2, <2>1, <1>5, AtWork DEF SplitState, rpc_create_region_cb
  <2>. QED
    BY <1>5, <2>2, SplitMove DEF rpc_create_region_cb
<1>6. CASE (\E d \in split.todo : rpc_send_region_dir(d)) /\ ~\E reason : Die(reason)
  <2>1. PICK d : split' = [split EXCEPT !.todo = d]
    BY <1>6 DEF rpc_send_region_dir
  <2>2. /\ split.pc = "scan"
        /\ UNCHANGED <<region, globalMap, globalId, queue, fg, view>>
    BY <1>6 DEF rpc_send_region_dir
  <2>3. split'.pc = "scan" /\ split'.ctx = split.ctx /\ split'.nr = split.nr /\ split'.left = 0
    BY <1>2, <2>1, <2>2, AtWork DEF SplitState
  <2>. QED
    BY <2>2, <2>3, SplitMove
<1>7. CASE rpc_send_region_end
  <2>1. split'.pc = "logRead" /\ split'.ctx = split.ctx /\ split'.nr = split.nr /\ split'.left = 0
    BY <1>2, <1>7, AtWork DEF SplitState, rpc_send_region_end
  <2>. QED
    BY <1>7, <2>1, SplitMove DEF rpc_send_region_end
<1>8. CASE read_log /\ ~\E reason : Die(reason)
  <2>1. PICK m : split' = [split EXCEPT !.pc = "logLeft", !.msg = m]
    BY <1>8 DEF read_log
  <2>2. /\ split.pc = "logRead"
        /\ UNCHANGED <<region, globalMap, globalId, queue, fg, view>>
    BY <1>8 DEF read_log
  <2>3. split'.pc = "logLeft" /\ split'.ctx = split.ctx /\ split'.nr = split.nr /\ split'.left = 0
    BY <1>2, <2>1, <2>2, AtWork DEF SplitState
  <2>. QED
    BY <2>2, <2>3, SplitMove
<1>9. CASE count_log_left
  <2>1. PICK s, p : /\ split' = [split EXCEPT !.logStatus = s, !.pc = p]
                    /\ p = IF s # "FarToDone" /\ Left.status # "SplitAlmostDone"
                           THEN "shrink" ELSE "logReq"
    BY <1>9 DEF count_log_left
  <2>2. /\ split'.pc = p /\ split'.logStatus = s /\ split'.ctx = split.ctx
        /\ split'.nr = split.nr /\ split'.left = 0 /\ Left = R0
    BY <1>2, <1>9, <2>1, AtWork DEF SplitState, count_log_left
  <2>3. R0.status \in {"IsSplit", "SplitAlmostDone"}
    BY <1>2, AtWork DEF SplitInv, OnePlace
  <2>. QED
    BY <1>9, <2>1, <2>2, <2>3, SplitMove DEF count_log_left
<1>. QED
  BY <1>3, <1>4, <1>5, <1>6, <1>7, <1>8, <1>9

\* The split thread takes the queue's one entry over.
LEMMA PollKeeps ==
    ASSUME SplitInv, TypeOK', NEW q \in Threads \X RegionIds, split_region_thread(q)
    PROVE  SplitInv'
<1>1. /\ split = IdleSplit /\ split.pc = "poll" /\ queue # <<>> /\ q = Head(queue)
      /\ split.ctx = None /\ split \in SplitState
  BY DEF split_region_thread, SplitInv, TypeOK, IdleSplit
<1>2. PICK id \in RegionIds : queue = << <<0, id>> >> /\ Pending(id)
  BY <1>1 DEF SplitInv, PendingInv
<1>3. /\ queue' = <<>> /\ split' = [split EXCEPT !.pc = "create", !.ctx = 0, !.nr = id]
      /\ UNCHANGED <<region, globalMap, globalId, fg, view>>
  <2>1. Head(<< <<0, id>> >>) = <<0, id>> /\ Tail(<< <<0, id>> >>) = <<>>
    OBVIOUS
  <2>2. q = <<0, id>> /\ Tail(queue) = <<>>
    BY <1>1, <1>2, <2>1
  <2>3. q[1] = 0 /\ q[2] = id
    BY <2>2
  <2>. QED
    BY <1>1, <2>2, <2>3 DEF split_region_thread
<1>4. split'.pc = "create" /\ split'.ctx = 0 /\ split'.nr = id
  BY <1>1, <1>3 DEF SplitState
<1>5. R0' = R0 /\ R0.status = "IsSplit" /\ fg[0].pc # "split"
  BY <1>1, <1>2, <1>3 DEF SplitInv, OnePlace, R0
<1>6. Pending(id)'
  BY <1>2, <1>3, <1>5 DEF Pending
<1>7. id \in NumThreads .. globalId' - 1
  BY <1>2, <1>3 DEF Pending
<1>8. OnlyThread0'
  BY <1>3 DEF SplitInv, OnlyThread0
<1>9. OnePlace'
  BY <1>3, <1>4, <1>5, <1>7 DEF SplitInv, OnePlace
<1>10. PendingInv'
  BY <1>3, <1>4, <1>6 DEF PendingInv
<1>11. FreshIds'
  BY <1>3 DEF SplitInv, FreshIds
<1>12. MapInv'
  <2>1. VisibleMap' = VisibleMap /\ ~MapLocked /\ ~MapLocked'
    BY <1>1, <1>3, <1>4 DEF VisibleMap, MapLocked
  <2>2. IsPartition(VisibleMap')
    BY <2>1 DEF SplitInv, MapInv
  <2>3. MapEntry(0, R0)' = MapEntry(0, R0)
    BY <1>5
  <2>. QED
    BY <1>3, <1>5, <2>1, <2>2, <2>3 DEF SplitInv, MapInv
<1>. QED
  BY <1>8, <1>9, <1>10, <1>11, <1>12 DEF SplitInv

\* Taking region 0 out of the map: while the lock is held, readers would still
\* see the old range.
LEMMA ShrinkKeeps ==
    ASSUME SplitInv, TypeOK', shrink_left
    PROVE  SplitInv' /\ VisibleMap' = VisibleMap
<1>1. CASE \E reason : Die(reason)
  <2>1. VisibleMap' = VisibleMap
    BY <1>1 DEF Die, VisibleMap, MapLocked, Left, Nr
  <2>. QED
    BY <1>1, <2>1, AsideStep DEF Die
<1>2. CASE ~\E reason : Die(reason)
  <2>1. split.pc = "shrink" /\ split.ctx = 0 /\ split.left = 0 /\ Left = R0
    BY AtWork DEF shrink_left
  <2>2. /\ globalMap' = {r \in globalMap : r.id # 0} /\ ShrunkEnd(R0.end) # 0
        /\ region' = [region EXCEPT ![0][0].end = ShrunkEnd(R0.end)]
        /\ split' = [split EXCEPT !.pc = "publish"]
        /\ UNCHANGED <<globalId, queue, fg, view>>
    BY <1>2, <2>1 DEF shrink_left, SplitGoto
  <2>3. /\ split'.pc = "publish" /\ split'.ctx = 0 /\ split'.left = 0 /\ split'.nr = split.nr
    BY <2>1, <2>2, AtWork DEF SplitState
  <2>4. /\ R0' = [R0 EXCEPT !.end = ShrunkEnd(R0.end)] /\ R0 \in Region
        /\ \A u \in Threads, id \in RegionIds :
              u # 0 \/ id # 0 => region'[u][id] = region[u][id]
    BY <2>1, <2>2, AtWork DEF R0
  <2>5. /\ R0'.start = R0.start /\ R0'.end = ShrunkEnd(R0.end) /\ R0'.status = R0.status
        /\ R0.end \in Nat /\ R0.status = "IsSplit" /\ R0.start = 0
    BY <2>1, <2>4 DEF Region, SplitInv, OnePlace
  <2>6. Pending(split.nr)
    BY <2>1, <2>5 DEF SplitInv, PendingInv
  <2>7. OnlyThread0'
    BY <2>2, <2>4, AtWork, <2>1 DEF SplitInv, OnlyThread0
  <2>8. OnePlace'
    BY <2>1, <2>2, <2>3, <2>5 DEF SplitInv, OnePlace
  <2>9. region'[0][split'.nr] = region[0][split.nr]
    BY <2>1, <2>3, <2>4, AtWork
  <2>10. ShrunkEnd(R0.end) < R0.end
    BY <2>2, <2>5 DEF ShrunkEnd
  <2>11. PendingInv'
    <3>1. \A r \in globalMap' : r.id # split'.nr
      BY <2>2, <2>3, <2>6 DEF Pending
    <3>. QED
      BY <2>2, <2>3, <2>5, <2>6, <2>9, <2>10, <3>1, <2>1, AtWork DEF PendingInv, Pending
  <2>12. FreshIds'
    <3>1. \A id \in RegionIds : id >= globalId => id # 0
      BY RegionAssumptions DEF SplitInv, FreshIds, TypeOK
    <3>. QED
      BY <2>1, <2>2, <2>4, <3>1, AtWork DEF SplitInv, FreshIds
  <2>13. VisibleMap' = VisibleMap
    <3>1. MapEntry(0, R0) \in globalMap /\ \A r \in globalMap : r.id = 0 => r = MapEntry(0, R0)
      BY <2>1 DEF SplitInv, MapInv, MapLocked
    <3>2. Left'.start = 0 /\ Nr'.end = R0.end
      BY <2>1, <2>3, <2>5, <2>6, <2>9 DEF Left, Nr, R0, Pending
    <3>3. VisibleMap' = {r \in globalMap : r.id # 0} \cup {MapEntry(0, R0)}
      BY <2>2, <2>3, <2>5, <3>2 DEF VisibleMap, MapLocked, MapEntry
    <3>4. VisibleMap = globalMap
      BY <2>1 DEF VisibleMap, MapLocked
    <3>5. MapEntry(0, R0).id = 0
      BY DEF MapEntry
    <3>. QED
      BY <3>1, <3>3, <3>4, <3>5
  <2>14. MapInv'
    <3>1. IsPartition(VisibleMap')
      BY <2>13 DEF SplitInv, MapInv
    <3>2. MapLocked' /\ \A r \in globalMap' : r.id # 0
      BY <2>2, <2>3 DEF MapLocked
    <3>. QED
      BY <2>2, <3>1, <3>2 DEF SplitInv, MapInv
  <2>. QED
    BY <2>7, <2>8, <2>11, <2>12, <2>13, <2>14 DEF SplitInv
<1>. QED
  BY <1>1, <1>2

\* Putting both halves in: the readers see the old range cut in two.
LEMMA PublishKeeps ==
    ASSUME SplitInv, TypeOK', publish_halves
    PROVE  SplitInv' /\ Owners!Next
<1>1. split.pc = "publish" /\ split.ctx = 0 /\ split.left = 0 /\ Left = R0 /\ split.nr # 0
  BY AtWork DEF publish_halves
<1>. DEFINE m == R0.end
            e == Nr.end
<1>2. /\ R0.start = 0 /\ R0.status = "IsSplit" /\ Nr.start = m + 1 /\ m < e
      /\ m \in Nat /\ e \in Nat /\ Nr \in Region /\ R0 \in Region
      /\ \A r \in globalMap : r.id # split.nr
  BY <1>1, AtWork DEF SplitInv, OnePlace, PendingInv, Region
<1>3. /\ globalMap' = globalMap \cup {[id |-> split.nr, start |-> m + 1, end |-> e],
                                      [id |-> 0, start |-> 0, end |-> m]}
      /\ region' = [region EXCEPT ![0][0].status = "SplitAlmostDone"]
      /\ split' = [split EXCEPT !.pc = "logReq"]
      /\ UNCHANGED <<globalId, queue, fg, view>>
  BY <1>1, <1>2 DEF publish_halves, MapEntry, SplitGoto
<1>4. /\ split'.pc = "logReq" /\ split'.ctx = 0 /\ split'.left = 0 /\ split'.nr = split.nr
  BY <1>1, <1>3, AtWork DEF SplitState
<1>5. /\ R0' = [R0 EXCEPT !.status = "SplitAlmostDone"]
      /\ \A u \in Threads, id \in RegionIds :
            u # 0 \/ id # 0 => region'[u][id] = region[u][id]
  BY <1>1, <1>3, AtWork DEF R0
<1>6. R0'.start = R0.start /\ R0'.end = R0.end /\ R0'.status = "SplitAlmostDone"
  BY <1>2, <1>5 DEF Region
<1>7. OnlyThread0'
  BY <1>1, <1>3, <1>5, AtWork DEF SplitInv, OnlyThread0
<1>8. OnePlace'
  BY <1>1, <1>3, <1>4, <1>6 DEF SplitInv, OnePlace
<1>9. PendingInv'
  BY <1>1, <1>3, <1>4, <1>6, AtWork DEF PendingInv
<1>10. FreshIds'
  <2>1. \A id \in RegionIds : id >= globalId => id # 0
    BY RegionAssumptions DEF SplitInv, FreshIds, TypeOK
  <2>2. split.nr < globalId /\ 0 < globalId
    <3>1. globalId \in Nat /\ NumThreads \in Nat /\ 0 < NumThreads /\ NumThreads <= globalId
      BY RegionAssumptions DEF SplitInv, FreshIds, TypeOK
    <3>2. split.nr \in NumThreads .. globalId - 1
      BY <1>1, AtWork
    <3>. QED
      BY <3>1, <3>2
  <2>3. \A r \in globalMap' : r.id < globalId
    BY <1>3, <2>2 DEF SplitInv, FreshIds
  <2>. QED
    BY <1>1, <1>3, <1>5, <2>1, <2>3, AtWork DEF SplitInv, FreshIds
<1>. DEFINE old == [id |-> 0, start |-> 0, end |-> e]
<1>11. VisibleMap = globalMap \cup {old} /\ VisibleMap' = globalMap'
  BY <1>1, <1>2, <1>4 DEF VisibleMap, MapLocked
<1>12. \A r \in globalMap : r.id # 0
  BY <1>1 DEF SplitInv, MapInv, MapLocked
<1>13. MapInv'
  <2>1. globalMap \in SUBSET ClientRegion /\ split.nr \in RegionIds
    BY <1>1, AtWork DEF SplitInv, TypeOK
  <2>2. IsPartition(globalMap \cup {old})
    BY <1>11 DEF SplitInv, MapInv
  <2>3. IsPartition(globalMap')
    BY <1>1, <1>2, <1>3, <1>12, <2>1, <2>2, SplitKeepsPartition
  <2>4. IsPartition(VisibleMap') /\ ~MapLocked'
    BY <1>4, <1>11, <2>3 DEF MapLocked
  <2>5. MapEntry(0, R0)' = [id |-> 0, start |-> 0, end |-> m]
    BY <1>2, <1>6 DEF MapEntry
  <2>6. /\ MapEntry(0, R0)' \in globalMap'
        /\ \A r \in globalMap' : r.id = 0 => r = MapEntry(0, R0)'
    BY <1>1, <1>3, <1>12, <2>5
  <2>. QED
    BY <1>3, <2>4, <2>6 DEF SplitInv, MapInv
<1>14. Owners!Next
  <2>1. old \in VisibleMap /\ m + 1 \in old.start + 1 .. old.end /\ split.nr \in RegionIds
    BY <1>1, <1>2, <1>11, AtWork
  <2>2. \A r \in VisibleMap : r.id # split.nr
    BY <1>1, <1>2, <1>11
  <2>3. VisibleMap \ {old} = globalMap
    BY <1>11, <1>12
  <2>4. VisibleMap' = (VisibleMap \ {old}) \cup
                        {[id |-> old.id, start |-> old.start, end |-> (m + 1) - 1],
                         [id |-> split.nr, start |-> m + 1, end |-> old.end]}
    <3>1. (m + 1) - 1 = m
      BY <1>2
    <3>. QED
      BY <1>3, <1>11, <2>3, <3>1
  <2>5. Owners!Split(old, m + 1, split.nr)
    BY <2>2, <2>4 DEF Owners!Split, Owners!Idle
  <2>. QED
    BY <2>1, <2>5 DEF Owners!Next
<1>. QED
  BY <1>7, <1>8, <1>9, <1>10, <1>13, <1>14 DEF SplitInv

\* The end of a split: the temporary region goes, the log starts again, and
\* region 0 is served again.
LEMMA LogRespKeeps ==
    ASSUME SplitInv, TypeOK', rpc_send_region_log_resp
    PROVE  SplitInv'
<1>1. /\ split.pc = "logResp" /\ split.ctx = 0 /\ split.left = 0 /\ Left = R0
      /\ split.nr \in RegionIds /\ split.nr # 0 /\ split \in SplitState
      /\ UNCHANGED <<globalMap, globalId, queue, fg, view>>
  BY AtWork DEF rpc_send_region_log_resp
<1>2. CASE split.logStatus # "Done"
  <2>1. PICK n : split' = [split EXCEPT !.pc = "logRead", !.msg = <<>>, !.next = n]
    BY <1>2 DEF rpc_send_region_log_resp
  <2>2. split'.pc = "logRead" /\ split'.ctx = split.ctx /\ split'.nr = split.nr /\ split'.left = 0
    BY <1>1, <2>1 DEF SplitState
  <2>3. UNCHANGED region
    BY <1>2 DEF rpc_send_region_log_resp
  <2>. QED
    BY <1>1, <2>2, <2>3, SplitMove
<1>3. CASE split.logStatus = "Done"
  <2>1. /\ region' = [region EXCEPT ![0][split.nr] = NoRegion, ![0][0].logId = 0]
        /\ split' = [split EXCEPT !.pc = "reset"]
    BY <1>1, <1>3 DEF rpc_send_region_log_resp, SplitGoto
  <2>2. split'.pc = "reset" /\ split'.ctx = 0 /\ split'.left = 0 /\ split'.nr = split.nr
    BY <1>1, <2>1 DEF SplitState
  <2>3. /\ R0' = [R0 EXCEPT !.logId = 0] /\ R0 \in Region
        /\ region'[0][split.nr] = NoRegion
        /\ \A u \in Threads, id \in RegionIds :
              u # 0 \/ id \notin {0, split.nr} => region'[u][id] = region[u][id]
    BY <1>1, <2>1, AtWork DEF R0
  <2>4. /\ R0'.start = R0.start /\ R0'.end = R0.end /\ R0'.status = R0.status
        /\ R0.status = "SplitAlmostDone"
    BY <1>1, <1>3, <2>3 DEF Region, SplitInv, OnePlace
  <2>5. OnlyThread0'
    BY <1>1, <2>3, AtWork DEF SplitInv, OnlyThread0
  <2>6. OnePlace'
    BY <1>1, <2>2, <2>4 DEF SplitInv, OnePlace
  <2>7. PendingInv'
    BY <1>1, <2>2, <2>4, AtWork DEF PendingInv
  <2>8. FreshIds'
    <3>1. \A id \in RegionIds : id >= globalId => id \notin {0, split.nr}
      <4>1. globalId \in Nat /\ NumThreads \in Nat /\ 0 < NumThreads /\ NumThreads <= globalId
        BY RegionAssumptions DEF SplitInv, FreshIds, TypeOK
      <4>2. split.nr \in NumThreads .. globalId - 1
        BY <1>1, AtWork
      <4>. QED
        BY <4>1, <4>2
    <3>. QED
      BY <1>1, <2>3, <3>1, AtWork DEF SplitInv, FreshIds
  <2>9. MapInv'
    <3>1. VisibleMap' = VisibleMap /\ ~MapLocked /\ ~MapLocked'
      BY <1>1, <2>2 DEF VisibleMap, MapLocked
    <3>2. IsPartition(VisibleMap')
      BY <3>1 DEF SplitInv, MapInv
    <3>3. MapEntry(0, R0)' = MapEntry(0, R0)
      BY <2>4 DEF MapEntry
    <3>. QED
      BY <1>1, <3>1, <3>2, <3>3 DEF SplitInv, MapInv
  <2>. QED
    BY <2>5, <2>6, <2>7, <2>8, <2>9 DEF SplitInv
<1>. QED
  BY <1>2, <1>3

\* Back to normal: the split thread lets go of region 0.
LEMMA FinishKeeps ==
    ASSUME SplitInv, TypeOK', finish_split
    PROVE  SplitInv'
<1>1. /\ split.pc = "reset" /\ split.ctx = 0 /\ split.left = 0 /\ queue = <<>>
      /\ fg[0].pc # "split" /\ split'.pc = "poll"
      /\ UNCHANGED <<globalMap, globalId, queue, fg, view>>
  BY AtWork DEF finish_split, IdleSplit
<1>2. region' = [region EXCEPT ![0][0].status = "Normal"]
  BY <1>1 DEF finish_split
<1>3. /\ R0' = [R0 EXCEPT !.status = "Normal"] /\ R0 \in Region
      /\ \A u \in Threads, id \in RegionIds :
            u # 0 \/ id # 0 => region'[u][id] = region[u][id]
  BY <1>1, <1>2, AtWork DEF R0
<1>4. R0'.start = R0.start /\ R0'.end = R0.end /\ R0'.status = "Normal"
  BY <1>3 DEF Region
<1>5. OnlyThread0'
  BY <1>1, <1>3, AtWork DEF SplitInv, OnlyThread0
<1>6. OnePlace'
  BY <1>1, <1>4 DEF SplitInv, OnePlace
<1>7. PendingInv'
  BY <1>1 DEF PendingInv
<1>8. FreshIds'
  <2>1. \A id \in RegionIds : id >= globalId => id # 0
    BY RegionAssumptions DEF SplitInv, FreshIds, TypeOK
  <2>. QED
    BY <1>1, <1>3, <2>1, AtWork DEF SplitInv, FreshIds
<1>9. MapInv'
  <2>1. VisibleMap' = VisibleMap /\ ~MapLocked /\ ~MapLocked'
    BY <1>1 DEF VisibleMap, MapLocked
  <2>2. IsPartition(VisibleMap')
    BY <2>1 DEF SplitInv, MapInv
  <2>3. MapEntry(0, R0)' = MapEntry(0, R0)
    BY <1>4 DEF MapEntry
  <2>. QED
    BY <1>1, <2>1, <2>2, <2>3 DEF SplitInv, MapInv
<1>. QED
  BY <1>5, <1>6, <1>7, <1>8, <1>9 DEF SplitInv

\* The target's handlers change the target's region for the new id only.
LEMMA TargetKeeps ==
    ASSUME SplitInv, TypeOK', NEW t \in Threads, TargetStep(t)
    PROVE  SplitInv'
<1>1. /\ split.pc \in {"createReq", "logReq"}
      /\ UNCHANGED <<globalMap, globalId, queue, fg, view>>
  BY DEF TargetStep, s2s_create_region_handler, s2s_send_region_log_handler
<1>2. /\ split.ctx = 0 /\ split.left = 0 /\ Left = R0 /\ split \in SplitState
      /\ split.nr \in RegionIds /\ split.nr # 0 /\ Nr = region[0][split.nr]
      /\ region \in [Threads -> [RegionIds -> Region]] /\ 0 \in Threads /\ 0 \in RegionIds
  BY <1>1, AtWork
<1>3. PICK pc : pc \in {"createResp", "logResp"} /\ split' = [split EXCEPT !.pc = pc]
                /\ (pc = "logResp" => split.pc = "logReq")
  BY DEF TargetStep, s2s_create_region_handler, s2s_send_region_log_handler, SplitGoto
<1>4. /\ split'.pc = pc /\ split'.ctx = 0 /\ split'.left = 0 /\ split'.nr = split.nr
      /\ split'.logStatus = split.logStatus
  BY <1>2, <1>3 DEF SplitState
<1>6. \A u \in Threads, id \in RegionIds : u # t \/ id # split.nr => region'[u][id] = region[u][id]
  <2>1. CASE s2s_create_region_handler(t)
    BY <1>2, <2>1 DEF s2s_create_region_handler
  <2>2. CASE s2s_send_region_log_handler(t)
    BY <1>2, <2>2 DEF s2s_send_region_log_handler
  <2>. QED
    BY <2>1, <2>2 DEF TargetStep
<1>7. R0' = R0
  BY <1>2, <1>6 DEF R0
<1>8. region'[0][split.nr].status # "Absent" \/ region[0][split.nr].status = "Absent"
  <2>1. CASE s2s_create_region_handler(t)
    BY <1>2, <2>1 DEF s2s_create_region_handler, Present
  <2>2. CASE s2s_send_region_log_handler(t)
    BY <1>2, <2>2 DEF s2s_send_region_log_handler, Region
  <2>. QED
    BY <2>1, <2>2 DEF TargetStep
<1>9. region[0][split.nr].status # "Absent" =>
         /\ region'[0][split.nr].start = region[0][split.nr].start
         /\ region'[0][split.nr].end = region[0][split.nr].end
         /\ region'[0][split.nr].left = region[0][split.nr].left
  <2>1. CASE s2s_create_region_handler(t)
    BY <1>2, <2>1 DEF s2s_create_region_handler, Present
  <2>2. CASE s2s_send_region_log_handler(t)
    BY <1>2, <2>2 DEF s2s_send_region_log_handler, Region
  <2>. QED
    BY <2>1, <2>2 DEF TargetStep
<1>10. OnlyThread0'
  BY <1>1, <1>2, <1>6 DEF SplitInv, OnlyThread0
<1>11. OnePlace'
  BY <1>1, <1>2, <1>3, <1>4, <1>7 DEF SplitInv, OnePlace
<1>12. Pending(split.nr) => Pending(split.nr)'
  BY <1>1, <1>4, <1>7, <1>8, <1>9 DEF Pending
<1>13. PendingInv'
  BY <1>1, <1>3, <1>4, <1>7, <1>12, AtWork DEF SplitInv, PendingInv
<1>14. FreshIds'
  <2>1. \A id \in RegionIds : id >= globalId => id # split.nr
    <3>1. globalId \in Nat /\ NumThreads \in Nat
      BY RegionAssumptions DEF SplitInv, TypeOK
    <3>2. split.nr \in NumThreads .. globalId - 1
      BY <1>1, AtWork
    <3>. QED
      BY <3>1, <3>2
  <2>. QED
    BY <1>1, <1>2, <1>6, <2>1 DEF SplitInv, FreshIds
<1>15. MapInv'
  <2>1. VisibleMap' = VisibleMap /\ ~MapLocked /\ ~MapLocked'
    BY <1>1, <1>3, <1>4 DEF VisibleMap, MapLocked
  <2>2. IsPartition(VisibleMap')
    BY <2>1 DEF SplitInv, MapInv
  <2>3. MapEntry(0, R0)' = MapEntry(0, R0)
    BY <1>7
  <2>. QED
    BY <1>1, <1>7, <2>1, <2>2, <2>3 DEF SplitInv, MapInv
<1>. QED
  BY <1>10, <1>11, <1>13, <1>14, <1>15 DEF SplitInv

\* A client's own steps.
LEMMA ClientKeeps ==
    ASSUME SplitInv, TypeOK', NEW c \in ClientIds, ClientStep(c)
    PROVE  SplitInv'
  BY AsideStep DEF ClientStep, init_client_ctx, send_request, resend_request,
                   handle_rpc_resp, Transmit, ServerUnchanged

\* The invariant is inductive.
LEMMA SplitInvInductive ==
    ASSUME ClientIds = {0}, SplitInv, [Next]_vars
    PROVE  SplitInv'
<1>1. TypeOK'
  BY TypeOKInductive DEF SplitInv
<1>2. CASE UNCHANGED vars
  BY <1>1, <1>2, AsideStep DEF vars
<1>3. ASSUME NEW t \in Threads, FgStep(t) \/ run_server_thread_end(t) PROVE SplitInv'
  BY <1>1, <1>3, FgKeeps
<1>4. ASSUME NEW t \in Threads, TargetStep(t) PROVE SplitInv'
  BY <1>1, <1>4, TargetKeeps
<1>5. CASE SplitStep
  BY <1>1, <1>5, PollKeeps, SplitMoves, ShrinkKeeps, PublishKeeps, LogRespKeeps,
     FinishKeeps DEF SplitStep
<1>6. ASSUME NEW c \in ClientIds, ClientStep(c) PROVE SplitInv'
  BY <1>1, <1>6, ClientKeeps
<1>. QED
  BY <1>2, <1>3, <1>4, <1>5, <1>6 DEF Next

\* The partition property follows from the invariant.
LEMMA PartitionFromInv == SplitInv => MapsArePartitions
  BY DEF SplitInv, MapInv, MapsArePartitions, VisibleMap

\* With the one client the server can keep, every map that a client can read
\* or holds gives each hash exactly one region (global_region_map, rpc_client.cc).
THEOREM PartitionsHold ==
    ASSUME ClientIds = {0}
    PROVE  Spec => []MapsArePartitions
<1>1. Init => SplitInv
  BY InitSplitInv
<1>2. SplitInv /\ [Next]_vars => SplitInv'
  BY SplitInvInductive
<1>3. SplitInv => MapsArePartitions
  BY PartitionFromInv
<1>. QED
  BY <1>1, <1>2, <1>3, PTL DEF Spec

\* A step that leaves the split thread, the map and the ranges alone leaves the
\* visible map alone.
LEMMA VisibleUnchanged ==
    ASSUME SplitInv, UNCHANGED globalMap, UNCHANGED split \/ (~MapLocked /\ ~MapLocked'),
           MapLocked => /\ Left'.start = Left.start
                        /\ Nr'.end = Nr.end
    PROVE  VisibleMap' = VisibleMap
<1>1. CASE MapLocked
  <2>1. UNCHANGED split
    BY <1>1
  <2>. QED
    BY <1>1, <2>1 DEF VisibleMap, MapLocked
<1>2. CASE ~MapLocked
  BY <1>2 DEF VisibleMap, MapLocked
<1>. QED
  BY <1>1, <1>2

\* The handlers leave the visible map alone: no region is cut while the map is
\* locked, because the split in progress is the only one.
LEMMA FgVisible ==
    ASSUME SplitInv, NEW t \in Threads, FgStep(t) \/ run_server_thread_end(t)
    PROVE  VisibleMap' = VisibleMap
<1>1. /\ TypeOK /\ region \in [Threads -> [RegionIds -> Region]]
      /\ fg[t].pc \notin {"idle", "stopped"} => fg[t].client \in RegionIds
  BY Constants, FgTyped DEF SplitInv, TypeOK
<1>. DEFINE Other == \/ \E c \in ClientIds : handler_begin(t, c) \/ read_region_map_handler(t, c)
                     \/ check_region_status(t) \/ handler_reject(t) \/ fs_mkdir_table(t)
                     \/ start_split(t) \/ check_region_and_split(t) \/ log_test(t)
                     \/ log_op_id(t) \/ log_op_put(t) \/ log_op_fail(t) \/ handler_reply(t)
                     \/ run_server_thread_end(t)
<1>5. StoreStep(t) \/ (\E ok \in BOOLEAN : Lookup(t, ok)) \/ Other
  BY <1>1, StoreSteps, LookupSteps DEF FgStep
<1>2. UNCHANGED <<globalMap, split>>
  BY <1>5 DEF StoreStep, Did, Lookup, run_server_thread_end, handler_begin,
         read_region_map_handler, Die, check_region_status, handler_reject, fs_mkdir_table,
         start_split, check_region_and_split, log_test, log_op_id, log_op_put, log_op_fail,
         handler_reply
<1>3. CASE ~MapLocked
  BY <1>2, <1>3, VisibleUnchanged DEF MapLocked
<1>4. CASE MapLocked
  <2>1. /\ split.pc # "poll" /\ split.ctx = 0 /\ split.left = 0 /\ 0 \in Threads
        /\ 0 \in RegionIds /\ split.nr \in RegionIds /\ fg[0].pc # "split"
    BY <1>4, AtWork DEF MapLocked
  <2>2. ~check_region_and_split(t)
    BY <2>1 DEF check_region_and_split, SplitInv, OnlyThread0
  <2>. DEFINE c == fg[t].client
  <2>3. \/ UNCHANGED region
        \/ /\ fg[t].pc \notin {"idle", "stopped"}
           /\ \E n : \/ region' = [region EXCEPT ![t][c].kvNum = n]
                     \/ region' = [region EXCEPT ![t][c].logId = n]
                     \/ region' = [region EXCEPT ![t][c].status = n]
    BY <1>5, <2>2 DEF StoreStep, StorePc, Did, Lookup, run_server_thread_end, handler_begin,
         read_region_map_handler, Die, check_region_status, handler_reject, fs_mkdir_table,
         start_split, log_test, log_op_id, log_op_put, log_op_fail, handler_reply, AddKv
  <2>. DEFINE SameRanges ==
          \A u \in Threads, id \in RegionIds :
              /\ region'[u][id].start = region[u][id].start
              /\ region'[u][id].end = region[u][id].end
  <2>4. SameRanges
    <3>1. CASE UNCHANGED region
      BY <3>1
    <3>2. ASSUME c \in RegionIds, NEW n, region' = [region EXCEPT ![t][c].kvNum = n] PROVE SameRanges
      BY <1>1, <3>2 DEF Region
    <3>3. ASSUME c \in RegionIds, NEW n, region' = [region EXCEPT ![t][c].logId = n] PROVE SameRanges
      BY <1>1, <3>3 DEF Region
    <3>4. ASSUME c \in RegionIds, NEW n, region' = [region EXCEPT ![t][c].status = n] PROVE SameRanges
      BY <1>1, <3>4 DEF Region
    <3>. QED
      BY <1>1, <2>3, <3>1, <3>2, <3>3, <3>4
  <2>5. Left'.start = Left.start /\ Nr'.end = Nr.end
    BY <1>2, <2>1, <2>4 DEF Left, Nr
  <2>. QED
    BY <1>2, <2>5, VisibleUnchanged
<1>. QED
  BY <1>3, <1>4

\* Every step maps to a split of one range or to none.
LEMMA StepImplementsOwnership ==
    ASSUME ClientIds = {0}, SplitInv, [Next]_vars
    PROVE  [Owners!Next]_VisibleMap
<1>1. TypeOK'
  BY TypeOKInductive DEF SplitInv
<1>2. CASE UNCHANGED vars
  BY <1>2 DEF vars, VisibleMap, MapLocked, Left, Nr
<1>3. ASSUME NEW t \in Threads, FgStep(t) \/ run_server_thread_end(t)
      PROVE  VisibleMap' = VisibleMap
  BY <1>3, FgVisible
<1>4. ASSUME NEW t \in Threads, TargetStep(t)
      PROVE  VisibleMap' = VisibleMap
  <2>1. /\ split.pc \in {"createReq", "logReq"} /\ split \in SplitState /\ UNCHANGED globalMap
        /\ (SplitGoto("createResp") \/ SplitGoto("logResp"))
    BY <1>4, AtWork DEF TargetStep, s2s_create_region_handler, s2s_send_region_log_handler
  <2>2. split'.pc # "publish"
    BY <2>1 DEF SplitGoto, SplitState
  <2>. QED
    BY <2>1, <2>2, VisibleUnchanged DEF MapLocked
<1>5. ASSUME NEW c \in ClientIds, ClientStep(c)
      PROVE  VisibleMap' = VisibleMap
  <2>1. UNCHANGED <<region, globalMap, split>>
    BY <1>5 DEF ClientStep, init_client_ctx, send_request, resend_request,
                handle_rpc_resp, Transmit, ServerUnchanged
  <2>. QED
    BY <2>1 DEF VisibleMap, MapLocked, Left, Nr
<1>6. CASE \E reason : Die(reason)
  BY <1>6 DEF Die, VisibleMap, MapLocked, Left, Nr
<1>7. CASE SplitStep /\ ~shrink_left /\ ~publish_halves /\ ~\E reason : Die(reason)
  <2>1. split \in SplitState /\ split.pc # "publish" /\ UNCHANGED globalMap
    BY <1>7 DEF SplitInv, TypeOK, SplitStep, split_region_thread, rpc_create_region,
                rpc_create_region_cb, rpc_send_region_dir, rpc_send_region_end, read_log,
                count_log_left, rpc_send_region_log_resp, finish_split
  <2>2. split'.pc # "publish"
    <3>1. CASE \E q \in Threads \X RegionIds : split_region_thread(q)
      BY <1>7, <2>1, <3>1 DEF SplitState, split_region_thread
    <3>2. CASE rpc_create_region \/ rpc_create_region_cb
      BY <1>7, <2>1, <3>2 DEF SplitState, rpc_create_region, rpc_create_region_cb
    <3>3. CASE (\E d \in split.todo : rpc_send_region_dir(d)) \/ rpc_send_region_end
      BY <1>7, <2>1, <3>3 DEF SplitState, rpc_send_region_dir, rpc_send_region_end
    <3>4. CASE read_log
      BY <1>7, <2>1, <3>4 DEF SplitState, read_log
    <3>5. CASE count_log_left
      BY <2>1, <3>5 DEF SplitState, count_log_left
    <3>6. CASE rpc_send_region_log_resp
      BY <2>1, <3>6 DEF SplitState, rpc_send_region_log_resp, SplitGoto
    <3>7. CASE finish_split
      BY <3>7 DEF finish_split, IdleSplit
    <3>. QED
      BY <1>7, <3>1, <3>2, <3>3, <3>4, <3>5, <3>6, <3>7 DEF SplitStep
  <2>. QED
    BY <2>1, <2>2, VisibleUnchanged DEF MapLocked
<1>8. CASE shrink_left
  BY <1>1, <1>8, ShrinkKeeps
<1>9. CASE publish_halves
  BY <1>1, <1>9, PublishKeeps
<1>. QED
  BY <1>2, <1>3, <1>4, <1>5, <1>6, <1>7, <1>8, <1>9 DEF Next

\* Seen by the clients, the splits of the server do what Ownership promises:
\* the upper part of one range moves at once to a region that owned nothing.
THEOREM SplitsImplementOwnership ==
    ASSUME ClientIds = {0}
    PROVE  Spec => ImplementsOwnership
<1>1. Init => Owners!Init
  BY DEF Init, Owners!Init, VisibleMap, MapLocked, IdleSplit
<1>2. Init => SplitInv
  BY InitSplitInv
<1>3. SplitInv /\ [Next]_vars => SplitInv'
  BY SplitInvInductive
<1>4. SplitInv /\ [Next]_vars => [Owners!Next]_VisibleMap
  BY StepImplementsOwnership
<1>. QED
  BY <1>1, <1>2, <1>3, <1>4, PTL DEF Spec, ImplementsOwnership, Owners!Spec
-----------------------------------------------------------------------------
(***************************************************************************)
(* The split pipeline, the log and the stores of the server: what holds    *)
(* for every set of clients, and, at the end, what holds for the first     *)
(* client.                                                                 *)
(***************************************************************************)
Busy(f) == f.pc \notin {"idle", "stopped"}

\* Every thread holds the region it registered and no other initial region, and
\* its handlers work on that one: a request of another client kills the process.
HomeInv ==
    /\ \A t, u \in Threads : t # u => ~Present(t, u)
    /\ \A t \in Threads : /\ region[t][t].status \in {"Normal", "IsSplit", "SplitAlmostDone"}
                          /\ Busy(fg[t]) => fg[t].client = t

\* A region id that a split has taken: it is used once, it leads to another
\* thread than the region's origin.
Taken(t, id) == id \in NumThreads .. globalId - 1 /\ Jump(id) # t

\* Region id is at thread t, cut off t's own region, and nowhere else.
Waiting(t, id) ==
    /\ Taken(t, id) /\ Present(t, id) /\ region[t][id].left = t
    /\ \A u \in Threads \ {t} : ~Present(u, id)

\* Ids on their way are distinct and known to the origin only, until the split
\* thread has asked the target to make the region.
IdsInv ==
    /\ NumThreads <= globalId
    /\ \A t \in Threads, id \in RegionIds : id >= globalId => ~Present(t, id)
    /\ \A i \in DOMAIN queue : Waiting(queue[i][1], queue[i][2])
    /\ \A i, j \in DOMAIN queue : queue[i][2] = queue[j][2] => i = j
    /\ split.pc # "poll" => /\ Taken(split.ctx, split.nr)
                            /\ \A i \in DOMAIN queue : queue[i][2] # split.nr
    /\ split.pc \in {"create", "createReq"} => Waiting(split.ctx, split.nr)
    /\ split.pc \notin {"poll", "reset"} => Present(split.ctx, split.nr)
    /\ split.pc \notin {"poll", "create"} => split.left = split.ctx

\* The split of a thread's region is with the foreground thread, in the queue or
\* with the split thread, once, exactly while the status says so.
Queued(t) == \E i \in DOMAIN queue : queue[i][1] = t
HolderOK(t) ==
    /\ fg[t].pc = "split" => ~Queued(t) /\ split.ctx # t
    /\ split.ctx = t => ~Queued(t)
    /\ region[t][t].status \in {"IsSplit", "SplitAlmostDone"} <=>
          (fg[t].pc = "split" \/ Queued(t) \/ split.ctx = t)
    /\ region[t][t].status = "SplitAlmostDone" => split.ctx = t
HolderInv ==
    /\ \A i, j \in DOMAIN queue : queue[i][1] = queue[j][1] => i = j
    /\ \A t \in Threads : HolderOK(t)

\* Two regions with the same range.
SameRange(r, q) == r.start = q.start /\ r.end = q.end

\* The map agrees with the threads; so does the target of a split with the
\* region that the map is about to show.
MatchInv ==
    /\ MapMatchesServers
    /\ \A t \in Threads : (\E r \in globalMap : r.id = t) \/ (MapLocked /\ split.ctx = t)
    /\ split.pc \notin {"poll", "create", "createReq", "reset"} =>
          Present(Target, split.nr) /\ SameRange(region[Target][split.nr], Nr)

\* A split-off region is served only when the map shows it, and the map shows it
\* once the origin refuses requests.
PublishedInv ==
    /\ \A id \in RegionIds :
          id >= NumThreads /\ Serving(region[Jump(id)][id].status) =>
              \E r \in globalMap : r.id = id
    /\ split.pc # "poll" /\ region[split.ctx][split.ctx].status = "SplitAlmostDone" =>
          \E r \in globalMap : r.id = split.nr
    /\ split.pc \in {"logReq", "logResp"} /\ split.logStatus # "FarToDone" =>
          region[split.ctx][split.ctx].status = "SplitAlmostDone"

PipeInv ==
    TypeOK /\ HomeInv /\ IdsInv /\ HolderInv /\ MatchInv /\ PublishedInv /\ PipelineAssertsHold

\* A record is being written at the end of the log or before it, and below the
\* next log id, unless a split has ended meanwhile.
LogInv ==
    \A t \in Threads :
        IF fg[t].pc = "put"
        THEN fg[t].logAt <= Len(logDb[t]) /\ region[t][t].logId \in {0, fg[t].logAt + 1}
        ELSE region[t][t].logId <= Len(logDb[t])

\* The types in the form the proofs use them.
LEMMA PipeFacts ==
    ASSUME PipeInv
    PROVE  /\ region \in [Threads -> [RegionIds -> Region]]
           /\ \A t \in Threads, id \in RegionIds : region[t][id] \in Region
           /\ globalId \in Nat /\ NumThreads \in Nat /\ NumThreads > 0
           /\ Threads \subseteq RegionIds /\ RegionIds \subseteq Nat /\ Threads \subseteq Nat
           /\ \A i \in DOMAIN queue : queue[i] \in Threads \X RegionIds
           /\ \A i \in DOMAIN queue : queue[i][1] \in Threads /\ queue[i][2] \in RegionIds
           /\ \A id \in RegionIds : Jump(id) \in Threads /\ SessionOf(id) \in Threads
           /\ split \in SplitState
           /\ split.pc # "poll" => split.ctx \in Threads /\ split.nr \in RegionIds
           /\ \A r \in globalMap : r.id \in RegionIds /\ r \in ClientRegion
           /\ \A t \in Threads : t < NumThreads
           /\ None \notin Threads
           /\ split.pc = "poll" => split.ctx = None
<1>1. /\ region \in [Threads -> [RegionIds -> Region]]
      /\ globalId \in 0 .. MaxRegionId + 1
      /\ queue \in Seq(Threads \X RegionIds) /\ split \in SplitState
      /\ split.pc # "poll" => split.ctx \in Threads /\ split.nr \in RegionIds
      /\ globalMap \in SUBSET ClientRegion
      /\ split.pc = "poll" => split = IdleSplit
  BY DEF PipeInv, TypeOK
<1>2. NumThreads \in Nat /\ NumThreads > 0
  BY RegionAssumptions
<1>3. Threads \subseteq RegionIds /\ RegionIds \subseteq Nat /\ Threads \subseteq Nat
      /\ MaxRegionId \in Nat
  BY Constants
<1>4. \A id \in RegionIds : Jump(id) \in Threads /\ SessionOf(id) \in Threads
  BY Constants, RegionAssumptions
<1>5. \A i \in DOMAIN queue : queue[i] \in Threads \X RegionIds
  BY <1>1
<1>6. \A r \in globalMap : r.id \in RegionIds /\ r \in ClientRegion
  BY <1>1 DEF ClientRegion
<1>7. \A t \in Threads : t < NumThreads
  BY <1>2 DEF Threads
<1>8. None \notin Threads
  BY <1>3 DEF None
<1>9. split.pc = "poll" => split.ctx = None
  BY <1>1 DEF IdleSplit
<1>10. \A i \in DOMAIN queue : queue[i][1] \in Threads /\ queue[i][2] \in RegionIds
  BY <1>5
<1>11. globalId \in Nat
  BY <1>1, <1>3
<1>12. \A t \in Threads, id \in RegionIds : region[t][id] \in Region
  BY <1>1
<1>. QED
  BY <1>1, <1>2, <1>3, <1>4, <1>5, <1>6, <1>7, <1>8, <1>9, <1>10, <1>11, <1>12

\* The ranges, origins and statuses of all regions stay.
RegionsStay ==
    \A t \in Threads, id \in RegionIds :
        /\ region'[t][id].start = region[t][id].start
        /\ region'[t][id].end = region[t][id].end
        /\ region'[t][id].left = region[t][id].left
        /\ region'[t][id].status = region[t][id].status

\* Steps that the pipeline does not notice.
QuietServer ==
    /\ UNCHANGED <<globalMap, globalId, queue, split>> /\ RegionsStay
    /\ crash' \in {crash, "null region", "p_assert(false) in rpc_send_region",
                   "range too small", "write log fail"}
    /\ \A t \in Threads : /\ fg'[t].pc = "split" <=> fg[t].pc = "split"
                          /\ Busy(fg'[t]) => fg'[t].client = t

\* A quiet step keeps the invariant.
LEMMA QuietServerKeeps ==
    ASSUME PipeInv, TypeOK', QuietServer
    PROVE  PipeInv'
<1>. USE PipeFacts
<1>1. \A t \in Threads, id \in RegionIds :
          /\ Present(t, id)' <=> Present(t, id)
          /\ region'[t][id].status = region[t][id].status
          /\ region'[t][id].left = region[t][id].left
          /\ region'[t][id].start = region[t][id].start
          /\ region'[t][id].end = region[t][id].end
  BY DEF QuietServer, RegionsStay, Present
<1>2. UNCHANGED <<globalMap, globalId, queue, split>>
  BY DEF QuietServer
<1>3. HomeInv'
  BY <1>1 DEF PipeInv, HomeInv, QuietServer
<1>4. \A t \in Threads, id \in RegionIds : Waiting(t, id)' <=> Waiting(t, id)
  BY <1>1, <1>2 DEF Waiting, Taken
<1>5. IdsInv'
  <2>1. \A t \in Threads, id \in RegionIds : id >= globalId' => ~Present(t, id)'
    BY <1>1, <1>2 DEF PipeInv, IdsInv
  <2>2. \A i \in DOMAIN queue' : Waiting(queue[i][1], queue[i][2])'
    BY <1>2, <1>4 DEF PipeInv, IdsInv
  <2>3. split.pc \notin {"poll", "reset"} => Present(split.ctx, split.nr)'
    BY <1>1, <1>2 DEF PipeInv, IdsInv
  <2>4. split.pc \in {"create", "createReq"} => Waiting(split.ctx, split.nr)'
    BY <1>2, <1>4 DEF PipeInv, IdsInv
  <2>. QED
    BY <1>2, <2>1, <2>2, <2>3, <2>4 DEF PipeInv, IdsInv, Taken
<1>6. HolderInv'
  <2>1. \A t \in Threads : Queued(t)' <=> Queued(t)
    BY <1>2 DEF Queued
  <2>2. \A t \in Threads : fg'[t].pc = "split" <=> fg[t].pc = "split"
    BY DEF QuietServer
  <2>3. \A t \in Threads : region'[t][t].status = region[t][t].status
    BY <1>1
  <2>. QED
    BY <1>2, <2>1, <2>2, <2>3 DEF PipeInv, HolderInv, HolderOK
<1>7. MatchInv'
  <2>1. MapMatchesServers'
    <3>. SUFFICES ASSUME NEW r \in globalMap
                  PROVE  /\ Present(SessionOf(r.id), r.id)'
                         /\ MapEntry(r.id, region'[SessionOf(r.id)][r.id]) = r
      BY <1>2 DEF MapMatchesServers
    <3>1. /\ Present(SessionOf(r.id), r.id)
          /\ MapEntry(r.id, region[SessionOf(r.id)][r.id]) = r
      BY DEF PipeInv, MatchInv, MapMatchesServers
    <3>. QED
      BY <1>1, <3>1 DEF MapEntry
  <2>2. \A t \in Threads : (\E r \in globalMap' : r.id = t) \/ (MapLocked' /\ split'.ctx = t)
    BY <1>2 DEF PipeInv, MatchInv, MapLocked
  <2>3. split'.pc \notin {"poll", "create", "createReq", "reset"} =>
            Present(Target, split.nr)' /\ SameRange(region[Target][split.nr], Nr)'
    BY <1>1, <1>2 DEF PipeInv, MatchInv, Target, SameRange, Nr
  <2>. QED
    BY <1>2, <2>1, <2>2, <2>3 DEF MatchInv
<1>8. PublishedInv'
  BY <1>1, <1>2 DEF PipeInv, PublishedInv
<1>9. PipelineAssertsHold'
  BY DEF PipeInv, PipelineAssertsHold, QuietServer
<1>. QED
  BY <1>3, <1>5, <1>6, <1>7, <1>8, <1>9 DEF PipeInv

\* What a step of the foreground thread t does to its own state: it goes on with
\* its request, or it takes one for a region that it has.
OwnStep(t) ==
    /\ \A u \in Threads \ {t} : fg'[u] = fg[u]
    /\ Busy(fg'[t]) => \/ Busy(fg[t]) /\ fg'[t].client = fg[t].client
                       \/ fg'[t].client \in ClientIds /\ Present(t, fg'[t].client)

\* Steps of a handler that touch neither the region nor the store nor the log.
PlainStep(t) ==
    /\ OwnStep(t) /\ fg[t].pc \notin {"split", "put"} /\ fg'[t].pc \notin {"split", "put"}
    /\ UNCHANGED <<region, globalMap, globalId, queue, store, allocInode, logDb,
                   split, crash>>

\* Steps of a handler that kill the process.
DieStep == Die("null region") \/ Die("write log fail")

\* Moving on within a handler is such a step.
LEMMA GotoOwn ==
    ASSUME TypeOK, NEW t \in Threads, NEW pc, Goto(t, pc), Busy(fg[t]) \/ pc = "stopped"
    PROVE  OwnStep(t) /\ fg'[t].pc = pc
<1>1. fg \in [Threads -> FgState] /\ fg[t] \in FgState
  BY FgTyped
<1>2. fg' = [fg EXCEPT ![t] = [fg[t] EXCEPT !.pc = pc]]
  BY <1>1 DEF Goto
<1>3. [fg[t] EXCEPT !.pc = pc].pc = pc /\ [fg[t] EXCEPT !.pc = pc].client = fg[t].client
  BY <1>1 DEF FgState
<1>4. fg'[t].pc = pc /\ fg'[t].client = fg[t].client /\ \A u \in Threads \ {t} : fg'[u] = fg[u]
  BY <1>1, <1>2, <1>3
<1>. QED
  BY <1>4 DEF OwnStep, Busy

\* So is setting the response.
LEMMA ReplyOwn ==
    ASSUME TypeOK, NEW t \in Threads, NEW resp, Reply(t, resp), Busy(fg[t])
    PROVE  OwnStep(t) /\ fg'[t].pc = "reply"
<1>1. fg \in [Threads -> FgState] /\ fg[t] \in FgState
  BY FgTyped
<1>. DEFINE new == [fg[t] EXCEPT !.pc = "reply", !.resp = resp]
<1>2. fg' = [fg EXCEPT ![t] = new]
  BY <1>1 DEF Reply
<1>3. new.pc = "reply" /\ new.client = fg[t].client
  BY <1>1 DEF FgState
<1>. HIDE DEF new
<1>4. fg'[t].pc = "reply" /\ fg'[t].client = fg[t].client /\ \A u \in Threads \ {t} : fg'[u] = fg[u]
  BY <1>1, <1>2, <1>3
<1>. QED
  BY <1>4 DEF OwnStep

\* The steps of a foreground thread, by what they change.
LEMMA FgShape ==
    ASSUME TypeOK, NEW t \in Threads, FgStep(t) \/ run_server_thread_end(t)
    PROVE  \/ DieStep \/ PlainStep(t) \/ StoreStep(t)
           \/ start_split(t) \/ check_region_and_split(t) \/ log_op_id(t) \/ log_op_put(t)
<1>1. fg \in [Threads -> FgState] /\ fg[t] \in FgState
  BY FgTyped
<1>2. ASSUME NEW c \in ClientIds, handler_begin(t, c), ~Die("null region") PROVE PlainStep(t)
  <2>1. PICK b : fg' = [fg EXCEPT ![t] = [IdleFg EXCEPT !.pc = "status", !.client = c,
                                                        !.belongs = b]]
    BY <1>2 DEF handler_begin
  <2>. DEFINE new == [IdleFg EXCEPT !.pc = "status", !.client = c, !.belongs = b]
  <2>2. new.pc = "status" /\ new.client = c
    BY DEF IdleFg
  <2>. HIDE DEF new
  <2>3. fg'[t] = new /\ \A u \in Threads \ {t} : fg'[u] = fg[u]
    BY <1>1, <2>1 DEF new
  <2>4. /\ fg[t].pc = "idle" /\ Present(t, c)
        /\ UNCHANGED <<region, globalMap, globalId, queue, store, allocInode, logDb,
                       split, crash>>
    BY <1>2 DEF handler_begin
  <2>. QED
    BY <2>2, <2>3, <2>4 DEF PlainStep, OwnStep
<1>3. ASSUME NEW c \in ClientIds, read_region_map_handler(t, c) PROVE PlainStep(t)
  BY <1>3 DEF read_region_map_handler, PlainStep, OwnStep, Busy
<1>4. CASE run_server_thread_end(t)
  <2>1. OwnStep(t) /\ fg'[t].pc = "stopped" /\ fg[t].pc = "idle"
    BY <1>4, GotoOwn DEF run_server_thread_end
  <2>. QED
    BY <1>4, <2>1 DEF run_server_thread_end, PlainStep
<1>5. CASE check_region_status(t)
  <2>1. PICK pc : pc \notin {"split", "put"} /\ Goto(t, pc) /\ fg[t].pc = "status"
    BY <1>5 DEF check_region_status
  <2>2. OwnStep(t) /\ fg'[t].pc = pc
    BY <2>1, GotoOwn DEF Busy
  <2>. QED
    BY <1>5, <2>1, <2>2 DEF check_region_status, PlainStep
<1>6. CASE handler_reject(t)
  <2>1. OwnStep(t) /\ fg'[t].pc = "reply" /\ fg[t].pc = "reject"
    BY <1>6, ReplyOwn DEF handler_reject, Busy
  <2>. QED
    BY <1>6, <2>1 DEF handler_reject, PlainStep
<1>7. CASE \/ fs_mknod_exec(t) \/ fs_mkdir_exec(t) \/ insert_stat(t)
           \/ fs_unlink_exec(t) \/ delete_stat(t)
  BY <1>7, StoreSteps
<1>8. ASSUME fg[t].pc = "exec", NEW ok \in BOOLEAN, Lookup(t, ok) PROVE PlainStep(t)
  BY <1>8, ReplyOwn DEF PlainStep, Lookup, Busy
<1>9. CASE \/ fs_rmdir_exec(t)
           \/ fs_open_exec(t) \/ fs_stat_exec(t) \/ fs_getinode_exec(t) \/ fs_readdir_exec(t)
  BY <1>8, <1>9, LookupSteps
<1>10. CASE log_test(t)
  <2>1. PICK pc \in {"logId", "reply"} : Goto(t, pc) /\ fg[t].pc = "log"
    BY <1>10 DEF log_test
  <2>2. OwnStep(t) /\ fg'[t].pc = pc
    BY <2>1, GotoOwn DEF Busy
  <2>. QED
    BY <1>10, <2>1, <2>2 DEF log_test, PlainStep
<1>13. CASE log_op_fail(t)
  BY <1>13 DEF log_op_fail, DieStep
<1>11. CASE fs_mkdir_table(t)
  <2>1. OwnStep(t) /\ fg'[t].pc = "cas" /\ fg[t].pc = "table"
    BY <1>11, GotoOwn DEF fs_mkdir_table, Busy
  <2>. QED
    BY <1>11, <2>1 DEF fs_mkdir_table, PlainStep
<1>12. CASE handler_reply(t)
  <2>1. fg' = [fg EXCEPT ![t] = IdleFg] /\ fg[t].pc = "reply"
    BY <1>12 DEF handler_reply
  <2>2. fg'[t] = IdleFg /\ \A u \in Threads \ {t} : fg'[u] = fg[u]
    BY <1>1, <2>1
  <2>3. ~Busy(IdleFg) /\ IdleFg.pc = "idle"
    BY DEF Busy, IdleFg
  <2>. QED
    BY <1>12, <2>1, <2>2, <2>3 DEF handler_reply, PlainStep, OwnStep
<1>. QED
  BY <1>2, <1>3, <1>4, <1>5, <1>6, <1>7, <1>9, <1>10, <1>11, <1>12, <1>13 DEF FgStep, DieStep

\* The handler of thread t is at work on the region t.
LEMMA AtHome ==
    ASSUME PipeInv, NEW t \in Threads, OwnStep(t)
    PROVE  \A u \in Threads : Busy(fg'[u]) => fg'[u].client = u
<1>1. \A c \in ClientIds : c \in Threads
  BY Constants
<1>2. Busy(fg'[t]) => fg'[t].client = t
  BY <1>1 DEF PipeInv, HomeInv, OwnStep
<1>. QED
  BY <1>2 DEF PipeInv, HomeInv, OwnStep

\* kv_num and log_id do not matter to the pipeline.
LEMMA CountersStay ==
    ASSUME PipeInv, NEW t \in Threads, Busy(fg[t]),
           \/ UNCHANGED region
           \/ \E n : region' = [region EXCEPT ![t][fg[t].client].kvNum = n]
           \/ \E n : region' = [region EXCEPT ![t][fg[t].client].logId = n]
    PROVE  RegionsStay
<1>1. fg[t].client = t /\ t \in RegionIds
  BY PipeFacts DEF PipeInv, HomeInv
<1>2. CASE UNCHANGED region
  BY <1>2 DEF RegionsStay
<1>3. CASE \E n : region' = [region EXCEPT ![t][fg[t].client].kvNum = n]
  <2>1. PICK n : region' = [region EXCEPT ![t][t].kvNum = n]
    BY <1>1, <1>3
  <2>2. /\ region'[t][t] = [region[t][t] EXCEPT !.kvNum = n]
        /\ \A u \in Threads, id \in RegionIds : u # t \/ id # t => region'[u][id] = region[u][id]
    BY <1>1, <2>1, PipeFacts
  <2>3. region[t][t] \in Region
    BY <1>1, PipeFacts
  <2>4. /\ region'[t][t].start = region[t][t].start /\ region'[t][t].end = region[t][t].end
        /\ region'[t][t].left = region[t][t].left /\ region'[t][t].status = region[t][t].status
    BY <2>2, <2>3 DEF Region
  <2>. QED
    BY <2>2, <2>4 DEF RegionsStay
<1>4. CASE \E n : region' = [region EXCEPT ![t][fg[t].client].logId = n]
  <2>1. PICK n : region' = [region EXCEPT ![t][t].logId = n]
    BY <1>1, <1>4
  <2>2. /\ region'[t][t] = [region[t][t] EXCEPT !.logId = n]
        /\ \A u \in Threads, id \in RegionIds : u # t \/ id # t => region'[u][id] = region[u][id]
    BY <1>1, <2>1, PipeFacts
  <2>3. region[t][t] \in Region
    BY <1>1, PipeFacts
  <2>4. /\ region'[t][t].start = region[t][t].start /\ region'[t][t].end = region[t][t].end
        /\ region'[t][t].left = region[t][t].left /\ region'[t][t].status = region[t][t].status
    BY <2>2, <2>3 DEF Region
  <2>. QED
    BY <2>2, <2>4 DEF RegionsStay
<1>. QED
  BY <1>2, <1>3, <1>4

\* What a step around a call of the store does to the threads.
LEMMA DidOwn ==
    ASSUME TypeOK, NEW t \in Threads, NEW db, NEW resp, NEW inode, NEW kv, NEW pc,
           Did(t, db, resp, inode, kv, pc)
    PROVE  /\ fg'[t].pc = pc /\ fg'[t].resp = resp /\ fg'[t].inode = inode
           /\ fg'[t].client = fg[t].client
           /\ \A u \in Threads \ {t} : fg'[u] = fg[u]
<1>1. fg \in [Threads -> FgState] /\ fg[t] \in FgState
  BY FgTyped
<1>. DEFINE new == [fg[t] EXCEPT !.pc = pc, !.resp = resp, !.inode = inode]
<1>2. new.pc = pc /\ new.resp = resp /\ new.inode = inode /\ new.client = fg[t].client
  BY <1>1 DEF FgState
<1>3. fg' = [fg EXCEPT ![t] = new]
  BY <1>1 DEF Did
<1>. HIDE DEF new
<1>4. fg'[t] = new /\ \A u \in Threads \ {t} : fg'[u] = fg[u]
  BY <1>1, <1>3
<1>. QED
  BY <1>2, <1>4

\* Such a step, seen by the pipeline and the log.
LEMMA StoreOwn ==
    ASSUME TypeOK, NEW t \in Threads, StoreStep(t)
    PROVE  /\ OwnStep(t) /\ Busy(fg[t]) /\ fg[t].pc \notin {"split", "put"}
           /\ fg'[t].pc \notin {"split", "put"} /\ \E kv : AddKv(t, kv)
           /\ UNCHANGED <<globalMap, globalId, queue, logDb, split, client, crash>>
<1>1. PICK db \in Store, resp \in Responses, inode \in Inode, kv \in {-1, 0, 1},
           pc \in {"addstat", "delstat", "table", "cas", "log"} :
           Did(t, db, resp, inode, kv, pc)
  BY DEF StoreStep
<1>2. /\ fg'[t].pc = pc /\ fg'[t].client = fg[t].client
      /\ \A u \in Threads \ {t} : fg'[u] = fg[u]
  BY <1>1, DidOwn
<1>3. fg[t].pc \in StorePc
  BY DEF StoreStep
<1>4. OwnStep(t) /\ Busy(fg[t])
  BY <1>2, <1>3 DEF OwnStep, Busy, StorePc
<1>. QED
  BY <1>1, <1>2, <1>3, <1>4 DEF Did, StorePc

\* log_op takes the id of the region; then it writes.
LEMMA LogIdOwn ==
    ASSUME TypeOK, NEW t \in Threads, log_op_id(t)
    PROVE  /\ OwnStep(t) /\ Busy(fg[t]) /\ fg[t].pc = "logId"
           /\ fg'[t].pc = "put" /\ fg'[t].logAt = MyRegion(t).logId
           /\ fg'[t].resp = fg[t].resp /\ fg'[t].inode = fg[t].inode
           /\ region' = [region EXCEPT ![t][fg[t].client].logId = @ + 1]
<1>1. fg \in [Threads -> FgState] /\ fg[t] \in FgState /\ fg[t].pc = "logId" /\ Busy(fg[t])
  BY FgTyped DEF log_op_id, Busy
<1>2. PICK a : a = MyRegion(t).logId
  OBVIOUS
<1>. DEFINE new == [fg[t] EXCEPT !.pc = "put", !.logAt = a]
<1>3. /\ new.pc = "put" /\ new.logAt = a /\ new.client = fg[t].client
      /\ new.resp = fg[t].resp /\ new.inode = fg[t].inode
  BY <1>1 DEF FgState
<1>4. fg' = [fg EXCEPT ![t] = new]
  BY <1>1, <1>2 DEF log_op_id
<1>. HIDE DEF new
<1>5. fg'[t] = new /\ \A u \in Threads \ {t} : fg'[u] = fg[u]
  BY <1>1, <1>4
<1>. QED
  BY <1>1, <1>2, <1>3, <1>5 DEF OwnStep, log_op_id

\* Writing the record leads to the answer.
LEMMA LogPutOwn ==
    ASSUME TypeOK, NEW t \in Threads, log_op_put(t)
    PROVE  OwnStep(t) /\ Busy(fg[t]) /\ fg[t].pc = "put" /\ fg'[t].pc = "reply"
  BY GotoOwn DEF log_op_put, Busy

\* All steps of the handlers but the start of a split are quiet.
LEMMA FgQuietServer ==
    ASSUME PipeInv, NEW t \in Threads,
           \/ DieStep \/ PlainStep(t) \/ StoreStep(t) \/ log_op_id(t) \/ log_op_put(t)
    PROVE  QuietServer
<1>1. TypeOK
  BY DEF PipeInv
<1>2. ASSUME OwnStep(t), fg[t].pc # "split", fg'[t].pc # "split", RegionsStay,
             UNCHANGED <<globalMap, globalId, queue, split, crash>>
      PROVE  QuietServer
  BY <1>2, AtHome DEF QuietServer, OwnStep
<1>3. CASE DieStep
  BY <1>3 DEF DieStep, Die, QuietServer, RegionsStay, PipeInv, HomeInv
<1>4. CASE PlainStep(t)
  BY <1>2, <1>4 DEF PlainStep, RegionsStay
<1>5. CASE StoreStep(t)
  <2>1. \E n : region' = [region EXCEPT ![t][fg[t].client].kvNum = n]
    BY <1>1, <1>5, StoreOwn DEF AddKv
  <2>. QED
    BY <1>1, <1>2, <1>5, <2>1, StoreOwn, CountersStay
<1>7. CASE log_op_id(t)
  <2>1. /\ OwnStep(t) /\ Busy(fg[t]) /\ fg[t].pc # "split" /\ fg'[t].pc # "split"
        /\ \E n : region' = [region EXCEPT ![t][fg[t].client].logId = n]
    BY <1>1, <1>7, LogIdOwn
  <2>2. UNCHANGED <<globalMap, globalId, queue, split, crash>>
    BY <1>7 DEF log_op_id
  <2>. QED
    BY <1>2, <2>1, <2>2, CountersStay
<1>8. CASE log_op_put(t)
  <2>1. UNCHANGED <<region, globalMap, globalId, queue, split, crash>>
    BY <1>8 DEF log_op_put
  <2>. QED
    BY <1>1, <1>2, <1>8, <2>1, LogPutOwn DEF RegionsStay
<1>. QED
  BY <1>3, <1>4, <1>5, <1>7, <1>8

\* Steps that change no region but for statuses that stay present, and that
\* leave queue, ids, map and the split thread alone, keep these parts.
LEMMA FrameParts ==
    ASSUME PipeInv, UNCHANGED <<globalMap, globalId, queue, split>>,
           \A t \in Threads, id \in RegionIds :
              /\ Present(t, id)' <=> Present(t, id)
              /\ region'[t][id].left = region[t][id].left
              /\ SameRange(region'[t][id], region[t][id])
    PROVE  IdsInv' /\ MatchInv'
<1>. USE PipeFacts
<1>1. \A t \in Threads, id \in RegionIds : Waiting(t, id)' <=> Waiting(t, id)
  BY DEF Waiting, Taken
<1>2. IdsInv'
  <2>1. \A t \in Threads, id \in RegionIds : id >= globalId' => ~Present(t, id)'
    BY DEF PipeInv, IdsInv
  <2>2. \A i \in DOMAIN queue' : Waiting(queue[i][1], queue[i][2])'
    BY <1>1 DEF PipeInv, IdsInv
  <2>3. split.pc \notin {"poll", "reset"} => Present(split.ctx, split.nr)'
    BY DEF PipeInv, IdsInv
  <2>4. split.pc \in {"create", "createReq"} => Waiting(split.ctx, split.nr)'
    BY <1>1 DEF PipeInv, IdsInv
  <2>. QED
    BY <2>1, <2>2, <2>3, <2>4 DEF PipeInv, IdsInv, Taken
<1>3. MapMatchesServers'
  <2>. SUFFICES ASSUME NEW r \in globalMap
                PROVE  /\ Present(SessionOf(r.id), r.id)'
                       /\ MapEntry(r.id, region'[SessionOf(r.id)][r.id]) = r
    BY DEF MapMatchesServers
  <2>1. /\ Present(SessionOf(r.id), r.id)
        /\ MapEntry(r.id, region[SessionOf(r.id)][r.id]) = r
    BY DEF PipeInv, MatchInv, MapMatchesServers
  <2>. QED
    BY <2>1 DEF MapEntry, SameRange
<1>4. MatchInv'
  <2>1. \A t \in Threads : (\E r \in globalMap' : r.id = t) \/ (MapLocked' /\ split'.ctx = t)
    BY DEF PipeInv, MatchInv, MapLocked
  <2>2. split'.pc \notin {"poll", "create", "createReq", "reset"} =>
            Present(Target, split.nr)' /\ SameRange(region[Target][split.nr], Nr)'
    BY DEF PipeInv, MatchInv, Target, SameRange, Nr
  <2>. QED
    BY <1>3, <2>1, <2>2 DEF MatchInv
<1>. QED
  BY <1>2, <1>4

\* The compare-and-swap: a region whose split nobody holds gets into the hands
\* of its foreground thread.
LEMMA StartSplitPipe ==
    ASSUME PipeInv, TypeOK', NEW t \in Threads, start_split(t)
    PROVE  PipeInv'
<1>. USE PipeFacts
<1>1. TypeOK /\ Busy(fg[t]) /\ fg[t].client = t /\ fg[t].pc = "cas" /\ t \in RegionIds
  BY DEF PipeInv, HomeInv, start_split, Busy
<1>2. UNCHANGED <<globalMap, globalId, queue, split, crash>>
  BY DEF start_split
<1>3. CASE UNCHANGED region /\ Goto(t, "log")
  <2>1. OwnStep(t) /\ fg'[t].pc # "split"
    BY <1>1, <1>3, GotoOwn
  <2>2. QuietServer
    BY <1>1, <1>2, <1>3, <2>1, AtHome DEF QuietServer, OwnStep, RegionsStay
  <2>. QED
    BY <2>2, QuietServerKeeps
<1>4. CASE /\ MyRegion(t).status = "Normal" /\ Goto(t, "split")
           /\ region' = [region EXCEPT ![t][fg[t].client].status = "IsSplit"]
  <2>1. OwnStep(t) /\ fg'[t].pc = "split"
    BY <1>1, <1>4, GotoOwn
  <2>2. \A u \in Threads : Busy(fg'[u]) => fg'[u].client = u
    BY <2>1, AtHome
  <2>3. /\ region'[t][t] = [region[t][t] EXCEPT !.status = "IsSplit"]
        /\ \A u \in Threads, id \in RegionIds : u # t \/ id # t => region'[u][id] = region[u][id]
    BY <1>1, <1>4
  <2>4. region[t][t] \in Region /\ region[t][t].status = "Normal"
    BY <1>1, <1>4 DEF MyRegion
  <2>5. /\ region'[t][t].start = region[t][t].start /\ region'[t][t].end = region[t][t].end
        /\ region'[t][t].left = region[t][t].left /\ region'[t][t].status = "IsSplit"
    BY <2>3, <2>4 DEF Region
  <2>6. \A u \in Threads, id \in RegionIds :
            /\ Present(u, id)' <=> Present(u, id)
            /\ region'[u][id].left = region[u][id].left
            /\ SameRange(region'[u][id], region[u][id])
    BY <2>3, <2>4, <2>5 DEF Present, SameRange
  <2>7. IdsInv' /\ MatchInv'
    BY <1>2, <2>6, FrameParts
  <2>8. HomeInv'
    <3>1. \A u \in Threads \ {t} : region'[u][u] = region[u][u]
      BY <2>3
    <3>2. \A u \in Threads : region'[u][u].status \in {"Normal", "IsSplit", "SplitAlmostDone"}
      BY <2>5, <3>1 DEF PipeInv, HomeInv
    <3>. QED
      BY <2>2, <2>6, <3>2 DEF PipeInv, HomeInv
  <2>9. HolderInv'
    <3>1. \A u \in Threads : Queued(u)' <=> Queued(u)
      BY <1>2 DEF Queued
    <3>2. ~Queued(t) /\ split.ctx # t
      BY <2>4 DEF PipeInv, HolderInv, HolderOK
    <3>3. \A u \in Threads \ {t} : fg'[u] = fg[u] /\ region'[u][u] = region[u][u]
      BY <2>1, <2>3 DEF OwnStep
    <3>4. \A u \in Threads \ {t} : HolderOK(u)'
      BY <1>2, <3>1, <3>3 DEF PipeInv, HolderInv, HolderOK
    <3>5. HolderOK(t)'
      BY <1>2, <2>1, <2>5, <3>1, <3>2 DEF HolderOK
    <3>. QED
      BY <1>2, <3>4, <3>5 DEF PipeInv, HolderInv
  <2>10. PublishedInv'
    <3>1. \A id \in RegionIds : id >= NumThreads => region'[Jump(id)][id] = region[Jump(id)][id]
      BY <2>3
    <3>2. split.pc # "poll" => region'[split.ctx][split.ctx] = region[split.ctx][split.ctx]
      <4>1. split.ctx # t
        BY <2>4 DEF PipeInv, HolderInv, HolderOK
      <4>. QED
        BY <2>3, <4>1
    <3>. QED
      BY <1>2, <3>1, <3>2 DEF PipeInv, PublishedInv
  <2>11. PipelineAssertsHold'
    BY <1>2 DEF PipeInv, PipelineAssertsHold
  <2>. QED
    BY <2>7, <2>8, <2>9, <2>10, <2>11 DEF PipeInv
<1>. QED
  BY <1>3, <1>4 DEF start_split

\* The queue after an entry has been added.
LEMMA QueueAppend ==
    ASSUME PipeInv, NEW t \in Threads, NEW id \in RegionIds, queue' = Append(queue, <<t, id>>)
    PROVE  /\ Len(queue) \in Nat /\ DOMAIN queue = 1 .. Len(queue)
           /\ DOMAIN queue' = 1 .. Len(queue) + 1
           /\ \A i \in DOMAIN queue : i \in DOMAIN queue' /\ queue'[i] = queue[i]
           /\ queue'[Len(queue) + 1] = <<t, id>>
           /\ \A i \in DOMAIN queue' : i \in DOMAIN queue \/ i = Len(queue) + 1
           /\ \A i \in DOMAIN queue' : \/ i \in DOMAIN queue /\ queue'[i] = queue[i]
                                       \/ queue'[i][1] = t /\ queue'[i][2] = id
<1>1. queue \in Seq(Threads \X RegionIds)
  BY DEF PipeInv, TypeOK
<1>2. /\ Len(queue) \in Nat /\ DOMAIN queue = 1 .. Len(queue)
      /\ Len(queue') = Len(queue) + 1 /\ queue' \in Seq(Threads \X RegionIds)
      /\ \A i \in 1 .. Len(queue) : queue'[i] = queue[i]
      /\ queue'[Len(queue) + 1] = <<t, id>>
  BY <1>1
<1>3. DOMAIN queue' = 1 .. Len(queue) + 1
  BY <1>2
<1>4. \A i \in DOMAIN queue' : i \in DOMAIN queue \/ i = Len(queue) + 1
  BY <1>2, <1>3
<1>5. queue'[Len(queue) + 1][1] = t /\ queue'[Len(queue) + 1][2] = id
  BY <1>2
<1>6. \A i \in DOMAIN queue : i \in DOMAIN queue' /\ queue'[i] = queue[i]
  BY <1>2, <1>3
<1>7. \A i \in DOMAIN queue' : \/ i \in DOMAIN queue /\ queue'[i] = queue[i]
                               \/ queue'[i][1] = t /\ queue'[i][2] = id
  BY <1>4, <1>5, <1>6
<1>. QED
  BY <1>2, <1>3, <1>4, <1>6, <1>7

\* One round of the search for an id: the id is used up, or it becomes that of
\* the new region, which the split thread will find in the queue.
LEMMA CheckRegionPipe ==
    ASSUME PipeInv, TypeOK', NEW t \in Threads, check_region_and_split(t)
    PROVE  PipeInv'
<1>. USE PipeFacts
<1>. PICK gid : gid = globalId
  OBVIOUS
<1>1. /\ TypeOK /\ Busy(fg[t]) /\ fg[t].client = t /\ fg[t].pc = "split" /\ t \in RegionIds
  BY DEF PipeInv, HomeInv, check_region_and_split, Busy
<1>2. /\ globalId' = gid + 1 /\ gid \in RegionIds /\ gid >= NumThreads /\ gid \in Nat
      /\ UNCHANGED <<globalMap, split, crash>>
  BY Constants DEF check_region_and_split, PipeInv, IdsInv, RegionIds
<1>3. \A u \in Threads : ~Present(u, gid)
  BY <1>2 DEF PipeInv, IdsInv
<1>4. \A u \in Threads, id \in RegionIds : Present(u, id) => id < gid
  BY <1>2 DEF PipeInv, IdsInv
<1>5. \A r \in globalMap : r.id < gid
  <2>1. \A r \in globalMap : Present(SessionOf(r.id), r.id)
    BY DEF PipeInv, MatchInv, MapMatchesServers
  <2>. QED
    BY <1>4, <2>1
<1>6. split.pc # "poll" => split.nr # gid /\ split.nr < gid
  BY <1>2 DEF PipeInv, IdsInv, Taken
<1>7. ~Queued(t) /\ split.ctx # t /\ region[t][t].status = "IsSplit"
  BY <1>1 DEF PipeInv, HolderInv, HolderOK
<1>8. PipelineAssertsHold'
  BY <1>2 DEF PipeInv, PipelineAssertsHold
<1>9. \A u \in Threads, id \in RegionIds : Taken(u, id) => Taken(u, id)'
  BY <1>2 DEF Taken
<1>10. CASE Jump(gid) = t
  <2>1. UNCHANGED <<region, queue, fg>>
    BY <1>10 DEF check_region_and_split
  <2>2. HomeInv' /\ HolderInv' /\ PublishedInv'
    BY <1>2, <2>1 DEF PipeInv, HomeInv, HolderInv, HolderOK, Queued, PublishedInv, Present
  <2>3. MatchInv'
    BY <1>2, <2>1 DEF PipeInv, MatchInv, MapMatchesServers, Present, MapLocked, Target, Nr
  <2>4. \A u \in Threads, id \in RegionIds : Waiting(u, id) => Waiting(u, id)'
    BY <1>9, <2>1 DEF Waiting, Present
  <2>5. IdsInv'
    <3>1. \A u \in Threads, id \in RegionIds : id >= globalId' => ~Present(u, id)'
      BY <1>2, <2>1 DEF PipeInv, IdsInv, Present
    <3>2. \A i \in DOMAIN queue' : Waiting(queue[i][1], queue[i][2])'
      BY <2>1, <2>4 DEF PipeInv, IdsInv
    <3>3. split.pc \notin {"poll", "reset"} => Present(split.ctx, split.nr)'
      BY <1>2, <2>1 DEF PipeInv, IdsInv, Present
    <3>4. split.pc \in {"create", "createReq"} => Waiting(split.ctx, split.nr)'
      BY <1>2, <2>4 DEF PipeInv, IdsInv
    <3>5. NumThreads <= globalId'
      BY <1>2
    <3>6. split.pc # "poll" => Taken(split.ctx, split.nr)'
      BY <1>2, <1>9 DEF PipeInv, IdsInv
    <3>. QED
      BY <1>2, <2>1, <3>1, <3>2, <3>3, <3>4, <3>5, <3>6 DEF PipeInv, IdsInv
  <2>. QED
    BY <1>8, <2>2, <2>3, <2>5 DEF PipeInv
<1>11. CASE Jump(gid) # t
  <2>. DEFINE nr == NewRegion(NewRange(region[t][t].end), t, "Normal")
  <2>1. /\ region' = [region EXCEPT ![t][gid] = nr]
        /\ queue' = Append(queue, <<t, gid>>) /\ Goto(t, "log")
    BY <1>1, <1>3, <1>11 DEF check_region_and_split, MyRegion
  <2>14. /\ \A i \in DOMAIN queue : i \in DOMAIN queue' /\ queue'[i] = queue[i]
         /\ Len(queue) + 1 \in DOMAIN queue' /\ queue'[Len(queue) + 1] = <<t, gid>>
         /\ \A i \in DOMAIN queue' : i \in DOMAIN queue \/ i = Len(queue) + 1
         /\ \A i \in DOMAIN queue' : \/ i \in DOMAIN queue /\ queue'[i] = queue[i]
                                     \/ queue'[i][1] = t /\ queue'[i][2] = gid
    <3>1. gid \in RegionIds
      BY <1>2
    <3>. QED
      BY ONLY PipeInv, t \in Threads, <3>1, <2>1, QueueAppend
  <2>2. nr.left = t /\ nr.status = "Normal"
    BY DEF NewRegion
  <2>. HIDE DEF nr
  <2>3. /\ region'[t][gid] = nr
        /\ \A u \in Threads, id \in RegionIds : u # t \/ id # gid => region'[u][id] = region[u][id]
    BY <1>2, <2>1
  <2>4. \A u \in Threads, id \in RegionIds : id # gid => (Present(u, id)' <=> Present(u, id))
    BY <2>3 DEF Present
  <2>5. OwnStep(t) /\ fg'[t].pc = "log"
    BY <1>1, <2>1, GotoOwn
  <2>6. \A u \in Threads : region'[u][u] = region[u][u]
    BY <1>2, <2>3
  <2>7. HomeInv'
    <3>1. \A u, v \in Threads : u # v => ~Present(u, v)'
      BY <1>2, <2>4 DEF PipeInv, HomeInv
    <3>. QED
      BY <2>5, <2>6, <3>1, AtHome DEF PipeInv, HomeInv
  <2>8. HolderInv'
    <3>1. Queued(t)'
      <4>1. Len(queue) + 1 \in DOMAIN queue' /\ queue'[Len(queue) + 1][1] = t
        BY <2>14
      <4>. QED
        BY <4>1 DEF Queued
    <3>2. \A u \in Threads \ {t} : Queued(u)' <=> Queued(u)
      <4>1. /\ \A i \in DOMAIN queue : i \in DOMAIN queue' /\ queue'[i] = queue[i]
            /\ \A i \in DOMAIN queue' : i \in DOMAIN queue \/ queue'[i][1] = t
        BY <2>14
      <4>. QED
        BY <4>1 DEF Queued
    <3>3. \A u \in Threads \ {t} : fg'[u] = fg[u]
      BY <2>5 DEF OwnStep
    <3>4. \A u \in Threads \ {t} : HolderOK(u)'
      BY <1>2, <2>6, <3>2, <3>3 DEF PipeInv, HolderInv, HolderOK
    <3>5. HolderOK(t)'
      BY <1>2, <1>7, <2>5, <2>6, <3>1 DEF HolderOK
    <3>6. \A i, j \in DOMAIN queue' : queue'[i][1] = queue'[j][1] => i = j
      BY <1>7, <2>14 DEF PipeInv, HolderInv, Queued
    <3>. QED
      BY <3>4, <3>5, <3>6 DEF HolderInv
  <2>9. \A u \in Threads, id \in RegionIds : Waiting(u, id) => Waiting(u, id)'
    <3>. SUFFICES ASSUME NEW u \in Threads, NEW id \in RegionIds, Waiting(u, id)
                  PROVE  Waiting(u, id)'
      OBVIOUS
    <3>1. id # gid
      BY <1>3 DEF Waiting
    <3>. QED
      BY <1>9, <2>3, <2>4, <3>1 DEF Waiting
  <2>10. Waiting(t, gid)'
    <3>1. Present(t, gid)' /\ \A u \in Threads \ {t} : ~Present(u, gid)'
      BY <1>2, <1>3, <2>2, <2>3 DEF Present
    <3>2. Taken(t, gid)'
      BY <1>2, <1>11 DEF Taken
    <3>. QED
      BY <2>2, <2>3, <3>1, <3>2 DEF Waiting
  <2>11. IdsInv'
    <3>1. \A u \in Threads, id \in RegionIds : id >= globalId' => ~Present(u, id)'
      BY <1>2, <2>4 DEF PipeInv, IdsInv
    <3>2. \A i \in DOMAIN queue' : Waiting(queue[i][1], queue[i][2])'
      <4>. SUFFICES ASSUME NEW i \in DOMAIN queue' PROVE Waiting(queue[i][1], queue[i][2])'
        OBVIOUS
      <4>1. PICK u \in Threads, id \in RegionIds :
                queue'[i][1] = u /\ queue'[i][2] = id /\ Waiting(u, id)'
        <5>1. CASE i \in DOMAIN queue
          <6>1. queue'[i] = queue[i] /\ Waiting(queue[i][1], queue[i][2])
            BY <2>14, <5>1 DEF PipeInv, IdsInv
          <6>2. queue[i][1] \in Threads /\ queue[i][2] \in RegionIds
            BY <5>1
          <6>. QED
            BY <2>9, <6>1, <6>2
        <5>2. CASE i = Len(queue) + 1
          <6>1. queue'[i] = <<t, gid>>
            BY <2>14, <5>2
          <6>. QED
            BY <1>2, <2>10, <6>1
        <5>. QED
          BY <2>14, <5>1, <5>2
      <4>. QED
        BY <4>1 DEF Waiting, Taken, Present
    <3>3. split.pc \notin {"poll", "reset"} => Present(split.ctx, split.nr)'
      BY <1>2, <1>6, <2>4 DEF PipeInv, IdsInv
    <3>4. split.pc \in {"create", "createReq"} => Waiting(split.ctx, split.nr)'
      BY <1>2, <2>9 DEF PipeInv, IdsInv
    <3>5. \A i \in DOMAIN queue : queue[i][2] # gid
      BY <1>3 DEF PipeInv, IdsInv, Waiting
    <3>6. \A i, j \in DOMAIN queue' : queue'[i][2] = queue'[j][2] => i = j
      BY <2>14, <3>5 DEF PipeInv, IdsInv
    <3>7. split.pc # "poll" => \A i \in DOMAIN queue' : queue'[i][2] # split.nr
      <4>1. \A i \in DOMAIN queue' :
                (i \in DOMAIN queue /\ queue'[i] = queue[i]) \/ queue'[i][2] = gid
        BY <2>14
      <4>. QED
        BY <1>6, <4>1 DEF PipeInv, IdsInv
    <3>8. NumThreads <= globalId'
      BY <1>2
    <3>9. split.pc # "poll" => Taken(split.ctx, split.nr)'
      BY <1>2, <1>9 DEF PipeInv, IdsInv
    <3>. QED
      BY <1>2, <3>1, <3>2, <3>3, <3>4, <3>6, <3>7, <3>8, <3>9 DEF PipeInv, IdsInv
  <2>12. MatchInv'
    <3>1. \A r \in globalMap : region'[SessionOf(r.id)][r.id] = region[SessionOf(r.id)][r.id]
      <4>1. \A r \in globalMap : r.id # gid /\ r.id \in RegionIds /\ SessionOf(r.id) \in Threads
        BY <1>2, <1>5
      <4>. QED
        BY <2>3, <4>1
    <3>2. MapMatchesServers'
      BY <1>2, <3>1 DEF PipeInv, MatchInv, MapMatchesServers, Present
    <3>3. split.pc # "poll" => /\ region'[Target][split.nr] = region[Target][split.nr]
                               /\ Nr' = Nr /\ Target' = Target
      BY <1>2, <1>6, <2>3 DEF Target, Nr
    <3>4. split'.pc \notin {"poll", "create", "createReq", "reset"} =>
              Present(Target, split.nr)' /\ SameRange(region[Target][split.nr], Nr)'
      BY <1>2, <3>3 DEF PipeInv, MatchInv, Present
    <3>. QED
      BY <1>2, <3>2, <3>4 DEF PipeInv, MatchInv, MapLocked
  <2>13. PublishedInv'
    <3>1. \A id \in RegionIds : region'[Jump(id)][id] = region[Jump(id)][id]
      BY <1>11, <2>3
    <3>. QED
      BY <1>2, <2>6, <3>1 DEF PipeInv, PublishedInv
  <2>. QED
    BY <1>8, <2>7, <2>8, <2>11, <2>12, <2>13 DEF PipeInv
<1>. QED
  BY <1>10, <1>11

\* A process that dies for one of the reasons the pipeline allows.
LEMMA DiePipe ==
    ASSUME PipeInv, TypeOK',
           NEW reason \in {"null region", "p_assert(false) in rpc_send_region", "range too small"},
           Die(reason)
    PROVE  PipeInv'
<1>1. QuietServer
  BY DEF Die, QuietServer, RegionsStay, PipeInv, HomeInv
<1>. QED
  BY <1>1, QuietServerKeeps

\* A step of the split thread between its visits to the map: it stays with its
\* split, and what it needs for the rest is there.
LEMMA SplitMovePipe ==
    ASSUME PipeInv, TypeOK', UNCHANGED <<region, globalMap, globalId, queue, fg, crash>>,
           split.pc \notin {"poll", "createReq", "publish", "reset"},
           split'.pc \notin {"poll", "create", "publish", "reset"},
           split'.pc = "createReq" <=> split.pc = "create",
           split'.ctx = split.ctx, split'.nr = split.nr, split'.left = split.ctx,
           split'.pc \in {"logReq", "logResp"} /\ split'.logStatus # "FarToDone" =>
              region[split.ctx][split.ctx].status = "SplitAlmostDone"
    PROVE  PipeInv'
<1>. USE PipeFacts
<1>1. HomeInv'
  BY DEF PipeInv, HomeInv, Present
<1>2. \A t \in Threads, id \in RegionIds :
          (Present(t, id)' <=> Present(t, id)) /\ (Waiting(t, id)' <=> Waiting(t, id))
  BY DEF Waiting, Taken, Present
<1>3. IdsInv'
  <2>1. \A t \in Threads, id \in RegionIds : id >= globalId' => ~Present(t, id)'
    BY <1>2 DEF PipeInv, IdsInv
  <2>2. \A i \in DOMAIN queue' : Waiting(queue[i][1], queue[i][2])'
    BY <1>2 DEF PipeInv, IdsInv
  <2>3. Present(split.ctx, split.nr) /\ Taken(split.ctx, split.nr)
    BY DEF PipeInv, IdsInv
  <2>4. Present(split.ctx, split.nr)' /\ Taken(split.ctx, split.nr)'
    BY <2>3 DEF Present, Taken
  <2>5. split'.pc = "createReq" => Waiting(split.ctx, split.nr)
    BY DEF PipeInv, IdsInv
  <2>6. split'.pc = "createReq" => Waiting(split.ctx, split.nr)'
    BY <2>5 DEF Waiting, Taken, Present
  <2>. QED
    BY <2>1, <2>2, <2>4, <2>6 DEF PipeInv, IdsInv
<1>4. HolderInv'
  BY DEF PipeInv, HolderInv, HolderOK, Queued
<1>5. MatchInv'
  <2>1. MapMatchesServers'
    BY DEF PipeInv, MatchInv, MapMatchesServers, Present
  <2>2. \A t \in Threads : \E r \in globalMap' : r.id = t
    BY DEF PipeInv, MatchInv, MapLocked
  <2>3. split'.pc # "createReq" =>
            Present(Target, split.nr)' /\ SameRange(region[Target][split.nr], Nr)'
    BY DEF PipeInv, MatchInv, Target, Nr, Present
  <2>. QED
    BY <2>1, <2>2, <2>3 DEF MatchInv
<1>6. PublishedInv'
  BY DEF PipeInv, PublishedInv
<1>7. PipelineAssertsHold'
  BY DEF PipeInv, PipelineAssertsHold
<1>. QED
  BY <1>1, <1>3, <1>4, <1>5, <1>6, <1>7 DEF PipeInv

\* What the invariant says of the split thread at work: its region is there, and
\* so is the origin, in a split, and in the map.
LEMMA SplitAtWork ==
    ASSUME PipeInv, split.pc # "poll"
    PROVE  /\ split \in SplitState /\ split.ctx \in Threads /\ split.ctx \in RegionIds
           /\ split.nr \in RegionIds /\ split.nr # split.ctx /\ ~(split.nr < NumThreads)
           /\ Jump(split.nr) # split.ctx /\ Target = Jump(split.nr) /\ Target \in Threads
           /\ split.pc # "create" => split.left = split.ctx /\ Left = region[split.ctx][split.ctx]
           /\ region[split.ctx][split.ctx].status \in {"IsSplit", "SplitAlmostDone"}
           /\ Present(split.ctx, split.ctx)
           /\ ~Queued(split.ctx) /\ fg[split.ctx].pc # "split"
<1>. USE PipeFacts
<1>1. split \in SplitState /\ split.ctx \in Threads /\ split.nr \in RegionIds
      /\ split.ctx \in RegionIds
  OBVIOUS
<1>2. Taken(split.ctx, split.nr) /\ (split.pc # "create" => split.left = split.ctx)
  BY DEF PipeInv, IdsInv
<1>3. ~(split.nr < NumThreads) /\ Jump(split.nr) # split.ctx /\ split.nr # split.ctx
  BY <1>1, <1>2 DEF Taken
<1>4. Target = Jump(split.nr) /\ Target \in Threads
  BY <1>1, <1>3 DEF Target, SessionOf
<1>5. HolderOK(split.ctx)
  BY <1>1 DEF PipeInv, HolderInv
<1>. QED
  BY <1>1, <1>2, <1>3, <1>4, <1>5 DEF Left, HolderOK, Present

\* The steps before and between the visits to the map; none of their assertions
\* fails.
LEMMA SplitMovesPipe ==
    ASSUME PipeInv, TypeOK',
           \/ rpc_create_region \/ rpc_create_region_cb
           \/ \E d \in split.todo : rpc_send_region_dir(d)
           \/ rpc_send_region_end \/ read_log \/ count_log_left
    PROVE  PipeInv'
<1>1. split.pc \in {"create", "createResp", "scan", "logRead", "logLeft"}
  BY DEF rpc_create_region, rpc_create_region_cb, rpc_send_region_dir,
         rpc_send_region_end, read_log, count_log_left
<1>2. /\ split \in SplitState /\ split.pc # "poll" /\ split.ctx \in Threads
      /\ split.pc # "create" => split.left = split.ctx /\ Left = region[split.ctx][split.ctx]
      /\ Present(split.ctx, split.ctx)
      /\ region[split.ctx][split.ctx].status \in {"IsSplit", "SplitAlmostDone"}
  BY <1>1, SplitAtWork
<1>3. Present(split.ctx, split.nr)
  BY <1>1 DEF PipeInv, IdsInv
<1>4. CASE rpc_create_region
  <2>1. split' = [split EXCEPT !.pc = "createReq", !.left = Nr.left]
        /\ UNCHANGED <<region, globalMap, globalId, queue, fg, crash>>
        /\ split.pc = "create"
    BY <1>3, <1>4 DEF rpc_create_region
  <2>2. Nr.left = split.ctx
    <3>1. Waiting(split.ctx, split.nr)
      BY <2>1 DEF PipeInv, IdsInv
    <3>. QED
      BY <3>1 DEF Waiting, Nr
  <2>3. /\ split'.pc = "createReq" /\ split'.ctx = split.ctx /\ split'.nr = split.nr
        /\ split'.left = split.ctx
    BY <1>2, <2>1, <2>2 DEF SplitState
  <2>. QED
    BY <2>1, <2>3, SplitMovePipe
<1>5. CASE rpc_create_region_cb
  <2>1. PICK d : split' = [split EXCEPT !.pc = "scan", !.todo = d]
    BY <1>3, <1>5 DEF rpc_create_region_cb
  <2>2. split.pc = "createResp" /\ UNCHANGED <<region, globalMap, globalId, queue, fg, crash>>
    BY <1>3, <1>5 DEF rpc_create_region_cb
  <2>3. /\ split'.pc = "scan" /\ split'.ctx = split.ctx /\ split'.nr = split.nr
        /\ split'.left = split.ctx
    BY <1>2, <2>1, <2>2 DEF SplitState
  <2>. QED
    BY <2>2, <2>3, SplitMovePipe
<1>6. CASE \E d \in split.todo : rpc_send_region_dir(d)
  <2>1. CASE Die("p_assert(false) in rpc_send_region")
    BY <2>1, DiePipe
  <2>2. CASE ~Die("p_assert(false) in rpc_send_region")
    <3>1. PICK d : split' = [split EXCEPT !.todo = d]
      BY <1>6, <2>2 DEF rpc_send_region_dir
    <3>2. split.pc = "scan" /\ UNCHANGED <<region, globalMap, globalId, queue, fg, crash>>
      BY <1>6, <2>2 DEF rpc_send_region_dir
    <3>3. /\ split'.pc = "scan" /\ split'.ctx = split.ctx /\ split'.nr = split.nr
          /\ split'.left = split.ctx
      BY <1>2, <3>1, <3>2 DEF SplitState
    <3>. QED
      BY <3>2, <3>3, SplitMovePipe
  <2>. QED
    BY <2>1, <2>2
<1>7. CASE rpc_send_region_end
  <2>1. /\ split.pc = "scan" /\ split' = [split EXCEPT !.pc = "logRead", !.next = 0]
        /\ UNCHANGED <<region, globalMap, globalId, queue, fg, crash>>
    BY <1>7 DEF rpc_send_region_end
  <2>2. /\ split'.pc = "logRead" /\ split'.ctx = split.ctx /\ split'.nr = split.nr
        /\ split'.left = split.ctx
    BY <1>2, <2>1 DEF SplitState
  <2>. QED
    BY <2>1, <2>2, SplitMovePipe
<1>8. CASE read_log
  <2>1. split.pc = "logRead" /\ split.left = split.ctx
    BY <1>2, <1>8 DEF read_log
  <2>2. PICK m : split' = [split EXCEPT !.pc = "logLeft", !.msg = m]
    BY <1>2, <1>8, <2>1 DEF read_log
  <2>3. UNCHANGED <<region, globalMap, globalId, queue, fg, crash>>
    BY <1>2, <1>8, <2>1 DEF read_log
  <2>4. /\ split'.pc = "logLeft" /\ split'.ctx = split.ctx /\ split'.nr = split.nr
        /\ split'.left = split.ctx
    BY <1>2, <2>1, <2>2 DEF SplitState
  <2>. QED
    BY <2>1, <2>3, <2>4, SplitMovePipe
<1>9. CASE count_log_left
  <2>1. PICK s, p : /\ split' = [split EXCEPT !.logStatus = s, !.pc = p]
                    /\ p = IF s # "FarToDone" /\ Left.status # "SplitAlmostDone"
                           THEN "shrink" ELSE "logReq"
    BY <1>9 DEF count_log_left
  <2>2. split.pc = "logLeft" /\ UNCHANGED <<region, globalMap, globalId, queue, fg, crash>>
    BY <1>9 DEF count_log_left
  <2>3. /\ split'.pc = p /\ split'.logStatus = s /\ split'.ctx = split.ctx
        /\ split'.nr = split.nr /\ split'.left = split.ctx
    BY <1>2, <2>1, <2>2 DEF SplitState
  <2>. QED
    BY <1>2, <2>1, <2>2, <2>3, SplitMovePipe
<1>. QED
  BY <1>4, <1>5, <1>6, <1>7, <1>8, <1>9

\* The queue after its first entry has been taken.
LEMMA QueueTail ==
    ASSUME PipeInv, queue # <<>>, queue' = Tail(queue)
    PROVE  /\ 1 \in DOMAIN queue /\ Head(queue) = queue[1]
           /\ \A i \in DOMAIN queue' : /\ i \in Int /\ i + 1 \in DOMAIN queue
                                       /\ i + 1 # 1 /\ queue'[i] = queue[i + 1]
           /\ \A j \in DOMAIN queue : \/ j = 1
                                      \/ j - 1 \in DOMAIN queue' /\ queue'[j - 1] = queue[j]
<1>1. queue \in Seq(Threads \X RegionIds)
  BY DEF PipeInv, TypeOK
<1>2. /\ Len(queue) \in Nat /\ Len(queue) >= 1 /\ DOMAIN queue = 1 .. Len(queue)
      /\ Len(queue') = Len(queue) - 1 /\ queue' \in Seq(Threads \X RegionIds)
      /\ \A i \in 1 .. Len(queue) - 1 : queue'[i] = queue[i + 1]
      /\ Head(queue) = queue[1]
  BY <1>1
<1>3. DOMAIN queue' = 1 .. Len(queue) - 1
  BY <1>2
<1>. QED
  BY <1>2, <1>3

\* The split thread takes the first entry of the queue over.
LEMMA PollPipe ==
    ASSUME PipeInv, TypeOK', NEW q \in Threads \X RegionIds, split_region_thread(q)
    PROVE  PipeInv'
<1>1. /\ split = IdleSplit /\ split.pc = "poll" /\ queue # <<>> /\ q = Head(queue)
      /\ split.ctx = None /\ split \in SplitState
  BY DEF split_region_thread, PipeInv, TypeOK, IdleSplit
<1>2. /\ queue' = Tail(queue) /\ split' = [split EXCEPT !.pc = "create", !.ctx = q[1], !.nr = q[2]]
      /\ UNCHANGED <<region, globalMap, globalId, fg, crash>>
  BY <1>1 DEF split_region_thread
<1>3. PICK t \in Threads, id \in RegionIds : q = <<t, id>>
  OBVIOUS
<1>4. split'.pc = "create" /\ split'.ctx = t /\ split'.nr = id
  BY <1>1, <1>2, <1>3 DEF SplitState
<1>5. /\ 1 \in DOMAIN queue /\ queue[1][1] = t /\ queue[1][2] = id
      /\ \A i \in DOMAIN queue' : /\ i \in Int /\ i + 1 \in DOMAIN queue
                                  /\ i + 1 # 1 /\ queue'[i] = queue[i + 1]
      /\ \A j \in DOMAIN queue : \/ j = 1
                                 \/ j - 1 \in DOMAIN queue' /\ queue'[j - 1] = queue[j]
  BY <1>1, <1>2, <1>3, QueueTail
<1>6. /\ \A i, j \in DOMAIN queue : queue[i][1] = queue[j][1] => i = j
      /\ \A i, j \in DOMAIN queue : queue[i][2] = queue[j][2] => i = j
  BY DEF PipeInv, HolderInv, IdsInv
<1>7. Queued(t) /\ \A u \in Threads : HolderOK(u)
  BY <1>5 DEF Queued, PipeInv, HolderInv
<1>8. \A u \in Threads : Queued(u)' <=> Queued(u) /\ u # t
  BY <1>5, <1>6 DEF Queued
<1>9. HomeInv'
  BY <1>2 DEF PipeInv, HomeInv, Present
<1>10. HolderInv'
  <2>1. t # None
    BY PipeFacts
  <2>2. HolderOK(t)'
    BY <1>1, <1>2, <1>4, <1>7, <1>8, <2>1 DEF HolderOK
  <2>3. \A u \in Threads \ {t} : HolderOK(u)'
    <3>1. \A u \in Threads : u # None
      BY PipeFacts
    <3>. QED
      BY <1>1, <1>2, <1>4, <1>7, <1>8, <3>1 DEF HolderOK
  <2>4. \A i, j \in DOMAIN queue' : queue'[i][1] = queue'[j][1] => i = j
    <3>. SUFFICES ASSUME NEW i \in DOMAIN queue', NEW j \in DOMAIN queue',
                         queue'[i][1] = queue'[j][1]
                  PROVE  i = j
      OBVIOUS
    <3>1. i + 1 = j + 1 /\ i \in Int /\ j \in Int
      BY <1>5, <1>6
    <3>. QED
      BY <3>1
  <2>. QED
    BY <2>2, <2>3, <2>4 DEF HolderInv
<1>11. IdsInv'
  <2>1. \A u \in Threads, i \in RegionIds :
            /\ Present(u, i)' <=> Present(u, i)
            /\ Taken(u, i)' <=> Taken(u, i)
            /\ Waiting(u, i)' <=> Waiting(u, i)
    BY <1>2 DEF Waiting, Taken, Present
  <2>2. \A u \in Threads, i \in RegionIds : i >= globalId' => ~Present(u, i)'
    BY <1>2, <2>1 DEF PipeInv, IdsInv
  <2>3. \A i \in DOMAIN queue : Waiting(queue[i][1], queue[i][2])
    BY DEF PipeInv, IdsInv
  <2>4. Waiting(t, id) /\ Waiting(t, id)'
    BY <1>5, <2>1, <2>3
  <2>5. \A i \in DOMAIN queue' : Waiting(queue[i][1], queue[i][2])'
    BY <1>2, <1>5, <2>3 DEF Waiting, Taken, Present
  <2>6. \A i, j \in DOMAIN queue' : queue'[i][2] = queue'[j][2] => i = j
    <3>. SUFFICES ASSUME NEW i \in DOMAIN queue', NEW j \in DOMAIN queue',
                         queue'[i][2] = queue'[j][2]
                  PROVE  i = j
      OBVIOUS
    <3>1. i + 1 = j + 1 /\ i \in Int /\ j \in Int
      BY <1>5, <1>6
    <3>. QED
      BY <3>1
  <2>7. \A i \in DOMAIN queue' : queue'[i][2] # id
    BY <1>5, <1>6
  <2>8. Taken(split.ctx, split.nr)' /\ Waiting(split.ctx, split.nr)'
        /\ Present(split.ctx, split.nr)'
    BY <1>4, <2>4 DEF Waiting, Taken, Present
  <2>9. NumThreads <= globalId'
    BY <1>2 DEF PipeInv, IdsInv
  <2>. QED
    BY <1>4, <2>2, <2>5, <2>6, <2>7, <2>8, <2>9 DEF IdsInv
<1>12. MatchInv'
  <2>1. MapMatchesServers'
    BY <1>2 DEF PipeInv, MatchInv, MapMatchesServers, Present
  <2>2. \A u \in Threads : \E r \in globalMap' : r.id = u
    BY <1>1, <1>2 DEF PipeInv, MatchInv, MapLocked
  <2>. QED
    BY <1>4, <2>1, <2>2 DEF MatchInv
<1>13. PublishedInv'
  <2>1. region[t][t].status # "SplitAlmostDone"
    BY <1>1, <1>7, PipeFacts DEF HolderOK
  <2>. QED
    BY <1>2, <1>4, <2>1 DEF PipeInv, PublishedInv
<1>14. PipelineAssertsHold'
  BY <1>2 DEF PipeInv, PipelineAssertsHold
<1>. QED
  BY <1>9, <1>10, <1>11, <1>12, <1>13, <1>14 DEF PipeInv

\* Under the map's lock the entry of the origin goes and its region shrinks.
LEMMA ShrinkPipe ==
    ASSUME PipeInv, TypeOK', shrink_left
    PROVE  PipeInv'
<1>. USE PipeFacts
<1>1. split.pc = "shrink"
  BY DEF shrink_left
<1>2. PICK t \in Threads, nr \in RegionIds : split.ctx = t /\ split.nr = nr /\ split.left = t
  BY <1>1, SplitAtWork
<1>3. /\ split \in SplitState /\ t \in RegionIds /\ nr # t /\ Jump(nr) # t /\ Target = Jump(nr)
      /\ ~(nr < NumThreads) /\ Left = region[t][t] /\ Present(t, t)
      /\ region[t][t].status \in {"IsSplit", "SplitAlmostDone"} /\ ~Queued(t)
      /\ fg[t].pc # "split"
  BY <1>1, <1>2, SplitAtWork
<1>4. \E r \in globalMap : r.id = t
  BY <1>1 DEF PipeInv, MatchInv, MapLocked
<1>5. CASE Die("range too small")
  BY <1>5, DiePipe
<1>6. CASE ~Die("range too small")
  <2>1. PICK e : /\ globalMap' = {r \in globalMap : r.id # t}
                 /\ region' = [region EXCEPT ![t][t].end = e]
                 /\ split' = [split EXCEPT !.pc = "publish"]
                 /\ UNCHANGED <<globalId, queue, fg, crash>>
    <3>1. globalMap' = {r \in globalMap : r.id # split.left}
      BY <1>2, <1>4, <1>6 DEF shrink_left
    <3>2. /\ region' = [region EXCEPT ![split.ctx][split.left].end = ShrunkEnd(Left.end)]
          /\ split' = [split EXCEPT !.pc = "publish"]
          /\ UNCHANGED <<globalId, queue, fg, crash>>
      BY <1>2, <1>4, <1>6 DEF shrink_left, SplitGoto
    <3>. QED
      BY <1>2, <3>1, <3>2
  <2>2. split'.pc = "publish" /\ split'.ctx = t /\ split'.nr = nr /\ split'.left = t
    BY <1>2, <1>3, <2>1 DEF SplitState
  <2>3. /\ region'[t][t] = [region[t][t] EXCEPT !.end = e] /\ region[t][t] \in Region
        /\ \A u \in Threads, id \in RegionIds : u # t \/ id # t => region'[u][id] = region[u][id]
    BY <1>3, <2>1
  <2>4. region'[t][t].status = region[t][t].status /\ region'[t][t].left = region[t][t].left
    BY <2>3 DEF Region
  <2>5. \A u \in Threads, id \in RegionIds :
            /\ region'[u][id].status = region[u][id].status
            /\ region'[u][id].left = region[u][id].left
            /\ Present(u, id)' <=> Present(u, id)
    BY <2>3, <2>4 DEF Present
  <2>6. HomeInv'
    BY <2>1, <2>5 DEF PipeInv, HomeInv
  <2>7. HolderInv'
    <3>1. \A u \in Threads : Queued(u)' <=> Queued(u)
      BY <2>1 DEF Queued
    <3>2. \A u \in Threads : region'[u][u].status = region[u][u].status
      BY <2>5
    <3>3. split'.ctx = split.ctx /\ fg' = fg /\ queue' = queue
      BY <1>2, <2>1, <2>2
    <3>. QED
      BY <3>1, <3>2, <3>3 DEF PipeInv, HolderInv, HolderOK
  <2>8. IdsInv'
    <3>1. \A u \in Threads, id \in RegionIds :
              (Taken(u, id)' <=> Taken(u, id)) /\ (Waiting(u, id)' <=> Waiting(u, id))
      BY <2>1, <2>5 DEF Waiting, Taken
    <3>2. \A i \in DOMAIN queue' : Waiting(queue[i][1], queue[i][2])'
      BY <2>1, <3>1 DEF PipeInv, IdsInv
    <3>3. Present(t, nr) /\ Taken(t, nr)
      BY <1>1, <1>2 DEF PipeInv, IdsInv
    <3>4. Present(split.ctx, split.nr)' /\ Taken(split.ctx, split.nr)'
      BY <2>1, <2>2, <2>5, <3>3 DEF Present, Taken
    <3>5. \A i \in DOMAIN queue' : queue'[i][2] # nr
      BY <1>1, <1>2, <2>1 DEF PipeInv, IdsInv
    <3>6. \A u \in Threads, id \in RegionIds : id >= globalId' => ~Present(u, id)'
      BY <2>1, <2>5 DEF PipeInv, IdsInv
    <3>. QED
      BY <2>1, <2>2, <3>2, <3>4, <3>5, <3>6 DEF PipeInv, IdsInv
  <2>9. MatchInv'
    <3>1. MapMatchesServers'
      <4>. SUFFICES ASSUME NEW r \in globalMap'
                    PROVE  /\ Present(SessionOf(r.id), r.id)'
                           /\ MapEntry(r.id, region'[SessionOf(r.id)][r.id]) = r
        BY DEF MapMatchesServers
      <4>1. r \in globalMap /\ r.id # t /\ r.id \in RegionIds /\ SessionOf(r.id) \in Threads
        BY <2>1
      <4>2. region'[SessionOf(r.id)][r.id] = region[SessionOf(r.id)][r.id]
        BY <2>3, <4>1
      <4>. QED
        BY <4>1, <4>2 DEF PipeInv, MatchInv, MapMatchesServers, Present
    <3>2. \A u \in Threads : (\E r \in globalMap' : r.id = u) \/ (MapLocked' /\ split'.ctx = u)
      BY <1>1, <2>1, <2>2 DEF PipeInv, MatchInv, MapLocked
    <3>3. /\ region'[Jump(nr)][nr] = region[Jump(nr)][nr] /\ region'[t][nr] = region[t][nr]
          /\ Jump(nr) \in Threads
      BY <1>3, <2>3
    <3>4. Present(Jump(nr), nr) /\ SameRange(region[Jump(nr)][nr], region[t][nr])
      BY <1>1, <1>2, <1>3 DEF PipeInv, MatchInv, Nr
    <3>5. Target' = Jump(nr) /\ Nr' = region'[t][nr]
      BY <1>2, <1>3, <2>2 DEF Target, Nr
    <3>6. Present(Target, split.nr)' /\ SameRange(region[Target][split.nr], Nr)'
      BY <2>2, <3>3, <3>4, <3>5 DEF Present
    <3>. QED
      BY <3>1, <3>2, <3>6 DEF MatchInv
  <2>10. PublishedInv'
    <3>1. \A id \in RegionIds : id >= NumThreads /\ Serving(region[Jump(id)][id].status) =>
              \E r \in globalMap : r.id = id /\ r.id # t
      <4>1. t < NumThreads /\ t \in Nat
        OBVIOUS
      <4>2. \A id \in RegionIds : id >= NumThreads => id # t
        BY <4>1
      <4>. QED
        BY <4>2 DEF PipeInv, PublishedInv
    <3>2. \A id \in RegionIds : id >= NumThreads /\ Serving(region'[Jump(id)][id].status) =>
              \E r \in globalMap' : r.id = id
      BY <2>1, <2>5, <3>1
    <3>3. region'[t][t].status = "SplitAlmostDone" => \E r \in globalMap' : r.id = nr
      BY <1>1, <1>2, <1>3, <2>1, <2>4 DEF PipeInv, PublishedInv
    <3>. QED
      BY <2>2, <3>2, <3>3 DEF PublishedInv
  <2>11. PipelineAssertsHold'
    BY <2>1 DEF PipeInv, PipelineAssertsHold
  <2>. QED
    BY <2>6, <2>7, <2>8, <2>9, <2>10, <2>11 DEF PipeInv
<1>. QED
  BY <1>5, <1>6

\* Both halves come into the map, as the target and the origin have them.
LEMMA PublishPipe ==
    ASSUME PipeInv, TypeOK', publish_halves
    PROVE  PipeInv'
<1>. USE PipeFacts
<1>1. split.pc = "publish"
  BY DEF publish_halves
<1>2. PICK t \in Threads, nr \in RegionIds : split.ctx = t /\ split.nr = nr /\ split.left = t
  BY <1>1, SplitAtWork
<1>3. /\ split \in SplitState /\ t \in RegionIds /\ nr # t /\ Jump(nr) # t /\ Target = Jump(nr)
      /\ ~(nr < NumThreads) /\ Left = region[t][t] /\ Present(t, t) /\ Nr = region[t][nr]
      /\ region[t][t].status \in {"IsSplit", "SplitAlmostDone"} /\ ~Queued(t)
      /\ fg[t].pc # "split"
  BY <1>1, <1>2, SplitAtWork DEF Nr
<1>4. /\ globalMap' = globalMap \cup {MapEntry(nr, region[t][nr]), MapEntry(t, region[t][t])}
      /\ region' = [region EXCEPT ![t][t].status = "SplitAlmostDone"]
      /\ split' = [split EXCEPT !.pc = "logReq"]
      /\ UNCHANGED <<globalId, queue, fg, crash>>
  BY <1>2, <1>3 DEF publish_halves, SplitGoto
<1>5. /\ split'.pc = "logReq" /\ split'.ctx = t /\ split'.nr = nr /\ split'.left = t
  BY <1>2, <1>3, <1>4 DEF SplitState
<1>6. /\ region'[t][t] = [region[t][t] EXCEPT !.status = "SplitAlmostDone"]
      /\ region[t][t] \in Region
      /\ \A u \in Threads, id \in RegionIds : u # t \/ id # t => region'[u][id] = region[u][id]
  BY <1>3, <1>4
<1>7. /\ region'[t][t].status = "SplitAlmostDone" /\ region'[t][t].left = region[t][t].left
      /\ region'[t][t].start = region[t][t].start /\ region'[t][t].end = region[t][t].end
  BY <1>6 DEF Region
<1>8. \A u \in Threads, id \in RegionIds :
          /\ region'[u][id].left = region[u][id].left
          /\ region'[u][id].start = region[u][id].start
          /\ region'[u][id].end = region[u][id].end
          /\ Present(u, id)' <=> Present(u, id)
  BY <1>3, <1>6, <1>7 DEF Present
<1>9. \A u \in Threads \ {t} : region'[u][u] = region[u][u]
  BY <1>6
<1>10. HomeInv'
  BY <1>4, <1>7, <1>8, <1>9 DEF PipeInv, HomeInv
<1>11. HolderInv'
  <2>1. \A u \in Threads : Queued(u)' <=> Queued(u)
    BY <1>4 DEF Queued
  <2>2. HolderOK(t)'
    BY <1>3, <1>4, <1>5, <1>7, <2>1 DEF HolderOK
  <2>3. \A u \in Threads \ {t} : HolderOK(u)'
    BY <1>2, <1>4, <1>5, <1>9, <2>1 DEF PipeInv, HolderInv, HolderOK
  <2>. QED
    BY <1>4, <2>2, <2>3 DEF PipeInv, HolderInv
<1>12. IdsInv'
  <2>1. \A u \in Threads, id \in RegionIds :
            (Taken(u, id)' <=> Taken(u, id)) /\ (Waiting(u, id)' <=> Waiting(u, id))
    BY <1>4, <1>8 DEF Waiting, Taken
  <2>2. \A i \in DOMAIN queue' : Waiting(queue[i][1], queue[i][2])'
    BY <1>4, <2>1 DEF PipeInv, IdsInv
  <2>3. Present(t, nr) /\ Taken(t, nr)
    BY <1>1, <1>2 DEF PipeInv, IdsInv
  <2>7. region'[t][nr] = region[t][nr]
    BY <1>3, <1>6
  <2>4. Present(split.ctx, split.nr)' /\ Taken(split.ctx, split.nr)'
    BY <1>4, <1>5, <2>3, <2>7 DEF Present, Taken
  <2>5. \A i \in DOMAIN queue' : queue'[i][2] # nr
    BY <1>1, <1>2, <1>4 DEF PipeInv, IdsInv
  <2>6. \A u \in Threads, id \in RegionIds : id >= globalId' => ~Present(u, id)'
    BY <1>4, <1>8 DEF PipeInv, IdsInv
  <2>. QED
    BY <1>4, <1>5, <2>2, <2>4, <2>5, <2>6 DEF PipeInv, IdsInv
<1>13. /\ Present(Jump(nr), nr) /\ SameRange(region[Jump(nr)][nr], region[t][nr])
       /\ Jump(nr) \in Threads
  BY <1>1, <1>2, <1>3 DEF PipeInv, MatchInv
<1>14. MatchInv'
  <2>1. MapMatchesServers'
    <3>. SUFFICES ASSUME NEW r \in globalMap'
                  PROVE  /\ Present(SessionOf(r.id), r.id)'
                         /\ MapEntry(r.id, region'[SessionOf(r.id)][r.id]) = r
      BY DEF MapMatchesServers
    <3>1. CASE r \in globalMap
      <4>1. /\ Present(SessionOf(r.id), r.id) /\ r.id \in RegionIds /\ SessionOf(r.id) \in Threads
            /\ MapEntry(r.id, region[SessionOf(r.id)][r.id]) = r
        BY <3>1 DEF PipeInv, MatchInv, MapMatchesServers
      <4>. QED
        BY <1>8, <4>1 DEF MapEntry
    <3>2. CASE r = MapEntry(nr, region[t][nr])
      <4>1. r.id = nr /\ SessionOf(nr) = Jump(nr)
        BY <1>3, <3>2 DEF MapEntry, SessionOf
      <4>2. Present(Jump(nr), nr)'
        BY <1>8, <1>13
      <4>3. MapEntry(nr, region'[Jump(nr)][nr]) = MapEntry(nr, region[t][nr])
        BY <1>8, <1>13 DEF MapEntry, SameRange
      <4>. QED
        BY <3>2, <4>1, <4>2, <4>3
    <3>3. CASE r = MapEntry(t, region[t][t])
      <4>1. r.id = t /\ SessionOf(t) = t
        BY <3>3 DEF MapEntry, SessionOf
      <4>2. Present(t, t)' /\ MapEntry(t, region'[t][t]) = MapEntry(t, region[t][t])
        BY <1>3, <1>8 DEF MapEntry
      <4>. QED
        BY <3>3, <4>1, <4>2
    <3>. QED
      BY <1>4, <3>1, <3>2, <3>3
  <2>2. \A u \in Threads : \E r \in globalMap' : r.id = u
    <3>1. MapEntry(t, region[t][t]).id = t
      BY DEF MapEntry
    <3>2. \A u \in Threads \ {t} : \E r \in globalMap : r.id = u
      BY <1>2 DEF PipeInv, MatchInv
    <3>. QED
      BY <1>4, <3>1, <3>2
  <2>3. Target' = Jump(nr) /\ Nr' = region'[t][nr]
    BY <1>2, <1>3, <1>5 DEF Target, Nr
  <2>4. /\ region'[Jump(nr)][nr] = region[Jump(nr)][nr] /\ region'[t][nr] = region[t][nr]
    BY <1>3, <1>6, <1>13
  <2>5. Present(Target, split.nr)' /\ SameRange(region[Target][split.nr], Nr)'
    BY <1>5, <1>13, <2>3, <2>4 DEF Present
  <2>. QED
    BY <2>1, <2>2, <2>5 DEF MatchInv
<1>15. PublishedInv'
  <2>1. \A id \in RegionIds : id >= NumThreads => region'[Jump(id)][id] = region[Jump(id)][id]
    <3>1. t < NumThreads /\ t \in Nat
      OBVIOUS
    <3>2. \A id \in RegionIds : id >= NumThreads => id # t
      BY <3>1
    <3>. QED
      BY <1>6, <3>2
  <2>2. \A id \in RegionIds : id >= NumThreads /\ Serving(region'[Jump(id)][id].status) =>
            \E r \in globalMap' : r.id = id
    BY <1>4, <2>1 DEF PipeInv, PublishedInv
  <2>3. \E r \in globalMap' : r.id = nr
    <3>1. MapEntry(nr, region[t][nr]).id = nr
      BY DEF MapEntry
    <3>. QED
      BY <1>4, <3>1
  <2>. QED
    BY <1>5, <1>7, <2>2, <2>3 DEF PublishedInv
<1>16. PipelineAssertsHold'
  BY <1>4 DEF PipeInv, PipelineAssertsHold
<1>. QED
  BY <1>10, <1>11, <1>12, <1>14, <1>15, <1>16 DEF PipeInv

\* After the last batch the temporary region goes; before it, more log is read.
LEMMA LogRespPipe ==
    ASSUME PipeInv, TypeOK', rpc_send_region_log_resp
    PROVE  PipeInv'
<1>. USE PipeFacts
<1>1. split.pc = "logResp"
  BY DEF rpc_send_region_log_resp
<1>2. PICK t \in Threads, nr \in RegionIds : split.ctx = t /\ split.nr = nr /\ split.left = t
  BY <1>1, SplitAtWork
<1>3. /\ split \in SplitState /\ t \in RegionIds /\ nr # t /\ Jump(nr) # t /\ Target = Jump(nr)
      /\ ~(nr < NumThreads) /\ Left = region[t][t] /\ Present(t, t)
      /\ region[t][t].status \in {"IsSplit", "SplitAlmostDone"} /\ ~Queued(t)
      /\ fg[t].pc # "split"
  BY <1>1, <1>2, SplitAtWork
<1>4. UNCHANGED <<globalMap, globalId, queue, fg, crash>>
  BY DEF rpc_send_region_log_resp
<1>5. CASE split.logStatus # "Done"
  <2>1. PICK n : split' = [split EXCEPT !.pc = "logRead", !.msg = <<>>, !.next = n]
    BY <1>5 DEF rpc_send_region_log_resp
  <2>2. split'.pc = "logRead" /\ split'.ctx = t /\ split'.nr = nr /\ split'.left = t
    BY <1>2, <1>3, <2>1 DEF SplitState
  <2>3. UNCHANGED region
    BY <1>5 DEF rpc_send_region_log_resp
  <2>. QED
    BY <1>1, <1>2, <1>4, <2>2, <2>3, SplitMovePipe
<1>6. CASE split.logStatus = "Done"
  <2>1. /\ region' = [region EXCEPT ![t][nr] = NoRegion, ![t][t].logId = 0]
        /\ split' = [split EXCEPT !.pc = "reset"]
    BY <1>2, <1>6 DEF rpc_send_region_log_resp, SplitGoto
  <2>2. split'.pc = "reset" /\ split'.ctx = t /\ split'.nr = nr /\ split'.left = t
    BY <1>2, <1>3, <2>1 DEF SplitState
  <2>3. /\ region'[t][nr] = NoRegion /\ region'[t][t] = [region[t][t] EXCEPT !.logId = 0]
        /\ region[t][t] \in Region
        /\ \A u \in Threads, id \in RegionIds :
              u # t \/ (id # t /\ id # nr) => region'[u][id] = region[u][id]
    BY <1>3, <2>1
  <2>4. /\ region'[t][t].status = region[t][t].status /\ region'[t][t].left = region[t][t].left
        /\ region'[t][t].start = region[t][t].start /\ region'[t][t].end = region[t][t].end
        /\ region'[t][nr].status = "Absent"
    BY <2>3 DEF Region, NoRegion, NewRegion
  <2>5. \A u \in Threads, id \in RegionIds : u # t \/ id # nr =>
            /\ region'[u][id].status = region[u][id].status
            /\ region'[u][id].left = region[u][id].left
            /\ region'[u][id].start = region[u][id].start
            /\ region'[u][id].end = region[u][id].end
            /\ Present(u, id)' <=> Present(u, id)
    BY <2>3, <2>4 DEF Present
  <2>6. \A u \in Threads, id \in RegionIds : Present(u, id)' => Present(u, id)
    BY <2>4, <2>5 DEF Present
  <2>7. \A u \in Threads : u # nr
    BY <1>3
  <2>8. HomeInv'
    <3>1. \A u \in Threads : region'[u][u].status = region[u][u].status
      BY <2>5, <2>7
    <3>. QED
      BY <1>4, <2>6, <3>1 DEF PipeInv, HomeInv
  <2>9. HolderInv'
    <3>1. \A u \in Threads : Queued(u)' <=> Queued(u)
      BY <1>4 DEF Queued
    <3>2. \A u \in Threads : region'[u][u].status = region[u][u].status
      BY <2>5, <2>7
    <3>3. split'.ctx = split.ctx /\ fg' = fg /\ queue' = queue
      BY <1>2, <1>4, <2>2
    <3>. QED
      BY <3>1, <3>2, <3>3 DEF PipeInv, HolderInv, HolderOK
  <2>10. IdsInv'
    <3>1. \A u \in Threads, id \in RegionIds : Taken(u, id)' <=> Taken(u, id)
      BY <1>4 DEF Taken
    <3>2. \A u \in Threads, id \in RegionIds : id # nr /\ Waiting(u, id) => Waiting(u, id)'
      BY <2>5, <3>1 DEF Waiting
    <3>3. \A i \in DOMAIN queue : queue[i][2] # nr
      BY <1>1, <1>2 DEF PipeInv, IdsInv
    <3>4. \A i \in DOMAIN queue' : Waiting(queue[i][1], queue[i][2])'
      BY <1>4, <3>2, <3>3 DEF PipeInv, IdsInv
    <3>5. Taken(split.ctx, split.nr)'
      BY <1>1, <1>2, <1>4, <2>2 DEF PipeInv, IdsInv, Taken
    <3>6. \A u \in Threads, id \in RegionIds : id >= globalId' => ~Present(u, id)'
      BY <1>4, <2>6 DEF PipeInv, IdsInv
    <3>. QED
      BY <1>4, <2>2, <3>3, <3>4, <3>5, <3>6 DEF PipeInv, IdsInv
  <2>11. MatchInv'
    <3>1. MapMatchesServers'
      <4>. SUFFICES ASSUME NEW r \in globalMap
                    PROVE  /\ Present(SessionOf(r.id), r.id)'
                           /\ MapEntry(r.id, region'[SessionOf(r.id)][r.id]) = r
        BY <1>4 DEF MapMatchesServers
      <4>1. /\ Present(SessionOf(r.id), r.id) /\ r.id \in RegionIds /\ SessionOf(r.id) \in Threads
            /\ MapEntry(r.id, region[SessionOf(r.id)][r.id]) = r
        BY DEF PipeInv, MatchInv, MapMatchesServers
      <4>2. SessionOf(r.id) # t \/ r.id # nr
        BY <1>3 DEF SessionOf
      <4>. QED
        BY <2>5, <4>1, <4>2 DEF MapEntry
    <3>2. \A u \in Threads : \E r \in globalMap' : r.id = u
      BY <1>1, <1>4 DEF PipeInv, MatchInv, MapLocked
    <3>. QED
      BY <2>2, <3>1, <3>2 DEF MatchInv
  <2>12. PublishedInv'
    <3>1. \A id \in RegionIds : region'[Jump(id)][id].status = region[Jump(id)][id].status
      BY <1>3, <2>5
    <3>2. region[t][t].status = "SplitAlmostDone" => \E r \in globalMap' : r.id = nr
      BY <1>1, <1>2, <1>4 DEF PipeInv, PublishedInv
    <3>. QED
      BY <1>4, <2>2, <2>4, <3>1, <3>2 DEF PipeInv, PublishedInv
  <2>13. PipelineAssertsHold'
    BY <1>4 DEF PipeInv, PipelineAssertsHold
  <2>. QED
    BY <2>8, <2>9, <2>10, <2>11, <2>12, <2>13 DEF PipeInv
<1>. QED
  BY <1>5, <1>6

\* The end of a split: the region is served again, and the split thread is free.
LEMMA FinishPipe ==
    ASSUME PipeInv, TypeOK', finish_split
    PROVE  PipeInv'
<1>. USE PipeFacts
<1>1. split.pc = "reset"
  BY DEF finish_split
<1>2. PICK t \in Threads, nr \in RegionIds : split.ctx = t /\ split.nr = nr /\ split.left = t
  BY <1>1, SplitAtWork
<1>3. /\ t \in RegionIds /\ ~Queued(t) /\ fg[t].pc # "split" /\ t # None
      /\ region[t][t].status \in {"IsSplit", "SplitAlmostDone"}
  BY <1>1, <1>2, SplitAtWork
<1>4. /\ region' = [region EXCEPT ![t][t].status = "Normal"]
      /\ split' = IdleSplit /\ split'.pc = "poll" /\ split'.ctx = None
      /\ UNCHANGED <<globalMap, globalId, queue, fg, crash>>
  BY <1>2 DEF finish_split, IdleSplit
<1>5. /\ region'[t][t] = [region[t][t] EXCEPT !.status = "Normal"]
      /\ region[t][t] \in Region
      /\ \A u \in Threads, id \in RegionIds : u # t \/ id # t => region'[u][id] = region[u][id]
  BY <1>3, <1>4
<1>6. /\ region'[t][t].status = "Normal" /\ region'[t][t].left = region[t][t].left
      /\ region'[t][t].start = region[t][t].start /\ region'[t][t].end = region[t][t].end
  BY <1>5 DEF Region
<1>7. \A u \in Threads, id \in RegionIds :
          /\ region'[u][id].left = region[u][id].left
          /\ region'[u][id].start = region[u][id].start
          /\ region'[u][id].end = region[u][id].end
          /\ Present(u, id)' <=> Present(u, id)
  BY <1>3, <1>5, <1>6 DEF Present
<1>8. \A u \in Threads \ {t} : region'[u][u] = region[u][u]
  BY <1>5
<1>9. HomeInv'
  BY <1>4, <1>6, <1>7, <1>8 DEF PipeInv, HomeInv
<1>10. HolderInv'
  <2>1. \A u \in Threads : Queued(u)' <=> Queued(u)
    BY <1>4 DEF Queued
  <2>2. HolderOK(t)'
    BY <1>3, <1>4, <1>6, <2>1 DEF HolderOK
  <2>3. \A u \in Threads \ {t} : HolderOK(u)'
    <3>1. \A u \in Threads : u # None
      OBVIOUS
    <3>. QED
      BY <1>2, <1>4, <1>8, <2>1, <3>1 DEF PipeInv, HolderInv, HolderOK
  <2>. QED
    BY <1>4, <2>2, <2>3 DEF PipeInv, HolderInv
<1>11. IdsInv'
  <2>1. \A u \in Threads, id \in RegionIds :
            (Taken(u, id)' <=> Taken(u, id)) /\ (Waiting(u, id)' <=> Waiting(u, id))
    BY <1>4, <1>7 DEF Waiting, Taken
  <2>2. \A i \in DOMAIN queue' : Waiting(queue[i][1], queue[i][2])'
    BY <1>4, <2>1 DEF PipeInv, IdsInv
  <2>3. \A u \in Threads, id \in RegionIds : id >= globalId' => ~Present(u, id)'
    BY <1>4, <1>7 DEF PipeInv, IdsInv
  <2>. QED
    BY <1>4, <2>2, <2>3 DEF PipeInv, IdsInv
<1>12. MatchInv'
  <2>1. MapMatchesServers'
    <3>. SUFFICES ASSUME NEW r \in globalMap
                  PROVE  /\ Present(SessionOf(r.id), r.id)'
                         /\ MapEntry(r.id, region'[SessionOf(r.id)][r.id]) = r
      BY <1>4 DEF MapMatchesServers
    <3>1. /\ Present(SessionOf(r.id), r.id) /\ r.id \in RegionIds /\ SessionOf(r.id) \in Threads
          /\ MapEntry(r.id, region[SessionOf(r.id)][r.id]) = r
      BY DEF PipeInv, MatchInv, MapMatchesServers
    <3>. QED
      BY <1>7, <3>1 DEF MapEntry
  <2>2. \A u \in Threads : \E r \in globalMap' : r.id = u
    BY <1>1, <1>4 DEF PipeInv, MatchInv, MapLocked
  <2>. QED
    BY <1>4, <2>1, <2>2 DEF MatchInv
<1>13. PublishedInv'
  <2>1. \A id \in RegionIds : id >= NumThreads => region'[Jump(id)][id] = region[Jump(id)][id]
    <3>1. t < NumThreads /\ t \in Nat
      OBVIOUS
    <3>2. \A id \in RegionIds : id >= NumThreads => id # t
      BY <3>1
    <3>. QED
      BY <1>5, <3>2
  <2>. QED
    BY <1>4, <2>1 DEF PipeInv, PublishedInv
<1>14. PipelineAssertsHold'
  BY <1>4 DEF PipeInv, PipelineAssertsHold
<1>. QED
  BY <1>9, <1>10, <1>11, <1>12, <1>13, <1>14 DEF PipeInv

\* What a step at the target leaves alone when it makes or updates the region nr
\* of the split there.
LEMMA TargetFrame ==
    ASSUME PipeInv, TypeOK', UNCHANGED <<globalMap, globalId, queue, fg, crash>>,
           NEW t \in Threads, NEW nr \in RegionIds, NEW pc,
           split.pc \in {"createReq", "logReq"}, split.ctx = t, split.nr = nr,
           pc \in {"createResp", "logResp"}, split' = [split EXCEPT !.pc = pc],
           \A u \in Threads, id \in RegionIds :
              u # Jump(nr) \/ id # nr => region'[u][id] = region[u][id],
           Present(Jump(nr), nr)', SameRange(region'[Jump(nr)][nr], region[t][nr]),
           Serving(region'[Jump(nr)][nr].status) => \E r \in globalMap : r.id = nr,
           pc = "logResp" => split.pc = "logReq"
    PROVE  PipeInv'
<1>. USE PipeFacts
<1>1. /\ split \in SplitState /\ split.left = t /\ nr # t /\ Jump(nr) # t /\ Jump(nr) \in Threads
      /\ t \in RegionIds /\ ~(nr < NumThreads)
  BY SplitAtWork
<1>2. /\ split'.pc = pc /\ split'.ctx = t /\ split'.nr = nr /\ split'.left = t
      /\ split'.logStatus = split.logStatus
  BY <1>1 DEF SplitState
<1>3. \A u \in Threads : u # nr
  BY <1>1
<1>4. \A u, v \in Threads : region'[u][v] = region[u][v]
  BY <1>3
<1>5. /\ region'[t][nr] = region[t][nr]
      /\ \A u \in Threads, id \in RegionIds : id # nr =>
            region'[u][id] = region[u][id] /\ (Present(u, id)' <=> Present(u, id))
  BY <1>1 DEF Present
<1>6. HomeInv'
  <2>1. \A u, v \in Threads : Present(u, v)' <=> Present(u, v)
    BY <1>4 DEF Present
  <2>2. \A u \in Threads : region'[u][u].status = region[u][u].status /\ fg'[u] = fg[u]
    BY <1>4
  <2>. QED
    BY <2>1, <2>2 DEF PipeInv, HomeInv
<1>7. HolderInv'
  <2>1. \A u \in Threads : Queued(u)' <=> Queued(u)
    BY DEF Queued
  <2>2. \A u \in Threads : region'[u][u] = region[u][u]
    BY <1>4
  <2>3. split'.ctx = split.ctx
    BY <1>2
  <2>. QED
    BY <2>1, <2>2, <2>3 DEF PipeInv, HolderInv, HolderOK
<1>8. IdsInv'
  <2>1. Taken(t, nr) /\ Present(t, nr) /\ \A i \in DOMAIN queue : queue[i][2] # nr
    BY DEF PipeInv, IdsInv
  <2>2. \A u \in Threads, id \in RegionIds : id # nr /\ Waiting(u, id) => Waiting(u, id)'
    BY <1>5 DEF Waiting, Taken
  <2>3. \A i \in DOMAIN queue' : Waiting(queue[i][1], queue[i][2])'
    BY <2>1, <2>2 DEF PipeInv, IdsInv
  <2>4. Taken(split.ctx, split.nr)' /\ Present(split.ctx, split.nr)'
    BY <1>2, <1>5, <2>1 DEF Taken, Present
  <2>5. nr < globalId
    BY <2>1 DEF Taken
  <2>6. \A u \in Threads, id \in RegionIds : id >= globalId' => ~Present(u, id)'
    BY <1>5, <2>5 DEF PipeInv, IdsInv
  <2>. QED
    BY <1>2, <2>1, <2>3, <2>4, <2>6 DEF PipeInv, IdsInv
<1>9. MatchInv'
  <2>1. MapMatchesServers'
    <3>. SUFFICES ASSUME NEW r \in globalMap
                  PROVE  /\ Present(SessionOf(r.id), r.id)'
                         /\ MapEntry(r.id, region'[SessionOf(r.id)][r.id]) = r
      BY DEF MapMatchesServers
    <3>1. /\ Present(SessionOf(r.id), r.id) /\ r.id \in RegionIds /\ SessionOf(r.id) \in Threads
          /\ MapEntry(r.id, region[SessionOf(r.id)][r.id]) = r
      BY DEF PipeInv, MatchInv, MapMatchesServers
    <3>2. CASE r.id # nr
      BY <1>5, <3>1, <3>2
    <3>3. CASE r.id = nr
      <4>1. SessionOf(nr) = Jump(nr)
        BY <1>1 DEF SessionOf
      <4>2. split.pc # "createReq"
        BY <1>1, <3>1, <3>3, <4>1 DEF PipeInv, IdsInv, Waiting
      <4>3. SameRange(region[Jump(nr)][nr], region[t][nr])
        BY <4>2, SplitAtWork DEF PipeInv, MatchInv, Nr
      <4>. QED
        BY <3>1, <3>3, <4>1, <4>3 DEF SameRange, MapEntry
    <3>. QED
      BY <3>2, <3>3
  <2>2. \A u \in Threads : \E r \in globalMap' : r.id = u
    BY DEF PipeInv, MatchInv, MapLocked
  <2>3. Target' = Jump(nr) /\ Nr' = region'[t][nr]
    BY <1>1, <1>2 DEF Target, Nr, SessionOf
  <2>4. Present(Target, split.nr)' /\ SameRange(region[Target][split.nr], Nr)'
    BY <1>2, <1>5, <2>3 DEF Present
  <2>. QED
    BY <2>1, <2>2, <2>4 DEF MatchInv
<1>10. PublishedInv'
  <2>1. \A id \in RegionIds : id >= NumThreads /\ Serving(region'[Jump(id)][id].status) =>
            \E r \in globalMap : r.id = id
    <3>. SUFFICES ASSUME NEW id \in RegionIds, id >= NumThreads,
                         Serving(region'[Jump(id)][id].status), id # nr
                  PROVE  \E r \in globalMap : r.id = id
      OBVIOUS
    <3>1. region'[Jump(id)][id] = region[Jump(id)][id]
      BY <1>5
    <3>. QED
      BY <3>1 DEF PipeInv, PublishedInv
  <2>2. region[t][t].status = "SplitAlmostDone" => \E r \in globalMap : r.id = nr
    BY DEF PipeInv, PublishedInv
  <2>3. pc = "logResp" /\ split.logStatus # "FarToDone" =>
            region[t][t].status = "SplitAlmostDone"
    BY DEF PipeInv, PublishedInv
  <2>4. region'[t][t] = region[t][t]
    BY <1>4
  <2>. QED
    BY <1>2, <2>1, <2>2, <2>3, <2>4 DEF PublishedInv
<1>11. PipelineAssertsHold'
  BY DEF PipeInv, PipelineAssertsHold
<1>. QED
  BY <1>6, <1>7, <1>8, <1>9, <1>10, <1>11 DEF PipeInv

\* The target makes the region, which it does not have yet, with the range that
\* the origin cut off, and does not serve it.
LEMMA CreatePipe ==
    ASSUME PipeInv, TypeOK', NEW u \in Threads, s2s_create_region_handler(u)
    PROVE  PipeInv'
<1>. USE PipeFacts
<1>1. split.pc = "createReq" /\ u = Target
  BY DEF s2s_create_region_handler
<1>2. PICK t \in Threads, nr \in RegionIds : split.ctx = t /\ split.nr = nr
  BY <1>1
<1>3. Target = Jump(nr) /\ u = Jump(nr) /\ Jump(nr) # t /\ Nr = region[t][nr]
  BY <1>1, <1>2, SplitAtWork DEF Nr
<1>4. ~Present(u, nr)
  BY <1>1, <1>2, <1>3 DEF PipeInv, IdsInv, Waiting
<1>5. /\ region' = [region EXCEPT ![u][nr] = NewRegion(region[t][nr], 0, "NotReady")]
      /\ split' = [split EXCEPT !.pc = "createResp"]
      /\ UNCHANGED <<globalMap, globalId, queue, fg, crash>>
  BY <1>2, <1>3, <1>4 DEF s2s_create_region_handler, SplitGoto
<1>6. /\ region'[u][nr] = NewRegion(region[t][nr], 0, "NotReady")
      /\ \A v \in Threads, id \in RegionIds : v # u \/ id # nr => region'[v][id] = region[v][id]
  BY <1>5
<1>7. /\ Present(u, nr)' /\ SameRange(region'[u][nr], region[t][nr])
      /\ ~Serving(region'[u][nr].status)
  BY <1>6 DEF NewRegion, Present, SameRange, Serving
<1>. QED
  BY <1>1, <1>2, <1>3, <1>5, <1>6, <1>7, TargetFrame

\* The target replays a batch; after the last one it serves the region, which is
\* in the map by then.
LEMMA SendLogPipe ==
    ASSUME PipeInv, TypeOK', NEW u \in Threads, s2s_send_region_log_handler(u)
    PROVE  PipeInv'
<1>. USE PipeFacts
<1>1. split.pc = "logReq" /\ u = Target
  BY DEF s2s_send_region_log_handler
<1>2. PICK t \in Threads, nr \in RegionIds : split.ctx = t /\ split.nr = nr
  BY <1>1
<1>3. Target = Jump(nr) /\ u = Jump(nr) /\ Jump(nr) # t /\ Nr = region[t][nr]
      /\ ~(nr < NumThreads)
  BY <1>1, <1>2, SplitAtWork DEF Nr
<1>4. Present(u, nr) /\ SameRange(region[u][nr], region[t][nr])
  BY <1>1, <1>2, <1>3 DEF PipeInv, MatchInv
<1>5. PICK k, s : /\ s \in {"Normal", region[u][nr].status}
                  /\ s = "Normal" => split.logStatus = "Done" \/ region[u][nr].status = "Normal"
                  /\ region' = [region EXCEPT ![u][nr].kvNum = k, ![u][nr].status = s]
  <2>1. region' = [region EXCEPT
                    ![u][nr].kvNum = region[u][nr].kvNum - Len(split.msg),
                    ![u][nr].status =
                        IF split.logStatus = "Done" THEN "Normal" ELSE region[u][nr].status]
    BY <1>2 DEF s2s_send_region_log_handler
  <2>. QED
    BY <2>1
<1>6. /\ split' = [split EXCEPT !.pc = "logResp"]
      /\ UNCHANGED <<globalMap, globalId, queue, fg, crash>>
  BY DEF s2s_send_region_log_handler, SplitGoto
<1>7. /\ region'[u][nr] = [region[u][nr] EXCEPT !.kvNum = k, !.status = s]
      /\ region[u][nr] \in Region
      /\ \A v \in Threads, id \in RegionIds : v # u \/ id # nr => region'[v][id] = region[v][id]
  BY <1>5
<1>8. /\ region'[u][nr].start = region[u][nr].start /\ region'[u][nr].end = region[u][nr].end
      /\ region'[u][nr].status = s
  BY <1>7 DEF Region
<1>9. Present(u, nr)' /\ SameRange(region'[u][nr], region[t][nr])
  BY <1>4, <1>5, <1>8 DEF Present, SameRange
<1>10. split.logStatus = "Done" => \E r \in globalMap : r.id = nr
  BY <1>1, <1>2 DEF PipeInv, PublishedInv
<1>11. Serving(region[u][nr].status) => \E r \in globalMap : r.id = nr
  <2>1. nr >= NumThreads
    BY <1>3
  <2>. QED
    BY <1>3, <2>1 DEF PipeInv, PublishedInv
<1>12. Serving(region'[u][nr].status) => \E r \in globalMap : r.id = nr
  BY <1>5, <1>8, <1>10, <1>11
<1>13. /\ Present(Jump(nr), nr)' /\ SameRange(region'[Jump(nr)][nr], region[t][nr])
       /\ Serving(region'[Jump(nr)][nr].status) => \E r \in globalMap : r.id = nr
       /\ \A v \in Threads, id \in RegionIds :
             v # Jump(nr) \/ id # nr => region'[v][id] = region[v][id]
  BY <1>3, <1>7, <1>9, <1>12 DEF Present
<1>. QED
  BY ONLY PipeInv, TypeOK', t \in Threads, nr \in RegionIds, <1>1, <1>2, <1>6, <1>13, TargetFrame

\* The initial state: every thread has its region, nothing is on its way.
LEMMA InitPipe == Init => PipeInv
<1>. SUFFICES ASSUME Init PROVE PipeInv
  OBVIOUS
<1>. USE Constants, RegionAssumptions
<1>1. /\ queue = <<>> /\ DOMAIN queue = {} /\ split = IdleSplit /\ split.pc = "poll"
      /\ split.ctx = None /\ globalId = NumThreads /\ crash = "no"
      /\ globalMap = {MapEntry(t, InitialRange(t)) : t \in Threads}
  BY DEF Init, IdleSplit
<1>2. \A t \in Threads : fg[t].pc = "idle" /\ ~Busy(fg[t])
  BY DEF Init, IdleFg, Busy
<1>3. /\ \A t \in Threads : region[t][t] = NewRegion(InitialRange(t), 0, "Normal")
      /\ \A t \in Threads, id \in RegionIds : t # id => region[t][id] = NoRegion
  BY DEF Init
<1>4. /\ \A t \in Threads : /\ region[t][t].status = "Normal" /\ Present(t, t)
                            /\ region[t][t].start = InitialRange(t).start
                            /\ region[t][t].end = InitialRange(t).end
      /\ \A t \in Threads, id \in RegionIds : t # id =>
            region[t][id].status = "Absent" /\ ~Present(t, id)
  <2>1. \A t \in Threads : /\ region[t][t].status = "Normal"
                           /\ region[t][t].start = InitialRange(t).start
                           /\ region[t][t].end = InitialRange(t).end
    <3>. SUFFICES ASSUME NEW t \in Threads
                  PROVE  /\ region[t][t].status = "Normal"
                         /\ region[t][t].start = InitialRange(t).start
                         /\ region[t][t].end = InitialRange(t).end
      OBVIOUS
    <3>1. PICK r : r = InitialRange(t)
      OBVIOUS
    <3>2. region[t][t] = NewRegion(r, 0, "Normal")
      BY <1>3, <3>1
    <3>. QED
      BY ONLY <3>1, <3>2 DEF NewRegion
  <2>2. \A t \in Threads, id \in RegionIds : t # id => region[t][id].status = "Absent"
    BY ONLY <1>3 DEF NewRegion, NoRegion
  <2>. QED
    BY ONLY <2>1, <2>2 DEF Present
<1>5. \A t \in Threads : t # None /\ t < NumThreads /\ t \in RegionIds /\ t \in Nat
  <2>1. \A t \in Threads : t < NumThreads
    BY DEF Threads
  <2>2. \A t \in Threads : t \in Nat /\ t \in RegionIds
    OBVIOUS
  <2>. QED
    BY <2>1, <2>2 DEF None
<1>6. TypeOK
  BY InitTypeOK
<1>7. HomeInv
  BY <1>2, <1>4, <1>5 DEF HomeInv
<1>8. IdsInv
  <2>1. \A t \in Threads, id \in RegionIds : id >= globalId => ~Present(t, id)
    BY <1>1, <1>4, <1>5
  <2>. QED
    BY <1>1, <2>1 DEF IdsInv
<1>9. HolderInv
  <2>1. \A t \in Threads : ~Queued(t)
    BY <1>1 DEF Queued
  <2>2. \A t \in Threads : split.ctx # t /\ fg[t].pc # "split" /\ region[t][t].status = "Normal"
    BY <1>1, <1>2, <1>4, <1>5
  <2>. QED
    BY <1>1, <2>1, <2>2 DEF HolderInv, HolderOK
<1>10. MatchInv
  <2>1. MapMatchesServers
    <3>. SUFFICES ASSUME NEW t \in Threads, NEW r, r = MapEntry(t, InitialRange(t))
                  PROVE  /\ Present(SessionOf(r.id), r.id)
                         /\ MapEntry(r.id, region[SessionOf(r.id)][r.id]) = r
      BY <1>1 DEF MapMatchesServers
    <3>1. r.id = t /\ SessionOf(t) = t
      BY <1>5 DEF MapEntry, SessionOf
    <3>. QED
      BY <1>4, <3>1 DEF MapEntry
  <2>2. \A t \in Threads : \E r \in globalMap : r.id = t
    <3>1. \A t \in Threads : MapEntry(t, InitialRange(t)) \in globalMap
      BY <1>1
    <3>2. \A t \in Threads : MapEntry(t, InitialRange(t)).id = t
      BY DEF MapEntry
    <3>. QED
      BY <3>1, <3>2
  <2>. QED
    BY <1>1, <2>1, <2>2 DEF MatchInv
<1>11. PublishedInv
  <2>1. \A id \in RegionIds : id >= NumThreads => ~Serving(region[Jump(id)][id].status)
    <3>1. \A id \in RegionIds : id >= NumThreads => Jump(id) \in Threads /\ Jump(id) # id
      BY <1>5
    <3>2. \A id \in RegionIds : id >= NumThreads => region[Jump(id)][id].status = "Absent"
      <4>. SUFFICES ASSUME NEW id \in RegionIds, id >= NumThreads
                    PROVE  region[Jump(id)][id].status = "Absent"
        OBVIOUS
      <4>1. PICK u \in Threads : u = Jump(id) /\ u # id
        BY <3>1
      <4>2. region[u][id].status = "Absent"
        BY ONLY <1>4, <4>1, id \in RegionIds
      <4>. QED
        BY <4>1, <4>2
    <3>. QED
      BY <3>2 DEF Serving
  <2>. QED
    BY <1>1, <2>1 DEF PublishedInv
<1>. QED
  BY <1>1, <1>6, <1>7, <1>8, <1>9, <1>10, <1>11 DEF PipeInv, PipelineAssertsHold

\* What a client does leaves the server alone.
LEMMA ClientLeaves ==
    ASSUME NEW c \in ClientIds, ClientStep(c)
    PROVE  UNCHANGED <<region, globalMap, globalId, queue, store, allocInode, logDb,
                       fg, split, crash>>
  BY DEF ClientStep, init_client_ctx, send_request, resend_request, handle_rpc_resp,
         Transmit, ServerUnchanged

\* Every step keeps the invariant of the pipeline.
LEMMA PipeInvInductive == PipeInv /\ [Next]_vars => PipeInv'
<1>. SUFFICES ASSUME PipeInv, [Next]_vars PROVE PipeInv'
  OBVIOUS
<1>1. TypeOK' /\ TypeOK
  BY TypeOKInductive DEF PipeInv
<1>2. ASSUME UNCHANGED <<region, globalMap, globalId, queue, fg, split, crash>>
      PROVE  PipeInv'
  <2>1. QuietServer
    BY <1>2 DEF QuietServer, RegionsStay, PipeInv, HomeInv
  <2>. QED
    BY <1>1, <2>1, QuietServerKeeps
<1>3. CASE UNCHANGED vars
  BY <1>2, <1>3 DEF vars
<1>4. ASSUME NEW t \in Threads, FgStep(t) \/ run_server_thread_end(t) PROVE PipeInv'
  <2>1. CASE start_split(t)
    BY <1>1, <2>1, StartSplitPipe
  <2>2. CASE check_region_and_split(t)
    BY <1>1, <2>2, CheckRegionPipe
  <2>3. CASE ~start_split(t) /\ ~check_region_and_split(t)
    <3>1. QuietServer
      BY <1>1, <1>4, <2>3, FgShape, FgQuietServer
    <3>. QED
      BY <1>1, <3>1, QuietServerKeeps
  <2>. QED
    BY <2>1, <2>2, <2>3
<1>5. ASSUME NEW t \in Threads, TargetStep(t) PROVE PipeInv'
  BY <1>1, <1>5, CreatePipe, SendLogPipe DEF TargetStep
<1>6. CASE SplitStep
  BY <1>1, <1>6, PollPipe, SplitMovesPipe, ShrinkPipe, PublishPipe, LogRespPipe, FinishPipe
  DEF SplitStep
<1>7. ASSUME NEW c \in ClientIds, ClientStep(c) PROVE PipeInv'
  BY <1>2, <1>7, ClientLeaves
<1>. QED
  BY <1>3, <1>4, <1>5, <1>6, <1>7 DEF Next

\* The pipeline of splits keeps its invariant, for any clients.
THEOREM PipelineInvariant == Spec => []PipeInv
  BY InitPipe, PipeInvInductive, PTL DEF Spec

\* The assertions on the queue, the maps and the temporary region never fail.
THEOREM PipelineNeverAsserts == Spec => []PipelineAssertsHold
<1>1. PipeInv => PipelineAssertsHold
  BY DEF PipeInv
<1>. QED
  BY <1>1, PipelineInvariant, PTL

\* What the map promises, some thread holds: at every moment and for any
\* clients, also while ranges go wrong by end / 2.
THEOREM MapAlwaysMatches == Spec => []MapMatchesServers
<1>1. PipeInv => MapMatchesServers
  BY DEF PipeInv, MatchInv
<1>. QED
  BY <1>1, PipelineInvariant, PTL

\* A region is split once at a time, and its split is never lost.
THEOREM OneSplitAlways == Spec => []OneSplitAtATime
<1>1. PipeInv => OneSplitAtATime
  <2>. SUFFICES ASSUME PipeInv, NEW t \in Threads
                PROVE  SplitTokens(t) =
                          IF region[t][t].status \in {"IsSplit", "SplitAlmostDone"} THEN 1 ELSE 0
    BY DEF OneSplitAtATime
  <2>. DEFINE entries == {i \in DOMAIN queue : queue[i][1] = t}
  <2>1. HolderOK(t) /\ \A i, j \in DOMAIN queue : queue[i][1] = queue[j][1] => i = j
    BY DEF PipeInv, HolderInv
  <2>2. ~Queued(t) => Cardinality(entries) = 0
    <3>1. ~Queued(t) => entries = {}
      BY DEF Queued
    <3>. QED
      BY <3>1, FS_EmptySet
  <2>3. Queued(t) => Cardinality(entries) = 1
    <3>. SUFFICES ASSUME Queued(t) PROVE Cardinality(entries) = 1
      OBVIOUS
    <3>1. PICK i \in DOMAIN queue : queue[i][1] = t
      BY DEF Queued
    <3>2. entries = {i}
      BY <2>1, <3>1
    <3>. QED
      BY <3>2, FS_Singleton
  <2>. HIDE DEF entries
  <2>4. SplitTokens(t) = (IF fg[t].pc = "split" THEN 1 ELSE 0) + Cardinality(entries)
                         + (IF split.ctx = t THEN 1 ELSE 0)
    BY DEF SplitTokens, entries
  <2>. QED
    BY <2>1, <2>2, <2>3, <2>4 DEF HolderOK
<1>. QED
  BY <1>1, PipelineInvariant, PTL
-------------------------------------------------------------------------------
(* The log. *)

\* Splitting leaves the counters of the threads' own regions alone, but for the
\* log id, which goes back to 0.
CountersKept ==
    \A u \in Threads : /\ region'[u][u].kvNum = region[u][u].kvNum
                       /\ region'[u][u].logId \in {region[u][u].logId, 0}

\* An update of one field, or of a region that is not a thread's own.
LEMMA UpdateKeepsCounters ==
    ASSUME PipeInv, NEW t \in Threads, NEW id \in RegionIds,
           \/ UNCHANGED region
           \/ \E s : region' = [region EXCEPT ![t][t].status = s]
           \/ \E e : region' = [region EXCEPT ![t][t].end = e]
           \/ ~(id < NumThreads) /\ \E r : region' = [region EXCEPT ![t][id] = r]
           \/ ~(id < NumThreads) /\ \E r : region' = [region EXCEPT ![t][id] = r, ![t][t].logId = 0]
           \/ /\ ~(id < NumThreads)
              /\ \E k, s : region' = [region EXCEPT ![t][id].kvNum = k, ![t][id].status = s]
    PROVE  CountersKept
<1>. USE PipeFacts
<1>0. t \in RegionIds /\ region[t][t] \in Region /\ region[t][id] \in Region
  OBVIOUS
<1>1. CASE UNCHANGED region
  BY <1>1 DEF CountersKept
<1>2. CASE \E s : region' = [region EXCEPT ![t][t].status = s]
  <2>1. PICK s : region' = [region EXCEPT ![t][t].status = s]
    BY <1>2
  <2>2. /\ region'[t][t] = [region[t][t] EXCEPT !.status = s]
        /\ \A u \in Threads \ {t} : region'[u][u] = region[u][u]
    BY <1>0, <2>1
  <2>3. region'[t][t].kvNum = region[t][t].kvNum /\ region'[t][t].logId = region[t][t].logId
    BY <1>0, <2>2 DEF Region
  <2>. QED
    BY <2>2, <2>3 DEF CountersKept
<1>3. CASE \E e : region' = [region EXCEPT ![t][t].end = e]
  <2>1. PICK e : region' = [region EXCEPT ![t][t].end = e]
    BY <1>3
  <2>2. /\ region'[t][t] = [region[t][t] EXCEPT !.end = e]
        /\ \A u \in Threads \ {t} : region'[u][u] = region[u][u]
    BY <1>0, <2>1
  <2>3. region'[t][t].kvNum = region[t][t].kvNum /\ region'[t][t].logId = region[t][t].logId
    BY <1>0, <2>2 DEF Region
  <2>. QED
    BY <2>2, <2>3 DEF CountersKept
<1>4. ~(id < NumThreads) => \A u \in Threads : u # id
  OBVIOUS
<1>5. CASE ~(id < NumThreads) /\ \E r : region' = [region EXCEPT ![t][id] = r]
  <2>1. \A u \in Threads : region'[u][u] = region[u][u]
    BY <1>0, <1>4, <1>5
  <2>. QED
    BY <2>1 DEF CountersKept
<1>6. CASE ~(id < NumThreads) /\ \E r : region' = [region EXCEPT ![t][id] = r, ![t][t].logId = 0]
  <2>1. PICK r : region' = [region EXCEPT ![t][id] = r, ![t][t].logId = 0]
    BY <1>6
  <2>2. /\ region'[t][t] = [region[t][t] EXCEPT !.logId = 0]
        /\ \A u \in Threads \ {t} : region'[u][u] = region[u][u]
    BY <1>0, <1>4, <1>6, <2>1
  <2>3. region'[t][t].kvNum = region[t][t].kvNum /\ region'[t][t].logId = 0
    BY <1>0, <2>2 DEF Region
  <2>. QED
    BY <2>2, <2>3 DEF CountersKept
<1>7. CASE /\ ~(id < NumThreads)
           /\ \E k, s : region' = [region EXCEPT ![t][id].kvNum = k, ![t][id].status = s]
  <2>1. PICK k, s : region' = [region EXCEPT ![t][id].kvNum = k, ![t][id].status = s]
    BY <1>7
  <2>2. \A v \in Threads, i \in RegionIds : v # t \/ i # id => region'[v][i] = region[v][i]
    BY <2>1
  <2>3. \A u \in Threads : region'[u][u] = region[u][u]
    BY <1>4, <1>7, <2>2
  <2>. QED
    BY <2>3 DEF CountersKept
<1>. QED
  BY <1>1, <1>2, <1>3, <1>5, <1>6, <1>7

\* The steps of a split, at the origin, in the split thread and at the target.
LEMMA SplitKeepsCounters ==
    ASSUME PipeInv, NEW t \in Threads,
           SplitStep \/ TargetStep(t) \/ start_split(t) \/ check_region_and_split(t)
    PROVE  CountersKept /\ UNCHANGED <<logDb, allocInode>>
<1>. USE PipeFacts
<1>1. UNCHANGED <<logDb, allocInode>>
  BY DEF SplitStep, split_region_thread, rpc_create_region, rpc_create_region_cb,
         rpc_send_region_dir, rpc_send_region_end, read_log, count_log_left, shrink_left,
         publish_halves, rpc_send_region_log_resp, finish_split, Die, TargetStep,
         s2s_create_region_handler, s2s_send_region_log_handler, start_split,
         check_region_and_split
<1>2. CASE start_split(t)
  <2>1. fg[t].client = t /\ t \in RegionIds
    BY <1>2 DEF start_split, PipeInv, HomeInv, Busy
  <2>2. UNCHANGED region \/ \E s : region' = [region EXCEPT ![t][t].status = s]
    BY <1>2, <2>1 DEF start_split
  <2>. QED
    BY <1>1, <2>1, <2>2, UpdateKeepsCounters
<1>3. CASE check_region_and_split(t)
  <2>1. PICK id \in RegionIds : id = globalId /\ ~(id < NumThreads)
    BY <1>3 DEF check_region_and_split, RegionIds, PipeInv, IdsInv
  <2>2. UNCHANGED region \/ \E r : region' = [region EXCEPT ![t][id] = r]
    BY <1>3, <2>1 DEF check_region_and_split
  <2>. QED
    BY <1>1, <2>1, <2>2, UpdateKeepsCounters
<1>4. CASE UNCHANGED region
  BY <1>1, <1>4 DEF CountersKept
<1>5. CASE SplitStep /\ ~UNCHANGED region
  <2>1. shrink_left \/ publish_halves \/ rpc_send_region_log_resp \/ finish_split
    BY <1>5 DEF SplitStep, split_region_thread, rpc_create_region, rpc_create_region_cb,
         rpc_send_region_dir, rpc_send_region_end, read_log, count_log_left, Die
  <2>2. split.pc \notin {"poll", "create"}
    BY <2>1 DEF shrink_left, publish_halves, rpc_send_region_log_resp, finish_split
  <2>3. PICK u \in Threads, id \in RegionIds :
            split.ctx = u /\ split.nr = id /\ split.left = u /\ ~(id < NumThreads)
    BY <2>2, SplitAtWork
  <2>4. CASE shrink_left
    <3>1. \E e : region' = [region EXCEPT ![u][u].end = e]
      BY <1>5, <2>3, <2>4 DEF shrink_left, Die
    <3>. QED
      BY <1>1, <3>1, UpdateKeepsCounters
  <2>5. CASE publish_halves \/ finish_split
    <3>1. \E s : region' = [region EXCEPT ![u][u].status = s]
      BY <2>3, <2>5 DEF publish_halves, finish_split
    <3>. QED
      BY <1>1, <3>1, UpdateKeepsCounters
  <2>6. CASE rpc_send_region_log_resp
    <3>1. \E r : region' = [region EXCEPT ![u][id] = r, ![u][u].logId = 0]
      BY <1>5, <2>3, <2>6 DEF rpc_send_region_log_resp
    <3>2. CountersKept
      BY ONLY PipeInv, u \in Threads, id \in RegionIds, <2>3, <3>1, UpdateKeepsCounters
    <3>. QED
      BY <1>1, <3>2
  <2>. QED
    BY <2>1, <2>4, <2>5, <2>6
<1>6. CASE TargetStep(t)
  <2>1. split.pc # "poll"
    BY <1>6 DEF TargetStep, s2s_create_region_handler, s2s_send_region_log_handler
  <2>2. PICK id \in RegionIds : split.nr = id /\ ~(id < NumThreads)
    BY <2>1, SplitAtWork
  <2>3. CASE s2s_create_region_handler(t)
    <3>1. \E r : region' = [region EXCEPT ![t][id] = r]
      BY <2>2, <2>3 DEF s2s_create_region_handler
    <3>2. CountersKept
      BY ONLY PipeInv, t \in Threads, id \in RegionIds, <2>2, <3>1, UpdateKeepsCounters
    <3>. QED
      BY <1>1, <3>2
  <2>4. CASE s2s_send_region_log_handler(t)
    <3>1. region' = [region EXCEPT
              ![t][id].kvNum = region[t][id].kvNum - Len(split.msg),
              ![t][id].status = IF split.logStatus = "Done" THEN "Normal" ELSE region[t][id].status]
      BY <2>2, <2>4 DEF s2s_send_region_log_handler
    <3>2. \E k, s : region' = [region EXCEPT ![t][id].kvNum = k, ![t][id].status = s]
      BY <3>1
    <3>3. CountersKept
      BY ONLY PipeInv, t \in Threads, id \in RegionIds, <2>2, <3>2, UpdateKeepsCounters
    <3>. QED
      BY <1>1, <3>3
  <2>. QED
    BY <1>6, <2>3, <2>4 DEF TargetStep
<1>. QED
  BY <1>2, <1>3, <1>4, <1>5, <1>6

\* A thread goes on with its request and not with a log record.
NoRecord(u) == fg'[u] = fg[u] \/ (fg[u].pc # "put" /\ fg'[u].pc # "put")


\* The count of a thread's entries is that of its own region.
LEMMA AddKvOwn ==
    ASSUME PipeInv, NEW t \in Threads, NEW n, Busy(fg[t]), AddKv(t, n)
    PROVE  /\ region'[t][t].kvNum = region[t][t].kvNum + n
           /\ region'[t][t].logId = region[t][t].logId
           /\ \A u \in Threads \ {t} : region'[u][u] = region[u][u]
<1>1. fg[t].client = t /\ t \in RegionIds /\ region[t][t] \in Region
  BY PipeFacts DEF PipeInv, HomeInv
<1>2. PICK k : k = region[t][t].kvNum + n
  OBVIOUS
<1>3. region' = [region EXCEPT ![t][t].kvNum = k]
  BY <1>1, <1>2 DEF AddKv
<1>4. /\ region'[t][t] = [region[t][t] EXCEPT !.kvNum = k]
      /\ \A u \in Threads \ {t} : region'[u][u] = region[u][u]
  BY <1>1, <1>3, PipeFacts
<1>. QED
  BY <1>1, <1>2, <1>4 DEF Region

\* The steps that neither take a log id nor write a record.
LEMMA LogKept ==
    ASSUME TypeOK, LogInv, UNCHANGED logDb, \A u \in Threads : NoRecord(u),
           \A u \in Threads : region'[u][u].logId \in {region[u][u].logId, 0}
    PROVE  LogInv'
<1>. SUFFICES ASSUME NEW t \in Threads
              PROVE  IF fg'[t].pc = "put"
                     THEN /\ fg'[t].logAt <= Len(logDb[t])
                          /\ region'[t][t].logId \in {0, fg'[t].logAt + 1}
                     ELSE region'[t][t].logId <= Len(logDb[t])
  BY DEF LogInv
<1>1. Len(logDb[t]) \in Nat /\ region'[t][t].logId \in {region[t][t].logId, 0}
  BY LenProperties DEF TypeOK
<1>2. fg[t].pc = "put" => /\ fg[t].logAt <= Len(logDb[t])
                          /\ region[t][t].logId \in {0, fg[t].logAt + 1}
  BY DEF LogInv
<1>3. fg[t].pc # "put" => region[t][t].logId <= Len(logDb[t])
  BY DEF LogInv
<1>4. NoRecord(t)
  OBVIOUS
<1>. QED
  BY <1>1, <1>2, <1>3, <1>4 DEF NoRecord

\* log_op: the thread takes the id, and then writes the record at that place,
\* where the log has ended or where an earlier split has left one.
LEMMA LogOpKeeps ==
    ASSUME PipeInv, LogInv, NEW t \in Threads, log_op_id(t) \/ log_op_put(t)
    PROVE  LogInv'
<1>. USE PipeFacts
<1>1. /\ TypeOK /\ logDb \in [Threads -> Seq(LogRecord)] /\ fg[t] \in FgState
      /\ Len(logDb[t]) \in Nat /\ logDb[t] \in Seq(LogRecord)
      /\ region[t][t] \in Region /\ region[t][t].logId \in Nat /\ t \in RegionIds
  BY LenProperties DEF PipeInv, TypeOK, Region
<1>2. CASE log_op_id(t)
  <2>1. /\ OwnStep(t) /\ fg[t].pc = "logId" /\ UNCHANGED logDb /\ fg[t].client = t
        /\ fg'[t].pc = "put" /\ fg'[t].logAt = MyRegion(t).logId
        /\ region' = [region EXCEPT ![t][fg[t].client].logId = @ + 1]
    BY <1>1, <1>2, LogIdOwn DEF log_op_id, PipeInv, HomeInv
  <2>2. PICK k : k = region[t][t].logId + 1
    OBVIOUS
  <2>3. region' = [region EXCEPT ![t][t].logId = k] /\ fg'[t].logAt = region[t][t].logId
    BY <2>1, <2>2 DEF MyRegion
  <2>4. /\ region'[t][t] = [region[t][t] EXCEPT !.logId = k]
        /\ \A u \in Threads \ {t} : region'[u][u] = region[u][u]
    BY <1>1, <2>3
  <2>5. region'[t][t].logId = region[t][t].logId + 1
    BY <1>1, <2>2, <2>4 DEF Region
  <2>6. region[t][t].logId <= Len(logDb[t])
    BY <2>1 DEF LogInv
  <2>7. \A u \in Threads \ {t} : fg'[u] = fg[u]
    BY <2>1 DEF OwnStep
  <2>. QED
    BY <1>1, <2>1, <2>3, <2>4, <2>5, <2>6, <2>7 DEF LogInv
<1>3. CASE log_op_put(t)
  <2>1. OwnStep(t) /\ fg[t].pc = "put" /\ fg'[t].pc = "reply" /\ UNCHANGED region
    BY <1>1, <1>3, LogPutOwn DEF log_op_put
  <2>2. /\ \A u \in Threads \ {t} : logDb'[u] = logDb[u] /\ fg'[u] = fg[u]
        /\ \E rec : logDb'[t] = WriteAt(logDb[t], fg[t].logAt, rec)
    BY <1>1, <1>3, <2>1 DEF log_op_put, OwnStep
  <2>3. /\ fg[t].logAt <= Len(logDb[t]) /\ region[t][t].logId \in {0, fg[t].logAt + 1}
        /\ fg[t].logAt \in Nat
    BY <1>1, <2>1 DEF LogInv, FgState
  <2>4. Len(logDb'[t]) = IF fg[t].logAt < Len(logDb[t]) THEN Len(logDb[t]) ELSE Len(logDb[t]) + 1
    <3>1. PICK rec : logDb'[t] = WriteAt(logDb[t], fg[t].logAt, rec)
      BY <2>2
    <3>2. CASE fg[t].logAt < Len(logDb[t])
      <4>1. logDb'[t] = [logDb[t] EXCEPT ![fg[t].logAt + 1] = rec]
        BY <3>1, <3>2 DEF WriteAt
      <4>2. DOMAIN logDb'[t] = 1 .. Len(logDb[t])
        BY <1>1, <4>1, LenProperties
      <4>. QED
        BY <1>1, <3>2, <4>1, <4>2, LenProperties
    <3>3. CASE ~(fg[t].logAt < Len(logDb[t]))
      <4>1. logDb'[t] = Append(logDb[t], rec)
        BY <3>1, <3>3 DEF WriteAt
      <4>. QED
        BY <1>1, <3>3, <4>1, AppendProperties
    <3>. QED
      BY <3>2, <3>3
  <2>5. region'[t][t].logId <= Len(logDb'[t])
    <3>1. PICK a \in Nat, n \in Nat : a = fg[t].logAt /\ n = Len(logDb[t])
      BY <1>1, <2>3
    <3>m. PICK m : m = Len(logDb'[t])
      OBVIOUS
    <3>2. a <= n /\ m = IF a < n THEN n ELSE n + 1
      BY <2>3, <2>4, <3>1, <3>m
    <3>3. PICK l : l = region'[t][t].logId
      OBVIOUS
    <3>4. l \in {0, a + 1}
      BY <2>1, <2>3, <3>1, <3>3
    <3>5. l <= m
      BY ONLY a \in Nat, n \in Nat, <3>2, <3>4
    <3>. QED
      BY <3>m, <3>3, <3>5
  <2>. QED
    BY <2>1, <2>2, <2>5 DEF LogInv
<1>. QED
  BY <1>2, <1>3

\* Every step keeps the invariant of the log.
LEMMA LogInvInductive ==
    ASSUME PipeInv, LogInv, [Next]_vars
    PROVE  LogInv'
<1>1. TypeOK
  BY DEF PipeInv
<1>2. ASSUME UNCHANGED <<region, logDb, fg>> PROVE LogInv'
  BY <1>2 DEF LogInv
<1>3. ASSUME NEW t \in Threads, FgStep(t) \/ run_server_thread_end(t) PROVE LogInv'
  <2>1. CASE DieStep
    BY <1>2, <2>1 DEF DieStep, Die
  <2>2. ASSUME OwnStep(t), fg[t].pc # "put", fg'[t].pc # "put", UNCHANGED logDb,
               \A u \in Threads : region'[u][u].logId \in {region[u][u].logId, 0}
        PROVE  LogInv'
    <3>1. \A u \in Threads : NoRecord(u)
      BY <2>2 DEF OwnStep, NoRecord
    <3>. QED
      BY <1>1, <2>2, <3>1, LogKept
  <2>3. CASE PlainStep(t)
    BY <2>2, <2>3 DEF PlainStep
  <2>4. CASE StoreStep(t)
    <3>1. PICK n : AddKv(t, n)
      BY <1>1, <2>4, StoreOwn
    <3>2. \A u \in Threads : region'[u][u].logId = region[u][u].logId
      BY <1>1, <2>4, <3>1, StoreOwn, AddKvOwn
    <3>. QED
      BY <1>1, <2>2, <2>4, <3>2, StoreOwn
  <2>6. CASE start_split(t) \/ check_region_and_split(t)
    <3>1. CountersKept /\ UNCHANGED logDb
      BY <2>6, SplitKeepsCounters
    <3>2. fg[t].pc \in {"cas", "split"}
      BY <2>6 DEF start_split, check_region_and_split
    <3>3. \/ UNCHANGED fg \/ Goto(t, "split") \/ Goto(t, "log")
      BY <2>6 DEF start_split, check_region_and_split
    <3>4. UNCHANGED fg \/ (OwnStep(t) /\ fg'[t].pc \in {"split", "log"})
      BY <1>1, <3>2, <3>3, GotoOwn DEF Busy
    <3>5. \A u \in Threads : NoRecord(u)
      BY <3>2, <3>4 DEF NoRecord, OwnStep
    <3>. QED
      BY <1>1, <3>1, <3>5, LogKept DEF CountersKept
  <2>7. CASE log_op_id(t) \/ log_op_put(t)
    BY <2>7, LogOpKeeps
  <2>. QED
    BY <1>1, <1>3, <2>1, <2>3, <2>4, <2>6, <2>7, FgShape
<1>4. ASSUME NEW t \in Threads, TargetStep(t) \/ SplitStep PROVE LogInv'
  <2>1. UNCHANGED fg
    BY <1>4 DEF SplitStep, split_region_thread, rpc_create_region, rpc_create_region_cb,
         rpc_send_region_dir, rpc_send_region_end, read_log, count_log_left, shrink_left,
         publish_halves, rpc_send_region_log_resp, finish_split, Die, TargetStep,
         s2s_create_region_handler, s2s_send_region_log_handler
  <2>2. CountersKept /\ UNCHANGED logDb
    BY <1>4, SplitKeepsCounters
  <2>. QED
    BY <1>1, <2>1, <2>2, LogKept DEF CountersKept, NoRecord
<1>5. 0 \in Threads
  BY Constants
<1>. QED
  BY <1>2, <1>3, <1>4, <1>5, ClientLeaves DEF Next, vars

\* A record is never written beyond the end of the log, nor is one missing
\* before it, whenever the split thread sets log_id back.
THEOREM LogNeverHasGaps == Spec => []LogHasNoGaps
<1>1. Init => LogInv
  BY Constants DEF Init, LogInv, IdleFg, NewRegion
<1>2. PipeInv /\ LogInv /\ [Next]_vars => LogInv'
  BY LogInvInductive
<1>3. TypeOK /\ LogInv => LogHasNoGaps
  <2>. SUFFICES ASSUME TypeOK, LogInv, NEW t \in Threads
                PROVE  /\ fg[t].pc = "put" => fg[t].logAt <= Len(logDb[t])
                       /\ region[t][t].logId <=
                             Len(logDb[t]) + (IF fg[t].pc = "put" THEN 1 ELSE 0)
    BY DEF LogHasNoGaps
  <2>1. Len(logDb[t]) \in Nat /\ fg[t].logAt \in Nat /\ region[t][t].logId \in Nat
    <3>1. fg[t] \in FgState /\ logDb[t] \in Seq(LogRecord)
      BY FgTyped DEF TypeOK
    <3>2. region[t][t] \in Region
      BY Constants DEF TypeOK
    <3>. QED
      BY <3>1, <3>2, LenProperties DEF FgState, Region
  <2>2. fg[t].pc = "put" => /\ fg[t].logAt <= Len(logDb[t])
                            /\ region[t][t].logId \in {0, fg[t].logAt + 1}
    BY DEF LogInv
  <2>3. fg[t].pc # "put" => region[t][t].logId <= Len(logDb[t])
    BY DEF LogInv
  <2>4. CASE fg[t].pc = "put"
    BY <2>1, <2>2, <2>4
  <2>5. CASE fg[t].pc # "put"
    BY <2>1, <2>3, <2>5
  <2>. QED
    BY <2>4, <2>5
<1>. QED
  BY <1>1, <1>2, <1>3, PipelineInvariant, PTL DEF Spec, PipeInv

-------------------------------------------------------------------------------
(* The stores. *)

\* A store of thread t holds finitely many entries, each key once, and each
\* inode number once, of those that t has allocated below n.
GoodStore(db, t, n) ==
    /\ IsFiniteSet(db.files)
    /\ \A e \in db.files : e.inode.thr = t /\ e.inode.num < n
    /\ \A d, e \in db.files :
          d.inode = e.inode \/ (d.pinode = e.pinode /\ d.name = e.name) => d = e

\* What a handler f may say to the request q once it has executed it on db.
AnswerPc == {"table", "cas", "split", "log", "logId", "put", "reply"}
Whole(f, q, db) ==
    LET found == Found(db, q.pinode, q.name)
    IN  /\ q.op \in {"mknod", "mkdir"} =>
              f.inode \in db.stats /\ \E e \in found : e.inode = f.inode
        /\ q.op \in {"unlink", "rmdir"} => f.inode \notin db.stats /\ found = {}

\* Between the two calls of the store: the entry is there and its stat is still
\* missing, or the entry is gone and no other has its number.
RequestOK(f, q, db) ==
    /\ f.pc = "addstat" => /\ q.op \in {"mknod", "mkdir"}
                           /\ \E e \in Found(db, q.pinode, q.name) : e.inode = f.inode
    /\ f.pc = "delstat" => /\ q.op \in {"unlink", "rmdir"}
                           /\ Found(db, q.pinode, q.name) = {}
                           /\ \A e \in db.files : e.inode # f.inode
    /\ f.pc \in AnswerPc /\ f.resp = "kSuccess" => Whole(f, q, db)

StoreOK(t) == GoodStore(store[t], t, allocInode[t])
ThreadOK(t) ==
    Busy(fg[t]) => client[t].pc = "served" /\ RequestOK(fg[t], client[t], store[t])
StoreInv == \A t \in Threads : StoreOK(t) /\ ThreadOK(t)

\* A store that becomes another without taking an entry's stat away.
KeepsStats(db, db2) ==
    \A e \in db.files \cap db2.files : e.inode \in db.stats => e.inode \in db2.stats
StatsKept == \A t \in Threads : KeepsStats(store[t], store'[t])

\* What the calls of the store can have done: nothing, or their work.
LEMMA InsertFileOutcome ==
    ASSUME NEW db, NEW p, NEW n, NEW i, NEW o \in InsertFileInode(db, p, n, i)
    PROVE  /\ o.inode = i
           /\ \/ o.db = db /\ o.status \in {"KEY_ALREADY_EXIST", "UNKNOWN_ERR"}
              \/ /\ o.db = [db EXCEPT !.files = @ \cup {[pinode |-> p, name |-> n, inode |-> i]}]
                 /\ o.status = "OK" /\ Found(db, p, n) = {}
  BY DEF InsertFileInode, Outcome, Failure

\* Likewise.
LEMMA InsertStatOutcome ==
    ASSUME NEW db, NEW i, NEW o \in InsertStat(db, i)
    PROVE  /\ o.inode = i
           /\ \/ o.db = db /\ o.status \in {"KEY_ALREADY_EXIST", "UNKNOWN_ERR"}
              \/ o.db = [db EXCEPT !.stats = @ \cup {i}] /\ o.status = "OK"
  BY DEF InsertStat, Outcome, Failure

\* Likewise.
LEMMA DeleteFileOutcome ==
    ASSUME NEW db \in Store, NEW p, NEW n, NEW i, NEW o \in DeleteFileInode(db, p, n, i)
    PROVE  \/ o.db = db /\ o.status \in {"KEY_NOT_EXIST", "UNKNOWN_ERR"}
           \/ \E e \in Found(db, p, n) : /\ o.db.files = db.files \ {e} /\ o.db.stats = db.stats
                                         /\ o.inode = e.inode /\ o.status = "OK"
<1>1. CASE o \in Failure(db, i)
  BY <1>1 DEF Failure, Outcome
<1>2. CASE Found(db, p, n) = {} /\ o = Outcome(db, "KEY_NOT_EXIST", i)
  BY <1>2 DEF Outcome
<1>3. ASSUME NEW e \in Found(db, p, n),
             o = Outcome([db EXCEPT !.files = @ \ {e}], "OK", e.inode)
      PROVE  /\ o.db.files = db.files \ {e} /\ o.db.stats = db.stats
             /\ o.inode = e.inode /\ o.status = "OK"
  <2>1. PICK d : d = [db EXCEPT !.files = @ \ {e}]
    OBVIOUS
  <2>4. d.files = db.files \ {e} /\ d.stats = db.stats
    BY <2>1 DEF Store
  <2>2. o = Outcome(d, "OK", e.inode)
    BY <1>3, <2>1
  <2>3. o.db = d /\ o.inode = e.inode /\ o.status = "OK"
    BY <2>2 DEF Outcome
  <2>. QED
    BY <2>3, <2>4
<1>. QED
  BY <1>1, <1>2, <1>3 DEF DeleteFileInode

\* Likewise.
LEMMA DeleteStatOutcome ==
    ASSUME NEW db, NEW i, NEW o \in DeleteStat(db, i)
    PROVE  /\ o.inode = i
           /\ \/ o.db = db /\ o.status \in {"KEY_NOT_EXIST", "UNKNOWN_ERR"}
              \/ o.db = [db EXCEPT !.stats = @ \ {i}] /\ o.status = "OK"
<1>1. PICK d : d = [db EXCEPT !.stats = @ \ {i}]
  OBVIOUS
<1>2. \/ o \in Failure(db, i)
      \/ o = Outcome(d, "OK", i)
      \/ o = Outcome(db, "KEY_NOT_EXIST", i)
  BY <1>1 DEF DeleteStat
<1>3. o.inode = i /\ \/ o.db = db /\ o.status \in {"KEY_NOT_EXIST", "UNKNOWN_ERR"}
                     \/ o.db = d /\ o.status = "OK"
  BY <1>2 DEF Outcome, Failure
<1>. QED
  BY <1>1, <1>3

\* The answer is a success only if the last call was one.
LEMMA StatusIsAnswer ==
    ASSUME NEW status
    PROVE  convert_status_to_resptype(status) = "kSuccess" <=> status = "OK"
  BY DEF convert_status_to_resptype

\* A new entry with a fresh number.
LEMMA InsertGood ==
    ASSUME NEW db \in Store, NEW t \in Threads, NEW n \in Nat, GoodStore(db, t, n),
           NEW p, NEW name, NEW d \in BOOLEAN, Found(db, p, name) = {}, NEW db2,
           db2.files = db.files \cup
              {[pinode |-> p, name |-> name, inode |-> [thr |-> t, num |-> n, dir |-> d]]}
    PROVE  GoodStore(db2, t, n + 1)
<1>. DEFINE i == [thr |-> t, num |-> n, dir |-> d]
            new == [pinode |-> p, name |-> name, inode |-> i]
<1>1. /\ i.thr = t /\ i.num = n /\ new.inode = i /\ new.pinode = p /\ new.name = name
  OBVIOUS
<1>2. \A e \in db.files : e.inode.num \in Nat /\ e.inode.thr = t /\ e.inode.num < n
  <2>1. \A e \in db.files : e.inode \in Inode
    BY DEF Store, Entry
  <2>. QED
    BY <2>1, Constants DEF GoodStore, Inode
<1>3. db2.files = db.files \cup {new}
  OBVIOUS
<1>. HIDE DEF i, new
<1>4. IsFiniteSet(db2.files)
  BY <1>3, FS_AddElement DEF GoodStore
<1>5. \A e \in db2.files : e.inode.thr = t /\ e.inode.num < n + 1
  BY <1>1, <1>2, <1>3
<1>6. \A e \in db.files : e.inode # i /\ ~(e.pinode = p /\ e.name = name)
  BY <1>1, <1>2 DEF Found
<1>7. \A a, e \in db2.files :
          a.inode = e.inode \/ (a.pinode = e.pinode /\ a.name = e.name) => a = e
  BY <1>1, <1>3, <1>6 DEF GoodStore
<1>. QED
  BY <1>4, <1>5, <1>7 DEF GoodStore

\* Fewer entries, and a counter that has gone on.
LEMMA FewerGood ==
    ASSUME NEW db \in Store, NEW t \in Threads, NEW n \in Nat, GoodStore(db, t, n), NEW db2,
           db2.files \subseteq db.files, NEW m \in Nat, n <= m
    PROVE  GoodStore(db2, t, m)
<1>1. IsFiniteSet(db2.files)
  BY FS_Subset DEF GoodStore
<1>2. \A e \in db.files : e.inode.num \in Nat
  BY Constants DEF Store, Entry, Inode
<1>3. \A e \in db2.files : e.inode.thr = t /\ e.inode.num < m
  BY <1>2 DEF GoodStore
<1>. QED
  BY <1>1, <1>3 DEF GoodStore

\* The other threads keep what they have, when one makes a step.
LEMMA OthersKeep ==
    ASSUME StoreInv, NEW t \in Threads,
           \A u \in Threads \ {t} : /\ store'[u] = store[u] /\ allocInode'[u] = allocInode[u]
                                    /\ fg'[u] = fg[u]
                                    /\ Busy(fg[u]) => client'[u] = client[u],
           StoreOK(t)', ThreadOK(t)', KeepsStats(store[t], store'[t])
    PROVE  StoreInv' /\ StatsKept
<1>1. ASSUME NEW u \in Threads \ {t}
      PROVE  StoreOK(u)' /\ ThreadOK(u)' /\ KeepsStats(store[u], store'[u])
  BY <1>1 DEF StoreInv, StoreOK, ThreadOK, KeepsStats
<1>. QED
  BY <1>1 DEF StoreInv, StatsKept

\* The types that these steps need.
LEMMA StoreFacts ==
    ASSUME PipeInv, NEW t \in Threads
    PROVE  /\ TypeOK /\ store \in [Threads -> Store] /\ store[t] \in Store
           /\ allocInode \in [Threads -> 1 .. MaxInode + 1] /\ allocInode[t] \in Nat
           /\ fg \in [Threads -> FgState] /\ fg[t] \in FgState
           /\ Busy(fg[t]) => fg[t].client = t /\ t \in ClientIds /\ Req(t) = client[t]
<1>1. /\ TypeOK /\ store \in [Threads -> Store] /\ allocInode \in [Threads -> 1 .. MaxInode + 1]
  BY DEF PipeInv, TypeOK, Store
<1>2. allocInode[t] \in Nat
  BY <1>1, Constants
<1>3. Busy(fg[t]) => fg[t].client = t /\ t \in ClientIds /\ Req(t) = client[t]
  BY <1>1, FgTyped DEF PipeInv, HomeInv, Busy, Req
<1>. QED
  BY <1>1, <1>2, <1>3, FgTyped

\* A step around a call of the store, given what it leaves for its own thread.
LEMMA StoredKeeps ==
    ASSUME PipeInv, StoreInv, NEW t \in Threads, NEW o, NEW kv, NEW pc, Busy(fg[t]),
           Stored(t, o, kv, pc), pc \notin {"idle", "stopped"},
           \/ UNCHANGED allocInode /\ GoodStore(o.db, t, allocInode[t])
           \/ /\ allocInode' = [allocInode EXCEPT ![t] = @ + 1]
              /\ GoodStore(o.db, t, allocInode[t] + 1),
           \A f : f.pc = pc /\ f.resp = convert_status_to_resptype(o.status)
                  /\ f.inode = o.inode => RequestOK(f, client[t], o.db),
           KeepsStats(store[t], o.db)
    PROVE  StoreInv' /\ StatsKept
<1>. USE StoreFacts
<1>1. Did(t, o.db, convert_status_to_resptype(o.status), o.inode, kv, pc) /\ TypeOK
  BY DEF Stored, Did
<1>2. /\ fg'[t].pc = pc /\ fg'[t].resp = convert_status_to_resptype(o.status)
      /\ fg'[t].inode = o.inode
      /\ \A u \in Threads \ {t} : fg'[u] = fg[u]
  BY <1>1, DidOwn
<1>3. /\ store'[t] = o.db /\ \A u \in Threads \ {t} : store'[u] = store[u]
      /\ UNCHANGED client
  BY DEF Stored
<1>4. \A u \in Threads \ {t} : allocInode'[u] = allocInode[u]
  OBVIOUS
<1>5. GoodStore(o.db, t, allocInode'[t])
  OBVIOUS
<1>6. RequestOK(fg'[t], client[t], o.db)
  BY <1>2
<1>7. client[t].pc = "served"
  BY DEF StoreInv, ThreadOK
<1>8. StoreOK(t)' /\ ThreadOK(t)'
  BY <1>3, <1>5, <1>6, <1>7 DEF StoreOK, ThreadOK
<1>. QED
  BY <1>2, <1>3, <1>4, <1>8, OthersKeep

\* mknod and mkdir, up to the entry.
LEMMA CreateKeeps ==
    ASSUME PipeInv, StoreInv, NEW t \in Threads, NEW isDir \in BOOLEAN, fg[t].pc = "exec",
           Req(t).op \in {"mknod", "mkdir"}, CreateEntry(t, isDir)
    PROVE  StoreInv' /\ StatsKept
<1>. USE StoreFacts
<1>1. Busy(fg[t]) /\ Req(t) = client[t]
  BY DEF Busy
<1>. DEFINE q == client[t]
            n == allocInode[t]
            i == [thr |-> t, num |-> n, dir |-> isDir]
            new == [pinode |-> q.pinode, name |-> q.name, inode |-> i]
<1>2. PICK o \in InsertFileInode(store[t], q.pinode, q.name, i) :
          Stored(t, o, 0, IF o.status = "OK" THEN "addstat" ELSE "cas")
  BY <1>1 DEF CreateEntry
<1>3. /\ GoodStore(store[t], t, n) /\ store[t] \in Store /\ n \in Nat
      /\ allocInode' = [allocInode EXCEPT ![t] = @ + 1]
  BY DEF StoreInv, StoreOK, CreateEntry
<1>4. CASE o.db = store[t] /\ o.status \in {"KEY_ALREADY_EXIST", "UNKNOWN_ERR"}
  <2>1. GoodStore(o.db, t, n + 1)
    BY <1>3, <1>4, FewerGood
  <2>2. \A f : f.pc = "cas" /\ f.resp = convert_status_to_resptype(o.status)
               => RequestOK(f, q, o.db)
    BY <1>4, StatusIsAnswer DEF RequestOK
  <2>3. KeepsStats(store[t], o.db) /\ Stored(t, o, 0, "cas")
    BY <1>2, <1>4 DEF KeepsStats
  <2>. QED
    BY <1>1, <1>3, <2>1, <2>2, <2>3, StoredKeeps
<1>5. CASE /\ o.db = [store[t] EXCEPT !.files = @ \cup {new}]
           /\ o.status = "OK" /\ Found(store[t], q.pinode, q.name) = {} /\ o.inode = i
  <2>1. /\ o.db.files = store[t].files \cup {new} /\ o.db.stats = store[t].stats
        /\ new.pinode = q.pinode /\ new.name = q.name /\ new.inode = i
    BY <1>3, <1>5 DEF Store
  <2>. HIDE DEF new
  <2>2. GoodStore(o.db, t, n + 1)
    <3>1. o.db.files = store[t].files \cup
            {[pinode |-> q.pinode, name |-> q.name, inode |-> [thr |-> t, num |-> n, dir |-> isDir]]}
      BY <2>1 DEF new
    <3>2. Found(store[t], q.pinode, q.name) = {}
      BY <1>5
    <3>. QED
      BY ONLY <1>3, <3>1, <3>2, InsertGood, t \in Threads, isDir \in BOOLEAN
  <2>3. new \in Found(o.db, q.pinode, q.name)
    BY <2>1 DEF Found
  <2>4. \A f : f.pc = "addstat" /\ f.inode = o.inode => RequestOK(f, q, o.db)
    BY <1>1, <1>5, <2>1, <2>3 DEF RequestOK, AnswerPc
  <2>5. KeepsStats(store[t], o.db) /\ Stored(t, o, 0, "addstat")
    BY <1>2, <1>5, <2>1 DEF KeepsStats
  <2>. QED
    BY <1>1, <1>3, <2>2, <2>4, <2>5, StoredKeeps
<1>. QED
  BY <1>2, <1>4, <1>5, InsertFileOutcome

\* The stat of the new entry.
LEMMA InsertStatKeeps ==
    ASSUME PipeInv, StoreInv, NEW t \in Threads, insert_stat(t)
    PROVE  StoreInv' /\ StatsKept
<1>. USE StoreFacts
<1>1. Busy(fg[t]) /\ Req(t) = client[t] /\ fg[t].pc = "addstat"
  BY DEF Busy, insert_stat
<1>. DEFINE q == client[t]
            i == fg[t].inode
<1>2. PICK o \in InsertStat(store[t], i) : Stored(t, o, 1, AfterStat(t))
  BY DEF insert_stat
<1>3. PICK pc \in {"table", "cas"} : pc = AfterStat(t)
  BY DEF AfterStat
<1>4. /\ GoodStore(store[t], t, allocInode[t]) /\ store[t] \in Store
      /\ UNCHANGED allocInode /\ allocInode[t] \in Nat
  BY DEF StoreInv, StoreOK, insert_stat
<1>5. q.op \in {"mknod", "mkdir"} /\ \E e \in Found(store[t], q.pinode, q.name) : e.inode = i
  BY <1>1 DEF StoreInv, ThreadOK, RequestOK
<1>6. o.inode = i /\ \/ o.db = store[t] /\ o.status \in {"KEY_ALREADY_EXIST", "UNKNOWN_ERR"}
                     \/ o.db = [store[t] EXCEPT !.stats = @ \cup {i}] /\ o.status = "OK"
  BY <1>2, InsertStatOutcome
<1>7. o.db.files = store[t].files /\ KeepsStats(store[t], o.db)
  BY <1>4, <1>6 DEF Store, KeepsStats
<1>8. GoodStore(o.db, t, allocInode[t])
  BY <1>4, <1>7 DEF GoodStore
<1>9. \A f : f.pc = pc /\ f.resp = convert_status_to_resptype(o.status) /\ f.inode = o.inode
             => RequestOK(f, q, o.db)
  <2>1. CASE o.status # "OK"
    BY <2>1, <1>3, StatusIsAnswer DEF RequestOK
  <2>2. CASE o.status = "OK"
    <3>1. i \in o.db.stats
      BY <1>4, <1>6, <2>2 DEF Store
    <3>2. Found(o.db, q.pinode, q.name) = Found(store[t], q.pinode, q.name)
      BY <1>7 DEF Found
    <3>. QED
      BY <1>3, <1>5, <1>6, <3>1, <3>2 DEF RequestOK, Whole
  <2>. QED
    BY <2>1, <2>2
<1>. QED
  BY <1>1, <1>2, <1>3, <1>4, <1>7, <1>8, <1>9, StoredKeeps

\* Removing an entry, of unlink and of rmdir.
LEMMA RemoveKeeps ==
    ASSUME PipeInv, StoreInv, NEW t \in Threads, fg[t].pc = "exec", UNCHANGED allocInode,
           Req(t).op \in {"unlink", "rmdir"}, NEW kv,
           NEW o \in DeleteFileInode(store[t], Req(t).pinode, Req(t).name, fg[t].inode),
           \/ o.status = "OK" /\ Stored(t, o, 0, "delstat")
           \/ o.status # "OK" /\ Stored(t, o, kv, "log")
    PROVE  StoreInv' /\ StatsKept
<1>. USE StoreFacts
<1>1. Busy(fg[t]) /\ Req(t) = client[t]
  BY DEF Busy
<1>. DEFINE q == client[t]
<1>2. /\ GoodStore(store[t], t, allocInode[t]) /\ store[t] \in Store /\ allocInode[t] \in Nat
  BY DEF StoreInv, StoreOK
<1>3. CASE o.db = store[t] /\ o.status \in {"KEY_NOT_EXIST", "UNKNOWN_ERR"}
  <2>1. \A f : f.pc = "log" /\ f.resp = convert_status_to_resptype(o.status)
               => RequestOK(f, q, o.db)
    BY <1>3, StatusIsAnswer DEF RequestOK
  <2>2. KeepsStats(store[t], o.db) /\ Stored(t, o, kv, "log")
    BY <1>3 DEF KeepsStats
  <2>. QED
    BY <1>1, <1>2, <1>3, <2>1, <2>2, StoredKeeps
<1>4. ASSUME NEW e \in Found(store[t], q.pinode, q.name), o.inode = e.inode, o.status = "OK",
             o.db.files = store[t].files \ {e}, o.db.stats = store[t].stats
      PROVE  StoreInv' /\ StatsKept
  <2>1. o.db.files = store[t].files \ {e} /\ o.db.stats = store[t].stats
    BY <1>4
  <2>2. GoodStore(o.db, t, allocInode[t])
    BY <1>2, <2>1, FewerGood
  <2>3. Found(o.db, q.pinode, q.name) = {} /\ \A d \in o.db.files : d.inode # o.inode
    BY <1>2, <1>4, <2>1 DEF Found, GoodStore
  <2>4. \A f : f.pc = "delstat" /\ f.inode = o.inode => RequestOK(f, q, o.db)
    BY <1>1, <2>3 DEF RequestOK, AnswerPc
  <2>5. KeepsStats(store[t], o.db) /\ Stored(t, o, 0, "delstat")
    BY <1>4, <2>1 DEF KeepsStats
  <2>. QED
    BY <1>1, <2>2, <2>4, <2>5, StoredKeeps
<1>5. \/ o.db = store[t] /\ o.status \in {"KEY_NOT_EXIST", "UNKNOWN_ERR"}
      \/ \E e \in Found(store[t], q.pinode, q.name) :
            /\ o.db.files = store[t].files \ {e} /\ o.db.stats = store[t].stats
            /\ o.inode = e.inode /\ o.status = "OK"
  BY <1>1, <1>2, DeleteFileOutcome
<1>. QED
  BY <1>3, <1>4, <1>5

\* The stat of the removed entry.
LEMMA DeleteStatKeeps ==
    ASSUME PipeInv, StoreInv, NEW t \in Threads, delete_stat(t)
    PROVE  StoreInv' /\ StatsKept
<1>. USE StoreFacts
<1>1. Busy(fg[t]) /\ Req(t) = client[t] /\ fg[t].pc = "delstat"
  BY DEF Busy, delete_stat
<1>. DEFINE q == client[t]
            i == fg[t].inode
<1>2. PICK o \in DeleteStat(store[t], i) : Stored(t, o, -1, "log")
  BY DEF delete_stat
<1>4. /\ GoodStore(store[t], t, allocInode[t]) /\ store[t] \in Store
      /\ UNCHANGED allocInode /\ allocInode[t] \in Nat
  BY DEF StoreInv, StoreOK, delete_stat
<1>5. /\ q.op \in {"unlink", "rmdir"} /\ Found(store[t], q.pinode, q.name) = {}
      /\ \A e \in store[t].files : e.inode # i
  BY <1>1 DEF StoreInv, ThreadOK, RequestOK
<1>6. o.inode = i /\ \/ o.db = store[t] /\ o.status \in {"KEY_NOT_EXIST", "UNKNOWN_ERR"}
                     \/ o.db = [store[t] EXCEPT !.stats = @ \ {i}] /\ o.status = "OK"
  BY <1>2, DeleteStatOutcome
<1>7. o.db.files = store[t].files /\ KeepsStats(store[t], o.db)
  BY <1>4, <1>5, <1>6 DEF Store, KeepsStats
<1>8. GoodStore(o.db, t, allocInode[t])
  BY <1>4, <1>7 DEF GoodStore
<1>9. \A f : f.pc = "log" /\ f.resp = convert_status_to_resptype(o.status) /\ f.inode = o.inode
             => RequestOK(f, q, o.db)
  <2>1. CASE o.status # "OK"
    BY <2>1, StatusIsAnswer DEF RequestOK
  <2>2. CASE o.status = "OK"
    <3>1. i \notin o.db.stats
      BY <1>4, <1>6, <2>2 DEF Store
    <3>2. Found(o.db, q.pinode, q.name) = {}
      BY <1>5, <1>7 DEF Found
    <3>. QED
      BY <1>5, <1>6, <3>1, <3>2 DEF RequestOK, Whole
  <2>. QED
    BY <2>1, <2>2
<1>. QED
  BY <1>1, <1>2, <1>4, <1>7, <1>8, <1>9, StoredKeeps

\* A step of a handler that leaves the stores and the clients alone.
LEMMA WalkKeeps ==
    ASSUME PipeInv, StoreInv, NEW t \in Threads,
           UNCHANGED <<store, allocInode, client>>,
           \A u \in Threads \ {t} : fg'[u] = fg[u],
           Busy(fg'[t]) => Busy(fg[t]) /\ RequestOK(fg'[t], client[t], store[t])
    PROVE  StoreInv' /\ StatsKept
<1>1. StoreOK(t)' /\ ThreadOK(t)'
  BY DEF StoreInv, StoreOK, ThreadOK
<1>. QED
  BY <1>1, OthersKeep DEF KeepsStats

\* Moving on with an answer.
LEMMA GoOnKeeps ==
    ASSUME PipeInv, StoreInv, NEW t \in Threads,
           \/ fs_mkdir_table(t) \/ start_split(t) \/ check_region_and_split(t)
           \/ log_test(t) \/ log_op_id(t) \/ log_op_put(t)
    PROVE  StoreInv' /\ StatsKept
<1>. USE StoreFacts
<1>1. /\ fg[t].pc \in AnswerPc /\ fg[t] \in FgState /\ fg \in [Threads -> FgState]
      /\ UNCHANGED <<store, allocInode, client>> /\ TypeOK
  BY DEF fs_mkdir_table, start_split, check_region_and_split, log_test, log_op_id,
         log_op_put, AnswerPc
<1>2. /\ Busy(fg[t])
      /\ fg[t].resp = "kSuccess" => Whole(fg[t], client[t], store[t])
  BY <1>1 DEF AnswerPc, Busy, StoreInv, ThreadOK, RequestOK
<1>3. ASSUME NEW pc \in AnswerPc, Goto(t, pc)
      PROVE  /\ fg'[t].pc = pc /\ fg'[t].resp = fg[t].resp /\ fg'[t].inode = fg[t].inode
             /\ \A u \in Threads \ {t} : fg'[u] = fg[u]
  BY <1>1, <1>3 DEF Goto, FgState
<1>4. \/ UNCHANGED fg
      \/ /\ fg'[t].pc \in AnswerPc /\ fg'[t].resp = fg[t].resp /\ fg'[t].inode = fg[t].inode
         /\ \A u \in Threads \ {t} : fg'[u] = fg[u]
  <2>1. CASE log_op_id(t)
    BY <1>1, <2>1, LogIdOwn DEF OwnStep, AnswerPc
  <2>2. CASE ~log_op_id(t)
    <3>1. UNCHANGED fg \/ \E pc \in AnswerPc : Goto(t, pc)
      BY <2>2 DEF fs_mkdir_table, start_split, check_region_and_split, log_test,
                  log_op_put, AnswerPc
    <3>. QED
      BY <1>3, <3>1
  <2>. QED
    BY <2>1, <2>2
<1>5. RequestOK(fg'[t], client[t], store[t])
  <2>1. CASE UNCHANGED fg
    BY <1>2, <2>1 DEF StoreInv, ThreadOK
  <2>2. CASE fg'[t].pc \in AnswerPc /\ fg'[t].resp = fg[t].resp /\ fg'[t].inode = fg[t].inode
    BY <1>2, <2>2 DEF RequestOK, Whole, AnswerPc
  <2>. QED
    BY <1>4, <2>1, <2>2
<1>. QED
  BY <1>1, <1>2, <1>4, <1>5, WalkKeeps

\* rmdir removes every directory it finds: has_files is never true.
LEMMA NeverHasFiles ==
    ASSUME StoreInv, NEW t \in Threads, NEW dir
    PROVE  ~HasFiles(t, dir)
<1>1. IsFiniteSet(store[t].files)
  BY DEF StoreInv, StoreOK, GoodStore
<1>2. PICK entries : entries = ReadDir(store[t], dir)
  OBVIOUS
<1>3. IsFiniteSet(entries)
  BY <1>1, <1>2, FS_Subset DEF ReadDir
<1>4. Cardinality(entries) = 0 => entries = {}
  BY <1>3, FS_EmptySet
<1>5. HasFiles(t, dir) <=> entries # {} /\ Cardinality(entries) = 0
  BY <1>2 DEF HasFiles
<1>. QED
  BY <1>4, <1>5

\* An answer that is no success, or a success that promises nothing.
LEMMA AnswerKeeps ==
    ASSUME PipeInv, StoreInv, NEW t \in Threads, NEW resp, Reply(t, resp), Busy(fg[t]),
           resp = "kSuccess" => Req(t).op \notin Updates,
           UNCHANGED <<store, allocInode, client>>
    PROVE  StoreInv' /\ StatsKept
<1>. USE StoreFacts
<1>1. /\ fg'[t].pc = "reply" /\ fg'[t].resp = resp
      /\ \A u \in Threads \ {t} : fg'[u] = fg[u]
  BY DEF Reply, FgState
<1>2. RequestOK(fg'[t], client[t], store[t])
  BY <1>1 DEF RequestOK, Whole, Updates
<1>. QED
  BY <1>1, <1>2, WalkKeeps

\* A request is taken up by one thread only, and the client waits meanwhile.
LEMMA BeginKeeps ==
    ASSUME PipeInv, StoreInv, NEW t \in Threads, NEW c \in ClientIds, handler_begin(t, c)
    PROVE  StoreInv' /\ StatsKept
<1>. USE StoreFacts
<1>1. CASE Die("null region")
  BY <1>1, WalkKeeps DEF Die, StoreInv, ThreadOK
<1>2. CASE ~Die("null region")
  <2>1. /\ Present(t, c) /\ client[c].pc = "sent" /\ fg[t].pc = "idle"
        /\ client' = [client EXCEPT ![c].pc = "served"]
        /\ UNCHANGED <<store, allocInode>>
    BY <1>2 DEF handler_begin
  <2>2. c \in Threads /\ c = t
    BY <2>1, Constants DEF PipeInv, HomeInv
  <2>3. PICK b : fg' = [fg EXCEPT ![t] = [IdleFg EXCEPT !.pc = "status", !.client = c,
                                                        !.belongs = b]]
    BY <1>2 DEF handler_begin
  <2>4. fg'[t].pc = "status" /\ \A u \in Threads \ {t} : fg'[u] = fg[u]
    <3>1. [IdleFg EXCEPT !.pc = "status", !.client = c, !.belongs = b].pc = "status"
      BY DEF IdleFg
    <3>. QED
      BY <2>3, <3>1
  <2>5. client \in [ClientIds -> ClientState]
    BY DEF TypeOK
  <2>6. client'[t].pc = "served" /\ \A u \in Threads \ {t} : client'[u] = client[u]
    <3>1. client' = [client EXCEPT ![t] = [client[t] EXCEPT !.pc = "served"]] /\ t \in ClientIds
      BY <2>1, <2>2
    <3>2. client[t] \in ClientState
      BY <2>5, <3>1
    <3>3. [client[t] EXCEPT !.pc = "served"].pc = "served"
      BY <3>2 DEF ClientState
    <3>4. client'[t] = [client[t] EXCEPT !.pc = "served"]
      BY <2>5, <3>1
    <3>5. \A u \in Threads \ {t} : client'[u] = client[u]
      BY <3>1
    <3>. QED
      BY <3>3, <3>4, <3>5
  <2>7. StoreOK(t)'
    BY <2>1 DEF StoreInv, StoreOK
  <2>8. ThreadOK(t)'
    BY <2>4, <2>6 DEF ThreadOK, RequestOK, AnswerPc
  <2>. QED
    BY <2>1, <2>4, <2>6, <2>7, <2>8, OthersKeep DEF KeepsStats
<1>. QED
  BY <1>1, <1>2

\* Every step of a handler keeps the stores and the promises of its answers.
LEMMA FgStoreKeeps ==
    ASSUME PipeInv, StoreInv, NEW t \in Threads, FgStep(t) \/ run_server_thread_end(t)
    PROVE  StoreInv' /\ StatsKept
<1>. USE StoreFacts
<1>1. CASE \E c \in ClientIds : handler_begin(t, c)
  BY <1>1, BeginKeeps
<1>2. CASE \E c \in ClientIds : read_region_map_handler(t, c)
  <2>1. PICK c \in ClientIds : read_region_map_handler(t, c)
    BY <1>2
  <2>2. /\ client[c].pc = "readmap" /\ UNCHANGED <<store, allocInode, fg>> /\ ~Busy(fg[t])
        /\ \A u \in ClientIds : u # c => client'[u] = client[u]
    BY <2>1 DEF read_region_map_handler, Busy, TypeOK
  <2>3. \A u \in Threads : Busy(fg[u]) => client'[u] = client[u]
    BY <2>2 DEF StoreInv, ThreadOK
  <2>4. StoreOK(t)' /\ ThreadOK(t)'
    BY <2>2 DEF StoreInv, StoreOK, ThreadOK
  <2>. QED
    BY <2>2, <2>3, <2>4, OthersKeep DEF KeepsStats
<1>3. CASE check_region_status(t)
  <2>1. PICK pc \in {"exec", "reject"} : Goto(t, pc)
    BY <1>3 DEF check_region_status
  <2>2. fg'[t].pc = pc /\ \A u \in Threads \ {t} : fg'[u] = fg[u]
    BY <2>1, GotoPc
  <2>3. RequestOK(fg'[t], client[t], store[t]) /\ Busy(fg[t])
    BY <1>3, <2>1, <2>2 DEF RequestOK, AnswerPc, Busy, check_region_status
  <2>. QED
    BY <1>3, <2>2, <2>3, WalkKeeps DEF check_region_status
<1>4. CASE handler_reject(t)
  <2>1. PICK resp : resp # "kSuccess" /\ Reply(t, resp)
    BY <1>4 DEF handler_reject, Refusal
  <2>. QED
    BY <1>4, <2>1, AnswerKeeps DEF handler_reject, Busy
<1>5. CASE fs_mknod_exec(t) \/ fs_mkdir_exec(t)
  BY <1>5, CreateKeeps DEF fs_mknod_exec, fs_mkdir_exec, Exec
<1>6. CASE insert_stat(t)
  BY <1>6, InsertStatKeeps
<1>7. CASE fs_unlink_exec(t)
  <2>1. PICK o \in DeleteFileInode(store[t], Req(t).pinode, Req(t).name, fg[t].inode) :
            Stored(t, o, 0, IF o.status = "OK" THEN "delstat" ELSE "log")
    BY <1>7 DEF fs_unlink_exec
  <2>2. \/ o.status = "OK" /\ Stored(t, o, 0, "delstat")
        \/ o.status # "OK" /\ Stored(t, o, 0, "log")
    BY <2>1
  <2>3. fg[t].pc = "exec" /\ Req(t).op \in {"unlink", "rmdir"} /\ UNCHANGED allocInode
    BY <1>7 DEF fs_unlink_exec, Exec
  <2>. QED
    BY <2>2, <2>3, RemoveKeeps
<1>8. CASE fs_rmdir_exec(t)
  <2>1. fg[t].pc = "exec" /\ Req(t).op = "rmdir" /\ Busy(fg[t])
    BY <1>8 DEF fs_rmdir_exec, Exec, Busy
  <2>2. RemoveDirectory(t) \/ Lookup(t, FALSE)
    BY <1>8, NeverHasFiles DEF fs_rmdir_exec, Tried
  <2>3. CASE RemoveDirectory(t)
    <3>1. PICK o \in DeleteFileInode(store[t], Req(t).pinode, Req(t).name, fg[t].inode) :
              IF o.status = "OK" THEN Stored(t, o, 0, "delstat") ELSE Stored(t, o, -1, "log")
      BY <2>3 DEF RemoveDirectory
    <3>2. \/ o.status = "OK" /\ Stored(t, o, 0, "delstat")
          \/ o.status # "OK" /\ Stored(t, o, -1, "log")
      BY <3>1
    <3>3. Req(t).op \in {"unlink", "rmdir"} /\ UNCHANGED allocInode
      BY <2>1, <2>3 DEF RemoveDirectory
    <3>. QED
      BY <2>1, <3>2, <3>3, RemoveKeeps
  <2>4. CASE Lookup(t, FALSE)
    <3>1. Reply(t, "kENOENT") /\ UNCHANGED <<store, allocInode, client>>
      BY <2>4 DEF Lookup
    <3>. QED
      BY <2>1, <3>1, AnswerKeeps
  <2>. QED
    BY <2>2, <2>3, <2>4
<1>9. CASE delete_stat(t)
  BY <1>9, DeleteStatKeeps
<1>10. CASE fs_open_exec(t) \/ fs_stat_exec(t) \/ fs_getinode_exec(t) \/ fs_readdir_exec(t)
  <2>1. fg[t].pc = "exec" /\ Req(t).op \notin Updates /\ \E ok : Lookup(t, ok)
    BY <1>10 DEF fs_open_exec, fs_stat_exec, fs_getinode_exec, fs_readdir_exec, Exec, Updates
  <2>2. \E resp : Reply(t, resp) /\ UNCHANGED <<store, allocInode, client>>
    BY <2>1 DEF Lookup
  <2>. QED
    BY <2>1, <2>2, AnswerKeeps DEF Busy
<1>11. CASE \/ fs_mkdir_table(t) \/ start_split(t) \/ check_region_and_split(t)
            \/ log_test(t) \/ log_op_id(t) \/ log_op_put(t)
  BY <1>11, GoOnKeeps
<1>12. CASE log_op_fail(t)
  BY <1>12, WalkKeeps DEF log_op_fail, Die, StoreInv, ThreadOK
<1>13. CASE handler_reply(t)
  <2>1. /\ fg[t].client = t /\ Busy(fg[t]) /\ UNCHANGED <<store, allocInode>>
        /\ fg' = [fg EXCEPT ![t] = IdleFg]
        /\ \E resp : client' = [client EXCEPT ![t].pc = "answered", ![t].resp = resp]
    BY <1>13 DEF handler_reply, Busy
  <2>2. ~Busy(IdleFg)
    BY DEF Busy, IdleFg
  <2>3. /\ ~Busy(fg'[t]) /\ \A u \in Threads \ {t} : fg'[u] = fg[u]
        /\ \A u \in Threads \ {t} : Busy(fg[u]) => client'[u] = client[u]
    BY <2>1, <2>2 DEF TypeOK
  <2>4. StoreOK(t)' /\ ThreadOK(t)'
    BY <2>1, <2>3 DEF StoreInv, StoreOK, ThreadOK
  <2>. QED
    BY <2>1, <2>3, <2>4, OthersKeep DEF KeepsStats
<1>14. CASE run_server_thread_end(t)
  <2>1. fg'[t].pc = "stopped" /\ \A u \in Threads \ {t} : fg'[u] = fg[u]
    BY <1>14, GotoPc DEF run_server_thread_end
  <2>. QED
    BY <1>14, <2>1, WalkKeeps DEF run_server_thread_end, Busy
<1>. QED
  BY <1>1, <1>2, <1>3, <1>4, <1>5, <1>6, <1>7, <1>8, <1>9, <1>10, <1>11, <1>12, <1>13, <1>14
  DEF FgStep

\* The replay at the target, which is idle: entries go, with or without their
\* stats, and no entry that stays loses its stat.
LEMMA ReplayKeeps ==
    ASSUME PipeInv, StoreInv, NEW t \in Threads, s2s_send_region_log_handler(t)
    PROVE  StoreInv' /\ StatsKept
<1>. USE StoreFacts
<1>1. PICK db \in Replay(store[t], split.msg) : store' = [store EXCEPT ![t] = db]
  BY DEF s2s_send_region_log_handler
<1>2. PICK f \in SUBSET store[t].files : \E g \in SUBSET f : db = Without(store[t], f, g)
  <2>. DEFINE gone == {e \in store[t].files :
                          e.pinode = Root /\ e.name \in ReplayedNames(split.msg)}
  <2>1. \E f \in SUBSET gone : \E g \in SUBSET f : db = Without(store[t], f, g)
    <3>1. CASE StoreMayFail
      BY <1>1, <3>1 DEF Replay
    <3>2. CASE ~StoreMayFail
      <4>1. db = Without(store[t], gone, gone)
        BY <1>1, <3>2 DEF Replay
      <4>2. gone \in SUBSET gone
        OBVIOUS
      <4>. QED
        BY <4>1, <4>2
    <3>. QED
      BY <3>1, <3>2
  <2>. QED
    BY <2>1
<1>3. PICK g \in SUBSET f : db = Without(store[t], f, g)
  BY <1>2
<1>4. db.files = store[t].files \ f /\ db.stats = store[t].stats \ {e.inode : e \in g}
  BY <1>3 DEF Without
<1>5. GoodStore(store[t], t, allocInode[t]) /\ store[t] \in Store /\ allocInode[t] \in Nat
  BY DEF StoreInv, StoreOK
<1>6. GoodStore(db, t, allocInode[t])
  BY <1>4, <1>5, FewerGood
<1>7. KeepsStats(store[t], db)
  BY <1>2, <1>3, <1>4, <1>5 DEF KeepsStats, GoodStore
<1>8. /\ ~Busy(fg[t]) /\ UNCHANGED <<allocInode, fg, client>>
      /\ store'[t] = db /\ \A u \in Threads \ {t} : store'[u] = store[u]
  BY <1>1 DEF s2s_send_region_log_handler, Busy
<1>9. StoreOK(t)' /\ ThreadOK(t)'
  BY <1>6, <1>8 DEF StoreOK, ThreadOK
<1>. QED
  BY <1>7, <1>8, <1>9, OthersKeep

\* A client that waits for its answer does nothing.
LEMMA ClientStoreKeeps ==
    ASSUME PipeInv, StoreInv, NEW c \in ClientIds, ClientStep(c)
    PROVE  StoreInv' /\ StatsKept
<1>1. UNCHANGED <<store, allocInode, fg>>
  BY ClientLeaves
<1>2. client[c].pc # "served" /\ \A u \in ClientIds : u # c => client'[u] = client[u]
  <2>1. client \in [ClientIds -> ClientState]
    BY DEF PipeInv, TypeOK
  <2>2. client[c].pc # "served" /\ \E new : client' = [client EXCEPT ![c] = new]
    BY DEF ClientStep, init_client_ctx, send_request, resend_request, handle_rpc_resp,
           Transmit, RPC_ReadRegionmap
  <2>. QED
    BY <2>1, <2>2
<1>3. \A u \in Threads : Busy(fg[u]) => client'[u] = client[u]
  BY <1>2, StoreFacts DEF StoreInv, ThreadOK
<1>4. \A u \in Threads : StoreOK(u)' /\ ThreadOK(u)'
  BY <1>1, <1>3 DEF StoreInv, StoreOK, ThreadOK
<1>. QED
  BY <1>1, <1>4 DEF StoreInv, StatsKept, KeepsStats

\* Every step keeps the stores, and the stats of the entries that stay.
LEMMA StoreInvInductive ==
    ASSUME PipeInv, StoreInv, [Next]_vars
    PROVE  StoreInv' /\ StatsKept
<1>1. ASSUME UNCHANGED <<store, allocInode, fg, client>> PROVE StoreInv' /\ StatsKept
  BY <1>1 DEF StoreInv, StoreOK, ThreadOK, StatsKept, KeepsStats
<1>2. ASSUME NEW t \in Threads, s2s_create_region_handler(t) PROVE StoreInv' /\ StatsKept
  BY <1>1, <1>2 DEF s2s_create_region_handler
<1>3. CASE SplitStep
  <2>1. UNCHANGED <<store, allocInode, fg, client>>
    BY <1>3 DEF SplitStep, split_region_thread, rpc_create_region, rpc_create_region_cb,
         rpc_send_region_dir, rpc_send_region_end, read_log, count_log_left, shrink_left,
         publish_halves, rpc_send_region_log_resp, finish_split, Die
  <2>. QED
    BY <1>1, <2>1
<1>. QED
  BY <1>1, <1>2, <1>3, FgStoreKeeps, ReplayKeeps, ClientStoreKeeps DEF Next, vars, TargetStep

\* The stores at the start are empty, and so are the hands of the threads.
LEMMA InitStore == Init => StoreInv
<1>1. \A t, n : GoodStore(EmptyStore, t, n)
  BY FS_EmptySet DEF GoodStore, EmptyStore
<1>2. ~Busy(IdleFg)
  BY DEF Busy, IdleFg
<1>. QED
  BY <1>1, <1>2 DEF Init, StoreInv, StoreOK, ThreadOK

\* A success that a client is told is whole, whichever calls of the store have
\* failed, whatever other threads and the split thread did between the two calls
\* and the answer, and for any clients.
THEOREM SuccessesAreWhole == Spec => []SuccessIsWhole
<1>1. PipeInv /\ StoreInv /\ [Next]_vars => StoreInv'
  BY StoreInvInductive
<1>2. PipeInv /\ StoreInv => SuccessIsWhole
  <2>. SUFFICES ASSUME PipeInv, StoreInv, NEW t \in Threads, fg[t].pc = "reply",
                       fg[t].resp = "kSuccess"
                PROVE  Whole(fg[t], Req(t), store[t])
    BY DEF SuccessIsWhole, Whole
  <2>1. Busy(fg[t])
    BY DEF Busy
  <2>2. Req(t) = client[t] /\ RequestOK(fg[t], client[t], store[t])
    BY <2>1, StoreFacts DEF StoreInv, ThreadOK
  <2>. QED
    BY <2>2 DEF RequestOK, AnswerPc
<1>. QED
  BY <1>1, <1>2, InitStore, PipelineInvariant, PTL DEF Spec

\* No step takes the stat of an entry that stays: inode numbers are used once,
\* so that the two calls of a removal, and a replay that fails in between, meet
\* the stats of removed entries only.
THEOREM EntriesAlwaysKeepStats == Spec => EntriesKeepStats
<1>1. PipeInv /\ StoreInv /\ [Next]_vars => StoreInv'
  BY StoreInvInductive
<1>2. PipeInv /\ StoreInv /\ [Next]_vars =>
          [\A t \in Threads : \A e \in store[t].files \cap store'[t].files :
              e.inode \in store[t].stats => e.inode \in store'[t].stats]_vars
  BY StoreInvInductive DEF StatsKept, KeepsStats
<1>. QED
  BY <1>1, <1>2, InitStore, PipelineInvariant, PTL DEF Spec, EntriesKeepStats
-------------------------------------------------------------------------------
(* The first client alone. *)

\* A region that is served is in the map as clients see it, and the map gives it
\* at least its range.
LEMMA ServedIsVisible ==
    ASSUME PipeInv, SplitInv, NEW h, NEW p \in ServersOf(h), h \in HashSpace
    PROVE  \E r \in VisibleMap : r.id = p[2] /\ InRange(h, r)
<1>. USE PipeFacts
<1>1. PICK t \in Threads, id \in RegionIds :
          p = <<t, id>> /\ SessionOf(id) = t /\ Serving(region[t][id].status)
          /\ InRange(h, region[t][id])
  BY DEF ServersOf
<1>2. ASSUME NEW r \in globalMap, r.id = id
      PROVE  \E q \in VisibleMap : q.id = id /\ InRange(h, q)
  <2>1. r \in VisibleMap
    BY DEF VisibleMap
  <2>2. MapEntry(id, region[t][id]) = r
    BY <1>1, <1>2 DEF PipeInv, MatchInv, MapMatchesServers
  <2>3. InRange(h, r)
    BY <1>1, <2>2 DEF MapEntry, InRange
  <2>. QED
    BY <1>2, <2>1, <2>3
<1>3. CASE ~(id < NumThreads)
  <2>1. t = Jump(id) /\ id >= NumThreads
    BY <1>1, <1>3 DEF SessionOf
  <2>2. \E r \in globalMap : r.id = id
    BY <1>1, <2>1 DEF PipeInv, PublishedInv
  <2>. QED
    BY <1>1, <1>2, <2>2
<1>4. CASE id < NumThreads
  <2>1. t = id
    BY <1>1, <1>4 DEF SessionOf
  <2>2. CASE \E r \in globalMap : r.id = id
    BY <1>1, <1>2, <2>2
  <2>3. CASE MapLocked /\ split.ctx = t
    <3>1. /\ split.pc = "publish" /\ t = 0 /\ split.left = 0 /\ split.nr \in RegionIds
          /\ R0.end < region[0][split.nr].end
      BY <2>3 DEF MapLocked, SplitInv, OnePlace, PendingInv
    <3>. DEFINE q == [id |-> split.left, start |-> Left.start, end |-> Nr.end]
    <3>2. q \in VisibleMap
      BY <2>3 DEF VisibleMap
    <3>3. q.id = id /\ q.start = region[0][0].start /\ q.end = region[0][split.nr].end
      BY <2>1, <2>3, <3>1 DEF Left, Nr
    <3>. HIDE DEF q
    <3>4. /\ region[0][0].start <= h /\ h <= region[0][0].end /\ h \in Int
          /\ region[0][0].end \in Nat /\ region[0][split.nr].end \in Nat
      <4>1. region[0][0] \in Region /\ region[0][split.nr] \in Region
        BY <2>1, <3>1
      <4>2. h \in Int
        BY Constants DEF HashSpace
      <4>. QED
        BY <1>1, <2>1, <3>1, <4>1, <4>2 DEF InRange, Region
    <3>5. h <= region[0][split.nr].end
      BY <3>1, <3>4 DEF R0
    <3>. QED
      BY <1>1, <3>2, <3>3, <3>4, <3>5 DEF InRange
  <2>. QED
    BY <2>1, <2>2, <2>3 DEF PipeInv, MatchInv
<1>. QED
  BY <1>3, <1>4

\* At no time do two threads serve the same hash: what is served is visible, and
\* the visible map is a partition.
THEOREM NeverTwoServers ==
    ASSUME ClientIds = {0}
    PROVE  Spec => []OneServerPerHash
<1>1. PipeInv /\ SplitInv => OneServerPerHash
  <2>. SUFFICES ASSUME PipeInv, SplitInv, NEW h \in HashSpace
                PROVE  Cardinality(ServersOf(h)) <= 1
    BY DEF OneServerPerHash
  <2>1. \A p, q \in ServersOf(h) : p = q
    <3>. SUFFICES ASSUME NEW p \in ServersOf(h), NEW q \in ServersOf(h) PROVE p = q
      OBVIOUS
    <3>1. PICK r \in VisibleMap : r.id = p[2] /\ InRange(h, r)
      BY ServedIsVisible
    <3>2. PICK s \in VisibleMap : s.id = q[2] /\ InRange(h, s)
      BY ServedIsVisible
    <3>3. IsPartition(VisibleMap)
      BY DEF SplitInv, MapInv
    <3>4. r = s
      BY <3>1, <3>2, <3>3 DEF IsPartition
    <3>5. p[2] = q[2]
      BY <3>1, <3>2, <3>4
    <3>6. /\ p \in Threads \X RegionIds /\ SessionOf(p[2]) = p[1]
          /\ q \in Threads \X RegionIds /\ SessionOf(q[2]) = q[1]
      BY DEF ServersOf
    <3>7. p = <<p[1], p[2]>> /\ q = <<q[1], q[2]>>
      BY <3>6
    <3>. QED
      BY <3>5, <3>6, <3>7
  <2>2. CASE ServersOf(h) = {}
    <3>1. Cardinality(ServersOf(h)) = 0
      BY <2>2, FS_EmptySet
    <3>. QED
      BY <3>1
  <2>3. CASE ServersOf(h) # {}
    <3>1. PICK p : ServersOf(h) = {p}
      BY <2>1, <2>3
    <3>2. Cardinality(ServersOf(h)) = 1
      BY <3>1, FS_Singleton
    <3>. QED
      BY <3>2
  <2>. QED
    BY <2>2, <2>3
<1>2. Init => SplitInv
  BY InitSplitInv
<1>3. SplitInv /\ [Next]_vars => SplitInv'
  BY SplitInvInductive
<1>. QED
  BY <1>1, <1>2, <1>3, PipelineInvariant, PTL DEF Spec
=================================================================================
