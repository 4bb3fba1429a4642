------------------------------ MODULE FsHandlers ------------------------------
(***************************************************************************)
(* The request handlers of a foreground thread (src/server/                *)
(* server_handler.cc, check_region_and_split and log_op of                 *)
(* region_and_log.cc).  A thread runs one handler at a time; the split     *)
(* thread can run between any two of its accesses to shared state, and     *)
(* these are the steps:                                                    *)
(*   idle -> status -> exec [-> addstat] [-> table] -> cas [-> split]      *)
(*        -> log [-> logId -> put] -> reply -> idle     (mknod, mkdir)     *)
(*   idle -> status -> exec [-> delstat]                                   *)
(*        -> log [-> logId -> put] -> reply -> idle     (unlink, rmdir)    *)
(* with status -> reject -> reply when the region is not served.  Every    *)
(* call of the store may fail, and the handler goes on with what it did.   *)
(* The handler of client c works on region c.                              *)
(***************************************************************************)
EXTENDS ServerContext

Goto(t, pc) == fg' = [fg EXCEPT ![t].pc = pc]
Reply(t, resp) == fg' = [fg EXCEPT ![t].pc = "reply", ![t].resp = resp]

Req(t) == client[fg[t].client]
MyRegion(t) == region[t][fg[t].client]

\* The head of every handler: look the region up (operator[] yields a null
\* pointer for an unknown id, dereferenced by the range check) and compare
\* the hash in the request with its range.  A mismatch sends
\* kUpdateRegionMap, and the handler goes on.
handler_begin(t, c) ==
    /\ fg[t].pc = "idle"
    /\ client[c].pc = "sent" /\ client[c].session = t
    /\ \/ ~Present(t, c) /\ Die("null region")
       \/ /\ Present(t, c)
          /\ fg' = [fg EXCEPT ![t] =
                      [IdleFg EXCEPT
                        !.pc = "status", !.client = c,
                        !.belongs = check_is_blong_to_region(region[t][c], client[c].hash)]]
          /\ client' = [client EXCEPT ![c].pc = "served"]
          /\ UNCHANGED <<region, globalMap, globalId, queue, store, allocInode,
                         pinodeTable, logDb, split, view, crash>>

check_region_status(t) ==
    /\ fg[t].pc = "status"
    /\ Goto(t, IF Serving(MyRegion(t).status) THEN "exec" ELSE "reject")
    /\ UNCHANGED <<region, globalMap, globalId, queue, store, allocInode,
                   pinodeTable, logDb, split, client, view, crash>>

\* The status is read again to choose the answer.
handler_reject(t) ==
    /\ fg[t].pc = "reject"
    /\ Reply(t, Refusal(MyRegion(t).status))
    /\ UNCHANGED <<region, globalMap, globalId, queue, store, allocInode,
                   pinodeTable, logDb, split, client, view, crash>>

\* The statuses of the store that occur here, as the client sees them.
convert_status_to_resptype(status) ==
    CASE status = "OK" -> "kSuccess"
      [] status = "KEY_ALREADY_EXIST" -> "kEXIST"
      [] OTHER -> "kENOENT"

\* Executing op: the thread's own store, its inode counter and kv_num, which
\* the split thread leaves alone.
Exec(t, op) == fg[t].pc = "exec" /\ Req(t).op = op

AddKv(t, n) == region' = [region EXCEPT ![t][fg[t].client].kvNum = @ + n]

\* After a call of the store with outcome o: its status is the answer so far,
\* kv_num changes by kv, and the handler goes on at pc.
Stored(t, o, kv, pc) ==
    /\ store' = [store EXCEPT ![t] = o.db]
    /\ AddKv(t, kv)
    /\ fg' = [fg EXCEPT ![t].pc = pc,
                        ![t].resp = convert_status_to_resptype(o.status),
                        ![t].inode = o.inode]
    /\ UNCHANGED <<globalMap, globalId, queue, pinodeTable, logDb, split, client,
                   view, crash>>

\* Mutant: the number is not counted on.
CreateEntryKeepingNumber(t, isDir) ==
    /\ allocInode[t] <= MaxInode
    /\ UNCHANGED allocInode
    /\ \E o \in InsertFileInode(store[t], Req(t).pinode, Req(t).name,
                                [thr |-> t, num |-> allocInode[t], dir |-> isDir]) :
          Stored(t, o, 0, IF o.status = "OK" THEN "addstat" ELSE "cas")

\* mknod and mkdir take a number even when the name exists, and come to the
\* threshold test even when they have stored nothing.
CreateEntry(t, isDir) ==
    /\ allocInode[t] <= MaxInode
    /\ allocInode' = [allocInode EXCEPT ![t] = @ + 1]
    /\ \E o \in InsertFileInode(store[t], Req(t).pinode, Req(t).name,
                                [thr |-> t, num |-> allocInode[t], dir |-> isDir]) :
          Stored(t, o, 0, IF o.status = "OK" THEN "addstat" ELSE "cas")

fs_mknod_exec(t) == Exec(t, "mknod") /\ CreateEntry(t, FALSE)
fs_mkdir_exec(t) == Exec(t, "mkdir") /\ CreateEntry(t, TRUE)

AfterStat(t) == IF Req(t).op = "mkdir" THEN "table" ELSE "cas"

\* Mutant: the status of InsertStat is dropped.
insert_stat_unchecked(t) ==
    /\ fg[t].pc = "addstat"
    /\ UNCHANGED allocInode
    /\ \E o \in InsertStat(store[t], fg[t].inode) :
          Stored(t, [o EXCEPT !.status = "OK"], 1, AfterStat(t))

\* The entry is stored; now its stat.  kv_num counts the entry whether or not
\* the stat could be written, and the entry stays.
insert_stat(t) ==
    /\ fg[t].pc = "addstat"
    /\ UNCHANGED allocInode
    /\ \E o \in InsertStat(store[t], fg[t].inode) : Stored(t, o, 1, AfterStat(t))

\* unlink is logged whether or not the name was there.
fs_unlink_exec(t) ==
    /\ Exec(t, "unlink")
    /\ UNCHANGED allocInode
    /\ \E o \in DeleteFileInode(store[t], Req(t).pinode, Req(t).name, fg[t].inode) :
          Stored(t, o, 0, IF o.status = "OK" THEN "delstat" ELSE "log")

\* An answer that nothing was changed for.
Lookup(t, ok) ==
    /\ Reply(t, IF ok THEN "kSuccess" ELSE "kENOENT")
    /\ UNCHANGED <<region, globalMap, globalId, queue, store, allocInode,
                   pinodeTable, logDb, split, client, view, crash>>

\* What a lookup that finds what it looks for, or not, may answer.
Tried(ok) == IF StoreMayFail THEN {ok, FALSE} ELSE {ok}

\* rmdir of a directory: ReadDir gives no buffer when it is empty, and
\* has_files is false; otherwise has_files is (count == 0), false as well.
\* Either way the entry goes.
HasFiles(t, dir) ==
    LET entries == ReadDir(store[t], dir)
    IN  entries # {} /\ Cardinality(entries) = 0

\* kv_num goes down and the log is written even when the entry could not be
\* removed.
RemoveDirectory(t) ==
    /\ UNCHANGED allocInode
    /\ \E o \in DeleteFileInode(store[t], Req(t).pinode, Req(t).name, fg[t].inode) :
          IF o.status = "OK" THEN Stored(t, o, 0, "delstat") ELSE Stored(t, o, -1, "log")

fs_rmdir_exec(t) ==
    LET dirs == {e \in Found(store[t], Req(t).pinode, Req(t).name) : e.inode.dir}
    IN  /\ Exec(t, "rmdir")
        /\ \E got \in Tried(dirs # {}) :
              IF got /\ \E e \in dirs : ~HasFiles(t, e.inode) THEN RemoveDirectory(t)
              ELSE Lookup(t, got)

\* Mutant: kv_num goes down only when the stat is gone as well.
delete_stat_counting_stats(t) ==
    /\ fg[t].pc = "delstat"
    /\ UNCHANGED allocInode
    /\ \E o \in DeleteStat(store[t], fg[t].inode) :
          Stored(t, o, IF o.status = "OK" THEN -1 ELSE 0, "log")

\* The entry is removed; now its stat.
delete_stat(t) ==
    /\ fg[t].pc = "delstat"
    /\ UNCHANGED allocInode
    /\ \E o \in DeleteStat(store[t], fg[t].inode) : Stored(t, o, -1, "log")

\* open, stat, getinode and readdir change nothing that is modelled: open for
\* writing refreshes the times in the stat.  A readdir that fails has no buffer
\* and passes for one of an empty directory.
HasStat(t) ==
    \E e \in Found(store[t], Req(t).pinode, Req(t).name) : e.inode \in store[t].stats

fs_open_exec(t) == Exec(t, "open") /\ \E ok \in Tried(HasStat(t)) : Lookup(t, ok)
fs_stat_exec(t) == Exec(t, "stat") /\ \E ok \in Tried(HasStat(t)) : Lookup(t, ok)
fs_getinode_exec(t) ==
    /\ Exec(t, "getinode")
    /\ \E ok \in Tried(Found(store[t], Req(t).pinode, Req(t).name) # {}) : Lookup(t, ok)
fs_readdir_exec(t) == Exec(t, "readdir") /\ Lookup(t, TRUE)

\* mkdir records the new directory for later splits, but not during one.
fs_mkdir_table(t) ==
    /\ fg[t].pc = "table"
    /\ IF MyRegion(t).status \in {"Normal", "ToBeSplit"}
       THEN /\ ~TableLocked(t)
            /\ pinodeTable' = [pinodeTable EXCEPT ![t] = @ \cup {fg[t].inode}]
       ELSE UNCHANGED pinodeTable
    /\ Goto(t, "cas")
    /\ UNCHANGED <<region, globalMap, globalId, queue, store, allocInode,
                   logDb, split, client, view, crash>>

\* Mutant: the status is set without looking at the old one.
start_split_unconditional(t) ==
    /\ fg[t].pc = "cas"
    /\ IF AboveThreshold(MyRegion(t).kvNum)
       THEN /\ region' = [region EXCEPT ![t][fg[t].client].status = "IsSplit"]
            /\ Goto(t, "split")
       ELSE UNCHANGED region /\ Goto(t, "log")
    /\ UNCHANGED <<globalMap, globalId, queue, store, allocInode, pinodeTable,
                   logDb, split, client, view, crash>>

\* After mknod and mkdir: the threshold test and the compare-and-swap.
start_split(t) ==
    /\ fg[t].pc = "cas"
    /\ IF AboveThreshold(MyRegion(t).kvNum) /\ MyRegion(t).status = "Normal"
       THEN /\ region' = [region EXCEPT ![t][fg[t].client].status = "IsSplit"]
            /\ Goto(t, "split")
       ELSE UNCHANGED region /\ Goto(t, "log")
    /\ UNCHANGED <<globalMap, globalId, queue, store, allocInode, pinodeTable,
                   logDb, split, client, view, crash>>

\* One round of the loop that looks for an id that another thread serves; with
\* such an id, the new region goes into this thread's map and into the queue.
check_region_and_split(t) ==
    LET id == globalId
        nr == NewRegion(NewRange(MyRegion(t).end), fg[t].client, "Normal")
    IN  /\ fg[t].pc = "split"
        /\ globalId <= MaxRegionId
        /\ globalId' = globalId + 1
        /\ IF Jump(id) = t
           THEN UNCHANGED <<region, queue, fg>>
           ELSE /\ region' = [region EXCEPT ![t][id] =
                                IF Present(t, id) THEN @ ELSE nr]
                /\ queue' = Append(queue, <<t, id>>)
                /\ Goto(t, "log")
        /\ UNCHANGED <<globalMap, store, allocInode, pinodeTable, logDb, split,
                       client, view, crash>>

\* Whether the operation is logged, by the status the region has now.
log_test(t) ==
    /\ fg[t].pc = "log"
    /\ Goto(t, IF MyRegion(t).status \in {"IsSplit", "SplitAlmostDone"}
               THEN "logId" ELSE "reply")
    /\ UNCHANGED <<region, globalMap, globalId, queue, store, allocInode,
                   pinodeTable, logDb, split, client, view, crash>>

\* Mutant: ++log_id in the place of log_id++.
log_op_id_preincrement(t) ==
    /\ fg[t].pc = "logId"
    /\ fg' = [fg EXCEPT ![t].pc = "put", ![t].logAt = MyRegion(t).logId + 1]
    /\ region' = [region EXCEPT ![t][fg[t].client].logId = @ + 1]
    /\ UNCHANGED <<globalMap, globalId, queue, store, allocInode, pinodeTable,
                   logDb, split, client, view, crash>>

\* log_op takes the next log id ...
log_op_id(t) ==
    /\ fg[t].pc = "logId"
    /\ fg' = [fg EXCEPT ![t].pc = "put", ![t].logAt = MyRegion(t).logId]
    /\ region' = [region EXCEPT ![t][fg[t].client].logId = @ + 1]
    /\ UNCHANGED <<globalMap, globalId, queue, store, allocInode, pinodeTable,
                   logDb, split, client, view, crash>>

\* ... and then writes the record there.  Records of an earlier split of the
\* region are still in the database and get overwritten.
WriteAt(log, i, rec) ==
    IF i < Len(log) THEN [log EXCEPT ![i + 1] = rec] ELSE Append(log, rec)

log_op_put(t) ==
    /\ fg[t].pc = "put"
    /\ logDb' = [logDb EXCEPT ![t] = WriteAt(@, fg[t].logAt,
                    [del |-> Req(t).op \in {"unlink", "rmdir"},
                     pinode |-> Req(t).pinode, name |-> Req(t).name])]
    /\ Goto(t, "reply")
    /\ UNCHANGED <<region, globalMap, globalId, queue, store, allocInode,
                   pinodeTable, split, client, view, crash>>

\* p_assert(s.ok(), "write log fail").
log_op_fail(t) == StoreMayFail /\ fg[t].pc = "put" /\ Die("write log fail")

\* enqueue_response.  After a range mismatch two responses share one buffer,
\* and the client sees what one of them held.
handler_reply(t) ==
    /\ fg[t].pc = "reply"
    /\ \E resp \in {fg[t].resp} \cup
                   (IF fg[t].belongs THEN {} ELSE {"kUpdateRegionMap"}) :
          client' = [client EXCEPT ![fg[t].client].pc = "answered",
                                   ![fg[t].client].resp = resp]
    /\ fg' = [fg EXCEPT ![t] = IdleFg]
    /\ UNCHANGED <<region, globalMap, globalId, queue, store, allocInode,
                   pinodeTable, logDb, split, view, crash>>

\* The map handler copies the global map under its read lock.
read_region_map_handler(t, c) ==
    /\ fg[t].pc = "idle"
    /\ client[c].pc = "readmap" /\ client[c].session = t
    /\ ~MapLocked
    /\ view' = [view EXCEPT ![c] = globalMap]
    /\ client' = [client EXCEPT ![c].pc = IF client[c].retried THEN "resend" ELSE "idle",
                                ![c].session = 0]
    /\ UNCHANGED <<region, globalMap, globalId, queue, store, allocInode,
                   pinodeTable, logDb, fg, split, crash>>

\* run_event_loop(1000000) returns after 1000 seconds and the thread ends.
run_server_thread_end(t) ==
    /\ LoopMayEnd /\ fg[t].pc = "idle"
    /\ Goto(t, "stopped")
    /\ UNCHANGED <<region, globalMap, globalId, queue, store, allocInode,
                   pinodeTable, logDb, split, client, view, crash>>

FgStep(t) ==
    \/ \E c \in ClientIds : handler_begin(t, c) \/ read_region_map_handler(t, c)
    \/ check_region_status(t) \/ handler_reject(t)
    \/ fs_mknod_exec(t) \/ fs_mkdir_exec(t) \/ insert_stat(t)
    \/ fs_unlink_exec(t) \/ fs_rmdir_exec(t) \/ delete_stat(t)
    \/ fs_open_exec(t) \/ fs_stat_exec(t) \/ fs_getinode_exec(t) \/ fs_readdir_exec(t)
    \/ fs_mkdir_table(t) \/ start_split(t) \/ check_region_and_split(t)
    \/ log_test(t) \/ log_op_id(t) \/ log_op_put(t) \/ log_op_fail(t) \/ handler_reply(t)
===============================================================================
