----------------------------- MODULE RegionSplit -----------------------------
(***************************************************************************)
(* The split thread (split_region_thread in src/server/metafs_server.cc,   *)
(* the rpc_ functions of region_and_log.cc) and the handlers it calls on   *)
(* the target thread (s2s_ in server_handler.cc).  Its calls are           *)
(* synchronous: where a call is on its way, split.pc ends in "Req", and    *)
(* where the answer has come, in "Resp".                                   *)
(*   poll -> create -> createReq -> createResp -> scan -> logRead          *)
(*        -> logLeft [-> shrink -> publish] -> logReq -> logResp           *)
(*        -> logRead again, or -> reset -> poll                            *)
(***************************************************************************)
EXTENDS ServerContext

Target == SessionOf(split.nr)
Nr == region[split.ctx][split.nr]
Left == region[split.ctx][split.left]

SplitGoto(pc) == split' = [split EXCEPT !.pc = pc]

\* The poll loop takes one entry at a time.
split_region_thread(q) ==
    /\ split.pc = "poll" /\ queue # <<>> /\ q = Head(queue)
    /\ IF split.ctx = None
       THEN /\ queue' = Tail(queue)
            /\ split' = [split EXCEPT !.pc = "create", !.ctx = q[1], !.nr = q[2]]
            /\ UNCHANGED <<region, globalMap, globalId, store, allocInode,
                           pinodeTable, logDb, fg, client, view, crash>>
       ELSE Die("s_ctx in use")

\* region_map[region_id] yields a null pointer for an unknown id.
rpc_create_region ==
    /\ split.pc = "create"
    /\ IF Present(split.ctx, split.nr)
       THEN /\ split' = [split EXCEPT !.pc = "createReq", !.left = Nr.left]
            /\ UNCHANGED <<region, globalMap, globalId, queue, store,
                           allocInode, pinodeTable, logDb, fg, client, view, crash>>
       ELSE Die("null region")

\* Mutants: the target serves at once; the target gets the origin's range.
s2s_create_region_ready(t) ==
    /\ split.pc = "createReq" /\ t = Target /\ fg[t].pc = "idle"
    /\ region' = [region EXCEPT ![t][split.nr] = NewRegion(Nr, 0, "Normal")]
    /\ SplitGoto("createResp")
    /\ UNCHANGED <<globalMap, globalId, queue, store, allocInode, pinodeTable,
                   logDb, fg, client, view, crash>>
s2s_create_region_whole(t) ==
    /\ split.pc = "createReq" /\ t = Target /\ fg[t].pc = "idle"
    /\ region' = [region EXCEPT ![t][split.nr] = NewRegion(Left, 0, "NotReady")]
    /\ SplitGoto("createResp")
    /\ UNCHANGED <<globalMap, globalId, queue, store, allocInode, pinodeTable,
                   logDb, fg, client, view, crash>>

\* The target inserts the region, which is not served yet.
s2s_create_region_handler(t) ==
    /\ split.pc = "createReq" /\ t = Target /\ fg[t].pc = "idle"
    /\ region' = [region EXCEPT ![t][split.nr] =
                    IF Present(t, split.nr) THEN @
                    ELSE NewRegion(Nr, 0, "NotReady")]
    /\ SplitGoto("createResp")
    /\ UNCHANGED <<globalMap, globalId, queue, store, allocInode, pinodeTable,
                   logDb, fg, client, view, crash>>

\* The scan starts under the read lock of the origin's pinode_table, so that
\* the directories it visits are those in the table now.
rpc_create_region_cb ==
    /\ split.pc = "createResp"
    /\ IF Present(split.ctx, split.nr)
       THEN /\ split' = [split EXCEPT
                           !.pc = "scan",
                           !.todo = {d \in pinodeTable[split.ctx] : InRange(Hash(d), Nr)}]
            /\ UNCHANGED <<region, globalMap, globalId, queue, store,
                           allocInode, pinodeTable, logDb, fg, client, view, crash>>
       ELSE Die("region gone")

\* pinode_table is ordered by hash and then by inode number.
ScannedBefore(d, e) ==
    Hash(d) < Hash(e) \/ (Hash(d) = Hash(e) /\ d.num <= e.num)

\* One directory of the scan.  With entries to send, the loop that prints them
\* stops at p_assert(false); an empty directory is skipped.
rpc_send_region_dir(d) ==
    /\ split.pc = "scan" /\ d \in split.todo
    /\ \A e \in split.todo : ScannedBefore(d, e)
    /\ IF ReadDir(store[split.ctx], d) # {}
       THEN Die("p_assert(false) in rpc_send_region")
       ELSE /\ split' = [split EXCEPT !.todo = @ \ {d}]
            /\ UNCHANGED <<region, globalMap, globalId, queue, store,
                           allocInode, pinodeTable, logDb, fg, client, view, crash>>

rpc_send_region_end ==
    /\ split.pc = "scan" /\ split.todo = {}
    /\ split' = [split EXCEPT !.pc = "logRead", !.next = 0]
    /\ UNCHANGED <<region, globalMap, globalId, queue, store, allocInode,
                   pinodeTable, logDb, fg, client, view, crash>>

\* One round of rpc_send_region_log: the records from next on, as many as fit
\* in a message ...
read_log ==
    /\ split.pc = "logRead"
    /\ IF Present(split.ctx, split.left)
       THEN LET log == logDb[split.ctx]
                last == IF Len(log) < split.next + MsgLogs THEN Len(log)
                        ELSE split.next + MsgLogs
            IN  /\ split' = [split EXCEPT !.pc = "logLeft",
                                          !.msg = SubSeq(log, split.next + 1, last)]
                /\ UNCHANGED <<region, globalMap, globalId, queue, store,
                               allocInode, pinodeTable, logDb, fg, client, view, crash>>
       ELSE Die("left region gone")

\* ... and then how many are left, by the log id the foreground thread has
\* reached meanwhile.
count_log_left ==
    LET status == LogStatus(Left.logId - (split.next + Len(split.msg)))
    IN  /\ split.pc = "logLeft"
        /\ split' = [split EXCEPT
                       !.logStatus = status,
                       !.pc = IF status # "FarToDone" /\ Left.status # "SplitAlmostDone"
                              THEN "shrink" ELSE "logReq"]
        /\ UNCHANGED <<region, globalMap, globalId, queue, store, allocInode,
                       pinodeTable, logDb, fg, client, view, crash>>

\* Under the write lock of the global map: the old entry goes and the region
\* shrinks, ...
shrink_left ==
    LET end == ShrunkEnd(Left.end)
    IN  /\ split.pc = "shrink"
        /\ IF ~\E r \in globalMap : r.id = split.left THEN Die("not in global map")
           ELSE IF end = 0 THEN Die("range too small")
           ELSE /\ globalMap' = {r \in globalMap : r.id # split.left}
                /\ region' = [region EXCEPT ![split.ctx][split.left].end = end]
                /\ SplitGoto("publish")
                /\ UNCHANGED <<globalId, queue, store, allocInode, pinodeTable,
                               logDb, fg, client, view, crash>>

\* Mutant: the two halves are published under each other's id.
publish_halves_swapped ==
    /\ split.pc = "publish"
    /\ globalMap' = globalMap \cup {MapEntry(split.left, Nr), MapEntry(split.nr, Left)}
    /\ region' = [region EXCEPT ![split.ctx][split.left].status = "SplitAlmostDone"]
    /\ SplitGoto("logReq")
    /\ UNCHANGED <<globalId, queue, store, allocInode, pinodeTable, logDb, fg,
                   client, view, crash>>

\* ... and both halves come in; from now on the region refuses requests.
publish_halves ==
    /\ split.pc = "publish"
    /\ globalMap' = globalMap \cup {MapEntry(split.nr, Nr), MapEntry(split.left, Left)}
    /\ region' = [region EXCEPT ![split.ctx][split.left].status = "SplitAlmostDone"]
    /\ SplitGoto("logReq")
    /\ UNCHANGED <<globalId, queue, store, allocInode, pinodeTable, logDb, fg,
                   client, view, crash>>

\* The target replays a message.  It reads one byte where the record holds the
\* eight of the parent's number, so that the flag for a put is never seen and
\* every record counts as a delete.  The name is found where the delete
\* expects it as long as only deletes came before; it names an existing entry
\* only under the parent whose number is that byte alone, the root.
ReplayedNames(msg) ==
    {msg[i].name : i \in {j \in 1 .. Len(msg) :
        msg[j].pinode = Root /\ \A k \in 1 .. j : msg[k].del}}

\* The stores a replay may leave: without failures all of these entries and
\* their stats are gone; a call that fails leaves its entry, or only the stat.
Without(db, entries, losers) ==
    [files |-> db.files \ entries, stats |-> db.stats \ {e.inode : e \in losers}]
Replay(db, msg) ==
    LET gone == {e \in db.files : e.pinode = Root /\ e.name \in ReplayedNames(msg)}
    IN  IF StoreMayFail
        THEN UNION {{Without(db, f, g) : g \in SUBSET f} : f \in SUBSET gone}
        ELSE {Without(db, gone, gone)}

s2s_send_region_log_handler(t) ==
    /\ split.pc = "logReq" /\ t = Target /\ fg[t].pc = "idle"
    /\ \E db \in Replay(store[t], split.msg) : store' = [store EXCEPT ![t] = db]
    /\ region' = [region EXCEPT
                    ![t][split.nr].kvNum = @ - Len(split.msg),
                    ![t][split.nr].status =
                        IF split.logStatus = "Done" THEN "Normal" ELSE @]
    /\ SplitGoto("logResp")
    /\ UNCHANGED <<globalMap, globalId, queue, allocInode, pinodeTable, logDb,
                   fg, client, view, crash>>

\* The answer repeats the status: more log, or the temporary region goes and
\* the log starts again at 0 ...
rpc_send_region_log_resp ==
    /\ split.pc = "logResp"
    /\ IF split.logStatus = "Done"
       THEN /\ region' = [region EXCEPT ![split.ctx][split.nr] = NoRegion,
                                        ![split.ctx][split.left].logId = 0]
            /\ SplitGoto("reset")
       ELSE /\ split' = [split EXCEPT !.pc = "logRead", !.msg = <<>>,
                                      !.next = @ + Len(split.msg)]
            /\ UNCHANGED region
    /\ UNCHANGED <<globalMap, globalId, queue, store, allocInode, pinodeTable,
                   logDb, fg, client, view, crash>>

\* Mutant: s_ctx is not set back to NULL.
finish_split_keeping_ctx ==
    /\ split.pc = "reset"
    /\ region' = [region EXCEPT ![split.ctx][split.left].status = "Normal"]
    /\ SplitGoto("poll")
    /\ UNCHANGED <<globalMap, globalId, queue, store, allocInode, pinodeTable,
                   logDb, fg, client, view, crash>>

\* ... and the region is served again.
finish_split ==
    /\ split.pc = "reset"
    /\ region' = [region EXCEPT ![split.ctx][split.left].status = "Normal"]
    /\ split' = IdleSplit
    /\ UNCHANGED <<globalMap, globalId, queue, store, allocInode, pinodeTable,
                   logDb, fg, client, view, crash>>

SplitStep ==
    \/ \E q \in Threads \X RegionIds : split_region_thread(q)
    \/ rpc_create_region \/ rpc_create_region_cb
    \/ \E d \in split.todo : rpc_send_region_dir(d)
    \/ rpc_send_region_end
    \/ read_log \/ count_log_left \/ shrink_left \/ publish_halves
    \/ rpc_send_region_log_resp \/ finish_split

TargetStep(t) == s2s_create_region_handler(t) \/ s2s_send_region_log_handler(t)
===============================================================================
