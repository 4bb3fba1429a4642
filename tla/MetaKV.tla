------------------------------- MODULE MetaKV -------------------------------
(***************************************************************************)
(* The key-value store of one foreground thread (the external library      *)
(* metakv), as the handlers use it: a table (pinode, fname) -> inode, and  *)
(* a table inode -> stat of which only the keys matter here.  A store is a *)
(* record [files, stats].                                                  *)
(***************************************************************************)
EXTENDS Naturals

CONSTANTS
    Names,       \* the file names clients use
    InodeThreads,\* the threads that allocate inode numbers
    MaxInode,    \* bound on the inode numbers a thread allocates
    StoreMayFail \* whether calls of the store may fail (no space, I/O error)

ASSUME KVAssumption ==
    Names # {} /\ 0 \in InodeThreads /\ MaxInode \in Nat /\ StoreMayFail \in BOOLEAN

\* An inode number: the allocating thread, its counter and the directory bit
\* (inode_prefix_msb).  The number 0 is the parent of the top-level entries.
Inode == [thr : InodeThreads, num : 0 .. MaxInode, dir : BOOLEAN]
Root == [thr |-> 0, num |-> 0, dir |-> FALSE]

Entry == [pinode : Inode, name : Names, inode : Inode]
EmptyStore == [files |-> {}, stats |-> {}]

Found(db, p, n) == {e \in db.files : e.pinode = p /\ e.name = n}

\* What a call leaves in the store, the status it returns and the inode number
\* the handler goes on with.  A failed call changes nothing.
Outcome(db, status, inode) == [db |-> db, status |-> status, inode |-> inode]
Failure(db, inode) ==
    IF StoreMayFail THEN {Outcome(db, "UNKNOWN_ERR", inode)} ELSE {}

InsertFileInode(db, p, n, i) ==
    Failure(db, i) \cup
    {IF Found(db, p, n) # {} THEN Outcome(db, "KEY_ALREADY_EXIST", i)
     ELSE Outcome([db EXCEPT !.files = @ \cup {[pinode |-> p, name |-> n, inode |-> i]}],
                  "OK", i)}

InsertStat(db, i) ==
    Failure(db, i) \cup
    {IF i \in db.stats THEN Outcome(db, "KEY_ALREADY_EXIST", i)
     ELSE Outcome([db EXCEPT !.stats = @ \cup {i}], "OK", i)}

\* The number of the removed entry is handed out; i is what the variable held.
DeleteFileInode(db, p, n, i) ==
    Failure(db, i) \cup
    (IF Found(db, p, n) = {} THEN {Outcome(db, "KEY_NOT_EXIST", i)}
     ELSE {Outcome([db EXCEPT !.files = @ \ {e}], "OK", e.inode) : e \in Found(db, p, n)})

DeleteStat(db, i) ==
    Failure(db, i) \cup
    {IF i \in db.stats THEN Outcome([db EXCEPT !.stats = @ \ {i}], "OK", i)
     ELSE Outcome(db, "KEY_NOT_EXIST", i)}

\* ReadDir returns no buffer for a directory without entries.
ReadDir(db, p) == {e \in db.files : e.pinode = p}
===============================================================================
