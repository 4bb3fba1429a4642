------------------------------ MODULE OpenFileMap ------------------------------
(***************************************************************************)
(* The descriptor table of a client process (src/client/open_file_map.cc,  *)
(* open_dir.cc): files_ under the recursive mutex files_mutex_, the        *)
(* counter fd_idx under fd_idx_mutex and the atomic flag                   *)
(* fd_validation_needed.  Threads of the client share it.                  *)
(*                                                                         *)
(* add takes a number, looks whether it has to be checked, checks it, and  *)
(* inserts the file: four steps with the mutexes released in between,      *)
(*   gen -> check [-> exist [-> regen -> exist ...]] -> insert             *)
(* dup runs the same steps and holds files_mutex_ (owner) all the while.   *)
(***************************************************************************)
EXTENDS Integers, Sequences, FiniteSets

CONSTANTS
    Threads,     \* threads of the client process
    NoThread,    \* nobody holds files_mutex_
    StartFd,     \* START_FD
    MaxFd,       \* numeric_limits<int>::max()
    MaxFiles     \* bound on the files open at one time

ASSUME FdAssumption ==
    /\ NoThread \notin Threads
    /\ StartFd \in Nat \ {0} /\ MaxFd \in Nat /\ StartFd < MaxFd /\ MaxFiles \in Nat

Fds == StartFd .. MaxFd
FileIds == 1 .. MaxFiles
NoFile == 0

VARIABLES
    files,       \* files_: the file under each descriptor, or NoFile
    fdIdx,       \* fd_idx
    validate,    \* fd_validation_needed
    owner,       \* the thread that holds files_mutex_ over several steps
    objs,        \* objs[f]: the OpenFile objects
    thr          \* thr[t]: what thread t is doing
tableVars == <<files, fdIdx, validate, owner>>

\* An OpenFile or OpenDir: its kind, its position, and the lengths of the names
\* in entries.
OpenFile(type, entries) == [type |-> type, pos |-> 0, entries |-> entries]

\* A thread between two calls.
NoFd == 0
Idle == [pc |-> "idle", fd |-> NoFd, file |-> NoFile, room |-> 0, user |-> 0,
         pos |-> 0, written |-> 0]

TableInit ==
    /\ files = [fd \in Fds |-> NoFile]
    /\ fdIdx = StartFd
    /\ validate = FALSE
    /\ owner = NoThread

Exists(fd) == files[fd] # NoFile

\* Objects that a descriptor or a running call refers to (shared_ptr); the
\* others are gone, and their ids serve again.
Live == {files[fd] : fd \in Fds} \cup {thr[t].file : t \in Threads}

\* files_mutex_ is recursive: its owner takes it again.
CanLock(t) == owner \in {NoThread, t}

\* Numbers in the hands of other threads are not given out again: while one
\* thread pauses within a call, the others do not use up all 2^31 numbers.
ShortPause(t, fd) == \A u \in Threads \ {t} : thr[u].pc # "idle" => thr[u].fd # fd

\* Mutants: the counter starts again and no checks follow; the smallest free
\* number, as the kernel gives it out.
generate_fd_idx_unflagged(t, nextPc) ==
    LET fd == IF fdIdx = MaxFd THEN StartFd ELSE fdIdx
    IN  /\ fdIdx' = fd + 1
        /\ thr' = [thr EXCEPT ![t].fd = fd, ![t].pc = nextPc]
        /\ UNCHANGED <<files, validate, owner, objs>>
generate_fd_idx_lowest(t, nextPc) ==
    LET fd == CHOOSE g \in Fds : ~Exists(g) /\ \A i \in StartFd .. g - 1 : Exists(i)
    IN  /\ thr' = [thr EXCEPT ![t].fd = fd, ![t].pc = nextPc]
        /\ UNCHANGED <<files, fdIdx, validate, owner, objs>>

\* The largest number is never given out: the counter starts again instead.
generate_fd_idx(t, nextPc) ==
    LET wrap == fdIdx = MaxFd
        fd == IF wrap THEN StartFd ELSE fdIdx
    IN  /\ ShortPause(t, fd)
        /\ fdIdx' = fd + 1
        /\ validate' = (validate \/ wrap)
        /\ thr' = [thr EXCEPT ![t].fd = fd, ![t].pc = nextPc]
        /\ UNCHANGED <<files, owner, objs>>

\* safe_generate_fd_idx_: the flag is read once, and the numbers are then
\* checked until one is free.
generate_first(t) == thr[t].pc = "gen" /\ generate_fd_idx(t, "check")
generate_again(t) == thr[t].pc = "regen" /\ generate_fd_idx(t, "exist")

check_validation(t) ==
    /\ thr[t].pc = "check"
    /\ thr' = [thr EXCEPT ![t].pc = IF validate THEN "exist" ELSE "insert"]
    /\ UNCHANGED <<files, fdIdx, validate, owner, objs>>

check_exist(t) ==
    /\ thr[t].pc = "exist" /\ CanLock(t)
    /\ thr' = [thr EXCEPT ![t].pc = IF Exists(thr[t].fd) THEN "regen" ELSE "insert"]
    /\ UNCHANGED <<files, fdIdx, validate, owner, objs>>

\* The end of add and dup: unordered_map::insert leaves an existing entry alone.
insert(t) ==
    /\ thr[t].pc = "insert" /\ CanLock(t)
    /\ files' = [files EXCEPT ![thr[t].fd] = IF @ = NoFile THEN thr[t].file ELSE @]
    /\ owner' = NoThread
    /\ thr' = [thr EXCEPT ![t] = Idle]
    /\ UNCHANGED <<fdIdx, validate, objs>>

\* erase, and no more checks when the table has become empty.
Erased(fd) == [files EXCEPT ![fd] = NoFile]
ValidateAfterErase(fd) == validate /\ \E g \in Fds : Erased(fd)[g] # NoFile

remove(t) ==
    LET fd == thr[t].fd
    IN  /\ thr[t].pc = "remove" /\ CanLock(t)
        /\ files' = Erased(fd)
        /\ validate' = IF Exists(fd) THEN ValidateAfterErase(fd) ELSE validate
        /\ thr' = [thr EXCEPT ![t] = Idle]
        /\ UNCHANGED <<fdIdx, owner, objs>>

\* dup of a descriptor that is not open fails with EBADF and changes nothing.
dup(t, oldfd) ==
    /\ thr[t].pc = "idle" /\ owner = NoThread
    /\ Exists(oldfd)
    /\ owner' = t
    /\ thr' = [thr EXCEPT ![t].pc = "gen", ![t].file = files[oldfd]]
    /\ UNCHANGED <<files, fdIdx, validate, objs>>

\* dup2 closes newfd and compares it with the counter ...
dup2(t, oldfd, newfd) ==
    /\ thr[t].pc = "idle" /\ owner = NoThread
    /\ Exists(oldfd) /\ oldfd # newfd
    /\ files' = Erased(newfd)
    /\ validate' = IF Exists(newfd) THEN ValidateAfterErase(newfd) ELSE validate
    /\ owner' = t
    /\ thr' = [thr EXCEPT ![t].pc = IF fdIdx < newfd THEN "dup2flag" ELSE "insert",
                          ![t].fd = newfd, ![t].file = files[oldfd]]
    /\ UNCHANGED <<fdIdx, objs>>

\* ... and a number that the counter has yet to reach makes checks necessary.
dup2_flag(t) ==
    /\ thr[t].pc = "dup2flag"
    /\ validate' = TRUE
    /\ thr' = [thr EXCEPT ![t].pc = "insert"]
    /\ UNCHANGED <<files, fdIdx, owner, objs>>

AddStep(t) ==
    generate_first(t) \/ generate_again(t) \/ check_validation(t) \/ check_exist(t) \/ insert(t)
===============================================================================
