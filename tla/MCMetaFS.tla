------------------------------- MODULE MCMetaFS -------------------------------
(* MetaFS for TLC: two foreground threads, as in config/server.json. *)
EXTENDS MetaFS

\* JumpConsistentHash(id, 2) for the ids in use.
MCJump(id) == IF id \in {4, 5, 6, 10, 11, 12} THEN 1 ELSE 0

\* XXH3 of the root and of the first directory numbers of each thread,
\* modulo 1024 and scaled down to HashRange.
Xxh == << <<712, 809, 531, 322, 738, 665, 832>>,
          <<934, 881, 955, 774, 432, 210, 180>> >>
MCHash(i) ==
    ((IF i.num = 0 THEN 217 ELSE Xxh[i.thr + 1][i.num]) * HashRange) \div 1024
===============================================================================
