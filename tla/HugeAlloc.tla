------------------------------- MODULE HugeAlloc -------------------------------
(***************************************************************************)
(* eRPC's hugepage allocator (thirdparty/eRPC/src/util/huge_alloc), from   *)
(* which every message buffer of RocksFS comes.  It keeps one free list    *)
(* per class; class c holds buffers of k_min_class_size * 2^c bytes.  An   *)
(* empty class is filled by splitting one buffer of the next larger class  *)
(* that has any, and when none has, twice as much memory as last time is   *)
(* reserved.  Buffers are never joined again.                              *)
(*                                                                         *)
(* Each operation runs under the Rpc's huge_alloc_lock_: one step each.    *)
(* Addresses are offsets into the memory reserved so far: shmat returns    *)
(* regions that do not overlap.                                            *)
(***************************************************************************)
EXTENDS Naturals, Sequences, FiniteSets, SequencesExt

CONSTANTS k_min_class_size,
          k_num_classes,
          kHugepageSize,
          InitialSize,    \* initial_size, at least the largest class in the constructor
          Hugepages,      \* hugepages the system has (bound)
          MaxUser,        \* buffers in use at a time (bound)
          Sizes,          \* the sizes asked for
          RawSizes        \* the sizes asked for by alloc_raw's other callers

VARIABLES freelist,               \* the free buffers of each class, newest last
          user,                   \* buffers given out: where, how large, asked for
          shm_list,               \* the regions reserved: where, how large, for whom
          shm_reserved,           \* their bytes
          prev_allocation_size,
          user_alloc_tot

vars == <<freelist, user, shm_list, shm_reserved, prev_allocation_size, user_alloc_tot>>

Classes == 0..(k_num_classes - 1)

(* 1 << i *)
shl[i \in 0..k_num_classes] == IF i = 0 THEN 1 ELSE 2 * shl[i - 1]

class_max_size(c) == k_min_class_size * shl[c]

k_max_class_size == class_max_size(k_num_classes - 1)

(* The sizes of the code are 64 bytes, 18 classes and hugepages of 2 MB;   *)
(* the one caller of the constructor asks for 8 MB, the largest class.     *)
ASSUME AllocAssumption ==
    /\ {k_min_class_size, k_num_classes, kHugepageSize} \subseteq Nat \ {0}
    /\ {Hugepages, MaxUser} \subseteq Nat
    /\ InitialSize \in Nat /\ InitialSize >= k_max_class_size
    /\ InitialSize % k_max_class_size = 0
    /\ k_max_class_size % kHugepageSize = 0
    /\ Sizes \subseteq 1..k_max_class_size /\ RawSizes \subseteq Nat \ {0}

(* The number of the most significant bit, from 1; 0 when there is none. *)
msb_index(x) ==
    CHOOSE i \in 0..k_num_classes : x < shl[i] /\ (i > 0 => x >= shl[i - 1])

(* Mutant: a size that fills its class goes to the next. *)
get_class_next(size) == msb_index(size \div k_min_class_size)

get_class(size) == msb_index((size - 1) \div k_min_class_size)

round_up(size) == kHugepageSize * ((size + kHugepageSize - 1) \div kHugepageSize)

(* Mutant: the second half starts where the first does. *)
split_low(fl, c) ==
    [fl EXCEPT ![c] = Front(@), ![c - 1] = @ \o <<Last(fl[c]), Last(fl[c])>>]

(* The newest buffer of class c becomes two of the class below. *)
split(fl, c) ==
    [fl EXCEPT ![c] = Front(@),
               ![c - 1] = @ \o <<Last(fl[c]), Last(fl[c]) + class_max_size(c - 1)>>]

(* Class next_class is split down to class c. *)
SplitDown(fl, next_class, c) ==
    LET down[i \in 0..(next_class - c)] ==
            IF i = 0 THEN fl ELSE split(down[i - 1], next_class + 1 - i)
    IN  down[next_class - c]

(* A new region of so many bytes, cut into buffers of the largest class. *)
AddBuffers(fl, buf, size) ==
    [fl EXCEPT ![k_num_classes - 1] =
        @ \o [i \in 1..(size \div k_max_class_size) |-> buf + (i - 1) * k_max_class_size]]

(* Whether the system has the hugepages.  Another process may hold some. *)
MayReserve(size) == shm_reserved + round_up(size) <= Hugepages * kHugepageSize

NewRegion(size, raw) ==
    /\ shm_list' = Append(shm_list, [buf |-> shm_reserved, size |-> round_up(size), raw |-> raw])
    /\ shm_reserved' = shm_reserved + round_up(size)

(* The newest buffer of class c goes to the caller. *)
alloc_from_class(fl, c, size) ==
    /\ user' = user \cup {[buf |-> Last(fl[c]), class_size |-> class_max_size(c), size |-> size]}
    /\ freelist' = [fl EXCEPT ![c] = Front(@)]
    /\ user_alloc_tot' = user_alloc_tot + class_max_size(c)

(* The classes above c with free buffers. *)
Larger(c) == {d \in Classes : d > c /\ freelist[d] # <<>>}

Init ==
    /\ freelist = [c \in Classes |-> <<>>]
    /\ user = {}
    /\ shm_list = <<>>
    /\ shm_reserved = 0
    /\ prev_allocation_size = InitialSize
    /\ user_alloc_tot = 0
-----------------------------------------------------------------------------
(* The class itself or a larger one has free buffers. *)
alloc(size) ==
    LET c == get_class(size)
    IN  /\ \/ freelist[c] # <<>> /\ alloc_from_class(freelist, c, size)
           \/ /\ freelist[c] = <<>> /\ Larger(c) # {}
              /\ alloc_from_class(SplitDown(freelist, Min(Larger(c)), c), c, size)
        /\ UNCHANGED <<shm_list, shm_reserved, prev_allocation_size>>

(* None has: twice the last reservation is made. *)
alloc_reserving(size) ==
    LET c == get_class(size)
        more == 2 * prev_allocation_size
        filled == AddBuffers(freelist, shm_reserved, more)
    IN  /\ freelist[c] = <<>> /\ Larger(c) = {}
        /\ MayReserve(more)
        /\ NewRegion(more, FALSE)
        /\ prev_allocation_size' = more
        /\ alloc_from_class(SplitDown(filled, k_num_classes - 1, c), c, size)

(* The system has no such region: a null buffer is returned, and the size  *)
(* to reserve next time stays what it was.                                 *)
alloc_failing(size) ==
    LET c == get_class(size)
    IN  /\ freelist[c] = <<>> /\ Larger(c) = {}
        /\ UNCHANGED vars

(* A region for a caller that bypasses the free lists and never returns it *)
(* (the timing wheel, the memory pool and the transport's RX ring).        *)
alloc_raw(size) ==
    /\ MayReserve(size)
    /\ NewRegion(size, TRUE)
    /\ UNCHANGED <<freelist, user, prev_allocation_size, user_alloc_tot>>

free_buf(b) ==
    /\ freelist' = [freelist EXCEPT ![get_class(b.class_size)] = Append(@, b.buf)]
    /\ user' = user \ {b}
    /\ user_alloc_tot' = user_alloc_tot - b.class_size
    /\ UNCHANGED <<shm_list, shm_reserved, prev_allocation_size>>

Next ==
    \/ \E size \in Sizes : /\ Cardinality(user) < MaxUser
                          /\ (alloc(size) \/ alloc_reserving(size) \/ alloc_failing(size))
    \/ \E size \in RawSizes : alloc_raw(size)
    \/ \E b \in user : free_buf(b)

Spec == Init /\ [][Next]_vars
-----------------------------------------------------------------------------
(***************************************************************************)
(* Properties.                                                             *)
(***************************************************************************)
(* The bytes of the regions that were cut into buffers. *)
ClassBytes ==
    UNION {shm_list[i].buf..(shm_list[i].buf + shm_list[i].size - 1) :
              i \in {j \in DOMAIN shm_list : ~shm_list[j].raw}}

(* The free buffers, one for each place in a free list. *)
FreeBuffers == UNION {{<<c, i>> : i \in DOMAIN freelist[c]} : c \in Classes}

Holds(buf, len, byte) == buf <= byte /\ byte < buf + len

(* However buffers were split, given out and given back, every byte of the *)
(* regions reserved for the classes is in exactly one buffer, free or in   *)
(* use, and no other byte is in any: two message buffers never overlap,    *)
(* none reaches into a region of the wheel or the RX ring, and nothing     *)
(* leaks.                                                                  *)
EveryByteOnce ==
    \A byte \in 0..(shm_reserved - 1) :
        Cardinality({f \in FreeBuffers :
                        Holds(freelist[f[1]][f[2]], class_max_size(f[1]), byte)})
          + Cardinality({b \in user : Holds(b.buf, b.class_size, byte)})
        = IF byte \in ClassBytes THEN 1 ELSE 0

(* A buffer has room for what was asked, and is of the smallest class that *)
(* has: get_class agrees with get_class_slow at the edges of the classes.  *)
SmallestClass ==
    \A b \in user : /\ b.size <= b.class_size
                    /\ b.class_size > k_min_class_size => b.size > b.class_size \div 2
=============================================================================
