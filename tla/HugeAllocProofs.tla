--------------------------- MODULE HugeAllocProofs ---------------------------
(***************************************************************************)
(* What the allocator of HugeAlloc promises, for every class size, number  *)
(* of classes and amount of memory, and for every sequence of its          *)
(* operations.                                                             *)
(***************************************************************************)
EXTENDS HugeAlloc, SequenceTheorems, FiniteSetTheorems, WellFoundedInduction, TLAPS

(* A set of numbers that is not empty has a smallest one. *)
LEMMA SmallestNumber ==
    ASSUME NEW S \in SUBSET Nat, S # {}
    PROVE  \E m \in S : \A i \in S : m <= i
<1> DEFINE R == {ss \in Nat \X Nat : ss[1] < ss[2]}
<1>1. IsWellFoundedOn(R, Nat)
  BY NatLessThanWellFounded, Zenon DEF OpToRel
<1>2. PICK x \in S : \A y \in S : <<y, x>> \notin R
  <2> HIDE DEF R
  <2> QED
    BY <1>1, WFMin
<1>3. ASSUME NEW y \in S
      PROVE  x <= y
  <2>1. x \in Nat /\ y \in Nat
    OBVIOUS
  <2>2. ~(y < x)
    BY <1>2, <2>1
  <2> QED
    BY ONLY <2>1, <2>2
<1> QED
  BY <1>3

(* Induction, for the numbers of a set. *)
LEMMA SetInduction ==
    ASSUME NEW P, 0 \in P, \A n \in Nat : n \in P => n + 1 \in P
    PROVE  \A n \in Nat : n \in P
<1> SUFFICES ASSUME NEW b \in Nat, b \notin P
             PROVE  FALSE
  OBVIOUS
<1> DEFINE S == {n \in Nat : n \notin P}
<1>1. S \in SUBSET Nat /\ S # {}
  OBVIOUS
<1>2. PICK m \in S : \A i \in S : m <= i
  <2> HIDE DEF S
  <2> QED
    BY <1>1, SmallestNumber
<1>3. m # 0 /\ m - 1 \in Nat
  OBVIOUS
<1>4. m - 1 \in P
  BY <1>2, <1>3
<1> QED
  BY <1>3, <1>4
-----------------------------------------------------------------------------
(***************************************************************************)
(* The sizes of the classes.                                               *)
(***************************************************************************)

(* The powers of two are what their recursion says. *)
LEMMA PowersDefined ==
    /\ shl[0] = 1
    /\ \A i \in 1..k_num_classes : shl[i] = 2 * shl[i - 1]
<1> DEFINE P == {n \in Nat : \E f : f = [i \in 0..n |-> IF i = 0 THEN 1 ELSE 2 * f[i - 1]]}
<1>1. 0 \in P
  <2> DEFINE f == [i \in 0..0 |-> 1]
  <2>1. f = [i \in 0..0 |-> IF i = 0 THEN 1 ELSE 2 * f[i - 1]]
    OBVIOUS
  <2> QED
    BY <2>1
<1>2. ASSUME NEW n \in Nat, n \in P
      PROVE  n + 1 \in P
  <2>1. PICK f : f = [i \in 0..n |-> IF i = 0 THEN 1 ELSE 2 * f[i - 1]]
    BY <1>2
  <2> DEFINE g == [i \in 0..(n + 1) |-> IF i = n + 1 THEN 2 * f[n] ELSE f[i]]
  <2>2. ASSUME NEW i \in 0..(n + 1)
        PROVE  g[i] = IF i = 0 THEN 1 ELSE 2 * g[i - 1]
    <3>1. CASE i = 0
      BY <2>1, <3>1
    <3>2. CASE i = n + 1
      BY <3>2
    <3>3. CASE i \in 1..n
      <4>1. g[i] = f[i] /\ g[i - 1] = f[i - 1] /\ i # 0 /\ i \in 0..n
        BY <3>3
      <4>2. f[i] = 2 * f[i - 1]
        BY <2>1, <4>1
      <4> QED
        BY <4>1, <4>2
    <3> QED
      BY <3>1, <3>2, <3>3
  <2>3. g = [i \in 0..(n + 1) |-> IF i = 0 THEN 1 ELSE 2 * g[i - 1]]
    <3>1. g = [i \in 0..(n + 1) |-> g[i]]
      OBVIOUS
    <3> HIDE DEF g
    <3> QED
      BY <2>2, <3>1
  <2> HIDE DEF g
  <2>4. \E f2 : f2 = [i \in 0..(n + 1) |-> IF i = 0 THEN 1 ELSE 2 * f2[i - 1]]
    BY ONLY <2>3, Zenon
  <2>5. n + 1 \in Nat
    OBVIOUS
  <2> QED
    BY <2>4, <2>5
<1>3. \A n \in Nat : n \in P
  <2> HIDE DEF P
  <2> QED
    BY <1>1, <1>2, SetInduction
<1>4. \E f : f = [i \in 0..k_num_classes |-> IF i = 0 THEN 1 ELSE 2 * f[i - 1]]
  BY <1>3, AllocAssumption
<1>5. shl = [i \in 0..k_num_classes |-> IF i = 0 THEN 1 ELSE 2 * shl[i - 1]]
  BY <1>4 DEF shl
<1> QED
  BY <1>5, AllocAssumption

(* They are numbers. *)
LEMMA PowersType ==
    \A i \in 0..k_num_classes : shl[i] \in Nat \ {0}
<1> DEFINE P == {n \in Nat : n <= k_num_classes => shl[n] \in Nat \ {0}}
<1>1. 0 \in P
  BY PowersDefined
<1>2. ASSUME NEW n \in Nat, n \in P
      PROVE  n + 1 \in P
  <2> SUFFICES ASSUME n + 1 <= k_num_classes
               PROVE  shl[n + 1] \in Nat \ {0}
    OBVIOUS
  <2>1. shl[n] \in Nat \ {0}
    BY <1>2, AllocAssumption
  <2>2. n + 1 \in 1..k_num_classes /\ (n + 1) - 1 = n
    BY AllocAssumption
  <2>3. shl[n + 1] = 2 * shl[n]
    BY <2>2, PowersDefined
  <2> QED
    BY <2>1, <2>3
<1>3. \A n \in Nat : n \in P
  <2> HIDE DEF P
  <2> QED
    BY <1>1, <1>2, SetInduction
<1> QED
  BY <1>3

(* A larger shift gives a larger power. *)
LEMMA PowersGrow ==
    \A i, j \in 0..k_num_classes : i < j => 2 * shl[i] <= shl[j]
<1> SUFFICES ASSUME NEW i \in 0..k_num_classes
             PROVE  \A j \in 0..k_num_classes : i < j => 2 * shl[i] <= shl[j]
  OBVIOUS
<1> DEFINE P == {n \in Nat : n <= k_num_classes /\ i < n => 2 * shl[i] <= shl[n]}
<1>1. 0 \in P
  OBVIOUS
<1>2. ASSUME NEW n \in Nat, n \in P
      PROVE  n + 1 \in P
  <2> SUFFICES ASSUME n + 1 <= k_num_classes, i < n + 1
               PROVE  2 * shl[i] <= shl[n + 1]
    OBVIOUS
  <2>1. n + 1 \in 1..k_num_classes /\ (n + 1) - 1 = n /\ n \in 0..k_num_classes
    BY AllocAssumption
  <2>2. shl[n + 1] = 2 * shl[n] /\ shl[n] \in Nat \ {0} /\ shl[i] \in Nat \ {0}
    BY <2>1, PowersDefined, PowersType
  <2>3. CASE i = n
    BY <2>2, <2>3
  <2>4. CASE i < n
    <3>1. 2 * shl[i] <= shl[n]
      BY <1>2, <2>1, <2>4, AllocAssumption
    <3> QED
      BY <2>2, <3>1
  <2> QED
    BY <2>1, <2>3, <2>4
<1>3. \A n \in Nat : n \in P
  <2> HIDE DEF P
  <2> QED
    BY <1>1, <1>2, SetInduction
<1> QED
  BY <1>3

(* Each class is twice as large as the one below. *)
LEMMA ClassSizes ==
    /\ k_num_classes - 1 \in Classes /\ 0 \in Classes
    /\ class_max_size(0) = k_min_class_size
    /\ k_max_class_size = class_max_size(k_num_classes - 1)
    /\ \A c \in Classes : c \in Nat /\ class_max_size(c) \in Nat \ {0}
    /\ \A c \in Classes : c > 0 => /\ c - 1 \in Classes
                                 /\ class_max_size(c) = 2 * class_max_size(c - 1)
    /\ \A c, d \in Classes : c < d => class_max_size(c) < class_max_size(d)
<1>1. k_min_class_size \in Nat \ {0} /\ k_num_classes \in Nat \ {0}
  BY AllocAssumption
<1>2. k_num_classes - 1 \in Classes /\ 0 \in Classes
  BY <1>1 DEF Classes
<1>3. \A c \in Classes : c \in 0..k_num_classes /\ c \in Nat
  BY <1>1 DEF Classes
<1>4. \A c \in Classes : class_max_size(c) \in Nat \ {0}
  BY <1>1, <1>3, PowersType DEF class_max_size
<1>5. ASSUME NEW c \in Classes, c > 0
      PROVE  c - 1 \in Classes /\ class_max_size(c) = 2 * class_max_size(c - 1)
  <2>1. c - 1 \in Classes /\ c \in 1..k_num_classes
    BY <1>1, <1>5 DEF Classes
  <2>2. shl[c] = 2 * shl[c - 1] /\ shl[c - 1] \in Nat
    BY <1>3, <2>1, PowersDefined, PowersType
  <2> QED
    BY <1>1, <2>1, <2>2 DEF class_max_size
<1>6. ASSUME NEW c \in Classes, NEW d \in Classes, c < d
      PROVE  class_max_size(c) < class_max_size(d)
  <2>1. PICK a \in Nat \ {0}, b \in Nat \ {0} : a = shl[c] /\ b = shl[d]
    BY <1>3, PowersType
  <2>2. a < b
    BY <1>3, <1>6, <2>1, PowersGrow
  <2>3. k_min_class_size * a < k_min_class_size * b
    BY ONLY <2>2, <1>1, a \in Nat, b \in Nat
  <2> QED
    BY <2>1, <2>3 DEF class_max_size
<1>7. class_max_size(0) = k_min_class_size
  BY <1>1, PowersDefined DEF class_max_size
<1> QED
  BY <1>2, <1>3, <1>4, <1>5, <1>6, <1>7 DEF k_max_class_size

(* The number of the top bit. *)
LEMMA TopBit ==
    ASSUME NEW x \in Nat, x < shl[k_num_classes - 1]
    PROVE  /\ msb_index(x) \in Classes
           /\ x < shl[msb_index(x)]
           /\ msb_index(x) > 0 => x >= shl[msb_index(x) - 1]
<1>0. k_num_classes \in Nat \ {0}
  BY AllocAssumption
<1> DEFINE S == {i \in 0..k_num_classes : x < shl[i]}
<1>1. S \in SUBSET Nat /\ S # {}
  BY <1>0
<1>2. PICK m \in S : \A i \in S : m <= i
  <2> HIDE DEF S
  <2> QED
    BY <1>1, SmallestNumber
<1>3. m > 0 => x >= shl[m - 1]
  <2> SUFFICES ASSUME m > 0 PROVE x >= shl[m - 1]
    OBVIOUS
  <2>1. m - 1 \in 0..k_num_classes /\ shl[m - 1] \in Nat
    BY <1>0, PowersType
  <2>2. m - 1 \notin S
    BY <1>2, <1>0
  <2> QED
    BY <2>1, <2>2
<1>4. \E i \in 0..k_num_classes : x < shl[i] /\ (i > 0 => x >= shl[i - 1])
  BY <1>2, <1>3
<1>5. /\ msb_index(x) \in 0..k_num_classes
      /\ x < shl[msb_index(x)] /\ (msb_index(x) > 0 => x >= shl[msb_index(x) - 1])
  BY <1>4 DEF msb_index
<1>6. msb_index(x) # k_num_classes
  <2>1. shl[k_num_classes - 1] \in Nat
    BY <1>0, PowersType
  <2> QED
    BY <1>0, <1>5, <2>1
<1> QED
  BY <1>0, <1>5, <1>6 DEF Classes

(* The class of a size is the smallest that has room for it: get_class     *)
(* computes what get_class_slow looks for.                                 *)
LEMMA ClassOfSize ==
    ASSUME NEW size \in 1..k_max_class_size
    PROVE  /\ get_class(size) \in Classes
           /\ size <= class_max_size(get_class(size))
           /\ get_class(size) > 0 => size > class_max_size(get_class(size) - 1)
<1>0. k_min_class_size \in Nat \ {0} /\ k_num_classes \in Nat \ {0}
  BY AllocAssumption
<1>1. PICK k \in Nat \ {0} : k = k_min_class_size
  BY <1>0
<1>2. PICK x \in Nat : x = (size - 1) \div k
  BY ONLY size \in 1..k_max_class_size, k \in Nat \ {0}
<1>3. k * x <= size - 1 /\ size - 1 < k * x + k /\ size \in Nat
  BY ONLY <1>2, size \in 1..k_max_class_size, k \in Nat \ {0}
<1>4. PICK t \in Nat : t = shl[k_num_classes - 1]
  BY <1>0, PowersType
<1>5. k * x < k * t
  BY <1>1, <1>3, <1>4 DEF k_max_class_size, class_max_size
<1>6. x < t
  BY ONLY <1>5, x \in Nat, t \in Nat, k \in Nat \ {0}
<1>7. PICK c \in Classes : /\ c = msb_index(x) /\ x < shl[c]
                          /\ (c > 0 => x >= shl[c - 1])
  BY <1>4, <1>6, TopBit
<1>8. get_class(size) = c
  BY <1>1, <1>2, <1>7 DEF get_class
<1>9. size <= class_max_size(c)
  <2>1. PICK a \in Nat : a = shl[c]
    BY <1>0, PowersType DEF Classes
  <2>2. k * x + k <= k * a
    BY ONLY <1>7, <2>1, a \in Nat, x \in Nat, k \in Nat
  <2> QED
    BY <1>1, <1>3, <2>1, <2>2 DEF class_max_size
<1>10. ASSUME c > 0
       PROVE  size > class_max_size(c - 1)
  <2>1. PICK a \in Nat : a = shl[c - 1]
    BY <1>0, <1>10, PowersType DEF Classes
  <2>2. k * a <= k * x
    BY ONLY <1>7, <1>10, <2>1, a \in Nat, x \in Nat, k \in Nat
  <2> QED
    BY <1>1, <1>3, <2>1, <2>2 DEF class_max_size
<1> QED
  BY <1>8, <1>9, <1>10

(* A buffer goes back to the class it came from: the assertion of          *)
(* free_buf.                                                               *)
LEMMA ClassOfClassSize ==
    ASSUME NEW c \in Classes
    PROVE  get_class(class_max_size(c)) = c
<1>1. PICK s \in Nat \ {0} : s = class_max_size(c)
  BY ClassSizes
<1>2. s <= k_max_class_size /\ k_max_class_size \in Nat
  <2>1. c = k_num_classes - 1 \/ c < k_num_classes - 1
    BY AllocAssumption DEF Classes
  <2> QED
    BY <2>1, <1>1, ClassSizes
<1>3. s \in 1..k_max_class_size
  BY <1>2
<1>4. PICK e \in Classes : /\ e = get_class(s) /\ s <= class_max_size(e)
                          /\ (e > 0 => s > class_max_size(e - 1))
  BY <1>3, ClassOfSize
<1>5. ~(e < c)
  BY <1>1, <1>4, ClassSizes
<1>6. ~(c < e)
  <2> SUFFICES ASSUME c < e PROVE FALSE
    OBVIOUS
  <2>1. c \in Nat /\ e \in Nat /\ e > 0 /\ e - 1 \in Classes /\ (c = e - 1 \/ c < e - 1)
    BY ClassSizes
  <2>2. class_max_size(c) <= class_max_size(e - 1)
    BY <2>1, ClassSizes
  <2> QED
    BY <1>1, <1>4, <2>1, <2>2, ClassSizes
<1>7. c \in Nat /\ e \in Nat
  BY ClassSizes
<1> QED
  BY <1>1, <1>4, <1>5, <1>6, <1>7
-----------------------------------------------------------------------------
(***************************************************************************)
(* Buffers that tile the memory of the classes.                            *)
(***************************************************************************)
FreeLists == [Classes -> Seq(Nat)]

(* Two buffers have no byte in common. *)
Apart(a, m, b, n) == a + m <= b \/ b + n <= a

(* The places of a free list. *)
Places(fl, c) == 1..Len(fl[c])

FreeApart(fl) ==
    \A c, d \in Classes : \A i \in Places(fl, c), j \in Places(fl, d) :
        c # d \/ i # j => Apart(fl[c][i], class_max_size(c), fl[d][j], class_max_size(d))

FreeFromUsed(fl, u) ==
    \A c \in Classes : \A i \in Places(fl, c) : \A b \in u :
        Apart(fl[c][i], class_max_size(c), b.buf, b.class_size)

UsedApart(u) ==
    \A a, b \in u : a # b => Apart(a.buf, a.class_size, b.buf, b.class_size)

FreeWithin(fl, B) ==
    \A c \in Classes : \A i \in Places(fl, c) : \A x \in Nat :
        Holds(fl[c][i], class_max_size(c), x) => x \in B

UsedWithin(u, B) ==
    \A b \in u : \A x \in Nat : Holds(b.buf, b.class_size, x) => x \in B

InFree(fl, x) ==
    \E c \in Classes : \E i \in Places(fl, c) : Holds(fl[c][i], class_max_size(c), x)

InUsed(u, x) == \E b \in u : Holds(b.buf, b.class_size, x)

Tiles(fl, u, B) ==
    /\ B \subseteq Nat
    /\ FreeApart(fl)
    /\ FreeFromUsed(fl, u)
    /\ UsedApart(u)
    /\ FreeWithin(fl, B)
    /\ UsedWithin(u, B)
    /\ \A x \in B : InFree(fl, x) \/ InUsed(u, x)

(* Buffers in use have addresses and the size of a class. *)
Buffers ==
    {b \in [buf : Nat, class_size : Nat, size : Nat] :
        \E c \in Classes : b.class_size = class_max_size(c)}

(* A free list without its newest buffer. *)
LEMMA FrontProperties ==
    ASSUME NEW p \in Seq(Nat), p # <<>>
    PROVE  /\ Len(p) \in Nat \ {0}
           /\ Front(p) \in Seq(Nat)
           /\ Len(Front(p)) = Len(p) - 1
           /\ \A i \in 1..(Len(p) - 1) : Front(p)[i] = p[i]
           /\ Last(p) = p[Len(p)] /\ Last(p) \in Nat
<1>1. PICK n \in Nat : n = Len(p) - 1
  OBVIOUS
<1>2. \A i \in 1..n : p[i] \in Nat
  BY <1>1
<1>3. /\ SubSeq(p, 1, n) \in Seq(Nat)
      /\ Len(SubSeq(p, 1, n)) = IF 1 <= n THEN n - 1 + 1 ELSE 0
      /\ \A i \in 1..(n - 1 + 1) : SubSeq(p, 1, n)[i] = p[1 + i - 1]
  BY ONLY <1>2, n \in Nat, SubSeqProperties
<1>4. /\ Len(SubSeq(p, 1, n)) = n
      /\ \A i \in 1..n : SubSeq(p, 1, n)[i] = p[i]
  BY ONLY <1>3, n \in Nat
<1> QED
  BY <1>1, <1>3, <1>4 DEF Front, Last

(* The free lists after a split. *)
LEMMA SplitLists ==
    ASSUME NEW fl \in FreeLists, NEW c \in Classes, c > 0, fl[c] # <<>>
    PROVE  /\ split(fl, c) \in FreeLists
           /\ \A e \in Classes \ {c, c - 1} : split(fl, c)[e] = fl[e]
           /\ Len(fl[c]) \in Nat \ {0}
           /\ Len(split(fl, c)[c]) = Len(fl[c]) - 1
           /\ \A i \in 1..(Len(fl[c]) - 1) : split(fl, c)[c][i] = fl[c][i]
           /\ Len(fl[c - 1]) \in Nat
           /\ Len(split(fl, c)[c - 1]) = Len(fl[c - 1]) + 2
           /\ \A i \in 1..Len(fl[c - 1]) : split(fl, c)[c - 1][i] = fl[c - 1][i]
           /\ split(fl, c)[c - 1][Len(fl[c - 1]) + 1] = fl[c][Len(fl[c])]
           /\ split(fl, c)[c - 1][Len(fl[c - 1]) + 2]
                 = fl[c][Len(fl[c])] + class_max_size(c - 1)
<1>0. c \in Nat /\ c - 1 \in Classes /\ c - 1 # c /\ class_max_size(c - 1) \in Nat
  BY ClassSizes
<1>1. PICK p \in Seq(Nat), q \in Seq(Nat), h \in Nat :
         p = fl[c] /\ q = fl[c - 1] /\ h = class_max_size(c - 1)
  BY <1>0 DEF FreeLists
<1>2. Len(p) \in Nat \ {0} /\ Len(q) \in Nat
  BY <1>1
<1>3. PICK a \in Nat : a = p[Len(p)]
  BY <1>1, <1>2
<1>4. /\ SubSeq(p, 1, Len(p) - 1) \in Seq(Nat)
      /\ Len(SubSeq(p, 1, Len(p) - 1)) = Len(p) - 1
      /\ \A i \in 1..(Len(p) - 1) : SubSeq(p, 1, Len(p) - 1)[i] = p[i]
  BY <1>1, FrontProperties DEF Front
<1>5. <<a, a + h>> \in Seq(Nat) /\ Len(<<a, a + h>>) = 2
      /\ <<a, a + h>>[1] = a /\ <<a, a + h>>[2] = a + h
  OBVIOUS
<1>6. PICK w \in Seq(Nat) : w = <<a, a + h>>
  BY <1>5
<1>7. /\ q \o w \in Seq(Nat) /\ Len(q \o w) = Len(q) + Len(w)
      /\ \A i \in 1..(Len(q) + Len(w)) :
            (q \o w)[i] = IF i <= Len(q) THEN q[i] ELSE w[i - Len(q)]
  BY ONLY q \in Seq(Nat), w \in Seq(Nat), ConcatProperties
<1>8. /\ Len(q \o w) = Len(q) + 2
      /\ \A i \in 1..Len(q) : (q \o w)[i] = q[i]
      /\ (q \o w)[Len(q) + 1] = a /\ (q \o w)[Len(q) + 2] = a + h
  <2>1. Len(w) = 2 /\ w[1] = a /\ w[2] = a + h
    BY <1>5, <1>6
  <2>2. (Len(q) + 1) - Len(q) = 1 /\ (Len(q) + 2) - Len(q) = 2
    BY <1>2
  <2> QED
    BY ONLY <1>2, <1>7, <2>1, <2>2
<1>9. split(fl, c) = [fl EXCEPT ![c] = SubSeq(p, 1, Len(p) - 1), ![c - 1] = q \o w]
  BY <1>0, <1>1, <1>3, <1>6 DEF split, Front, Last, FreeLists
<1>10. /\ split(fl, c) \in FreeLists
       /\ split(fl, c)[c] = SubSeq(p, 1, Len(p) - 1)
       /\ split(fl, c)[c - 1] = q \o w
       /\ \A e \in Classes \ {c, c - 1} : split(fl, c)[e] = fl[e]
  BY <1>0, <1>4, <1>7, <1>9 DEF FreeLists
<1> QED
  BY ONLY <1>1, <1>2, <1>3, <1>4, <1>8, <1>10

(* What a split does to the places: each place of the new lists is a place *)
(* of the old ones, or one of the halves of the buffer that was split.     *)
LEMMA SplitPlaces ==
    ASSUME NEW fl \in FreeLists, NEW c \in Classes, c > 0, fl[c] # <<>>,
           NEW l, l = Len(fl[c]), NEW n, n = Len(fl[c - 1]),
           NEW g, g = split(fl, c),
           NEW e \in Classes, NEW i \in Places(g, e)
    PROVE  \/ i \in Places(fl, e) /\ g[e][i] = fl[e][i] /\ ~(e = c /\ i = l)
           \/ e = c - 1 /\ i = n + 1 /\ g[e][i] = fl[c][l]
           \/ e = c - 1 /\ i = n + 2 /\ g[e][i] = fl[c][l] + class_max_size(c - 1)
<1>0. c \in Nat /\ c - 1 \in Classes /\ c - 1 # c
  BY ClassSizes
<1>1. l \in Nat \ {0} /\ n \in Nat /\ i \in 1..Len(g[e])
  BY SplitLists DEF Places
<1>2. CASE e = c
  <2>1. i \in 1..(l - 1) /\ g[c][i] = fl[c][i]
    BY <1>1, <1>2, SplitLists
  <2> QED
    BY <1>1, <1>2, <2>1 DEF Places
<1>3. CASE e = c - 1
  <2>1. i \in 1..(n + 2)
    BY <1>1, <1>3, SplitLists
  <2>2. CASE i \in 1..n
    BY <1>0, <1>3, <2>2, SplitLists DEF Places
  <2>3. CASE i = n + 1
    BY <1>3, <2>3, SplitLists
  <2>4. CASE i = n + 2
    BY <1>3, <2>4, SplitLists
  <2> QED
    BY <1>1, <2>1, <2>2, <2>3, <2>4
<1>4. CASE e \notin {c, c - 1}
  BY <1>4, SplitLists DEF Places
<1> QED
  BY <1>2, <1>3, <1>4

(* And the other way: the places of the old lists that stay.               *)
LEMMA SplitKeepsPlaces ==
    ASSUME NEW fl \in FreeLists, NEW c \in Classes, c > 0, fl[c] # <<>>,
           NEW l, l = Len(fl[c]), NEW n, n = Len(fl[c - 1]),
           NEW g, g = split(fl, c)
    PROVE  /\ \A e \in Classes : \A i \in Places(fl, e) :
                 ~(e = c /\ i = l) => i \in Places(g, e) /\ g[e][i] = fl[e][i]
           /\ n + 1 \in Places(g, c - 1) /\ g[c - 1][n + 1] = fl[c][l]
           /\ n + 2 \in Places(g, c - 1) /\ g[c - 1][n + 2] = fl[c][l] + class_max_size(c - 1)
<1>0. c \in Nat /\ c - 1 \in Classes /\ c - 1 # c
  BY ClassSizes
<1>1. l \in Nat \ {0} /\ n \in Nat
  BY SplitLists
<1>2. ASSUME NEW e \in Classes, NEW i \in Places(fl, e), ~(e = c /\ i = l)
      PROVE  i \in Places(g, e) /\ g[e][i] = fl[e][i]
  <2>1. CASE e = c
    <3>1. i \in 1..(l - 1)
      BY <1>1, <1>2, <2>1 DEF Places
    <3> QED
      BY <2>1, <3>1, SplitLists DEF Places
  <2>2. CASE e = c - 1
    <3>1. i \in 1..n
      BY <2>2 DEF Places
    <3>2. i \in 1..(n + 2)
      BY <1>1, <3>1
    <3> QED
      BY <2>2, <3>1, <3>2, SplitLists DEF Places
  <2>3. CASE e \notin {c, c - 1}
    BY <2>3, SplitLists DEF Places
  <2> QED
    BY <2>1, <2>2, <2>3
<1>3. Len(g[c - 1]) = n + 2
  BY SplitLists
<1>4. n + 1 \in 1..(n + 2) /\ n + 2 \in 1..(n + 2)
  BY <1>1
<1> QED
  BY <1>2, <1>3, <1>4, SplitLists DEF Places

(* The addresses in the free lists are numbers. *)
LEMMA PlaceType ==
    ASSUME NEW fl \in FreeLists, NEW e \in Classes, NEW i \in Places(fl, e)
    PROVE  i \in Nat /\ fl[e][i] \in Nat
<1>1. PICK q \in Seq(Nat) : q = fl[e]
  BY DEF FreeLists
<1>2. i \in 1..Len(q)
  BY <1>1 DEF Places
<1>3. i \in Nat /\ q[i] \in Nat
  BY ONLY <1>2, q \in Seq(Nat)
<1> QED
  BY <1>1, <1>3

(* A split keeps the tiling. *)
LEMMA SplitTiles ==
    ASSUME NEW fl \in FreeLists, NEW c \in Classes, c > 0, fl[c] # <<>>,
           NEW u \in SUBSET Buffers, NEW B, Tiles(fl, u, B)
    PROVE  Tiles(split(fl, c), u, B)
<1>0. /\ c \in Nat /\ c - 1 \in Classes /\ c - 1 # c
      /\ \A e \in Classes : class_max_size(e) \in Nat \ {0}
  BY ClassSizes
<1>1. PICK h \in Nat \ {0} : h = class_max_size(c - 1) /\ class_max_size(c) = 2 * h
  BY <1>0, ClassSizes
<1>2. PICK l \in Nat \ {0}, n \in Nat : l = Len(fl[c]) /\ n = Len(fl[c - 1])
  BY SplitLists
<1>3. PICK g \in FreeLists : g = split(fl, c)
  BY SplitLists
<1>4. l \in Places(fl, c) /\ fl[c][l] \in Nat
  BY <1>2 DEF Places, FreeLists
<1>5. PICK a \in Nat : a = fl[c][l]
  BY <1>4
<1>6. \A e \in Classes : \A i \in Places(g, e) :
         \/ i \in Places(fl, e) /\ g[e][i] = fl[e][i] /\ ~(e = c /\ i = l)
         \/ e = c - 1 /\ i = n + 1 /\ g[e][i] = a
         \/ e = c - 1 /\ i = n + 2 /\ g[e][i] = a + h
  <2> SUFFICES ASSUME NEW e \in Classes, NEW i \in Places(g, e)
               PROVE  \/ i \in Places(fl, e) /\ g[e][i] = fl[e][i] /\ ~(e = c /\ i = l)
                      \/ e = c - 1 /\ i = n + 1 /\ g[e][i] = a
                      \/ e = c - 1 /\ i = n + 2 /\ g[e][i] = a + h
    OBVIOUS
  <2>1. \/ i \in Places(fl, e) /\ g[e][i] = fl[e][i] /\ ~(e = c /\ i = l)
        \/ e = c - 1 /\ i = n + 1 /\ g[e][i] = fl[c][l]
        \/ e = c - 1 /\ i = n + 2 /\ g[e][i] = fl[c][l] + class_max_size(c - 1)
    BY ONLY fl \in FreeLists, c \in Classes, c > 0, fl[c] # <<>>, e \in Classes, i \in Places(g, e),
            <1>2, <1>3, SplitPlaces, SMTT(30)
  <2> QED
    BY ONLY <2>1, <1>1, <1>5
<1>7. /\ \A e \in Classes : \A i \in Places(fl, e) :
            ~(e = c /\ i = l) => i \in Places(g, e) /\ g[e][i] = fl[e][i]
      /\ n + 1 \in Places(g, c - 1) /\ g[c - 1][n + 1] = a
      /\ n + 2 \in Places(g, c - 1) /\ g[c - 1][n + 2] = a + h
  <2>1. /\ \A e \in Classes : \A i \in Places(fl, e) :
              ~(e = c /\ i = l) => i \in Places(g, e) /\ g[e][i] = fl[e][i]
        /\ n + 1 \in Places(g, c - 1) /\ g[c - 1][n + 1] = fl[c][l]
        /\ n + 2 \in Places(g, c - 1) /\ g[c - 1][n + 2] = fl[c][l] + class_max_size(c - 1)
    BY ONLY fl \in FreeLists, c \in Classes, c > 0, fl[c] # <<>>, <1>2, <1>3, SplitKeepsPlaces, SMTT(30)
  <2> QED
    BY ONLY <2>1, <1>1, <1>5
<1>8. /\ \A e \in Classes : \A i \in Places(g, e) : g[e][i] \in Nat
      /\ \A e \in Classes : \A i \in Places(fl, e) : fl[e][i] \in Nat
  BY PlaceType
<1>9. FreeApart(g)
  <2> SUFFICES ASSUME NEW d \in Classes, NEW e \in Classes,
                      NEW i \in Places(g, d), NEW j \in Places(g, e), d # e \/ i # j
               PROVE  Apart(g[d][i], class_max_size(d), g[e][j], class_max_size(e))
    BY DEF FreeApart
  <2>0. \A f \in Classes : \A k \in Places(fl, f) : ~(f = c /\ k = l) =>
           /\ Apart(fl[f][k], class_max_size(f), a, 2 * h)
           /\ Apart(a, 2 * h, fl[f][k], class_max_size(f))
    BY <1>1, <1>4, <1>5 DEF Tiles, FreeApart
  <2>1. CASE /\ i \in Places(fl, d) /\ g[d][i] = fl[d][i] /\ ~(d = c /\ i = l)
             /\ j \in Places(fl, e) /\ g[e][j] = fl[e][j] /\ ~(e = c /\ j = l)
    BY <2>1 DEF Tiles, FreeApart
  <2>2. CASE /\ i \in Places(fl, d) /\ g[d][i] = fl[d][i] /\ ~(d = c /\ i = l)
             /\ e = c - 1 /\ (g[e][j] = a \/ g[e][j] = a + h)
    <3>1. Apart(g[d][i], class_max_size(d), a, 2 * h)
      BY <2>0, <2>2
    <3>2. g[d][i] \in Nat /\ class_max_size(d) \in Nat /\ class_max_size(e) = h
      BY <1>0, <1>1, <1>8, <2>2
    <3> QED
      BY ONLY <3>1, <3>2, <2>2, a \in Nat, h \in Nat DEF Apart
  <2>3. CASE /\ j \in Places(fl, e) /\ g[e][j] = fl[e][j] /\ ~(e = c /\ j = l)
             /\ d = c - 1 /\ (g[d][i] = a \/ g[d][i] = a + h)
    <3>1. Apart(a, 2 * h, g[e][j], class_max_size(e))
      BY <2>0, <2>3
    <3>2. g[e][j] \in Nat /\ class_max_size(e) \in Nat /\ class_max_size(d) = h
      BY <1>0, <1>1, <1>8, <2>3
    <3> QED
      BY ONLY <3>1, <3>2, <2>3, a \in Nat, h \in Nat DEF Apart
  <2>4. CASE d = c - 1 /\ e = c - 1 /\ i = n + 1 /\ j = n + 2
    BY <2>4, <1>1, <1>7 DEF Apart
  <2>5. CASE d = c - 1 /\ e = c - 1 /\ i = n + 2 /\ j = n + 1
    BY <2>5, <1>1, <1>7 DEF Apart
  <2>6. \/ i \in Places(fl, d) /\ g[d][i] = fl[d][i] /\ ~(d = c /\ i = l)
        \/ d = c - 1 /\ i = n + 1 /\ g[d][i] = a
        \/ d = c - 1 /\ i = n + 2 /\ g[d][i] = a + h
    BY <1>6
  <2>7. \/ j \in Places(fl, e) /\ g[e][j] = fl[e][j] /\ ~(e = c /\ j = l)
        \/ e = c - 1 /\ j = n + 1 /\ g[e][j] = a
        \/ e = c - 1 /\ j = n + 2 /\ g[e][j] = a + h
    BY <1>6
  <2> QED
    BY <2>1, <2>2, <2>3, <2>4, <2>5, <2>6, <2>7
<1>10. FreeFromUsed(g, u)
  <2> SUFFICES ASSUME NEW e \in Classes, NEW i \in Places(g, e), NEW b \in u
               PROVE  Apart(g[e][i], class_max_size(e), b.buf, b.class_size)
    BY DEF FreeFromUsed
  <2>1. Apart(a, 2 * h, b.buf, b.class_size)
    BY <1>1, <1>4, <1>5 DEF Tiles, FreeFromUsed
  <2>2. b.buf \in Nat /\ b.class_size \in Nat
    BY DEF Buffers
  <2>3. CASE i \in Places(fl, e) /\ g[e][i] = fl[e][i]
    BY <2>3 DEF Tiles, FreeFromUsed
  <2>4. CASE e = c - 1 /\ (g[e][i] = a \/ g[e][i] = a + h)
    <3>1. class_max_size(e) = h
      BY <1>1, <2>4
    <3> QED
      BY ONLY <2>1, <2>2, <2>4, <3>1, a \in Nat, h \in Nat DEF Apart
  <2> QED
    BY <2>3, <2>4, <1>6
<1>11. FreeWithin(g, B)
  <2> SUFFICES ASSUME NEW e \in Classes, NEW i \in Places(g, e), NEW x \in Nat,
                      Holds(g[e][i], class_max_size(e), x)
               PROVE  x \in B
    BY DEF FreeWithin
  <2>1. Holds(a, 2 * h, x) => x \in B
    BY <1>1, <1>4, <1>5 DEF Tiles, FreeWithin
  <2>2. CASE i \in Places(fl, e) /\ g[e][i] = fl[e][i]
    BY <2>2 DEF Tiles, FreeWithin
  <2>3. CASE e = c - 1 /\ (g[e][i] = a \/ g[e][i] = a + h)
    BY <2>1, <2>3, <1>1 DEF Holds
  <2> QED
    BY <2>2, <2>3, <1>6
<1>12. ASSUME NEW x \in B, InFree(fl, x)
       PROVE  InFree(g, x)
  <2>1. PICK e \in Classes : \E i \in Places(fl, e) : Holds(fl[e][i], class_max_size(e), x)
    BY <1>12 DEF InFree
  <2>2. PICK i \in Places(fl, e) : Holds(fl[e][i], class_max_size(e), x)
    BY <2>1
  <2>3. CASE e = c /\ i = l
    <3>1. Holds(a, h, x) \/ Holds(a + h, h, x)
      <4>1. x \in Nat
        BY DEF Tiles
      <4>2. Holds(a, 2 * h, x)
        BY <2>2, <2>3, <1>1, <1>5
      <4> QED
        BY ONLY <4>1, <4>2, a \in Nat, h \in Nat DEF Holds
    <3> QED
      BY <3>1, <1>0, <1>1, <1>7 DEF InFree
  <2>4. CASE ~(e = c /\ i = l)
    <3>1. i \in Places(g, e) /\ g[e][i] = fl[e][i]
      BY <2>4, <1>7
    <3> QED
      BY <3>1, <2>2 DEF InFree
  <2> QED
    BY <2>3, <2>4
<1> QED
  BY <1>3, <1>9, <1>10, <1>11, <1>12 DEF Tiles

(* The free lists on the way from class d down to class c, after each turn *)
(* of alloc's loop.                                                        *)
Turns(f, fl, d, c) ==
    /\ f[0] = fl
    /\ \A i \in 1..(d - c) : f[i] = split(f[i - 1], d + 1 - i)
    /\ SplitDown(fl, d, c) = f[d - c]

(* The loop has such turns: what the recursion in SplitDown says. *)
LEMMA SplitDownDefined ==
    ASSUME NEW fl, NEW d \in Nat, NEW c \in Nat, c < d
    PROVE  \E f : Turns(f, fl, d, c)
<1> DEFINE P == {m \in Nat :
                   \E f : f = [i \in 0..m |-> IF i = 0 THEN fl ELSE split(f[i - 1], d + 1 - i)]}
<1>1. 0 \in P
  <2> DEFINE f == [i \in 0..0 |-> fl]
  <2>1. f = [i \in 0..0 |-> IF i = 0 THEN fl ELSE split(f[i - 1], d + 1 - i)]
    OBVIOUS
  <2> QED
    BY <2>1
<1>2. ASSUME NEW m \in Nat, m \in P
      PROVE  m + 1 \in P
  <2>1. PICK f : f = [i \in 0..m |-> IF i = 0 THEN fl ELSE split(f[i - 1], d + 1 - i)]
    BY <1>2
  <2> DEFINE g == [i \in 0..(m + 1) |-> IF i = m + 1 THEN split(f[m], d + 1 - i) ELSE f[i]]
  <2>2. ASSUME NEW i \in 0..(m + 1)
        PROVE  g[i] = IF i = 0 THEN fl ELSE split(g[i - 1], d + 1 - i)
    <3>1. CASE i = 0
      BY <2>1, <3>1
    <3>2. CASE i = m + 1
      BY <3>2
    <3>3. CASE i \in 1..m
      <4>1. g[i] = f[i] /\ g[i - 1] = f[i - 1] /\ i # 0 /\ i \in 0..m
        BY <3>3
      <4>2. f[i] = split(f[i - 1], d + 1 - i)
        BY <2>1, <4>1
      <4> QED
        BY <4>1, <4>2
    <3> QED
      BY <3>1, <3>2, <3>3
  <2>3. g = [i \in 0..(m + 1) |-> IF i = 0 THEN fl ELSE split(g[i - 1], d + 1 - i)]
    <3>1. g = [i \in 0..(m + 1) |-> g[i]]
      OBVIOUS
    <3> HIDE DEF g
    <3> QED
      BY <2>2, <3>1
  <2> HIDE DEF g
  <2>4. \E f2 : f2 = [i \in 0..(m + 1) |-> IF i = 0 THEN fl ELSE split(f2[i - 1], d + 1 - i)]
    BY ONLY <2>3, Zenon
  <2>5. m + 1 \in Nat
    OBVIOUS
  <2> QED
    BY <2>4, <2>5
<1>3. \A m \in Nat : m \in P
  <2> HIDE DEF P
  <2> QED
    BY <1>1, <1>2, SetInduction
<1>4. \E f : f = [i \in 0..(d - c) |-> IF i = 0 THEN fl ELSE split(f[i - 1], d + 1 - i)]
  <2>1. d - c \in Nat
    OBVIOUS
  <2>2. d - c \in P
    <3> HIDE DEF P
    <3> QED
      BY <1>3, <2>1
  <2> QED
    BY ONLY <2>2, Zenon DEF P
<1>5. \E f : /\ f = [i \in 0..(d - c) |-> IF i = 0 THEN fl ELSE split(f[i - 1], d + 1 - i)]
             /\ SplitDown(fl, d, c) = f[d - c]
  BY ONLY <1>4 DEF SplitDown
<1>6. PICK f : /\ f = [i \in 0..(d - c) |-> IF i = 0 THEN fl ELSE split(f[i - 1], d + 1 - i)]
               /\ SplitDown(fl, d, c) = f[d - c]
  BY <1>5
<1>7. f[0] = fl /\ \A i \in 1..(d - c) : f[i] = split(f[i - 1], d + 1 - i)
  BY <1>6
<1> QED
  BY <1>6, <1>7 DEF Turns

(* Splitting a free buffer of class d down to class c makes one of class   *)
(* c, leaves the classes below alone and keeps the tiling.                 *)
LEMMA SplitDownTiles ==
    ASSUME NEW fl \in FreeLists, NEW c \in Classes, NEW d \in Classes, c < d,
           fl[d] # <<>>, NEW u \in SUBSET Buffers, NEW B, Tiles(fl, u, B)
    PROVE  /\ SplitDown(fl, d, c) \in FreeLists
           /\ SplitDown(fl, d, c)[c] # <<>>
           /\ \A e \in Classes : e < c => SplitDown(fl, d, c)[e] = fl[e]
           /\ Tiles(SplitDown(fl, d, c), u, B)
<1>0. c \in Nat /\ d \in Nat /\ \A e \in Nat : e < d => e \in Classes
  BY ClassSizes DEF Classes
<1>t. PICK f : Turns(f, fl, d, c)
  <2>1. c \in Nat /\ d \in Nat /\ c < d
    BY <1>0
  <2> QED
    BY ONLY <2>1, SplitDownDefined
<1>1. /\ f[0] = fl
      /\ \A i \in 1..(d - c) : f[i] = split(f[i - 1], d + 1 - i)
      /\ SplitDown(fl, d, c) = f[d - c]
  BY ONLY <1>t DEF Turns
<1> DEFINE P == {i \in Nat : i <= d - c =>
                    /\ f[i] \in FreeLists
                    /\ f[i][d - i] # <<>>
                    /\ \A e \in Classes : e < d - i => f[i][e] = fl[e]
                    /\ Tiles(f[i], u, B)}
<1>2. 0 \in P
  BY <1>0, <1>1
<1>3. ASSUME NEW i \in Nat, i \in P
      PROVE  i + 1 \in P
  <2> SUFFICES ASSUME i + 1 <= d - c
               PROVE  /\ f[i + 1] \in FreeLists
                      /\ f[i + 1][d - (i + 1)] # <<>>
                      /\ \A e \in Classes : e < d - (i + 1) => f[i + 1][e] = fl[e]
                      /\ Tiles(f[i + 1], u, B)
    OBVIOUS
  <2>1. PICK b \in Nat \ {0} : b = d - i
    BY <1>0
  <2>2. b \in Classes /\ b > 0 /\ b - 1 \in Classes /\ d - (i + 1) = b - 1 /\ d + 1 - (i + 1) = b
    BY <1>0, <2>1
  <2>3. PICK h : h = f[i] /\ h \in FreeLists /\ h[b] # <<>> /\ Tiles(h, u, B)
                 /\ \A e \in Classes : e < b => h[e] = fl[e]
    BY <1>0, <1>3, <2>1
  <2>4. f[i + 1] = split(h, b)
    <3>1. i + 1 \in 1..(d - c) /\ (i + 1) - 1 = i
      BY <1>0
    <3>2. f[i + 1] = split(f[(i + 1) - 1], d + 1 - (i + 1))
      BY <1>1, <3>1
    <3> QED
      BY <2>2, <2>3, <3>1, <3>2
  <2>5. Tiles(split(h, b), u, B)
    BY <2>2, <2>3, SplitTiles
  <2>6. /\ split(h, b) \in FreeLists
        /\ \A e \in Classes \ {b, b - 1} : split(h, b)[e] = h[e]
        /\ Len(h[b - 1]) \in Nat
        /\ Len(split(h, b)[b - 1]) = Len(h[b - 1]) + 2
    BY ONLY <2>2, <2>3, SplitLists
  <2>7. split(h, b)[b - 1] # <<>>
    BY <2>6
  <2>8. \A e \in Classes : e < b - 1 => split(h, b)[e] = fl[e]
    <3> SUFFICES ASSUME NEW e \in Classes, e < b - 1
                 PROVE  split(h, b)[e] = fl[e]
      OBVIOUS
    <3>1. e \in Nat /\ e # b /\ e # b - 1 /\ e < b
      BY ClassSizes
    <3> QED
      BY <2>3, <2>6, <3>1
  <2> QED
    BY <2>2, <2>4, <2>5, <2>6, <2>7, <2>8
<1>4. \A i \in Nat : i \in P
  <2> HIDE DEF P
  <2> QED
    BY <1>2, <1>3, SetInduction
<1>5. d - c \in Nat /\ d - (d - c) = c
  BY <1>0
<1>6. d - c \in P
  <2> HIDE DEF P
  <2> QED
    BY <1>4, <1>5
<1>7. /\ f[d - c] \in FreeLists
      /\ f[d - c][d - (d - c)] # <<>>
      /\ \A e \in Classes : e < d - (d - c) => f[d - c][e] = fl[e]
      /\ Tiles(f[d - c], u, B)
  BY <1>5, <1>6
<1> QED
  BY <1>1, <1>5, <1>7

(* Giving the newest buffer of a class to the caller keeps the tiling. *)
LEMMA TakeTiles ==
    ASSUME NEW fl \in FreeLists, NEW c \in Classes, fl[c] # <<>>,
           NEW u \in SUBSET Buffers, NEW B, Tiles(fl, u, B),
           NEW r \in Buffers, r.buf = Last(fl[c]), r.class_size = class_max_size(c),
           NEW g, g = [fl EXCEPT ![c] = Front(@)]
    PROVE  g \in FreeLists /\ Tiles(g, u \cup {r}, B)
<1>1. PICK q \in Seq(Nat) : q = fl[c] /\ q # <<>>
  BY DEF FreeLists
<1>2. /\ Len(q) \in Nat \ {0} /\ Front(q) \in Seq(Nat) /\ Len(Front(q)) = Len(q) - 1
      /\ \A i \in 1..(Len(q) - 1) : Front(q)[i] = q[i]
      /\ Last(q) = q[Len(q)]
  BY <1>1, FrontProperties
<1>3. PICK l \in Nat \ {0} : l = Len(q)
  BY <1>2
<1>4. /\ g \in FreeLists /\ g[c] = Front(q)
      /\ \A e \in Classes : e # c => g[e] = fl[e]
  BY <1>1, <1>2 DEF FreeLists
<1>5. ASSUME NEW e \in Classes, NEW i \in Places(g, e)
      PROVE  i \in Places(fl, e) /\ g[e][i] = fl[e][i] /\ ~(e = c /\ i = l)
  <2>1. CASE e = c
    <3>1. i \in 1..(l - 1)
      BY <1>2, <1>3, <1>4, <2>1 DEF Places
    <3>2. i \in 1..l /\ i # l
      BY <3>1
    <3> QED
      BY <1>1, <1>2, <1>3, <1>4, <2>1, <3>1, <3>2 DEF Places
  <2>2. CASE e # c
    BY <1>4, <2>2 DEF Places
  <2> QED
    BY <2>1, <2>2
<1>6. ASSUME NEW e \in Classes, NEW i \in Places(fl, e), ~(e = c /\ i = l)
      PROVE  i \in Places(g, e) /\ g[e][i] = fl[e][i]
  <2>1. CASE e = c
    <3>1. i \in 1..(l - 1)
      BY <1>1, <1>3, <1>6, <2>1 DEF Places
    <3>2. 1..Len(g[c]) = 1..(l - 1) /\ g[c][i] = q[i]
      BY ONLY <1>2, <1>3, <1>4, <3>1
    <3> QED
      BY ONLY <1>1, <2>1, <3>1, <3>2 DEF Places
  <2>2. CASE e # c
    BY <1>4, <2>2 DEF Places
  <2> QED
    BY <2>1, <2>2
<1>7. l \in Places(fl, c) /\ fl[c][l] = r.buf
  BY <1>1, <1>2, <1>3 DEF Places
<1>8. B \subseteq Nat /\ FreeApart(fl) /\ FreeFromUsed(fl, u) /\ UsedApart(u) /\ FreeWithin(fl, B)
      /\ UsedWithin(u, B) /\ \A x \in B : InFree(fl, x) \/ InUsed(u, x)
  BY DEF Tiles
<1>9. FreeApart(g)
  BY <1>5, <1>8 DEF FreeApart
<1>10. FreeFromUsed(g, u \cup {r})
  <2> SUFFICES ASSUME NEW e \in Classes, NEW i \in Places(g, e), NEW b \in u \cup {r}
               PROVE  Apart(g[e][i], class_max_size(e), b.buf, b.class_size)
    BY DEF FreeFromUsed
  <2>1. i \in Places(fl, e) /\ g[e][i] = fl[e][i] /\ ~(e = c /\ i = l)
    BY <1>5
  <2>2. CASE b \in u
    BY <1>8, <2>1, <2>2 DEF FreeFromUsed
  <2>3. CASE b = r
    <3>1. Apart(fl[e][i], class_max_size(e), fl[c][l], class_max_size(c))
      BY <1>7, <1>8, <2>1 DEF FreeApart
    <3> QED
      BY <1>7, <2>1, <2>3, <3>1
  <2> QED
    BY <2>2, <2>3
<1>11. UsedApart(u \cup {r})
  <2>1. ASSUME NEW b \in u
        PROVE  /\ Apart(b.buf, b.class_size, r.buf, r.class_size)
               /\ Apart(r.buf, r.class_size, b.buf, b.class_size)
    <3>1. Apart(fl[c][l], class_max_size(c), b.buf, b.class_size)
      BY <1>7, <1>8 DEF FreeFromUsed
    <3> QED
      BY <1>7, <3>1 DEF Apart
  <2> QED
    BY <2>1, <1>8 DEF UsedApart
<1>12. FreeWithin(g, B)
  BY <1>5, <1>8 DEF FreeWithin
<1>13. UsedWithin(u \cup {r}, B)
  <2>1. \A x \in Nat : Holds(fl[c][l], class_max_size(c), x) => x \in B
    BY <1>7, <1>8 DEF FreeWithin
  <2> QED
    BY <1>7, <1>8, <2>1 DEF UsedWithin
<1>14. ASSUME NEW x \in B
       PROVE  InFree(g, x) \/ InUsed(u \cup {r}, x)
  <2>1. CASE InUsed(u, x)
    BY <2>1 DEF InUsed
  <2>2. CASE InFree(fl, x)
    <3>1. PICK e \in Classes : \E i \in Places(fl, e) : Holds(fl[e][i], class_max_size(e), x)
      BY <2>2 DEF InFree
    <3>2. PICK i \in Places(fl, e) : Holds(fl[e][i], class_max_size(e), x)
      BY <3>1
    <3>3. CASE e = c /\ i = l
      <4>1. Holds(r.buf, r.class_size, x)
        BY <1>7, <3>2, <3>3
      <4> QED
        BY <4>1 DEF InUsed
    <3>4. CASE ~(e = c /\ i = l)
      <4>1. i \in Places(g, e) /\ g[e][i] = fl[e][i]
        BY <1>6, <3>4
      <4> QED
        BY <3>2, <4>1 DEF InFree
    <3> QED
      BY <3>3, <3>4
  <2> QED
    BY <1>8, <2>1, <2>2
<1> QED
  BY <1>4, <1>8, <1>9, <1>10, <1>11, <1>12, <1>13, <1>14 DEF Tiles

(* Giving a buffer back keeps the tiling. *)
LEMMA GiveTiles ==
    ASSUME NEW fl \in FreeLists, NEW c \in Classes,
           NEW u \in SUBSET Buffers, NEW B, Tiles(fl, u, B),
           NEW r \in u, r.class_size = class_max_size(c),
           NEW g, g = [fl EXCEPT ![c] = Append(@, r.buf)]
    PROVE  g \in FreeLists /\ Tiles(g, u \ {r}, B)
<1>0. r.buf \in Nat
  BY DEF Buffers
<1>1. PICK q \in Seq(Nat) : q = fl[c]
  BY DEF FreeLists
<1>2. PICK n \in Nat : n = Len(q) + 1
  BY <1>1
<1>3. /\ Append(q, r.buf) \in Seq(Nat) /\ Len(Append(q, r.buf)) = n
      /\ \A i \in 1..Len(q) : Append(q, r.buf)[i] = q[i]
      /\ Append(q, r.buf)[n] = r.buf
  BY <1>0, <1>2, AppendProperties
<1>4. /\ g \in FreeLists /\ g[c] = Append(q, r.buf)
      /\ \A e \in Classes : e # c => g[e] = fl[e]
  BY <1>1, <1>3 DEF FreeLists
<1>5. ASSUME NEW e \in Classes, NEW i \in Places(g, e)
      PROVE  \/ i \in Places(fl, e) /\ g[e][i] = fl[e][i]
             \/ e = c /\ i = n /\ g[e][i] = r.buf
  <2>1. CASE e = c
    <3>1. i \in 1..n
      BY <1>3, <1>4, <2>1 DEF Places
    <3>2. CASE i = n
      BY <1>3, <1>4, <2>1, <3>2
    <3>3. CASE i # n
      <4>1. i \in 1..Len(q)
        BY <1>2, <3>1, <3>3
      <4> QED
        BY <1>1, <1>3, <1>4, <2>1, <4>1 DEF Places
    <3> QED
      BY <3>2, <3>3
  <2>2. CASE e # c
    BY <1>4, <2>2 DEF Places
  <2> QED
    BY <2>1, <2>2
<1>6. ASSUME NEW e \in Classes, NEW i \in Places(fl, e)
      PROVE  i \in Places(g, e) /\ g[e][i] = fl[e][i]
  <2>1. CASE e = c
    <3>1. i \in 1..Len(q) /\ i \in 1..n
      BY <1>1, <1>2, <2>1 DEF Places
    <3> QED
      BY <1>1, <1>3, <1>4, <2>1, <3>1 DEF Places
  <2>2. CASE e # c
    BY <1>4, <2>2 DEF Places
  <2> QED
    BY <2>1, <2>2
<1>7. n \in Places(g, c) /\ g[c][n] = r.buf
  BY <1>2, <1>3, <1>4 DEF Places
<1>8. B \subseteq Nat /\ FreeApart(fl) /\ FreeFromUsed(fl, u) /\ UsedApart(u) /\ FreeWithin(fl, B)
      /\ UsedWithin(u, B) /\ \A x \in B : InFree(fl, x) \/ InUsed(u, x)
  BY DEF Tiles
<1>9. FreeApart(g)
  <2> SUFFICES ASSUME NEW d \in Classes, NEW e \in Classes,
                      NEW i \in Places(g, d), NEW j \in Places(g, e), d # e \/ i # j
               PROVE  Apart(g[d][i], class_max_size(d), g[e][j], class_max_size(e))
    BY DEF FreeApart
  <2>1. \/ i \in Places(fl, d) /\ g[d][i] = fl[d][i]
        \/ d = c /\ i = n /\ g[d][i] = r.buf
    BY <1>5
  <2>2. \/ j \in Places(fl, e) /\ g[e][j] = fl[e][j]
        \/ e = c /\ j = n /\ g[e][j] = r.buf
    BY <1>5
  <2>3. CASE i \in Places(fl, d) /\ g[d][i] = fl[d][i] /\ j \in Places(fl, e) /\ g[e][j] = fl[e][j]
    BY <1>8, <2>3 DEF FreeApart
  <2>4. CASE i \in Places(fl, d) /\ g[d][i] = fl[d][i] /\ e = c /\ g[e][j] = r.buf
    BY <1>8, <2>4 DEF FreeFromUsed
  <2>5. CASE d = c /\ g[d][i] = r.buf /\ j \in Places(fl, e) /\ g[e][j] = fl[e][j]
    <3>1. Apart(fl[e][j], class_max_size(e), r.buf, r.class_size)
      BY <1>8, <2>5 DEF FreeFromUsed
    <3> QED
      BY <2>5, <3>1 DEF Apart
  <2> QED
    BY <2>1, <2>2, <2>3, <2>4, <2>5
<1>10. FreeFromUsed(g, u \ {r})
  <2> SUFFICES ASSUME NEW e \in Classes, NEW i \in Places(g, e), NEW b \in u \ {r}
               PROVE  Apart(g[e][i], class_max_size(e), b.buf, b.class_size)
    BY DEF FreeFromUsed
  <2>1. CASE i \in Places(fl, e) /\ g[e][i] = fl[e][i]
    BY <1>8, <2>1 DEF FreeFromUsed
  <2>2. CASE e = c /\ g[e][i] = r.buf
    BY <1>8, <2>2 DEF UsedApart
  <2> QED
    BY <1>5, <2>1, <2>2
<1>11. UsedApart(u \ {r})
  BY <1>8 DEF UsedApart
<1>12. FreeWithin(g, B)
  <2> SUFFICES ASSUME NEW e \in Classes, NEW i \in Places(g, e), NEW x \in Nat,
                      Holds(g[e][i], class_max_size(e), x)
               PROVE  x \in B
    BY DEF FreeWithin
  <2>1. CASE i \in Places(fl, e) /\ g[e][i] = fl[e][i]
    BY <1>8, <2>1 DEF FreeWithin
  <2>2. CASE e = c /\ g[e][i] = r.buf
    BY <1>8, <2>2 DEF UsedWithin
  <2> QED
    BY <1>5, <2>1, <2>2
<1>13. UsedWithin(u \ {r}, B)
  BY <1>8 DEF UsedWithin
<1>14. ASSUME NEW x \in B
       PROVE  InFree(g, x) \/ InUsed(u \ {r}, x)
  <2>1. CASE InFree(fl, x)
    BY <1>6, <2>1 DEF InFree
  <2>2. CASE InUsed(u, x)
    <3>1. PICK b \in u : Holds(b.buf, b.class_size, x)
      BY <2>2 DEF InUsed
    <3>2. CASE b = r
      BY <1>7, <3>1, <3>2 DEF InFree
    <3>3. CASE b # r
      BY <3>1, <3>3 DEF InUsed
    <3> QED
      BY <3>2, <3>3
  <2> QED
    BY <1>8, <2>1, <2>2
<1> QED
  BY <1>4, <1>8, <1>9, <1>10, <1>11, <1>12, <1>13, <1>14 DEF Tiles

(* Free lists g have, beyond those of fl, the q buffers of class t that a  *)
(* region at buf is cut into.                                              *)
Added(fl, g, t, buf, q) ==
    /\ g \in FreeLists
    /\ \A e \in Classes : e # t => g[e] = fl[e]
    /\ Len(fl[t]) \in Nat
    /\ Len(g[t]) = Len(fl[t]) + q
    /\ \A i \in 1..Len(fl[t]) : g[t][i] = fl[t][i]
    /\ \A i \in 1..q : g[t][Len(fl[t]) + i] = buf + (i - 1) * k_max_class_size

(* The free lists once a new region has been cut into buffers of the       *)
(* largest class.                                                          *)
LEMMA AddLists ==
    ASSUME NEW fl \in FreeLists, NEW buf \in Nat, NEW q \in Nat \ {0},
           NEW t \in Classes, t = k_num_classes - 1,
           NEW g, g = AddBuffers(fl, buf, q * k_max_class_size)
    PROVE  Added(fl, g, t, buf, q)
<1>1. PICK k \in Nat \ {0} : k = k_max_class_size
  BY ClassSizes
<1>2. (q * k) \div k = q
  BY ONLY q \in Nat \ {0}, k \in Nat \ {0}
<1>3. PICK p \in Seq(Nat) : p = fl[t]
  BY DEF FreeLists
<1>4. PICK n \in Nat : n = Len(p)
  BY <1>3
<1> DEFINE new == [i \in 1..q |-> buf + (i - 1) * k]
<1>5. new \in Seq(Nat) /\ Len(new) = q /\ \A i \in 1..q : new[i] = buf + (i - 1) * k
  <2>1. \A i \in 1..q : buf + (i - 1) * k \in Nat
    BY ONLY buf \in Nat, k \in Nat \ {0}, q \in Nat \ {0}
  <2>2. new \in Seq(Nat)
    BY <2>1, IsASeq
  <2> QED
    BY <2>2
<1>6. g = [fl EXCEPT ![t] = p \o new]
  BY <1>1, <1>2, <1>3 DEF AddBuffers
<1> HIDE DEF new
<1>7. /\ p \o new \in Seq(Nat) /\ Len(p \o new) = Len(p) + Len(new)
      /\ \A i \in 1..(Len(p) + Len(new)) :
            (p \o new)[i] = IF i <= Len(p) THEN p[i] ELSE new[i - Len(p)]
  BY ONLY p \in Seq(Nat), <1>5, ConcatProperties
<1>8. g \in FreeLists /\ g[t] = p \o new /\ \A e \in Classes : e # t => g[e] = fl[e]
  BY <1>6, <1>7 DEF FreeLists
<1>9. ASSUME NEW i \in 1..n
      PROVE  (p \o new)[i] = p[i]
  <2>1. i \in 1..(Len(p) + Len(new)) /\ i <= Len(p)
    BY ONLY <1>4, <1>5, n \in Nat, q \in Nat \ {0}, i \in 1..n
  <2> QED
    BY ONLY <1>7, <2>1
<1>10. ASSUME NEW i \in 1..q
       PROVE  (p \o new)[n + i] = buf + (i - 1) * k
  <2>1. n + i \in 1..(Len(p) + Len(new)) /\ ~(n + i <= Len(p)) /\ (n + i) - Len(p) = i
    BY ONLY <1>4, <1>5, n \in Nat, q \in Nat \ {0}, i \in 1..q
  <2>2. (p \o new)[n + i] = new[i]
    BY ONLY <1>7, <2>1
  <2> QED
    BY <1>5, <2>2
<1>11. Len(p \o new) = n + q
  BY ONLY <1>4, <1>5, <1>7
<1>12. /\ Len(fl[t]) = n /\ Len(g[t]) = n + q
       /\ \A i \in 1..n : g[t][i] = fl[t][i]
       /\ \A i \in 1..q : g[t][n + i] = buf + (i - 1) * k_max_class_size
  BY ONLY <1>1, <1>3, <1>4, <1>8, <1>9, <1>10, <1>11
<1> QED
  BY ONLY <1>8, <1>12, n \in Nat DEF Added

(* The buffers of a new region behind all others extend the tiling to its  *)
(* bytes.                                                                  *)
LEMMA AddTiles ==
    ASSUME NEW fl \in FreeLists, NEW buf \in Nat, NEW q \in Nat \ {0},
           NEW u \in SUBSET Buffers, NEW B, Tiles(fl, u, B), \A x \in B : x < buf,
           NEW g, g = AddBuffers(fl, buf, q * k_max_class_size),
           NEW C, C = B \cup (buf..(buf + q * k_max_class_size - 1))
    PROVE  Tiles(g, u, C)
<1>1. PICK t \in Classes, k \in Nat \ {0} :
         t = k_num_classes - 1 /\ k = k_max_class_size /\ k = class_max_size(t)
  BY ClassSizes
<1>a. /\ g \in FreeLists
      /\ \A e \in Classes : e # t => g[e] = fl[e]
      /\ Len(fl[t]) \in Nat
      /\ Len(g[t]) = Len(fl[t]) + q
      /\ \A i \in 1..Len(fl[t]) : g[t][i] = fl[t][i]
      /\ \A i \in 1..q : g[t][Len(fl[t]) + i] = buf + (i - 1) * k_max_class_size
  <2>1. t = k_num_classes - 1
    BY <1>1
  <2>2. Added(fl, g, t, buf, q)
    BY ONLY fl \in FreeLists, buf \in Nat, q \in Nat \ {0}, t \in Classes, <2>1,
            g = AddBuffers(fl, buf, q * k_max_class_size), AddLists
  <2> QED
    BY ONLY <2>2 DEF Added
<1>2. PICK n \in Nat : n = Len(fl[t])
  BY ONLY <1>a
<1>3. /\ g \in FreeLists /\ Len(g[t]) = n + q
      /\ \A e \in Classes : e # t => g[e] = fl[e]
      /\ \A i \in 1..n : g[t][i] = fl[t][i]
      /\ \A i \in 1..q : g[t][n + i] = buf + (i - 1) * k
  BY ONLY <1>1, <1>2, <1>a
<1>4. ASSUME NEW e \in Classes, NEW i \in Places(g, e)
      PROVE  \/ i \in Places(fl, e) /\ g[e][i] = fl[e][i]
             \/ e = t /\ \E j \in 1..q : i = n + j /\ g[e][i] = buf + (j - 1) * k
  <2>1. CASE e = t
    <3>1. i \in 1..(n + q)
      BY <1>3, <2>1 DEF Places
    <3>2. CASE i \in 1..n
      BY <1>2, <1>3, <2>1, <3>2 DEF Places
    <3>3. CASE i \notin 1..n
      <4>1. PICK j \in 1..q : i = n + j
        <5>1. i - n \in 1..q /\ i = n + (i - n)
          BY ONLY <3>1, <3>3, n \in Nat, q \in Nat \ {0}
        <5> QED
          BY <5>1
      <4> QED
        BY <1>3, <2>1, <4>1
    <3> QED
      BY <3>2, <3>3
  <2>2. CASE e # t
    BY <1>3, <2>2 DEF Places
  <2> QED
    BY <2>1, <2>2
<1>5. ASSUME NEW e \in Classes, NEW i \in Places(fl, e)
      PROVE  i \in Places(g, e) /\ g[e][i] = fl[e][i]
  <2>1. CASE e = t
    <3>1. i \in 1..n /\ i \in 1..(n + q)
      BY <1>2, <2>1 DEF Places
    <3> QED
      BY <1>3, <2>1, <3>1 DEF Places
  <2>2. CASE e # t
    BY <1>3, <2>2 DEF Places
  <2> QED
    BY <2>1, <2>2
<1>6. ASSUME NEW j \in 1..q
      PROVE  /\ n + j \in Places(g, t) /\ g[t][n + j] = buf + (j - 1) * k
             /\ (j - 1) * k \in Nat /\ (j - 1) * k + k <= q * k /\ q * k \in Nat
  <2>1. n + j \in 1..(n + q)
    BY ONLY n \in Nat, q \in Nat \ {0}, j \in 1..q
  <2>2. (j - 1) * k \in Nat /\ (j - 1) * k + k <= q * k /\ q * k \in Nat
    BY ONLY q \in Nat \ {0}, j \in 1..q, k \in Nat \ {0}
  <2> QED
    BY <1>3, <2>1, <2>2 DEF Places
<1>8. B \subseteq Nat /\ FreeApart(fl) /\ FreeFromUsed(fl, u) /\ UsedApart(u) /\ FreeWithin(fl, B)
      /\ UsedWithin(u, B) /\ \A x \in B : InFree(fl, x) \/ InUsed(u, x)
  BY DEF Tiles
<1>9. ASSUME NEW e \in Classes, NEW i \in Places(fl, e)
      PROVE  fl[e][i] \in Nat /\ class_max_size(e) \in Nat /\ fl[e][i] + class_max_size(e) <= buf
  <2>1. PICK a \in Nat, m \in Nat \ {0} : a = fl[e][i] /\ m = class_max_size(e)
    BY PlaceType, ClassSizes
  <2>2. a + m - 1 \in Nat /\ Holds(a, m, a + m - 1)
    BY ONLY a \in Nat, m \in Nat \ {0} DEF Holds
  <2>3. a + m - 1 \in B
    BY <1>8, <2>1, <2>2 DEF FreeWithin
  <2>4. a + m - 1 < buf
    BY <2>3
  <2> QED
    BY <2>1, <2>4
<1>10. ASSUME NEW b \in u
       PROVE  b.buf \in Nat /\ b.class_size \in Nat /\ b.buf + b.class_size <= buf
  <2>1. PICK a \in Nat, m \in Nat \ {0} : a = b.buf /\ m = b.class_size
    BY ClassSizes DEF Buffers
  <2>2. a + m - 1 \in Nat /\ Holds(a, m, a + m - 1)
    BY ONLY a \in Nat, m \in Nat \ {0} DEF Holds
  <2>3. a + m - 1 \in B
    BY <1>8, <2>1, <2>2 DEF UsedWithin
  <2>4. a + m - 1 < buf
    BY <2>3
  <2> QED
    BY <2>1, <2>4
<1>11. FreeApart(g)
  <2> SUFFICES ASSUME NEW d \in Classes, NEW e \in Classes,
                      NEW i \in Places(g, d), NEW j \in Places(g, e), d # e \/ i # j
               PROVE  Apart(g[d][i], class_max_size(d), g[e][j], class_max_size(e))
    BY DEF FreeApart
  <2>1. CASE i \in Places(fl, d) /\ g[d][i] = fl[d][i] /\ j \in Places(fl, e) /\ g[e][j] = fl[e][j]
    BY <1>8, <2>1 DEF FreeApart
  <2>2. CASE /\ i \in Places(fl, d) /\ g[d][i] = fl[d][i]
             /\ e = t /\ \E a \in 1..q : j = n + a /\ g[e][j] = buf + (a - 1) * k
    <3>1. PICK a \in 1..q : j = n + a /\ g[e][j] = buf + (a - 1) * k
      BY <2>2
    <3>2. g[d][i] \in Nat /\ class_max_size(d) \in Nat /\ g[d][i] + class_max_size(d) <= buf
      BY <1>9, <2>2
    <3>3. (a - 1) * k \in Nat
      BY <1>6
    <3> QED
      BY ONLY <3>1, <3>2, <3>3, buf \in Nat DEF Apart
  <2>3. CASE /\ j \in Places(fl, e) /\ g[e][j] = fl[e][j]
             /\ d = t /\ \E a \in 1..q : i = n + a /\ g[d][i] = buf + (a - 1) * k
    <3>1. PICK a \in 1..q : i = n + a /\ g[d][i] = buf + (a - 1) * k
      BY <2>3
    <3>2. g[e][j] \in Nat /\ class_max_size(e) \in Nat /\ g[e][j] + class_max_size(e) <= buf
      BY <1>9, <2>3
    <3>3. (a - 1) * k \in Nat
      BY <1>6
    <3> QED
      BY ONLY <3>1, <3>2, <3>3, buf \in Nat DEF Apart
  <2>4. CASE /\ d = t /\ \E a \in 1..q : i = n + a /\ g[d][i] = buf + (a - 1) * k
             /\ e = t /\ \E a \in 1..q : j = n + a /\ g[e][j] = buf + (a - 1) * k
    <3>1. PICK a \in 1..q : i = n + a /\ g[d][i] = buf + (a - 1) * k
      BY <2>4
    <3>2. PICK b \in 1..q : j = n + b /\ g[e][j] = buf + (b - 1) * k
      BY <2>4
    <3>3. a < b \/ b < a
      BY <2>4, <3>1, <3>2
    <3>4. CASE a < b
      <4>1. (a - 1) * k + k <= (b - 1) * k /\ (a - 1) * k \in Nat /\ (b - 1) * k \in Nat
        BY ONLY <3>4, a \in 1..q, b \in 1..q, q \in Nat \ {0}, k \in Nat \ {0}
      <4> QED
        BY ONLY <4>1, <3>1, <3>2, <2>4, <1>1, buf \in Nat, k \in Nat \ {0} DEF Apart
    <3>5. CASE b < a
      <4>1. (b - 1) * k + k <= (a - 1) * k /\ (a - 1) * k \in Nat /\ (b - 1) * k \in Nat
        BY ONLY <3>5, a \in 1..q, b \in 1..q, q \in Nat \ {0}, k \in Nat \ {0}
      <4> QED
        BY ONLY <4>1, <3>1, <3>2, <2>4, <1>1, buf \in Nat, k \in Nat \ {0} DEF Apart
    <3> QED
      BY <3>3, <3>4, <3>5
  <2>5. \/ i \in Places(fl, d) /\ g[d][i] = fl[d][i]
        \/ d = t /\ \E a \in 1..q : i = n + a /\ g[d][i] = buf + (a - 1) * k
    BY <1>4
  <2>6. \/ j \in Places(fl, e) /\ g[e][j] = fl[e][j]
        \/ e = t /\ \E a \in 1..q : j = n + a /\ g[e][j] = buf + (a - 1) * k
    BY <1>4
  <2> QED
    BY ONLY <2>1, <2>2, <2>3, <2>4, <2>5, <2>6
<1>12. FreeFromUsed(g, u)
  <2> SUFFICES ASSUME NEW e \in Classes, NEW i \in Places(g, e), NEW b \in u
               PROVE  Apart(g[e][i], class_max_size(e), b.buf, b.class_size)
    BY DEF FreeFromUsed
  <2>1. CASE i \in Places(fl, e) /\ g[e][i] = fl[e][i]
    BY <1>8, <2>1 DEF FreeFromUsed
  <2>2. CASE e = t /\ \E a \in 1..q : i = n + a /\ g[e][i] = buf + (a - 1) * k
    <3>1. PICK a \in 1..q : g[e][i] = buf + (a - 1) * k
      BY <2>2
    <3>2. b.buf \in Nat /\ b.class_size \in Nat /\ b.buf + b.class_size <= buf
      BY <1>10
    <3>3. (a - 1) * k \in Nat
      BY <1>6
    <3> QED
      BY ONLY <3>1, <3>2, <3>3, buf \in Nat DEF Apart
  <2> QED
    BY <1>4, <2>1, <2>2
<1>13. FreeWithin(g, C)
  <2> SUFFICES ASSUME NEW e \in Classes, NEW i \in Places(g, e), NEW x \in Nat,
                      Holds(g[e][i], class_max_size(e), x)
               PROVE  x \in C
    BY DEF FreeWithin
  <2>1. CASE i \in Places(fl, e) /\ g[e][i] = fl[e][i]
    BY <1>8, <2>1 DEF FreeWithin
  <2>2. CASE e = t /\ \E a \in 1..q : i = n + a /\ g[e][i] = buf + (a - 1) * k
    <3>1. PICK a \in 1..q : g[e][i] = buf + (a - 1) * k
      BY <2>2
    <3>2. (a - 1) * k \in Nat /\ (a - 1) * k + k <= q * k /\ q * k \in Nat
      BY <1>6
    <3>3. Holds(buf + (a - 1) * k, k, x)
      BY <1>1, <2>2, <3>1
    <3>4. x \in buf..(buf + q * k - 1)
      BY ONLY <3>2, <3>3, x \in Nat, buf \in Nat, k \in Nat \ {0} DEF Holds
    <3> QED
      BY <1>1, <3>4
  <2> QED
    BY <1>4, <2>1, <2>2
<1>14. UsedWithin(u, C)
  BY <1>8 DEF UsedWithin
<1>15. ASSUME NEW x \in C
       PROVE  InFree(g, x) \/ InUsed(u, x)
  <2>1. CASE x \in B
    BY <1>5, <1>8, <2>1 DEF InFree
  <2>2. CASE x \in buf..(buf + q * k - 1)
    <3>1. PICK y \in Nat : x = buf + y /\ y < q * k
      <4>1. q * k \in Nat
        BY ONLY q \in Nat \ {0}, k \in Nat \ {0}
      <4>2. x - buf \in Nat /\ x = buf + (x - buf) /\ x - buf < q * k
        BY ONLY <2>2, <4>1, buf \in Nat
      <4> QED
        BY <4>2
    <3>2. PICK j \in Nat : j = y \div k
      BY ONLY y \in Nat, k \in Nat \ {0}
    <3>3. j * k <= y /\ y < j * k + k
      BY ONLY <3>2, y \in Nat, k \in Nat \ {0}
    <3>4. j < q
      BY ONLY <3>1, <3>3, j \in Nat, q \in Nat \ {0}, k \in Nat \ {0}
    <3>5. j + 1 \in 1..q /\ (j + 1) - 1 = j
      BY ONLY <3>4, j \in Nat, q \in Nat \ {0}
    <3>6. n + (j + 1) \in Places(g, t) /\ g[t][n + (j + 1)] = buf + j * k
      BY <1>6, <3>5
    <3>7. Holds(buf + j * k, k, x)
      <4>1. j * k \in Nat
        BY ONLY j \in Nat, k \in Nat \ {0}
      <4> QED
        BY ONLY <4>1, <3>1, <3>3, buf \in Nat, y \in Nat, k \in Nat \ {0} DEF Holds
    <3> QED
      BY <1>1, <3>6, <3>7 DEF InFree
  <2> QED
    BY <1>1, <2>1, <2>2
<1>16. C \subseteq Nat
  <2>1. q * k \in Nat
    BY ONLY q \in Nat \ {0}, k \in Nat \ {0}
  <2>2. PICK e \in Nat : e = q * k
    BY <2>1
  <2>3. buf..(buf + e - 1) \subseteq Nat
    BY ONLY buf \in Nat, e \in Nat
  <2> QED
    BY ONLY <1>1, <1>8, <2>2, <2>3, C = B \cup (buf..(buf + q * k_max_class_size - 1))
<1> QED
  BY <1>8, <1>11, <1>12, <1>13, <1>14, <1>15, <1>16 DEF Tiles
-----------------------------------------------------------------------------
(***************************************************************************)
(* The inductive invariant.                                                *)
(***************************************************************************)
Regions == [buf : Nat, size : Nat, raw : BOOLEAN]

(* A buffer in use is of the smallest class with room for what was asked. *)
Fits(b) ==
    \E c \in Classes : /\ b.class_size = class_max_size(c)
                       /\ b.size <= class_max_size(c)
                       /\ c > 0 => b.size > class_max_size(c - 1)

(* A reservation is a number of buffers of the largest class. *)
WholeBuffers == \E q \in Nat \ {0} : prev_allocation_size = q * k_max_class_size

(* Regions lie within the memory reserved so far. *)
RegionsReserved ==
    \A i \in DOMAIN shm_list : shm_list[i].buf + shm_list[i].size <= shm_reserved

(* The free lists, the buffers in use and the regions have their types,    *)
(* and the buffers tile the regions of the classes.                        *)
IInv ==
    /\ freelist \in FreeLists
    /\ user \in SUBSET Buffers
    /\ \A b \in user : Fits(b)
    /\ shm_list \in Seq(Regions)
    /\ shm_reserved \in Nat
    /\ WholeBuffers
    /\ RegionsReserved
    /\ Tiles(freelist, user, ClassBytes)

(* The bytes of the regions of a list that were cut into buffers. *)
BytesOf(l) ==
    UNION {l[i].buf..(l[i].buf + l[i].size - 1) : i \in {j \in DOMAIN l : ~l[j].raw}}

(* Which bytes these are. *)
LEMMA ByteOf ==
    ASSUME NEW l, NEW x
    PROVE  x \in BytesOf(l) <=> \E i \in DOMAIN l : ~l[i].raw /\ x \in l[i].buf..(l[i].buf + l[i].size - 1)
  BY DEF BytesOf

(* No byte is in a region before there is one. *)
LEMMA NoRegions == BytesOf(<<>>) = {}
  BY ByteOf

(* A region reserved for the classes adds its bytes, another one none. *)
LEMMA RegionAdded ==
    ASSUME NEW l \in Seq(Regions), NEW r \in Regions
    PROVE  /\ Append(l, r) \in Seq(Regions)
           /\ r.raw => BytesOf(Append(l, r)) = BytesOf(l)
           /\ ~r.raw => BytesOf(Append(l, r)) = BytesOf(l) \cup (r.buf..(r.buf + r.size - 1))
<1>1. PICK n \in Nat : n = Len(l) /\ DOMAIN l = 1..n
  OBVIOUS
<1>2. /\ Append(l, r) \in Seq(Regions) /\ DOMAIN Append(l, r) = 1..(n + 1)
      /\ \A i \in 1..n : Append(l, r)[i] = l[i]
      /\ Append(l, r)[n + 1] = r
  BY <1>1
<1>3. PICK m : m = Append(l, r)
  OBVIOUS
<1>4. \A i : i \in 1..(n + 1) <=> i \in 1..n \/ i = n + 1
  OBVIOUS
<1>5. ASSUME NEW x
      PROVE  x \in BytesOf(m) <=> x \in BytesOf(l) \/ (~r.raw /\ x \in r.buf..(r.buf + r.size - 1))
  <2>1. x \in BytesOf(m) <=> \E i \in 1..(n + 1) : ~m[i].raw /\ x \in m[i].buf..(m[i].buf + m[i].size - 1)
    BY ONLY <1>2, <1>3, ByteOf
  <2>2. x \in BytesOf(l) <=> \E i \in 1..n : ~l[i].raw /\ x \in l[i].buf..(l[i].buf + l[i].size - 1)
    BY ONLY <1>1, ByteOf
  <2> QED
    BY ONLY <1>2, <1>3, <1>4, <2>1, <2>2, Zenon
<1> QED
  BY ONLY <1>2, <1>3, <1>5, Zenon

(* The bytes of regions within the memory reserved are within it. *)
LEMMA BytesReserved ==
    ASSUME NEW l \in Seq(Regions), NEW e \in Nat,
           \A i \in DOMAIN l : l[i].buf + l[i].size <= e
    PROVE  \A x \in BytesOf(l) : x \in Nat /\ x < e
<1> SUFFICES ASSUME NEW x \in BytesOf(l)
             PROVE  x \in Nat /\ x < e
  OBVIOUS
<1>1. PICK i \in DOMAIN l : x \in l[i].buf..(l[i].buf + l[i].size - 1)
  BY ByteOf
<1>2. l[i] \in Regions /\ l[i].buf + l[i].size <= e
  OBVIOUS
<1>3. l[i].buf \in Nat /\ l[i].size \in Nat
  BY ONLY <1>2 DEF Regions
<1> QED
  BY ONLY <1>1, <1>2, <1>3, e \in Nat

(* What is reserved for the classes is a number of hugepages. *)
LEMMA WholePages ==
    ASSUME NEW q \in Nat \ {0}
    PROVE  round_up(q * k_max_class_size) = q * k_max_class_size
<1>1. PICK k \in Nat \ {0} : k = k_max_class_size
  BY ClassSizes
<1>2. PICK h \in Nat \ {0} : h = kHugepageSize /\ k % h = 0
  BY <1>1, AllocAssumption
<1>3. PICK m \in Nat : k = h * m
  <2>1. k \div h \in Nat /\ k = h * (k \div h) + (k % h)
    BY ONLY k \in Nat \ {0}, h \in Nat \ {0}
  <2> QED
    BY ONLY <1>2, <2>1, k \in Nat \ {0}, h \in Nat \ {0}
<1>4. PICK n \in Nat : n = q * m /\ q * k = h * n
  BY ONLY <1>3, q \in Nat \ {0}, m \in Nat, h \in Nat \ {0}
<1>5. (h * n + h - 1) \div h = n
  BY ONLY n \in Nat, h \in Nat \ {0}
<1> QED
  BY ONLY <1>1, <1>2, <1>4, <1>5 DEF round_up

(* Splitting a class down to itself leaves the free lists alone. *)
LEMMA NoSplit ==
    ASSUME NEW fl, NEW c \in Nat
    PROVE  SplitDown(fl, c, c) = fl
<1>1. c - c = 0
  OBVIOUS
<1> DEFINE f == [i \in 0..0 |-> fl]
<1>2. \E g : g = [i \in 0..0 |-> IF i = 0 THEN fl ELSE split(g[i - 1], c + 1 - i)]
  <2>1. f = [i \in 0..0 |-> IF i = 0 THEN fl ELSE split(f[i - 1], c + 1 - i)]
    OBVIOUS
  <2> QED
    BY <2>1
<1>3. \E g : /\ g = [i \in 0..0 |-> IF i = 0 THEN fl ELSE split(g[i - 1], c + 1 - i)]
             /\ SplitDown(fl, c, c) = g[0]
  BY ONLY <1>1, <1>2 DEF SplitDown
<1>4. PICK g : /\ g = [i \in 0..0 |-> IF i = 0 THEN fl ELSE split(g[i - 1], c + 1 - i)]
               /\ SplitDown(fl, c, c) = g[0]
  BY <1>3
<1>5. g[0] = fl
  BY <1>4
<1> QED
  BY <1>4, <1>5

(* The newest buffer of the class of a size goes to the caller. *)
LEMMA FromClass ==
    ASSUME NEW fl \in FreeLists, NEW size \in Sizes, NEW c \in Classes, c = get_class(size),
           fl[c] # <<>>, user \in SUBSET Buffers, \A b \in user : Fits(b),
           NEW B, Tiles(fl, user, B),
           alloc_from_class(fl, c, size)
    PROVE  /\ freelist' \in FreeLists /\ user' \in SUBSET Buffers
           /\ \A b \in user' : Fits(b)
           /\ Tiles(freelist', user', B)
<1>1. PICK m \in Nat : m = class_max_size(c)
  BY ClassSizes
<1>2. PICK a \in Nat : a = Last(fl[c])
  <2>1. PICK p \in Seq(Nat) : p = fl[c] /\ p # <<>>
    BY DEF FreeLists
  <2> QED
    BY <2>1, FrontProperties
<1>3. size \in Nat /\ size <= m /\ (c > 0 => size > class_max_size(c - 1))
  <2>1. size \in 1..k_max_class_size /\ k_max_class_size \in Nat
    BY AllocAssumption, ClassSizes
  <2> QED
    BY <1>1, <2>1, ClassOfSize
<1>4. PICK r : r = [buf |-> a, class_size |-> m, size |-> size]
  OBVIOUS
<1>5. r \in Buffers /\ r.buf = Last(fl[c]) /\ r.class_size = class_max_size(c) /\ r.size = size
  BY <1>1, <1>2, <1>3, <1>4 DEF Buffers
<1>6. Fits(r)
  BY <1>1, <1>3, <1>5 DEF Fits
<1>7. PICK g : g = [fl EXCEPT ![c] = Front(@)]
  OBVIOUS
<1>8. freelist' = g /\ user' = user \cup {r}
  BY ONLY alloc_from_class(fl, c, size), <1>1, <1>2, <1>4, <1>7 DEF alloc_from_class
<1>9. PICK u \in SUBSET Buffers : u = user
  OBVIOUS
<1>10. Tiles(fl, u, B)
  BY <1>9
<1>11. g \in FreeLists /\ Tiles(g, u \cup {r}, B)
  BY ONLY fl \in FreeLists, c \in Classes, fl[c] # <<>>, u \in SUBSET Buffers, <1>10,
          <1>5, <1>7, TakeTiles
<1> QED
  BY <1>5, <1>6, <1>8, <1>9, <1>11

(* The class that alloc splits: the smallest larger one with free buffers. *)
LEMMA SmallestLarger ==
    ASSUME NEW c \in Classes, Larger(c) # {}, freelist[c] = <<>>
    PROVE  /\ Min(Larger(c)) \in Classes /\ c < Min(Larger(c))
           /\ freelist[Min(Larger(c))] # <<>>
           /\ \A e \in Classes : c <= e /\ e < Min(Larger(c)) => freelist[e] = <<>>
<1>1. PICK S \in SUBSET Nat : S = Larger(c)
  BY ClassSizes DEF Larger
<1>2. \E d \in S : \A i \in S : d <= i
  BY <1>1, SmallestNumber
<1>3. Min(S) \in S /\ \A i \in S : Min(S) <= i
  BY ONLY <1>2 DEF Min
<1>4. PICK d \in Nat : d = Min(S)
  BY <1>3
<1>5. d \in Classes /\ d > c /\ freelist[d] # <<>>
  BY <1>1, <1>3, <1>4 DEF Larger
<1>6. ASSUME NEW e \in Classes, c <= e, e < d
      PROVE  freelist[e] = <<>>
  <2>1. e \in Nat /\ c \in Nat
    BY ClassSizes
  <2>2. e \notin S
    BY ONLY <1>3, <1>4, <1>6, <2>1, d \in Nat
  <2>3. e = c \/ e > c
    BY ONLY <1>6, <2>1
  <2>4. ~(e > c) \/ freelist[e] = <<>>
    BY <1>1, <2>2 DEF Larger
  <2> QED
    BY <2>3, <2>4
<1>7. c \in Nat /\ c < d
  BY <1>5, ClassSizes
<1> QED
  BY <1>1, <1>4, <1>5, <1>6, <1>7

(* alloc from the free lists keeps the invariant. *)
LEMMA AllocStep ==
    ASSUME IInv, NEW size \in Sizes, alloc(size)
    PROVE  IInv'
<1>1. PICK c \in Classes : c = get_class(size)
  <2>1. size \in 1..k_max_class_size
    BY AllocAssumption
  <2> QED
    BY <2>1, ClassOfSize
<1>2. UNCHANGED <<shm_list, shm_reserved, prev_allocation_size>>
  BY DEF alloc
<1>3. PICK B : B = ClassBytes /\ B = ClassBytes'
  BY <1>2 DEF ClassBytes
<1>4. /\ freelist \in FreeLists /\ user \in SUBSET Buffers /\ \A b \in user : Fits(b)
      /\ Tiles(freelist, user, B)
  BY <1>3 DEF IInv
<1>5. \E fl \in FreeLists : fl[c] # <<>> /\ Tiles(fl, user, B) /\ alloc_from_class(fl, c, size)
  <2>1. CASE freelist[c] # <<>> /\ alloc_from_class(freelist, c, size)
    BY <1>4, <2>1
  <2>2. CASE /\ freelist[c] = <<>> /\ Larger(c) # {}
             /\ alloc_from_class(SplitDown(freelist, Min(Larger(c)), c), c, size)
    <3>1. PICK d : d = Min(Larger(c))
      OBVIOUS
    <3>2. /\ d \in Classes /\ c < d /\ freelist[d] # <<>>
          /\ \A e \in Classes : c <= e /\ e < d => freelist[e] = <<>>
      BY ONLY c \in Classes, <2>2, <3>1, SmallestLarger
    <3>3. /\ SplitDown(freelist, d, c) \in FreeLists /\ SplitDown(freelist, d, c)[c] # <<>>
          /\ Tiles(SplitDown(freelist, d, c), user, B)
      BY ONLY c \in Classes, <1>4, <3>2, SplitDownTiles
    <3> QED
      BY ONLY <2>2, <3>1, <3>3, Zenon
  <2> QED
    BY ONLY alloc(size), <1>1, <2>1, <2>2 DEF alloc
<1>6. /\ freelist' \in FreeLists /\ user' \in SUBSET Buffers
      /\ \A b \in user' : Fits(b)
      /\ Tiles(freelist', user', B)
  BY ONLY <1>1, <1>4, <1>5, size \in Sizes, c \in Classes, FromClass
<1> QED
  BY ONLY IInv, <1>2, <1>3, <1>6 DEF IInv, WholeBuffers, RegionsReserved

(* What a new region does to the list of regions. *)
LEMMA Reserving ==
    ASSUME IInv, NEW size \in Nat, NEW s \in Nat, s = round_up(size), NEW raw \in BOOLEAN,
           NewRegion(size, raw)
    PROVE  /\ shm_list' \in Seq(Regions) /\ shm_reserved' \in Nat /\ RegionsReserved'
           /\ raw => ClassBytes' = ClassBytes
           /\ ~raw => ClassBytes' = ClassBytes \cup (shm_reserved..(shm_reserved + s - 1))
<1>1. PICK l \in Seq(Regions), e \in Nat :
         l = shm_list /\ e = shm_reserved /\ \A i \in DOMAIN l : l[i].buf + l[i].size <= e
  BY DEF IInv, RegionsReserved
<1>2. PICK r \in Regions : r = [buf |-> e, size |-> s, raw |-> raw]
  BY DEF Regions
<1>3. r.buf = e /\ r.size = s /\ r.raw = raw
  BY <1>2
<1>4. shm_list' = Append(l, r) /\ shm_reserved' = e + s
  BY <1>1, <1>2 DEF NewRegion
<1>5. ClassBytes = BytesOf(l) /\ ClassBytes' = BytesOf(Append(l, r))
  BY <1>1, <1>4 DEF ClassBytes, BytesOf
<1>6. /\ Append(l, r) \in Seq(Regions)
      /\ r.raw => BytesOf(Append(l, r)) = BytesOf(l)
      /\ ~r.raw => BytesOf(Append(l, r)) = BytesOf(l) \cup (r.buf..(r.buf + r.size - 1))
  BY ONLY l \in Seq(Regions), r \in Regions, RegionAdded
<1>7. ASSUME NEW i \in DOMAIN Append(l, r)
      PROVE  Append(l, r)[i].buf + Append(l, r)[i].size <= e + s
  <2>1. CASE i \in DOMAIN l
    <3>1. Append(l, r)[i] = l[i] /\ l[i] \in Regions /\ l[i].buf + l[i].size <= e
      BY ONLY l \in Seq(Regions), r \in Regions, <1>1, <2>1
    <3>2. l[i].buf \in Nat /\ l[i].size \in Nat
      BY ONLY <3>1 DEF Regions
    <3> QED
      BY ONLY <3>1, <3>2, e \in Nat, s \in Nat
  <2>2. CASE i \notin DOMAIN l
    <3>1. Append(l, r)[i] = r
      BY ONLY l \in Seq(Regions), r \in Regions, <1>7, <2>2
    <3> QED
      BY ONLY <1>3, <3>1, e \in Nat, s \in Nat
  <2> QED
    BY <2>1, <2>2
<1>8. RegionsReserved'
  BY ONLY <1>4, <1>7 DEF RegionsReserved
<1> QED
  BY ONLY <1>1, <1>3, <1>4, <1>5, <1>6, <1>8, e \in Nat, s \in Nat

(* A reservation of s bytes has made the free lists g, with new buffers in *)
(* class t, that tile the bytes C together with the buffers in use.        *)
Filled(s, g, t, C) ==
    /\ s \in Nat /\ s = round_up(s) /\ s >= k_max_class_size
    /\ \E q \in Nat \ {0} : s = q * k_max_class_size
    /\ g \in FreeLists /\ g[t] # <<>>
    /\ \A d \in Classes : d # t => g[d] = freelist[d]
    /\ Tiles(g, user, C)

(* A reservation is whole hugepages, lies behind all other regions, and is *)
(* cut into buffers of the largest class, which extend the tiling to it.   *)
LEMMA ReservationTiles ==
    ASSUME IInv, NEW s, s = 2 * prev_allocation_size,
           NEW g, g = AddBuffers(freelist, shm_reserved, s),
           NEW C, C = ClassBytes \cup (shm_reserved..(shm_reserved + s - 1)),
           NEW t \in Classes, t = k_num_classes - 1
    PROVE  Filled(s, g, t, C)
<1>1. PICK k \in Nat \ {0} : k = k_max_class_size
  BY ClassSizes
<1>2. PICK p \in Nat \ {0} : prev_allocation_size = p * k_max_class_size
  BY DEF IInv, WholeBuffers
<1>3. PICK q \in Nat \ {0} : q = 2 * p /\ 2 * (p * k) = q * k /\ q * k >= k /\ q * k \in Nat
  BY ONLY p \in Nat \ {0}, k \in Nat \ {0}
<1>4. s = q * k_max_class_size /\ s >= k_max_class_size /\ s \in Nat
  BY ONLY <1>1, <1>2, <1>3, s = 2 * prev_allocation_size
<1>5. s = round_up(s)
  BY ONLY <1>4, q \in Nat \ {0}, WholePages
<1>6. PICK B : B = ClassBytes
  OBVIOUS
<1>7. PICK e \in Nat, fl \in FreeLists, u \in SUBSET Buffers :
         e = shm_reserved /\ fl = freelist /\ u = user
  BY DEF IInv
<1>8. Tiles(fl, u, B)
  BY <1>6, <1>7 DEF IInv
<1>9. \A x \in B : x < e
  <2>1. PICK l \in Seq(Regions) : l = shm_list /\ \A i \in DOMAIN l : l[i].buf + l[i].size <= e
    BY <1>7 DEF IInv, RegionsReserved
  <2>2. B = BytesOf(l)
    BY <1>6, <2>1 DEF ClassBytes, BytesOf
  <2> QED
    BY ONLY <2>1, <2>2, e \in Nat, BytesReserved
<1>10. C = B \cup (e..(e + s - 1)) /\ g = AddBuffers(fl, e, s)
  BY <1>6, <1>7
<1>11. Tiles(g, u, C)
  BY ONLY fl \in FreeLists, e \in Nat, q \in Nat \ {0}, u \in SUBSET Buffers,
          <1>4, <1>8, <1>9, <1>10, AddTiles
<1>12. Added(fl, g, t, e, q)
  BY ONLY fl \in FreeLists, e \in Nat, q \in Nat \ {0}, t \in Classes, t = k_num_classes - 1,
          <1>4, <1>10, AddLists
<1>13. g \in FreeLists /\ g[t] # <<>> /\ \A d \in Classes : d # t => g[d] = fl[d]
  BY ONLY <1>12, q \in Nat \ {0} DEF Added
<1> QED
  BY ONLY <1>4, <1>5, <1>7, <1>11, <1>13, q \in Nat \ {0} DEF Filled

(* alloc with a reservation keeps the invariant. *)
LEMMA ReserveStep ==
    ASSUME IInv, NEW size \in Sizes, alloc_reserving(size)
    PROVE  IInv'
<1>1. PICK c \in Classes : c = get_class(size)
  <2>1. size \in 1..k_max_class_size
    BY AllocAssumption
  <2> QED
    BY <2>1, ClassOfSize
<1>2. PICK t \in Classes : t = k_num_classes - 1
  BY ClassSizes
<1>3. PICK s, g, C :
         /\ s = 2 * prev_allocation_size
         /\ g = AddBuffers(freelist, shm_reserved, s)
         /\ C = ClassBytes \cup (shm_reserved..(shm_reserved + s - 1))
  OBVIOUS
<1>4. /\ s \in Nat /\ s = round_up(s)
      /\ \E q \in Nat \ {0} : s = q * k_max_class_size
      /\ g \in FreeLists /\ g[t] # <<>> /\ Tiles(g, user, C)
  <2>1. Filled(s, g, t, C)
    BY ONLY IInv, <1>2, <1>3, t \in Classes, ReservationTiles
  <2> QED
    BY ONLY <2>1 DEF Filled
<1>5. /\ NewRegion(s, FALSE) /\ prev_allocation_size' = s
      /\ alloc_from_class(SplitDown(g, t, c), c, size)
  BY ONLY alloc_reserving(size), <1>1, <1>2, <1>3 DEF alloc_reserving
<1>6. /\ shm_list' \in Seq(Regions) /\ shm_reserved' \in Nat /\ RegionsReserved'
      /\ ClassBytes' = C
  BY ONLY IInv, <1>3, <1>4, <1>5, Reserving
<1>7. user \in SUBSET Buffers /\ \A b \in user : Fits(b)
  BY DEF IInv
<1>8. SplitDown(g, t, c) \in FreeLists /\ SplitDown(g, t, c)[c] # <<>> /\ Tiles(SplitDown(g, t, c), user, C)
  <2>1. CASE c < t
    <3>1. PICK u \in SUBSET Buffers : u = user /\ Tiles(g, u, C)
      BY <1>4, <1>7
    <3>2. /\ SplitDown(g, t, c) \in FreeLists
          /\ SplitDown(g, t, c)[c] # <<>>
          /\ \A e \in Classes : e < c => SplitDown(g, t, c)[e] = g[e]
          /\ Tiles(SplitDown(g, t, c), u, C)
      BY ONLY c \in Classes, t \in Classes, u \in SUBSET Buffers, <1>4, <2>1, <3>1, SplitDownTiles
    <3> QED
      BY ONLY <3>1, <3>2
  <2>2. CASE ~(c < t)
    <3>1. c = t /\ c \in Nat
      BY <1>2, <2>2, AllocAssumption DEF Classes
    <3>2. SplitDown(g, t, c) = g
      BY <3>1, NoSplit
    <3> QED
      BY <1>4, <3>1, <3>2
  <2> QED
    BY <2>1, <2>2
<1>9. /\ freelist' \in FreeLists /\ user' \in SUBSET Buffers
      /\ \A b \in user' : Fits(b)
      /\ Tiles(freelist', user', C)
  <2>1. PICK h \in FreeLists : h[c] # <<>> /\ Tiles(h, user, C) /\ alloc_from_class(h, c, size)
    BY ONLY <1>5, <1>8
  <2> QED
    BY ONLY h \in FreeLists, <1>1, <1>7, <2>1, size \in Sizes, c \in Classes, FromClass
<1>10. WholeBuffers'
  <2>1. PICK q \in Nat \ {0} : prev_allocation_size' = q * k_max_class_size
    BY ONLY <1>4, <1>5
  <2> QED
    BY ONLY <2>1, q \in Nat \ {0} DEF WholeBuffers, k_max_class_size, class_max_size
<1> QED
  BY ONLY <1>6, <1>9, <1>10 DEF IInv

(* A region that bypasses the classes keeps the invariant. *)
LEMMA RawStep ==
    ASSUME IInv, NEW size \in RawSizes, alloc_raw(size)
    PROVE  IInv'
<1>1. size \in Nat
  BY AllocAssumption
<1>2. PICK s \in Nat : s = round_up(size)
  <2>1. PICK h \in Nat \ {0} : h = kHugepageSize
    BY AllocAssumption
  <2>2. (size + h - 1) \div h \in Nat
    BY ONLY <1>1, h \in Nat \ {0}
  <2>3. h * ((size + h - 1) \div h) \in Nat
    BY ONLY <2>2, h \in Nat \ {0}
  <2> QED
    BY <2>1, <2>3 DEF round_up
<1>3. NewRegion(size, TRUE) /\ UNCHANGED <<freelist, user, prev_allocation_size>>
  BY DEF alloc_raw
<1>4. /\ shm_list' \in Seq(Regions) /\ shm_reserved' \in Nat /\ RegionsReserved'
      /\ ClassBytes' = ClassBytes
  BY ONLY IInv, <1>1, <1>2, <1>3, s \in Nat, Reserving
<1> QED
  BY ONLY IInv, <1>3, <1>4 DEF IInv, WholeBuffers

(* Giving a buffer back keeps the invariant. *)
LEMMA FreeStep ==
    ASSUME IInv, NEW b \in user, free_buf(b)
    PROVE  IInv'
<1>1. PICK u \in SUBSET Buffers, fl \in FreeLists : u = user /\ fl = freelist
  BY DEF IInv
<1>2. PICK B : B = ClassBytes
  OBVIOUS
<1>3. Tiles(fl, u, B) /\ (\A a \in u : Fits(a)) /\ b \in u
  BY <1>1, <1>2 DEF IInv
<1>4. PICK c \in Classes : b.class_size = class_max_size(c)
  BY <1>3 DEF Fits
<1>5. get_class(b.class_size) = c
  BY <1>4, ClassOfClassSize
<1>6. PICK g : g = [fl EXCEPT ![c] = Append(@, b.buf)]
  OBVIOUS
<1>7. /\ freelist' = g /\ user' = u \ {b}
      /\ UNCHANGED <<shm_list, shm_reserved, prev_allocation_size>>
  BY ONLY free_buf(b), <1>1, <1>5, <1>6 DEF free_buf
<1>8. g \in FreeLists /\ Tiles(g, u \ {b}, B)
  BY ONLY fl \in FreeLists, c \in Classes, u \in SUBSET Buffers, <1>3, <1>4, <1>6, GiveTiles
<1>9. ClassBytes' = B
  BY ONLY <1>2, <1>7 DEF ClassBytes
<1>10. u \ {b} \in SUBSET Buffers /\ \A a \in u \ {b} : Fits(a)
  BY ONLY <1>3, u \in SUBSET Buffers
<1> QED
  BY ONLY IInv, <1>7, <1>8, <1>9, <1>10 DEF IInv, WholeBuffers, RegionsReserved

(* An allocator without memory satisfies the invariant. *)
LEMMA InitInv == Init => IInv
<1> SUFFICES ASSUME Init
             PROVE  IInv
  OBVIOUS
<1>1. freelist \in FreeLists /\ \A c \in Classes : freelist[c] = <<>>
  BY DEF Init, FreeLists
<1>2. user = {} /\ shm_list = <<>> /\ shm_reserved = 0
  BY DEF Init
<1>3. ClassBytes = {}
  BY <1>2, NoRegions DEF ClassBytes, BytesOf
<1>4. WholeBuffers
  <2>1. PICK k \in Nat \ {0} : k = k_max_class_size
    BY ClassSizes
  <2>2. InitialSize \in Nat /\ InitialSize >= k /\ InitialSize % k = 0
    BY <2>1, AllocAssumption
  <2>3. PICK s \in Nat : s = InitialSize /\ s >= k /\ s % k = 0
    BY <2>2
  <2>4. PICK q \in Nat : q = s \div k
    BY ONLY s \in Nat, k \in Nat \ {0}
  <2>5. s = k * q + (s % k)
    BY ONLY <2>4, s \in Nat, k \in Nat \ {0}
  <2>6. s = q * k /\ q # 0
    BY ONLY <2>3, <2>5, q \in Nat, s \in Nat, k \in Nat \ {0}
  <2>7. prev_allocation_size = q * k_max_class_size /\ q \in Nat \ {0}
    BY <2>1, <2>3, <2>6 DEF Init
  <2> QED
    BY ONLY <2>7 DEF WholeBuffers
<1>5. \A c \in Classes : Places(freelist, c) = {}
  BY <1>1 DEF Places
<1>6. Tiles(freelist, user, ClassBytes)
  BY ONLY <1>2, <1>3, <1>5
     DEF Tiles, FreeApart, FreeFromUsed, UsedApart, FreeWithin, UsedWithin
<1> QED
  BY <1>1, <1>2, <1>4, <1>6 DEF IInv, RegionsReserved

(* Every step keeps the invariant. *)
LEMMA NextInv == IInv /\ [Next]_vars => IInv'
<1> SUFFICES ASSUME IInv, [Next]_vars
             PROVE  IInv'
  OBVIOUS
<1>1. CASE UNCHANGED vars
  <2>1. ClassBytes' = ClassBytes
    BY ONLY <1>1 DEF ClassBytes, vars
  <2> QED
    BY ONLY IInv, <1>1, <2>1 DEF IInv, vars, WholeBuffers, RegionsReserved
<1>2. ASSUME NEW size \in Sizes, alloc(size)
      PROVE  IInv'
  BY <1>2, AllocStep
<1>3. ASSUME NEW size \in Sizes, alloc_reserving(size)
      PROVE  IInv'
  BY <1>3, ReserveStep
<1>4. ASSUME NEW size \in Sizes, alloc_failing(size)
      PROVE  IInv'
  <2>1. UNCHANGED vars
    BY <1>4 DEF alloc_failing
  <2> QED
    BY <1>1, <2>1
<1>5. ASSUME NEW size \in RawSizes, alloc_raw(size)
      PROVE  IInv'
  BY <1>5, RawStep
<1>6. ASSUME NEW b \in user, free_buf(b)
      PROVE  IInv'
  BY <1>6, FreeStep
<1> QED
  BY ONLY [Next]_vars, <1>1, <1>2, <1>3, <1>4, <1>5, <1>6 DEF Next

(* Whatever is allocated and given back in whatever order, the buffers,    *)
(* free and in use, tile the memory reserved for the classes.              *)
THEOREM Invariance == Spec => []IInv
<1>1. Init => IInv
  BY InitInv
<1>2. IInv /\ [Next]_vars => IInv'
  BY NextInv
<1> QED
  BY <1>1, <1>2, PTL DEF Spec

(* No byte is in two buffers that are apart. *)
LEMMA NotInBoth ==
    ASSUME NEW a \in Nat, NEW m \in Nat, NEW b \in Nat, NEW n \in Nat, NEW x \in Nat,
           Apart(a, m, b, n), Holds(a, m, x)
    PROVE  ~Holds(b, n, x)
  BY DEF Apart, Holds

(* A set without two different members is empty or has one. *)
LEMMA AtMostOne ==
    ASSUME NEW S, \A x, y \in S : x = y
    PROVE  S = {} \/ \E x : S = {x}
  OBVIOUS

(* What a tiling says of the buffers that hold one byte. *)
LEMMA OneBuffer ==
    ASSUME IInv, NEW x \in Nat
    PROVE  Cardinality({f \in FreeBuffers : Holds(freelist[f[1]][f[2]], class_max_size(f[1]), x)})
             + Cardinality({b \in user : Holds(b.buf, b.class_size, x)})
           = IF x \in ClassBytes THEN 1 ELSE 0
<1> DEFINE F == {f \in FreeBuffers : Holds(freelist[f[1]][f[2]], class_max_size(f[1]), x)}
           U == {b \in user : Holds(b.buf, b.class_size, x)}
<1>1. PICK u \in SUBSET Buffers, fl \in FreeLists : u = user /\ fl = freelist
  BY DEF IInv
<1>2. PICK B : B = ClassBytes
  OBVIOUS
<1>3. /\ FreeApart(fl) /\ FreeFromUsed(fl, u) /\ UsedApart(u) /\ FreeWithin(fl, B)
      /\ UsedWithin(u, B) /\ \A y \in B : InFree(fl, y) \/ InUsed(u, y)
  BY <1>1, <1>2 DEF IInv, Tiles
<1>4. ASSUME NEW f \in F
      PROVE  \E c \in Classes, i \in Nat :
                 /\ i \in Places(fl, c) /\ f = <<c, i>> /\ Holds(fl[c][i], class_max_size(c), x)
                 /\ fl[c][i] \in Nat /\ class_max_size(c) \in Nat
  <2>1. PICK c \in Classes : \E i \in DOMAIN fl[c] : f = <<c, i>>
    BY <1>1 DEF FreeBuffers
  <2>2. PICK i \in DOMAIN fl[c] : f = <<c, i>>
    BY <2>1
  <2>3. i \in Places(fl, c)
    BY DEF Places, FreeLists
  <2>4. i \in Nat /\ fl[c][i] \in Nat /\ class_max_size(c) \in Nat
    BY <2>3, PlaceType, ClassSizes
  <2>5. Holds(fl[c][i], class_max_size(c), x)
    BY <1>1, <2>2
  <2> QED
    BY <2>2, <2>3, <2>4, <2>5
<1>5. ASSUME NEW b \in U
      PROVE  b \in u /\ b.buf \in Nat /\ b.class_size \in Nat /\ Holds(b.buf, b.class_size, x)
  BY <1>1 DEF Buffers
<1>6. ASSUME NEW c \in Classes, NEW i \in Places(fl, c), Holds(fl[c][i], class_max_size(c), x)
      PROVE  <<c, i>> \in F
  <2>1. i \in DOMAIN freelist[c]
    BY <1>1 DEF Places, FreeLists
  <2>2. <<c, i>> \in FreeBuffers
    BY <2>1 DEF FreeBuffers
  <2> QED
    BY <1>1, <1>6, <2>2
<1>7. ASSUME NEW b \in u, Holds(b.buf, b.class_size, x)
      PROVE  b \in U
  BY <1>1, <1>7
<1> HIDE DEF F, U
<1>8. \A f, g \in F : f = g
  <2> SUFFICES ASSUME NEW f \in F, NEW g \in F, f # g
               PROVE  FALSE
    OBVIOUS
  <2>1. PICK c \in Classes, i \in Nat :
            /\ i \in Places(fl, c) /\ f = <<c, i>> /\ Holds(fl[c][i], class_max_size(c), x)
            /\ fl[c][i] \in Nat /\ class_max_size(c) \in Nat
    BY <1>4
  <2>2. PICK d \in Classes, j \in Nat :
            /\ j \in Places(fl, d) /\ g = <<d, j>> /\ Holds(fl[d][j], class_max_size(d), x)
            /\ fl[d][j] \in Nat /\ class_max_size(d) \in Nat
    BY <1>4
  <2>3. c # d \/ i # j
    BY <2>1, <2>2
  <2>4. Apart(fl[c][i], class_max_size(c), fl[d][j], class_max_size(d))
    BY <1>3, <2>1, <2>2, <2>3 DEF FreeApart
  <2> QED
    BY ONLY <2>1, <2>2, <2>4, x \in Nat, NotInBoth
<1>9. \A a, b \in U : a = b
  <2> SUFFICES ASSUME NEW a \in U, NEW b \in U, a # b
               PROVE  FALSE
    OBVIOUS
  <2>1. Apart(a.buf, a.class_size, b.buf, b.class_size)
    BY <1>3, <1>5 DEF UsedApart
  <2> QED
    BY <1>5, <2>1, NotInBoth
<1>10. ASSUME NEW f \in F, NEW b \in U
       PROVE  FALSE
  <2>1. PICK c \in Classes, i \in Nat :
            /\ i \in Places(fl, c) /\ f = <<c, i>> /\ Holds(fl[c][i], class_max_size(c), x)
            /\ fl[c][i] \in Nat /\ class_max_size(c) \in Nat
    BY <1>4
  <2>2. Apart(fl[c][i], class_max_size(c), b.buf, b.class_size)
    BY <1>3, <1>5, <2>1 DEF FreeFromUsed
  <2> QED
    BY <1>5, <2>1, <2>2, NotInBoth
<1>11. CASE x \in B
  <2>1. F # {} \/ U # {}
    BY <1>3, <1>6, <1>7, <1>11 DEF InFree, InUsed
  <2>2. CASE F # {}
    <3>1. U = {} /\ \E f : F = {f}
      BY <1>8, <1>10, <2>2, AtMostOne
    <3>2. Cardinality(F) = 1 /\ Cardinality(U) = 0
      BY <3>1, FS_EmptySet, FS_Singleton
    <3> QED
      BY <1>2, <1>11, <3>2 DEF F, U
  <2>3. CASE U # {}
    <3>1. F = {} /\ \E b : U = {b}
      BY <1>9, <1>10, <2>3, AtMostOne
    <3>2. Cardinality(F) = 0 /\ Cardinality(U) = 1
      BY <3>1, FS_EmptySet, FS_Singleton
    <3> QED
      BY <1>2, <1>11, <3>2 DEF F, U
  <2> QED
    BY <2>1, <2>2, <2>3
<1>12. CASE x \notin B
  <2>1. F = {}
    BY <1>3, <1>4, <1>12 DEF FreeWithin
  <2>2. U = {}
    BY <1>3, <1>5, <1>12 DEF UsedWithin
  <2>3. Cardinality(F) = 0 /\ Cardinality(U) = 0
    BY <2>1, <2>2, FS_EmptySet
  <2> QED
    BY <1>2, <1>12, <2>3 DEF F, U
<1> QED
  BY <1>11, <1>12

(* Message buffers never overlap, none reaches into a region of the wheel  *)
(* or the RX ring, and no byte of the classes leaks: every byte is in      *)
(* exactly one buffer, for every class size, number of classes and amount  *)
(* of memory.                                                              *)
THEOREM NothingOverlapsNorLeaks == Spec => []EveryByteOnce
<1>1. IInv => EveryByteOnce
  <2> SUFFICES ASSUME IInv, NEW x \in 0..(shm_reserved - 1)
               PROVE  Cardinality({f \in FreeBuffers : Holds(freelist[f[1]][f[2]], class_max_size(f[1]), x)})
                        + Cardinality({b \in user : Holds(b.buf, b.class_size, x)})
                      = IF x \in ClassBytes THEN 1 ELSE 0
    BY DEF EveryByteOnce
  <2>1. x \in Nat
    BY DEF IInv
  <2> QED
    BY <2>1, OneBuffer
<1> QED
  BY <1>1, Invariance, PTL

(* A buffer has room for what was asked, and less than twice that unless   *)
(* it is of the smallest class: get_class, which counts bits, picks the    *)
(* class that get_class_slow, which compares sizes, would.                 *)
THEOREM RoomAndNoMore == Spec => []SmallestClass
<1>1. IInv => SmallestClass
  <2> SUFFICES ASSUME IInv, NEW b \in user
               PROVE  /\ b.size <= b.class_size
                      /\ b.class_size > k_min_class_size => b.size > b.class_size \div 2
    BY DEF SmallestClass
  <2>1. PICK c \in Classes : /\ b.class_size = class_max_size(c)
                             /\ b.size <= class_max_size(c)
                             /\ c > 0 => b.size > class_max_size(c - 1)
    BY DEF IInv, Fits
  <2>2. CASE c = 0
    BY <2>1, <2>2, ClassSizes
  <2>3. CASE c # 0
    <3>1. c > 0 /\ c - 1 \in Classes /\ class_max_size(c) = 2 * class_max_size(c - 1)
      BY <2>3, ClassSizes
    <3>2. PICK m \in Nat : m = class_max_size(c - 1)
      BY <3>1, ClassSizes
    <3>3. (2 * m) \div 2 = m
      BY ONLY m \in Nat
    <3> QED
      BY <2>1, <3>1, <3>2, <3>3
  <2> QED
    BY <2>2, <2>3
<1> QED
  BY <1>1, Invariance, PTL
-----------------------------------------------------------------------------
(***************************************************************************)
(* The assertions of alloc, split and free_buf.                            *)
(***************************************************************************)

(* Every turn of alloc's loop from class d down to class c finds a free    *)
(* buffer in the class it splits and none in the class below, and the loop *)
(* leaves one in class c.                                                  *)
TurnsAssert(fl, d, c) ==
    /\ \A i \in (c + 1)..d : SplitDown(fl, d, i)[i] # <<>> /\ SplitDown(fl, d, i)[i - 1] = <<>>
    /\ SplitDown(fl, d, c)[c] # <<>>

(* What alloc(size), for each size, and free_buf of each buffer in use     *)
(* assert: the turns of the loop, and that a reservation has room for a    *)
(* buffer of the largest class and a buffer given back the size of its     *)
(* class.                                                                  *)
AllocAssertsHold ==
    /\ \A size \in Sizes :
          LET c == get_class(size)
          IN  freelist[c] = <<>> =>
                /\ Larger(c) # {} => TurnsAssert(freelist, Min(Larger(c)), c)
                /\ Larger(c) = {} =>
                      /\ 2 * prev_allocation_size >= k_max_class_size
                      /\ TurnsAssert(AddBuffers(freelist, shm_reserved, 2 * prev_allocation_size),
                                     k_num_classes - 1, c)
    /\ \A b \in user : class_max_size(get_class(b.class_size)) = b.class_size

(* The turns find what they assert when class d has a buffer and the       *)
(* classes from c to the one below it have none.                           *)
LEMMA TurnsFind ==
    ASSUME NEW fl \in FreeLists, NEW c \in Classes, NEW d \in Classes, c <= d,
           fl[d] # <<>>, \A e \in Classes : c <= e /\ e < d => fl[e] = <<>>,
           NEW u \in SUBSET Buffers, NEW B, Tiles(fl, u, B)
    PROVE  TurnsAssert(fl, d, c)
<1>1. c \in Nat /\ d \in Nat /\ \A e \in Nat : e <= d => e \in Classes
  BY ClassSizes DEF Classes
<1>2. ASSUME NEW i \in Classes, c <= i, i <= d
      PROVE  /\ SplitDown(fl, d, i)[i] # <<>>
             /\ \A e \in Classes : e < i => SplitDown(fl, d, i)[e] = fl[e]
  <2>1. CASE i < d
    <3>1. /\ SplitDown(fl, d, i) \in FreeLists
          /\ SplitDown(fl, d, i)[i] # <<>>
          /\ \A e \in Classes : e < i => SplitDown(fl, d, i)[e] = fl[e]
          /\ Tiles(SplitDown(fl, d, i), u, B)
      BY ONLY fl \in FreeLists, i \in Classes, d \in Classes, <2>1, fl[d] # <<>>,
              u \in SUBSET Buffers, Tiles(fl, u, B), SplitDownTiles
    <3> QED
      BY ONLY <3>1
  <2>2. CASE ~(i < d)
    <3>0. i \in Nat
      BY ClassSizes
    <3>1. i = d /\ i \in Nat
      BY ONLY <1>1, <1>2, <2>2, <3>0
    <3>2. SplitDown(fl, d, i) = fl
      BY <3>1, NoSplit
    <3> QED
      BY <3>1, <3>2
  <2> QED
    BY <2>1, <2>2
<1>3. ASSUME NEW i \in (c + 1)..d
      PROVE  SplitDown(fl, d, i)[i] # <<>> /\ SplitDown(fl, d, i)[i - 1] = <<>>
  <2>1. i \in Nat /\ i - 1 \in Nat /\ c <= i /\ i <= d /\ c <= i - 1 /\ i - 1 < d /\ i - 1 < i /\ i - 1 <= d
    BY <1>1
  <2>2. i \in Classes /\ i - 1 \in Classes
    BY <1>1, <2>1
  <2> QED
    BY <1>2, <2>1, <2>2
<1>4. SplitDown(fl, d, c)[c] # <<>>
  BY <1>1, <1>2
<1> QED
  BY ONLY <1>3, <1>4 DEF TurnsAssert

(* The same after a reservation, for the largest class. *)
LEMMA TurnsFindReserved ==
    ASSUME IInv, NEW c \in Classes, freelist[c] = <<>>, Larger(c) = {}
    PROVE  /\ 2 * prev_allocation_size >= k_max_class_size
           /\ TurnsAssert(AddBuffers(freelist, shm_reserved, 2 * prev_allocation_size), k_num_classes - 1, c)
<1>1. PICK t \in Classes : t = k_num_classes - 1
  BY ClassSizes
<1>2. PICK s, g, C :
         /\ s = 2 * prev_allocation_size
         /\ g = AddBuffers(freelist, shm_reserved, s)
         /\ C = ClassBytes \cup (shm_reserved..(shm_reserved + s - 1))
  OBVIOUS
<1>3. /\ s >= k_max_class_size
      /\ g \in FreeLists /\ g[t] # <<>> /\ Tiles(g, user, C)
      /\ \A d \in Classes : d # t => g[d] = freelist[d]
  <2>1. Filled(s, g, t, C)
    BY ONLY IInv, <1>1, <1>2, t \in Classes, ReservationTiles
  <2> QED
    BY ONLY <2>1 DEF Filled
<1>4. \A d \in Classes : c <= d /\ d < t => g[d] = <<>>
  <2> SUFFICES ASSUME NEW d \in Classes, c <= d, d < t
               PROVE  g[d] = <<>>
    OBVIOUS
  <2>1. c \in Nat /\ d \in Nat /\ t \in Nat
    BY ClassSizes
  <2>2. d # t /\ (d = c \/ d > c)
    BY <2>1
  <2>3. freelist[d] = <<>>
    BY <2>2 DEF Larger
  <2> QED
    BY <1>3, <2>2, <2>3
<1>5. c <= t
  BY <1>1, AllocAssumption DEF Classes
<1>6. PICK u \in SUBSET Buffers : u = user /\ Tiles(g, u, C)
  BY <1>3 DEF IInv
<1>7. TurnsAssert(g, t, c)
  BY ONLY c \in Classes, t \in Classes, u \in SUBSET Buffers, <1>3, <1>4, <1>5, <1>6, TurnsFind
<1> QED
  BY ONLY <1>1, <1>2, <1>3, <1>7

(* The assertions of alloc, split and free_buf hold: the loop of alloc     *)
(* never splits an empty class nor into a class that has buffers, and      *)
(* free_buf finds the class that the buffer came from.                     *)
THEOREM AllocatorNeverAsserts == Spec => []AllocAssertsHold
<1>1. IInv => AllocAssertsHold
  <2> SUFFICES ASSUME IInv
               PROVE  AllocAssertsHold
    OBVIOUS
  <2>1. ASSUME NEW size \in Sizes, NEW c, c = get_class(size), freelist[c] = <<>>
        PROVE  /\ Larger(c) # {} => TurnsAssert(freelist, Min(Larger(c)), c)
               /\ Larger(c) = {} =>
                     /\ 2 * prev_allocation_size >= k_max_class_size
                     /\ TurnsAssert(AddBuffers(freelist, shm_reserved, 2 * prev_allocation_size),
                                    k_num_classes - 1, c)
    <3>1. c \in Classes
      <4>1. size \in 1..k_max_class_size
        BY AllocAssumption
      <4> QED
        BY <2>1, <4>1, ClassOfSize
    <3>2. CASE Larger(c) # {}
      <4>1. PICK d : d = Min(Larger(c))
        OBVIOUS
      <4>2. /\ d \in Classes /\ c < d /\ freelist[d] # <<>>
            /\ \A e \in Classes : c <= e /\ e < d => freelist[e] = <<>>
        BY ONLY <2>1, <3>1, <3>2, <4>1, SmallestLarger
      <4>3. c <= d
        BY <3>1, <4>2, ClassSizes
      <4>4. freelist \in FreeLists /\ user \in SUBSET Buffers /\ Tiles(freelist, user, ClassBytes)
        BY DEF IInv
      <4>5. TurnsAssert(freelist, d, c)
        BY ONLY <3>1, <4>2, <4>3, <4>4, TurnsFind
      <4> QED
        BY ONLY <3>2, <4>1, <4>5
    <3>3. CASE Larger(c) = {}
      BY ONLY IInv, <2>1, <3>1, <3>3, TurnsFindReserved
    <3> QED
      BY ONLY <3>2, <3>3
  <2>2. ASSUME NEW b \in user
        PROVE  class_max_size(get_class(b.class_size)) = b.class_size
    <3>1. PICK c \in Classes : b.class_size = class_max_size(c)
      BY DEF IInv, Fits
    <3> QED
      BY <3>1, ClassOfClassSize
  <2> QED
    BY ONLY <2>1, <2>2 DEF AllocAssertsHold
<1> QED
  BY <1>1, Invariance, PTL
=============================================================================
