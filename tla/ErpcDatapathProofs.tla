-------------------------- MODULE ErpcDatapathProofs --------------------------
(***************************************************************************)
(* Proofs about ErpcDatapath, for every window, every number of credits    *)
(* and all sizes of messages.                                              *)
(*                                                                         *)
(* The parts of the invariant are operators of the client c, the server v  *)
(* and the network n, so that they can be stated of the states inside a    *)
(* step too: a handler of the client first takes an answer or rolls back   *)
(* and then sends.                                                         *)
(***************************************************************************)
EXTENDS ErpcDatapath, TLAPS, SequenceTheorems, FiniteSetTheorems

(* The request that a slot of the server is about. *)
ReqOf(v) == IF v.resp # None THEN v.resp ELSE v.body[1]

Wire(r) == ReqPkts[r] + RespPkts[r] - 1

(* A slot of the client: what was sent and answered, and how much of the   *)
(* response is there.                                                      *)
ClientSlotOK(c) ==
    /\ c.num_rx <= c.num_tx
    /\ c.req = None => c.num_tx = c.num_rx
    /\ c.req # None =>
          /\ c.req_num >= Window
          /\ c.num_rx < ReqPkts[c.req] => c.num_tx <= ReqPkts[c.req]
          /\ c.num_rx >= ReqPkts[c.req] =>
                /\ c.num_tx <= Wire(c.req) /\ c.num_rx < Wire(c.req)
                /\ c.resp_pkts = RespPkts[c.req]
                /\ c.resp = [i \in 1..RespPkts[c.req] |->
                                IF i <= c.num_rx - ReqPkts[c.req] + 1 THEN c.req ELSE None]

(* A slot of the server is new, receives or handles a request, or has a    *)
(* response.                                                               *)
Receiving(v) ==
    LET r == v.body[1]
    IN  /\ v.resp = None /\ v.body # <<>> /\ r \in Requests
        /\ v.num_rx \in 1..ReqPkts[r]
        /\ v.body = [i \in 1..ReqPkts[r] |-> IF i <= v.num_rx THEN r ELSE None]
        /\ v.busy <=> v.num_rx = ReqPkts[r]

Responding(v) ==
    /\ v.resp \in Requests /\ v.body = <<>> /\ ~v.busy
    /\ v.sav = ReqPkts[v.resp] /\ v.num_rx \in v.sav..Wire(v.resp)

ServerSlotOK(v) ==
    IF v.req_num < Window THEN v.body = <<>> /\ v.resp = None /\ ~v.busy
    ELSE Receiving(v) \/ Responding(v)

(* The server's slot is at the client's request, or done with the one      *)
(* before.                                                                 *)
SlotsMatch(c, v) ==
    /\ v.req_num = c.req_num \/ (c.req # None /\ c.req_num = v.req_num + Window)
    /\ v.req_num = c.req_num /\ c.req # None => ReqOf(v) = c.req
    /\ v.req_num # c.req_num \/ c.req = None => v.body = <<>> /\ ~v.busy
    /\ c.req # None /\ v.req_num # c.req_num => c.num_rx = 0
    /\ c.req # None /\ c.num_rx >= ReqPkts[c.req] => v.resp = c.req

SlotsOK(c, v) ==
    \A s \in Slots :
        /\ c.slot[s].req_num % Window = s /\ v.slot[s].req_num % Window = s
        /\ ClientSlotOK(c.slot[s])
        /\ ServerSlotOK(v.slot[s])
        /\ SlotsMatch(c.slot[s], v.slot[s])

(* What a packet says of the slots c and v that it is for. *)
ReqPktOK(p, c, v) ==
    /\ p.data \in Requests /\ p.pkts = ReqPkts[p.data] /\ p.pkt_num < p.pkts
    /\ p.req_num <= c.req_num
    /\ p.req_num = c.req_num /\ c.req # None => p.data = c.req
    /\ p.req_num = v.req_num => p.data = ReqOf(v)

RfrOK(p, v) ==
    /\ p.req_num <= v.req_num
    /\ p.req_num = v.req_num =>
          v.resp # None /\ p.pkt_num \in ReqPkts[v.resp] .. (Wire(v.resp) - 1)

CreditReturnOK(p, v) ==
    /\ p.req_num <= v.req_num
    /\ p.req_num = v.req_num => p.pkt_num < ReqPkts[ReqOf(v)] - 1

RespPktOK(p, v) ==
    /\ p.req_num <= v.req_num
    /\ p.req_num = v.req_num =>
          /\ v.resp # None /\ p.data = v.resp /\ p.pkts = RespPkts[v.resp]
          /\ p.pkt_num \in (ReqPkts[v.resp] - 1) .. (Wire(v.resp) - 1)
          /\ p.pkt_num < v.num_rx

PacketOK(p, c, v) ==
    /\ p.req_num >= Window
    /\ p.type = "kReq" => ReqPktOK(p, c, v)
    /\ p.type = "kRFR" => RfrOK(p, v)
    /\ p.type = "kExplCR" => CreditReturnOK(p, v)
    /\ p.type = "kResp" => RespPktOK(p, v)

PacketsOK(ps, c, v) == \A p \in ps : PacketOK(p, c.slot[SlotOf(p)], v.slot[SlotOf(p)])

(* Packets sit in the queues of the end that sends them. *)
WaysOK(c, v) == (\A p \in c.out : ToServer(p)) /\ (\A p \in v.out : ~ToServer(p))

(* Free slots are in the list once.  Slots that wait for a credit have     *)
(* sent nothing, and are in the stall queue once; a slot in x is being     *)
(* served by the running handler.                                          *)
FreeOK(c) ==
    /\ \A i, j \in DOMAIN c.free : c.free[i] = c.free[j] => i = j
    /\ \A s \in Slots : c.slot[s].req = None <=> \E i \in DOMAIN c.free : c.free[i] = s

Stalled(c, x, s) == s \notin x /\ c.slot[s].req # None /\ c.slot[s].num_tx = c.slot[s].num_rx

StallOK(c, x) ==
    /\ \A i, j \in DOMAIN c.stallq : c.stallq[i] = c.stallq[j] => i = j
    /\ \A s \in Slots : Stalled(c, x, s) <=> \E i \in DOMAIN c.stallq : c.stallq[i] = s
    /\ \A s \in Slots : Stalled(c, x, s) => c.slot[s].num_tx = 0

BacklogOK(c) == c.backlog # <<>> => c.free = <<>>

CreditsOK(c) == c.credits + Cardinality(Unanswered(c)) = Credits

(* The packets of a slot that are in the wheel. *)
InWheel(c, s) == {e[2] : e \in {w \in c.wheel : w[1] = s}}

WheelSlotOK(c, s) ==
    /\ c.slot[s].wheel_count = Cardinality(InWheel(c, s))
    /\ c.slot[s].in_wheel = {n % Credits : n \in InWheel(c, s)}
    /\ \A n \in InWheel(c, s) :
          /\ c.slot[s].req # None
          /\ n \in c.slot[s].num_rx .. c.slot[s].num_tx - 1
          /\ n < ReqPkts[c.slot[s].req]

WheelOK(c) == \A s \in Slots : WheelSlotOK(c, s)

(***************************************************************************)
(* The inductive invariant.                                                *)
(***************************************************************************)
Inv(c, v, n, x) ==
    /\ c \in Clients /\ v \in Servers /\ n \in SUBSET Packets
    /\ SlotsOK(c, v)
    /\ PacketsOK(n \cup c.out \cup v.out, c, v)
    /\ WaysOK(c, v)
    /\ FreeOK(c) /\ StallOK(c, x) /\ CreditsOK(c) /\ WheelOK(c)

IInv == Inv(cl, sv, net, {}) /\ BacklogOK(cl)
-----------------------------------------------------------------------------
(***************************************************************************)
(* Arithmetic.                                                             *)
(***************************************************************************)
LEMMA DivMod ==
    ASSUME NEW a \in Nat, NEW m \in Nat \ {0}
    PROVE  a \div m \in Nat /\ a % m \in 0..(m - 1) /\ a = m * (a \div m) + (a % m)
OBVIOUS

LEMMA DivModUnique ==
    ASSUME NEW m \in Nat \ {0}, NEW q \in Nat, NEW r \in 0..(m - 1),
           NEW k \in Nat, NEW t \in 0..(m - 1), m * q + r = m * k + t
    PROVE  r = t
<1>1. q <= k
  <2>1. ASSUME q >= k + 1 PROVE FALSE
    <3>1. m * q >= m * (k + 1)
      BY <2>1
    <3>2. m * (k + 1) = m * k + m
      OBVIOUS
    <3>. QED
      BY <3>1, <3>2
  <2>. QED
    BY <2>1
<1>2. k <= q
  <2>1. ASSUME k >= q + 1 PROVE FALSE
    <3>1. m * k >= m * (q + 1)
      BY <2>1
    <3>2. m * (q + 1) = m * q + m
      OBVIOUS
    <3>. QED
      BY <3>1, <3>2
  <2>. QED
    BY <2>1
<1>3. q = k
  BY <1>1, <1>2
<1>. QED
  BY <1>3

(* Numbers less than m apart differ modulo m. *)
LEMMA ModApart ==
    ASSUME NEW m \in Nat \ {0}, NEW a \in Nat, NEW b \in Nat, a < b, b < a + m
    PROVE  a % m # b % m
<1>. SUFFICES ASSUME a % m = b % m PROVE FALSE
  OBVIOUS
<1>. DEFINE q == a \div m  k == b \div m
<1>a. q \in Nat /\ a % m \in Nat /\ a = m * q + (a % m)
  OBVIOUS
<1>b. k \in Nat /\ b = m * k + (b % m)
  OBVIOUS
<1>1. /\ q \in Nat /\ k \in Nat /\ a % m \in Nat
      /\ a = m * q + (a % m) /\ b = m * k + (a % m)
  BY <1>a, <1>b
<1>. HIDE DEF q, k
<1>2. m * q < m * k /\ m * k < m * q + m
  BY <1>1
<1>3. q < k
  BY <1>1, <1>2
<1>4. m * k >= m * (q + 1)
  BY <1>1, <1>3
<1>5. m * (q + 1) = m * q + m
  BY <1>1
<1>. QED
  BY <1>1, <1>2, <1>4, <1>5

LEMMA ModStep ==
    ASSUME NEW m \in Nat \ {0}, NEW a \in Nat
    PROVE  (a + m) % m = a % m
<1>. DEFINE q == a \div m  r == a % m  k == (a + m) \div m  t == (a + m) % m
<1>1. q \in Nat /\ r \in 0..(m - 1) /\ a = m * q + r
  BY DivMod
<1>2. k \in Nat /\ t \in 0..(m - 1) /\ a + m = m * k + t
  BY a + m \in Nat
<1>. HIDE DEF q, r, k, t
<1>3. m * (q + 1) = m * q + m
  BY <1>1
<1>4. m * (q + 1) + r = m * k + t /\ q + 1 \in Nat
  BY <1>1, <1>2, <1>3
<1>5. r = t
  BY <1>1, <1>2, <1>4, DivModUnique
<1>. QED
  BY <1>5 DEF r, t

LEMMA ModSmall ==
    ASSUME NEW m \in Nat \ {0}, NEW a \in 0..(m - 1)
    PROVE  a % m = a
<1>. DEFINE k == a \div m  t == a % m
<1>1. k \in Nat /\ t \in 0..(m - 1) /\ a = m * k + t
  BY a \in Nat
<1>. HIDE DEF k, t
<1>2. m * 0 + a = m * k + t
  BY <1>1
<1>3. a = t
  BY <1>1, <1>2, DivModUnique
<1>. QED
  BY <1>3 DEF t
-----------------------------------------------------------------------------
(***************************************************************************)
(* The records of the two endpoints, field by field.                       *)
(***************************************************************************)
LEMMA Constants ==
    /\ Window \in Nat \ {0} /\ Credits \in Nat \ {0} /\ MaxReqs \in Nat
    /\ None \notin Requests
    /\ \A r \in Requests : ReqPkts[r] \in Nat \ {0} /\ RespPkts[r] \in Nat \ {0}
BY SessionAssumption, MessageAssumption DEF Requests

LEMMA ClientFields ==
    ASSUME NEW c \in Clients
    PROVE  /\ c.credits \in Nat /\ c.free \in Seq(Slots) /\ c.backlog \in Seq(Requests)
           /\ c.stallq \in Seq(Slots) /\ c.wheel \in SUBSET (Slots \X Nat)
           /\ c.out \in SUBSET Packets
           /\ \A s \in Slots :
                 /\ c.slot[s] \in ClientSlots
                 /\ c.slot[s].req \in Ids /\ c.slot[s].req_num \in Nat
                 /\ c.slot[s].num_tx \in Nat /\ c.slot[s].num_rx \in Nat
                 /\ c.slot[s].resp_pkts \in Nat /\ c.slot[s].resp \in Seq(Ids)
                 /\ c.slot[s].in_wheel \in SUBSET Nat /\ c.slot[s].wheel_count \in Nat
                 /\ c.slot[s].req # None => c.slot[s].req \in Requests
BY DEF Clients, ClientSlots, Ids

LEMMA ServerFields ==
    ASSUME NEW v \in Servers
    PROVE  /\ v.out \in SUBSET Packets
           /\ \A s \in Slots :
                 /\ v.slot[s] \in ServerSlots
                 /\ v.slot[s].req_num \in Nat /\ v.slot[s].num_rx \in Nat
                 /\ v.slot[s].body \in Seq(Ids) /\ v.slot[s].busy \in BOOLEAN
                 /\ v.slot[s].resp \in Ids /\ v.slot[s].sav \in Nat
                 /\ v.slot[s].resp # None => v.slot[s].resp \in Requests
BY DEF Servers, ServerSlots, Ids

LEMMA PacketFields ==
    ASSUME NEW p \in Packets
    PROVE  /\ p.req_num \in Nat /\ p.pkt_num \in Nat /\ p.pkts \in Nat /\ p.data \in Ids
           /\ p.type \in {"kReq", "kRFR", "kExplCR", "kResp"}
           /\ SlotOf(p) \in Slots
<1>1. p.req_num \in Nat /\ p.pkt_num \in Nat /\ p.pkts \in Nat /\ p.data \in Ids /\ p.type \in PktTypes
  BY DEF Packets
<1>2. p.req_num % Window \in 0..(Window - 1)
  BY <1>1, Constants, DivMod
<1>. QED
  BY <1>1, <1>2 DEF SlotOf, Slots, PktTypes

LEMMA PktFields ==
    ASSUME NEW type \in PktTypes, NEW r \in Nat, NEW k \in Nat, NEW pkts \in Nat,
           NEW data \in Ids
    PROVE  LET p == Pkt(type, r, k, pkts, data)
           IN  /\ p \in Packets /\ p.type = type /\ p.req_num = r /\ p.pkt_num = k
               /\ p.pkts = pkts /\ p.data = data
BY DEF Pkt, Packets

(***************************************************************************)
(* What the operators of the client change.  OnlySlot and SameRequests     *)
(* say what most of them leave alone.                                      *)
(***************************************************************************)
OnlySlot(c, d, s) == \A t \in Slots \ {s} : d.slot[t] = c.slot[t]

SameRequests(c, d) ==
    \A t \in Slots : d.slot[t].req = c.slot[t].req /\ d.slot[t].req_num = c.slot[t].req_num

(* k packets of slot s are sent. *)
Sends(c, d, s, k) ==
    /\ d \in Clients /\ k \in Nat
    /\ d.free = c.free /\ d.backlog = c.backlog /\ d.stallq = c.stallq
    /\ OnlySlot(c, d, s) /\ SameRequests(c, d)
    /\ k <= c.credits /\ d.credits = c.credits - k
    /\ c.credits > 0 => k > 0
    /\ d.slot[s].num_tx = c.slot[s].num_tx + k
    /\ d.slot[s].num_rx = c.slot[s].num_rx
    /\ d.slot[s].resp_pkts = c.slot[s].resp_pkts /\ d.slot[s].resp = c.slot[s].resp

(* They are request packets, sent at once or put into the wheel. *)
SendsReq(c, d, s, k) ==
    LET sl == c.slot[s]
        nums == sl.num_tx .. (sl.num_tx + k - 1)
    IN  /\ Sends(c, d, s, k) /\ k <= ReqPkts[sl.req] - sl.num_tx
        /\ \/ /\ d.out = c.out \cup {ReqPkt(sl, n) : n \in nums}
              /\ d.wheel = c.wheel
              /\ d.slot[s].wheel_count = sl.wheel_count
              /\ d.slot[s].in_wheel = sl.in_wheel
           \/ /\ d.out = c.out
              /\ d.wheel = c.wheel \cup {<<s, n>> : n \in nums}
              /\ d.slot[s].wheel_count = sl.wheel_count + k
              /\ d.slot[s].in_wheel = sl.in_wheel \cup {n % Credits : n \in nums}

SendsRfr(c, d, s, k) ==
    LET sl == c.slot[s]
    IN  /\ Sends(c, d, s, k) /\ k <= wire_pkts(sl) - sl.num_tx
        /\ d.out = c.out \cup {RfrPkt(sl, n) : n \in sl.num_tx .. (sl.num_tx + k - 1)}
        /\ d.wheel = c.wheel
        /\ d.slot[s].wheel_count = sl.wheel_count
        /\ d.slot[s].in_wheel = sl.in_wheel

LEMMA KickReqSends ==
    ASSUME NEW c \in Clients, NEW s \in Slots, NEW u, c.slot[s].req \in Requests,
           c.slot[s].num_tx < ReqPkts[c.slot[s].req]
    PROVE  \E k \in Nat : SendsReq(c, kick_req(c, s, u), s, k)
<1>. DEFINE sl == c.slot[s]
            k == Lesser(c.credits, ReqPkts[sl.req] - sl.num_tx)
            nums == sl.num_tx .. (sl.num_tx + k - 1)
            reqs == {ReqPkt(sl, n) : n \in nums}
            ents == {<<s, n>> : n \in nums}
            mods == {n % Credits : n \in nums}
            bypass == can_bypass_wheel(sl, u)
            new == [sl EXCEPT
               !.num_tx = @ + k,
               !.wheel_count = IF bypass THEN @ ELSE @ + k,
               !.in_wheel = IF bypass THEN @ ELSE @ \cup mods]
            d == kick_req(c, s, u)
<1>1. /\ k \in Nat /\ k <= c.credits /\ k <= ReqPkts[sl.req] - sl.num_tx
      /\ c.credits > 0 => k > 0
  BY ClientFields, Constants DEF Lesser
<1>2. d = [c EXCEPT
           !.credits = @ - k,
           !.out = IF bypass THEN @ \cup reqs ELSE @,
           !.wheel = IF bypass THEN @ ELSE @ \cup ents,
           !.slot[s] = new]
  BY DEF kick_req
<1>3. nums \subseteq Nat
  BY <1>1, ClientFields
<1>4. reqs \subseteq Packets
  <2>. SUFFICES ASSUME NEW n \in nums PROVE ReqPkt(sl, n) \in Packets
    OBVIOUS
  <2>1. n \in Nat /\ sl.req_num \in Nat /\ ReqPkts[sl.req] \in Nat /\ sl.req \in Ids
    BY <1>3, ClientFields, Constants DEF Ids
  <2>. QED
    BY <2>1, PktFields DEF ReqPkt, PktTypes
<1>5. mods \subseteq Nat
  <2>. SUFFICES ASSUME NEW n \in nums PROVE n % Credits \in Nat
    OBVIOUS
  <2>. QED
    BY <1>3, Constants, DivMod
<1>6. ents \subseteq Slots \X Nat
  BY <1>3
<1>. HIDE DEF k, nums, reqs, ents, mods, bypass, d
<1>7. new \in ClientSlots
  <2>. DEFINE tx == sl.num_tx + k
              count == IF bypass THEN sl.wheel_count ELSE sl.wheel_count + k
              flags == IF bypass THEN sl.in_wheel ELSE sl.in_wheel \cup mods
  <2>1. sl \in ClientSlots /\ tx \in Nat /\ count \in Nat /\ flags \in SUBSET Nat
    <3>1. sl \in ClientSlots /\ sl.num_tx \in Nat /\ sl.wheel_count \in Nat
          /\ sl.in_wheel \in SUBSET Nat
      BY ClientFields
    <3>. HIDE DEF sl
    <3>2. tx \in Nat /\ count \in Nat
      BY <3>1, <1>1
    <3>3. flags \in SUBSET Nat
      BY <3>1, <1>5
    <3>. QED
      BY <3>1, <3>2, <3>3
  <2>2. new = [sl EXCEPT !.num_tx = tx, !.wheel_count = count, !.in_wheel = flags]
    OBVIOUS
  <2>. HIDE DEF new, sl, tx, count, flags
  <2>. QED
    BY <2>1, <2>2 DEF ClientSlots
<1>8. d \in Clients
  <2>. DEFINE slots == [c.slot EXCEPT ![s] = new]
              left == c.credits - k
              o == IF bypass THEN c.out \cup reqs ELSE c.out
              w == IF bypass THEN c.wheel ELSE c.wheel \cup ents
  <2>1. /\ slots \in [Slots -> ClientSlots] /\ left \in Nat
        /\ o \in SUBSET Packets /\ w \in SUBSET (Slots \X Nat)
    <3>. HIDE DEF new
    <3>1. slots \in [Slots -> ClientSlots]
      BY <1>7 DEF Clients
    <3>. QED
      BY <3>1, <1>1, <1>4, <1>6, ClientFields
  <2>2. d = [c EXCEPT !.credits = left, !.out = o, !.wheel = w, !.slot = slots]
    BY <1>2
  <2>. HIDE DEF slots, left, o, w
  <2>. QED
    BY <2>1, <2>2 DEF Clients
<1>9. /\ d.free = c.free /\ d.backlog = c.backlog /\ d.stallq = c.stallq
      /\ d.slot = [c.slot EXCEPT ![s] = new] /\ d.credits = c.credits - k
      /\ d.out = IF bypass THEN c.out \cup reqs ELSE c.out
      /\ d.wheel = IF bypass THEN c.wheel ELSE c.wheel \cup ents
  BY <1>2 DEF Clients
<1>10. d.slot[s] = new /\ OnlySlot(c, d, s)
  BY <1>9 DEF Clients, OnlySlot
<1>11. /\ new.req = sl.req /\ new.req_num = sl.req_num /\ new.num_rx = sl.num_rx
       /\ new.num_tx = sl.num_tx + k
       /\ new.resp_pkts = sl.resp_pkts /\ new.resp = sl.resp
       /\ new.wheel_count = (IF bypass THEN sl.wheel_count ELSE sl.wheel_count + k)
       /\ new.in_wheel = (IF bypass THEN sl.in_wheel ELSE sl.in_wheel \cup mods)
  BY DEF Clients, ClientSlots
<1>. HIDE DEF new
<1>12. SameRequests(c, d)
  BY <1>10, <1>11 DEF SameRequests, OnlySlot
<1>13. Sends(c, d, s, k)
  BY <1>1, <1>8, <1>9, <1>10, <1>11, <1>12 DEF Sends
<1>. QED
  BY <1>1, <1>9, <1>10, <1>11, <1>13 DEF SendsReq, d, nums, reqs, ents, mods

LEMMA SlotUpdates ==
    ASSUME NEW sl \in ClientSlots, NEW k \in Nat
    PROVE  /\ [sl EXCEPT !.num_tx = k] \in ClientSlots
           /\ [sl EXCEPT !.num_rx = k] \in ClientSlots
           /\ [sl EXCEPT !.req = None] \in ClientSlots
BY DEF ClientSlots, Ids

LEMMA KickRfrSends ==
    ASSUME NEW c \in Clients, NEW s \in Slots, c.slot[s].req \in Requests,
           wire_pkts(c.slot[s]) \in Nat, c.slot[s].num_tx < wire_pkts(c.slot[s])
    PROVE  \E k \in Nat : SendsRfr(c, kick_rfr(c, s), s, k)
<1>. DEFINE sl == c.slot[s]
            k == Lesser(c.credits, wire_pkts(sl) - sl.num_tx)
            nums == sl.num_tx .. (sl.num_tx + k - 1)
            rfrs == {RfrPkt(sl, n) : n \in nums}
            new == [sl EXCEPT !.num_tx = @ + k]
            d == kick_rfr(c, s)
<1>0. /\ sl \in ClientSlots /\ sl.num_tx \in Nat /\ sl.req_num \in Nat
      /\ c.credits \in Nat /\ c.out \in SUBSET Packets
  BY ClientFields
<1>1. /\ k \in Nat /\ k <= c.credits /\ k <= wire_pkts(sl) - sl.num_tx
      /\ c.credits > 0 => k > 0
  BY <1>0 DEF Lesser
<1>2. d = [c EXCEPT !.credits = @ - k, !.out = @ \cup rfrs, !.slot[s] = new]
  BY DEF kick_rfr
<1>3. nums \subseteq Nat
  BY <1>0, <1>1
<1>4. rfrs \subseteq Packets
  <2>. SUFFICES ASSUME NEW n \in nums PROVE RfrPkt(sl, n) \in Packets
    OBVIOUS
  <2>1. n \in Nat /\ None \in Ids
    BY <1>3 DEF Ids
  <2>. QED
    BY <2>1, <1>0, PktFields DEF RfrPkt, PktTypes
<1>. HIDE DEF k, nums, rfrs, d
<1>5. new \in ClientSlots
  BY <1>0, <1>1, sl.num_tx + k \in Nat, SlotUpdates
<1>6. d \in Clients
  <2>. DEFINE slots == [c.slot EXCEPT ![s] = new]
              left == c.credits - k
              o == c.out \cup rfrs
  <2>1. slots \in [Slots -> ClientSlots] /\ left \in Nat /\ o \in SUBSET Packets
    <3>. HIDE DEF new
    <3>1. slots \in [Slots -> ClientSlots]
      BY <1>5 DEF Clients
    <3>. QED
      BY <3>1, <1>0, <1>1, <1>4
  <2>2. d = [c EXCEPT !.credits = left, !.out = o, !.slot = slots]
    BY <1>2
  <2>. HIDE DEF slots, left, o
  <2>. QED
    BY <2>1, <2>2 DEF Clients
<1>7. /\ d.free = c.free /\ d.backlog = c.backlog /\ d.stallq = c.stallq
      /\ d.slot = [c.slot EXCEPT ![s] = new] /\ d.credits = c.credits - k
      /\ d.out = c.out \cup rfrs /\ d.wheel = c.wheel
  BY <1>2 DEF Clients
<1>8. d.slot[s] = new /\ OnlySlot(c, d, s)
  BY <1>7 DEF Clients, OnlySlot
<1>9. /\ new.req = sl.req /\ new.req_num = sl.req_num /\ new.num_rx = sl.num_rx
      /\ new.num_tx = sl.num_tx + k
      /\ new.resp_pkts = sl.resp_pkts /\ new.resp = sl.resp
      /\ new.wheel_count = sl.wheel_count /\ new.in_wheel = sl.in_wheel
  BY DEF Clients, ClientSlots
<1>. HIDE DEF new
<1>10. SameRequests(c, d)
  BY <1>8, <1>9 DEF SameRequests, OnlySlot
<1>11. Sends(c, d, s, k)
  BY <1>1, <1>6, <1>7, <1>8, <1>9, <1>10 DEF Sends
<1>. QED
  BY <1>1, <1>7, <1>8, <1>9, <1>11 DEF SendsRfr, d, nums, rfrs

(* What most other operators leave alone: the queues of slots, and what    *)
(* is to be transmitted.                                                   *)
SameQueues(c, d) == d.free = c.free /\ d.backlog = c.backlog /\ d.stallq = c.stallq

SameTx(c, d, s) ==
    /\ d.out = c.out /\ d.wheel = c.wheel
    /\ d.slot[s].wheel_count = c.slot[s].wheel_count
    /\ d.slot[s].in_wheel = c.slot[s].in_wheel

(* An answer to slot s is taken. *)
Takes(c, d, s) ==
    /\ d \in Clients /\ SameQueues(c, d) /\ SameTx(c, d, s)
    /\ OnlySlot(c, d, s) /\ SameRequests(c, d)
    /\ d.credits = c.credits + 1
    /\ d.slot[s].num_tx = c.slot[s].num_tx /\ d.slot[s].num_rx = c.slot[s].num_rx + 1

LEMMA AnsweredTakes ==
    ASSUME NEW c \in Clients, NEW s \in Slots
    PROVE  LET d == Answered(c, s)
           IN  /\ Takes(c, d, s)
               /\ d.slot[s].resp_pkts = c.slot[s].resp_pkts /\ d.slot[s].resp = c.slot[s].resp
<1>. DEFINE d == Answered(c, s)
            new == [c.slot[s] EXCEPT !.num_rx = @ + 1]
            slots == [c.slot EXCEPT ![s] = new]
            more == c.credits + 1
<1>1. new \in ClientSlots /\ more \in Nat
  <2>1. c.slot[s] \in ClientSlots /\ c.slot[s].num_rx + 1 \in Nat /\ c.credits + 1 \in Nat
    BY ClientFields
  <2>. QED
    BY <2>1, SlotUpdates
<1>2. d = [c EXCEPT !.credits = more, !.slot = slots]
  BY DEF Answered
<1>3. /\ new.req = c.slot[s].req /\ new.req_num = c.slot[s].req_num
      /\ new.num_tx = c.slot[s].num_tx /\ new.num_rx = c.slot[s].num_rx + 1
      /\ new.resp_pkts = c.slot[s].resp_pkts /\ new.resp = c.slot[s].resp
      /\ new.wheel_count = c.slot[s].wheel_count /\ new.in_wheel = c.slot[s].in_wheel
  BY ClientFields DEF ClientSlots
<1>. HIDE DEF new, d
<1>4. slots \in [Slots -> ClientSlots] /\ slots[s] = new
      /\ \A t \in Slots \ {s} : slots[t] = c.slot[t]
  BY <1>1 DEF Clients
<1>. HIDE DEF slots, more
<1>5. /\ d \in Clients /\ d.slot = slots /\ d.credits = more
      /\ SameQueues(c, d) /\ d.out = c.out /\ d.wheel = c.wheel
  BY <1>1, <1>2, <1>4 DEF Clients, SameQueues
<1>6. OnlySlot(c, d, s) /\ SameRequests(c, d) /\ SameTx(c, d, s)
  BY <1>3, <1>4, <1>5 DEF OnlySlot, SameRequests, SameTx
<1>. QED
  BY <1>3, <1>4, <1>5, <1>6 DEF Takes, more, d

LEMMA BlankSeq ==
    ASSUME NEW k \in Nat
    PROVE  Blank(k) \in Seq(Ids)
<1>1. Blank(k) \in [1..k -> Ids]
  BY DEF Blank, Ids
<1>. QED
  BY <1>1, SeqDef

LEMMA ExceptIsSeq ==
    ASSUME NEW S, NEW q \in Seq(S), NEW i, NEW e \in S
    PROVE  [q EXCEPT ![i] = e] \in Seq(S)
<1>1. Len(q) \in Nat /\ q \in [1..Len(q) -> S]
  BY LenProperties
<1>2. [q EXCEPT ![i] = e] \in [1..Len(q) -> S]
  BY <1>1
<1>. QED
  BY <1>1, <1>2, SeqDef

(* The part of TakeResp before the requests for the rest. *)
Copied(c, s, p) ==
    LET sl == c.slot[s]
        first == p.pkts = 1 \/ p.pkt_num = ReqPkts[sl.req] - 1
    IN  [Answered(c, s) EXCEPT
           !.slot[s].resp_pkts = IF first THEN p.pkts ELSE @,
           !.slot[s].resp = [(IF first THEN Blank(p.pkts) ELSE @)
               EXCEPT ![1 + resp_ntoi(p.pkt_num, ReqPkts[sl.req])] = p.data]]

LEMMA CopiedTakes ==
    ASSUME NEW c \in Clients, NEW s \in Slots, NEW p \in Packets
    PROVE  LET d == Copied(c, s, p)
               sl == c.slot[s]
               first == p.pkts = 1 \/ p.pkt_num = ReqPkts[sl.req] - 1
           IN  /\ Takes(c, d, s)
               /\ d.slot[s].resp_pkts = IF first THEN p.pkts ELSE sl.resp_pkts
               /\ d.slot[s].resp = [(IF first THEN Blank(p.pkts) ELSE sl.resp)
                      EXCEPT ![1 + resp_ntoi(p.pkt_num, ReqPkts[sl.req])] = p.data]
<1>. DEFINE a == Answered(c, s)
            sl == c.slot[s]
            first == p.pkts = 1 \/ p.pkt_num = ReqPkts[sl.req] - 1
            pkts == IF first THEN p.pkts ELSE sl.resp_pkts
            old == IF first THEN Blank(p.pkts) ELSE sl.resp
            resp == [old EXCEPT ![1 + resp_ntoi(p.pkt_num, ReqPkts[sl.req])] = p.data]
            new == [a.slot[s] EXCEPT !.resp_pkts = pkts, !.resp = resp]
            slots == [a.slot EXCEPT ![s] = new]
            d == Copied(c, s, p)
<1>0. /\ Takes(c, a, s)
      /\ a.slot[s].resp_pkts = sl.resp_pkts /\ a.slot[s].resp = sl.resp
  BY AnsweredTakes
<1>1. a \in Clients /\ a.slot[s] \in ClientSlots
  BY <1>0, ClientFields DEF Takes
<1>2. pkts \in Nat /\ resp \in Seq(Ids)
  <2>1. sl.resp_pkts \in Nat /\ sl.resp \in Seq(Ids) /\ p.pkts \in Nat /\ p.data \in Ids
    BY ClientFields, PacketFields
  <2>2. old \in Seq(Ids)
    BY <2>1, BlankSeq
  <2>. QED
    BY <2>1, <2>2, ExceptIsSeq
<1>3. d = [a EXCEPT !.slot = slots]
  <2>1. d = [a EXCEPT !.slot[s].resp_pkts = pkts,
                      !.slot[s].resp = [(IF first THEN Blank(p.pkts) ELSE a.slot[s].resp)
                          EXCEPT ![1 + resp_ntoi(p.pkt_num, ReqPkts[sl.req])] = p.data]]
    <3>. HIDE DEF a
    <3>1. s \in DOMAIN a.slot
      BY <1>1 DEF Clients
    <3>. QED
      BY <1>0, <1>1, <3>1 DEF Copied, Clients, ClientSlots, a
  <2>2. d = [a EXCEPT !.slot[s].resp_pkts = pkts, !.slot[s].resp = resp]
    BY <1>0, <2>1
  <2>. HIDE DEF pkts, resp, a, d
  <2>. QED
    BY <1>1, <2>2 DEF Clients, ClientSlots
<1>. HIDE DEF a, pkts, resp, d
<1>4. /\ new \in ClientSlots
      /\ new.req = a.slot[s].req /\ new.req_num = a.slot[s].req_num
      /\ new.num_tx = a.slot[s].num_tx /\ new.num_rx = a.slot[s].num_rx
      /\ new.resp_pkts = pkts /\ new.resp = resp
      /\ new.wheel_count = a.slot[s].wheel_count /\ new.in_wheel = a.slot[s].in_wheel
  BY <1>1, <1>2 DEF ClientSlots
<1>. HIDE DEF new
<1>5. slots \in [Slots -> ClientSlots] /\ slots[s] = new
      /\ \A t \in Slots \ {s} : slots[t] = a.slot[t]
  BY <1>1, <1>4 DEF Clients
<1>. HIDE DEF slots
<1>6. /\ d \in Clients /\ d.slot = slots /\ d.credits = a.credits
      /\ SameQueues(a, d) /\ d.out = a.out /\ d.wheel = a.wheel
  BY <1>1, <1>3, <1>5 DEF Clients, SameQueues
<1>7. OnlySlot(c, d, s)
  BY <1>0, <1>5, <1>6 DEF OnlySlot, Takes
<1>8. SameRequests(c, d)
  BY <1>0, <1>4, <1>5, <1>6 DEF SameRequests, Takes, OnlySlot
<1>9. SameTx(c, d, s) /\ SameQueues(c, d)
  BY <1>0, <1>4, <1>5, <1>6 DEF SameTx, Takes, SameQueues
<1>10. Takes(c, d, s)
  BY <1>0, <1>4, <1>5, <1>6, <1>7, <1>8, <1>9 DEF Takes
<1>. QED
  BY <1>4, <1>5, <1>6, <1>10 DEF d, pkts, resp

(* The part of FinishRequest, of enqueue_request and of ProcessStallQueue  *)
(* before the slot sends.                                                  *)
Freed(c, s) == [c EXCEPT !.slot[s].req = None, !.free = Append(@, s)]

Started(c, s, r) ==
    [c EXCEPT !.free = SubSeq(@, 1, Len(@) - 1), !.slot[s] = StartRequest(@, r)]

Popped(c) == [c EXCEPT !.stallq = Tail(@)]

(* The fields of one slot that only its request's packets change. *)
SameProgress(a, b) ==
    /\ b.num_tx = a.num_tx /\ b.num_rx = a.num_rx /\ b.resp_pkts = a.resp_pkts
    /\ b.resp = a.resp

LEMMA RollBackFields ==
    ASSUME NEW c \in Clients, NEW s \in Slots, c.slot[s].num_rx <= c.slot[s].num_tx
    PROVE  LET d == RollBack(c, s)
           IN  /\ d \in Clients /\ SameQueues(c, d) /\ SameTx(c, d, s)
               /\ OnlySlot(c, d, s) /\ SameRequests(c, d)
               /\ d.credits = c.credits + (c.slot[s].num_tx - c.slot[s].num_rx)
               /\ d.slot[s].num_tx = c.slot[s].num_rx /\ d.slot[s].num_rx = c.slot[s].num_rx
               /\ d.slot[s].resp_pkts = c.slot[s].resp_pkts
               /\ d.slot[s].resp = c.slot[s].resp
<1>. DEFINE d == RollBack(c, s)
            new == [c.slot[s] EXCEPT !.num_tx = c.slot[s].num_rx]
            slots == [c.slot EXCEPT ![s] = new]
            more == c.credits + (c.slot[s].num_tx - c.slot[s].num_rx)
<1>1. new \in ClientSlots /\ more \in Nat
  <2>1. /\ c.slot[s] \in ClientSlots /\ c.slot[s].num_rx \in Nat
        /\ c.slot[s].num_tx \in Nat /\ c.credits \in Nat
    BY ClientFields
  <2>2. new \in ClientSlots
    BY <2>1, SlotUpdates
  <2>3. more \in Nat
    BY <2>1
  <2>. QED
    BY <2>2, <2>3
<1>2. d = [c EXCEPT !.credits = more, !.slot = slots]
  BY DEF RollBack
<1>3. /\ new.req = c.slot[s].req /\ new.req_num = c.slot[s].req_num
      /\ new.num_tx = c.slot[s].num_rx /\ new.num_rx = c.slot[s].num_rx
      /\ new.resp_pkts = c.slot[s].resp_pkts /\ new.resp = c.slot[s].resp
      /\ new.wheel_count = c.slot[s].wheel_count /\ new.in_wheel = c.slot[s].in_wheel
  BY ClientFields DEF ClientSlots
<1>. HIDE DEF new, d
<1>4. slots \in [Slots -> ClientSlots] /\ slots[s] = new
      /\ \A t \in Slots \ {s} : slots[t] = c.slot[t]
  BY <1>1 DEF Clients
<1>. HIDE DEF slots, more
<1>5. /\ d \in Clients /\ d.slot = slots /\ d.credits = more
      /\ SameQueues(c, d) /\ d.out = c.out /\ d.wheel = c.wheel
  BY <1>1, <1>2, <1>4 DEF Clients, SameQueues
<1>6. OnlySlot(c, d, s) /\ SameRequests(c, d) /\ SameTx(c, d, s)
  BY <1>3, <1>4, <1>5 DEF OnlySlot, SameRequests, SameTx
<1>. QED
  BY <1>3, <1>4, <1>5, <1>6 DEF more, d

LEMMA FreedFields ==
    ASSUME NEW c \in Clients, NEW s \in Slots
    PROVE  LET d == Freed(c, s)
           IN  /\ d \in Clients /\ d.backlog = c.backlog /\ d.stallq = c.stallq
               /\ d.free = Append(c.free, s) /\ d.credits = c.credits
               /\ OnlySlot(c, d, s) /\ SameTx(c, d, s)
               /\ d.slot[s].req = None /\ d.slot[s].req_num = c.slot[s].req_num
               /\ SameProgress(c.slot[s], d.slot[s])
<1>. DEFINE d == Freed(c, s)
            new == [c.slot[s] EXCEPT !.req = None]
            slots == [c.slot EXCEPT ![s] = new]
            free == Append(c.free, s)
<1>1. new \in ClientSlots /\ free \in Seq(Slots)
  <2>1. c.slot[s] \in ClientSlots /\ c.free \in Seq(Slots)
    BY ClientFields
  <2>2. new \in ClientSlots
    BY <2>1, SlotUpdates, 0 \in Nat
  <2>3. free \in Seq(Slots)
    BY <2>1, AppendProperties
  <2>. QED
    BY <2>2, <2>3
<1>2. d = [c EXCEPT !.slot = slots, !.free = free]
  BY DEF Freed
<1>3. /\ new.req = None /\ new.req_num = c.slot[s].req_num
      /\ SameProgress(c.slot[s], new)
      /\ new.wheel_count = c.slot[s].wheel_count /\ new.in_wheel = c.slot[s].in_wheel
  BY ClientFields DEF ClientSlots, SameProgress
<1>. HIDE DEF new, d
<1>4. slots \in [Slots -> ClientSlots] /\ slots[s] = new
      /\ \A t \in Slots \ {s} : slots[t] = c.slot[t]
  BY <1>1 DEF Clients
<1>. HIDE DEF slots, free
<1>5. /\ d \in Clients /\ d.slot = slots /\ d.free = free /\ d.credits = c.credits
      /\ d.backlog = c.backlog /\ d.stallq = c.stallq /\ d.out = c.out /\ d.wheel = c.wheel
  BY <1>1, <1>2, <1>4 DEF Clients
<1>6. OnlySlot(c, d, s) /\ SameTx(c, d, s)
  BY <1>3, <1>4, <1>5 DEF OnlySlot, SameTx
<1>. QED
  BY <1>3, <1>4, <1>5, <1>6 DEF free, d

LEMMA StartedFields ==
    ASSUME NEW c \in Clients, NEW s \in Slots, NEW r \in Requests, c.free # <<>>
    PROVE  LET d == Started(c, s, r)
           IN  /\ d \in Clients /\ d.backlog = c.backlog /\ d.stallq = c.stallq
               /\ d.free = SubSeq(c.free, 1, Len(c.free) - 1) /\ d.credits = c.credits
               /\ OnlySlot(c, d, s) /\ SameTx(c, d, s)
               /\ d.slot[s].req = r /\ d.slot[s].req_num = c.slot[s].req_num + Window
               /\ d.slot[s].num_tx = 0 /\ d.slot[s].num_rx = 0
<1>. DEFINE d == Started(c, s, r)
            num == c.slot[s].req_num + Window
            new == [c.slot[s] EXCEPT !.req = r, !.req_num = num, !.num_tx = 0, !.num_rx = 0]
            slots == [c.slot EXCEPT ![s] = new]
            free == SubSeq(c.free, 1, Len(c.free) - 1)
<1>1. new \in ClientSlots /\ free \in Seq(Slots)
  <2>1. c.slot[s] \in ClientSlots /\ c.slot[s].req_num \in Nat /\ c.free \in Seq(Slots)
    BY ClientFields
  <2>2. num \in Nat
    BY <2>1, Constants
  <2>. HIDE DEF num
  <2>3. new \in ClientSlots
    BY <2>1, <2>2 DEF ClientSlots, Ids
  <2>4. Len(c.free) \in Nat /\ \A i \in 1..(Len(c.free) - 1) : c.free[i] \in Slots
    BY <2>1, LenProperties, ElementOfSeq
  <2>. QED
    BY <2>3, <2>4, SubSeqProperties, 1 \in Int, Len(c.free) - 1 \in Int
<1>2. d = [c EXCEPT !.free = free, !.slot = slots]
  BY DEF Started, StartRequest
<1>3. /\ new.req = r /\ new.req_num = c.slot[s].req_num + Window
      /\ new.num_tx = 0 /\ new.num_rx = 0
      /\ new.wheel_count = c.slot[s].wheel_count /\ new.in_wheel = c.slot[s].in_wheel
  BY ClientFields DEF ClientSlots
<1>. HIDE DEF new, d
<1>4. slots \in [Slots -> ClientSlots] /\ slots[s] = new
      /\ \A t \in Slots \ {s} : slots[t] = c.slot[t]
  BY <1>1 DEF Clients
<1>. HIDE DEF slots, free
<1>5. /\ d \in Clients /\ d.slot = slots /\ d.free = free /\ d.credits = c.credits
      /\ d.backlog = c.backlog /\ d.stallq = c.stallq /\ d.out = c.out /\ d.wheel = c.wheel
  BY <1>1, <1>2, <1>4 DEF Clients
<1>6. OnlySlot(c, d, s) /\ SameTx(c, d, s)
  BY <1>3, <1>4, <1>5 DEF OnlySlot, SameTx
<1>. QED
  BY <1>3, <1>4, <1>5, <1>6 DEF free, d
-----------------------------------------------------------------------------
(***************************************************************************)
(* Counting the packets without an answer.                                 *)
(***************************************************************************)
LEMMA UnansweredElements ==
    ASSUME NEW c, NEW s, NEW i
    PROVE  <<s, i>> \in Unanswered(c)
             <=> s \in Slots /\ i \in c.slot[s].num_rx .. c.slot[s].num_tx - 1
BY DEF Unanswered

LEMMA UnansweredFinite ==
    ASSUME NEW c \in Clients
    PROVE  IsFiniteSet(Unanswered(c)) /\ Cardinality(Unanswered(c)) \in Nat
<1>. DEFINE of(s) == {s} \X (c.slot[s].num_rx .. c.slot[s].num_tx - 1)
            f == [s \in Slots |-> of(s)]
            T == {of(s) : s \in Slots}
<1>1. IsFiniteSet(Slots)
  BY Constants, FS_Interval, 0 \in Int, Window - 1 \in Int DEF Slots
<1>2. f \in Surjection(Slots, T)
  <2>. HIDE DEF of
  <2>1. f \in [Slots -> T]
    OBVIOUS
  <2>2. \A t \in T : \E s \in Slots : f[s] = t
    OBVIOUS
  <2>. QED
    BY <2>1, <2>2 DEF Surjection
<1>3. IsFiniteSet(T)
  BY <1>1, <1>2, FS_Surjection
<1>4. \A t \in T : IsFiniteSet(t)
  <2>. SUFFICES ASSUME NEW s \in Slots PROVE IsFiniteSet(of(s))
    OBVIOUS
  <2>1. c.slot[s].num_rx \in Int /\ c.slot[s].num_tx - 1 \in Int
    BY ClientFields
  <2>2. IsFiniteSet(c.slot[s].num_rx .. c.slot[s].num_tx - 1)
    BY <2>1, FS_Interval
  <2>. QED
    BY <2>2, FS_Singleton, FS_Product
<1>5. IsFiniteSet(UNION T)
  BY <1>3, <1>4, FS_UNION
<1>. QED
  BY <1>5, FS_CardinalityType DEF Unanswered

(* c has all that d has without an answer, and the packets a..b-1 of s. *)
LEMMA UnansweredMore ==
    ASSUME NEW c \in Clients, NEW d \in Clients, NEW s \in Slots, NEW a \in Nat, NEW b \in Nat,
           a <= b,
           \A t \in Slots \ {s} : /\ c.slot[t].num_tx = d.slot[t].num_tx
                                  /\ c.slot[t].num_rx = d.slot[t].num_rx,
           \A i \in Nat : i \in c.slot[s].num_rx .. c.slot[s].num_tx - 1
                            <=> \/ i \in d.slot[s].num_rx .. d.slot[s].num_tx - 1
                                \/ i \in a .. b - 1,
           \A i \in a .. b - 1 : i \notin d.slot[s].num_rx .. d.slot[s].num_tx - 1
    PROVE  Cardinality(Unanswered(c)) = Cardinality(Unanswered(d)) + (b - a)
<1>. DEFINE new == {s} \X (a .. b - 1)
<1>1. Unanswered(c) = Unanswered(d) \cup new
  <2>1. \A e \in Unanswered(c) : \E t \in Slots, i \in Nat : e = <<t, i>>
    BY ClientFields DEF Unanswered
  <2>2. \A e \in Unanswered(d) : \E t \in Slots, i \in Nat : e = <<t, i>>
    BY ClientFields DEF Unanswered
  <2>3. \A e \in new : \E t \in Slots, i \in Nat : e = <<t, i>>
    OBVIOUS
  <2>4. ASSUME NEW t \in Slots, NEW i \in Nat
        PROVE  <<t, i>> \in Unanswered(c) <=> <<t, i>> \in Unanswered(d) \cup new
    <3>1. CASE t = s
      BY <3>1, UnansweredElements
    <3>2. CASE t # s
      BY <3>2, UnansweredElements
    <3>. QED
      BY <3>1, <3>2
  <2>. QED
    BY <2>1, <2>2, <2>3, <2>4
<1>2. Unanswered(d) \cap new = {}
  <2>. SUFFICES ASSUME NEW i \in a .. b - 1, <<s, i>> \in Unanswered(d) PROVE FALSE
    OBVIOUS
  <2>. QED
    BY UnansweredElements
<1>3. IsFiniteSet(new) /\ Cardinality(new) = b - a
  <2>1. /\ IsFiniteSet(a .. b - 1)
        /\ Cardinality(a .. b - 1) = IF a > b - 1 THEN 0 ELSE (b - 1) - a + 1
    BY FS_Interval, a \in Int, b - 1 \in Int
  <2>2. IsFiniteSet({s}) /\ Cardinality({s}) = 1
    BY FS_Singleton
  <2>3. IsFiniteSet(new) /\ Cardinality(new) = 1 * Cardinality(a .. b - 1)
    BY <2>1, <2>2, FS_Product
  <2>. QED
    BY <2>1, <2>3
<1>4. Cardinality(Unanswered(d) \cup new)
         = Cardinality(Unanswered(d)) + Cardinality(new) - Cardinality(Unanswered(d) \cap new)
  BY <1>3, UnansweredFinite, FS_Union
<1>5. Cardinality(Unanswered(d) \cap new) = 0 /\ Cardinality(Unanswered(d)) \in Nat
  BY <1>2, UnansweredFinite, FS_EmptySet
<1>. HIDE DEF new
<1>. QED
  BY <1>1, <1>3, <1>4, <1>5

(* A slot has no more packets without an answer than there are credits. *)
LEMMA InFlightBound ==
    ASSUME NEW c \in Clients, NEW s \in Slots, CreditsOK(c)
    PROVE  /\ c.slot[s].num_tx <= c.slot[s].num_rx + Credits
           /\ c.credits <= Credits
           /\ c.slot[s].num_rx < c.slot[s].num_tx => c.credits < Credits
<1>. DEFINE lo == c.slot[s].num_rx  hi == c.slot[s].num_tx  of == {s} \X (lo .. hi - 1)
<1>1. lo \in Nat /\ hi \in Nat /\ c.credits \in Nat
  BY ClientFields
<1>2. of \subseteq Unanswered(c)
  BY DEF Unanswered
<1>. HIDE DEF lo, hi
<1>3. /\ IsFiniteSet(lo .. hi - 1)
      /\ Cardinality(lo .. hi - 1) = IF lo > hi - 1 THEN 0 ELSE (hi - 1) - lo + 1
  BY <1>1, FS_Interval, lo \in Int, hi - 1 \in Int
<1>4. IsFiniteSet({s}) /\ Cardinality({s}) = 1
  BY FS_Singleton
<1>5. Cardinality(of) = 1 * Cardinality(lo .. hi - 1)
  BY <1>3, <1>4, FS_Product
<1>6. Cardinality(of) <= Cardinality(Unanswered(c))
  BY <1>2, UnansweredFinite, FS_Subset
<1>7. c.credits + Cardinality(Unanswered(c)) = Credits /\ Cardinality(Unanswered(c)) \in Nat
  BY UnansweredFinite DEF CreditsOK
<1>8. hi <= lo + Credits /\ c.credits <= Credits /\ (lo < hi => c.credits < Credits)
  BY <1>1, <1>3, <1>5, <1>6, <1>7, Constants
<1>. QED
  BY <1>8 DEF lo, hi
-----------------------------------------------------------------------------
(***************************************************************************)
(* The parts of the invariant when one slot of the client changes.         *)
(***************************************************************************)
LEMMA SlotsFrame ==
    ASSUME NEW c, NEW d, NEW v, NEW s \in Slots, SlotsOK(c, v), OnlySlot(c, d, s),
           d.slot[s].req_num % Window = s, ClientSlotOK(d.slot[s]),
           SlotsMatch(d.slot[s], v.slot[s])
    PROVE  SlotsOK(d, v)
BY DEF SlotsOK, OnlySlot

LEMMA PacketsFrame ==
    ASSUME NEW c, NEW d, NEW v, NEW ps \in SUBSET Packets, SameRequests(c, d),
           PacketsOK(ps, c, v)
    PROVE  PacketsOK(ps, d, v)
<1>. SUFFICES ASSUME NEW p \in ps
              PROVE  PacketOK(p, d.slot[SlotOf(p)], v.slot[SlotOf(p)])
  BY DEF PacketsOK
<1>1. SlotOf(p) \in Slots
  BY PacketFields
<1>2. PacketOK(p, c.slot[SlotOf(p)], v.slot[SlotOf(p)])
  BY DEF PacketsOK
<1>. QED
  BY <1>1, <1>2 DEF PacketOK, ReqPktOK, SameRequests

LEMMA FreeFrame ==
    ASSUME NEW c, NEW d, SameRequests(c, d), d.free = c.free, FreeOK(c)
    PROVE  FreeOK(d)
BY DEF FreeOK, SameRequests

LEMMA StallFrame ==
    ASSUME NEW c, NEW d, NEW s \in Slots, OnlySlot(c, d, s), d.stallq = c.stallq,
           StallOK(c, {s})
    PROVE  StallOK(d, {s})
<1>1. \A t \in Slots : Stalled(d, {s}, t) <=> Stalled(c, {s}, t)
  BY DEF OnlySlot, Stalled
<1>2. \A t \in Slots : Stalled(c, {s}, t) => d.slot[t].num_tx = c.slot[t].num_tx
  BY DEF OnlySlot, Stalled
<1>. QED
  BY <1>1, <1>2 DEF StallOK

(* A slot with packets under way may be served by a handler or not. *)
LEMMA StallServed ==
    ASSUME NEW c, NEW s \in Slots, c.slot[s].req = None \/ c.slot[s].num_tx # c.slot[s].num_rx
    PROVE  StallOK(c, {s}) <=> StallOK(c, {})
<1>1. \A t \in Slots : Stalled(c, {s}, t) <=> Stalled(c, {}, t)
  BY DEF Stalled
<1>. QED
  BY <1>1 DEF StallOK

LEMMA WheelFrame ==
    ASSUME NEW c, NEW d, NEW s \in Slots, OnlySlot(c, d, s), WheelOK(c),
           \A t \in Slots \ {s} : InWheel(d, t) = InWheel(c, t), WheelSlotOK(d, s)
    PROVE  WheelOK(d)
<1>. SUFFICES ASSUME NEW t \in Slots, t # s PROVE WheelSlotOK(d, t)
  BY DEF WheelOK
<1>1. WheelSlotOK(c, t) /\ d.slot[t] = c.slot[t] /\ InWheel(d, t) = InWheel(c, t)
  BY DEF WheelOK, OnlySlot
<1>. QED
  BY <1>1 DEF WheelSlotOK

LEMMA InWheelElements ==
    ASSUME NEW c \in Clients, NEW s \in Slots, NEW i
    PROVE  i \in InWheel(c, s) <=> <<s, i>> \in c.wheel
<1>1. \A e \in c.wheel : \E t \in Slots, j \in Nat : e = <<t, j>>
  BY ClientFields
<1>. QED
  BY <1>1 DEF InWheel

LEMMA InWheelFinite ==
    ASSUME NEW c \in Clients, NEW s \in Slots, WheelOK(c)
    PROVE  /\ IsFiniteSet(InWheel(c, s)) /\ Cardinality(InWheel(c, s)) \in Nat
           /\ InWheel(c, s) \in SUBSET Nat
<1>1. c.slot[s].num_rx \in Int /\ c.slot[s].num_tx - 1 \in Int /\ c.slot[s].num_rx \in Nat
  BY ClientFields
<1>2. InWheel(c, s) \subseteq c.slot[s].num_rx .. c.slot[s].num_tx - 1
  BY DEF WheelOK, WheelSlotOK
<1>3. IsFiniteSet(InWheel(c, s))
  BY <1>1, <1>2, FS_Interval, FS_Subset
<1>. QED
  BY <1>1, <1>2, <1>3, FS_CardinalityType

(* The numbers of the packets of one slot in the wheel are less than       *)
(* kSessionCredits apart, so that their flags are different.               *)
LEMMA FlagsApart ==
    ASSUME NEW c \in Clients, NEW s \in Slots, CreditsOK(c), NEW i \in Nat, NEW j \in Nat,
           i \in c.slot[s].num_rx .. c.slot[s].num_tx - 1,
           j \in c.slot[s].num_rx .. c.slot[s].num_tx - 1, i # j
    PROVE  i % Credits # j % Credits
<1>1. c.slot[s].num_tx <= c.slot[s].num_rx + Credits /\ c.slot[s].num_rx \in Nat
      /\ c.slot[s].num_tx \in Nat
  BY InFlightBound, ClientFields
<1>2. i < j + Credits /\ j < i + Credits /\ Credits \in Nat \ {0}
  BY <1>1, Constants
<1>3. CASE i < j
  BY <1>2, <1>3, ModApart
<1>4. CASE j < i
  BY <1>2, <1>4, ModApart
<1>. QED
  BY <1>3, <1>4
-----------------------------------------------------------------------------
(***************************************************************************)
(* A slot that sends.                                                      *)
(***************************************************************************)
LEMMA SendsCredits ==
    ASSUME NEW c \in Clients, NEW d, NEW s \in Slots, NEW k, Sends(c, d, s, k), CreditsOK(c),
           c.slot[s].num_rx <= c.slot[s].num_tx
    PROVE  CreditsOK(d)
<1>. DEFINE lo == c.slot[s].num_rx  hi == c.slot[s].num_tx
<1>1. /\ d \in Clients /\ k \in Nat /\ d.credits = c.credits - k /\ c.credits \in Nat
      /\ lo \in Nat /\ hi \in Nat
      /\ d.slot[s].num_tx = hi + k /\ d.slot[s].num_rx = lo
  BY ClientFields DEF Sends
<1>2. \A t \in Slots \ {s} : /\ d.slot[t].num_tx = c.slot[t].num_tx
                             /\ d.slot[t].num_rx = c.slot[t].num_rx
  BY DEF Sends, OnlySlot
<1>3. hi + k \in Nat /\ hi <= hi + k
  BY <1>1
<1>4. \A i \in Nat : i \in d.slot[s].num_rx .. d.slot[s].num_tx - 1
                       <=> \/ i \in c.slot[s].num_rx .. c.slot[s].num_tx - 1
                           \/ i \in hi .. (hi + k) - 1
  BY <1>1
<1>5. \A i \in hi .. (hi + k) - 1 : i \notin c.slot[s].num_rx .. c.slot[s].num_tx - 1
  BY <1>1
<1>6. Cardinality(Unanswered(d)) = Cardinality(Unanswered(c)) + ((hi + k) - hi)
  <2>. HIDE DEF lo, hi
  <2>. DEFINE top == hi + k
  <2>1. top \in Nat /\ hi <= top /\ hi \in Nat
    BY <1>1, <1>3
  <2>2. /\ \A i \in Nat : i \in d.slot[s].num_rx .. d.slot[s].num_tx - 1
                       <=> \/ i \in c.slot[s].num_rx .. c.slot[s].num_tx - 1
                           \/ i \in hi .. top - 1
        /\ \A i \in hi .. top - 1 : i \notin c.slot[s].num_rx .. c.slot[s].num_tx - 1
    BY <1>4, <1>5
  <2>3. d \in Clients
    BY <1>1
  <2>. HIDE DEF top
  <2>4. Cardinality(Unanswered(d)) = Cardinality(Unanswered(c)) + (top - hi)
    BY <2>1, <2>2, <2>3, <1>2, UnansweredMore
  <2>. QED
    BY <2>4 DEF top
<1>7. Cardinality(Unanswered(c)) \in Nat /\ Cardinality(Unanswered(d)) \in Nat
  BY <1>1, UnansweredFinite
<1>. HIDE DEF lo, hi
<1>. QED
  BY <1>1, <1>6, <1>7, Constants DEF CreditsOK

(* A packet of the request in slot s is in order, whatever the server has. *)
LEMMA ReqPktIsOK ==
    ASSUME NEW c \in Clients, NEW v \in Servers, NEW s \in Slots, SlotsOK(c, v),
           c.slot[s].req \in Requests, NEW i \in Nat, i < ReqPkts[c.slot[s].req]
    PROVE  LET p == ReqPkt(c.slot[s], i)
           IN  /\ p \in Packets /\ p.type = "kReq" /\ ToServer(p) /\ SlotOf(p) = s
               /\ p.req_num = c.slot[s].req_num /\ p.pkt_num = i /\ p.data = c.slot[s].req
               /\ p.pkts = ReqPkts[c.slot[s].req]
               /\ PacketOK(p, c.slot[s], v.slot[s])
<1>. DEFINE sl == c.slot[s]  p == ReqPkt(sl, i)
<1>1. /\ sl.req_num \in Nat /\ ReqPkts[sl.req] \in Nat /\ sl.req \in Ids /\ sl.req # None
  BY ClientFields, Constants DEF Ids
<1>2. /\ p \in Packets /\ p.type = "kReq" /\ p.req_num = sl.req_num /\ p.pkt_num = i
      /\ p.pkts = ReqPkts[sl.req] /\ p.data = sl.req
  BY <1>1 DEF ReqPkt, Pkt, Packets, PktTypes
<1>3. /\ sl.req_num % Window = s /\ sl.req_num >= Window
      /\ v.slot[s].req_num = sl.req_num => ReqOf(v.slot[s]) = sl.req
  BY <1>1 DEF SlotsOK, ClientSlotOK, SlotsMatch
<1>. HIDE DEF p, sl
<1>4. ToServer(p) /\ SlotOf(p) = s
  BY <1>2, <1>3 DEF ToServer, SlotOf
<1>5. PacketOK(p, sl, v.slot[s])
  BY <1>1, <1>2, <1>3, c.slot[s].req \in Requests DEF PacketOK, ReqPktOK, sl
<1>. QED
  BY <1>2, <1>4, <1>5 DEF p, sl

LEMMA RfrPktIsOK ==
    ASSUME NEW c \in Clients, NEW v \in Servers, NEW s \in Slots, SlotsOK(c, v),
           c.slot[s].req \in Requests, c.slot[s].num_rx >= ReqPkts[c.slot[s].req],
           NEW i \in ReqPkts[c.slot[s].req] .. Wire(c.slot[s].req) - 1
    PROVE  LET p == RfrPkt(c.slot[s], i)
           IN  /\ p \in Packets /\ p.type = "kRFR" /\ ToServer(p) /\ SlotOf(p) = s
               /\ PacketOK(p, c.slot[s], v.slot[s])
<1>. DEFINE sl == c.slot[s]  p == RfrPkt(sl, i)
<1>1. /\ sl.req_num \in Nat /\ ReqPkts[sl.req] \in Nat \ {0} /\ sl.num_rx \in Nat
      /\ None \in Ids /\ sl.req # None /\ RespPkts[sl.req] \in Nat
  BY ClientFields, Constants DEF Ids
<1>2. i \in Nat
  BY <1>1 DEF Wire
<1>3. p \in Packets /\ p.type = "kRFR" /\ p.req_num = sl.req_num /\ p.pkt_num = i
  BY <1>1, <1>2 DEF RfrPkt, Pkt, Packets, PktTypes
<1>4. /\ sl.req_num % Window = s /\ sl.req_num >= Window
      /\ v.slot[s].resp = sl.req
      /\ v.slot[s].req_num # sl.req_num => sl.num_rx = 0
  BY <1>1 DEF SlotsOK, ClientSlotOK, SlotsMatch
<1>5. v.slot[s].req_num = sl.req_num
  BY <1>1, <1>4
<1>. HIDE DEF p
<1>6. ToServer(p) /\ SlotOf(p) = s
  BY <1>3, <1>4 DEF ToServer, SlotOf
<1>7. PacketOK(p, sl, v.slot[s])
  BY <1>1, <1>3, <1>4, <1>5 DEF PacketOK, RfrOK
<1>. QED
  BY <1>3, <1>6, <1>7 DEF p

LEMMA SendsReqWheel ==
    ASSUME NEW c \in Clients, NEW d, NEW s \in Slots, NEW k, SendsReq(c, d, s, k), WheelOK(c),
           c.slot[s].req \in Requests, c.slot[s].num_rx <= c.slot[s].num_tx
    PROVE  WheelOK(d)
<1>. DEFINE sl == c.slot[s]
            nums == sl.num_tx .. (sl.num_tx + k - 1)
<1>1. /\ d \in Clients /\ k \in Nat /\ OnlySlot(c, d, s)
      /\ d.slot[s].num_tx = sl.num_tx + k /\ d.slot[s].num_rx = sl.num_rx
      /\ d.slot[s].req = sl.req /\ k <= ReqPkts[sl.req] - sl.num_tx
      /\ sl.num_tx \in Nat /\ sl.num_rx \in Nat /\ ReqPkts[sl.req] \in Nat /\ sl.req # None
  BY ClientFields, Constants DEF SendsReq, Sends, SameRequests
<1>2. /\ sl.wheel_count = Cardinality(InWheel(c, s))
      /\ sl.in_wheel = {n % Credits : n \in InWheel(c, s)}
      /\ \A n \in InWheel(c, s) : n \in sl.num_rx .. sl.num_tx - 1 /\ n < ReqPkts[sl.req]
  BY DEF WheelOK, WheelSlotOK
<1>3. CASE /\ d.wheel = c.wheel
           /\ d.slot[s].wheel_count = sl.wheel_count
           /\ d.slot[s].in_wheel = sl.in_wheel
  <2>1. \A t \in Slots : InWheel(d, t) = InWheel(c, t)
    BY <1>3 DEF InWheel
  <2>2. \A n \in InWheel(c, s) : n \in sl.num_rx .. (sl.num_tx + k) - 1
    BY <1>1, <1>2
  <2>3. WheelSlotOK(d, s)
    BY <1>1, <1>2, <1>3, <2>1, <2>2 DEF WheelSlotOK
  <2>. QED
    BY <1>1, <2>1, <2>3, WheelFrame
<1>4. CASE /\ d.wheel = c.wheel \cup {<<s, n>> : n \in nums}
           /\ d.slot[s].wheel_count = sl.wheel_count + k
           /\ d.slot[s].in_wheel = sl.in_wheel \cup {n % Credits : n \in nums}
  <2>1. \A t \in Slots \ {s} : InWheel(d, t) = InWheel(c, t)
    BY <1>4 DEF InWheel
  <2>2. InWheel(d, s) = InWheel(c, s) \cup nums
    <3>1. \A i : i \in InWheel(d, s) <=> <<s, i>> \in d.wheel
      BY <1>1, InWheelElements
    <3>2. \A i : i \in InWheel(c, s) <=> <<s, i>> \in c.wheel
      BY InWheelElements
    <3>3. \A i : <<s, i>> \in {<<s, n>> : n \in nums} <=> i \in nums
      OBVIOUS
    <3>. HIDE DEF nums
    <3>. QED
      BY <1>4, <3>1, <3>2, <3>3
  <2>3. IsFiniteSet(nums) /\ Cardinality(nums) = k
    <3>1. PICK m \in Nat : m = sl.num_tx
      BY <1>1
    <3>2. k \in Nat
      BY <1>1
    <3>3. m \in Int /\ m + k - 1 \in Int
      BY ONLY m \in Nat, <3>2
    <3>4. /\ IsFiniteSet(m .. (m + k - 1))
          /\ Cardinality(m .. (m + k - 1)) = IF m > (m + k - 1) THEN 0
                                              ELSE (m + k - 1) - m + 1
      BY ONLY <3>3, FS_Interval
    <3>5. Cardinality(m .. (m + k - 1)) = k
      BY ONLY m \in Nat, <3>2, <3>4
    <3>. QED
      BY ONLY <3>1, <3>4, <3>5
  <2>4. InWheel(c, s) \cap nums = {}
    BY <1>1, <1>2
  <2>5. Cardinality(InWheel(d, s)) = Cardinality(InWheel(c, s)) + k
    <3>1. Cardinality(InWheel(c, s) \cup nums)
            = Cardinality(InWheel(c, s)) + Cardinality(nums) - Cardinality(InWheel(c, s) \cap nums)
      BY <2>3, InWheelFinite, FS_Union
    <3>2. Cardinality(InWheel(c, s) \cap nums) = 0 /\ Cardinality(InWheel(c, s)) \in Nat
      BY <2>4, InWheelFinite, FS_EmptySet
    <3>. HIDE DEF nums
    <3>. QED
      BY <1>1, <2>2, <2>3, <3>1, <3>2
  <2>6. \A n \in InWheel(d, s) : /\ n \in sl.num_rx .. (sl.num_tx + k) - 1
                                 /\ n < ReqPkts[sl.req]
    <3>1. \A n \in nums : n \in sl.num_rx .. (sl.num_tx + k) - 1 /\ n < ReqPkts[sl.req]
      BY <1>1
    <3>2. \A n \in InWheel(c, s) : n \in sl.num_rx .. (sl.num_tx + k) - 1 /\ n < ReqPkts[sl.req]
      BY <1>1, <1>2
    <3>. QED
      BY <2>2, <3>1, <3>2
  <2>7. d.slot[s].in_wheel = {n % Credits : n \in InWheel(d, s)}
    <3>. HIDE DEF nums
    <3>1. {n % Credits : n \in InWheel(c, s) \cup nums}
             = {n % Credits : n \in InWheel(c, s)} \cup {n % Credits : n \in nums}
      OBVIOUS
    <3>. QED
      BY <1>2, <1>4, <2>2, <3>1
  <2>8. WheelSlotOK(d, s)
    BY <1>1, <1>2, <1>4, <2>5, <2>6, <2>7 DEF WheelSlotOK
  <2>. QED
    BY <1>1, <2>1, <2>8, WheelFrame
<1>. QED
  BY <1>3, <1>4 DEF SendsReq

LEMMA SendsReqInv ==
    ASSUME NEW c, NEW d, NEW v, NEW n, NEW s \in Slots, NEW k, Inv(c, v, n, {s}),
           SendsReq(c, d, s, k), c.slot[s].req \in Requests,
           c.slot[s].num_tx < ReqPkts[c.slot[s].req]
    PROVE  Inv(d, v, n, {s})
<1>. DEFINE sl == c.slot[s]
<1>1. /\ c \in Clients /\ v \in Servers /\ n \in SUBSET Packets
      /\ SlotsOK(c, v) /\ PacketsOK(n \cup c.out \cup v.out, c, v) /\ WaysOK(c, v)
      /\ FreeOK(c) /\ StallOK(c, {s}) /\ CreditsOK(c) /\ WheelOK(c)
  BY DEF Inv
<1>2. /\ Sends(c, d, s, k) /\ d \in Clients /\ k \in Nat /\ OnlySlot(c, d, s)
      /\ SameRequests(c, d) /\ d.free = c.free /\ d.stallq = c.stallq
      /\ k <= ReqPkts[sl.req] - sl.num_tx
      /\ d.slot[s].num_tx = sl.num_tx + k /\ d.slot[s].num_rx = sl.num_rx
      /\ d.slot[s].req = sl.req /\ d.slot[s].req_num = sl.req_num
      /\ d.slot[s].resp_pkts = sl.resp_pkts /\ d.slot[s].resp = sl.resp
  BY DEF SendsReq, Sends, SameRequests
<1>3. /\ sl.num_tx \in Nat /\ sl.num_rx \in Nat /\ ReqPkts[sl.req] \in Nat /\ sl.req # None
      /\ sl.num_rx <= sl.num_tx /\ sl.req_num % Window = s /\ sl.req_num >= Window
      /\ SlotsMatch(sl, v.slot[s]) /\ ClientSlotOK(sl)
  BY <1>1, ClientFields, Constants DEF SlotsOK, ClientSlotOK
<1>4. SlotsOK(d, v)
  <2>1. ClientSlotOK(d.slot[s])
    BY <1>2, <1>3 DEF ClientSlotOK
  <2>2. SlotsMatch(d.slot[s], v.slot[s])
    BY <1>2, <1>3 DEF SlotsMatch
  <2>. QED
    BY <1>1, <1>2, <1>3, <2>1, <2>2, SlotsFrame
<1>5. \A p \in d.out \ c.out : \E i \in Nat : i < ReqPkts[sl.req] /\ p = ReqPkt(sl, i)
  BY <1>2, <1>3 DEF SendsReq
<1>6. \A p \in d.out \ c.out : ToServer(p) /\ PacketOK(p, c.slot[SlotOf(p)], v.slot[SlotOf(p)])
  BY <1>1, <1>5, ReqPktIsOK
<1>7. PacketsOK(n \cup d.out \cup v.out, d, v)
  <2>1. PacketsOK(n \cup d.out \cup v.out, c, v)
    BY <1>1, <1>6 DEF PacketsOK
  <2>2. n \cup d.out \cup v.out \in SUBSET Packets
    BY <1>1, <1>2, ClientFields, ServerFields
  <2>. QED
    BY <1>2, <2>1, <2>2, PacketsFrame
<1>8. WaysOK(d, v)
  BY <1>1, <1>6 DEF WaysOK
<1>9. FreeOK(d) /\ StallOK(d, {s})
  BY <1>1, <1>2, FreeFrame, StallFrame
<1>10. CreditsOK(d)
  BY <1>1, <1>2, <1>3, SendsCredits
<1>11. WheelOK(d)
  BY <1>1, <1>3, SendsReqWheel
<1>. QED
  BY <1>1, <1>2, <1>4, <1>7, <1>8, <1>9, <1>10, <1>11 DEF Inv

LEMMA SendsRfrInv ==
    ASSUME NEW c, NEW d, NEW v, NEW n, NEW s \in Slots, NEW k, Inv(c, v, n, {s}),
           SendsRfr(c, d, s, k), c.slot[s].req \in Requests,
           c.slot[s].num_rx >= ReqPkts[c.slot[s].req]
    PROVE  Inv(d, v, n, {s})
<1>. DEFINE sl == c.slot[s]
<1>1. /\ c \in Clients /\ v \in Servers /\ n \in SUBSET Packets
      /\ SlotsOK(c, v) /\ PacketsOK(n \cup c.out \cup v.out, c, v) /\ WaysOK(c, v)
      /\ FreeOK(c) /\ StallOK(c, {s}) /\ CreditsOK(c) /\ WheelOK(c)
  BY DEF Inv
<1>2. /\ Sends(c, d, s, k) /\ d \in Clients /\ k \in Nat /\ OnlySlot(c, d, s)
      /\ SameRequests(c, d) /\ d.free = c.free /\ d.stallq = c.stallq
      /\ k <= wire_pkts(sl) - sl.num_tx
      /\ d.slot[s].num_tx = sl.num_tx + k /\ d.slot[s].num_rx = sl.num_rx
      /\ d.slot[s].req = sl.req /\ d.slot[s].req_num = sl.req_num
      /\ d.slot[s].resp_pkts = sl.resp_pkts /\ d.slot[s].resp = sl.resp
      /\ d.wheel = c.wheel /\ d.slot[s].wheel_count = sl.wheel_count
      /\ d.slot[s].in_wheel = sl.in_wheel
  BY DEF SendsRfr, Sends, SameRequests
<1>3. /\ sl.num_tx \in Nat /\ sl.num_rx \in Nat /\ sl.req # None
      /\ ReqPkts[sl.req] \in Nat /\ RespPkts[sl.req] \in Nat
      /\ sl.num_rx <= sl.num_tx /\ sl.req_num % Window = s /\ sl.req_num >= Window
      /\ SlotsMatch(sl, v.slot[s]) /\ ClientSlotOK(sl) /\ sl.resp_pkts = RespPkts[sl.req]
  BY <1>1, ClientFields, Constants DEF SlotsOK, ClientSlotOK
<1>4. wire_pkts(sl) = Wire(sl.req) /\ Wire(sl.req) \in Int
  BY <1>3 DEF wire_pkts, Wire
<1>5. SlotsOK(d, v)
  <2>1. ClientSlotOK(d.slot[s])
    BY <1>2, <1>3, <1>4 DEF ClientSlotOK
  <2>2. SlotsMatch(d.slot[s], v.slot[s])
    BY <1>2, <1>3 DEF SlotsMatch
  <2>. QED
    BY <1>1, <1>2, <1>3, <2>1, <2>2, SlotsFrame
<1>6. \A p \in d.out \ c.out :
          \E i \in ReqPkts[sl.req] .. Wire(sl.req) - 1 : p = RfrPkt(sl, i)
  <2>1. \A i \in sl.num_tx .. (sl.num_tx + k - 1) : i \in ReqPkts[sl.req] .. Wire(sl.req) - 1
    BY <1>2, <1>3, <1>4
  <2>. QED
    BY <2>1 DEF SendsRfr
<1>7. \A p \in d.out \ c.out : ToServer(p) /\ PacketOK(p, c.slot[SlotOf(p)], v.slot[SlotOf(p)])
  BY <1>1, <1>6, RfrPktIsOK
<1>8. PacketsOK(n \cup d.out \cup v.out, d, v)
  <2>1. PacketsOK(n \cup d.out \cup v.out, c, v)
    BY <1>1, <1>7 DEF PacketsOK
  <2>2. n \cup d.out \cup v.out \in SUBSET Packets
    BY <1>1, <1>2, ClientFields, ServerFields
  <2>. QED
    BY <1>2, <2>1, <2>2, PacketsFrame
<1>9. WaysOK(d, v)
  BY <1>1, <1>7 DEF WaysOK
<1>10. FreeOK(d) /\ StallOK(d, {s})
  BY <1>1, <1>2, FreeFrame, StallFrame
<1>11. CreditsOK(d)
  BY <1>1, <1>2, <1>3, SendsCredits
<1>12. WheelOK(d)
  <2>1. \A t \in Slots : InWheel(d, t) = InWheel(c, t)
    BY <1>2 DEF InWheel
  <2>2. WheelSlotOK(c, s)
    BY <1>1 DEF WheelOK
  <2>3. \A i \in InWheel(c, s) : i \in sl.num_rx .. (sl.num_tx + k) - 1
    BY <1>2, <1>3, <2>2 DEF WheelSlotOK
  <2>4. WheelSlotOK(d, s)
    BY <1>2, <2>1, <2>2, <2>3 DEF WheelSlotOK
  <2>. QED
    BY <1>1, <1>2, <2>1, <2>4, WheelFrame
<1>. QED
  BY <1>1, <1>2, <1>5, <1>8, <1>9, <1>10, <1>11, <1>12 DEF Inv

(* A slot served by a handler that has packets under way again, or is free. *)
LEMMA Served ==
    ASSUME NEW c, NEW v, NEW n, NEW s \in Slots,
           c.slot[s].req = None \/ c.slot[s].num_tx # c.slot[s].num_rx
    PROVE  Inv(c, v, n, {s}) <=> Inv(c, v, n, {})
BY StallServed DEF Inv

LEMMA KickReqInv ==
    ASSUME NEW c, NEW v, NEW n, NEW s \in Slots, NEW u, Inv(c, v, n, {s}),
           c.slot[s].req \in Requests, c.slot[s].num_tx < ReqPkts[c.slot[s].req],
           c.credits > 0
    PROVE  LET d == kick_req(c, s, u)
           IN  /\ Inv(d, v, n, {}) /\ d.free = c.free /\ d.backlog = c.backlog
               /\ \E k \in Nat : SendsReq(c, d, s, k)
<1>. DEFINE d == kick_req(c, s, u)
<1>1. c \in Clients /\ SlotsOK(c, v)
  BY DEF Inv
<1>2. PICK k \in Nat : SendsReq(c, d, s, k)
  BY <1>1, KickReqSends
<1>. HIDE DEF d
<1>3. Inv(d, v, n, {s})
  BY <1>2, SendsReqInv
<1>4. /\ d.slot[s].num_tx = c.slot[s].num_tx + k /\ k > 0 /\ d.slot[s].num_rx = c.slot[s].num_rx
      /\ d.free = c.free /\ d.backlog = c.backlog
  BY <1>2 DEF SendsReq, Sends
<1>5. c.slot[s].num_rx <= c.slot[s].num_tx /\ c.slot[s].num_rx \in Nat /\ c.slot[s].num_tx \in Nat
  BY <1>1, ClientFields DEF SlotsOK, ClientSlotOK
<1>6. d.slot[s].num_tx # d.slot[s].num_rx
  BY <1>4, <1>5
<1>. QED
  BY <1>2, <1>3, <1>4, <1>6, Served DEF d

LEMMA KickRfrInv ==
    ASSUME NEW c, NEW v, NEW n, NEW s \in Slots, Inv(c, v, n, {s}),
           c.slot[s].req \in Requests, c.slot[s].num_rx >= ReqPkts[c.slot[s].req],
           c.slot[s].num_tx < wire_pkts(c.slot[s]), c.credits > 0
    PROVE  LET d == kick_rfr(c, s)
           IN  /\ Inv(d, v, n, {}) /\ d.free = c.free /\ d.backlog = c.backlog
               /\ \E k \in Nat : SendsRfr(c, d, s, k)
<1>. DEFINE d == kick_rfr(c, s)
<1>1. c \in Clients /\ SlotsOK(c, v)
  BY DEF Inv
<1>2. c.slot[s].num_rx <= c.slot[s].num_tx /\ c.slot[s].num_rx \in Nat /\ c.slot[s].num_tx \in Nat
  BY <1>1, ClientFields DEF SlotsOK, ClientSlotOK
<1>3. wire_pkts(c.slot[s]) \in Nat
  BY <1>1, <1>2, ClientFields, Constants DEF wire_pkts
<1>4. PICK k \in Nat : SendsRfr(c, d, s, k)
  BY <1>1, <1>3, KickRfrSends
<1>. HIDE DEF d
<1>5. Inv(d, v, n, {s})
  BY <1>4, SendsRfrInv
<1>6. /\ d.slot[s].num_tx = c.slot[s].num_tx + k /\ k > 0 /\ d.slot[s].num_rx = c.slot[s].num_rx
      /\ d.free = c.free /\ d.backlog = c.backlog
  BY <1>4 DEF SendsRfr, Sends
<1>7. d.slot[s].num_tx # d.slot[s].num_rx
  BY <1>2, <1>6
<1>. QED
  BY <1>4, <1>5, <1>6, <1>7, Served DEF d
-----------------------------------------------------------------------------
(***************************************************************************)
(* A slot that takes an answer or goes back.                               *)
(***************************************************************************)
LEMMA InOrderFacts ==
    ASSUME NEW c, NEW v, NEW n, Inv(c, v, n, {}), NEW p \in n, ~ToServer(p),
           in_order_client(c.slot[SlotOf(p)], p)
    PROVE  LET s == SlotOf(p)
               sl == c.slot[s]
           IN  /\ p \in Packets /\ s \in Slots /\ sl.req \in Requests
               /\ v.slot[s].req_num = sl.req_num /\ ReqOf(v.slot[s]) = sl.req
               /\ p.pkt_num = sl.num_rx /\ sl.num_rx < sl.num_tx
               /\ sl.num_rx \notin InWheel(c, s)
               /\ p.type = "kExplCR" => sl.num_rx < ReqPkts[sl.req] - 1
               /\ p.type = "kResp" =>
                     /\ v.slot[s].resp = sl.req /\ p.data = sl.req
                     /\ p.pkts = RespPkts[sl.req]
                     /\ sl.num_rx \in (ReqPkts[sl.req] - 1) .. (Wire(sl.req) - 1)
<1>. DEFINE s == SlotOf(p)  sl == c.slot[s]  vl == v.slot[s]
<1>1. /\ c \in Clients /\ v \in Servers /\ n \in SUBSET Packets /\ SlotsOK(c, v)
      /\ PacketsOK(n \cup c.out \cup v.out, c, v) /\ WheelOK(c)
  BY DEF Inv
<1>2. p \in Packets /\ s \in Slots /\ p.type \in {"kExplCR", "kResp"} /\ p.req_num \in Nat
  BY <1>1, PacketFields DEF ToServer
<1>3. /\ p.req_num = sl.req_num /\ p.pkt_num = sl.num_rx /\ sl.num_rx < sl.num_tx
      /\ (sl.num_rx % Credits) \notin sl.in_wheel
  BY DEF in_order_client
<1>4. ClientSlotOK(sl) /\ SlotsMatch(sl, vl) /\ sl.num_tx \in Nat /\ sl.num_rx \in Nat
      /\ sl.req_num \in Nat /\ vl.req_num \in Nat
  BY <1>1, <1>2, ClientFields, ServerFields DEF SlotsOK
<1>5. sl.req # None /\ sl.req \in Requests
  BY <1>1, <1>2, <1>3, <1>4, ClientFields DEF ClientSlotOK
<1>6. PacketOK(p, sl, vl)
  BY <1>1 DEF PacketsOK
<1>7. p.req_num <= vl.req_num
  BY <1>2, <1>6 DEF PacketOK, CreditReturnOK, RespPktOK
<1>8. vl.req_num = sl.req_num
  BY <1>3, <1>4, <1>7, Constants DEF SlotsMatch
<1>9. ReqOf(vl) = sl.req
  BY <1>4, <1>5, <1>8 DEF SlotsMatch
<1>10. sl.num_rx \notin InWheel(c, s)
  BY <1>1, <1>2, <1>3 DEF WheelOK, WheelSlotOK
<1>11. p.type = "kExplCR" => sl.num_rx < ReqPkts[sl.req] - 1
  BY <1>3, <1>6, <1>8, <1>9 DEF PacketOK, CreditReturnOK
<1>12. p.type = "kResp" =>
          /\ vl.resp = sl.req /\ p.data = sl.req /\ p.pkts = RespPkts[sl.req]
          /\ sl.num_rx \in (ReqPkts[sl.req] - 1) .. (Wire(sl.req) - 1)
  BY <1>3, <1>6, <1>8, <1>9 DEF PacketOK, RespPktOK, ReqOf
<1>. QED
  BY <1>2, <1>3, <1>5, <1>8, <1>9, <1>10, <1>11, <1>12

LEMMA UnansweredSame ==
    ASSUME NEW c, NEW d, \A t \in Slots : /\ d.slot[t].num_tx = c.slot[t].num_tx
                                          /\ d.slot[t].num_rx = c.slot[t].num_rx
    PROVE  Unanswered(d) = Unanswered(c)
BY DEF Unanswered

LEMMA TakesRest ==
    ASSUME NEW c, NEW d, NEW v, NEW n, NEW s \in Slots, Inv(c, v, n, {}), Takes(c, d, s),
           c.slot[s].num_rx < c.slot[s].num_tx, c.slot[s].num_rx \notin InWheel(c, s)
    PROVE  /\ PacketsOK(n \cup d.out \cup v.out, d, v) /\ WaysOK(d, v)
           /\ FreeOK(d) /\ StallOK(d, {s}) /\ CreditsOK(d) /\ WheelOK(d)
<1>. DEFINE sl == c.slot[s]  lo == sl.num_rx  hi == sl.num_tx
<1>1. /\ c \in Clients /\ v \in Servers /\ n \in SUBSET Packets
      /\ PacketsOK(n \cup c.out \cup v.out, c, v) /\ WaysOK(c, v)
      /\ FreeOK(c) /\ StallOK(c, {}) /\ CreditsOK(c) /\ WheelOK(c)
  BY DEF Inv
<1>2. /\ d \in Clients /\ OnlySlot(c, d, s) /\ SameRequests(c, d)
      /\ d.free = c.free /\ d.stallq = c.stallq /\ d.out = c.out /\ d.wheel = c.wheel
      /\ d.slot[s].num_tx = hi /\ d.slot[s].num_rx = lo + 1 /\ d.credits = c.credits + 1
      /\ d.slot[s].req = sl.req
      /\ d.slot[s].wheel_count = sl.wheel_count /\ d.slot[s].in_wheel = sl.in_wheel
  BY DEF Takes, SameQueues, SameTx, SameRequests
<1>3. lo \in Nat /\ hi \in Nat /\ lo < hi /\ c.credits \in Nat
  BY <1>1, ClientFields
<1>4. PacketsOK(n \cup d.out \cup v.out, d, v)
  <2>1. n \cup c.out \cup v.out \in SUBSET Packets
    BY <1>1, ClientFields, ServerFields
  <2>. QED
    BY <1>1, <1>2, <2>1, PacketsFrame
<1>5. WaysOK(d, v) /\ FreeOK(d)
  BY <1>1, <1>2, FreeFrame DEF WaysOK
<1>6. StallOK(d, {s})
  <2>1. StallOK(c, {s})
    BY <1>1, <1>3, StallServed
  <2>. QED
    BY <1>2, <2>1, StallFrame
<1>7. CreditsOK(d)
  <2>1. \A t \in Slots \ {s} : /\ c.slot[t].num_tx = d.slot[t].num_tx
                               /\ c.slot[t].num_rx = d.slot[t].num_rx
    BY <1>2 DEF OnlySlot
  <2>. DEFINE top == lo + 1
  <2>2. top \in Nat /\ lo <= top /\ lo \in Nat
    BY <1>3
  <2>3. \A i \in Nat : i \in c.slot[s].num_rx .. c.slot[s].num_tx - 1
                       <=> \/ i \in d.slot[s].num_rx .. d.slot[s].num_tx - 1
                           \/ i \in lo .. top - 1
    BY <1>2, <1>3
  <2>4. \A i \in lo .. top - 1 : i \notin d.slot[s].num_rx .. d.slot[s].num_tx - 1
    BY <1>2, <1>3
  <2>. HIDE DEF top, lo
  <2>5. Cardinality(Unanswered(c)) = Cardinality(Unanswered(d)) + (top - lo)
    BY <1>1, <1>2, <2>1, <2>2, <2>3, <2>4, UnansweredMore
  <2>6. top - lo = 1
    BY <1>3 DEF top
  <2>7. Cardinality(Unanswered(c)) \in Nat /\ Cardinality(Unanswered(d)) \in Nat
    BY <1>1, <1>2, UnansweredFinite
  <2>. QED
    BY <1>1, <1>2, <1>3, <2>5, <2>6, <2>7, Constants DEF CreditsOK
<1>8. WheelOK(d)
  <2>1. \A t \in Slots : InWheel(d, t) = InWheel(c, t)
    BY <1>2 DEF InWheel
  <2>2. WheelSlotOK(c, s)
    BY <1>1 DEF WheelOK
  <2>3. \A i \in InWheel(c, s) : i \in lo + 1 .. hi - 1
    BY <1>3, <2>2 DEF WheelSlotOK
  <2>4. WheelSlotOK(d, s)
    BY <1>2, <2>1, <2>2, <2>3 DEF WheelSlotOK
  <2>. QED
    BY <1>1, <1>2, <2>1, <2>4, WheelFrame
<1>. QED
  BY <1>4, <1>5, <1>6, <1>7, <1>8

LEMMA TakesInv ==
    ASSUME NEW c, NEW d, NEW v, NEW n, NEW s \in Slots, Inv(c, v, n, {}), Takes(c, d, s),
           c.slot[s].num_rx < c.slot[s].num_tx, c.slot[s].num_rx \notin InWheel(c, s),
           ClientSlotOK(d.slot[s]), SlotsMatch(d.slot[s], v.slot[s])
    PROVE  Inv(d, v, n, {s}) /\ d.credits > 0
<1>1. c \in Clients /\ v \in Servers /\ n \in SUBSET Packets /\ SlotsOK(c, v)
  BY DEF Inv
<1>2. /\ d \in Clients /\ OnlySlot(c, d, s) /\ d.slot[s].req_num = c.slot[s].req_num
      /\ d.credits = c.credits + 1 /\ c.credits \in Nat
  BY <1>1, ClientFields DEF Takes, SameRequests
<1>3. d.slot[s].req_num % Window = s
  BY <1>1, <1>2 DEF SlotsOK
<1>4. SlotsOK(d, v)
  BY <1>1, <1>2, <1>3, SlotsFrame
<1>5. d.credits > 0
  BY <1>2
<1>. QED
  BY <1>1, <1>2, <1>4, <1>5, TakesRest DEF Inv

LEMMA ExplCRInv ==
    ASSUME NEW c, NEW v, NEW n, Inv(c, v, n, {}), NEW p \in n, p.type = "kExplCR", NEW u
    PROVE  LET d == process_expl_cr(c, SlotOf(p), p, u)
           IN  Inv(d, v, n, {}) /\ d.free = c.free /\ d.backlog = c.backlog
<1>. DEFINE s == SlotOf(p)  sl == c.slot[s]  a == Answered(c, s)
            d == process_expl_cr(c, s, p, u)
<1>1. CASE ~in_order_client(sl, p)
  BY <1>1 DEF process_expl_cr
<1>2. CASE in_order_client(sl, p)
  <2>1. ~ToServer(p)
    BY DEF ToServer
  <2>2. /\ s \in Slots /\ sl.req \in Requests /\ v.slot[s].req_num = sl.req_num
        /\ ReqOf(v.slot[s]) = sl.req /\ sl.num_rx < sl.num_tx
        /\ sl.num_rx \notin InWheel(c, s) /\ sl.num_rx < ReqPkts[sl.req] - 1
    BY <1>2, <2>1, InOrderFacts
  <2>3. /\ c \in Clients /\ sl.num_rx \in Nat /\ sl.num_tx \in Nat
        /\ ReqPkts[sl.req] \in Nat /\ ClientSlotOK(sl) /\ SlotsMatch(sl, v.slot[s])
    BY <2>2, ClientFields, Constants DEF Inv, SlotsOK
  <2>4. /\ Takes(c, a, s)
        /\ a.slot[s].resp_pkts = sl.resp_pkts /\ a.slot[s].resp = sl.resp
    BY <2>2, <2>3, AnsweredTakes
  <2>5. d = IF req_pkts_pending(a.slot[s]) THEN kick_req(a, s, u) ELSE a
    BY <1>2 DEF process_expl_cr
  <2>. HIDE DEF a, d
  <2>6. /\ a.slot[s].num_tx = sl.num_tx /\ a.slot[s].num_rx = sl.num_rx + 1
        /\ a.slot[s].req = sl.req /\ a.slot[s].req_num = sl.req_num
        /\ a.free = c.free /\ a.backlog = c.backlog
    BY <2>2, <2>4 DEF Takes, SameRequests, SameQueues
  <2>7. ClientSlotOK(a.slot[s])
    BY <2>2, <2>3, <2>4, <2>6 DEF ClientSlotOK
  <2>8. SlotsMatch(a.slot[s], v.slot[s])
    BY <2>2, <2>3, <2>6 DEF SlotsMatch
  <2>9. Inv(a, v, n, {s}) /\ a.credits > 0
    BY <2>2, <2>4, <2>7, <2>8, TakesInv
  <2>10. CASE req_pkts_pending(a.slot[s])
    <3>1. a.slot[s].req \in Requests /\ a.slot[s].num_tx < ReqPkts[a.slot[s].req]
      BY <2>2, <2>6, <2>10 DEF req_pkts_pending
    <3>2. LET e == kick_req(a, s, u)
          IN  Inv(e, v, n, {}) /\ e.free = a.free /\ e.backlog = a.backlog
      BY <2>2, <2>9, <3>1, KickReqInv
    <3>. QED
      BY <2>5, <2>6, <2>10, <3>2 DEF d
  <2>11. CASE ~req_pkts_pending(a.slot[s])
    <3>1. a.slot[s].num_tx # a.slot[s].num_rx
      BY <2>2, <2>3, <2>6, <2>11 DEF req_pkts_pending
    <3>. QED
      BY <2>2, <2>5, <2>6, <2>9, <2>11, <3>1, Served DEF d
  <2>. QED
    BY <2>10, <2>11
<1>. QED
  BY <1>1, <1>2

(* A buffer of P packets of r, filled up to packet k. *)
Filled(P, k, r) == [i \in 1..P |-> IF i <= k THEN r ELSE None]

LEMMA FillNext ==
    ASSUME NEW P \in Nat, NEW k \in Int, k + 1 \in 1..P, NEW r
    PROVE  [Filled(P, k, r) EXCEPT ![k + 1] = r] = Filled(P, k + 1, r)
<1>. DEFINE f == [Filled(P, k, r) EXCEPT ![k + 1] = r]  g == Filled(P, k + 1, r)
<1>1. DOMAIN f = 1..P /\ DOMAIN g = 1..P
  BY DEF Filled
<1>2. \A i \in 1..P : f[i] = IF i = k + 1 \/ i <= k THEN r ELSE None
  BY DEF Filled
<1>3. \A i \in 1..P : g[i] = IF i <= k + 1 THEN r ELSE None
  BY DEF Filled
<1>4. \A i \in 1..P : i = k + 1 \/ i <= k <=> i <= k + 1
  OBVIOUS
<1>5. f = [i \in 1..P |-> f[i]] /\ g = [i \in 1..P |-> g[i]]
  BY DEF Filled
<1>. HIDE DEF f, g
<1>6. \A i \in 1..P : f[i] = g[i]
  BY <1>2, <1>3, <1>4
<1>7. f = g
  BY <1>5, <1>6
<1>. QED
  BY <1>7 DEF f, g

(* A response packet in order: what the slot holds afterwards. *)
LEMMA CopiedFacts ==
    ASSUME NEW c, NEW v, NEW n, Inv(c, v, n, {}), NEW p \in n, p.type = "kResp",
           in_order_client(c.slot[SlotOf(p)], p)
    PROVE  LET s == SlotOf(p)
               sl == c.slot[s]
               r == sl.req
               d == Copied(c, s, p)
           IN  /\ Takes(c, d, s)
               /\ d.slot[s].resp_pkts = RespPkts[r]
               /\ d.slot[s].resp = [i \in 1..RespPkts[r] |->
                      IF i <= d.slot[s].num_rx - ReqPkts[r] + 1 THEN r ELSE None]
               /\ wire_pkts(d.slot[s]) = Wire(r)
               /\ TakeResp(c, s, p) = IF p.pkts > 1 /\ sl.num_tx # Wire(r) THEN kick_rfr(d, s)
                                      ELSE d
<1>. DEFINE s == SlotOf(p)  sl == c.slot[s]  r == sl.req  d == Copied(c, s, p)
            R == ReqPkts[r]  P == RespPkts[r]
            first == p.pkts = 1 \/ p.pkt_num = R - 1
<1>1. ~ToServer(p)
  BY DEF ToServer
<1>2. /\ p \in Packets /\ s \in Slots /\ r \in Requests /\ p.pkt_num = sl.num_rx
      /\ sl.num_rx < sl.num_tx /\ p.data = r /\ p.pkts = P
      /\ sl.num_rx \in (R - 1) .. (Wire(r) - 1)
  BY <1>1, InOrderFacts
<1>3. /\ c \in Clients /\ sl.num_rx \in Nat /\ sl.num_tx \in Nat /\ r # None
      /\ R \in Nat \ {0} /\ P \in Nat \ {0} /\ ClientSlotOK(sl)
  BY <1>2, ClientFields, Constants DEF Inv, SlotsOK
<1>4. /\ Takes(c, d, s)
      /\ d.slot[s].resp_pkts = IF first THEN p.pkts ELSE sl.resp_pkts
      /\ d.slot[s].resp = [(IF first THEN Blank(p.pkts) ELSE sl.resp)
             EXCEPT ![1 + resp_ntoi(p.pkt_num, R)] = p.data]
  BY <1>2, <1>3, CopiedTakes
<1>5. /\ d.slot[s].num_rx = sl.num_rx + 1 /\ d.slot[s].num_tx = sl.num_tx /\ d.slot[s].req = r
  BY <1>2, <1>4 DEF Takes, SameRequests
<1>6. first => sl.num_rx = R - 1
  BY <1>2, <1>3 DEF Wire
<1>7. ~first => /\ sl.resp_pkts = P
                /\ sl.resp = [i \in 1..P |-> IF i <= sl.num_rx - R + 1 THEN r ELSE None]
  <2>1. ~first => sl.num_rx >= R
    BY <1>2, <1>3
  <2>. QED
    BY <1>3, <2>1 DEF ClientSlotOK
<1>8. d.slot[s].resp_pkts = P
  BY <1>2, <1>4, <1>7
<1>9. 1 + resp_ntoi(p.pkt_num, R) = sl.num_rx - R + 2
  BY <1>2, <1>3 DEF resp_ntoi
<1>10. sl.num_rx - R + 2 \in 1..P
  BY <1>2, <1>3 DEF Wire
<1>11. d.slot[s].resp = [i \in 1..P |-> IF i <= d.slot[s].num_rx - R + 1 THEN r ELSE None]
  <2>. DEFINE old == IF first THEN Blank(P) ELSE sl.resp
  <2>1. old = [i \in 1..P |-> IF i <= sl.num_rx - R + 1 THEN r ELSE None]
    <3>1. CASE first
      <4>1. Blank(P) = [i \in 1..P |-> IF i <= sl.num_rx - R + 1 THEN r ELSE None]
        BY <1>3, <1>6, <3>1 DEF Blank
      <4>. QED
        BY <3>1, <4>1
    <3>2. CASE ~first
      BY <1>7, <3>2
    <3>. QED
      BY <3>1, <3>2
  <2>2. d.slot[s].resp = [old EXCEPT ![sl.num_rx - R + 2] = r]
    BY <1>2, <1>4, <1>9
  <2>3. d.slot[s].num_rx - R + 1 = sl.num_rx - R + 2
    BY <1>3, <1>5
  <2>. DEFINE k == sl.num_rx - R + 1
  <2>4. k \in Int /\ k + 1 = sl.num_rx - R + 2 /\ k + 1 \in 1..P
    BY <1>3, <1>10
  <2>5. old = Filled(P, k, r) /\ d.slot[s].resp = [old EXCEPT ![k + 1] = r]
    BY <2>1, <2>2, <2>4 DEF Filled
  <2>6. d.slot[s].resp = Filled(P, k + 1, r)
    <3>. HIDE DEF k, old, d, s, R, P, r
    <3>. QED
      BY <1>3, <2>4, <2>5, FillNext
  <2>. QED
    BY <2>3, <2>4, <2>6 DEF Filled
<1>12. wire_pkts(d.slot[s]) = Wire(r)
  BY <1>5, <1>8 DEF wire_pkts, Wire
<1>13. TakeResp(c, s, p) = IF p.pkts > 1 /\ sl.num_tx # wire_pkts(d.slot[s]) THEN kick_rfr(d, s)
                           ELSE d
  BY DEF TakeResp, Copied
<1>. QED
  BY <1>4, <1>8, <1>11, <1>12, <1>13

(* It completes the response, and every packet of the slot has its answer; *)
(* or the slot goes on.                                                    *)
LEMMA TakeRespCases ==
    ASSUME NEW c, NEW v, NEW n, Inv(c, v, n, {}), NEW p \in n, p.type = "kResp",
           in_order_client(c.slot[SlotOf(p)], p)
    PROVE  LET s == SlotOf(p)
               sl == c.slot[s]
               e == TakeResp(c, s, p)
           IN  /\ RespComplete(e.slot[s], p) =>
                     /\ e = Copied(c, s, p)
                     /\ e.slot[s].num_tx = e.slot[s].num_rx /\ e.slot[s].num_rx = Wire(sl.req)
               /\ ~RespComplete(e.slot[s], p) =>
                     /\ Inv(e, v, n, {}) /\ e.free = c.free /\ e.backlog = c.backlog
                     /\ SameRequests(c, e)
<1>. DEFINE s == SlotOf(p)  sl == c.slot[s]  r == sl.req  d == Copied(c, s, p)
            e == TakeResp(c, s, p)  R == ReqPkts[r]  P == RespPkts[r]
<1>1. ~ToServer(p)
  BY DEF ToServer
<1>2. /\ p \in Packets /\ s \in Slots /\ r \in Requests /\ v.slot[s].req_num = sl.req_num
      /\ ReqOf(v.slot[s]) = r /\ v.slot[s].resp = r
      /\ sl.num_rx < sl.num_tx /\ sl.num_rx \notin InWheel(c, s) /\ p.pkts = P
      /\ sl.num_rx \in (R - 1) .. (Wire(r) - 1)
  BY <1>1, InOrderFacts
<1>3. /\ c \in Clients /\ sl.num_rx \in Nat /\ sl.num_tx \in Nat /\ r # None
      /\ R \in Nat \ {0} /\ P \in Nat \ {0} /\ Wire(r) = R + P - 1
      /\ ClientSlotOK(sl) /\ SlotsMatch(sl, v.slot[s])
  BY <1>2, ClientFields, Constants DEF Inv, SlotsOK, Wire
<1>4. /\ Takes(c, d, s)
      /\ d.slot[s].resp_pkts = P
      /\ d.slot[s].resp = [i \in 1..P |-> IF i <= d.slot[s].num_rx - R + 1 THEN r ELSE None]
      /\ wire_pkts(d.slot[s]) = Wire(r)
      /\ e = IF p.pkts > 1 /\ sl.num_tx # Wire(r) THEN kick_rfr(d, s) ELSE d
  BY CopiedFacts
<1>5. /\ d \in Clients /\ d.slot[s].num_rx = sl.num_rx + 1 /\ d.slot[s].num_tx = sl.num_tx
      /\ d.slot[s].req = r /\ d.slot[s].req_num = sl.req_num /\ SameRequests(c, d)
      /\ d.free = c.free /\ d.backlog = c.backlog
  BY <1>2, <1>4 DEF Takes, SameRequests, SameQueues
<1>6. sl.num_tx <= (IF sl.num_rx < R THEN R ELSE Wire(r))
  BY <1>3 DEF ClientSlotOK
<1>. HIDE DEF d, e
<1>7. CASE sl.num_rx + 1 = Wire(r)
  <2>1. sl.num_tx = Wire(r)
    BY <1>2, <1>3, <1>6, <1>7
  <2>2. e = d
    BY <1>4, <2>1
  <2>3. RespComplete(e.slot[s], p)
    BY <1>4, <1>5, <1>7, <2>2 DEF RespComplete
  <2>. QED
    BY <1>5, <1>7, <2>1, <2>2, <2>3 DEF d, e
<1>8. CASE sl.num_rx + 1 # Wire(r)
  <2>1. sl.num_rx + 1 < Wire(r) /\ P > 1
    BY <1>2, <1>3, <1>8
  <2>2. d.slot[s].num_rx >= R /\ d.slot[s].num_rx < Wire(r) /\ d.slot[s].num_rx <= d.slot[s].num_tx
        /\ d.slot[s].num_tx <= Wire(r)
    BY <1>2, <1>3, <1>5, <1>6, <2>1
  <2>3. ClientSlotOK(d.slot[s])
    BY <1>3, <1>4, <1>5, <2>2 DEF ClientSlotOK
  <2>4. SlotsMatch(d.slot[s], v.slot[s])
    BY <1>2, <1>3, <1>5 DEF SlotsMatch
  <2>5. Inv(d, v, n, {s}) /\ d.credits > 0
    BY <1>2, <1>4, <2>3, <2>4, TakesInv
  <2>6. CASE sl.num_tx # Wire(r)
    <3>1. e = kick_rfr(d, s)
      BY <1>2, <1>4, <2>1, <2>6
    <3>2. d.slot[s].num_tx < wire_pkts(d.slot[s])
      <4>1. sl.num_tx < Wire(r)
        BY <1>3, <1>5, <2>2, <2>6
      <4>. QED
        BY <1>4, <1>5, <4>1
    <3>3. /\ Inv(e, v, n, {}) /\ e.free = d.free /\ e.backlog = d.backlog
          /\ \E k \in Nat : SendsRfr(d, e, s, k)
      BY <1>2, <1>5, <2>2, <2>5, <3>1, <3>2, KickRfrInv
    <3>4. /\ SameRequests(d, e) /\ e.slot[s].num_rx = d.slot[s].num_rx
          /\ e.slot[s].resp_pkts = d.slot[s].resp_pkts
      BY <3>3 DEF SendsRfr, Sends
    <3>5. wire_pkts(e.slot[s]) = Wire(r)
      BY <1>2, <1>4, <1>5, <3>4 DEF wire_pkts, SameRequests
    <3>6. ~RespComplete(e.slot[s], p)
      BY <1>2, <1>3, <1>5, <2>1, <3>4, <3>5 DEF RespComplete
    <3>7. SameRequests(c, e)
      BY <1>5, <3>4 DEF SameRequests
    <3>. QED
      BY <1>5, <3>3, <3>6, <3>7 DEF e
  <2>7. CASE sl.num_tx = Wire(r)
    <3>1. e = d
      BY <1>4, <2>7
    <3>2. d.slot[s].num_tx # d.slot[s].num_rx
      BY <1>3, <1>5, <2>1, <2>7
    <3>3. Inv(e, v, n, {})
      BY <1>2, <2>5, <3>1, <3>2, Served
    <3>4. ~RespComplete(e.slot[s], p)
      BY <1>2, <1>3, <1>4, <1>5, <2>1, <3>1 DEF RespComplete
    <3>. QED
      BY <1>5, <3>1, <3>3, <3>4 DEF e
  <2>. QED
    BY <2>6, <2>7
<1>. QED
  BY <1>7, <1>8

LEMMA RollBackInv ==
    ASSUME NEW c, NEW v, NEW n, Inv(c, v, n, {}), NEW s \in Slots, c.slot[s].req # None,
           c.slot[s].num_tx # c.slot[s].num_rx, c.slot[s].wheel_count = 0
    PROVE  LET d == RollBack(c, s)
           IN  /\ Inv(d, v, n, {s}) /\ d.credits > 0
               /\ d.free = c.free /\ d.backlog = c.backlog
               /\ d.slot[s].req \in Requests
               /\ \/ d.slot[s].num_tx < ReqPkts[d.slot[s].req]
                  \/ /\ d.slot[s].num_rx >= ReqPkts[d.slot[s].req]
                     /\ d.slot[s].num_tx < wire_pkts(d.slot[s])
<1>. DEFINE sl == c.slot[s]  lo == sl.num_rx  hi == sl.num_tx  d == RollBack(c, s)
<1>1. /\ c \in Clients /\ v \in Servers /\ n \in SUBSET Packets /\ SlotsOK(c, v)
      /\ PacketsOK(n \cup c.out \cup v.out, c, v) /\ WaysOK(c, v)
      /\ FreeOK(c) /\ StallOK(c, {}) /\ CreditsOK(c) /\ WheelOK(c)
  BY DEF Inv
<1>2. /\ lo \in Nat /\ hi \in Nat /\ lo < hi /\ c.credits \in Nat /\ sl.req \in Requests
      /\ ReqPkts[sl.req] \in Nat /\ Wire(sl.req) \in Int
      /\ ClientSlotOK(sl) /\ SlotsMatch(sl, v.slot[s]) /\ sl.req_num % Window = s
  BY <1>1, ClientFields, Constants DEF SlotsOK, ClientSlotOK, Wire
<1>3. /\ d \in Clients /\ SameQueues(c, d) /\ SameTx(c, d, s)
      /\ OnlySlot(c, d, s) /\ SameRequests(c, d)
      /\ d.credits = c.credits + (hi - lo)
      /\ d.slot[s].num_tx = lo /\ d.slot[s].num_rx = lo
      /\ d.slot[s].resp_pkts = sl.resp_pkts /\ d.slot[s].resp = sl.resp
  BY <1>1, <1>2, RollBackFields
<1>. HIDE DEF d
<1>4. /\ d.slot[s].req = sl.req /\ d.slot[s].req_num = sl.req_num
      /\ d.free = c.free /\ d.backlog = c.backlog /\ d.stallq = c.stallq
      /\ d.out = c.out /\ d.wheel = c.wheel
      /\ d.slot[s].wheel_count = sl.wheel_count /\ d.slot[s].in_wheel = sl.in_wheel
  BY <1>3 DEF SameRequests, SameQueues, SameTx
<1>5. SlotsOK(d, v)
  <2>1. ClientSlotOK(d.slot[s])
    BY <1>2, <1>3, <1>4 DEF ClientSlotOK
  <2>2. SlotsMatch(d.slot[s], v.slot[s])
    BY <1>2, <1>3, <1>4 DEF SlotsMatch
  <2>. QED
    BY <1>1, <1>2, <1>3, <1>4, <2>1, <2>2, SlotsFrame
<1>6. PacketsOK(n \cup d.out \cup v.out, d, v)
  <2>1. n \cup c.out \cup v.out \in SUBSET Packets
    BY <1>1, ClientFields, ServerFields
  <2>. QED
    BY <1>1, <1>3, <1>4, <2>1, PacketsFrame
<1>7. WaysOK(d, v) /\ FreeOK(d)
  BY <1>1, <1>3, <1>4, FreeFrame DEF WaysOK
<1>8. StallOK(d, {s})
  <2>1. StallOK(c, {s})
    BY <1>1, <1>2, StallServed
  <2>. QED
    BY <1>3, <1>4, <2>1, StallFrame
<1>9. CreditsOK(d)
  <2>1. \A t \in Slots \ {s} : /\ c.slot[t].num_tx = d.slot[t].num_tx
                               /\ c.slot[t].num_rx = d.slot[t].num_rx
    BY <1>3 DEF OnlySlot
  <2>2. \A i \in Nat : i \in c.slot[s].num_rx .. c.slot[s].num_tx - 1
                       <=> \/ i \in d.slot[s].num_rx .. d.slot[s].num_tx - 1
                           \/ i \in lo .. hi - 1
    BY <1>2, <1>3
  <2>3. \A i \in lo .. hi - 1 : i \notin d.slot[s].num_rx .. d.slot[s].num_tx - 1
    BY <1>2, <1>3
  <2>4. lo <= hi /\ lo \in Nat /\ hi \in Nat /\ c \in Clients /\ d \in Clients
    BY <1>1, <1>2, <1>3
  <2>5. Cardinality(Unanswered(c)) \in Nat /\ Cardinality(Unanswered(d)) \in Nat
    BY <1>1, <1>3, UnansweredFinite
  <2>6. Cardinality(Unanswered(c)) = Cardinality(Unanswered(d)) + (hi - lo)
    <3>. HIDE DEF lo, hi
    <3>. QED
      BY <2>1, <2>2, <2>3, <2>4, UnansweredMore
  <2>. HIDE DEF lo, hi
  <2>. QED
    BY <1>1, <1>2, <1>3, <2>5, <2>6, Constants DEF CreditsOK
<1>10. WheelOK(d)
  <2>1. \A t \in Slots : InWheel(d, t) = InWheel(c, t)
    BY <1>4 DEF InWheel
  <2>2. WheelSlotOK(c, s)
    BY <1>1 DEF WheelOK
  <2>3. InWheel(c, s) = {}
    BY <1>1, <2>2, InWheelFinite, FS_EmptySet DEF WheelSlotOK
  <2>4. WheelSlotOK(d, s)
    BY <1>4, <2>1, <2>2, <2>3 DEF WheelSlotOK
  <2>. QED
    BY <1>1, <1>3, <2>1, <2>4, WheelFrame
<1>11. Inv(d, v, n, {s})
  BY <1>1, <1>3, <1>5, <1>6, <1>7, <1>8, <1>9, <1>10 DEF Inv
<1>12. d.credits > 0
  BY <1>2, <1>3
<1>13. \/ d.slot[s].num_tx < ReqPkts[d.slot[s].req]
       \/ /\ d.slot[s].num_rx >= ReqPkts[d.slot[s].req]
          /\ d.slot[s].num_tx < wire_pkts(d.slot[s])
  BY <1>2, <1>3, <1>4 DEF ClientSlotOK, wire_pkts, Wire
<1>. QED
  BY <1>2, <1>4, <1>11, <1>12, <1>13 DEF d
-----------------------------------------------------------------------------
(***************************************************************************)
(* Slots that change hands.                                                *)
(***************************************************************************)
LEMMA FreedInv ==
    ASSUME NEW c, NEW d, NEW v, NEW n, NEW s \in Slots, Inv(c, v, n, {}), Takes(c, d, s),
           c.slot[s].num_rx < c.slot[s].num_tx, c.slot[s].num_rx \notin InWheel(c, s),
           c.slot[s].req \in Requests, d.slot[s].num_tx = d.slot[s].num_rx,
           v.slot[s].req_num = c.slot[s].req_num, v.slot[s].resp # None
    PROVE  LET e == Freed(d, s)
           IN  Inv(e, v, n, {}) /\ e.free = Append(c.free, s) /\ e.backlog = c.backlog
<1>. DEFINE e == Freed(d, s)
<1>1. /\ c \in Clients /\ v \in Servers /\ n \in SUBSET Packets /\ SlotsOK(c, v)
  BY DEF Inv
<1>2. /\ PacketsOK(n \cup d.out \cup v.out, d, v) /\ WaysOK(d, v)
      /\ FreeOK(d) /\ StallOK(d, {s}) /\ CreditsOK(d) /\ WheelOK(d)
  BY TakesRest
<1>3. /\ d \in Clients /\ OnlySlot(c, d, s) /\ d.free = c.free /\ d.backlog = c.backlog
      /\ d.slot[s].req = c.slot[s].req /\ d.slot[s].req_num = c.slot[s].req_num
      /\ d.slot[s].req # None
  BY Constants DEF Takes, SameQueues, SameRequests
<1>4. /\ e \in Clients /\ e.backlog = d.backlog /\ e.stallq = d.stallq
      /\ e.free = Append(d.free, s) /\ e.credits = d.credits
      /\ OnlySlot(d, e, s) /\ SameTx(d, e, s)
      /\ e.slot[s].req = None /\ e.slot[s].req_num = d.slot[s].req_num
      /\ SameProgress(d.slot[s], e.slot[s])
  BY <1>3, FreedFields
<1>. HIDE DEF e
<1>5. SlotsOK(e, v)
  <2>1. OnlySlot(c, e, s)
    BY <1>3, <1>4 DEF OnlySlot
  <2>2. e.slot[s].req_num % Window = s
    BY <1>1, <1>3, <1>4 DEF SlotsOK
  <2>3. ClientSlotOK(e.slot[s])
    BY <1>3, <1>4, ClientFields DEF ClientSlotOK, SameProgress
  <2>4. v.slot[s].body = <<>> /\ ~v.slot[s].busy
    BY <1>1 DEF SlotsOK, ServerSlotOK, Receiving, Responding
  <2>5. SlotsMatch(e.slot[s], v.slot[s])
    BY <1>3, <1>4, <2>4 DEF SlotsMatch
  <2>. QED
    BY <1>1, <2>1, <2>2, <2>3, <2>5, SlotsFrame
<1>6. PacketsOK(n \cup e.out \cup v.out, e, v)
  <2>. SUFFICES ASSUME NEW p \in n \cup d.out \cup v.out
                PROVE  PacketOK(p, e.slot[SlotOf(p)], v.slot[SlotOf(p)])
    BY <1>4 DEF PacketsOK, SameTx
  <2>1. SlotOf(p) \in Slots
    BY <1>1, <1>3, ClientFields, ServerFields, PacketFields
  <2>2. PacketOK(p, d.slot[SlotOf(p)], v.slot[SlotOf(p)])
    BY <1>2 DEF PacketsOK
  <2>3. CASE SlotOf(p) # s
    BY <1>4, <2>1, <2>2, <2>3 DEF OnlySlot
  <2>4. CASE SlotOf(p) = s
    BY <1>4, <2>2, <2>4 DEF PacketOK, ReqPktOK
  <2>. QED
    BY <2>3, <2>4
<1>7. WaysOK(e, v)
  BY <1>2, <1>4 DEF WaysOK, SameTx
<1>8. FreeOK(e)
  <2>. DEFINE k == Len(d.free)
  <2>1. /\ k \in Nat /\ DOMAIN d.free = 1..k /\ DOMAIN e.free = 1..(k + 1)
        /\ \A i \in 1..k : e.free[i] = d.free[i]
        /\ e.free[k + 1] = s
    BY <1>3, <1>4, ClientFields, AppendProperties, LenProperties
  <2>2. \A i \in DOMAIN d.free : d.free[i] # s
    BY <1>2, <1>3 DEF FreeOK
  <2>. HIDE DEF k
  <2>3. \A i, j \in DOMAIN e.free : e.free[i] = e.free[j] => i = j
    BY <1>2, <2>1, <2>2 DEF FreeOK
  <2>4. ASSUME NEW t \in Slots
        PROVE  e.slot[t].req = None <=> \E i \in DOMAIN e.free : e.free[i] = t
    <3>1. CASE t = s
      BY <1>4, <2>1, <3>1
    <3>2. CASE t # s
      <4>1. e.slot[t] = d.slot[t]
        BY <1>4, <3>2 DEF OnlySlot
      <4>2. (\E i \in DOMAIN e.free : e.free[i] = t) <=> (\E i \in DOMAIN d.free : d.free[i] = t)
        BY <2>1, <3>2
      <4>. QED
        BY <1>2, <4>1, <4>2 DEF FreeOK
    <3>. QED
      BY <3>1, <3>2
  <2>. QED
    BY <2>3, <2>4 DEF FreeOK
<1>9. StallOK(e, {})
  <2>1. StallOK(e, {s})
    BY <1>2, <1>4, StallFrame
  <2>. QED
    BY <1>4, <2>1, StallServed
<1>10. CreditsOK(e)
  <2>1. Unanswered(e) = Unanswered(d)
    <3>1. \A t \in Slots : /\ e.slot[t].num_tx = d.slot[t].num_tx
                           /\ e.slot[t].num_rx = d.slot[t].num_rx
      BY <1>4 DEF OnlySlot, SameProgress
    <3>. QED
      BY <3>1, UnansweredSame
  <2>. QED
    BY <1>2, <1>4, <2>1 DEF CreditsOK
<1>11. WheelOK(e)
  <2>1. \A t \in Slots : InWheel(e, t) = InWheel(d, t)
    BY <1>4 DEF InWheel, SameTx
  <2>2. WheelSlotOK(d, s)
    BY <1>2 DEF WheelOK
  <2>3. InWheel(d, s) = {}
    <3>1. d.slot[s].num_tx \in Nat /\ d.slot[s].num_rx \in Nat
      BY <1>3, ClientFields
    <3>. QED
      BY <2>2, <3>1 DEF WheelSlotOK
  <2>4. WheelSlotOK(e, s)
    BY <1>4, <2>1, <2>2, <2>3 DEF WheelSlotOK, SameTx
  <2>. QED
    BY <1>2, <1>4, <2>1, <2>4, WheelFrame
<1>12. Inv(e, v, n, {})
  BY <1>1, <1>4, <1>5, <1>6, <1>7, <1>8, <1>9, <1>10, <1>11 DEF Inv
<1>. QED
  BY <1>3, <1>4, <1>12 DEF e

LEMMA StartedInv ==
    ASSUME NEW c, NEW v, NEW n, Inv(c, v, n, {}), c.free # <<>>, NEW r \in Requests
    PROVE  LET s == c.free[Len(c.free)]
               d == Started(c, s, r)
           IN  /\ s \in Slots /\ Inv(d, v, n, {s})
               /\ d.slot[s].req = r /\ d.slot[s].num_tx = 0 /\ d.slot[s].num_rx = 0
               /\ d.free = SubSeq(c.free, 1, Len(c.free) - 1) /\ d.backlog = c.backlog
<1>. DEFINE k == Len(c.free)  s == c.free[k]  d == Started(c, s, r)  sl == c.slot[s]
<1>1. /\ c \in Clients /\ v \in Servers /\ n \in SUBSET Packets /\ SlotsOK(c, v)
      /\ PacketsOK(n \cup c.out \cup v.out, c, v) /\ WaysOK(c, v)
      /\ FreeOK(c) /\ StallOK(c, {}) /\ CreditsOK(c) /\ WheelOK(c)
  BY DEF Inv
<1>2. k \in Nat \ {0} /\ DOMAIN c.free = 1..k /\ s \in Slots /\ k \in DOMAIN c.free
  BY <1>1, ClientFields, LenProperties, EmptySeq, ElementOfSeq
<1>3. /\ d \in Clients /\ d.backlog = c.backlog /\ d.stallq = c.stallq
      /\ d.free = SubSeq(c.free, 1, k - 1) /\ d.credits = c.credits
      /\ OnlySlot(c, d, s) /\ SameTx(c, d, s)
      /\ d.slot[s].req = r /\ d.slot[s].req_num = sl.req_num + Window
      /\ d.slot[s].num_tx = 0 /\ d.slot[s].num_rx = 0
  BY <1>1, <1>2, StartedFields
<1>. HIDE DEF d
<1>4. /\ sl.req = None /\ sl.req_num \in Nat /\ sl.num_tx \in Nat /\ sl.num_rx \in Nat
      /\ sl.num_tx = sl.num_rx /\ SlotsMatch(sl, v.slot[s]) /\ sl.req_num % Window = s
      /\ v.slot[s].req_num = sl.req_num /\ v.slot[s].body = <<>> /\ ~v.slot[s].busy
  BY <1>1, <1>2, ClientFields DEF FreeOK, SlotsOK, ClientSlotOK, SlotsMatch
<1>5. /\ r # None /\ ReqPkts[r] \in Nat \ {0} /\ Window \in Nat \ {0}
  BY Constants
<1>6. SlotsOK(d, v)
  <2>1. ClientSlotOK(d.slot[s])
    BY <1>3, <1>4, <1>5 DEF ClientSlotOK
  <2>2. SlotsMatch(d.slot[s], v.slot[s])
    <3>1. d.slot[s].req_num # v.slot[s].req_num
      BY <1>3, <1>4, <1>5
    <3>2. ~(d.slot[s].num_rx >= ReqPkts[d.slot[s].req])
      BY <1>3, <1>5
    <3>. QED
      BY <1>3, <1>4, <1>5, <3>1, <3>2 DEF SlotsMatch
  <2>3. d.slot[s].req_num % Window = s
    BY <1>3, <1>4, <1>5, ModStep
  <2>. QED
    BY <1>1, <1>2, <1>3, <2>1, <2>2, <2>3, SlotsFrame
<1>7. PacketsOK(n \cup d.out \cup v.out, d, v)
  <2>. SUFFICES ASSUME NEW p \in n \cup c.out \cup v.out
                PROVE  PacketOK(p, d.slot[SlotOf(p)], v.slot[SlotOf(p)])
    BY <1>3 DEF PacketsOK, SameTx
  <2>1. SlotOf(p) \in Slots /\ p.req_num \in Nat
    BY <1>1, ClientFields, ServerFields, PacketFields
  <2>2. PacketOK(p, c.slot[SlotOf(p)], v.slot[SlotOf(p)])
    BY <1>1 DEF PacketsOK
  <2>3. CASE SlotOf(p) # s
    BY <1>3, <2>1, <2>2, <2>3 DEF OnlySlot
  <2>4. CASE SlotOf(p) = s
    <3>1. p.type = "kReq" => p.req_num <= d.slot[s].req_num /\ p.req_num # d.slot[s].req_num
      BY <1>3, <1>4, <1>5, <2>1, <2>2, <2>4 DEF PacketOK, ReqPktOK
    <3>. QED
      BY <2>2, <2>4, <3>1 DEF PacketOK, ReqPktOK
  <2>. QED
    BY <2>3, <2>4
<1>8. WaysOK(d, v)
  BY <1>1, <1>3 DEF WaysOK, SameTx
<1>9. FreeOK(d)
  <2>1. /\ DOMAIN d.free = 1..(k - 1)
        /\ \A i \in 1..(k - 1) : d.free[i] = c.free[i]
    <3>1. \A i \in 1..(k - 1) : c.free[i] \in Slots
      BY <1>1, <1>2, ClientFields, ElementOfSeq
    <3>2. /\ d.free \in Seq(Slots)
          /\ Len(d.free) = IF 1 <= k - 1 THEN (k - 1) - 1 + 1 ELSE 0
          /\ \A i \in 1 .. (k - 1) - 1 + 1 : d.free[i] = c.free[1 + i - 1]
      BY <1>2, <1>3, <3>1, SubSeqProperties, 1 \in Int, k - 1 \in Int
    <3>3. DOMAIN d.free = 1..Len(d.free) /\ Len(d.free) = k - 1
      BY <1>2, <3>2, LenProperties
    <3>. HIDE DEF k
    <3>. QED
      BY <1>2, <3>2, <3>3
  <2>2. \A i \in 1..(k - 1) : c.free[i] # s
    BY <1>1, <1>2 DEF FreeOK
  <2>3. \A i, j \in DOMAIN d.free : d.free[i] = d.free[j] => i = j
    BY <1>1, <1>2, <2>1 DEF FreeOK
  <2>4. ASSUME NEW t \in Slots
        PROVE  d.slot[t].req = None <=> \E i \in DOMAIN d.free : d.free[i] = t
    <3>1. CASE t = s
      BY <1>3, <1>5, <2>1, <2>2, <3>1
    <3>2. CASE t # s
      <4>1. d.slot[t] = c.slot[t]
        BY <1>3, <3>2 DEF OnlySlot
      <4>2. (\E i \in DOMAIN d.free : d.free[i] = t) <=> (\E i \in DOMAIN c.free : c.free[i] = t)
        BY <1>2, <2>1, <3>2
      <4>. QED
        BY <1>1, <4>1, <4>2 DEF FreeOK
    <3>. QED
      BY <3>1, <3>2
  <2>. QED
    BY <2>3, <2>4 DEF FreeOK
<1>10. StallOK(d, {s})
  <2>1. StallOK(c, {s})
    BY <1>1, <1>2, <1>4, StallServed
  <2>. QED
    BY <1>2, <1>3, <2>1, StallFrame
<1>11. CreditsOK(d)
  <2>1. Unanswered(d) = Unanswered(c)
    <3>1. \A t \in Slots \ {s} : d.slot[t] = c.slot[t]
      BY <1>3 DEF OnlySlot
    <3>2. \A t \in Slots : c.slot[t].num_rx .. c.slot[t].num_tx - 1
                             = d.slot[t].num_rx .. d.slot[t].num_tx - 1
      <4>1. c.slot[s].num_rx .. c.slot[s].num_tx - 1 = {}
        BY <1>4
      <4>2. d.slot[s].num_rx .. d.slot[s].num_tx - 1 = {}
        BY <1>3
      <4>. QED
        BY <3>1, <4>1, <4>2
    <3>. QED
      BY <3>2 DEF Unanswered
  <2>. QED
    BY <1>1, <1>3, <2>1 DEF CreditsOK
<1>12. WheelOK(d)
  <2>1. \A t \in Slots : InWheel(d, t) = InWheel(c, t)
    BY <1>3 DEF InWheel, SameTx
  <2>2. WheelSlotOK(c, s)
    BY <1>1, <1>2 DEF WheelOK
  <2>3. InWheel(c, s) = {}
    BY <1>4, <2>2 DEF WheelSlotOK
  <2>4. WheelSlotOK(d, s)
    BY <1>2, <1>3, <2>1, <2>2, <2>3 DEF WheelSlotOK, SameTx
  <2>. QED
    BY <1>1, <1>2, <1>3, <2>1, <2>4, WheelFrame
<1>13. Inv(d, v, n, {s})
  BY <1>1, <1>3, <1>6, <1>7, <1>8, <1>9, <1>10, <1>11, <1>12 DEF Inv
<1>. QED
  BY <1>2, <1>3, <1>13 DEF d

(* What only changes the backlog or the stall queue. *)
LEMMA BacklogInv ==
    ASSUME NEW c, NEW v, NEW n, NEW x, Inv(c, v, n, x), NEW b \in Seq(Requests)
    PROVE  LET d == [c EXCEPT !.backlog = b]
           IN  Inv(d, v, n, x) /\ d.free = c.free /\ d.backlog = b /\ d.slot = c.slot
<1>. DEFINE d == [c EXCEPT !.backlog = b]
<1>1. c \in Clients
  BY DEF Inv
<1>2. /\ d \in Clients /\ d.slot = c.slot /\ d.free = c.free /\ d.stallq = c.stallq
      /\ d.credits = c.credits /\ d.wheel = c.wheel /\ d.out = c.out /\ d.backlog = b
  BY <1>1 DEF Clients
<1>. HIDE DEF d
<1>3. /\ SlotsOK(c, v) <=> SlotsOK(d, v)
      /\ PacketsOK(n \cup c.out \cup v.out, c, v) <=> PacketsOK(n \cup d.out \cup v.out, d, v)
      /\ WaysOK(c, v) <=> WaysOK(d, v)
      /\ FreeOK(c) <=> FreeOK(d)
  BY <1>2 DEF SlotsOK, PacketsOK, WaysOK, FreeOK
<1>4. /\ StallOK(c, x) <=> StallOK(d, x)
  BY <1>2 DEF StallOK, Stalled
<1>5. CreditsOK(c) <=> CreditsOK(d)
  BY <1>2 DEF CreditsOK, Unanswered
<1>6. WheelOK(c) <=> WheelOK(d)
  BY <1>2 DEF WheelOK, WheelSlotOK, InWheel
<1>7. Inv(d, v, n, x)
  BY <1>2, <1>3, <1>4, <1>5, <1>6 DEF Inv
<1>. QED
  BY <1>2, <1>7 DEF d

LEMMA StallQueueInv ==
    ASSUME NEW c, NEW v, NEW n, NEW x, NEW y, Inv(c, v, n, x), NEW q \in Seq(Slots),
           StallOK([c EXCEPT !.stallq = q], y)
    PROVE  LET d == [c EXCEPT !.stallq = q]
           IN  /\ Inv(d, v, n, y) /\ d.free = c.free /\ d.backlog = c.backlog
               /\ d.slot = c.slot /\ d.credits = c.credits
<1>. DEFINE d == [c EXCEPT !.stallq = q]
<1>1. c \in Clients
  BY DEF Inv
<1>2. /\ d \in Clients /\ d.slot = c.slot /\ d.free = c.free /\ d.backlog = c.backlog
      /\ d.credits = c.credits /\ d.wheel = c.wheel /\ d.out = c.out
  BY <1>1 DEF Clients
<1>3. StallOK(d, y)
  OBVIOUS
<1>. HIDE DEF d
<1>4. /\ SlotsOK(c, v) <=> SlotsOK(d, v)
      /\ PacketsOK(n \cup c.out \cup v.out, c, v) <=> PacketsOK(n \cup d.out \cup v.out, d, v)
      /\ WaysOK(c, v) <=> WaysOK(d, v)
      /\ FreeOK(c) <=> FreeOK(d)
  BY <1>2 DEF SlotsOK, PacketsOK, WaysOK, FreeOK
<1>5. CreditsOK(c) <=> CreditsOK(d)
  BY <1>2 DEF CreditsOK, Unanswered
<1>6. WheelOK(c) <=> WheelOK(d)
  BY <1>2 DEF WheelOK, WheelSlotOK, InWheel
<1>7. Inv(d, v, n, y)
  BY <1>2, <1>3, <1>4, <1>5, <1>6 DEF Inv
<1>. QED
  BY <1>2, <1>7 DEF d

LEMMA StalledInv ==
    ASSUME NEW c, NEW v, NEW n, NEW s \in Slots, Inv(c, v, n, {s}), c.slot[s].req # None,
           c.slot[s].num_tx = 0, c.slot[s].num_rx = 0
    PROVE  LET d == [c EXCEPT !.stallq = Append(@, s)]
           IN  /\ Inv(d, v, n, {}) /\ d.free = c.free /\ d.backlog = c.backlog
               /\ d.slot = c.slot
<1>. DEFINE q == Append(c.stallq, s)  d == [c EXCEPT !.stallq = q]  k == Len(c.stallq)
<1>1. c \in Clients /\ StallOK(c, {s}) /\ c.stallq \in Seq(Slots)
  BY ClientFields DEF Inv
<1>2. /\ k \in Nat /\ DOMAIN c.stallq = 1..k /\ DOMAIN q = 1..(k + 1) /\ q \in Seq(Slots)
      /\ \A i \in 1..k : q[i] = c.stallq[i]
      /\ q[k + 1] = s
  BY <1>1, AppendProperties, LenProperties
<1>. HIDE DEF q, k
<1>3. d.stallq = q /\ d.slot = c.slot
  BY <1>1 DEF Clients
<1>. HIDE DEF d
<1>4. \A t \in Slots : Stalled(d, {}, t) <=> Stalled(c, {s}, t) \/ t = s
  BY <1>3 DEF Stalled
<1>5. \A i \in 1..k : c.stallq[i] # s
  <2>1. ~Stalled(c, {s}, s)
    BY DEF Stalled
  <2>. QED
    BY <1>1, <1>2, <2>1 DEF StallOK
<1>6. \A i, j \in DOMAIN q : q[i] = q[j] => i = j
  BY <1>1, <1>2, <1>5 DEF StallOK
<1>7. ASSUME NEW t \in Slots
      PROVE  /\ Stalled(d, {}, t) <=> \E i \in DOMAIN q : q[i] = t
             /\ Stalled(d, {}, t) => d.slot[t].num_tx = 0
  <2>1. CASE t = s
    BY <1>2, <1>3, <1>4, <2>1
  <2>2. CASE t # s
    <3>1. (\E i \in DOMAIN q : q[i] = t) <=> (\E i \in DOMAIN c.stallq : c.stallq[i] = t)
      BY <1>2, <2>2
    <3>. QED
      BY <1>1, <1>3, <1>4, <2>2, <3>1 DEF StallOK
  <2>. QED
    BY <2>1, <2>2
<1>8. StallOK(d, {})
  BY <1>3, <1>6, <1>7 DEF StallOK
<1>9. Inv(d, v, n, {}) /\ d.free = c.free /\ d.backlog = c.backlog /\ d.slot = c.slot
  BY <1>2, <1>8, StallQueueInv DEF d
<1>. QED
  BY <1>9 DEF d, q

LEMMA PoppedInv ==
    ASSUME NEW c, NEW v, NEW n, Inv(c, v, n, {}), c.stallq # <<>>
    PROVE  LET s == Head(c.stallq)
               d == Popped(c)
           IN  /\ s \in Slots /\ Inv(d, v, n, {s})
               /\ d.free = c.free /\ d.backlog = c.backlog /\ d.slot = c.slot
               /\ d.credits = c.credits
               /\ c.slot[s].req \in Requests /\ c.slot[s].num_tx = 0 /\ c.slot[s].num_rx = 0
<1>. DEFINE s == Head(c.stallq)  q == Tail(c.stallq)  d == [c EXCEPT !.stallq = q]
            k == Len(c.stallq)
<1>1. c \in Clients /\ StallOK(c, {}) /\ c.stallq \in Seq(Slots)
  BY ClientFields DEF Inv
<1>2. /\ k \in Nat \ {0} /\ DOMAIN c.stallq = 1..k /\ DOMAIN q = 1..(k - 1) /\ q \in Seq(Slots)
      /\ \A i \in 1..(k - 1) : q[i] = c.stallq[i + 1]
      /\ c.stallq[1] = s /\ s \in Slots
  <2>1. k \in Nat \ {0} /\ DOMAIN c.stallq = 1..k
    BY <1>1, EmptySeq, LenProperties
  <2>2. /\ s \in Slots /\ q \in Seq(Slots) /\ Len(q) = k - 1
        /\ \A i \in 1..Len(q) : q[i] = c.stallq[i + 1]
    BY <1>1, HeadTailProperties
  <2>3. DOMAIN q = 1..(k - 1)
    BY <2>2, LenProperties
  <2>4. c.stallq[1] = s
    BY <1>1
  <2>. QED
    BY <2>1, <2>2, <2>3, <2>4
<1>. HIDE DEF q, k, s
<1>3. d.stallq = q /\ d.slot = c.slot
  BY <1>1 DEF Clients
<1>. HIDE DEF d
<1>4. \A t \in Slots : Stalled(d, {s}, t) <=> Stalled(c, {}, t) /\ t # s
  BY <1>3 DEF Stalled
<1>a. 1 \in DOMAIN c.stallq
  BY <1>2
<1>b. \A i \in DOMAIN q : i \in Nat /\ i + 1 \in DOMAIN c.stallq /\ i + 1 # 1 /\ q[i] = c.stallq[i + 1]
  BY <1>2
<1>5. Stalled(c, {}, s) /\ c.slot[s].num_tx = 0
  BY <1>1, <1>2, <1>a DEF StallOK
<1>6. \A i, j \in DOMAIN q : q[i] = q[j] => i = j
  <2>. SUFFICES ASSUME NEW i \in DOMAIN q, NEW j \in DOMAIN q, q[i] = q[j] PROVE i = j
    OBVIOUS
  <2>1. i + 1 = j + 1
    BY <1>1, <1>b DEF StallOK
  <2>. QED
    BY <1>b, <2>1
<1>7. \A i \in DOMAIN q : q[i] # s
  <2>. SUFFICES ASSUME NEW i \in DOMAIN q, q[i] = s PROVE FALSE
    OBVIOUS
  <2>1. c.stallq[i + 1] = c.stallq[1] /\ i + 1 \in DOMAIN c.stallq /\ i + 1 # 1
    BY <1>2, <1>b
  <2>. QED
    BY <1>1, <1>a, <2>1 DEF StallOK
<1>8. ASSUME NEW t \in Slots
      PROVE  /\ Stalled(d, {s}, t) <=> \E i \in DOMAIN q : q[i] = t
             /\ Stalled(d, {s}, t) => d.slot[t].num_tx = 0
  <2>1. CASE t = s
    BY <1>4, <1>7, <2>1
  <2>2. CASE t # s
    <3>1. (\E i \in DOMAIN q : q[i] = t) => (\E i \in DOMAIN c.stallq : c.stallq[i] = t)
      BY <1>b
    <3>2. ASSUME NEW i \in DOMAIN c.stallq, c.stallq[i] = t
          PROVE  \E j \in DOMAIN q : q[j] = t
      <4>1. i # 1 /\ i - 1 \in 1..(k - 1) /\ (i - 1) + 1 = i
        BY <1>2, <2>2, <3>2
      <4>. QED
        BY <1>2, <3>2, <4>1
    <3>. QED
      BY <1>1, <1>3, <1>4, <2>2, <3>1, <3>2 DEF StallOK
  <2>. QED
    BY <2>1, <2>2
<1>9. StallOK(d, {s})
  BY <1>3, <1>6, <1>8 DEF StallOK
<1>10. c.slot[s].req \in Requests /\ c.slot[s].num_rx = 0
  BY <1>1, <1>2, <1>5, ClientFields DEF Stalled
<1>11. /\ Inv(d, v, n, {s}) /\ d.free = c.free /\ d.backlog = c.backlog
       /\ d.slot = c.slot /\ d.credits = c.credits
  BY <1>2, <1>9, StallQueueInv DEF d
<1>. QED
  BY <1>2, <1>5, <1>10, <1>11 DEF d, q, s, Popped

LEMMA EnqueueRequestInv ==
    ASSUME NEW c, NEW v, NEW n, Inv(c, v, n, {}), NEW r \in Requests, NEW u
    PROVE  LET d == enqueue_request(c, r, u)
               s == c.free[Len(c.free)]
           IN  /\ Inv(d, v, n, {})
               /\ c.free = <<>> => /\ d.free = <<>> /\ d.backlog = Append(c.backlog, r)
                                   /\ d.slot = c.slot /\ d.out = c.out
               /\ c.free # <<>> =>
                     /\ d.free = SubSeq(c.free, 1, Len(c.free) - 1) /\ d.backlog = c.backlog
                     /\ SameRequests(Started(c, s, r), d)
<1>. DEFINE d == enqueue_request(c, r, u)  s == c.free[Len(c.free)]  a == Started(c, s, r)
<1>1. c \in Clients /\ c.backlog \in Seq(Requests)
  BY ClientFields DEF Inv
<1>2. CASE c.free = <<>>
  <2>. DEFINE b == Append(c.backlog, r)
  <2>1. b \in Seq(Requests)
    BY <1>1, AppendProperties
  <2>2. d = [c EXCEPT !.backlog = b]
    BY <1>2 DEF enqueue_request
  <2>. HIDE DEF b, d
  <2>3. Inv(d, v, n, {}) /\ d.free = c.free /\ d.backlog = b /\ d.slot = c.slot
    BY <2>1, <2>2, BacklogInv
  <2>4. d.out = c.out
    BY <1>1, <2>2 DEF Clients
  <2>. QED
    BY <1>2, <2>3, <2>4 DEF b, d
<1>3. CASE c.free # <<>>
  <2>1. /\ s \in Slots /\ Inv(a, v, n, {s})
        /\ a.slot[s].req = r /\ a.slot[s].num_tx = 0 /\ a.slot[s].num_rx = 0
        /\ a.free = SubSeq(c.free, 1, Len(c.free) - 1) /\ a.backlog = c.backlog
    BY <1>3, StartedInv
  <2>2. d = IF a.credits > 0 THEN kick_req(a, s, u) ELSE [a EXCEPT !.stallq = Append(@, s)]
    BY <1>3 DEF enqueue_request, Started
  <2>. HIDE DEF a, d, s
  <2>3. CASE a.credits > 0
    <3>1. a.slot[s].num_tx < ReqPkts[a.slot[s].req] /\ a.slot[s].req \in Requests
      BY <2>1, Constants
    <3>2. LET e == kick_req(a, s, u)
          IN  /\ Inv(e, v, n, {}) /\ e.free = a.free /\ e.backlog = a.backlog
              /\ \E k \in Nat : SendsReq(a, e, s, k)
      BY <2>1, <2>3, <3>1, KickReqInv
    <3>3. /\ Inv(d, v, n, {}) /\ d.free = a.free /\ d.backlog = a.backlog
          /\ SameRequests(a, d)
      BY <2>2, <2>3, <3>2 DEF SendsReq, Sends
    <3>. QED
      BY <1>3, <2>1, <3>3 DEF a, d, s
  <2>4. CASE ~(a.credits > 0)
    <3>1. d = [a EXCEPT !.stallq = Append(@, s)]
      BY <2>2, <2>4
    <3>2. a.slot[s].req # None
      BY <2>1, Constants
    <3>3. Inv(d, v, n, {}) /\ d.free = a.free /\ d.backlog = a.backlog /\ d.slot = a.slot
      BY <2>1, <3>1, <3>2, StalledInv
    <3>4. SameRequests(a, d)
      BY <3>3 DEF SameRequests
    <3>. QED
      BY <1>3, <2>1, <3>3, <3>4 DEF a, d, s
  <2>. QED
    BY <2>3, <2>4
<1>. QED
  BY <1>2, <1>3

(* The slot that is freed is the one that the backlog's head gets. *)
LEMMA LastIsFirst ==
    ASSUME NEW q \in Seq(Slots), NEW s \in Slots
    PROVE  LET f == Append(q, s)
           IN  /\ f # <<>> /\ f[Len(f)] = s /\ SubSeq(f, 1, Len(f) - 1) = q
<1>. DEFINE f == Append(q, s)  g == SubSeq(f, 1, Len(f) - 1)  k == Len(q)
<1>1. /\ k \in Nat /\ f \in Seq(Slots) /\ Len(f) = k + 1 /\ f[k + 1] = s /\ f # <<>>
      /\ \A i \in 1..k : f[i] = q[i] /\ q[i] \in Slots
  BY AppendProperties, LenProperties, ElementOfSeq
<1>. HIDE DEF f, k
<1>2. Len(f) - 1 = k
  BY <1>1
<1>3. \A i \in 1..k : f[i] \in Slots
  BY <1>1
<1>4. /\ SubSeq(f, 1, k) \in Seq(Slots)
      /\ Len(SubSeq(f, 1, k)) = IF 1 <= k THEN k - 1 + 1 ELSE 0
      /\ \A i \in 1 .. k - 1 + 1 : SubSeq(f, 1, k)[i] = f[1 + i - 1]
  BY <1>1, <1>3, SubSeqProperties, 1 \in Int, k \in Int
<1>5. g \in Seq(Slots) /\ Len(g) = k /\ \A i \in 1..k : g[i] = q[i]
  BY <1>1, <1>2, <1>4
<1>. HIDE DEF g
<1>6. g = q
  BY <1>5, SeqEqual DEF k
<1>. QED
  BY <1>1, <1>2, <1>6 DEF f, g

LEMMA FinishRequestInv ==
    ASSUME NEW c, NEW d, NEW v, NEW n, NEW s \in Slots, Inv(c, v, n, {}), Takes(c, d, s),
           c.slot[s].num_rx < c.slot[s].num_tx, c.slot[s].num_rx \notin InWheel(c, s),
           c.slot[s].req \in Requests, d.slot[s].num_tx = d.slot[s].num_rx,
           v.slot[s].req_num = c.slot[s].req_num, v.slot[s].resp # None, BacklogOK(c), NEW u
    PROVE  LET e == FinishRequest(d, s, u)
           IN  /\ Inv(e, v, n, {}) /\ BacklogOK(e)
               /\ c.backlog = <<>> => e = Freed(d, s)
               /\ c.backlog # <<>> =>
                     /\ e.backlog = Tail(c.backlog)
                     /\ SameRequests(Started(Freed(d, s), s, Head(c.backlog)), e)
<1>. DEFINE e == FinishRequest(d, s, u)  a == Freed(d, s)
            b == enqueue_request(a, Head(a.backlog), u)
<1>1. Inv(a, v, n, {}) /\ a.free = Append(c.free, s) /\ a.backlog = c.backlog
  BY FreedInv
<1>2. e = IF a.backlog = <<>> THEN a ELSE [b EXCEPT !.backlog = Tail(@)]
  BY DEF FinishRequest, Freed
<1>3. c \in Clients /\ c.free \in Seq(Slots) /\ c.backlog \in Seq(Requests)
  BY ClientFields DEF Inv
<1>. HIDE DEF a, e, b
<1>4. CASE c.backlog = <<>>
  BY <1>1, <1>2, <1>4 DEF BacklogOK, a, e
<1>5. CASE c.backlog # <<>>
  <2>1. c.free = <<>>
    BY <1>5 DEF BacklogOK
  <2>2. /\ a.free # <<>> /\ a.free[Len(a.free)] = s
        /\ SubSeq(a.free, 1, Len(a.free) - 1) = <<>>
    BY <1>1, <1>3, <2>1, LastIsFirst
  <2>3. Head(a.backlog) \in Requests /\ Tail(c.backlog) \in Seq(Requests)
    BY <1>1, <1>3, <1>5, HeadTailProperties
  <2>4. /\ Inv(b, v, n, {}) /\ b.free = <<>> /\ b.backlog = c.backlog
        /\ SameRequests(Started(a, s, Head(c.backlog)), b)
    <3>. DEFINE h == Head(a.backlog)
    <3>1. /\ Inv(b, v, n, {})
          /\ b.free = SubSeq(a.free, 1, Len(a.free) - 1) /\ b.backlog = a.backlog
          /\ SameRequests(Started(a, a.free[Len(a.free)], h), b)
      <4>. HIDE DEF h
      <4>1. h \in Requests /\ b = enqueue_request(a, h, u)
        BY <2>3 DEF h, b
      <4>. QED
        BY <1>1, <2>2, <4>1, EnqueueRequestInv
    <3>. QED
      BY <1>1, <2>2, <3>1
  <2>. DEFINE q == Tail(c.backlog)
  <2>5. e = [b EXCEPT !.backlog = q]
    BY <1>1, <1>2, <1>5, <2>4
  <2>. HIDE DEF q
  <2>6. Inv(e, v, n, {}) /\ e.free = <<>> /\ e.backlog = q /\ e.slot = b.slot
    BY <2>3, <2>4, <2>5, BacklogInv DEF q
  <2>7. SameRequests(Started(a, s, Head(c.backlog)), e)
    BY <2>4, <2>6 DEF SameRequests
  <2>. QED
    BY <1>5, <2>6, <2>7 DEF BacklogOK, a, e, q
<1>. QED
  BY <1>4, <1>5
-----------------------------------------------------------------------------
(***************************************************************************)
(* The wheel and the transmission of packets.                              *)
(***************************************************************************)
LeftWheel(c, s, i) ==
    [c EXCEPT !.wheel = @ \ {<<s, i>>}, !.out = @ \cup {ReqPkt(c.slot[s], i)},
              !.slot[s].wheel_count = @ - 1, !.slot[s].in_wheel = @ \ {i % Credits}]

LEMMA LeftWheelInv ==
    ASSUME NEW c, NEW v, NEW n, Inv(c, v, n, {}), NEW s, NEW i, <<s, i>> \in c.wheel
    PROVE  LET d == LeftWheel(c, s, i)
           IN  /\ Inv(d, v, n, {}) /\ d.free = c.free /\ d.backlog = c.backlog
               /\ SameRequests(c, d)
<1>. DEFINE sl == c.slot[s]  d == LeftWheel(c, s, i)  pkt == ReqPkt(sl, i)
            count == sl.wheel_count - 1  flags == sl.in_wheel \ {i % Credits}
            new == [sl EXCEPT !.wheel_count = count, !.in_wheel = flags]
            slots == [c.slot EXCEPT ![s] = new]
            w == c.wheel \ {<<s, i>>}  o == c.out \cup {pkt}
<1>1. /\ c \in Clients /\ v \in Servers /\ n \in SUBSET Packets /\ SlotsOK(c, v)
      /\ PacketsOK(n \cup c.out \cup v.out, c, v) /\ WaysOK(c, v)
      /\ FreeOK(c) /\ StallOK(c, {}) /\ CreditsOK(c) /\ WheelOK(c)
  BY DEF Inv
<1>2. s \in Slots /\ i \in Nat /\ i \in InWheel(c, s)
  BY <1>1, ClientFields, InWheelElements
<1>3. WheelSlotOK(c, s)
  BY <1>1, <1>2 DEF WheelOK
<1>4. /\ sl \in ClientSlots /\ sl.num_tx \in Nat /\ sl.num_rx \in Nat /\ sl.req \in Requests
      /\ i < ReqPkts[sl.req] /\ sl.wheel_count \in Nat /\ sl.in_wheel \in SUBSET Nat
  BY <1>1, <1>2, <1>3, ClientFields DEF WheelSlotOK
<1>5. /\ pkt \in Packets /\ ToServer(pkt) /\ SlotOf(pkt) = s /\ PacketOK(pkt, sl, v.slot[s])
  BY <1>1, <1>2, <1>4, ReqPktIsOK
<1>6. count \in Nat /\ Cardinality(InWheel(c, s) \ {i}) = count
  <2>1. Cardinality(InWheel(c, s) \ {i}) = Cardinality(InWheel(c, s)) - 1
        /\ IsFiniteSet(InWheel(c, s) \ {i})
    BY <1>1, <1>2, InWheelFinite, FS_RemoveElement
  <2>2. Cardinality(InWheel(c, s) \ {i}) \in Nat
    BY <2>1, FS_CardinalityType
  <2>. QED
    BY <1>3, <2>1, <2>2 DEF WheelSlotOK
<1>7. d = [c EXCEPT !.wheel = w, !.out = o, !.slot = slots]
  <2>1. d = [c EXCEPT !.wheel = w, !.out = o, !.slot[s].wheel_count = count,
                      !.slot[s].in_wheel = sl.in_wheel \ {i % Credits}]
    BY <1>1, <1>2 DEF LeftWheel, Clients, ClientSlots
  <2>. HIDE DEF d, w, o, count
  <2>. QED
    BY <1>1, <1>2, <2>1 DEF Clients, ClientSlots
<1>8. /\ new \in ClientSlots /\ new.req = sl.req /\ new.req_num = sl.req_num
      /\ SameProgress(sl, new) /\ new.wheel_count = count /\ new.in_wheel = flags
  <2>1. flags \in SUBSET Nat
    BY <1>4
  <2>. HIDE DEF sl, count, flags
  <2>. QED
    BY <1>4, <1>6, <2>1 DEF ClientSlots, SameProgress
<1>9. w \in SUBSET (Slots \X Nat) /\ o \in SUBSET Packets
  BY <1>1, <1>5, ClientFields
<1>. HIDE DEF d, w, o, new, count, flags, pkt
<1>10. slots \in [Slots -> ClientSlots] /\ slots[s] = new
       /\ \A t \in Slots \ {s} : slots[t] = c.slot[t]
  BY <1>1, <1>2, <1>8 DEF Clients
<1>. HIDE DEF slots
<1>11. /\ d \in Clients /\ d.slot = slots /\ d.credits = c.credits /\ d.free = c.free
       /\ d.backlog = c.backlog /\ d.stallq = c.stallq /\ d.out = o /\ d.wheel = w
  BY <1>1, <1>7, <1>9, <1>10 DEF Clients
<1>12. OnlySlot(c, d, s) /\ SameRequests(c, d) /\ d.slot[s] = new
  BY <1>8, <1>10, <1>11 DEF OnlySlot, SameRequests
<1>13. SlotsOK(d, v)
  <2>1. ClientSlotOK(sl) /\ SlotsMatch(sl, v.slot[s]) /\ sl.req_num % Window = s
    BY <1>1, <1>2 DEF SlotsOK
  <2>2. ClientSlotOK(new) /\ SlotsMatch(new, v.slot[s]) /\ new.req_num % Window = s
    BY <1>8, <2>1 DEF ClientSlotOK, SlotsMatch, SameProgress
  <2>. QED
    BY <1>1, <1>2, <1>12, <2>2, SlotsFrame
<1>14. PacketsOK(n \cup d.out \cup v.out, d, v) /\ WaysOK(d, v)
  <2>1. PacketsOK(n \cup d.out \cup v.out, c, v)
    BY <1>1, <1>5, <1>11 DEF PacketsOK, o
  <2>2. n \cup d.out \cup v.out \in SUBSET Packets
    BY <1>1, <1>11, ClientFields, ServerFields
  <2>3. WaysOK(d, v)
    BY <1>1, <1>5, <1>11 DEF WaysOK, o
  <2>. QED
    BY <1>12, <2>1, <2>2, <2>3, PacketsFrame
<1>15. FreeOK(d)
  BY <1>1, <1>11, <1>12, FreeFrame
<1>16. StallOK(d, {})
  <2>1. \A t \in Slots : Stalled(d, {}, t) <=> Stalled(c, {}, t)
    BY <1>8, <1>12 DEF Stalled, OnlySlot, SameProgress
  <2>2. \A t \in Slots : d.slot[t].num_tx = c.slot[t].num_tx
    BY <1>8, <1>12 DEF OnlySlot, SameProgress
  <2>. QED
    BY <1>1, <1>11, <2>1, <2>2 DEF StallOK
<1>17. CreditsOK(d)
  <2>1. Unanswered(d) = Unanswered(c)
    <3>1. \A t \in Slots : /\ d.slot[t].num_tx = c.slot[t].num_tx
                           /\ d.slot[t].num_rx = c.slot[t].num_rx
      BY <1>8, <1>12 DEF OnlySlot, SameProgress
    <3>. QED
      BY <3>1, UnansweredSame
  <2>. QED
    BY <1>1, <1>11, <2>1 DEF CreditsOK
<1>18. WheelOK(d)
  <2>1. \A t \in Slots : \A j : j \in InWheel(d, t) <=> j \in InWheel(c, t) /\ <<t, j>> # <<s, i>>
    <3>. SUFFICES ASSUME NEW t \in Slots, NEW j
                  PROVE  j \in InWheel(d, t) <=> j \in InWheel(c, t) /\ <<t, j>> # <<s, i>>
      OBVIOUS
    <3>1. j \in InWheel(d, t) <=> <<t, j>> \in d.wheel
      BY <1>11, InWheelElements
    <3>2. j \in InWheel(c, t) <=> <<t, j>> \in c.wheel
      BY <1>1, InWheelElements
    <3>. QED
      BY <1>11, <3>1, <3>2 DEF w
  <2>2. \A t \in Slots \ {s} : InWheel(d, t) = InWheel(c, t)
    BY <2>1
  <2>3. InWheel(d, s) = InWheel(c, s) \ {i}
    BY <1>2, <2>1
  <2>4. flags = {j % Credits : j \in InWheel(d, s)}
    <3>1. \A j \in InWheel(c, s) : j # i => j % Credits # i % Credits
      <4>. SUFFICES ASSUME NEW j \in InWheel(c, s), j # i PROVE j % Credits # i % Credits
        OBVIOUS
      <4>1. j \in Nat /\ j \in sl.num_rx .. sl.num_tx - 1 /\ i \in sl.num_rx .. sl.num_tx - 1
        <5>1. j \in sl.num_rx .. sl.num_tx - 1 /\ i \in sl.num_rx .. sl.num_tx - 1
          BY <1>2, <1>3 DEF WheelSlotOK
        <5>2. j \in Nat
          BY <1>4, <5>1
        <5>. QED
          BY <5>1, <5>2
      <4>. QED
        BY <1>1, <1>2, <4>1, FlagsApart
    <3>2. sl.in_wheel = {j % Credits : j \in InWheel(c, s)}
      BY <1>3 DEF WheelSlotOK
    <3>3. flags = {j % Credits : j \in InWheel(c, s)} \ {i % Credits}
      BY <3>2 DEF flags
    <3>. QED
      BY <2>3, <3>1, <3>3
  <2>5. WheelSlotOK(d, s)
    BY <1>3, <1>6, <1>8, <1>12, <2>3, <2>4 DEF WheelSlotOK, SameProgress
  <2>. QED
    BY <1>1, <1>2, <1>12, <2>2, <2>5, WheelFrame
<1>19. Inv(d, v, n, {})
  BY <1>1, <1>11, <1>13, <1>14, <1>15, <1>16, <1>17, <1>18 DEF Inv
<1>. QED
  BY <1>11, <1>12, <1>19 DEF d

LEMMA DrainInv ==
    ASSUME NEW c, NEW v, NEW n, Inv(c, v, n, {})
    PROVE  LET d == [c EXCEPT !.out = {}]
           IN  /\ Inv(d, v, n \cup c.out, {}) /\ d.free = c.free /\ d.backlog = c.backlog
               /\ d.slot = c.slot /\ d.out = {}
<1>. DEFINE d == [c EXCEPT !.out = {}]  m == n \cup c.out
<1>1. c \in Clients /\ v \in Servers /\ n \in SUBSET Packets /\ c.out \in SUBSET Packets
  BY ClientFields DEF Inv
<1>2. /\ d \in Clients /\ d.slot = c.slot /\ d.free = c.free /\ d.backlog = c.backlog
      /\ d.stallq = c.stallq /\ d.credits = c.credits /\ d.wheel = c.wheel /\ d.out = {}
  BY <1>1 DEF Clients
<1>. HIDE DEF d
<1>3. m \in SUBSET Packets /\ m \cup d.out \cup v.out = n \cup c.out \cup v.out
  BY <1>1, <1>2
<1>4. /\ SlotsOK(c, v) <=> SlotsOK(d, v)
      /\ PacketsOK(n \cup c.out \cup v.out, c, v) <=> PacketsOK(n \cup c.out \cup v.out, d, v)
      /\ WaysOK(c, v) => WaysOK(d, v)
      /\ FreeOK(c) <=> FreeOK(d)
  BY <1>2 DEF SlotsOK, PacketsOK, WaysOK, FreeOK
<1>5. StallOK(c, {}) <=> StallOK(d, {})
  BY <1>2 DEF StallOK, Stalled
<1>6. CreditsOK(c) <=> CreditsOK(d)
  BY <1>2 DEF CreditsOK, Unanswered
<1>7. WheelOK(c) <=> WheelOK(d)
  BY <1>2 DEF WheelOK, WheelSlotOK, InWheel
<1>8. Inv(d, v, m, {})
  BY <1>1, <1>2, <1>3, <1>4, <1>5, <1>6, <1>7 DEF Inv
<1>. QED
  BY <1>2, <1>8 DEF d
-----------------------------------------------------------------------------
(***************************************************************************)
(* Steps of the server: at most one slot changes.                          *)
(***************************************************************************)
LEMMA ServerUpdate ==
    ASSUME NEW v \in Servers, NEW s \in Slots, NEW new \in ServerSlots, NEW o \in SUBSET Packets
    PROVE  LET w == [v EXCEPT !.slot[s] = new, !.out = o]
           IN  /\ w \in Servers /\ w.slot[s] = new /\ w.out = o
               /\ \A t \in Slots \ {s} : w.slot[t] = v.slot[t]
BY DEF Servers

LEMMA ServerSends ==
    ASSUME NEW v \in Servers, NEW o \in SUBSET Packets
    PROVE  LET w == [v EXCEPT !.out = o]
           IN  w \in Servers /\ w.slot = v.slot /\ w.out = o
BY DEF Servers

LEMMA ServerSlotInv ==
    ASSUME NEW c, NEW v, NEW w \in Servers, NEW n, NEW m \in SUBSET Packets, NEW s \in Slots,
           Inv(c, v, n, {}), \A t \in Slots \ {s} : w.slot[t] = v.slot[t],
           w.slot[s].req_num % Window = s, ServerSlotOK(w.slot[s]),
           SlotsMatch(c.slot[s], w.slot[s]),
           \A p \in m \cup c.out \cup w.out : /\ p \notin n \cup c.out \cup v.out => SlotOf(p) = s
                                              /\ SlotOf(p) = s => PacketOK(p, c.slot[s], w.slot[s]),
           \A p \in w.out : ~ToServer(p)
    PROVE  Inv(c, w, m, {})
<1>1. /\ c \in Clients /\ v \in Servers /\ n \in SUBSET Packets /\ SlotsOK(c, v)
      /\ PacketsOK(n \cup c.out \cup v.out, c, v) /\ WaysOK(c, v)
      /\ FreeOK(c) /\ StallOK(c, {}) /\ CreditsOK(c) /\ WheelOK(c)
  BY DEF Inv
<1>2. SlotsOK(c, w)
  BY <1>1 DEF SlotsOK
<1>3. PacketsOK(m \cup c.out \cup w.out, c, w)
  <2>. SUFFICES ASSUME NEW p \in m \cup c.out \cup w.out, SlotOf(p) # s
                PROVE  PacketOK(p, c.slot[SlotOf(p)], w.slot[SlotOf(p)])
    BY DEF PacketsOK
  <2>1. SlotOf(p) \in Slots
    BY <1>1, ClientFields, ServerFields, PacketFields
  <2>2. p \in n \cup c.out \cup v.out
    OBVIOUS
  <2>. QED
    BY <1>1, <2>1, <2>2 DEF PacketsOK
<1>4. WaysOK(c, w)
  BY <1>1 DEF WaysOK
<1>. QED
  BY <1>1, <1>2, <1>3, <1>4 DEF Inv

(* Only packets move: from the server's queue to the network, or a packet *)
(* of slot s is added.                                                     *)
LEMMA ServerPacketsInv ==
    ASSUME NEW c, NEW v, NEW n, NEW m \in SUBSET Packets, NEW o \in SUBSET Packets,
           NEW q \in SUBSET Packets, Inv(c, v, n, {}),
           m \cup o \subseteq n \cup v.out \cup q,
           \A p \in q : PacketOK(p, c.slot[SlotOf(p)], v.slot[SlotOf(p)]),
           \A p \in o : ~ToServer(p)
    PROVE  Inv(c, [v EXCEPT !.out = o], m, {})
<1>. DEFINE w == [v EXCEPT !.out = o]
<1>1. /\ c \in Clients /\ v \in Servers /\ n \in SUBSET Packets /\ SlotsOK(c, v)
      /\ PacketsOK(n \cup c.out \cup v.out, c, v) /\ WaysOK(c, v)
      /\ FreeOK(c) /\ StallOK(c, {}) /\ CreditsOK(c) /\ WheelOK(c)
  BY DEF Inv
<1>2. w \in Servers /\ w.slot = v.slot /\ w.out = o
  BY <1>1, ServerSends
<1>. HIDE DEF w
<1>3. SlotsOK(c, w)
  BY <1>1, <1>2 DEF SlotsOK
<1>4. PacketsOK(m \cup c.out \cup w.out, c, w)
  BY <1>1, <1>2 DEF PacketsOK
<1>5. WaysOK(c, w)
  BY <1>1, <1>2 DEF WaysOK
<1>6. Inv(c, w, m, {})
  BY <1>1, <1>2, <1>3, <1>4, <1>5 DEF Inv
<1>. QED
  BY <1>6 DEF w

(* What a packet from the client finds. *)
LEMMA ReqPktFacts ==
    ASSUME NEW c, NEW v, NEW n, Inv(c, v, n, {}), NEW p \in n, p.type = "kReq"
    PROVE  LET s == SlotOf(p)
               cs == c.slot[s]
               vs == v.slot[s]
           IN  /\ p \in Packets /\ s \in Slots /\ p.req_num >= Window
               /\ p.data \in Requests /\ p.pkts = ReqPkts[p.data] /\ p.pkt_num < p.pkts
               /\ p.req_num = vs.req_num => p.data = ReqOf(vs)
               /\ p.req_num > vs.req_num =>
                     /\ p.req_num = vs.req_num + Window /\ p.req_num = cs.req_num
                     /\ cs.req = p.data /\ cs.num_rx = 0 /\ vs.body = <<>> /\ ~vs.busy
<1>. DEFINE s == SlotOf(p)  cs == c.slot[s]  vs == v.slot[s]
<1>1. /\ c \in Clients /\ v \in Servers /\ n \in SUBSET Packets /\ SlotsOK(c, v)
      /\ PacketsOK(n \cup c.out \cup v.out, c, v)
  BY DEF Inv
<1>2. /\ p \in Packets /\ s \in Slots /\ p.req_num \in Nat /\ p.req_num % Window = s
  BY <1>1, PacketFields DEF SlotOf
<1>3. ReqPktOK(p, cs, vs) /\ p.req_num >= Window
  BY <1>1 DEF PacketsOK, PacketOK
<1>4. /\ cs.req_num \in Nat /\ vs.req_num \in Nat /\ SlotsMatch(cs, vs)
      /\ vs.req_num % Window = s
  BY <1>1, <1>2, ClientFields, ServerFields DEF SlotsOK
<1>5. ASSUME p.req_num > vs.req_num
      PROVE  /\ p.req_num = vs.req_num + Window /\ p.req_num = cs.req_num
             /\ cs.req = p.data /\ cs.num_rx = 0 /\ vs.body = <<>> /\ ~vs.busy
  <2>1. p.req_num <= cs.req_num
    BY <1>3 DEF ReqPktOK
  <2>2. cs.req_num # vs.req_num
    BY <1>2, <1>4, <1>5, <2>1
  <2>3. cs.req # None /\ cs.req_num = vs.req_num + Window
    BY <1>4, <2>2 DEF SlotsMatch
  <2>4. p.req_num = vs.req_num + Window
    <3>. SUFFICES ASSUME p.req_num # vs.req_num + Window PROVE FALSE
      OBVIOUS
    <3>1. vs.req_num < p.req_num /\ p.req_num < vs.req_num + Window
      BY <1>2, <1>4, <1>5, <2>1, <2>3, Constants
    <3>2. Window \in Nat \ {0}
      BY Constants
    <3>3. vs.req_num % Window # p.req_num % Window
      BY <1>2, <1>4, <3>1, <3>2, ModApart
    <3>. QED
      BY <1>2, <1>4, <3>3
  <2>5. cs.req = p.data
    BY <1>3, <2>3, <2>4 DEF ReqPktOK
  <2>. QED
    BY <1>4, <2>2, <2>3, <2>4, <2>5 DEF SlotsMatch
<1>6. /\ p.data \in Requests /\ p.pkts = ReqPkts[p.data] /\ p.pkt_num < p.pkts
      /\ p.req_num = vs.req_num => p.data = ReqOf(vs)
  BY <1>3 DEF ReqPktOK
<1>. QED
  BY <1>2, <1>3, <1>5, <1>6

LEMMA RespPktIsOK ==
    ASSUME NEW c, NEW v \in ServerSlots, NEW s \in Slots, v.req_num % Window = s,
           v.req_num >= Window, Responding(v), NEW i \in Int,
           v.sav - 1 + i \in (ReqPkts[v.resp] - 1) .. (Wire(v.resp) - 1),
           v.sav - 1 + i < v.num_rx
    PROVE  LET p == RespPkt(v, i)
           IN  /\ p \in Packets /\ ~ToServer(p) /\ SlotOf(p) = s /\ PacketOK(p, c, v)
               /\ p.type = "kResp" /\ p.req_num = v.req_num /\ p.data = v.resp
               /\ p.pkt_num = v.sav - 1 + i
<1>. DEFINE p == RespPkt(v, i)  k == v.sav - 1 + i
<1>1. /\ v.resp \in Requests /\ v.req_num \in Nat /\ v.num_rx \in Nat /\ v.resp # None
      /\ v.resp \in Ids
  BY Constants DEF Responding, ServerSlots, Ids
<1>2. RespPkts[v.resp] \in Nat /\ ReqPkts[v.resp] \in Nat \ {0}
  BY <1>1, Constants
<1>3. k \in Nat
  BY <1>2
<1>. HIDE DEF k
<1>4. /\ p \in Packets /\ p.type = "kResp" /\ p.req_num = v.req_num /\ p.pkt_num = k
      /\ p.pkts = RespPkts[v.resp] /\ p.data = v.resp
  BY <1>1, <1>2, <1>3 DEF RespPkt, Pkt, Packets, PktTypes, k
<1>. HIDE DEF p
<1>5. ~ToServer(p) /\ SlotOf(p) = s
  BY <1>4 DEF ToServer, SlotOf
<1>6. PacketOK(p, c, v)
  BY <1>1, <1>4 DEF PacketOK, RespPktOK, k
<1>. QED
  BY <1>4, <1>5, <1>6 DEF p, k

(* The slot after the next packet of a request. *)
ReceivedNum(vs, p) == IF p.pkt_num = 0 THEN 1 ELSE vs.num_rx + 1

Received(vs, p) ==
    [(IF p.pkt_num = 0 THEN FirstPacket(vs, p) ELSE NextPacket(vs, p))
        EXCEPT !.busy = (ReceivedNum(vs, p) = p.pkts)]

LEMMA FilledSeq ==
    ASSUME NEW P \in Nat, NEW k, NEW r \in Requests
    PROVE  Filled(P, k, r) \in Seq(Ids)
<1>1. Filled(P, k, r) \in [1..P -> Ids]
  BY DEF Filled, Ids
<1>. QED
  BY <1>1, SeqDef

LEMMA ReceivingFilled ==
    ASSUME NEW v
    PROVE  Receiving(v) <=>
             /\ v.resp = None /\ v.body # <<>> /\ v.body[1] \in Requests
             /\ v.num_rx \in 1..ReqPkts[v.body[1]]
             /\ v.body = Filled(ReqPkts[v.body[1]], v.num_rx, v.body[1])
             /\ v.busy <=> v.num_rx = ReqPkts[v.body[1]]
BY DEF Receiving, Filled

(* What such a packet makes of its slot. *)
ReceivedOK(c, v, p) ==
    LET s == SlotOf(p)
        cs == c.slot[s]
        vs == v.slot[s]
        new == Received(vs, p)
    IN  /\ new \in ServerSlots /\ Receiving(new) /\ new.body[1] = p.data
        /\ new.req_num = p.req_num /\ new.resp = None
        /\ new.num_rx = ReceivedNum(vs, p)
        /\ new.busy <=> ReceivedNum(vs, p) = p.pkts
        /\ cs.req_num = p.req_num /\ cs.req = p.data
        /\ cs.num_rx < ReqPkts[cs.req] /\ vs.busy = FALSE
        /\ \/ p.req_num = vs.req_num + Window /\ vs.body = <<>> /\ p.pkt_num = 0
           \/ /\ p.req_num = vs.req_num /\ vs.resp = None /\ ReqOf(vs) = p.data
              /\ p.pkt_num > 0

LEMMA ReceivedFacts ==
    ASSUME NEW c, NEW v, NEW n, Inv(c, v, n, {}), NEW p \in n, p.type = "kReq",
           NextInOrder(v.slot[SlotOf(p)], p)
    PROVE  ReceivedOK(c, v, p)
<1>. DEFINE s == SlotOf(p)  cs == c.slot[s]  vs == v.slot[s]  r == p.data  P == ReqPkts[r]
            new == Received(vs, p)  b == (ReceivedNum(vs, p) = p.pkts)
<1>. SUFFICES /\ new \in ServerSlots /\ Receiving(new) /\ new.body[1] = p.data
              /\ new.req_num = p.req_num /\ new.resp = None
              /\ new.num_rx = ReceivedNum(vs, p)
              /\ new.busy <=> ReceivedNum(vs, p) = p.pkts
              /\ cs.req_num = p.req_num /\ cs.req = p.data
              /\ cs.num_rx < ReqPkts[cs.req] /\ vs.busy = FALSE
              /\ \/ p.req_num = vs.req_num + Window /\ vs.body = <<>> /\ p.pkt_num = 0
                 \/ /\ p.req_num = vs.req_num /\ vs.resp = None /\ ReqOf(vs) = p.data
                    /\ p.pkt_num > 0
  BY DEF ReceivedOK
<1>1. /\ p \in Packets /\ s \in Slots /\ p.req_num >= Window
      /\ r \in Requests /\ p.pkts = P /\ p.pkt_num < p.pkts
      /\ p.req_num = vs.req_num => r = ReqOf(vs)
      /\ p.req_num > vs.req_num =>
            /\ p.req_num = vs.req_num + Window /\ p.req_num = cs.req_num
            /\ cs.req = p.data /\ cs.num_rx = 0 /\ vs.body = <<>> /\ ~vs.busy
  BY ReqPktFacts
<1>2. /\ c \in Clients /\ v \in Servers /\ SlotsMatch(cs, vs) /\ ServerSlotOK(vs)
      /\ vs \in ServerSlots /\ vs.req_num \in Nat /\ vs.num_rx \in Nat /\ vs.busy \in BOOLEAN
      /\ p.req_num \in Nat /\ p.pkt_num \in Nat /\ r # None /\ P \in Nat \ {0}
      /\ cs.num_rx \in Nat /\ Window \in Nat \ {0} /\ cs.req_num \in Nat
      /\ cs.req # None => cs.req \in Requests
  BY <1>1, ClientFields, ServerFields, PacketFields, Constants DEF Inv, SlotsOK
<1>b. b \in BOOLEAN
  OBVIOUS
<1>3. CASE p.req_num = vs.req_num + Window /\ p.pkt_num = 0
  <2>1. p.req_num > vs.req_num
    BY <1>2, <1>3
  <2>. DEFINE body == Filled(P, 1, r)
  <2>2. [Blank(P) EXCEPT ![1] = r] = body
    <3>1. Blank(P) = Filled(P, 0, r)
      BY <1>2 DEF Blank, Filled
    <3>2. 0 \in Int /\ 0 + 1 \in 1..P /\ 0 + 1 = 1 /\ P \in Nat
      BY <1>2
    <3>3. [Filled(P, 0, r) EXCEPT ![0 + 1] = r] = Filled(P, 0 + 1, r)
      BY <3>2, FillNext
    <3>. QED
      BY <3>1, <3>2, <3>3
  <2>3. body \in Seq(Ids) /\ body # <<>> /\ body[1] = r
    <3>1. body \in Seq(Ids)
      BY <1>1, <1>2, FilledSeq
    <3>2. 1 \in DOMAIN body /\ body[1] = r
      BY <1>2 DEF Filled
    <3>. QED
      BY <3>1, <3>2
  <2>. HIDE DEF body
  <2>4. new = [vs EXCEPT !.req_num = p.req_num, !.num_rx = 1, !.resp = None, !.body = body,
                         !.busy = b]
    BY <1>1, <1>3, <2>2 DEF Received, FirstPacket
  <2>5. None \in Ids /\ 1 \in Nat
    BY DEF Ids
  <2>. HIDE DEF new, vs, b
  <2>6. /\ new \in ServerSlots /\ new.req_num = p.req_num /\ new.num_rx = 1 /\ new.resp = None
        /\ new.body = body /\ new.busy = b
    BY <1>2, <2>3, <2>4, <2>5, <1>b DEF ServerSlots
  <2>7. ReceivedNum(vs, p) = 1
    BY <1>3 DEF ReceivedNum
  <2>8. Receiving(new)
    <3>1. new.body # <<>> /\ new.body[1] = r /\ new.num_rx \in 1..P
          /\ new.body = Filled(P, new.num_rx, r)
      BY <1>2, <2>3, <2>6 DEF body
    <3>2. new.busy <=> new.num_rx = P
      BY <1>1, <2>6, <2>7 DEF vs, b
    <3>. QED
      BY <1>1, <2>6, <3>1, <3>2, ReceivingFilled
  <2>9. cs.num_rx < P /\ vs.busy = FALSE
    BY <1>1, <1>2, <2>1 DEF vs
  <2>. QED
    BY <1>1, <1>3, <2>1, <2>3, <2>6, <2>7, <2>8, <2>9 DEF new, vs, b
<1>4. CASE p.req_num = vs.req_num /\ p.pkt_num = vs.num_rx
  <2>1. ~(vs.req_num < Window)
    BY <1>1, <1>2, <1>4
  <2>2. r = ReqOf(vs)
    BY <1>1, <1>4
  <2>3. ~Responding(vs)
    <3>. SUFFICES ASSUME Responding(vs) PROVE FALSE
      OBVIOUS
    <3>1. vs.resp \in Requests /\ vs.num_rx \in vs.sav..Wire(vs.resp) /\ vs.sav = ReqPkts[vs.resp]
      BY DEF Responding
    <3>2. vs.resp # None
      BY <3>1, Constants
    <3>3. vs.resp = r
      BY <2>2, <3>2 DEF ReqOf
    <3>4. vs.sav = P /\ vs.num_rx >= P
      BY <1>2, <3>1, <3>3
    <3>. QED
      BY <1>1, <1>2, <1>4, <3>4
  <2>4. Receiving(vs)
    BY <1>2, <2>1, <2>3 DEF ServerSlotOK
  <2>5. /\ vs.resp = None /\ vs.body[1] = r /\ vs.body # <<>> /\ vs.num_rx \in 1..P
        /\ vs.body = Filled(P, vs.num_rx, r)
        /\ vs.busy <=> vs.num_rx = P
    BY <1>2, <2>2, <2>4, ReceivingFilled DEF ReqOf
  <2>6. /\ p.pkt_num > 0 /\ p.pkt_num # 0 /\ vs.num_rx + 1 \in 1..P /\ vs.busy = FALSE
        /\ 1 + p.pkt_num = vs.num_rx + 1 /\ vs.num_rx + 1 \in Nat
    <3>1. /\ p.pkt_num > 0 /\ p.pkt_num # 0 /\ vs.num_rx + 1 \in 1..P /\ vs.num_rx # P
          /\ 1 + p.pkt_num = vs.num_rx + 1 /\ vs.num_rx + 1 \in Nat
      BY <1>1, <1>2, <1>4, <2>5
    <3>2. vs.busy = FALSE
      BY <1>2, <2>5, <3>1
    <3>. QED
      BY <3>1, <3>2
  <2>7. cs.req_num = vs.req_num /\ cs.req # None
    BY <1>2, <2>5 DEF SlotsMatch
  <2>8. cs.req = r /\ cs.num_rx < P
    BY <1>2, <2>2, <2>5, <2>7 DEF SlotsMatch
  <2>. DEFINE body == Filled(P, vs.num_rx + 1, r)
  <2>9. [vs.body EXCEPT ![1 + p.pkt_num] = r] = body
    <3>1. vs.num_rx \in Int /\ P \in Nat
      BY <1>2
    <3>2. [Filled(P, vs.num_rx, r) EXCEPT ![vs.num_rx + 1] = r] = Filled(P, vs.num_rx + 1, r)
      BY <2>6, <3>1, FillNext
    <3>3. vs.body = Filled(P, vs.num_rx, r) /\ 1 + p.pkt_num = vs.num_rx + 1
      BY <2>5, <2>6
    <3>. QED
      BY <3>2, <3>3
  <2>10. body \in Seq(Ids) /\ body # <<>> /\ body[1] = r
    <3>1. body \in Seq(Ids)
      BY <1>1, <1>2, FilledSeq
    <3>2. 1 \in DOMAIN body /\ body[1] = r
      BY <1>2, <2>6 DEF Filled
    <3>. QED
      BY <3>1, <3>2
  <2>. HIDE DEF body
  <2>11. new = [vs EXCEPT !.num_rx = vs.num_rx + 1, !.body = body, !.busy = b]
    BY <2>6, <2>9 DEF Received, NextPacket
  <2>. HIDE DEF new, vs, b
  <2>12. /\ new \in ServerSlots /\ new.req_num = vs.req_num /\ new.num_rx = vs.num_rx + 1
         /\ new.resp = vs.resp /\ new.body = body /\ new.busy = b
    BY <1>2, <2>6, <2>10, <2>11, <1>b DEF ServerSlots
  <2>13. ReceivedNum(vs, p) = vs.num_rx + 1
    BY <2>6 DEF ReceivedNum
  <2>14. Receiving(new)
    <3>1. new.body # <<>> /\ new.body[1] = r /\ new.num_rx \in 1..P
          /\ new.body = Filled(P, new.num_rx, r) /\ new.resp = None
      BY <2>5, <2>6, <2>10, <2>12 DEF body
    <3>2. new.busy <=> new.num_rx = P
      BY <1>1, <2>12, <2>13 DEF vs, b
    <3>. QED
      BY <1>1, <3>1, <3>2, ReceivingFilled
  <2>. QED
    BY <1>4, <2>2, <2>5, <2>6, <2>7, <2>8, <2>10, <2>12, <2>13, <2>14 DEF new, vs, b
<1>. QED
  BY <1>3, <1>4 DEF NextInOrder

(* The credit return, when there is one. *)
Reply(p) == IF LastReqPkt(p) THEN {} ELSE {CreditReturn(p)}

LEMMA ReplyIsOK ==
    ASSUME NEW p \in Packets, NEW c, NEW vs, NEW q \in Reply(p), p.req_num >= Window,
           p.req_num <= vs.req_num,
           p.req_num = vs.req_num => p.data = ReqOf(vs), p.data \in Requests,
           p.pkts = ReqPkts[p.data], p.pkt_num < p.pkts
    PROVE  q \in Packets /\ ~ToServer(q) /\ SlotOf(q) = SlotOf(p) /\ PacketOK(q, c, vs)
<1>1. q = CreditReturn(p) /\ p.pkt_num # p.pkts - 1
  BY DEF Reply, LastReqPkt
<1>2. p.req_num \in Nat /\ p.pkt_num \in Nat /\ p.pkts \in Nat
  BY PacketFields
<1>3. None \in Ids /\ 0 \in Nat
  BY DEF Ids
<1>4. q \in Packets /\ q.type = "kExplCR" /\ q.req_num = p.req_num /\ q.pkt_num = p.pkt_num
  BY <1>1, <1>2, <1>3 DEF CreditReturn, Pkt, Packets, PktTypes
<1>5. p.pkt_num < p.pkts - 1
  BY <1>1, <1>2
<1>. QED
  BY <1>4, <1>5 DEF ToServer, SlotOf, PacketOK, CreditReturnOK

LEMMA ReceivedInv ==
    ASSUME NEW c, NEW v, NEW n, Inv(c, v, n, {}), NEW p \in n, p.type = "kReq",
           NextInOrder(v.slot[SlotOf(p)], p), NEW q, q \subseteq Reply(p)
    PROVE  LET s == SlotOf(p)
           IN  Inv(c, [v EXCEPT !.slot[s] = Received(v.slot[s], p), !.out = @ \cup q], n, {})
<1>. DEFINE s == SlotOf(p)  cs == c.slot[s]  vs == v.slot[s]  new == Received(vs, p)
            o == v.out \cup q
            w == [v EXCEPT !.slot[s] = new, !.out = o]
<1>1. /\ p \in Packets /\ s \in Slots /\ p.req_num >= Window
      /\ p.data \in Requests /\ p.pkts = ReqPkts[p.data] /\ p.pkt_num < p.pkts
  BY ReqPktFacts
<1>2. /\ new \in ServerSlots /\ Receiving(new) /\ new.body[1] = p.data
      /\ new.req_num = p.req_num /\ new.resp = None
      /\ cs.req_num = p.req_num /\ cs.req = p.data
      /\ cs.num_rx < ReqPkts[cs.req]
      /\ \/ p.req_num = vs.req_num + Window /\ vs.body = <<>> /\ p.pkt_num = 0
         \/ /\ p.req_num = vs.req_num /\ vs.resp = None /\ ReqOf(vs) = p.data
            /\ p.pkt_num > 0
  <2>0. ReceivedOK(c, v, p)
    BY ReceivedFacts
  <2>1. new \in ServerSlots /\ Receiving(new)
    BY <2>0 DEF ReceivedOK
  <2>4. new.body[1] = p.data /\ new.req_num = p.req_num
    BY <2>0 DEF ReceivedOK
  <2>5. new.resp = None
    BY <2>0 DEF ReceivedOK
  <2>6. cs.req_num = p.req_num /\ cs.req = p.data
    BY <2>0 DEF ReceivedOK
  <2>2. cs.num_rx < ReqPkts[cs.req]
    BY <2>0 DEF ReceivedOK
  <2>3. \/ p.req_num = vs.req_num + Window /\ vs.body = <<>> /\ p.pkt_num = 0
        \/ /\ p.req_num = vs.req_num /\ vs.resp = None /\ ReqOf(vs) = p.data
           /\ p.pkt_num > 0
    BY <2>0 DEF ReceivedOK
  <2>. QED
    BY <2>1, <2>2, <2>3, <2>4, <2>5, <2>6
<1>3. /\ c \in Clients /\ v \in Servers /\ n \in SUBSET Packets /\ v.out \in SUBSET Packets
      /\ c.out \in SUBSET Packets
      /\ PacketsOK(n \cup c.out \cup v.out, c, v) /\ WaysOK(c, v)
      /\ p.req_num \in Nat /\ vs.req_num \in Nat /\ Window \in Nat \ {0}
      /\ cs.req # None /\ cs.num_rx \in Nat /\ ReqPkts[cs.req] \in Nat
  BY <1>1, <1>2, ClientFields, ServerFields, PacketFields, Constants DEF Inv
<1>. HIDE DEF new
<1>4. ReqOf(new) = p.data
  BY <1>2 DEF ReqOf
<1>5. \A a \in q : /\ a \in Packets /\ ~ToServer(a) /\ SlotOf(a) = s
                   /\ PacketOK(a, cs, new)
  <2>1. p.req_num <= new.req_num
    BY <1>2, <1>3
  <2>. QED
    BY <1>1, <1>4, <2>1, ReplyIsOK
<1>6. o \in SUBSET Packets
  BY <1>3, <1>5
<1>7. /\ w \in Servers /\ w.slot[s] = new /\ w.out = o
      /\ \A t \in Slots \ {s} : w.slot[t] = v.slot[t]
  <2>1. v \in Servers /\ s \in Slots /\ new \in ServerSlots
    BY <1>1, <1>2, <1>3
  <2>. HIDE DEF o, s
  <2>. QED
    BY <1>6, <2>1 DEF Servers
<1>. HIDE DEF w, o
<1>8. new.req_num % Window = s
  BY <1>2 DEF SlotOf
<1>9. ServerSlotOK(new)
  BY <1>1, <1>2, <1>3 DEF ServerSlotOK
<1>10. SlotsMatch(cs, new)
  BY <1>2, <1>3, <1>4 DEF SlotsMatch
<1>11. ASSUME NEW a \in n \cup c.out \cup v.out, SlotOf(a) = s
       PROVE  PacketOK(a, cs, new)
  <2>1. PacketOK(a, cs, vs) /\ a \in Packets /\ a.req_num \in Nat
    BY <1>3, <1>11, PacketFields DEF PacketsOK
  <2>2. CASE p.req_num = vs.req_num + Window
    <3>1. a.req_num <= vs.req_num => a.req_num <= new.req_num /\ a.req_num # new.req_num
      BY <1>2, <1>3, <2>1, <2>2
    <3>2. a.type = "kReq" => ReqPktOK(a, cs, new)
      BY <1>2, <1>3, <1>4, <2>1 DEF PacketOK, ReqPktOK
    <3>. QED
      BY <2>1, <3>1, <3>2 DEF PacketOK, RfrOK, CreditReturnOK, RespPktOK
  <2>3. CASE p.req_num = vs.req_num /\ vs.resp = None /\ ReqOf(vs) = p.data
    BY <1>2, <1>4, <2>1, <2>3 DEF PacketOK, ReqPktOK, RfrOK, CreditReturnOK, RespPktOK
  <2>. QED
    BY <1>2, <2>2, <2>3
<1>12. \A a \in n \cup c.out \cup w.out :
          /\ a \notin n \cup c.out \cup v.out => SlotOf(a) = s
          /\ SlotOf(a) = s => PacketOK(a, cs, new)
  BY <1>5, <1>7, <1>11 DEF o
<1>13. \A a \in w.out : ~ToServer(a)
  BY <1>3, <1>5, <1>7 DEF WaysOK, o
<1>14. Inv(c, w, n, {})
  BY <1>1, <1>3, <1>7, <1>8, <1>9, <1>10, <1>12, <1>13, ServerSlotInv
<1>. QED
  BY <1>14 DEF w, o, new

Responded(vs) ==
    [vs EXCEPT !.sav = Len(vs.body), !.body = <<>>, !.resp = vs.body[1], !.busy = FALSE]

LEMMA RespondedFacts ==
    ASSUME NEW vs \in ServerSlots, ServerSlotOK(vs), vs.busy
    PROVE  LET new == Responded(vs)
           IN  /\ Receiving(vs) /\ vs.num_rx = ReqPkts[vs.body[1]] /\ vs.req_num >= Window
               /\ new \in ServerSlots /\ Responding(new) /\ new.resp = vs.body[1]
               /\ new.req_num = vs.req_num /\ new.sav = ReqPkts[new.resp]
               /\ new.num_rx = vs.num_rx /\ new.body = <<>> /\ ~new.busy
<1>. DEFINE r == vs.body[1]  P == ReqPkts[r]  new == Responded(vs)  k == Len(vs.body)
<1>1. Receiving(vs) /\ ~(vs.req_num < Window) /\ vs.req_num \in Nat
  BY DEF ServerSlotOK, Responding, ServerSlots
<1>2. /\ r \in Requests /\ vs.body = Filled(P, vs.num_rx, r)
      /\ vs.num_rx = P
  BY <1>1, ReceivingFilled
<1>3. P \in Nat \ {0} /\ RespPkts[r] \in Nat \ {0} /\ Window \in Nat
  BY <1>2, Constants
<1>4. k = P
  <2>1. DOMAIN vs.body = 1..P
    BY <1>2 DEF Filled
  <2>2. vs.body \in Seq(Ids)
    BY DEF ServerSlots
  <2>3. k \in Nat /\ DOMAIN vs.body = 1..k
    BY <2>2, LenProperties
  <2>4. \A i : i \in 1..k <=> i \in 1..P
    BY <2>1, <2>3
  <2>. HIDE DEF k, P, r
  <2>5. k \in 1..P \/ k = 0
    BY <2>3, <2>4, k # 0 => k \in 1..k
  <2>6. P \in 1..k
    BY <1>3, <2>4, P \in 1..P
  <2>. QED
    BY <1>3, <2>3, <2>5, <2>6
<1>5. new = [vs EXCEPT !.sav = P, !.body = <<>>, !.resp = r, !.busy = FALSE]
  BY <1>4 DEF Responded
<1>6. <<>> \in Seq(Ids) /\ r \in Ids
  BY <1>2 DEF Ids
<1>. HIDE DEF r, P, new
<1>7. /\ new \in ServerSlots /\ new.resp = r /\ new.req_num = vs.req_num /\ new.sav = P
      /\ new.num_rx = vs.num_rx /\ new.body = <<>> /\ new.busy = FALSE
  BY <1>3, <1>5, <1>6 DEF ServerSlots
<1>8. Responding(new)
  <2>1. new.sav = ReqPkts[new.resp]
    BY <1>7 DEF P
  <2>2. P \in P..(P + RespPkts[r] - 1)
    BY <1>3
  <2>3. new.num_rx \in new.sav..Wire(new.resp)
    BY <1>2, <1>7, <2>2 DEF Wire, P
  <2>. QED
    BY <1>2, <1>7, <2>1, <2>3 DEF Responding
<1>9. vs.req_num >= Window
  BY <1>1, <1>3
<1>. QED
  BY <1>1, <1>2, <1>7, <1>8, <1>9 DEF r, P, new

LEMMA RespondedInv ==
    ASSUME NEW c, NEW v, NEW n, Inv(c, v, n, {}), NEW s \in Slots, v.slot[s].busy
    PROVE  LET new == Responded(v.slot[s])
           IN  Inv(c, [v EXCEPT !.slot[s] = new, !.out = @ \cup {RespPkt(new, 0)}], n, {})
<1>. DEFINE cs == c.slot[s]  vs == v.slot[s]  new == Responded(vs)  a == RespPkt(new, 0)
            o == v.out \cup {a}
            w == [v EXCEPT !.slot[s] = new, !.out = o]
<1>1. /\ c \in Clients /\ v \in Servers /\ n \in SUBSET Packets /\ v.out \in SUBSET Packets
      /\ c.out \in SUBSET Packets
      /\ PacketsOK(n \cup c.out \cup v.out, c, v) /\ WaysOK(c, v)
      /\ SlotsMatch(cs, vs) /\ ServerSlotOK(vs) /\ vs.req_num % Window = s
      /\ vs \in ServerSlots /\ cs.num_rx \in Nat
  BY ClientFields, ServerFields DEF Inv, SlotsOK
<1>2. Receiving(vs) /\ vs.num_rx = ReqPkts[vs.body[1]] /\ vs.req_num >= Window
  BY <1>1, RespondedFacts
<1>3. new \in ServerSlots /\ Responding(new) /\ new.resp = vs.body[1]
  BY <1>1, RespondedFacts
<1>4. new.req_num = vs.req_num /\ new.num_rx = vs.num_rx
  BY <1>1, RespondedFacts
<1>5. new.sav = ReqPkts[new.resp] /\ new.body = <<>> /\ ~new.busy
  BY <1>1, RespondedFacts
<1>. HIDE DEF new
<1>6. /\ new.resp \in Requests /\ new.resp # None /\ new.num_rx = new.sav
      /\ new.sav \in Nat \ {0} /\ RespPkts[new.resp] \in Nat \ {0}
      /\ ReqOf(new) = ReqOf(vs) /\ vs.resp = None
  BY <1>2, <1>3, <1>4, <1>5, Constants DEF Responding, Receiving, ReqOf
<1>7. /\ a \in Packets /\ ~ToServer(a) /\ SlotOf(a) = s /\ PacketOK(a, cs, new)
  <2>1. new.sav - 1 + 0 \in (ReqPkts[new.resp] - 1) .. (Wire(new.resp) - 1)
    BY <1>5, <1>6 DEF Wire
  <2>2. new.sav - 1 + 0 < new.num_rx /\ 0 \in Int
    BY <1>6
  <2>3. new.req_num % Window = s /\ new.req_num >= Window
    BY <1>1, <1>2, <1>4
  <2>. QED
    BY <1>3, <2>1, <2>2, <2>3, RespPktIsOK
<1>. HIDE DEF a
<1>8. o \in SUBSET Packets
  BY <1>1, <1>7
<1>9. /\ w \in Servers /\ w.slot[s] = new /\ w.out = o
      /\ \A t \in Slots \ {s} : w.slot[t] = v.slot[t]
  <2>. HIDE DEF o
  <2>. QED
    BY <1>1, <1>3, <1>8 DEF Servers
<1>. HIDE DEF w
<1>10. new.req_num % Window = s /\ ServerSlotOK(new)
  <2>1. new.req_num >= Window /\ new.req_num \in Nat /\ Window \in Nat
    BY <1>1, <1>2, <1>4, Constants DEF ServerSlots
  <2>. QED
    BY <1>1, <1>3, <1>4, <2>1 DEF ServerSlotOK
<1>11. SlotsMatch(cs, new)
  BY <1>1, <1>3, <1>4, <1>5, <1>6 DEF SlotsMatch, ReqOf
<1>12. ASSUME NEW b \in n \cup c.out \cup v.out, SlotOf(b) = s
       PROVE  PacketOK(b, cs, new)
  <2>1. PacketOK(b, cs, vs)
    BY <1>1, <1>12 DEF PacketsOK
  <2>2. b.type = "kReq" => ReqPktOK(b, cs, new)
    BY <1>4, <1>6, <2>1 DEF PacketOK, ReqPktOK
  <2>3. b.type = "kRFR" => RfrOK(b, new)
    BY <1>4, <1>6, <2>1 DEF PacketOK, RfrOK
  <2>4. b.type = "kExplCR" => CreditReturnOK(b, new)
    BY <1>4, <1>6, <2>1 DEF PacketOK, CreditReturnOK
  <2>5. b.type = "kResp" => RespPktOK(b, new)
    BY <1>4, <1>6, <2>1 DEF PacketOK, RespPktOK
  <2>. QED
    BY <2>1, <2>2, <2>3, <2>4, <2>5 DEF PacketOK
<1>13. \A b \in n \cup c.out \cup w.out :
          /\ b \notin n \cup c.out \cup v.out => SlotOf(b) = s
          /\ SlotOf(b) = s => PacketOK(b, cs, new)
  BY <1>7, <1>9, <1>12 DEF o
<1>14. \A b \in w.out : ~ToServer(b)
  BY <1>1, <1>7, <1>9 DEF WaysOK, o
<1>15. Inv(c, w, n, {})
  BY <1>1, <1>9, <1>10, <1>11, <1>13, <1>14, ServerSlotInv
<1>. QED
  BY <1>15 DEF w, o, new, a

LEMMA ResendInv ==
    ASSUME NEW c, NEW v, NEW n, Inv(c, v, n, {}), NEW s \in Slots, v.slot[s].resp # None,
           NEW i \in Int,
           v.slot[s].sav - 1 + i
             \in (ReqPkts[v.slot[s].resp] - 1) .. (Wire(v.slot[s].resp) - 1),
           v.slot[s].sav - 1 + i < v.slot[s].num_rx
    PROVE  Inv(c, [v EXCEPT !.out = {}], n \cup v.out \cup {RespPkt(v.slot[s], i)}, {})
<1>. DEFINE vs == v.slot[s]  a == RespPkt(vs, i)  m == n \cup v.out \cup {a}
            z == {}  q == {a}
<1>1. /\ v \in Servers /\ n \in SUBSET Packets /\ v.out \in SUBSET Packets
      /\ vs \in ServerSlots /\ vs.req_num % Window = s /\ ServerSlotOK(vs)
      /\ vs.req_num \in Nat /\ Window \in Nat
  BY ServerFields, Constants DEF Inv, SlotsOK
<1>2. Responding(vs) /\ vs.req_num >= Window
  BY <1>1 DEF ServerSlotOK, Receiving
<1>3. a \in Packets /\ SlotOf(a) = s /\ PacketOK(a, c.slot[s], vs)
  BY <1>1, <1>2, RespPktIsOK
<1>. HIDE DEF a
<1>4. m \in SUBSET Packets /\ z \in SUBSET Packets /\ q \in SUBSET Packets
  BY <1>1, <1>3
<1>5. /\ m \cup z \subseteq n \cup v.out \cup q /\ \A p \in z : ~ToServer(p)
      /\ \A p \in q : PacketOK(p, c.slot[SlotOf(p)], v.slot[SlotOf(p)])
  BY <1>3
<1>. HIDE DEF m, z, q
<1>6. Inv(c, [v EXCEPT !.out = z], m, {})
  BY <1>4, <1>5, ServerPacketsInv
<1>. QED
  BY <1>6 DEF m, z, a

(* A request for response finds the response. *)
LEMMA RfrFacts ==
    ASSUME NEW c, NEW v, NEW n, Inv(c, v, n, {}), NEW p \in n, p.type = "kRFR",
           p.req_num = v.slot[SlotOf(p)].req_num
    PROVE  LET s == SlotOf(p)
               vs == v.slot[s]
               i == resp_ntoi(p.pkt_num, vs.sav)
           IN  /\ s \in Slots /\ vs \in ServerSlots /\ vs.req_num % Window = s
               /\ vs.req_num >= Window /\ Responding(vs) /\ vs.resp # None
               /\ i \in Int /\ vs.sav - 1 + i = p.pkt_num
               /\ p.pkt_num \in (ReqPkts[vs.resp] - 1) .. (Wire(vs.resp) - 1)
               /\ i \in 1..(RespPkts[vs.resp] - 1)
<1>. DEFINE s == SlotOf(p)  vs == v.slot[s]
<1>1. /\ v \in Servers /\ p \in Packets /\ PacketOK(p, c.slot[s], vs) /\ SlotsOK(c, v)
  BY DEF Inv, PacketsOK
<1>2. s \in Slots /\ p.pkt_num \in Nat /\ p.req_num \in Nat
  BY <1>1, PacketFields
<1>3. /\ vs \in ServerSlots /\ vs.req_num % Window = s /\ ServerSlotOK(vs)
      /\ vs.sav \in Nat
  BY <1>1, <1>2, ServerFields DEF SlotsOK
<1>4. /\ vs.req_num >= Window /\ vs.resp # None
      /\ p.pkt_num \in ReqPkts[vs.resp] .. (Wire(vs.resp) - 1)
  BY <1>1 DEF PacketOK, RfrOK
<1>5. Responding(vs)
  <2>1. ~(vs.req_num < Window)
    BY <1>2, <1>4, Constants
  <2>. QED
    BY <1>3, <1>4, <2>1 DEF ServerSlotOK, Receiving
<1>6. /\ vs.sav = ReqPkts[vs.resp] /\ ReqPkts[vs.resp] \in Nat \ {0}
      /\ RespPkts[vs.resp] \in Nat \ {0}
  BY <1>5, Constants DEF Responding
<1>. QED
  BY <1>2, <1>3, <1>4, <1>5, <1>6 DEF resp_ntoi, Wire

LEMMA RfrInv ==
    ASSUME NEW c, NEW v, NEW n, Inv(c, v, n, {}), NEW p \in n, p.type = "kRFR",
           p.req_num = v.slot[SlotOf(p)].req_num, p.pkt_num = v.slot[SlotOf(p)].num_rx
    PROVE  LET s == SlotOf(p)
               i == resp_ntoi(p.pkt_num, v.slot[s].sav)
           IN  Inv(c, [v EXCEPT !.slot[s].num_rx = @ + 1,
                                !.out = @ \cup {RespPkt(v.slot[s], i)}], n, {})
<1>. DEFINE s == SlotOf(p)  cs == c.slot[s]  vs == v.slot[s]
            i == resp_ntoi(p.pkt_num, v.slot[s].sav)
            new == [vs EXCEPT !.num_rx = @ + 1]
            a == RespPkt(vs, i)
            o == v.out \cup {a}
            w == [v EXCEPT !.slot[s].num_rx = @ + 1, !.out = o]
<1>1. s \in Slots /\ vs \in ServerSlots /\ vs.req_num % Window = s
  BY RfrFacts
<1>2. vs.req_num >= Window /\ Responding(vs) /\ vs.resp # None
  BY RfrFacts
<1>3. /\ i \in Int /\ vs.sav - 1 + i = p.pkt_num
      /\ p.pkt_num \in (ReqPkts[vs.resp] - 1) .. (Wire(vs.resp) - 1)
  BY RfrFacts
<1>4. /\ c \in Clients /\ v \in Servers /\ n \in SUBSET Packets /\ v.out \in SUBSET Packets
      /\ c.out \in SUBSET Packets
      /\ PacketsOK(n \cup c.out \cup v.out, c, v) /\ WaysOK(c, v)
      /\ SlotsMatch(cs, vs) /\ vs.num_rx \in Nat /\ vs.sav \in Nat
      /\ vs.req_num \in Nat /\ Window \in Nat
  BY <1>1, ClientFields, ServerFields, Constants DEF Inv, SlotsOK
<1>5. /\ new \in ServerSlots /\ new.num_rx = vs.num_rx + 1 /\ new.req_num = vs.req_num
      /\ new.body = vs.body /\ new.busy = vs.busy /\ new.resp = vs.resp /\ new.sav = vs.sav
  <2>1. vs \in ServerSlots /\ vs.num_rx + 1 \in Nat
    BY <1>1, <1>4
  <2>. HIDE DEF vs
  <2>. QED
    BY <2>1 DEF ServerSlots
<1>6. Responding(new)
  <2>1. /\ vs.resp \in Requests /\ vs.sav = ReqPkts[vs.resp]
        /\ vs.num_rx \in vs.sav..Wire(vs.resp) /\ Wire(vs.resp) \in Int
    BY <1>2, Constants DEF Responding, Wire
  <2>2. vs.num_rx + 1 \in vs.sav..Wire(vs.resp)
    BY <1>3, <1>4, <2>1
  <2>. QED
    BY <1>2, <1>5, <2>2 DEF Responding
<1>7. w = [v EXCEPT !.slot[s] = new, !.out = o]
  BY <1>4
<1>. HIDE DEF new
<1>8. a = RespPkt(new, i)
  BY <1>5 DEF RespPkt
<1>9. a \in Packets /\ ~ToServer(a) /\ SlotOf(a) = s /\ PacketOK(a, cs, new)
  <2>1. new.req_num % Window = s /\ new.req_num >= Window
    BY <1>1, <1>2, <1>5
  <2>2. /\ new.sav - 1 + i \in (ReqPkts[new.resp] - 1) .. (Wire(new.resp) - 1)
        /\ new.sav - 1 + i < new.num_rx
    BY <1>3, <1>4, <1>5
  <2>. HIDE DEF a, i
  <2>. QED
    BY <1>1, <1>3, <1>5, <1>6, <1>8, <2>1, <2>2, RespPktIsOK
<1>. HIDE DEF a, w
<1>10. o \in SUBSET Packets
  BY <1>4, <1>9
<1>11. /\ w \in Servers /\ w.slot[s] = new /\ w.out = o
       /\ \A t \in Slots \ {s} : w.slot[t] = v.slot[t]
  <2>. HIDE DEF o, s
  <2>. QED
    BY <1>1, <1>4, <1>5, <1>7, <1>10 DEF Servers
<1>12. new.req_num % Window = s /\ ServerSlotOK(new)
  BY <1>1, <1>2, <1>4, <1>5, <1>6 DEF ServerSlotOK
<1>13. SlotsMatch(cs, new)
  BY <1>4, <1>5 DEF SlotsMatch, ReqOf
<1>14. ASSUME NEW b \in n \cup c.out \cup v.out, SlotOf(b) = s
       PROVE  PacketOK(b, cs, new)
  <2>1. PacketOK(b, cs, vs) /\ b \in Packets /\ b.pkt_num \in Nat
    BY <1>4, <1>14, PacketFields DEF PacketsOK
  <2>2. ReqOf(new) = ReqOf(vs)
    BY <1>5 DEF ReqOf
  <2>3. b.pkt_num < vs.num_rx => b.pkt_num < new.num_rx
    BY <1>4, <1>5, <2>1
  <2>. QED
    BY <1>5, <2>1, <2>2, <2>3 DEF PacketOK, ReqPktOK, RfrOK, CreditReturnOK, RespPktOK
<1>15. \A b \in n \cup c.out \cup w.out :
          /\ b \notin n \cup c.out \cup v.out => SlotOf(b) = s
          /\ SlotOf(b) = s => PacketOK(b, cs, new)
  BY <1>9, <1>11, <1>14 DEF o
<1>16. \A b \in w.out : ~ToServer(b)
  BY <1>4, <1>9, <1>11 DEF WaysOK, o
<1>17. Inv(c, w, n, {})
  BY <1>1, <1>4, <1>11, <1>12, <1>13, <1>15, <1>16, ServerSlotInv
<1>. QED
  BY <1>17 DEF w, o, a

(* A packet received before gets its credit return again. *)
LEMMA PastPacketInv ==
    ASSUME NEW c, NEW v, NEW n, Inv(c, v, n, {}), NEW p \in n, p.type = "kReq",
           p.req_num = v.slot[SlotOf(p)].req_num
    PROVE  Inv(c, [v EXCEPT !.out = @ \cup Reply(p)], n, {})
<1>. DEFINE s == SlotOf(p)  vs == v.slot[s]  q == Reply(p)  o == v.out \cup q
<1>1. /\ p \in Packets /\ s \in Slots /\ p.req_num >= Window
      /\ p.data \in Requests /\ p.pkts = ReqPkts[p.data] /\ p.pkt_num < p.pkts
      /\ p.req_num = vs.req_num => p.data = ReqOf(vs)
  BY ReqPktFacts
<1>2. p.req_num <= vs.req_num
  BY <1>1, PacketFields
<1>3. /\ v \in Servers /\ n \in SUBSET Packets /\ v.out \in SUBSET Packets /\ WaysOK(c, v)
  BY ServerFields DEF Inv
<1>4. \A a \in q : a \in Packets /\ ~ToServer(a) /\ SlotOf(a) = s /\ PacketOK(a, c.slot[s], vs)
  BY <1>1, <1>2, ReplyIsOK
<1>. HIDE DEF q
<1>5. /\ q \in SUBSET Packets /\ o \in SUBSET Packets /\ n \cup o \subseteq n \cup v.out \cup q
      /\ \A a \in o : ~ToServer(a)
      /\ \A a \in q : PacketOK(a, c.slot[SlotOf(a)], v.slot[SlotOf(a)])
  BY <1>3, <1>4 DEF WaysOK
<1>. HIDE DEF o
<1>6. Inv(c, [v EXCEPT !.out = o], n, {})
  BY <1>3, <1>5, ServerPacketsInv
<1>. QED
  BY <1>6 DEF o, q

LEMMA ServerDrainInv ==
    ASSUME NEW c, NEW v, NEW n, Inv(c, v, n, {})
    PROVE  Inv(c, [v EXCEPT !.out = {}], n \cup v.out, {})
<1>. DEFINE z == {}  m == n \cup v.out
<1>1. /\ n \in SUBSET Packets /\ v.out \in SUBSET Packets
  BY ServerFields DEF Inv
<1>2. /\ m \in SUBSET Packets /\ z \in SUBSET Packets /\ m \cup z \subseteq n \cup v.out \cup z
      /\ \A p \in z : ~ToServer(p)
      /\ \A p \in z : PacketOK(p, c.slot[SlotOf(p)], v.slot[SlotOf(p)])
  BY <1>1
<1>. HIDE DEF m, z
<1>3. Inv(c, [v EXCEPT !.out = z], m, {})
  BY <1>2, ServerPacketsInv
<1>. QED
  BY <1>3 DEF m, z

LEMMA FewerPacketsInv ==
    ASSUME NEW c, NEW v, NEW n, NEW m \in SUBSET n, Inv(c, v, n, {})
    PROVE  Inv(c, v, m, {})
BY DEF Inv, PacketsOK
-----------------------------------------------------------------------------
(***************************************************************************)
(* The invariant holds initially and every step keeps it.                  *)
(***************************************************************************)
LEMMA InitInv ==
    ASSUME Init
    PROVE  IInv
<1>1. Window \in Nat \ {0} /\ Credits \in Nat \ {0}
  BY Constants
<1>2. /\ cl.slot = [s \in Slots |-> ClientSlot(s)] /\ cl.credits = Credits
      /\ cl.free = [i \in 1..Window |-> Window - i] /\ cl.backlog = <<>> /\ cl.stallq = <<>>
      /\ cl.wheel = {} /\ cl.out = {}
      /\ sv.slot = [s \in Slots |-> ServerSlot(s)] /\ sv.out = {} /\ net = {}
  BY DEF Init
<1>3. \A s \in Slots :
        LET c == cl.slot[s]
            v == sv.slot[s]
        IN  /\ c.req = None /\ c.req_num = s /\ c.num_tx = 0 /\ c.num_rx = 0
            /\ c.in_wheel = {} /\ c.wheel_count = 0
            /\ v.req_num = s /\ v.body = <<>> /\ v.busy = FALSE /\ v.resp = None
            /\ c \in ClientSlots /\ v \in ServerSlots
            /\ s \in Nat /\ s < Window /\ s % Window = s
  <2>1. \A s \in Slots : s \in Nat /\ s < Window
    BY <1>1 DEF Slots
  <2>2. \A s \in Slots : s % Window = s
    BY <1>1, ModSmall DEF Slots
  <2>3. \A s \in Slots : ClientSlot(s) \in ClientSlots /\ ServerSlot(s) \in ServerSlots
    BY <2>1 DEF ClientSlot, ServerSlot, ClientSlots, ServerSlots, Ids
  <2>. QED
    BY <1>2, <2>1, <2>2, <2>3 DEF ClientSlot, ServerSlot
<1>4. cl.free \in Seq(Slots)
  <2>1. \A i \in 1..Window : Window - i \in Slots
    BY <1>1 DEF Slots
  <2>. QED
    BY <1>1, <1>2, <2>1, IsASeq
<1>5. cl \in Clients /\ sv \in Servers /\ net \in SUBSET Packets
  <2>1. /\ cl.slot \in [Slots -> ClientSlots] /\ sv.slot \in [Slots -> ServerSlots]
    BY <1>2, <1>3
  <2>2. /\ cl = [slot |-> cl.slot, credits |-> cl.credits, free |-> cl.free,
                 backlog |-> cl.backlog, stallq |-> cl.stallq, wheel |-> cl.wheel,
                 out |-> cl.out]
        /\ sv = [slot |-> sv.slot, out |-> sv.out]
    BY DEF Init
  <2>3. /\ cl.credits \in Nat /\ cl.backlog \in Seq(Requests) /\ cl.stallq \in Seq(Slots)
        /\ cl.wheel \in SUBSET (Slots \X Nat) /\ cl.out \in SUBSET Packets
        /\ sv.out \in SUBSET Packets
    BY <1>1, <1>2
  <2>4. cl \in Clients
    BY <1>4, <2>1, <2>2, <2>3 DEF Clients
  <2>5. sv \in Servers
    BY <2>1, <2>2, <2>3 DEF Servers
  <2>. QED
    BY <1>2, <2>4, <2>5
<1>6. SlotsOK(cl, sv)
  <2>. SUFFICES ASSUME NEW s \in Slots
                PROVE  /\ cl.slot[s].req_num % Window = s /\ sv.slot[s].req_num % Window = s
                       /\ ClientSlotOK(cl.slot[s]) /\ ServerSlotOK(sv.slot[s])
                       /\ SlotsMatch(cl.slot[s], sv.slot[s])
    BY DEF SlotsOK
  <2>1. ClientSlotOK(cl.slot[s]) /\ ServerSlotOK(sv.slot[s])
    BY <1>3 DEF ClientSlotOK, ServerSlotOK
  <2>2. SlotsMatch(cl.slot[s], sv.slot[s])
    BY <1>3 DEF SlotsMatch
  <2>. QED
    BY <1>3, <2>1, <2>2
<1>7. PacketsOK(net \cup cl.out \cup sv.out, cl, sv) /\ WaysOK(cl, sv)
  BY <1>2 DEF PacketsOK, WaysOK
<1>8. FreeOK(cl)
  <2>1. DOMAIN cl.free = 1..Window
    BY <1>2
  <2>2. \A i, j \in 1..Window : cl.free[i] = cl.free[j] => i = j
    BY <1>1, <1>2
  <2>3. ASSUME NEW s \in Slots
        PROVE  \E i \in 1..Window : cl.free[i] = s
    <3>1. Window - s \in 1..Window /\ Window - (Window - s) = s
      BY <1>1 DEF Slots
    <3>. QED
      BY <1>2, <3>1
  <2>. QED
    BY <1>3, <2>1, <2>2, <2>3 DEF FreeOK
<1>9. StallOK(cl, {})
  <2>1. DOMAIN cl.stallq = {}
    BY <1>2
  <2>. QED
    BY <1>3, <2>1 DEF StallOK, Stalled
<1>10. CreditsOK(cl)
  <2>1. Unanswered(cl) = {}
    BY <1>3 DEF Unanswered
  <2>. QED
    BY <1>1, <1>2, <2>1, FS_EmptySet DEF CreditsOK
<1>11. WheelOK(cl)
  <2>1. \A s \in Slots : InWheel(cl, s) = {}
    BY <1>2 DEF InWheel
  <2>2. Cardinality({}) = 0
    BY FS_EmptySet
  <2>3. \A s \in Slots : {k % Credits : k \in InWheel(cl, s)} = {}
    BY <2>1
  <2>. QED
    BY <1>3, <2>1, <2>2, <2>3 DEF WheelOK, WheelSlotOK
<1>. QED
  BY <1>2, <1>5, <1>6, <1>7, <1>8, <1>9, <1>10, <1>11 DEF IInv, Inv, BacklogOK

(* The invariant after a step. *)
LEMMA Primed ==
    ASSUME NEW c, NEW v, NEW n, cl' = c, sv' = v, net' = n, Inv(c, v, n, {}), BacklogOK(c)
    PROVE  IInv'
BY DEF IInv, Inv, BacklogOK

LEMMA EnqueueRequestStep ==
    ASSUME IInv, NEW u, EnqueueRequest(u), issued \in Nat
    PROVE  IInv'
<1>. DEFINE r == issued + 1  d == enqueue_request(cl, r, u)  q == cl.free
<1>1. Inv(cl, sv, net, {}) /\ BacklogOK(cl) /\ cl \in Clients
  BY DEF IInv, Inv
<1>2. r \in Requests
  BY Constants DEF EnqueueRequest, Requests
<1>3. cl' = d /\ sv' = sv /\ net' = net
  BY DEF EnqueueRequest
<1>. HIDE DEF r
<1>4. Inv(d, sv, net, {})
  BY <1>1, <1>2, EnqueueRequestInv
<1>5. BacklogOK(d)
  <2>1. CASE q = <<>>
    <3>1. d.free = <<>>
      BY <1>1, <1>2, <2>1, EnqueueRequestInv
    <3>. QED
      BY <3>1 DEF BacklogOK
  <2>2. CASE q # <<>>
    <3>1. d.backlog = cl.backlog
      BY <1>1, <1>2, <2>2, EnqueueRequestInv
    <3>2. cl.backlog = <<>>
      BY <1>1, <2>2 DEF BacklogOK
    <3>. QED
      BY <3>1, <3>2 DEF BacklogOK
  <2>. QED
    BY <2>1, <2>2
<1>. HIDE DEF d
<1>. QED
  BY <1>3, <1>4, <1>5, Primed

LEMMA ProcessStallQueueStep ==
    ASSUME IInv, NEW u, ProcessStallQueue(u)
    PROVE  IInv'
<1>. DEFINE s == Head(cl.stallq)  c == Popped(cl)  d == kick(c, s, u)
<1>1. Inv(cl, sv, net, {}) /\ BacklogOK(cl) /\ cl.stallq # <<>> /\ cl.credits > 0
  BY DEF IInv, ProcessStallQueue
<1>2. cl' = d /\ sv' = sv /\ net' = net
  BY DEF ProcessStallQueue, Popped
<1>3. s \in Slots /\ Inv(c, sv, net, {s}) /\ c.free = cl.free /\ c.backlog = cl.backlog
  BY <1>1, PoppedInv
<1>4. c.slot = cl.slot /\ c.credits = cl.credits
  BY <1>1, PoppedInv
<1>5. cl.slot[s].req \in Requests /\ cl.slot[s].num_tx = 0
  BY <1>1, PoppedInv
<1>6. 0 < ReqPkts[cl.slot[s].req]
  BY <1>5, Constants
<1>7. d = kick_req(c, s, u)
  BY <1>4, <1>5, <1>6 DEF kick, req_pkts_pending
<1>. HIDE DEF c, s
<1>8. /\ c.slot[s].req \in Requests /\ c.slot[s].num_tx < ReqPkts[c.slot[s].req]
      /\ c.credits > 0
  BY <1>1, <1>4, <1>5, <1>6
<1>9. Inv(d, sv, net, {}) /\ d.free = c.free /\ d.backlog = c.backlog
  BY <1>3, <1>7, <1>8, KickReqInv
<1>. HIDE DEF d
<1>10. BacklogOK(d)
  BY <1>1, <1>3, <1>9 DEF BacklogOK
<1>. QED
  BY <1>2, <1>9, <1>10, Primed

LEMMA DrainStep ==
    ASSUME NEW c, Inv(c, sv, net, {}), BacklogOK(c), Drain(c)
    PROVE  IInv'
<1>. DEFINE d == [c EXCEPT !.out = {}]  m == net \cup c.out
<1>1. Inv(d, sv, m, {}) /\ d.free = c.free /\ d.backlog = c.backlog
  BY DrainInv
<1>2. cl' = d /\ sv' = sv /\ net' = m
  BY DEF Drain
<1>. HIDE DEF d, m
<1>3. BacklogOK(d)
  BY <1>1 DEF BacklogOK
<1>. QED
  BY <1>1, <1>2, <1>3, Primed

LEMMA RetransmitInv ==
    ASSUME IInv, NEW s \in Slots, NEW u, cl.slot[s].req # None,
           cl.slot[s].num_tx # cl.slot[s].num_rx, cl.slot[s].wheel_count = 0
    PROVE  LET d == kick(RollBack(cl, s), s, u)
           IN  Inv(d, sv, net, {}) /\ BacklogOK(d)
<1>. DEFINE c == RollBack(cl, s)  d == kick(c, s, u)
<1>1. Inv(cl, sv, net, {}) /\ BacklogOK(cl)
  BY DEF IInv
<1>2. /\ Inv(c, sv, net, {s}) /\ c.credits > 0 /\ c.free = cl.free /\ c.backlog = cl.backlog
  BY <1>1, RollBackInv
<1>3. /\ c.slot[s].req \in Requests
      /\ \/ c.slot[s].num_tx < ReqPkts[c.slot[s].req]
         \/ /\ c.slot[s].num_rx >= ReqPkts[c.slot[s].req]
            /\ c.slot[s].num_tx < wire_pkts(c.slot[s])
  BY <1>1, RollBackInv
<1>. HIDE DEF c
<1>4. Inv(d, sv, net, {}) /\ d.free = c.free /\ d.backlog = c.backlog
  <2>1. CASE c.slot[s].num_tx < ReqPkts[c.slot[s].req]
    <3>1. d = kick_req(c, s, u)
      BY <2>1 DEF kick, req_pkts_pending
    <3>. QED
      BY <1>2, <1>3, <2>1, <3>1, KickReqInv
  <2>2. CASE ~(c.slot[s].num_tx < ReqPkts[c.slot[s].req])
    <3>1. d = kick_rfr(c, s)
      BY <2>2 DEF kick, req_pkts_pending
    <3>. QED
      BY <1>2, <1>3, <2>2, <3>1, KickRfrInv
  <2>. QED
    BY <2>1, <2>2
<1>. HIDE DEF d
<1>5. BacklogOK(d)
  BY <1>1, <1>2, <1>4 DEF BacklogOK
<1>. QED
  BY <1>4, <1>5 DEF d, c

LEMMA PktLossRetransmitStep ==
    ASSUME IInv, NEW s \in Slots, NEW u, PktLossRetransmit(s, u)
    PROVE  IInv'
<1>. DEFINE d == kick(RollBack(cl, s), s, u)
<1>1. /\ cl.slot[s].req # None /\ cl.slot[s].num_tx # cl.slot[s].num_rx
      /\ cl.slot[s].wheel_count = 0 /\ Drain(d)
  BY DEF PktLossRetransmit
<1>2. Inv(d, sv, net, {}) /\ BacklogOK(d)
  BY <1>1, RetransmitInv
<1>. HIDE DEF d
<1>. QED
  BY <1>1, <1>2, DrainStep

LEMMA ProcessWheelStep ==
    ASSUME IInv, NEW s, NEW i, ProcessWheel(s, i)
    PROVE  IInv'
<1>. DEFINE d == LeftWheel(cl, s, i)
<1>1. Inv(cl, sv, net, {}) /\ BacklogOK(cl) /\ <<s, i>> \in cl.wheel
  BY DEF IInv, ProcessWheel
<1>2. cl' = d /\ sv' = sv /\ net' = net
  BY DEF ProcessWheel, LeftWheel
<1>3. Inv(d, sv, net, {}) /\ d.free = cl.free /\ d.backlog = cl.backlog
  BY <1>1, LeftWheelInv
<1>. HIDE DEF d
<1>4. BacklogOK(d)
  BY <1>1, <1>3 DEF BacklogOK
<1>. QED
  BY <1>2, <1>3, <1>4, Primed

LEMMA ProcessExplCRStep ==
    ASSUME IInv, NEW p \in net, NEW u, ProcessExplCR(p, u)
    PROVE  IInv'
<1>. DEFINE d == process_expl_cr(cl, SlotOf(p), p, u)
<1>1. Inv(cl, sv, net, {}) /\ BacklogOK(cl) /\ p.type = "kExplCR"
  BY DEF IInv, ProcessExplCR
<1>2. cl' = d /\ sv' = sv /\ net' = net
  BY DEF ProcessExplCR
<1>3. Inv(d, sv, net, {}) /\ d.free = cl.free /\ d.backlog = cl.backlog
  BY <1>1, ExplCRInv
<1>. HIDE DEF d
<1>4. BacklogOK(d)
  BY <1>1, <1>3 DEF BacklogOK
<1>. QED
  BY <1>2, <1>3, <1>4, Primed

LEMMA ProcessRespStep ==
    ASSUME IInv, NEW p \in net, NEW u, ProcessResp(p, u)
    PROVE  IInv'
<1>. DEFINE s == SlotOf(p)  e == TakeResp(cl, s, p)  d == FinishRequest(e, s, u)
<1>1. /\ Inv(cl, sv, net, {}) /\ BacklogOK(cl) /\ p.type = "kResp"
      /\ in_order_client(cl.slot[s], p) /\ sv' = sv /\ net' = net
      /\ cl' = IF RespComplete(e.slot[s], p) THEN d ELSE e
  BY DEF IInv, ProcessResp
<1>2. CASE ~RespComplete(e.slot[s], p)
  <2>1. Inv(e, sv, net, {}) /\ e.free = cl.free /\ e.backlog = cl.backlog
    BY <1>1, <1>2, TakeRespCases
  <2>2. BacklogOK(e)
    BY <1>1, <2>1 DEF BacklogOK
  <2>. HIDE DEF e
  <2>. QED
    BY <1>1, <1>2, <2>1, <2>2, Primed
<1>3. CASE RespComplete(e.slot[s], p)
  <2>1. e = Copied(cl, s, p) /\ e.slot[s].num_tx = e.slot[s].num_rx
    BY <1>1, <1>3, TakeRespCases
  <2>2. Takes(cl, Copied(cl, s, p), s)
    BY <1>1, CopiedFacts
  <2>3. ~ToServer(p)
    BY <1>1 DEF ToServer
  <2>4. s \in Slots /\ cl.slot[s].req \in Requests /\ sv.slot[s].req_num = cl.slot[s].req_num
    BY <1>1, <2>3, InOrderFacts
  <2>5. cl.slot[s].num_rx < cl.slot[s].num_tx /\ cl.slot[s].num_rx \notin InWheel(cl, s)
    BY <1>1, <2>3, InOrderFacts
  <2>6. sv.slot[s].resp = cl.slot[s].req
    BY <1>1, <2>3, InOrderFacts
  <2>7. sv.slot[s].resp # None
    BY <2>4, <2>6, Constants
  <2>8. Takes(cl, e, s)
    BY <2>1, <2>2
  <2>. HIDE DEF e, s
  <2>9. Inv(d, sv, net, {}) /\ BacklogOK(d)
    BY <1>1, <2>1, <2>4, <2>5, <2>7, <2>8, FinishRequestInv
  <2>. HIDE DEF d
  <2>. QED
    BY <1>1, <1>3, <2>9, Primed
<1>. QED
  BY <1>2, <1>3

(* The server's steps leave the client alone. *)
LEMMA ServerStep ==
    ASSUME IInv, NEW v, NEW n, UNCHANGED cl, sv' = v, net' = n, Inv(cl, v, n, {})
    PROVE  IInv'
BY Primed DEF IInv

LEMMA ReceiveStep ==
    ASSUME IInv, NEW p \in net, p.type = "kReq", NextInOrder(sv.slot[SlotOf(p)], p),
           NEW q, q \subseteq Reply(p), UNCHANGED <<cl, net>>,
           sv' = [sv EXCEPT !.slot[SlotOf(p)] = Received(sv.slot[SlotOf(p)], p),
                            !.out = @ \cup q]
    PROVE  IInv'
<1>. DEFINE v == [sv EXCEPT !.slot[SlotOf(p)] = Received(sv.slot[SlotOf(p)], p),
                            !.out = @ \cup q]
<1>1. Inv(cl, sv, net, {})
  BY DEF IInv
<1>2. Inv(cl, v, net, {})
  BY <1>1, ReceivedInv
<1>3. sv' = v /\ net' = net
  OBVIOUS
<1>. HIDE DEF v
<1>. QED
  BY <1>2, <1>3, ServerStep

LEMMA ResendStep ==
    ASSUME IInv, NEW s \in Slots, sv.slot[s].resp # None, NEW i \in Int,
           sv.slot[s].sav - 1 + i
             \in (ReqPkts[sv.slot[s].resp] - 1) .. (Wire(sv.slot[s].resp) - 1),
           sv.slot[s].sav - 1 + i < sv.slot[s].num_rx, Resend(sv.slot[s], i)
    PROVE  IInv'
<1>. DEFINE v == [sv EXCEPT !.out = {}]  n == net \cup sv.out \cup {RespPkt(sv.slot[s], i)}
<1>1. Inv(cl, sv, net, {})
  BY DEF IInv
<1>2. Inv(cl, v, n, {})
  BY <1>1, ResendInv
<1>3. UNCHANGED cl /\ sv' = v /\ net' = n
  BY DEF Resend
<1>. HIDE DEF v, n
<1>. QED
  BY <1>2, <1>3, ServerStep

(* The first response packet is one that was sent already. *)
LEMMA ResendFirstStep ==
    ASSUME IInv, NEW s \in Slots, sv.slot[s].resp # None, Resend(sv.slot[s], 0)
    PROVE  IInv'
<1>. DEFINE vs == sv.slot[s]
<1>1. ServerSlotOK(vs) /\ vs \in ServerSlots /\ vs.req_num \in Nat
  BY ServerFields DEF IInv, Inv, SlotsOK
<1>2. Responding(vs)
  BY <1>1 DEF ServerSlotOK, Receiving
<1>3. /\ vs.sav = ReqPkts[vs.resp] /\ vs.num_rx \in vs.sav..Wire(vs.resp)
      /\ vs.sav \in Nat \ {0} /\ RespPkts[vs.resp] \in Nat \ {0}
  BY <1>2, Constants DEF Responding
<1>4. /\ vs.sav - 1 + 0 \in (ReqPkts[vs.resp] - 1) .. (Wire(vs.resp) - 1)
      /\ vs.sav - 1 + 0 < vs.num_rx /\ 0 \in Int
  BY <1>3 DEF Wire
<1>. QED
  BY <1>4, ResendStep

LEMMA ProcessSmallReqStep ==
    ASSUME IInv, NEW p \in net, ProcessSmallReq(p)
    PROVE  IInv'
<1>. DEFINE s == SlotOf(p)  vs == sv.slot[s]
<1>1. Inv(cl, sv, net, {}) /\ p.type = "kReq" /\ p.pkts = 1
  BY DEF IInv, ProcessSmallReq
<1>2. /\ p \in Packets /\ s \in Slots /\ p.pkt_num < p.pkts
      /\ p.req_num > vs.req_num => p.req_num = vs.req_num + Window
  BY <1>1, ReqPktFacts
<1>3. p.pkt_num = 0
  BY <1>1, <1>2, PacketFields
<1>4. CASE vs.resp # None /\ Resend(vs, 0)
  BY <1>2, <1>4, ResendFirstStep
<1>5. CASE p.req_num > vs.req_num /\ CallHandler(s, FirstPacket(vs, p), {})
  <2>1. NextInOrder(vs, p)
    BY <1>2, <1>3, <1>5 DEF NextInOrder
  <2>2. Received(vs, p) = [FirstPacket(vs, p) EXCEPT !.busy = TRUE]
    BY <1>1, <1>3 DEF Received, ReceivedNum
  <2>. DEFINE q == {}
  <2>3. /\ sv' = [sv EXCEPT !.slot[s] = Received(vs, p), !.out = @ \cup q]
        /\ UNCHANGED <<cl, net>> /\ q \subseteq Reply(p)
    BY <1>5, <2>2 DEF CallHandler
  <2>. HIDE DEF q
  <2>. QED
    BY <1>1, <2>1, <2>3, ReceiveStep
<1>. QED
  BY <1>4, <1>5 DEF ProcessSmallReq

LEMMA ProcessLargeReqStep ==
    ASSUME IInv, NEW p \in net, ProcessLargeReq(p)
    PROVE  IInv'
<1>. DEFINE s == SlotOf(p)  vs == sv.slot[s]
            next == IF p.pkt_num = 0 THEN FirstPacket(vs, p) ELSE NextPacket(vs, p)
<1>1. Inv(cl, sv, net, {}) /\ p.type = "kReq" /\ p.pkts > 1
  BY DEF IInv, ProcessLargeReq
<1>2. p \in Packets /\ s \in Slots /\ vs \in ServerSlots
  BY <1>1, ReqPktFacts, ServerFields DEF Inv
<1>3. next.num_rx = ReceivedNum(vs, p) /\ next.busy = vs.busy
  BY <1>2 DEF ReceivedNum, FirstPacket, NextPacket, ServerSlots
<1>4. /\ next = [next EXCEPT !.busy = vs.busy]
      /\ Received(vs, p) = [next EXCEPT !.busy = (ReceivedNum(vs, p) = p.pkts)]
  <2>1. next = [next EXCEPT !.busy = vs.busy]
    BY <1>2 DEF FirstPacket, NextPacket, ServerSlots
  <2>. QED
    BY <2>1 DEF Received
<1>. HIDE DEF next
<1>5. CASE /\ NextInOrder(vs, p) /\ next.num_rx # p.pkts
           /\ sv' = [sv EXCEPT !.slot[s] = next, !.out = @ \cup Reply(p)]
           /\ UNCHANGED <<cl, net>>
  <2>1. ReceivedOK(cl, sv, p)
    BY <1>1, <1>5, ReceivedFacts
  <2>2. vs.busy = FALSE
    BY <2>1 DEF ReceivedOK
  <2>3. Received(vs, p) = next
    BY <1>3, <1>4, <1>5, <2>2
  <2>. DEFINE q == Reply(p)
  <2>4. /\ sv' = [sv EXCEPT !.slot[s] = Received(vs, p), !.out = @ \cup q]
        /\ q \subseteq Reply(p)
    BY <1>5, <2>3
  <2>. HIDE DEF q
  <2>. QED
    BY <1>1, <1>5, <2>4, ReceiveStep
<1>6. CASE NextInOrder(vs, p) /\ next.num_rx = p.pkts /\ CallHandler(s, next, Reply(p))
  <2>1. Received(vs, p) = [next EXCEPT !.busy = TRUE]
    BY <1>3, <1>4, <1>6
  <2>. DEFINE q == Reply(p)
  <2>2. /\ sv' = [sv EXCEPT !.slot[s] = Received(vs, p), !.out = @ \cup q]
        /\ UNCHANGED <<cl, net>> /\ q \subseteq Reply(p)
    BY <1>6, <2>1 DEF CallHandler
  <2>. HIDE DEF q
  <2>. QED
    BY <1>1, <1>6, <2>2, ReceiveStep
<1>7. CASE /\ PastPacket(vs, p) /\ sv' = [sv EXCEPT !.out = @ \cup Reply(p)]
           /\ UNCHANGED <<cl, net>>
  <2>. DEFINE v == [sv EXCEPT !.out = @ \cup Reply(p)]
  <2>1. p.req_num = vs.req_num
    BY <1>7 DEF PastPacket
  <2>2. Inv(cl, v, net, {})
    BY <1>1, <2>1, PastPacketInv
  <2>3. sv' = v /\ net' = net /\ UNCHANGED cl
    BY <1>7
  <2>. HIDE DEF v
  <2>. QED
    BY <2>2, <2>3, ServerStep
<1>8. CASE vs.resp # None /\ Resend(vs, 0)
  BY <1>2, <1>8, ResendFirstStep
<1>. QED
  BY <1>5, <1>6, <1>7, <1>8 DEF ProcessLargeReq, Reply, next

LEMMA EnqueueResponseStep ==
    ASSUME IInv, NEW s \in Slots, EnqueueResponse(s)
    PROVE  IInv'
<1>. DEFINE new == Responded(sv.slot[s])
            v == [sv EXCEPT !.slot[s] = new, !.out = @ \cup {RespPkt(new, 0)}]
<1>1. Inv(cl, sv, net, {}) /\ sv.slot[s].busy
  BY DEF IInv, EnqueueResponse
<1>2. sv' = v /\ UNCHANGED <<cl, net>>
  BY DEF EnqueueResponse, Responded
<1>3. Inv(cl, v, net, {})
  BY <1>1, RespondedInv
<1>. HIDE DEF v
<1>. QED
  BY <1>2, <1>3, ServerStep

LEMMA ProcessRFRStep ==
    ASSUME IInv, NEW p \in net, ProcessRFR(p)
    PROVE  IInv'
<1>. DEFINE s == SlotOf(p)  vs == sv.slot[s]  i == resp_ntoi(p.pkt_num, vs.sav)
            v == [sv EXCEPT !.slot[s].num_rx = @ + 1, !.out = @ \cup {RespPkt(vs, i)}]
<1>1. Inv(cl, sv, net, {}) /\ p.type = "kRFR" /\ p.req_num = vs.req_num
  BY DEF IInv, ProcessRFR
<1>2. CASE p.pkt_num = vs.num_rx /\ sv' = v /\ UNCHANGED <<cl, net>>
  <2>1. Inv(cl, v, net, {})
    BY <1>1, <1>2, RfrInv
  <2>2. sv' = v /\ net' = net /\ UNCHANGED cl
    BY <1>2
  <2>. HIDE DEF v
  <2>. QED
    BY <2>1, <2>2, ServerStep
<1>3. CASE p.pkt_num < vs.num_rx /\ Resend(vs, i)
  <2>1. s \in Slots /\ vs.resp # None /\ i \in Int
    BY <1>1, RfrFacts
  <2>2. /\ vs.sav - 1 + i = p.pkt_num
        /\ p.pkt_num \in (ReqPkts[vs.resp] - 1) .. (Wire(vs.resp) - 1)
    BY <1>1, RfrFacts
  <2>. HIDE DEF i
  <2>. QED
    BY <1>3, <2>1, <2>2, ResendStep
<1>. QED
  BY <1>2, <1>3 DEF ProcessRFR

LEMMA ServerTxStep ==
    ASSUME IInv, ServerTx
    PROVE  IInv'
<1>. DEFINE v == [sv EXCEPT !.out = {}]  n == net \cup sv.out
<1>1. Inv(cl, v, n, {})
  BY ServerDrainInv DEF IInv
<1>2. UNCHANGED cl /\ sv' = v /\ net' = n
  BY DEF ServerTx
<1>. HIDE DEF v, n
<1>. QED
  BY <1>1, <1>2, ServerStep

LEMMA LoseStep ==
    ASSUME IInv, NEW p, Lose(p)
    PROVE  IInv'
<1>. DEFINE n == net \ {p}
<1>1. Inv(cl, sv, n, {})
  BY FewerPacketsInv DEF IInv
<1>2. UNCHANGED cl /\ sv' = sv /\ net' = n
  BY DEF Lose
<1>. HIDE DEF n
<1>. QED
  BY <1>1, <1>2, ServerStep

(* The histories. *)
HistoryOK ==
    /\ issued \in 0..MaxReqs
    /\ ran \in [Requests -> Nat]
    /\ got \in [Requests -> Seq(Seq(Ids))]

LEMMA HistoryStep ==
    ASSUME IInv, HistoryOK, [Next]_vars
    PROVE  HistoryOK'
<1>1. CASE UNCHANGED <<issued, ran, got>>
  BY <1>1 DEF HistoryOK
<1>2. ASSUME NEW u, EnqueueRequest(u) PROVE HistoryOK'
  <2>1. issued' \in 0..MaxReqs
    BY <1>2, Constants DEF HistoryOK, EnqueueRequest
  <2>. QED
    BY <1>2, <2>1 DEF HistoryOK, EnqueueRequest
<1>3. ASSUME NEW s, NEW sl, NEW q, CallHandler(s, sl, q) PROVE HistoryOK'
  <2>. DEFINE r == sl.body[1]
  <2>1. ran' = [ran EXCEPT ![r] = @ + 1] /\ UNCHANGED <<issued, got>>
    BY <1>3 DEF CallHandler
  <2>. HIDE DEF r
  <2>2. ran' \in [Requests -> Nat]
    <3>1. ran \in [Requests -> Nat]
      BY DEF HistoryOK
    <3>2. \A x \in Requests : ran[x] + 1 \in Nat
      BY <3>1
    <3>3. ran' = [x \in Requests |-> IF x = r THEN ran[x] + 1 ELSE ran[x]]
      BY <2>1, <3>1
    <3>. QED
      BY <3>1, <3>2, <3>3
  <2>. QED
    BY <2>1, <2>2 DEF HistoryOK
<1>4. ASSUME NEW p \in net, NEW u, ProcessResp(p, u) PROVE HistoryOK'
  <2>. DEFINE s == SlotOf(p)  e == TakeResp(cl, s, p)  r == cl.slot[s].req
  <2>1. CASE RespComplete(e.slot[s], p)
    <3>1. /\ Inv(cl, sv, net, {}) /\ p.type = "kResp" /\ in_order_client(cl.slot[s], p)
          /\ got' = [got EXCEPT ![r] = Append(@, e.slot[s].resp)]
          /\ UNCHANGED <<issued, ran>>
      BY <1>4, <2>1 DEF IInv, ProcessResp
    <3>2. e = Copied(cl, s, p)
      BY <2>1, <3>1, TakeRespCases
    <3>3. Takes(cl, e, s)
      BY <3>1, <3>2, CopiedFacts
    <3>4. e \in Clients /\ s \in Slots
      BY <3>1, <3>3, PacketFields DEF Takes, Inv
    <3>5. e.slot[s].resp \in Seq(Ids)
      BY <3>4, ClientFields
    <3>. HIDE DEF e, r, s
    <3>6. ASSUME NEW q \in Seq(Seq(Ids)) PROVE Append(q, e.slot[s].resp) \in Seq(Seq(Ids))
      BY <3>5, AppendProperties
    <3>7. got' \in [Requests -> Seq(Seq(Ids))]
      BY <3>1, <3>6 DEF HistoryOK
    <3>. QED
      BY <3>1, <3>7 DEF HistoryOK
  <2>2. CASE ~RespComplete(e.slot[s], p)
    BY <1>1, <1>4, <2>2 DEF ProcessResp
  <2>. QED
    BY <2>1, <2>2
<1>5. ASSUME NEW p \in net, ProcessSmallReq(p) PROVE HistoryOK'
  BY <1>1, <1>3, <1>5 DEF ProcessSmallReq, Resend
<1>6. ASSUME NEW p \in net, ProcessLargeReq(p) PROVE HistoryOK'
  BY <1>1, <1>3, <1>6 DEF ProcessLargeReq, Resend
<1>7. ASSUME NEW p \in net, Deliver(p) PROVE HistoryOK'
  <2>1. CASE \E u : ProcessExplCR(p, u)
    BY <1>1, <2>1 DEF ProcessExplCR
  <2>2. CASE ProcessRFR(p)
    BY <1>1, <2>2 DEF ProcessRFR, Resend
  <2>. QED
    BY <1>4, <1>5, <1>6, <1>7, <2>1, <2>2 DEF Deliver
<1>8. CASE \E s, u : PktLossRetransmit(s, u)
  BY <1>1, <1>8 DEF PktLossRetransmit, Drain
<1>9. CASE \/ \E u : ProcessStallQueue(u)
           \/ \E e \in cl.wheel : ProcessWheel(e[1], e[2])
           \/ \E s \in Slots : EnqueueResponse(s)
           \/ ClientTx \/ ServerTx
           \/ \E p : Lose(p)
  BY <1>1, <1>9 DEF ProcessStallQueue, ProcessWheel, EnqueueResponse, ClientTx, Drain, ServerTx,
                    Lose
<1>10. CASE UNCHANGED vars
  BY <1>1, <1>10 DEF vars
<1>. QED
  BY <1>2, <1>7, <1>8, <1>9, <1>10 DEF Next

LEMMA InvStep ==
    ASSUME IInv, HistoryOK, [Next]_vars
    PROVE  IInv'
<1>1. CASE UNCHANGED vars
  BY <1>1, Primed DEF vars, IInv
<1>2. ASSUME NEW u, EnqueueRequest(u) PROVE IInv'
  <2>1. issued \in Nat
    BY Constants DEF HistoryOK
  <2>. QED
    BY <1>2, <2>1, EnqueueRequestStep
<1>3. ASSUME NEW p \in net, Deliver(p) PROVE IInv'
  BY <1>3, ProcessExplCRStep, ProcessRespStep, ProcessSmallReqStep, ProcessLargeReqStep,
     ProcessRFRStep DEF Deliver
<1>4. CASE ClientTx
  BY <1>4, DrainStep DEF ClientTx, IInv
<1>. QED
  BY <1>1, <1>2, <1>3, <1>4, ProcessStallQueueStep, PktLossRetransmitStep, ProcessWheelStep,
     EnqueueResponseStep, ServerTxStep, LoseStep DEF Next
-----------------------------------------------------------------------------
(***************************************************************************)
(* What follows for every behaviour.                                       *)
(***************************************************************************)
(* Whatever the network does with the packets, the invariant holds of the  *)
(* two endpoints, the packets under way and the histories.                 *)
THEOREM Invariant == Spec => [](IInv /\ HistoryOK)
<1>1. Init => IInv /\ HistoryOK
  <2>1. Init => HistoryOK
    BY Constants DEF Init, HistoryOK
  <2>. QED
    BY <2>1, InitInv
<1>2. IInv /\ HistoryOK /\ [Next]_vars => (IInv /\ HistoryOK)'
  BY HistoryStep, InvStep
<1>. QED
  BY <1>1, <1>2, PTL DEF Spec

(* Type correctness of the two endpoints, the network and the histories:   *)
(* no handler leaves a field, a packet or a queue entry out of its range,  *)
(* in particular no counter below zero.                                    *)
THEOREM TypeCorrect == Spec => []TypeOK
<1>1. IInv /\ HistoryOK => TypeOK
  BY DEF IInv, Inv, HistoryOK, TypeOK
<1>. QED
  BY <1>1, Invariant, PTL

(* Credits are neither lost nor made (bump_credits, pkt_loss_retransmit).  *)
THEOREM CreditsAlwaysConserved == Spec => []CreditsConserved
<1>1. IInv => CreditsConserved
  BY DEF IInv, Inv, CreditsOK, CreditsConserved
<1>. QED
  BY <1>1, Invariant, PTL

(* The entries of a sequence without duplicates that are e: one or none. *)
LEMMA PositionsCount ==
    ASSUME NEW q, \A i, j \in DOMAIN q : q[i] = q[j] => i = j, NEW e
    PROVE  Cardinality({i \in DOMAIN q : q[i] = e})
             = IF \E i \in DOMAIN q : q[i] = e THEN 1 ELSE 0
<1>1. CASE \E i \in DOMAIN q : q[i] = e
  <2>1. PICK i \in DOMAIN q : q[i] = e
    BY <1>1
  <2>2. {k \in DOMAIN q : q[k] = e} = {i}
    BY <2>1
  <2>3. Cardinality({i}) = 1
    BY FS_Singleton
  <2>. QED
    BY <1>1, <2>2, <2>3
<1>2. CASE ~\E i \in DOMAIN q : q[i] = e
  <2>1. {k \in DOMAIN q : q[k] = e} = {}
    BY <1>2
  <2>2. Cardinality({}) = 0
    BY FS_EmptySet
  <2>. QED
    BY <1>2, <2>1, <2>2
<1>. QED
  BY <1>1, <1>2

(* No slot is forgotten: each is free or active, a slot with no packet     *)
(* under way waits in the stall queue exactly once, and the backlog is     *)
(* used only while no slot is free (enqueue_request, process_resp_one_st,  *)
(* process_credit_stall_queue_st).                                         *)
THEOREM NoSlotEverForgotten == Spec => []NoSlotForgotten
<1>1. ASSUME IInv PROVE NoSlotForgotten
  <2>1. FreeOK(cl) /\ StallOK(cl, {}) /\ BacklogOK(cl)
    BY <1>1 DEF IInv, Inv
  <2>2. ASSUME NEW s \in Slots
        PROVE  Cardinality({i \in DOMAIN cl.free : cl.free[i] = s}) = IF Active(s) THEN 0 ELSE 1
    <3>1. Cardinality({i \in DOMAIN cl.free : cl.free[i] = s})
            = IF \E i \in DOMAIN cl.free : cl.free[i] = s THEN 1 ELSE 0
      <4>. DEFINE q == cl.free
      <4>1. \A i, j \in DOMAIN q : q[i] = q[j] => i = j
        BY <2>1 DEF FreeOK
      <4>. HIDE DEF q
      <4>2. Cardinality({i \in DOMAIN q : q[i] = s})
              = IF \E i \in DOMAIN q : q[i] = s THEN 1 ELSE 0
        BY <4>1, PositionsCount
      <4>. QED
        BY <4>2 DEF q
    <3>. QED
      BY <2>1, <3>1 DEF FreeOK, Active
  <2>3. ASSUME NEW s \in Slots
        PROVE  Cardinality({i \in DOMAIN cl.stallq : cl.stallq[i] = s})
                 = IF Active(s) /\ cl.slot[s].num_tx = cl.slot[s].num_rx THEN 1 ELSE 0
    <3>1. Cardinality({i \in DOMAIN cl.stallq : cl.stallq[i] = s})
            = IF \E i \in DOMAIN cl.stallq : cl.stallq[i] = s THEN 1 ELSE 0
      <4>. DEFINE q == cl.stallq
      <4>1. \A i, j \in DOMAIN q : q[i] = q[j] => i = j
        BY <2>1 DEF StallOK
      <4>. HIDE DEF q
      <4>2. Cardinality({i \in DOMAIN q : q[i] = s})
              = IF \E i \in DOMAIN q : q[i] = s THEN 1 ELSE 0
        BY <4>1, PositionsCount
      <4>. QED
        BY <4>2 DEF q
    <3>2. Stalled(cl, {}, s) <=> \E i \in DOMAIN cl.stallq : cl.stallq[i] = s
      BY <2>1 DEF StallOK
    <3>3. Stalled(cl, {}, s) <=> Active(s) /\ cl.slot[s].num_tx = cl.slot[s].num_rx
      BY DEF Stalled, Active
    <3>. QED
      BY <3>1, <3>2, <3>3
  <2>. QED
    BY <2>1, <2>2, <2>3 DEF NoSlotForgotten, BacklogOK
<1>. QED
  BY <1>1, Invariant, PTL

(* The assertions of the packet handlers hold for every packet that may    *)
(* arrive, however late and however often (process_small_req_st,           *)
(* process_large_req_one_st, process_rfr_st, process_expl_cr_st,           *)
(* process_resp_one_st, bump_credits).                                     *)
THEOREM AssertsAlwaysHold == Spec => []AssertsHold
<1>1. ASSUME IInv PROVE AssertsHold
  <2>. SUFFICES ASSUME NEW p \in net
                PROVE  LET c == cl.slot[SlotOf(p)]
                           v == sv.slot[SlotOf(p)]
                       IN  /\ ~ToServer(p) => p.req_num <= c.req_num
                           /\ ~ToServer(p) /\ in_order_client(c, p) =>
                                 c.req # None /\ cl.credits < Credits
                           /\ p.type = "kReq" /\ p.req_num > v.req_num =>
                                 /\ p.req_num = v.req_num + Window
                                 /\ p.pkt_num = 0 => v.body = <<>> /\ ~v.busy
                           /\ p.type = "kRFR" => p.req_num <= v.req_num
                           /\ p.type = "kRFR" /\ p.req_num = v.req_num =>
                                 /\ v.resp # None
                                 /\ resp_ntoi(p.pkt_num, v.sav) \in 1..(RespPkts[v.resp] - 1)
    BY DEF AssertsHold
  <2>. DEFINE s == SlotOf(p)  c == cl.slot[s]  v == sv.slot[s]
  <2>1. /\ Inv(cl, sv, net, {}) /\ cl \in Clients /\ sv \in Servers /\ p \in Packets
        /\ CreditsOK(cl) /\ SlotsOK(cl, sv) /\ PacketOK(p, c, v)
    BY <1>1 DEF IInv, Inv, PacketsOK
  <2>2. /\ s \in Slots /\ p.req_num \in Nat /\ c.req_num \in Nat /\ v.req_num \in Nat
        /\ p.type \in {"kReq", "kRFR", "kExplCR", "kResp"} /\ Window \in Nat
    BY <2>1, PacketFields, ClientFields, ServerFields, Constants
  <2>3. v.req_num <= c.req_num
    BY <2>1, <2>2 DEF SlotsOK, SlotsMatch
  <2>4. ~ToServer(p) => p.req_num <= c.req_num
    <3>1. ~ToServer(p) => p.req_num <= v.req_num
      BY <2>1, <2>2 DEF ToServer, PacketOK, CreditReturnOK, RespPktOK
    <3>. QED
      BY <2>2, <2>3, <3>1
  <2>5. ASSUME ~ToServer(p), in_order_client(c, p)
        PROVE  c.req # None /\ cl.credits < Credits
    <3>1. c.req \in Requests /\ c.num_rx < c.num_tx
      BY <2>1, <2>5, InOrderFacts
    <3>. QED
      BY <2>1, <2>2, <3>1, InFlightBound, Constants
  <2>6. ASSUME p.type = "kReq", p.req_num > v.req_num
        PROVE  p.req_num = v.req_num + Window /\ v.body = <<>> /\ ~v.busy
    BY <2>1, <2>6, ReqPktFacts
  <2>7. p.type = "kRFR" => p.req_num <= v.req_num
    BY <2>1 DEF PacketOK, RfrOK
  <2>8. ASSUME p.type = "kRFR", p.req_num = v.req_num
        PROVE  v.resp # None /\ resp_ntoi(p.pkt_num, v.sav) \in 1..(RespPkts[v.resp] - 1)
    BY <2>1, <2>8, RfrFacts
  <2>. QED
    BY <2>4, <2>5, <2>6, <2>7, <2>8
<1>. QED
  BY <1>1, Invariant, PTL

(* The flags per packet number modulo kSessionCredits are exact, and no    *)
(* slot is freed while the wheel refers to it (kick_req_st,                *)
(* process_wheel_st, process_resp_one_st).                                 *)
THEOREM WheelFlagsAlwaysExact == Spec => []WheelFlagsExact
<1>1. ASSUME IInv PROVE WheelFlagsExact
  <2>. SUFFICES ASSUME NEW s \in Slots
                PROVE  LET nums == {e[2] : e \in {w \in cl.wheel : w[1] = s}}
                       IN  /\ cl.slot[s].wheel_count = Cardinality(nums)
                           /\ cl.slot[s].in_wheel = {n % Credits : n \in nums}
                           /\ Cardinality(cl.slot[s].in_wheel) = Cardinality(nums)
                           /\ nums # {} => Active(s)
    BY DEF WheelFlagsExact
  <2>. DEFINE N == InWheel(cl, s)  M == cl.slot[s].in_wheel
  <2>1. cl \in Clients /\ CreditsOK(cl) /\ WheelOK(cl) /\ WheelSlotOK(cl, s)
    BY <1>1 DEF IInv, Inv, WheelOK
  <2>2. IsFiniteSet(N) /\ N \in SUBSET Nat
    BY <2>1, InWheelFinite
  <2>3. /\ cl.slot[s].wheel_count = Cardinality(N) /\ M = {k % Credits : k \in N}
        /\ \A k \in N : /\ cl.slot[s].req # None
                        /\ k \in cl.slot[s].num_rx .. cl.slot[s].num_tx - 1
    BY <2>1 DEF WheelSlotOK
  <2>. HIDE DEF N, M
  <2>4. \A i, j \in N : i % Credits = j % Credits => i = j
    BY <2>1, <2>2, <2>3, FlagsApart
  <2>5. Cardinality(M) = Cardinality(N)
    <3>. DEFINE f == [k \in N |-> k % Credits]
    <3>1. f \in [N -> M] /\ \A i, j \in N : f[i] = f[j] => i = j
      BY <2>3, <2>4
    <3>2. \A e \in M : \E k \in N : f[k] = e
      BY <2>3
    <3>3. f \in Bijection(N, M)
      BY <3>1, <3>2 DEF Bijection, Injection, Surjection, IsInjective
    <3>4. ExistsBijection(N, M)
      BY <3>3 DEF ExistsBijection
    <3>. QED
      BY <2>2, <3>4, FS_Bijection
  <2>. QED
    BY <2>3, <2>5 DEF InWheel, N, M, Active
<1>. QED
  BY <1>1, Invariant, PTL
===============================================================================
