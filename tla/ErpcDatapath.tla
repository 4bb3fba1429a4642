----------------------------- MODULE ErpcDatapath -----------------------------
(***************************************************************************)
(* The datapath of one eRPC session: the client endpoint and the server    *)
(* endpoint of thirdparty/eRPC, over a network that loses, duplicates and  *)
(* reorders packets.  Every MetaFS request and every server-to-server      *)
(* message of a split travels over such a session.                         *)
(*                                                                         *)
(* A session has Window slots (kSessionReqWindow); slot s carries the      *)
(* requests numbered s + Window, s + 2*Window, ... one at a time, and the  *)
(* rest waits in the backlog.  A packet costs one of Credits credits,      *)
(* returned by the packet that answers it: a credit return (kExplCR) for   *)
(* every request packet but the last, the first response packet for the    *)
(* last request packet, and one response packet for every request for      *)
(* response (kRFR).  A slot that hears nothing goes back to the last       *)
(* packet it got an answer for and sends again from there.                 *)
(*                                                                         *)
(* cl and sv are the two endpoints' Rpc objects, each run by one thread:   *)
(* a handler below is one step.  The session stays connected here; its     *)
(* management is ErpcSession.                                              *)
(***************************************************************************)
EXTENDS Naturals, Sequences, FiniteSets

CONSTANTS Window,       \* kSessionReqWindow
          Credits,      \* kSessionCredits
          MaxReqs,      \* requests the caller issues (bound)
          ReqPkts,      \* packets of each request
          RespPkts,     \* packets of the response to each request
          MayPace,      \* whether Timely may find the session congested
          MayLose,      \* whether a packet may leave the network unread
          None          \* a null MsgBuffer pointer

Requests == 1..MaxReqs
Slots == 0..(Window - 1)

ASSUME SessionAssumption ==
    /\ Window \in Nat \ {0}
    /\ Credits \in Nat \ {0}
    /\ MaxReqs \in Nat
    /\ None \notin Nat

ASSUME MessageAssumption ==
    /\ ReqPkts \in [Requests -> Nat \ {0}]
    /\ RespPkts \in [Requests -> Nat \ {0}]

ASSUME SwitchAssumption == {MayPace, MayLose} \subseteq BOOLEAN

VARIABLES cl,       \* the client's Rpc: its slots, credits, queues and what it transmits
          sv,       \* the server's Rpc: its slots and what it transmits
          net,      \* the packets on the wire; one that was read may be read again
          issued,   \* requests passed to enqueue_request so far
          ran,      \* how often the handler was called for each request
          got       \* the responses each request's continuation was called with

vars == <<cl, sv, net, issued, ran, got>>

(***************************************************************************)
(* Packets.  data stands for the payload: the request it belongs to.       *)
(***************************************************************************)
Pkt(type, r, n, pkts, data) ==
    [type |-> type, req_num |-> r, pkt_num |-> n, pkts |-> pkts, data |-> data]

SlotOf(p) == p.req_num % Window

ToServer(p) == p.type \in {"kReq", "kRFR"}

(* Packets n of the request in a client slot and of the response in a      *)
(* server slot.  Response packets are numbered from the last request       *)
(* packet on.                                                              *)
ReqPkt(sl, n) == Pkt("kReq", sl.req_num, n, ReqPkts[sl.req], sl.req)
RespPkt(sl, i) == Pkt("kResp", sl.req_num, sl.sav - 1 + i, RespPkts[sl.resp], sl.resp)

(* The request for response packet n. *)
RfrPkt(sl, n) == Pkt("kRFR", sl.req_num, n, 0, None)

resp_ntoi(n, pkts) == n - (pkts - 1)

(* A message buffer for so many packets, with nothing copied into it yet. *)
Blank(pkts) == [i \in 1..pkts |-> None]

Lesser(a, b) == IF a < b THEN a ELSE b

(***************************************************************************)
(* The client endpoint.                                                    *)
(***************************************************************************)
wire_pkts(sl) == ReqPkts[sl.req] + sl.resp_pkts - 1

req_pkts_pending(sl) == sl.num_tx < ReqPkts[sl.req]

(* Pacing sends packets through the timing wheel unless the session is     *)
(* uncongested and the slot has nothing in the wheel.                      *)
can_bypass_wheel(sl, uncongested) == sl.wheel_count = 0 /\ uncongested

Congestion == IF MayPace THEN BOOLEAN ELSE {TRUE}

(* A slot's request packets go to the TX batch or to the wheel, as many as *)
(* there are credits.  out is the TX batch and the NIC's DMA queue.        *)
kick_req(c, s, uncongested) ==
    LET sl == c.slot[s]
        sending == Lesser(c.credits, ReqPkts[sl.req] - sl.num_tx)
        nums == sl.num_tx .. (sl.num_tx + sending - 1)
        bypass == can_bypass_wheel(sl, uncongested)
    IN  [c EXCEPT
           !.credits = @ - sending,
           !.out = IF bypass THEN @ \cup {ReqPkt(sl, n) : n \in nums} ELSE @,
           !.wheel = IF bypass THEN @ ELSE @ \cup {<<s, n>> : n \in nums},
           !.slot[s] = [sl EXCEPT
               !.num_tx = @ + sending,
               !.wheel_count = IF bypass THEN @ ELSE @ + sending,
               !.in_wheel = IF bypass THEN @
                            ELSE @ \cup {n % Credits : n \in nums}]]

(* Requests for the response packets that were not asked for yet. *)
kick_rfr(c, s) ==
    LET sl == c.slot[s]
        sending == Lesser(c.credits, wire_pkts(sl) - sl.num_tx)
        nums == sl.num_tx .. (sl.num_tx + sending - 1)
    IN  [c EXCEPT
           !.credits = @ - sending,
           !.out = @ \cup {RfrPkt(sl, n) : n \in nums},
           !.slot[s] = [sl EXCEPT !.num_tx = @ + sending]]

kick(c, s, uncongested) ==
    IF req_pkts_pending(c.slot[s]) THEN kick_req(c, s, uncongested) ELSE kick_rfr(c, s)

(* Mutant: a slot without a credit is not put into the stall queue. *)
enqueue_request_unqueued(c, r, uncongested) ==
    IF c.free = <<>> THEN [c EXCEPT !.backlog = Append(@, r)]
    ELSE LET s == c.free[Len(c.free)]
             sl == c.slot[s]
             c1 == [c EXCEPT !.free = SubSeq(@, 1, Len(@) - 1),
                             !.slot[s] = [sl EXCEPT !.req = r, !.req_num = @ + Window,
                                                    !.num_tx = 0, !.num_rx = 0]]
         IN  kick_req(c1, s, uncongested)

(* A request gets a free slot, or waits in the backlog for one; without a  *)
(* credit its slot waits in the stall queue.                               *)
StartRequest(sl, r) ==
    [sl EXCEPT !.req = r, !.req_num = @ + Window, !.num_tx = 0, !.num_rx = 0]

enqueue_request(c, r, uncongested) ==
    IF c.free = <<>> THEN [c EXCEPT !.backlog = Append(@, r)]
    ELSE LET s == c.free[Len(c.free)]
             c1 == [c EXCEPT !.free = SubSeq(@, 1, Len(@) - 1),
                             !.slot[s] = StartRequest(@, r)]
         IN  IF c1.credits > 0 THEN kick_req(c1, s, uncongested)
             ELSE [c1 EXCEPT !.stallq = Append(@, s)]

(* Mutant: a late answer to an older request of the slot is in order. *)
in_order_client_any_request(sl, p) ==
    /\ p.pkt_num = sl.num_rx
    /\ p.pkt_num < sl.num_tx
    /\ (p.pkt_num % Credits) \notin sl.in_wheel

(* A packet is in order for the client when it answers the oldest packet   *)
(* without an answer, that packet was sent since the last roll back, and   *)
(* is not in the wheel.                                                    *)
in_order_client(sl, p) ==
    /\ p.req_num = sl.req_num
    /\ p.pkt_num = sl.num_rx
    /\ p.pkt_num < sl.num_tx
    /\ (p.pkt_num % Credits) \notin sl.in_wheel

(* bump_credits, and one more packet received. *)
Answered(c, s) == [c EXCEPT !.credits = @ + 1, !.slot[s].num_rx = @ + 1]

process_expl_cr(c, s, p, uncongested) ==
    LET c1 == Answered(c, s)
    IN  IF ~in_order_client(c.slot[s], p) THEN c
        ELSE IF req_pkts_pending(c1.slot[s]) THEN kick_req(c1, s, uncongested) ELSE c1

(* A response packet in order is copied; a first one tells the size of the *)
(* response and starts the requests for the rest.                          *)
TakeResp(c, s, p) ==
    LET sl == c.slot[s]
        first == p.pkts = 1 \/ p.pkt_num = ReqPkts[sl.req] - 1
        c1 == [Answered(c, s) EXCEPT
                 !.slot[s].resp_pkts = IF first THEN p.pkts ELSE @,
                 !.slot[s].resp = [(IF first THEN Blank(p.pkts) ELSE @)
                     EXCEPT ![1 + resp_ntoi(p.pkt_num, ReqPkts[sl.req])] = p.data]]
    IN  IF p.pkts > 1 /\ sl.num_tx # wire_pkts(c1.slot[s]) THEN kick_rfr(c1, s) ELSE c1

RespComplete(sl, p) == p.pkts = 1 \/ sl.num_rx = wire_pkts(sl)

(* The whole response is here: the slot is free, and takes the oldest      *)
(* request of the backlog.                                                 *)
FinishRequest(c, s, uncongested) ==
    LET c1 == [c EXCEPT !.slot[s].req = None, !.free = Append(@, s)]
        c2 == enqueue_request(c1, Head(c1.backlog), uncongested)
    IN  IF c1.backlog = <<>> THEN c1 ELSE [c2 EXCEPT !.backlog = Tail(@)]

(* Mutant: the credits are kept. *)
RollBackKeepingCredits(c, s) == [c EXCEPT !.slot[s].num_tx = c.slot[s].num_rx]

(* Go back to the first packet without an answer and send from there. *)
RollBack(c, s) ==
    LET sl == c.slot[s]
    IN  [c EXCEPT !.credits = @ + (sl.num_tx - sl.num_rx), !.slot[s].num_tx = sl.num_rx]

(***************************************************************************)
(* The server endpoint.  body is req_msgbuf, empty when buried; busy says  *)
(* that req_type is valid, which means that a response is due; resp is     *)
(* tx_msgbuf, the response to be sent again when asked for.                *)
(***************************************************************************)
NextInOrder(sl, p) ==
    \/ p.req_num = sl.req_num /\ p.pkt_num = sl.num_rx
    \/ p.req_num = sl.req_num + Window /\ p.pkt_num = 0

(* Past packets of the current request: not dropped. *)
PastPacket(sl, p) == p.req_num = sl.req_num /\ p.pkt_num <= sl.num_rx

LastReqPkt(p) == p.pkt_num = p.pkts - 1

(* The new request buries the old response. *)
FirstPacket(sl, p) ==
    [sl EXCEPT !.req_num = p.req_num, !.num_rx = 1, !.resp = None,
               !.body = [Blank(p.pkts) EXCEPT ![1] = p.data]]

NextPacket(sl, p) == [sl EXCEPT !.num_rx = @ + 1, !.body[1 + p.pkt_num] = p.data]

CreditReturn(p) == Pkt("kExplCR", p.req_num, p.pkt_num, 0, None)

(***************************************************************************)
(* The initial state: a session that has just been connected.              *)
(***************************************************************************)
ClientSlot(s) == [req |-> None, req_num |-> s, num_tx |-> 0, num_rx |-> 0,
                  resp_pkts |-> 0, resp |-> <<>>, in_wheel |-> {}, wheel_count |-> 0]

ServerSlot(s) == [req_num |-> s, num_rx |-> 0, body |-> <<>>, busy |-> FALSE,
                  resp |-> None, sav |-> 0]

Init ==
    /\ cl = [slot |-> [s \in Slots |-> ClientSlot(s)], credits |-> Credits,
             free |-> [i \in 1..Window |-> Window - i], backlog |-> <<>>, stallq |-> <<>>,
             wheel |-> {}, out |-> {}]
    /\ sv = [slot |-> [s \in Slots |-> ServerSlot(s)], out |-> {}]
    /\ net = {}
    /\ issued = 0
    /\ ran = [r \in Requests |-> 0]
    /\ got = [r \in Requests |-> <<>>]
-----------------------------------------------------------------------------
(***************************************************************************)
(* Steps of the client's thread.                                           *)
(***************************************************************************)
EnqueueRequest(uncongested) ==
    /\ issued < MaxReqs
    /\ issued' = issued + 1
    /\ cl' = enqueue_request(cl, issued + 1, uncongested)
    /\ UNCHANGED <<sv, net, ran, got>>

ProcessExplCR(p, uncongested) ==
    /\ p.type = "kExplCR"
    /\ cl' = process_expl_cr(cl, SlotOf(p), p, uncongested)
    /\ UNCHANGED <<sv, net, issued, ran, got>>

ProcessResp(p, uncongested) ==
    LET s == SlotOf(p)
        c == TakeResp(cl, s, p)
        r == cl.slot[s].req
    IN  /\ p.type = "kResp"
        /\ in_order_client(cl.slot[s], p)
        /\ IF RespComplete(c.slot[s], p)
           THEN /\ cl' = FinishRequest(c, s, uncongested)
                /\ got' = [got EXCEPT ![r] = Append(@, c.slot[s].resp)]
           ELSE cl' = c /\ UNCHANGED got
        /\ UNCHANGED <<sv, net, issued, ran>>

(* do_tx_burst_st posts the TX batch to the NIC, which reads the packets   *)
(* from their message buffers some time later; drain_tx_batch_and_dma_queue *)
(* waits until it has.                                                     *)
Drain(c) ==
    /\ net' = net \cup c.out
    /\ cl' = [c EXCEPT !.out = {}]
    /\ UNCHANGED <<sv, issued, ran, got>>

ClientTx == cl.out # {} /\ Drain(cl)

(* One entry of the stall queue, taken while there are credits. *)
ProcessStallQueue(uncongested) ==
    /\ cl.stallq # <<>> /\ cl.credits > 0
    /\ cl' = kick([cl EXCEPT !.stallq = Tail(@)], Head(cl.stallq), uncongested)
    /\ UNCHANGED <<sv, net, issued, ran, got>>

(* Mutant: the flag of a packet that has left the wheel stays. *)
ProcessWheelKeepingFlag(s, n) ==
    /\ <<s, n>> \in cl.wheel
    /\ cl' = [cl EXCEPT !.wheel = @ \ {<<s, n>>},
                        !.out = @ \cup {ReqPkt(cl.slot[s], n)},
                        !.slot[s].wheel_count = @ - 1]
    /\ UNCHANGED <<sv, net, issued, ran, got>>

(* A packet leaves the wheel. *)
ProcessWheel(s, n) ==
    /\ <<s, n>> \in cl.wheel
    /\ cl' = [cl EXCEPT !.wheel = @ \ {<<s, n>>},
                        !.out = @ \cup {ReqPkt(cl.slot[s], n)},
                        !.slot[s].wheel_count = @ - 1,
                        !.slot[s].in_wheel = @ \ {n % Credits}]
    /\ UNCHANGED <<sv, net, issued, ran, got>>

(* Mutant: what was posted before the roll back is not drained. *)
PktLossRetransmitUndrained(s, uncongested) ==
    /\ cl.slot[s].req # None
    /\ cl.slot[s].num_tx # cl.slot[s].num_rx
    /\ cl.slot[s].wheel_count = 0
    /\ cl' = kick(RollBack(cl, s), s, uncongested)
    /\ UNCHANGED <<sv, net, issued, ran, got>>

(* A timeout: against a slow network or server it may come at any time.    *)
(* The scan skips slots that wait for credits; the roll back leaves slots  *)
(* alone that have packets in the wheel.  What is to be sent is drained.   *)
PktLossRetransmit(s, uncongested) ==
    /\ cl.slot[s].req # None
    /\ cl.slot[s].num_tx # cl.slot[s].num_rx
    /\ cl.slot[s].wheel_count = 0
    /\ Drain(kick(RollBack(cl, s), s, uncongested))
-----------------------------------------------------------------------------
(***************************************************************************)
(* Steps of the server's thread.                                           *)
(***************************************************************************)
(* Mutant: what was posted is not drained. *)
ResendUndrained(sl, i) ==
    /\ sv' = [sv EXCEPT !.out = @ \cup {RespPkt(sl, i)}]
    /\ UNCHANGED <<cl, net, issued, ran, got>>

(* A response packet is sent again, and everything posted drained. *)
Resend(sl, i) ==
    /\ net' = net \cup sv.out \cup {RespPkt(sl, i)}
    /\ sv' = [sv EXCEPT !.out = {}]
    /\ UNCHANGED <<cl, issued, ran, got>>

(* The handler of a request that is complete is called. *)
CallHandler(s, sl, replies) ==
    /\ sv' = [sv EXCEPT !.slot[s] = [sl EXCEPT !.busy = TRUE], !.out = @ \cup replies]
    /\ ran' = [ran EXCEPT ![sl.body[1]] = @ + 1]
    /\ UNCHANGED <<cl, net, issued, got>>

(* Mutant: a retransmission runs the handler again. *)
ProcessSmallReqAgain(p) ==
    LET s == SlotOf(p)
        sl == sv.slot[s]
    IN  /\ p.type = "kReq" /\ p.pkts = 1
        /\ p.req_num >= sl.req_num /\ CallHandler(s, FirstPacket(sl, p), {})

ProcessSmallReq(p) ==
    LET s == SlotOf(p)
        sl == sv.slot[s]
    IN  /\ p.type = "kReq" /\ p.pkts = 1
        /\ \/ p.req_num = sl.req_num /\ sl.resp # None /\ Resend(sl, 0)
           \/ p.req_num > sl.req_num /\ CallHandler(s, FirstPacket(sl, p), {})

(* Mutant: no second credit return for a packet received before. *)
ProcessLargeReqOneCR(p) ==
    LET s == SlotOf(p)
        sl == sv.slot[s]
        next == IF p.pkt_num = 0 THEN FirstPacket(sl, p) ELSE NextPacket(sl, p)
        reply == IF LastReqPkt(p) THEN {} ELSE {CreditReturn(p)}
    IN  /\ p.type = "kReq" /\ p.pkts > 1
        /\ \/ /\ NextInOrder(sl, p) /\ next.num_rx # p.pkts
              /\ sv' = [sv EXCEPT !.slot[s] = next, !.out = @ \cup reply]
              /\ UNCHANGED <<cl, net, issued, ran, got>>
           \/ /\ NextInOrder(sl, p) /\ next.num_rx = p.pkts
              /\ CallHandler(s, next, reply)
           \/ /\ ~NextInOrder(sl, p) /\ PastPacket(sl, p) /\ LastReqPkt(p)
              /\ sl.resp # None
              /\ Resend(sl, 0)

ProcessLargeReq(p) ==
    LET s == SlotOf(p)
        sl == sv.slot[s]
        next == IF p.pkt_num = 0 THEN FirstPacket(sl, p) ELSE NextPacket(sl, p)
        reply == IF LastReqPkt(p) THEN {} ELSE {CreditReturn(p)}
    IN  /\ p.type = "kReq" /\ p.pkts > 1
        /\ \/ /\ NextInOrder(sl, p) /\ next.num_rx # p.pkts
              /\ sv' = [sv EXCEPT !.slot[s] = next, !.out = @ \cup reply]
              /\ UNCHANGED <<cl, net, issued, ran, got>>
           \/ /\ NextInOrder(sl, p) /\ next.num_rx = p.pkts
              /\ CallHandler(s, next, reply)
           \/ /\ ~NextInOrder(sl, p) /\ PastPacket(sl, p) /\ ~LastReqPkt(p)
              /\ sv' = [sv EXCEPT !.out = @ \cup reply]
              /\ UNCHANGED <<cl, net, issued, ran, got>>
           \/ /\ ~NextInOrder(sl, p) /\ PastPacket(sl, p) /\ LastReqPkt(p)
              /\ sl.resp # None
              /\ Resend(sl, 0)

(* Mutant: the request is not buried. *)
EnqueueResponseUnburied(s) ==
    LET sl == sv.slot[s]
        new == [sl EXCEPT !.sav = Len(sl.body), !.resp = sl.body[1], !.busy = FALSE]
    IN  /\ sl.busy
        /\ sv' = [sv EXCEPT !.slot[s] = new, !.out = @ \cup {RespPkt(new, 0)}]
        /\ UNCHANGED <<cl, net, issued, ran, got>>

(* The handler's answer, inside the handler or later.  The request is      *)
(* buried and its number of packets saved.                                 *)
EnqueueResponse(s) ==
    LET sl == sv.slot[s]
        new == [sl EXCEPT !.sav = Len(sl.body), !.body = <<>>, !.resp = sl.body[1],
                          !.busy = FALSE]
    IN  /\ sl.busy
        /\ sv' = [sv EXCEPT !.slot[s] = new, !.out = @ \cup {RespPkt(new, 0)}]
        /\ UNCHANGED <<cl, net, issued, ran, got>>

ProcessRFR(p) ==
    LET s == SlotOf(p)
        sl == sv.slot[s]
        i == resp_ntoi(p.pkt_num, sl.sav)
    IN  /\ p.type = "kRFR"
        /\ p.req_num = sl.req_num
        /\ \/ /\ p.pkt_num = sl.num_rx
              /\ sv' = [sv EXCEPT !.slot[s].num_rx = @ + 1,
                                  !.out = @ \cup {RespPkt(sl, i)}]
              /\ UNCHANGED <<cl, net, issued, ran, got>>
           \/ p.pkt_num < sl.num_rx /\ Resend(sl, i)

ServerTx ==
    /\ sv.out # {}
    /\ net' = net \cup sv.out
    /\ sv' = [sv EXCEPT !.out = {}]
    /\ UNCHANGED <<cl, issued, ran, got>>

(* The network drops a packet. *)
Lose(p) ==
    /\ MayLose
    /\ net' = net \ {p}
    /\ UNCHANGED <<cl, sv, issued, ran, got>>
-----------------------------------------------------------------------------
(* process_comps: a packet that arrives is dispatched by its type. *)
Deliver(p) ==
    \/ \E u \in Congestion : ProcessExplCR(p, u) \/ ProcessResp(p, u)
    \/ ProcessSmallReq(p)
    \/ ProcessLargeReq(p)
    \/ ProcessRFR(p)

Next ==
    \/ \E u \in Congestion : EnqueueRequest(u) \/ ProcessStallQueue(u)
    \/ \E s \in Slots, u \in Congestion : PktLossRetransmit(s, u)
    \/ \E e \in cl.wheel : ProcessWheel(e[1], e[2])
    \/ \E s \in Slots : EnqueueResponse(s)
    \/ ClientTx
    \/ ServerTx
    \/ \E p \in net : Deliver(p) \/ Lose(p)

Spec == Init /\ [][Next]_vars
-----------------------------------------------------------------------------
(***************************************************************************)
(* Fairness.  Both threads run their event loops for ever, so what an      *)
(* iteration does without a packet is done, and the handlers answer.  Of   *)
(* the network it is assumed that a packet that is sent again and again is *)
(* delivered at last: the one a client slot needs answered next, and its   *)
(* answer.                                                                 *)
(***************************************************************************)
(* The packet a slot needs answered next, or the answer. *)
Awaited(s, p) == p.req_num = cl.slot[s].req_num /\ p.pkt_num = cl.slot[s].num_rx

DeliverAwaited(s, up) == \E p \in net : ToServer(p) = up /\ Awaited(s, p) /\ Deliver(p)

Fairness ==
    /\ WF_vars(\E u \in Congestion : ProcessStallQueue(u))
    /\ WF_vars(\E e \in cl.wheel : ProcessWheel(e[1], e[2]))
    /\ WF_vars(ClientTx) /\ WF_vars(ServerTx)
    /\ \A s \in Slots : /\ WF_vars(\E u \in Congestion : PktLossRetransmit(s, u))
                        /\ WF_vars(EnqueueResponse(s))
                        /\ SF_vars(DeliverAwaited(s, TRUE))
                        /\ SF_vars(DeliverAwaited(s, FALSE))

FairSpec == Spec /\ Fairness
-----------------------------------------------------------------------------
(***************************************************************************)
(* Properties.                                                             *)
(***************************************************************************)
Ids == Requests \cup {None}

PktTypes == {"kReq", "kRFR", "kExplCR", "kResp"}

Packets == [type : PktTypes, req_num : Nat, pkt_num : Nat, pkts : Nat, data : Ids]

ClientSlots == [req : Ids, req_num : Nat, num_tx : Nat, num_rx : Nat, resp_pkts : Nat,
                resp : Seq(Ids), in_wheel : SUBSET Nat, wheel_count : Nat]

Clients == [slot : [Slots -> ClientSlots], credits : Nat, free : Seq(Slots),
            backlog : Seq(Requests), stallq : Seq(Slots), wheel : SUBSET (Slots \X Nat),
            out : SUBSET Packets]

ServerSlots == [req_num : Nat, num_rx : Nat, body : Seq(Ids), busy : BOOLEAN, resp : Ids,
                sav : Nat]

Servers == [slot : [Slots -> ServerSlots], out : SUBSET Packets]

(* The shapes of the two endpoints' state, of the packets and of the       *)
(* histories.                                                              *)
TypeOK ==
    /\ cl \in Clients
    /\ sv \in Servers
    /\ net \in SUBSET Packets
    /\ issued \in 0..MaxReqs
    /\ ran \in [Requests -> Nat]
    /\ got \in [Requests -> Seq(Seq(Ids))]

(* The packets of all slots that have no answer yet. *)
Unanswered(c) == UNION {{s} \X (c.slot[s].num_rx .. c.slot[s].num_tx - 1) : s \in Slots}

(* No credit is lost or made by losses, duplicates, roll backs and late    *)
(* answers: the credits at hand and the packets without an answer add up   *)
(* to kSessionCredits.  With a credit lost the session slows down and      *)
(* finally stalls; with one too many the server's RX ring overflows, and   *)
(* the assertion in bump_credits fails.                                    *)
CreditsConserved == cl.credits + Cardinality(Unanswered(cl)) = Credits

Active(s) == cl.slot[s].req # None

(* Every slot is free or active, once; the backlog is used only while no   *)
(* slot is free (the assertion in process_resp_one); and an active slot    *)
(* with no packet under way, which the packet loss scan passes over, is in *)
(* the stall queue, exactly once, so that someone will send for it.        *)
NoSlotForgotten ==
    /\ \A s \in Slots :
           /\ Cardinality({i \in DOMAIN cl.free : cl.free[i] = s}) = IF Active(s) THEN 0 ELSE 1
           /\ Cardinality({i \in DOMAIN cl.stallq : cl.stallq[i] = s})
                 = IF Active(s) /\ cl.slot[s].num_tx = cl.slot[s].num_rx THEN 1 ELSE 0
    /\ cl.backlog # <<>> => cl.free = <<>>

(* The assertions of the handlers hold for every packet that may arrive,   *)
(* however late and however often: request numbers from the client are     *)
(* never ahead of the next one and answers never ahead of the current one; *)
(* the first packet of a request finds the old request buried and its      *)
(* response enqueued; a request for response finds a response to send.     *)
AssertsHold ==
    \A p \in net :
        LET c == cl.slot[SlotOf(p)]
            v == sv.slot[SlotOf(p)]
        IN  /\ ~ToServer(p) => p.req_num <= c.req_num
            /\ ~ToServer(p) /\ in_order_client(c, p) =>
                  c.req # None /\ cl.credits < Credits
            /\ p.type = "kReq" /\ p.req_num > v.req_num =>
                  /\ p.req_num = v.req_num + Window
                  /\ p.pkt_num = 0 => v.body = <<>> /\ ~v.busy
            /\ p.type = "kRFR" => p.req_num <= v.req_num
            /\ p.type = "kRFR" /\ p.req_num = v.req_num =>
                  /\ v.resp # None
                  /\ resp_ntoi(p.pkt_num, v.sav) \in 1..(RespPkts[v.resp] - 1)

(* What the server's TX batch and DMA queue refer to is still there: a     *)
(* response packet's slot has not buried that response.  The NIC reads the *)
(* message buffer when it sends; this is why the server drains both        *)
(* whenever it sends a response packet again.                              *)
ServerTxLive ==
    \A p \in sv.out : p.type = "kResp" =>
        sv.slot[SlotOf(p)].resp = p.data /\ sv.slot[SlotOf(p)].req_num = p.req_num

(* What the client's TX batch and DMA queue refer to is still there: a     *)
(* request packet's slot still carries that request.  process_resp_one_st  *)
(* gives the buffer back to the caller on the promise that "the TX batch   *)
(* or DMA queue cannot contain a reference because we drain it after       *)
(* retransmission".                                                        *)
ClientTxLive ==
    \A p \in cl.out : p.type = "kReq" =>
        Active(SlotOf(p)) /\ cl.slot[SlotOf(p)].req_num = p.req_num

(* The flags that tell which packets are in the wheel are kept per packet  *)
(* number modulo kSessionCredits; they are exact all the same, and no slot *)
(* is freed while the wheel refers to it (the assertion on wheel_count in  *)
(* process_resp_one_st).                                                   *)
WheelFlagsExact ==
    \A s \in Slots :
        LET nums == {e[2] : e \in {w \in cl.wheel : w[1] = s}}
        IN  /\ cl.slot[s].wheel_count = Cardinality(nums)
            /\ cl.slot[s].in_wheel = {n % Credits : n \in nums}
            /\ Cardinality(cl.slot[s].in_wheel) = Cardinality(nums)
            /\ nums # {} => Active(s)

(* How far each request has come, read off the two endpoints. *)
Stage(r) ==
    IF got[r] # <<>> THEN "done"
    ELSE IF \E s \in Slots : sv.slot[s].resp = r THEN "answered"
    ELSE IF ran[r] > 0 THEN "handled"
    ELSE IF r <= issued THEN "issued"
    ELSE "new"

Service == INSTANCE RpcService WITH stage <- [r \in Requests |-> Stage(r)]

(* Over the network of this module a session is still a remote procedure   *)
(* call: every request is handled at most once, answered once after that,  *)
(* and completed once after that.                                          *)
ImplementsService == Service!Spec

(* Each handler call was for a whole request, each continuation is called  *)
(* once, with all packets of the response to its own request.              *)
RightAnswers ==
    /\ \A r \in Requests : /\ ran[r] <= 1
                           /\ got[r] \in {<<>>, <<[i \in 1..RespPkts[r] |-> r]>>}
    /\ \A s \in Slots : sv.slot[s].busy =>
           LET b == sv.slot[s].body IN b = [i \in 1..ReqPkts[b[1]] |-> b[1]]

(* A request that was issued is completed, although packets are lost. *)
RequestsComplete == \A r \in Requests : (r <= issued) ~> (got[r] # <<>>)
=============================================================================
