--------------------------- MODULE ErpcServiceProofs ---------------------------
(***************************************************************************)
(* A session as a remote procedure call: ErpcDatapath implements           *)
(* RpcService, the answers are the right ones, and what the two endpoints  *)
(* have posted for transmission stays valid.  The proofs rest on the       *)
(* invariant of ErpcDatapathProofs and add the histories and what is       *)
(* posted but not on the wire yet.                                         *)
(***************************************************************************)
EXTENDS ErpcDatapathProofs

(* The whole response to a request. *)
Full(r) == [i \in 1..RespPkts[r] |-> r]

(* The handler was called for the request that slot s of the client has. *)
Handled(c, v, s) ==
    /\ v.slot[s].req_num = c.slot[s].req_num
    /\ v.slot[s].busy \/ v.slot[s].resp # None

(* A request is in one slot or one entry of the backlog at most. *)
ActiveOnce(c) ==
    \A s, t \in Slots : c.slot[s].req # None /\ c.slot[s].req = c.slot[t].req => s = t

WaitingOnce(c) ==
    /\ \A i, j \in DOMAIN c.backlog : c.backlog[i] = c.backlog[j] => i = j
    /\ \A i \in DOMAIN c.backlog, s \in Slots : c.backlog[i] # c.slot[s].req

(* What the histories say of each request, by where it is: not issued yet, *)
(* waiting, in a slot, or complete.                                        *)
FreshOK(i, rn, g) == \A r \in Requests : r > i => rn[r] = 0 /\ g[r] = <<>>

WaitingOK(c, i, rn, g) ==
    \A k \in DOMAIN c.backlog :
        c.backlog[k] <= i /\ rn[c.backlog[k]] = 0 /\ g[c.backlog[k]] = <<>>

ActiveOK(c, v, i, rn, g) ==
    \A s \in Slots : c.slot[s].req # None =>
        /\ c.slot[s].req <= i /\ g[c.slot[s].req] = <<>>
        /\ rn[c.slot[s].req] = IF Handled(c, v, s) THEN 1 ELSE 0

OnceOK(rn, g) == \A r \in Requests : rn[r] \in {0, 1} /\ g[r] \in {<<>>, <<Full(r)>>}

(* A response that the server keeps is the one the client is about, or was *)
(* received.                                                               *)
KeptOK(c, v, g) ==
    \A s \in Slots :
        /\ v.slot[s].resp # None
        /\ c.slot[s].req = None \/ v.slot[s].req_num # c.slot[s].req_num
        => g[v.slot[s].resp] # <<>>

Hist(c, v, i, rn, g) ==
    /\ ActiveOnce(c) /\ WaitingOnce(c)
    /\ FreshOK(i, rn, g) /\ WaitingOK(c, i, rn, g) /\ ActiveOK(c, v, i, rn, g)
    /\ OnceOK(rn, g) /\ KeptOK(c, v, g)

HistInv == Hist(cl, sv, issued, ran, got)

(* The client has received no more of a response than the server has sent, *)
(* and all of it when the request is complete; what the server has posted  *)
(* and not sent, the client still waits for.                               *)
ReceivedSent(cs, vs) ==
    vs.resp # None =>
        /\ vs.req_num = cs.req_num => cs.num_rx <= vs.num_rx
        /\ cs.req = None \/ vs.req_num # cs.req_num => vs.num_rx = Wire(vs.resp)

PostedResp(p, cs, vs, n) ==
    /\ p.req_num = vs.req_num /\ p.req_num = cs.req_num
    /\ cs.req = p.data /\ cs.req # None
    /\ cs.num_rx <= p.pkt_num
    /\ p \notin n

Posted(c, v, n) ==
    /\ \A s \in Slots : ReceivedSent(c.slot[s], v.slot[s])
    /\ \A p \in v.out :
          p.type = "kResp" => PostedResp(p, c.slot[SlotOf(p)], v.slot[SlotOf(p)], n)

PostedInv == Posted(cl, sv, net)

(* Without pacing.  The server has received no more of a request than the  *)
(* client has sent; what the client has posted and not sent, the server    *)
(* has not received.                                                       *)
SentReceived(cs, vs) ==
    /\ cs.req # None /\ vs.req_num = cs.req_num
    => (vs.resp = None /\ vs.num_rx <= cs.num_tx) \/ ReqPkts[cs.req] <= cs.num_tx

SentReq(p, cs) == cs.req # None /\ p.req_num = cs.req_num => p.pkt_num < cs.num_tx

PostedReq(p, cs, vs, n) ==
    /\ cs.req # None /\ p.req_num = cs.req_num
    /\ p \notin n
    /\ vs.req_num = cs.req_num => vs.resp = None /\ vs.num_rx <= p.pkt_num

Unpaced(c, v, n) ==
    /\ c.wheel = {} /\ \A s \in Slots : c.slot[s].wheel_count = 0
    /\ \A s \in Slots : SentReceived(c.slot[s], v.slot[s])
    /\ \A p \in n \cup c.out : p.type = "kReq" => SentReq(p, c.slot[SlotOf(p)])
    /\ \A p \in c.out :
          p.type = "kReq" => PostedReq(p, c.slot[SlotOf(p)], v.slot[SlotOf(p)], n)

UnpacedInv == Unpaced(cl, sv, net)
-----------------------------------------------------------------------------
(***************************************************************************)
(* What the client does with its requests, and what the histories then     *)
(* say.  Most steps do nothing of the kind.                                *)
(***************************************************************************)
OtherRequests(c, d, s) ==
    \A t \in Slots \ {s} :
        d.slot[t].req = c.slot[t].req /\ d.slot[t].req_num = c.slot[t].req_num

(* Slot s, which was free, gets request r. *)
Begins(c, d, s, r) ==
    /\ c.slot[s].req = None
    /\ d.slot[s].req = r /\ d.slot[s].req_num = c.slot[s].req_num + Window
    /\ OtherRequests(c, d, s)

LEMMA SameRequestsHist ==
    ASSUME NEW c, NEW d, NEW v, NEW i, NEW rn, NEW g, Hist(c, v, i, rn, g),
           SameRequests(c, d), d.backlog = c.backlog
    PROVE  Hist(d, v, i, rn, g)
<1>1. \A s \in Slots : Handled(d, v, s) <=> Handled(c, v, s)
  BY DEF SameRequests, Handled
<1>2. ActiveOnce(d) /\ WaitingOnce(d)
  BY DEF Hist, SameRequests, ActiveOnce, WaitingOnce
<1>3. WaitingOK(d, i, rn, g)
  BY DEF Hist, WaitingOK
<1>4. ActiveOK(d, v, i, rn, g)
  BY <1>1 DEF Hist, SameRequests, ActiveOK
<1>5. KeptOK(d, v, g)
  BY DEF Hist, SameRequests, KeptOK
<1>. QED
  BY <1>2, <1>3, <1>4, <1>5 DEF Hist

LEMMA AppendEntries ==
    ASSUME NEW q \in Seq(Requests), NEW r \in Requests
    PROVE  /\ \A i \in DOMAIN Append(q, r) :
                 \/ i \in DOMAIN q /\ Append(q, r)[i] = q[i]
                 \/ i = Len(q) + 1 /\ Append(q, r)[i] = r
           /\ Len(q) + 1 \notin DOMAIN q
<1>1. Len(q) \in Nat /\ DOMAIN q = 1..Len(q)
  BY LenProperties
<1>. QED
  BY <1>1, AppendProperties

LEMMA TailEntries ==
    ASSUME NEW q \in Seq(Requests), q # <<>>
    PROVE  /\ 1 \in DOMAIN q /\ Head(q) = q[1] /\ Head(q) \in Requests
           /\ Tail(q) \in Seq(Requests)
           /\ \A i \in DOMAIN Tail(q) : /\ i \in Nat /\ i + 1 \in DOMAIN q
                                        /\ Tail(q)[i] = q[i + 1] /\ i + 1 # 1
<1>1. Len(q) \in Nat /\ DOMAIN q = 1..Len(q) /\ Len(q) # 0
  BY LenProperties, EmptySeq
<1>2. Tail(q) \in Seq(Requests) /\ Len(Tail(q)) = Len(q) - 1
      /\ \A i \in 1..Len(Tail(q)) : Tail(q)[i] = q[i + 1]
  BY HeadTailProperties
<1>3. DOMAIN Tail(q) = 1..Len(Tail(q))
  BY <1>2, LenProperties
<1>. QED
  BY <1>1, <1>2, <1>3, HeadTailProperties

(* A request that was issued waits. *)
LEMMA WaitsHist ==
    ASSUME NEW c \in Clients, NEW d, NEW v, NEW i \in Nat, NEW rn, NEW g, Hist(c, v, i, rn, g),
           NEW r \in Requests, r = i + 1, d.slot = c.slot, d.backlog = Append(c.backlog, r)
    PROVE  Hist(d, v, r, rn, g)
<1>. DEFINE q == c.backlog  b == Append(q, r)
<1>1. q \in Seq(Requests) /\ \A s \in Slots : c.slot[s].req # None => c.slot[s].req \in Requests
  BY ClientFields
<1>2. /\ \A k \in DOMAIN b :
            \/ k \in DOMAIN q /\ b[k] = q[k]
            \/ k = Len(q) + 1 /\ b[k] = r
      /\ Len(q) + 1 \notin DOMAIN q
  BY <1>1, AppendEntries
<1>3. \A k \in DOMAIN q : q[k] \in Requests /\ q[k] <= i /\ rn[q[k]] = 0 /\ g[q[k]] = <<>>
  BY <1>1, ElementOfSeq, LenProperties DEF Hist, WaitingOK
<1>4. d.backlog = b /\ r \in Nat /\ r # None
  BY Constants DEF Requests
<1>5. \A s \in Slots : c.slot[s].req # None => c.slot[s].req <= i /\ c.slot[s].req \in Nat
  BY <1>1 DEF Hist, ActiveOK, Requests
<1>. HIDE DEF q, b
<1>6. ActiveOnce(d)
  BY DEF Hist, ActiveOnce
<1>7. WaitingOnce(d)
  <2>1. \A j \in DOMAIN q : q[j] # r
    BY <1>3 DEF Requests
  <2>2. \A s \in Slots : c.slot[s].req # r
    BY <1>4, <1>5
  <2>3. /\ \A j, k \in DOMAIN q : q[j] = q[k] => j = k
        /\ \A j \in DOMAIN q, s \in Slots : q[j] # c.slot[s].req
    BY DEF Hist, WaitingOnce, q
  <2>4. ASSUME NEW j \in DOMAIN b, NEW k \in DOMAIN b, b[j] = b[k]
        PROVE  j = k
    BY <1>2, <2>1, <2>3, <2>4
  <2>5. ASSUME NEW j \in DOMAIN b, NEW s \in Slots
        PROVE  b[j] # c.slot[s].req
    BY <1>2, <2>2, <2>3
  <2>. QED
    BY <1>4, <2>4, <2>5 DEF WaitingOnce
<1>8. FreshOK(r, rn, g)
  BY DEF Hist, FreshOK, Requests
<1>9. rn[r] = 0 /\ g[r] = <<>>
  <2>1. r > i
    OBVIOUS
  <2>. QED
    BY <2>1 DEF Hist, FreshOK
<1>10. WaitingOK(d, r, rn, g)
  <2>1. \A k \in DOMAIN q : q[k] <= r
    BY <1>3 DEF Requests
  <2>2. r <= r
    BY <1>4
  <2>. QED
    BY <1>2, <1>3, <1>4, <1>9, <2>1, <2>2 DEF WaitingOK
<1>11. ActiveOK(d, v, r, rn, g)
  <2>1. \A s \in Slots : c.slot[s].req # None => c.slot[s].req <= r
    BY <1>5
  <2>2. \A s \in Slots : Handled(d, v, s) <=> Handled(c, v, s)
    BY DEF Handled
  <2>. QED
    BY <2>1, <2>2 DEF Hist, ActiveOK
<1>12. KeptOK(d, v, g)
  BY DEF Hist, KeptOK
<1>. QED
  BY <1>6, <1>7, <1>8, <1>10, <1>11, <1>12 DEF Hist

(* A request that was issued, or the first of the backlog, gets a free     *)
(* slot: one that nobody has, and that was neither handled nor answered.   *)
LEMMA BeginsHist ==
    ASSUME NEW c \in Clients, NEW d, NEW v, NEW i \in Nat, NEW j \in Nat, i <= j, NEW rn,
           NEW g, Hist(c, v, i, rn, g), NEW s \in Slots, NEW r \in Requests, r <= j,
           Begins(c, d, s, r), v.slot[s].req_num = c.slot[s].req_num,
           rn[r] = 0, g[r] = <<>>, \A t \in Slots : c.slot[t].req # r,
           WaitingOnce(d), WaitingOK(d, j, rn, g), FreshOK(j, rn, g)
    PROVE  Hist(d, v, j, rn, g)
<1>1. /\ \A t \in Slots : c.slot[t].req # None => c.slot[t].req \in Requests
      /\ c.slot[s].req_num \in Nat /\ Window \in Nat \ {0} /\ r # None
  BY ClientFields, Constants
<1>2. ~Handled(d, v, s)
  BY <1>1 DEF Begins, Handled
<1>3. \A t \in Slots \ {s} : Handled(d, v, t) <=> Handled(c, v, t)
  BY DEF Begins, OtherRequests, Handled
<1>4. ActiveOnce(d)
  BY DEF Hist, ActiveOnce, Begins, OtherRequests
<1>5. ActiveOK(d, v, j, rn, g)
  <2>1. ASSUME NEW t \in Slots \ {s}, d.slot[t].req # None
        PROVE  /\ d.slot[t].req <= j /\ g[d.slot[t].req] = <<>>
               /\ rn[d.slot[t].req] = IF Handled(d, v, t) THEN 1 ELSE 0
    <3>1. d.slot[t].req = c.slot[t].req
      BY <2>1 DEF Begins, OtherRequests
    <3>2. /\ c.slot[t].req <= i /\ g[c.slot[t].req] = <<>>
          /\ rn[c.slot[t].req] = IF Handled(c, v, t) THEN 1 ELSE 0
      BY <2>1, <3>1 DEF Hist, ActiveOK
    <3>3. c.slot[t].req \in Nat
      BY <1>1, <2>1, <3>1 DEF Requests
    <3>. QED
      BY <1>3, <2>1, <3>1, <3>2, <3>3
  <2>2. /\ d.slot[s].req <= j /\ g[d.slot[s].req] = <<>>
        /\ rn[d.slot[s].req] = IF Handled(d, v, s) THEN 1 ELSE 0
    BY <1>2 DEF Begins
  <2>. QED
    BY <2>1, <2>2 DEF ActiveOK
<1>6. KeptOK(d, v, g)
  BY DEF Hist, KeptOK, Begins, OtherRequests
<1>. QED
  BY <1>4, <1>5, <1>6 DEF Hist
-----------------------------------------------------------------------------
(***************************************************************************)
(* The operators of the client as far as its requests and what it has      *)
(* received are concerned.  Quiet ones change nothing of that; Took is an  *)
(* answer to slot s taken; Gets is a free slot that gets a request.        *)
(***************************************************************************)
SameReceived(c, d) == \A t \in Slots : d.slot[t].num_rx = c.slot[t].num_rx

Quiet(c, d) == SameRequests(c, d) /\ SameReceived(c, d) /\ d.backlog = c.backlog

OthersReceived(c, d, s) == \A t \in Slots \ {s} : d.slot[t].num_rx = c.slot[t].num_rx

Took(c, d, s) ==
    /\ SameRequests(c, d) /\ d.backlog = c.backlog
    /\ d.slot[s].num_rx = c.slot[s].num_rx + 1 /\ OthersReceived(c, d, s)

Gets(c, d, s, r) == Begins(c, d, s, r) /\ OthersReceived(c, d, s)

LEMMA QuietQuiet ==
    ASSUME NEW c, NEW d, NEW e, Quiet(c, d), Quiet(d, e)
    PROVE  Quiet(c, e)
BY DEF Quiet, SameRequests, SameReceived

LEMMA TookQuiet ==
    ASSUME NEW c, NEW d, NEW e, NEW s \in Slots, Took(c, d, s), Quiet(d, e)
    PROVE  Took(c, e, s)
BY DEF Quiet, Took, SameRequests, SameReceived, OthersReceived

LEMMA GetsQuiet ==
    ASSUME NEW c, NEW d, NEW e, NEW s \in Slots, NEW r, Gets(c, d, s, r), Quiet(d, e)
    PROVE  Gets(c, e, s, r)
BY DEF Quiet, Gets, Begins, OtherRequests, SameRequests, SameReceived, OthersReceived

LEMMA KickReqQuiet ==
    ASSUME NEW c \in Clients, NEW s \in Slots, NEW u
    PROVE  Quiet(c, kick_req(c, s, u))
<1>. DEFINE sl == c.slot[s]
            sending == Lesser(c.credits, ReqPkts[sl.req] - sl.num_tx)
            nums == sl.num_tx .. (sl.num_tx + sending - 1)
            bypass == can_bypass_wheel(sl, u)
            w == IF bypass THEN sl.wheel_count ELSE sl.wheel_count + sending
            i == IF bypass THEN sl.in_wheel ELSE sl.in_wheel \cup {n % Credits : n \in nums}
            a == sl.num_tx + sending
            new == [sl EXCEPT !.num_tx = a, !.wheel_count = w, !.in_wheel = i]
            d == kick_req(c, s, u)
<1>1. d.backlog = c.backlog /\ d.slot = [c.slot EXCEPT ![s] = new]
  BY DEF Clients, kick_req
<1>2. c.slot \in [Slots -> ClientSlots] /\ sl \in ClientSlots
  BY DEF Clients
<1>. HIDE DEF d, a, w, i
<1>3. new.req = sl.req /\ new.req_num = sl.req_num /\ new.num_rx = sl.num_rx
  BY <1>2 DEF ClientSlots
<1>. HIDE DEF new
<1>. QED
  BY <1>1, <1>2, <1>3 DEF Quiet, SameRequests, SameReceived, d

LEMMA KickRfrQuiet ==
    ASSUME NEW c \in Clients, NEW s \in Slots
    PROVE  Quiet(c, kick_rfr(c, s))
<1>. DEFINE sl == c.slot[s]
            a == sl.num_tx + Lesser(c.credits, wire_pkts(sl) - sl.num_tx)
            new == [sl EXCEPT !.num_tx = a]
            d == kick_rfr(c, s)
<1>1. d.backlog = c.backlog /\ d.slot = [c.slot EXCEPT ![s] = new]
  BY DEF Clients, kick_rfr
<1>2. c.slot \in [Slots -> ClientSlots] /\ sl \in ClientSlots
  BY DEF Clients
<1>. HIDE DEF d, a
<1>3. new.req = sl.req /\ new.req_num = sl.req_num /\ new.num_rx = sl.num_rx
  BY <1>2 DEF ClientSlots
<1>. HIDE DEF new
<1>. QED
  BY <1>1, <1>2, <1>3 DEF Quiet, SameRequests, SameReceived, d

LEMMA KickQuiet ==
    ASSUME NEW c \in Clients, NEW s \in Slots, NEW u
    PROVE  Quiet(c, kick(c, s, u))
BY KickReqQuiet, KickRfrQuiet DEF kick

LEMMA SameSlotsQuiet ==
    ASSUME NEW c, NEW d, d.slot = c.slot, d.backlog = c.backlog
    PROVE  Quiet(c, d)
BY DEF Quiet, SameRequests, SameReceived

LEMMA TakesTook ==
    ASSUME NEW c, NEW d, NEW s \in Slots, Takes(c, d, s)
    PROVE  Took(c, d, s)
BY DEF Takes, Took, OnlySlot, OthersReceived, SameQueues

LEMMA StartedGets ==
    ASSUME NEW c \in Clients, NEW s \in Slots, NEW r \in Requests, c.free # <<>>,
           c.slot[s].req = None
    PROVE  LET d == Started(c, s, r)
           IN  d \in Clients /\ Gets(c, d, s, r) /\ d.backlog = c.backlog
<1>. DEFINE d == Started(c, s, r)
<1>1. d \in Clients /\ d.backlog = c.backlog /\ OnlySlot(c, d, s)
  BY StartedFields
<1>2. d.slot[s].req = r /\ d.slot[s].req_num = c.slot[s].req_num + Window
  BY StartedFields
<1>. HIDE DEF d
<1>3. Gets(c, d, s, r)
  BY <1>1, <1>2 DEF Gets, Begins, OtherRequests, OthersReceived, OnlySlot
<1>. QED
  BY <1>1, <1>3 DEF d

(* enqueue_request either lets the request wait or gives it a slot. *)
LEMMA EnqueueRequestGets ==
    ASSUME NEW c \in Clients, NEW r \in Requests, NEW u, c.free # <<>>,
           \A s \in Slots : c.slot[s].req = None <=> \E i \in DOMAIN c.free : c.free[i] = s
    PROVE  LET d == enqueue_request(c, r, u)
               s == c.free[Len(c.free)]
           IN  s \in Slots /\ Gets(c, d, s, r) /\ d.backlog = c.backlog
<1>. DEFINE q == c.free  s == q[Len(q)]  a == Started(c, s, r)
            d == enqueue_request(c, r, u)
            b == [a EXCEPT !.stallq = Append(@, s)]
<1>1. q \in Seq(Slots)
  BY ClientFields
<1>2. Len(q) \in DOMAIN q /\ s \in Slots
  <2>1. Len(q) \in Nat /\ Len(q) # 0 /\ DOMAIN q = 1..Len(q)
    BY <1>1, LenProperties, EmptySeq
  <2>2. Len(q) \in 1..Len(q)
    BY <2>1
  <2>. QED
    BY <1>1, <2>1, <2>2, ElementOfSeq
<1>3. c.slot[s].req = None
  BY <1>2
<1>4. a \in Clients /\ Gets(c, a, s, r) /\ a.backlog = c.backlog
  BY <1>2, <1>3, StartedGets
<1>5. d = IF a.credits > 0 THEN kick_req(a, s, u) ELSE b
  BY DEF enqueue_request, Started
<1>. HIDE DEF a, s, q
<1>6. Quiet(a, d)
  <2>1. b.slot = a.slot /\ b.backlog = a.backlog
    BY <1>4 DEF Clients
  <2>. HIDE DEF b
  <2>. QED
    BY <1>2, <1>4, <1>5, <2>1, KickReqQuiet, SameSlotsQuiet
<1>. HIDE DEF d
<1>7. Gets(c, d, s, r) /\ d.backlog = c.backlog
  BY <1>2, <1>4, <1>6, GetsQuiet DEF Quiet
<1>. QED
  BY <1>2, <1>7 DEF d, s, q
-----------------------------------------------------------------------------
(***************************************************************************)
(* The histories, step by step.                                            *)
(***************************************************************************)
(* The last packet of the response: the request of slot s is complete.     *)
LEMMA DoneHist ==
    ASSUME NEW c \in Clients, NEW d, NEW v, NEW i \in Nat, NEW rn,
           NEW g \in [Requests -> Seq(Seq(Ids))], Hist(c, v, i, rn, g), NEW s \in Slots, NEW r \in Requests, c.slot[s].req = r,
           d.slot[s].req = None, OtherRequests(c, d, s), d.backlog = c.backlog,
           v.slot[s].resp = r, NEW h, h = [g EXCEPT ![r] = Append(@, Full(r))]
    PROVE  Hist(d, v, i, rn, h)
<1>1. g[r] = <<>> /\ r <= i /\ r # None
  BY Constants DEF Hist, ActiveOK
<1>2. h[r] = <<Full(r)>>
  BY <1>1
<1>3. \A x \in Requests : x # r => h[x] = g[x]
  OBVIOUS
<1>4. h[r] # <<>>
  BY <1>2
<1>5. /\ \A t \in Slots : c.slot[t].req # None => c.slot[t].req \in Requests
      /\ c.backlog \in Seq(Requests)
  BY ClientFields
<1>6. \A k \in DOMAIN c.backlog : c.backlog[k] \in Requests /\ c.backlog[k] # r
  <2>1. \A k \in DOMAIN c.backlog : c.backlog[k] \in Requests
    BY <1>5, ElementOfSeq, LenProperties
  <2>. QED
    BY <2>1 DEF Hist, WaitingOnce
<1>7. \A t \in Slots \ {s} : /\ c.slot[t].req # r
                             /\ d.slot[t].req = c.slot[t].req
                             /\ d.slot[t].req_num = c.slot[t].req_num
                             /\ Handled(d, v, t) <=> Handled(c, v, t)
  BY <1>1 DEF Hist, ActiveOnce, OtherRequests, Handled
<1>8. ActiveOnce(d)
  BY <1>7 DEF Hist, ActiveOnce
<1>9. WaitingOnce(d)
  <2>1. \A k \in DOMAIN c.backlog, t \in Slots : c.backlog[k] # c.slot[t].req
    BY DEF Hist, WaitingOnce
  <2>2. \A k \in DOMAIN c.backlog : c.backlog[k] # None
    BY <1>6, Constants
  <2>3. \A k \in DOMAIN c.backlog, t \in Slots : c.backlog[k] # d.slot[t].req
    BY <1>7, <2>1, <2>2
  <2>. QED
    BY <2>3 DEF Hist, WaitingOnce
<1>10. FreshOK(i, rn, h)
  <2>1. ASSUME NEW x \in Requests, x > i PROVE x # r
    BY <1>1, <2>1 DEF Requests
  <2>. QED
    BY <1>1, <1>3, <2>1 DEF Hist, FreshOK
<1>11. WaitingOK(d, i, rn, h)
  BY <1>3, <1>6 DEF Hist, WaitingOK
<1>12. ActiveOK(d, v, i, rn, h)
  <2>1. ASSUME NEW t \in Slots, d.slot[t].req # None
        PROVE  /\ d.slot[t].req <= i /\ h[d.slot[t].req] = <<>>
               /\ rn[d.slot[t].req] = IF Handled(d, v, t) THEN 1 ELSE 0
    <3>1. t # s /\ d.slot[t].req = c.slot[t].req /\ c.slot[t].req # r
      BY <1>7, <2>1
    <3>2. /\ c.slot[t].req <= i /\ g[c.slot[t].req] = <<>>
          /\ rn[c.slot[t].req] = IF Handled(c, v, t) THEN 1 ELSE 0
      BY <2>1, <3>1 DEF Hist, ActiveOK
    <3>. QED
      BY <1>3, <1>5, <1>7, <2>1, <3>1, <3>2
  <2>. QED
    BY <2>1 DEF ActiveOK
<1>13. OnceOK(rn, h)
  BY <1>2, <1>3 DEF Hist, OnceOK
<1>14. KeptOK(d, v, h)
  <2>1. ASSUME NEW t \in Slots, v.slot[t].resp # None,
               d.slot[t].req = None \/ v.slot[t].req_num # d.slot[t].req_num
        PROVE  h[v.slot[t].resp] # <<>>
    <3>1. CASE v.slot[t].resp = r
      BY <1>4, <3>1
    <3>2. CASE v.slot[t].resp # r
      <4>1. t # s
        BY <3>2
      <4>2. g[v.slot[t].resp] # <<>>
        BY <1>7, <2>1, <4>1 DEF Hist, KeptOK
      <4>. QED
        BY <3>2, <4>2
    <3>. QED
      BY <3>1, <3>2
  <2>. QED
    BY <2>1 DEF KeptOK
<1>. QED
  BY <1>8, <1>9, <1>10, <1>11, <1>12, <1>13, <1>14 DEF Hist

(* The slots of the server change without a handler called. *)
LEMMA ServerHist ==
    ASSUME NEW c, NEW v, NEW w, NEW i, NEW rn, NEW g, Hist(c, v, i, rn, g),
           \A s \in Slots : /\ Handled(c, w, s) <=> Handled(c, v, s)
                            /\ \/ w.slot[s].resp = None
                               \/ c.slot[s].req # None /\ w.slot[s].req_num = c.slot[s].req_num
                               \/ /\ w.slot[s].resp = v.slot[s].resp
                                  /\ w.slot[s].req_num = v.slot[s].req_num
    PROVE  Hist(c, w, i, rn, g)
<1>1. ActiveOK(c, w, i, rn, g)
  BY DEF Hist, ActiveOK
<1>2. KeptOK(c, w, g)
  BY DEF Hist, KeptOK
<1>. QED
  BY <1>1, <1>2 DEF Hist

(* The handler of the request of slot s is called. *)
LEMMA HandledHist ==
    ASSUME NEW c \in Clients, NEW v, NEW w, NEW i \in Nat, NEW rn \in [Requests -> Nat], NEW g,
           Hist(c, v, i, rn, g), NEW s \in Slots, NEW r \in Requests, c.slot[s].req = r,
           ~Handled(c, v, s), Handled(c, w, s), w.slot[s].resp = None,
           \A t \in Slots \ {s} : w.slot[t] = v.slot[t], NEW rn2,
           rn2 = [rn EXCEPT ![r] = @ + 1]
    PROVE  Hist(c, w, i, rn2, g)
<1>1. g[r] = <<>> /\ r <= i /\ r # None /\ rn[r] = 0
  BY Constants DEF Hist, ActiveOK
<1>2. rn2[r] = 1 /\ \A x \in Requests : x # r => rn2[x] = rn[x]
  BY <1>1
<1>3. /\ \A t \in Slots : c.slot[t].req # None => c.slot[t].req \in Requests
      /\ c.backlog \in Seq(Requests)
  BY ClientFields
<1>4. \A k \in DOMAIN c.backlog : c.backlog[k] \in Requests /\ c.backlog[k] # r
  <2>1. \A k \in DOMAIN c.backlog : c.backlog[k] \in Requests
    BY <1>3, ElementOfSeq, LenProperties
  <2>. QED
    BY <2>1 DEF Hist, WaitingOnce
<1>5. \A t \in Slots \ {s} : c.slot[t].req # r /\ (Handled(c, w, t) <=> Handled(c, v, t))
  BY <1>1 DEF Hist, ActiveOnce, Handled
<1>6. FreshOK(i, rn2, g)
  <2>1. ASSUME NEW x \in Requests, x > i PROVE x # r
    BY <1>1, <2>1 DEF Requests
  <2>. QED
    BY <1>2, <2>1 DEF Hist, FreshOK
<1>7. WaitingOK(c, i, rn2, g)
  BY <1>2, <1>4 DEF Hist, WaitingOK
<1>8. ActiveOK(c, w, i, rn2, g)
  BY <1>1, <1>2, <1>3, <1>5 DEF Hist, ActiveOK
<1>9. OnceOK(rn2, g)
  BY <1>2 DEF Hist, OnceOK
<1>10. KeptOK(c, w, g)
  BY DEF Hist, KeptOK
<1>. QED
  BY <1>6, <1>7, <1>8, <1>9, <1>10 DEF Hist

LEMMA HistPrimed ==
    ASSUME NEW c, NEW v, NEW i, NEW rn, NEW g, cl' = c, sv' = v, issued' = i, ran' = rn, got' = g,
           Hist(c, v, i, rn, g)
    PROVE  HistInv'
BY DEF HistInv

LEMMA QuietHist ==
    ASSUME HistInv, NEW d, SameRequests(cl, d), d.backlog = cl.backlog, cl' = d,
           UNCHANGED <<sv, issued, ran, got>>
    PROVE  HistInv'
<1>1. Hist(d, sv, issued, ran, got)
  BY SameRequestsHist DEF HistInv
<1>. QED
  BY <1>1, HistPrimed

LEMMA StallQueueQuiet ==
    ASSUME IInv, NEW u, ProcessStallQueue(u)
    PROVE  Quiet(cl, cl')
<1>. DEFINE s == Head(cl.stallq)  c == Popped(cl)  d == kick(c, s, u)
<1>1. Inv(cl, sv, net, {}) /\ cl.stallq # <<>> /\ cl' = d
  BY DEF IInv, ProcessStallQueue, Popped
<1>2. s \in Slots /\ c.backlog = cl.backlog /\ c.slot = cl.slot /\ Inv(c, sv, net, {s})
  BY <1>1, PoppedInv
<1>3. c \in Clients
  BY <1>2 DEF Inv
<1>. HIDE DEF c, s
<1>4. Quiet(cl, c) /\ Quiet(c, d)
  BY <1>2, <1>3, KickQuiet, SameSlotsQuiet
<1>. HIDE DEF d
<1>. QED
  BY <1>1, <1>4, QuietQuiet

LEMMA RetransmitQuiet ==
    ASSUME IInv, NEW s \in Slots, NEW u, PktLossRetransmit(s, u)
    PROVE  Quiet(cl, cl')
<1>. DEFINE c == RollBack(cl, s)  d == kick(c, s, u)  e == [d EXCEPT !.out = {}]
<1>1. cl \in Clients /\ cl' = e /\ cl.slot[s].num_rx <= cl.slot[s].num_tx
  BY DEF IInv, Inv, SlotsOK, ClientSlotOK, PktLossRetransmit, Drain
<1>2. c \in Clients /\ SameQueues(cl, c) /\ OnlySlot(cl, c, s) /\ SameRequests(cl, c)
  BY <1>1, RollBackFields
<1>3. c.slot[s].num_rx = cl.slot[s].num_rx
  BY <1>1, RollBackFields
<1>. HIDE DEF c
<1>4. Quiet(cl, c)
  BY <1>2, <1>3 DEF Quiet, SameReceived, OnlySlot, SameQueues
<1>5. Quiet(c, d)
  BY <1>2, KickQuiet
<1>6. e.slot = d.slot /\ e.backlog = d.backlog
  <2>1. Inv(d, sv, net, {})
    BY RetransmitInv DEF PktLossRetransmit, c
  <2>2. d \in Clients
    BY <2>1 DEF Inv
  <2>. HIDE DEF d
  <2>. QED
    BY <2>2 DEF Clients
<1>. HIDE DEF d, e
<1>7. Quiet(d, e)
  BY <1>6, SameSlotsQuiet
<1>. QED
  BY <1>1, <1>4, <1>5, <1>7, QuietQuiet

LEMMA WheelQuiet ==
    ASSUME IInv, NEW s, NEW i, ProcessWheel(s, i)
    PROVE  Quiet(cl, cl')
<1>. DEFINE d == LeftWheel(cl, s, i)  sl == cl.slot[s]
<1>1. /\ Inv(cl, sv, net, {}) /\ cl \in Clients /\ <<s, i>> \in cl.wheel /\ cl' = d
  BY DEF IInv, Inv, ProcessWheel, LeftWheel
<1>2. SameRequests(cl, d) /\ d.backlog = cl.backlog
  BY <1>1, LeftWheelInv
<1>3. s \in Slots
  BY <1>1, ClientFields
<1>4. SameReceived(cl, d)
  <2>. DEFINE a == sl.wheel_count - 1  b == sl.in_wheel \ {i % Credits}
              new == [sl EXCEPT !.wheel_count = a, !.in_wheel = b]
  <2>1. cl.slot \in [Slots -> ClientSlots] /\ sl \in ClientSlots
    BY <1>1, <1>3 DEF Clients
  <2>2. d.slot = [cl.slot EXCEPT ![s] = new]
    BY <1>1, <1>3, <2>1 DEF LeftWheel, Clients, ClientSlots
  <2>. HIDE DEF a, b
  <2>3. new.num_rx = sl.num_rx
    BY <2>1 DEF ClientSlots
  <2>. HIDE DEF new, d
  <2>. QED
    BY <2>1, <2>2, <2>3 DEF SameReceived
<1>. QED
  BY <1>1, <1>2, <1>4 DEF Quiet

LEMMA ClientTxQuiet ==
    ASSUME IInv, ClientTx
    PROVE  Quiet(cl, cl')
<1>. DEFINE d == [cl EXCEPT !.out = {}]
<1>1. cl \in Clients /\ cl' = d
  BY DEF IInv, Inv, ClientTx, Drain
<1>2. d.slot = cl.slot /\ d.backlog = cl.backlog
  BY <1>1 DEF Clients
<1>. HIDE DEF d
<1>. QED
  BY <1>1, <1>2, SameSlotsQuiet

(* A credit return changes nothing, or is an answer taken. *)
LEMMA ExplCRTook ==
    ASSUME IInv, NEW p \in net, NEW u, ProcessExplCR(p, u)
    PROVE  LET s == SlotOf(p)
           IN  \/ Quiet(cl, cl')
               \/ in_order_client(cl.slot[s], p) /\ Took(cl, cl', s)
<1>. DEFINE s == SlotOf(p)  c == Answered(cl, s)  d == process_expl_cr(cl, s, p, u)
<1>1. cl \in Clients /\ p \in Packets /\ cl' = d
  BY DEF IInv, Inv, ProcessExplCR
<1>2. s \in Slots
  BY <1>1, PacketFields
<1>3. Takes(cl, c, s)
  BY <1>1, <1>2, AnsweredTakes
<1>4. c \in Clients /\ Took(cl, c, s)
  BY <1>2, <1>3, TakesTook DEF Takes
<1>5. d = IF ~in_order_client(cl.slot[s], p) THEN cl
          ELSE IF req_pkts_pending(c.slot[s]) THEN kick_req(c, s, u) ELSE c
  BY DEF process_expl_cr
<1>. HIDE DEF c, d
<1>6. CASE ~in_order_client(cl.slot[s], p)
  BY <1>1, <1>5, <1>6, SameSlotsQuiet
<1>7. CASE in_order_client(cl.slot[s], p)
  <2>1. Quiet(c, d)
    BY <1>2, <1>4, <1>5, <1>7, KickReqQuiet, SameSlotsQuiet
  <2>. QED
    BY <1>1, <1>2, <1>4, <1>7, <2>1, TookQuiet
<1>. QED
  BY <1>6, <1>7

(* So is a response packet. *)
LEMMA TakeRespTook ==
    ASSUME NEW c, NEW v, NEW n, Inv(c, v, n, {}), NEW p \in n, p.type = "kResp",
           in_order_client(c.slot[SlotOf(p)], p)
    PROVE  Took(c, TakeResp(c, SlotOf(p), p), SlotOf(p))
<1>. DEFINE s == SlotOf(p)  d == Copied(c, s, p)  e == TakeResp(c, s, p)
<1>1. p \in Packets
  BY DEF Inv
<1>2. s \in Slots
  BY <1>1, PacketFields
<1>3. Takes(c, d, s)
  BY CopiedFacts
<1>4. d \in Clients /\ Took(c, d, s)
  BY <1>2, <1>3, TakesTook DEF Takes
<1>5. e = d \/ e = kick_rfr(d, s)
  BY DEF TakeResp, Copied
<1>. HIDE DEF d, e, s
<1>6. Quiet(d, e)
  BY <1>2, <1>4, <1>5, KickRfrQuiet, SameSlotsQuiet
<1>. QED
  BY <1>2, <1>4, <1>6, TookQuiet DEF e, s

LEMMA EnqueueRequestHist ==
    ASSUME IInv, HistoryOK, HistInv, NEW u, EnqueueRequest(u)
    PROVE  HistInv'
<1>. DEFINE r == issued + 1  d == enqueue_request(cl, r, u)  s == cl.free[Len(cl.free)]
<1>1. /\ Inv(cl, sv, net, {}) /\ BacklogOK(cl) /\ cl \in Clients /\ FreeOK(cl) /\ SlotsOK(cl, sv)
      /\ Hist(cl, sv, issued, ran, got)
      /\ cl' = d /\ issued' = r /\ UNCHANGED <<sv, ran, got>>
  BY DEF IInv, Inv, HistInv, EnqueueRequest
<1>2. issued \in Nat /\ r \in Requests /\ r \in Nat /\ r > issued
  BY Constants DEF HistoryOK, EnqueueRequest, Requests
<1>3. CASE cl.free = <<>>
  <2>1. d.slot = cl.slot /\ d.backlog = Append(cl.backlog, r)
    BY <1>1, <1>2, <1>3, EnqueueRequestInv
  <2>. HIDE DEF d
  <2>2. Hist(d, sv, r, ran, got)
    <3>1. r = issued + 1
      OBVIOUS
    <3>. HIDE DEF r
    <3>. QED
      BY <1>1, <1>2, <2>1, <3>1, WaitsHist
  <2>. HIDE DEF r
  <2>. QED
    BY <1>1, <2>2, HistPrimed
<1>4. CASE cl.free # <<>>
  <2>1. \A t \in Slots : cl.slot[t].req = None <=> \E i \in DOMAIN cl.free : cl.free[i] = t
    BY <1>1 DEF FreeOK
  <2>2. s \in Slots /\ Gets(cl, d, s, r) /\ d.backlog = cl.backlog
    BY <1>1, <1>2, <1>4, <2>1, EnqueueRequestGets
  <2>. HIDE DEF d, s
  <2>3. Begins(cl, d, s, r) /\ sv.slot[s].req_num = cl.slot[s].req_num
    BY <1>1, <2>2 DEF Gets, Begins, SlotsOK, SlotsMatch
  <2>4. ran[r] = 0 /\ got[r] = <<>>
    BY <1>1, <1>2 DEF Hist, FreshOK
  <2>5. \A t \in Slots : cl.slot[t].req # r
    <3>1. \A t \in Slots : cl.slot[t].req # None => cl.slot[t].req <= issued
      BY <1>1 DEF Hist, ActiveOK
    <3>2. r # None /\ ~(r <= issued)
      BY <1>2, Constants
    <3>. HIDE DEF r
    <3>. QED
      BY <3>1, <3>2
  <2>6. cl.backlog = <<>>
    BY <1>1, <1>4 DEF BacklogOK
  <2>7. DOMAIN d.backlog = {}
    BY <2>2, <2>6
  <2>8. WaitingOnce(d) /\ WaitingOK(d, r, ran, got)
    BY <2>7 DEF WaitingOnce, WaitingOK
  <2>9. FreshOK(r, ran, got)
    BY <1>1, <1>2 DEF Hist, FreshOK, Requests
  <2>10. issued <= r /\ r <= r
    BY <1>2
  <2>. HIDE DEF r
  <2>11. Hist(d, sv, r, ran, got)
    BY <1>1, <1>2, <2>2, <2>3, <2>4, <2>5, <2>8, <2>9, <2>10, BeginsHist
  <2>. QED
    BY <1>1, <2>11, HistPrimed
<1>. QED
  BY <1>3, <1>4

(* What FinishRequest does: slot s is freed and then gets the first        *)
(* request of the backlog.                                                 *)
LEMMA FinishGets ==
    ASSUME NEW d \in Clients, NEW s \in Slots, NEW u, d.slot[s].req # None,
           FreeOK(d), BacklogOK(d)
    PROVE  LET m == Freed(d, s)
               e == FinishRequest(d, s, u)
           IN  /\ m \in Clients /\ m.backlog = d.backlog /\ OnlySlot(d, m, s)
               /\ m.slot[s].req = None /\ m.slot[s].req_num = d.slot[s].req_num
               /\ m.slot[s].num_rx = d.slot[s].num_rx /\ m.slot[s].num_tx = d.slot[s].num_tx
               /\ m.out = d.out /\ m.wheel = d.wheel
               /\ d.backlog = <<>> => e = m
               /\ d.backlog # <<>> => Gets(m, e, s, Head(d.backlog)) /\ e.backlog = Tail(d.backlog)
<1>. DEFINE m == Freed(d, s)  e == FinishRequest(d, s, u)  r == Head(d.backlog)
            b == enqueue_request(m, r, u)
<1>1. m \in Clients /\ m.backlog = d.backlog /\ OnlySlot(d, m, s)
  BY FreedFields
<1>2. m.slot[s].req = None /\ m.slot[s].req_num = d.slot[s].req_num
  BY FreedFields
<1>3. m.out = d.out /\ m.wheel = d.wheel /\ m.free = Append(d.free, s)
  BY FreedFields DEF SameTx
<1>4. m.slot[s].num_rx = d.slot[s].num_rx /\ m.slot[s].num_tx = d.slot[s].num_tx
  BY FreedFields DEF SameProgress
<1>5. e = IF m.backlog = <<>> THEN m ELSE [b EXCEPT !.backlog = Tail(@)]
  BY <1>1 DEF FinishRequest, Freed
<1>6. CASE d.backlog = <<>>
  <2>1. e = m
    BY <1>1, <1>5, <1>6
  <2>. HIDE DEF e, m
  <2>2. d.backlog # <<>> => Gets(m, e, s, Head(d.backlog)) /\ e.backlog = Tail(d.backlog)
    BY <1>6
  <2>. QED
    BY <1>1, <1>2, <1>3, <1>4, <2>1, <2>2 DEF e, m
<1>7. CASE d.backlog # <<>>
  <2>1. d.free = <<>> /\ d.backlog \in Seq(Requests)
    BY <1>7, ClientFields DEF BacklogOK
  <2>2. r \in Requests
    BY <1>7, <2>1, TailEntries
  <2>3. m.free = <<s>> /\ Len(m.free) = 1 /\ m.free # <<>> /\ m.free[1] = s
    BY <1>3, <2>1
  <2>4. \A t \in Slots : m.slot[t].req = None <=> \E i \in DOMAIN m.free : m.free[i] = t
    <3>1. DOMAIN m.free = {1}
      BY <2>3
    <3>2. \A t \in Slots \ {s} : m.slot[t].req # None
      <4>1. DOMAIN d.free = {}
        BY <2>1
      <4>. QED
        BY <1>1, <4>1 DEF FreeOK, OnlySlot
    <3>. QED
      BY <1>2, <2>3, <3>1, <3>2
  <2>. HIDE DEF m, r
  <2>5. Gets(m, b, s, r) /\ b.backlog = m.backlog
    BY <1>1, <2>2, <2>3, <2>4, EnqueueRequestGets
  <2>6. e = [b EXCEPT !.backlog = Tail(@)]
    BY <1>1, <1>5, <1>7
  <2>7. b \in Clients
    <3>1. PICK k : k = Started(m, s, r)
      OBVIOUS
    <3>2. k \in Clients
      BY <1>1, <2>2, <2>3, <3>1, StartedFields
    <3>3. CASE k.credits > 0
      <4>1. b = kick_req(k, s, u)
        BY <2>3, <3>1, <3>3 DEF enqueue_request, Started
      <4>2. k.slot[s].req = r /\ k.slot[s].num_tx = 0
        BY <1>1, <2>2, <2>3, <3>1, StartedFields
      <4>3. k.slot[s].num_tx < ReqPkts[k.slot[s].req]
        BY <2>2, <4>2, Constants
      <4>. QED
        BY <2>2, <3>2, <4>1, <4>2, <4>3, KickReqSends DEF SendsReq, Sends
    <3>4. CASE ~(k.credits > 0)
      <4>1. b = [k EXCEPT !.stallq = Append(@, s)]
        BY <2>3, <3>1, <3>4 DEF enqueue_request, Started
      <4>2. Append(k.stallq, s) \in Seq(Slots)
        BY <3>2, ClientFields, AppendProperties
      <4>. QED
        BY <3>2, <4>1, <4>2 DEF Clients
    <3>. QED
      BY <3>3, <3>4
  <2>. HIDE DEF b, e
  <2>8. e.slot = b.slot /\ e.backlog = Tail(d.backlog)
    BY <1>1, <2>5, <2>6, <2>7 DEF Clients
  <2>9. Gets(m, e, s, r)
    BY <2>5, <2>8 DEF Gets, Begins, OtherRequests, OthersReceived
  <2>. QED
    BY <1>1, <1>2, <1>3, <1>4, <1>7, <2>8, <2>9 DEF e, m, r
<1>. QED
  BY <1>6, <1>7

(* A response that is complete is the whole one. *)
LEMMA CompleteIsFull ==
    ASSUME NEW c, NEW v, NEW n, Inv(c, v, n, {}), NEW p \in n, p.type = "kResp",
           in_order_client(c.slot[SlotOf(p)], p),
           RespComplete(TakeResp(c, SlotOf(p), p).slot[SlotOf(p)], p)
    PROVE  LET s == SlotOf(p)
               e == TakeResp(c, s, p)
               r == c.slot[s].req
           IN  /\ s \in Slots /\ r \in Requests /\ v.slot[s].resp = r
               /\ v.slot[s].req_num = c.slot[s].req_num
               /\ Takes(c, e, s) /\ e.slot[s].num_rx = Wire(r) /\ e.slot[s].num_tx = Wire(r)
               /\ e.slot[s].resp = Full(r)
<1>. DEFINE s == SlotOf(p)  d == Copied(c, s, p)  e == TakeResp(c, s, p)  r == c.slot[s].req
<1>1. ~ToServer(p)
  BY DEF ToServer
<1>2. s \in Slots /\ r \in Requests /\ v.slot[s].resp = r
  BY <1>1, InOrderFacts
<1>3. v.slot[s].req_num = c.slot[s].req_num
  BY <1>1, InOrderFacts
<1>4. e = d /\ e.slot[s].num_tx = e.slot[s].num_rx /\ e.slot[s].num_rx = Wire(r)
  BY TakeRespCases
<1>5. Takes(c, d, s)
  BY CopiedFacts
<1>6. d.slot[s].resp = [i \in 1..RespPkts[r] |->
                          IF i <= d.slot[s].num_rx - ReqPkts[r] + 1 THEN r ELSE None]
  BY CopiedFacts
<1>. HIDE DEF d, e, s
<1>7. \A i \in 1..RespPkts[r] : i <= Wire(r) - ReqPkts[r] + 1
  BY <1>2, Constants DEF Wire
<1>8. d.slot[s].resp = Full(r)
  BY <1>4, <1>6, <1>7 DEF Full
<1>. QED
  BY <1>2, <1>3, <1>4, <1>5, <1>8 DEF e, s

LEMMA ProcessRespHist ==
    ASSUME IInv, HistoryOK, HistInv, NEW p \in net, NEW u, ProcessResp(p, u)
    PROVE  HistInv'
<1>. DEFINE s == SlotOf(p)  d == TakeResp(cl, s, p)  e == FinishRequest(d, s, u)
            r == cl.slot[s].req  m == Freed(d, s)  h == [got EXCEPT ![r] = Append(@, Full(r))]
<1>1. /\ Inv(cl, sv, net, {}) /\ BacklogOK(cl) /\ cl \in Clients /\ FreeOK(cl)
      /\ Hist(cl, sv, issued, ran, got) /\ p.type = "kResp"
      /\ in_order_client(cl.slot[s], p) /\ UNCHANGED <<sv, issued, ran>>
  BY DEF IInv, Inv, HistInv, ProcessResp
<1>2. CASE ~RespComplete(d.slot[s], p)
  <2>1. Took(cl, d, s)
    BY <1>1, TakeRespTook
  <2>2. cl' = d /\ UNCHANGED got
    BY <1>2 DEF ProcessResp
  <2>. HIDE DEF d
  <2>. QED
    BY <1>1, <2>1, <2>2, QuietHist DEF Took
<1>3. CASE RespComplete(d.slot[s], p)
  <2>1. s \in Slots /\ r \in Requests /\ sv.slot[s].resp = r
    BY <1>1, <1>3, CompleteIsFull
  <2>2. sv.slot[s].req_num = cl.slot[s].req_num /\ Takes(cl, d, s)
    BY <1>1, <1>3, CompleteIsFull
  <2>3. d.slot[s].resp = Full(r)
    BY <1>1, <1>3, CompleteIsFull
  <2>4. cl' = e /\ got' = h
    BY <1>3, <2>3 DEF ProcessResp
  <2>. HIDE DEF d
  <2>5. /\ d \in Clients /\ d.slot[s].req = r /\ r # None /\ d.backlog = cl.backlog
        /\ d.slot[s].req_num = cl.slot[s].req_num /\ d.free = cl.free
    BY <2>1, <2>2, Constants DEF Takes, SameRequests, SameQueues
  <2>6. FreeOK(d) /\ BacklogOK(d)
    BY <1>1, <2>2, <2>5, FreeFrame DEF Takes, BacklogOK
  <2>7. m \in Clients /\ m.backlog = d.backlog /\ OnlySlot(d, m, s)
    BY <2>1, <2>5, <2>6, FinishGets
  <2>8. m.slot[s].req = None /\ m.slot[s].req_num = d.slot[s].req_num
    BY <2>1, <2>5, <2>6, FinishGets
  <2>9. d.backlog = <<>> => e = m
    BY <2>1, <2>5, <2>6, FinishGets
  <2>10. d.backlog # <<>> => Gets(m, e, s, Head(d.backlog)) /\ e.backlog = Tail(d.backlog)
    BY <2>1, <2>5, <2>6, FinishGets
  <2>. HIDE DEF m, e
  <2>11. OtherRequests(cl, m, s)
    BY <2>2, <2>7 DEF Takes, OnlySlot, OtherRequests
  <2>12. Hist(m, sv, issued, ran, h)
    <3>1. issued \in Nat /\ got \in [Requests -> Seq(Seq(Ids))]
      BY Constants DEF HistoryOK
    <3>2. h = [got EXCEPT ![r] = Append(@, Full(r))]
      OBVIOUS
    <3>. HIDE DEF h
    <3>. QED
      BY <1>1, <2>1, <2>5, <2>7, <2>8, <2>11, <3>1, <3>2, DoneHist
  <2>. HIDE DEF h
  <2>13. CASE d.backlog = <<>>
    BY <1>1, <2>4, <2>9, <2>12, <2>13, HistPrimed
  <2>14. CASE d.backlog # <<>>
    <3>. DEFINE q == d.backlog  x == Head(q)
    <3>1. q \in Seq(Requests) /\ m.backlog = q /\ e.backlog = Tail(q) /\ Begins(m, e, s, x)
      BY <2>5, <2>7, <2>10, <2>14, ClientFields DEF Gets
    <3>2. /\ 1 \in DOMAIN q /\ x = q[1] /\ x \in Requests
          /\ \A i \in DOMAIN Tail(q) : /\ i \in Nat /\ i + 1 \in DOMAIN q
                                       /\ Tail(q)[i] = q[i + 1] /\ i + 1 # 1
      BY <2>14, <3>1, TailEntries
    <3>. HIDE DEF q, x
    <3>3. /\ \A i, j \in DOMAIN q : q[i] = q[j] => i = j
          /\ \A i \in DOMAIN q, t \in Slots : q[i] # m.slot[t].req
          /\ \A i \in DOMAIN q : q[i] <= issued /\ ran[q[i]] = 0 /\ h[q[i]] = <<>>
      BY <2>12, <3>1 DEF Hist, WaitingOnce, WaitingOK
    <3>4. x <= issued /\ ran[x] = 0 /\ h[x] = <<>> /\ \A t \in Slots : m.slot[t].req # x
      BY <3>2, <3>3
    <3>5. WaitingOnce(e)
      <4>1. ASSUME NEW i \in DOMAIN Tail(q), NEW j \in DOMAIN Tail(q), Tail(q)[i] = Tail(q)[j]
            PROVE  i = j
        <5>1. i + 1 = j + 1
          BY <3>2, <3>3, <4>1
        <5>. QED
          BY <3>2, <5>1
      <4>2. ASSUME NEW i \in DOMAIN Tail(q), NEW t \in Slots
            PROVE  Tail(q)[i] # e.slot[t].req
        <5>1. CASE t = s
          <6>1. e.slot[t].req = q[1]
            BY <3>1, <3>2, <5>1 DEF Begins
          <6>. QED
            BY <3>2, <3>3, <6>1
        <5>2. CASE t # s
          BY <3>1, <3>2, <3>3, <5>2 DEF Begins, OtherRequests
        <5>. QED
          BY <5>1, <5>2
      <4>. QED
        BY <3>1, <4>1, <4>2 DEF WaitingOnce
    <3>6. WaitingOK(e, issued, ran, h)
      BY <3>1, <3>2, <3>3 DEF WaitingOK
    <3>7. FreshOK(issued, ran, h)
      BY <2>12 DEF Hist
    <3>8. issued \in Nat /\ issued <= issued /\ sv.slot[s].req_num = m.slot[s].req_num
      BY <2>2, <2>5, <2>8, Constants DEF HistoryOK
    <3>9. Hist(e, sv, issued, ran, h)
      BY <2>1, <2>7, <2>12, <3>1, <3>2, <3>4, <3>5, <3>6, <3>7, <3>8, BeginsHist
    <3>. QED
      BY <1>1, <2>4, <3>9, HistPrimed
  <2>. QED
    BY <2>13, <2>14
<1>. QED
  BY <1>2, <1>3

(* The server receives a packet of a request; the last one calls the       *)
(* handler, which was not called for this request before.                  *)
LEMMA ReceivedHist ==
    ASSUME IInv, HistoryOK, HistInv, NEW p \in net, p.type = "kReq",
           NextInOrder(sv.slot[SlotOf(p)], p), NEW w,
           w.slot[SlotOf(p)] = Received(sv.slot[SlotOf(p)], p),
           \A t \in Slots \ {SlotOf(p)} : w.slot[t] = sv.slot[t],
           sv' = w, UNCHANGED <<cl, issued, got>>,
           IF ReceivedNum(sv.slot[SlotOf(p)], p) = p.pkts
           THEN ran' = [ran EXCEPT ![p.data] = @ + 1] ELSE ran' = ran
    PROVE  HistInv'
<1>. DEFINE s == SlotOf(p)  cs == cl.slot[s]  vs == sv.slot[s]  new == Received(vs, p)
<1>1. /\ Inv(cl, sv, net, {}) /\ cl \in Clients /\ p \in Packets
      /\ Hist(cl, sv, issued, ran, got)
  BY DEF IInv, Inv, HistInv
<1>2. s \in Slots /\ p.data \in Requests /\ p.req_num \in Nat /\ vs.req_num \in Nat
  BY <1>1, ReqPktFacts, PacketFields, ServerFields DEF Inv
<1>3. ReceivedOK(cl, sv, p)
  BY <1>1, ReceivedFacts
<1>4. /\ new.req_num = p.req_num /\ new.resp = None
      /\ new.busy <=> ReceivedNum(vs, p) = p.pkts
  BY <1>3 DEF ReceivedOK
<1>5. cs.req_num = p.req_num /\ cs.req = p.data /\ vs.busy = FALSE
  BY <1>3 DEF ReceivedOK
<1>6. p.req_num = vs.req_num + Window \/ (p.req_num = vs.req_num /\ vs.resp = None)
  BY <1>3 DEF ReceivedOK
<1>7. ~Handled(cl, sv, s)
  BY <1>2, <1>5, <1>6, Constants DEF Handled
<1>. HIDE DEF new
<1>8. Handled(cl, w, s) <=> ReceivedNum(vs, p) = p.pkts
  <2>1. w.slot[s] = new
    BY DEF new
  <2>. QED
    BY <1>4, <1>5, <2>1 DEF Handled
<1>9. CASE ReceivedNum(vs, p) = p.pkts
  <2>1. issued \in Nat /\ ran \in [Requests -> Nat]
    BY Constants DEF HistoryOK
  <2>2. w.slot[s].resp = None
    BY <1>4 DEF new
  <2>. DEFINE f == [ran EXCEPT ![p.data] = @ + 1]
  <2>3. ran' = f /\ f = [ran EXCEPT ![p.data] = @ + 1]
    BY <1>9
  <2>. HIDE DEF f
  <2>4. Hist(cl, w, issued, f, got)
    BY <1>1, <1>2, <1>5, <1>7, <1>8, <1>9, <2>1, <2>2, <2>3, HandledHist
  <2>. QED
    BY <2>3, <2>4, HistPrimed
<1>10. CASE ReceivedNum(vs, p) # p.pkts
  <2>1. \A t \in Slots \ {s} : Handled(cl, w, t) <=> Handled(cl, sv, t)
    BY DEF Handled
  <2>2. w.slot[s].resp = None
    BY <1>4 DEF new
  <2>3. \A t \in Slots : /\ Handled(cl, w, t) <=> Handled(cl, sv, t)
                         /\ \/ w.slot[t].resp = None
                            \/ /\ w.slot[t].resp = sv.slot[t].resp
                               /\ w.slot[t].req_num = sv.slot[t].req_num
    BY <1>7, <1>8, <1>10, <2>1, <2>2
  <2>4. Hist(cl, w, issued, ran, got)
    BY <1>1, <2>3, ServerHist
  <2>. QED
    BY <1>10, <2>4, HistPrimed
<1>. QED
  BY <1>9, <1>10

(* The server's slots stay as they are. *)
LEMMA SameSlotsHist ==
    ASSUME HistInv, sv'.slot = sv.slot, UNCHANGED <<cl, issued, ran, got>>
    PROVE  HistInv'
<1>. DEFINE w == sv'
<1>1. w.slot = sv.slot /\ sv' = w
  OBVIOUS
<1>. HIDE DEF w
<1>2. \A t \in Slots : Handled(cl, w, t) <=> Handled(cl, sv, t)
  BY <1>1 DEF Handled
<1>3. Hist(cl, w, issued, ran, got)
  BY <1>1, <1>2, ServerHist DEF HistInv
<1>. QED
  BY <1>1, <1>3, HistPrimed

LEMMA ResendHist ==
    ASSUME IInv, HistInv, NEW sl, NEW i, Resend(sl, i)
    PROVE  HistInv'
<1>1. sv'.slot = sv.slot
  BY DEF IInv, Inv, Servers, Resend
<1>. QED
  BY <1>1, SameSlotsHist DEF Resend

(* What a step that receives a packet of a request does to the server. *)
LEMMA SmallReqReceives ==
    ASSUME IInv, NEW p \in net, ProcessSmallReq(p)
    PROVE  LET s == SlotOf(p)
               vs == sv.slot[s]
           IN  \/ p.req_num = vs.req_num /\ vs.resp # None /\ Resend(vs, 0)
               \/ /\ p.type = "kReq" /\ NextInOrder(vs, p)
                  /\ ReceivedNum(vs, p) = p.pkts
                  /\ sv' = [sv EXCEPT !.slot[s] = Received(vs, p), !.out = @ \cup {}]
                  /\ sv'.slot = [sv.slot EXCEPT ![s] = Received(vs, p)]
                  /\ ran' = [ran EXCEPT ![p.data] = @ + 1]
                  /\ UNCHANGED <<cl, net, issued, got>>
<1>. DEFINE s == SlotOf(p)  vs == sv.slot[s]
<1>1. Inv(cl, sv, net, {}) /\ p.type = "kReq" /\ p.pkts = 1 /\ sv \in Servers
  BY DEF IInv, Inv, ProcessSmallReq
<1>2. /\ p \in Packets /\ s \in Slots /\ p.pkt_num < p.pkts
      /\ p.req_num > vs.req_num => p.req_num = vs.req_num + Window
  BY <1>1, ReqPktFacts
<1>3. p.pkt_num = 0
  BY <1>1, <1>2, PacketFields
<1>4. CASE p.req_num > vs.req_num /\ CallHandler(s, FirstPacket(vs, p), {})
  <2>1. NextInOrder(vs, p)
    BY <1>2, <1>3, <1>4 DEF NextInOrder
  <2>2. Received(vs, p) = [FirstPacket(vs, p) EXCEPT !.busy = TRUE] /\ ReceivedNum(vs, p) = p.pkts
    BY <1>1, <1>3 DEF Received, ReceivedNum
  <2>3. FirstPacket(vs, p).body[1] = p.data
    <3>1. vs \in ServerSlots /\ 1 \in DOMAIN Blank(p.pkts)
      BY <1>1, <1>2, ServerFields DEF Blank
    <3>2. FirstPacket(vs, p).body = [Blank(p.pkts) EXCEPT ![1] = p.data]
      BY <3>1 DEF FirstPacket, ServerSlots
    <3>. QED
      BY <3>1, <3>2
  <2>4. /\ sv' = [sv EXCEPT !.slot[s] = Received(vs, p), !.out = @ \cup {}]
        /\ ran' = [ran EXCEPT ![p.data] = @ + 1]
        /\ UNCHANGED <<cl, net, issued, got>>
    BY <1>4, <2>2, <2>3 DEF CallHandler
  <2>5. sv'.slot = [sv.slot EXCEPT ![s] = Received(vs, p)]
    BY <1>1, <2>4 DEF Servers
  <2>. QED
    BY <1>1, <2>1, <2>2, <2>4, <2>5
<1>. QED
  BY <1>4 DEF ProcessSmallReq

LEMMA LargeReqReceives ==
    ASSUME IInv, NEW p \in net, ProcessLargeReq(p)
    PROVE  LET s == SlotOf(p)
               vs == sv.slot[s]
           IN  \/ p.req_num = vs.req_num /\ vs.resp # None /\ Resend(vs, 0)
               \/ /\ p.type = "kReq" /\ NextInOrder(vs, p)
                  /\ sv' = [sv EXCEPT !.slot[s] = Received(vs, p), !.out = @ \cup Reply(p)]
                  /\ sv'.slot = [sv.slot EXCEPT ![s] = Received(vs, p)]
                  /\ IF ReceivedNum(vs, p) = p.pkts
                     THEN ran' = [ran EXCEPT ![p.data] = @ + 1] ELSE ran' = ran
                  /\ UNCHANGED <<cl, net, issued, got>>
               \/ /\ p.req_num = vs.req_num
                  /\ sv' = [sv EXCEPT !.out = @ \cup Reply(p)]
                  /\ UNCHANGED <<cl, net, issued, ran, got>>
<1>. DEFINE s == SlotOf(p)  vs == sv.slot[s]
            next == IF p.pkt_num = 0 THEN FirstPacket(vs, p) ELSE NextPacket(vs, p)
<1>1. Inv(cl, sv, net, {}) /\ p.type = "kReq" /\ p.pkts > 1 /\ sv \in Servers
  BY DEF IInv, Inv, ProcessLargeReq
<1>2. p \in Packets /\ s \in Slots /\ vs \in ServerSlots
  BY <1>1, ReqPktFacts, ServerFields
<1>3. next.num_rx = ReceivedNum(vs, p) /\ next.busy = vs.busy
  BY <1>2 DEF ReceivedNum, FirstPacket, NextPacket, ServerSlots
<1>4. /\ next = [next EXCEPT !.busy = vs.busy]
      /\ Received(vs, p) = [next EXCEPT !.busy = (ReceivedNum(vs, p) = p.pkts)]
      /\ Received(vs, p).body = next.body
  <2>1. next = [next EXCEPT !.busy = vs.busy] /\ "body" \in DOMAIN next
    BY <1>2 DEF FirstPacket, NextPacket, ServerSlots
  <2>2. Received(vs, p) = [next EXCEPT !.busy = (ReceivedNum(vs, p) = p.pkts)]
    BY DEF Received
  <2>. HIDE DEF next
  <2>. QED
    BY <2>1, <2>2
<1>. HIDE DEF next
<1>5. CASE /\ NextInOrder(vs, p) /\ next.num_rx # p.pkts
           /\ sv' = [sv EXCEPT !.slot[s] = next, !.out = @ \cup Reply(p)]
           /\ UNCHANGED <<cl, net, issued, ran, got>>
  <2>1. ReceivedOK(cl, sv, p)
    BY <1>1, <1>5, ReceivedFacts
  <2>2. vs.busy = FALSE
    BY <2>1 DEF ReceivedOK
  <2>3. Received(vs, p) = next
    BY <1>3, <1>4, <1>5, <2>2
  <2>4. sv'.slot = [sv.slot EXCEPT ![s] = Received(vs, p)]
    BY <1>1, <1>5, <2>3 DEF Servers
  <2>. QED
    BY <1>1, <1>3, <1>5, <2>3, <2>4
<1>6. CASE NextInOrder(vs, p) /\ next.num_rx = p.pkts /\ CallHandler(s, next, Reply(p))
  <2>1. Received(vs, p) = [next EXCEPT !.busy = TRUE]
    BY <1>3, <1>4, <1>6
  <2>2. ReceivedOK(cl, sv, p)
    BY <1>1, <1>6, ReceivedFacts
  <2>3. next.body[1] = p.data
    BY <1>4, <2>2 DEF ReceivedOK
  <2>4. /\ sv' = [sv EXCEPT !.slot[s] = Received(vs, p), !.out = @ \cup Reply(p)]
        /\ ran' = [ran EXCEPT ![p.data] = @ + 1]
        /\ UNCHANGED <<cl, net, issued, got>>
    BY <1>6, <2>1, <2>3 DEF CallHandler
  <2>5. sv'.slot = [sv.slot EXCEPT ![s] = Received(vs, p)]
    BY <1>1, <2>4 DEF Servers
  <2>. QED
    BY <1>1, <1>3, <1>6, <2>4, <2>5
<1>7. CASE /\ PastPacket(vs, p) /\ sv' = [sv EXCEPT !.out = @ \cup Reply(p)]
           /\ UNCHANGED <<cl, net, issued, ran, got>>
  BY <1>7 DEF PastPacket
<1>8. CASE PastPacket(vs, p) /\ vs.resp # None /\ Resend(vs, 0)
  BY <1>8 DEF PastPacket
<1>. QED
  BY <1>5, <1>6, <1>7, <1>8 DEF ProcessLargeReq, Reply, next

(* What EnqueueResponse and ProcessRFR do to the server. *)
LEMMA ResponseSlot ==
    ASSUME IInv, NEW s \in Slots, EnqueueResponse(s)
    PROVE  LET cs == cl.slot[s]
               vs == sv.slot[s]
               new == Responded(vs)
           IN  /\ sv'.slot = [sv.slot EXCEPT ![s] = new]
               /\ sv'.out = sv.out \cup {RespPkt(new, 0)}
               /\ vs.busy /\ cs.req \in Requests /\ vs.req_num = cs.req_num
               /\ vs.body[1] = cs.req /\ Receiving(vs)
               /\ new.resp = cs.req /\ new.req_num = vs.req_num /\ new.num_rx = vs.num_rx
               /\ new.num_rx = ReqPkts[cs.req] /\ new.sav = ReqPkts[cs.req]
               /\ cs.num_rx < ReqPkts[cs.req]
<1>. DEFINE cs == cl.slot[s]  vs == sv.slot[s]  new == Responded(vs)
<1>1. /\ Inv(cl, sv, net, {}) /\ sv \in Servers /\ cl \in Clients /\ vs.busy /\ SlotsMatch(cs, vs)
      /\ ServerSlotOK(vs)
      /\ sv' = [sv EXCEPT !.slot[s] = new, !.out = @ \cup {RespPkt(new, 0)}]
  BY DEF IInv, Inv, SlotsOK, EnqueueResponse, Responded
<1>2. vs \in ServerSlots /\ cs.num_rx \in Nat /\ (cs.req # None => cs.req \in Requests)
  BY <1>1, ServerFields, ClientFields
<1>3. vs.req_num = cs.req_num /\ cs.req # None
  BY <1>1 DEF SlotsMatch
<1>4. Receiving(vs) /\ vs.num_rx = ReqPkts[vs.body[1]]
  BY <1>1, <1>2, RespondedFacts
<1>5. new.resp = vs.body[1] /\ new.req_num = vs.req_num /\ new.num_rx = vs.num_rx
  BY <1>1, <1>2, RespondedFacts
<1>6. new.sav = ReqPkts[new.resp]
  BY <1>1, <1>2, RespondedFacts
<1>. HIDE DEF new
<1>7. vs.body[1] = cs.req /\ vs.resp = None
  BY <1>1, <1>3, <1>4 DEF SlotsMatch, ReqOf, Receiving
<1>8. cs.num_rx < ReqPkts[cs.req]
  <2>1. ~(cs.num_rx >= ReqPkts[cs.req])
    BY <1>1, <1>3, <1>7 DEF SlotsMatch
  <2>. QED
    BY <1>2, <1>3, <2>1, Constants
<1>9. /\ sv'.slot = [sv.slot EXCEPT ![s] = new] /\ sv'.out = sv.out \cup {RespPkt(new, 0)}
  BY <1>1 DEF Servers
<1>. QED
  BY <1>1, <1>2, <1>3, <1>4, <1>5, <1>6, <1>7, <1>8, <1>9 DEF new

LEMMA RfrSlot ==
    ASSUME IInv, NEW p \in net, ProcessRFR(p)
    PROVE  LET s == SlotOf(p)
               vs == sv.slot[s]
               i == resp_ntoi(p.pkt_num, vs.sav)
               new == [vs EXCEPT !.num_rx = @ + 1]
           IN  /\ p.type = "kRFR" /\ p.req_num = vs.req_num
               /\ \/ /\ p.pkt_num = vs.num_rx
                     /\ sv'.slot = [sv.slot EXCEPT ![s] = new]
                     /\ sv'.out = sv.out \cup {RespPkt(vs, i)}
                     /\ new.num_rx = vs.num_rx + 1 /\ new.req_num = vs.req_num
                     /\ new.resp = vs.resp /\ new.busy = vs.busy /\ new.body = vs.body
                     /\ UNCHANGED <<cl, net, issued, ran, got>>
                  \/ p.pkt_num < vs.num_rx /\ Resend(vs, i)
<1>. DEFINE s == SlotOf(p)  vs == sv.slot[s]  i == resp_ntoi(p.pkt_num, vs.sav)
            new == [vs EXCEPT !.num_rx = @ + 1]  a == RespPkt(vs, i)
<1>1. sv \in Servers /\ p \in Packets /\ p.type = "kRFR" /\ p.req_num = vs.req_num
  BY DEF IInv, Inv, ProcessRFR
<1>2. s \in Slots
  BY <1>1, PacketFields
<1>3. vs \in ServerSlots
  BY <1>1, <1>2, ServerFields
<1>4. CASE /\ p.pkt_num = vs.num_rx
           /\ sv' = [sv EXCEPT !.slot[s].num_rx = @ + 1, !.out = @ \cup {a}]
           /\ UNCHANGED <<cl, net, issued, ran, got>>
  <2>. HIDE DEF a
  <2>1. sv'.slot = [sv.slot EXCEPT ![s] = new] /\ sv'.out = sv.out \cup {a}
    BY <1>1, <1>2, <1>4 DEF Servers
  <2>2. /\ new.num_rx = vs.num_rx + 1 /\ new.req_num = vs.req_num
        /\ new.resp = vs.resp /\ new.busy = vs.busy /\ new.body = vs.body
    BY <1>3 DEF ServerSlots
  <2>. HIDE DEF new
  <2>. QED
    BY <1>1, <1>4, <2>1, <2>2 DEF a, new
<1>5. CASE p.pkt_num < vs.num_rx /\ Resend(vs, i)
  BY <1>1, <1>5
<1>. QED
  BY <1>4, <1>5 DEF ProcessRFR

LEMMA EnqueueResponseHist ==
    ASSUME IInv, HistInv, NEW s \in Slots, EnqueueResponse(s)
    PROVE  HistInv'
<1>. DEFINE cs == cl.slot[s]  vs == sv.slot[s]  new == Responded(vs)  w == sv'
<1>1. w.slot = [sv.slot EXCEPT ![s] = new] /\ vs.busy /\ cs.req \in Requests
  BY ResponseSlot
<1>2. vs.req_num = cs.req_num /\ new.resp = cs.req /\ new.req_num = vs.req_num
  BY ResponseSlot
<1>3. sv' = w /\ UNCHANGED <<cl, issued, ran, got>> /\ Hist(cl, sv, issued, ran, got)
      /\ DOMAIN sv.slot = Slots
  BY DEF EnqueueResponse, HistInv, IInv, Inv, Servers
<1>. HIDE DEF new, w
<1>4. w.slot[s] = new /\ \A t \in Slots \ {s} : w.slot[t] = sv.slot[t]
  BY <1>1, <1>3
<1>5. Handled(cl, w, s) /\ Handled(cl, sv, s) /\ cs.req # None
  BY <1>1, <1>2, <1>4, Constants DEF Handled
<1>6. \A t \in Slots \ {s} : Handled(cl, w, t) <=> Handled(cl, sv, t)
  BY <1>4 DEF Handled
<1>7. Hist(cl, w, issued, ran, got)
  <2>1. \A t \in Slots : /\ Handled(cl, w, t) <=> Handled(cl, sv, t)
                         /\ \/ w.slot[t].resp = None
                            \/ cl.slot[t].req # None /\ w.slot[t].req_num = cl.slot[t].req_num
                            \/ /\ w.slot[t].resp = sv.slot[t].resp
                               /\ w.slot[t].req_num = sv.slot[t].req_num
    BY <1>2, <1>4, <1>5, <1>6
  <2>. QED
    BY <1>3, <2>1, ServerHist
<1>. QED
  BY <1>3, <1>7, HistPrimed

LEMMA ProcessRFRHist ==
    ASSUME IInv, HistInv, NEW p \in net, ProcessRFR(p)
    PROVE  HistInv'
<1>. DEFINE s == SlotOf(p)  vs == sv.slot[s]  i == resp_ntoi(p.pkt_num, vs.sav)
            new == [vs EXCEPT !.num_rx = @ + 1]  w == sv'
<1>1. CASE p.pkt_num < vs.num_rx /\ Resend(vs, i)
  BY <1>1, ResendHist
<1>2. CASE ~(p.pkt_num < vs.num_rx /\ Resend(vs, i))
  <2>1. w.slot = [sv.slot EXCEPT ![s] = new] /\ UNCHANGED <<cl, issued, ran, got>>
    BY <1>2, RfrSlot
  <2>2. new.req_num = vs.req_num /\ new.resp = vs.resp /\ new.busy = vs.busy
    BY <1>2, RfrSlot
  <2>3. sv' = w /\ Hist(cl, sv, issued, ran, got) /\ DOMAIN sv.slot = Slots
    BY DEF HistInv, IInv, Inv, Servers
  <2>. HIDE DEF new, w
  <2>4. \A t \in Slots : /\ w.slot[t].req_num = sv.slot[t].req_num
                         /\ w.slot[t].resp = sv.slot[t].resp
                         /\ w.slot[t].busy = sv.slot[t].busy
    BY <2>1, <2>2, <2>3
  <2>5. \A t \in Slots : Handled(cl, w, t) <=> Handled(cl, sv, t)
    BY <2>4 DEF Handled
  <2>6. Hist(cl, w, issued, ran, got)
    BY <2>3, <2>4, <2>5, ServerHist
  <2>. QED
    BY <2>1, <2>3, <2>6, HistPrimed
<1>. QED
  BY <1>1, <1>2

LEMMA ReqHist ==
    ASSUME IInv, HistoryOK, HistInv, NEW p \in net, ProcessSmallReq(p) \/ ProcessLargeReq(p)
    PROVE  HistInv'
<1>. DEFINE s == SlotOf(p)  vs == sv.slot[s]  w == sv'
<1>1. CASE Resend(vs, 0)
  BY <1>1, ResendHist
<1>2. CASE sv' = [sv EXCEPT !.out = @ \cup Reply(p)] /\ UNCHANGED <<cl, net, issued, ran, got>>
  <2>1. sv'.slot = sv.slot
    BY <1>2 DEF IInv, Inv, Servers
  <2>. QED
    BY <1>2, <2>1, SameSlotsHist
<1>3. CASE /\ p.type = "kReq" /\ NextInOrder(vs, p)
           /\ w.slot = [sv.slot EXCEPT ![s] = Received(vs, p)]
           /\ IF ReceivedNum(vs, p) = p.pkts
              THEN ran' = [ran EXCEPT ![p.data] = @ + 1] ELSE ran' = ran
           /\ UNCHANGED <<cl, net, issued, got>>
  <2>1. DOMAIN sv.slot = Slots /\ p \in Packets
    BY DEF IInv, Inv, Servers
  <2>2. s \in Slots
    BY <2>1, PacketFields
  <2>3. sv' = w
    OBVIOUS
  <2>. HIDE DEF w
  <2>4. w.slot[s] = Received(vs, p) /\ \A t \in Slots \ {s} : w.slot[t] = sv.slot[t]
    BY <1>3, <2>1, <2>2
  <2>. QED
    BY <1>3, <2>3, <2>4, ReceivedHist
<1>4. ASSUME ProcessSmallReq(p) PROVE HistInv'
  BY <1>1, <1>3, <1>4, SmallReqReceives
<1>5. ASSUME ProcessLargeReq(p) PROVE HistInv'
  BY <1>1, <1>2, <1>3, <1>5, LargeReqReceives
<1>. QED
  BY <1>4, <1>5

LEMMA HistStep ==
    ASSUME IInv, HistoryOK, HistInv, [Next]_vars
    PROVE  HistInv'
<1>1. ASSUME Quiet(cl, cl'), UNCHANGED <<sv, issued, ran, got>> PROVE HistInv'
  BY <1>1, QuietHist DEF Quiet
<1>2. ASSUME NEW u, ProcessStallQueue(u) PROVE HistInv'
  BY <1>1, <1>2, StallQueueQuiet DEF ProcessStallQueue
<1>3. ASSUME NEW s \in Slots, NEW u, PktLossRetransmit(s, u) PROVE HistInv'
  BY <1>1, <1>3, RetransmitQuiet DEF PktLossRetransmit, Drain
<1>4. ASSUME NEW s, NEW i, ProcessWheel(s, i) PROVE HistInv'
  BY <1>1, <1>4, WheelQuiet DEF ProcessWheel
<1>5. CASE ClientTx
  BY <1>1, <1>5, ClientTxQuiet DEF ClientTx, Drain
<1>6. ASSUME NEW p \in net, NEW u, ProcessExplCR(p, u) PROVE HistInv'
  <2>1. SameRequests(cl, cl') /\ cl'.backlog = cl.backlog
    BY <1>6, ExplCRTook DEF Quiet, Took
  <2>. QED
    BY <1>6, <2>1, QuietHist DEF ProcessExplCR
<1>7. CASE ServerTx
  <2>1. sv'.slot = sv.slot
    BY <1>7 DEF IInv, Inv, Servers, ServerTx
  <2>. QED
    BY <1>7, <2>1, SameSlotsHist DEF ServerTx
<1>8. ASSUME NEW p, Lose(p) PROVE HistInv'
  BY <1>8, SameSlotsHist DEF Lose
<1>9. CASE UNCHANGED vars
  BY <1>9, SameSlotsHist DEF vars
<1>10. ASSUME NEW p \in net, Deliver(p) PROVE HistInv'
  BY <1>6, <1>10, ProcessRespHist, ReqHist, ProcessRFRHist DEF Deliver
<1>. QED
  BY <1>2, <1>3, <1>4, <1>5, <1>7, <1>8, <1>9, <1>10, EnqueueRequestHist, EnqueueResponseHist
     DEF Next

LEMMA HistInit ==
    ASSUME Init
    PROVE  HistInv
<1>1. /\ \A s \in Slots : cl.slot[s].req = None /\ sv.slot[s].resp = None
      /\ cl.backlog = <<>> /\ issued = 0
      /\ \A r \in Requests : ran[r] = 0 /\ got[r] = <<>>
  BY DEF Init, ClientSlot, ServerSlot
<1>2. DOMAIN cl.backlog = {}
  BY <1>1
<1>3. ActiveOnce(cl) /\ WaitingOnce(cl) /\ FreshOK(issued, ran, got)
  BY <1>1, <1>2 DEF ActiveOnce, WaitingOnce, FreshOK
<1>4. WaitingOK(cl, issued, ran, got) /\ ActiveOK(cl, sv, issued, ran, got)
  BY <1>1, <1>2 DEF WaitingOK, ActiveOK
<1>5. OnceOK(ran, got) /\ KeptOK(cl, sv, got)
  BY <1>1 DEF OnceOK, KeptOK
<1>. QED
  BY <1>3, <1>4, <1>5 DEF HistInv, Hist

(* The endpoints, the packets and the histories together. *)
THEOREM HistoryInvariant == Spec => [](IInv /\ HistoryOK /\ HistInv)
<1>1. Init => HistInv
  BY HistInit
<1>2. IInv /\ HistoryOK /\ HistInv /\ [Next]_vars => HistInv'
  BY HistStep
<1>. QED
  BY <1>1, <1>2, Invariant, PTL DEF Spec

(* Every request is handled at most once, and its continuation is called   *)
(* at most once, with all packets of the response to that very request;    *)
(* the handler gets whole requests only (process_small_req_st,             *)
(* process_large_req_one_st, process_resp_one_st).                         *)
THEOREM AlwaysRightAnswers == Spec => []RightAnswers
<1>1. ASSUME IInv, HistInv PROVE RightAnswers
  <2>1. \A r \in Requests : ran[r] <= 1 /\ got[r] \in {<<>>, <<[i \in 1..RespPkts[r] |-> r]>>}
    BY <1>1 DEF HistInv, Hist, OnceOK, Full
  <2>2. ASSUME NEW s \in Slots, sv.slot[s].busy
        PROVE  LET b == sv.slot[s].body IN b = [i \in 1..ReqPkts[b[1]] |-> b[1]]
    <3>. DEFINE vs == sv.slot[s]  r == vs.body[1]
    <3>1. ServerSlotOK(vs)
      BY <1>1 DEF IInv, Inv, SlotsOK
    <3>2. Receiving(vs)
      BY <2>2, <3>1 DEF ServerSlotOK, Responding
    <3>3. /\ r \in Requests /\ vs.num_rx = ReqPkts[r]
          /\ vs.body = [i \in 1..ReqPkts[r] |-> IF i <= vs.num_rx THEN r ELSE None]
      BY <2>2, <3>2 DEF Receiving
    <3>4. \A i \in 1..ReqPkts[r] : i <= vs.num_rx
      BY <3>3, Constants
    <3>. QED
      BY <3>3, <3>4
  <2>. QED
    BY <2>1, <2>2 DEF RightAnswers
<1>. QED
  BY <1>1, HistoryInvariant, PTL
-----------------------------------------------------------------------------
(***************************************************************************)
(* The refinement of RpcService.  Every step leaves all requests at their  *)
(* stages or moves one of them to the next stage.                          *)
(***************************************************************************)
(* A response that the server has for a request that is not complete is in *)
(* the slot of the client that has the request.                            *)
LEMMA AnsweredIsActive ==
    ASSUME NEW c, NEW v, NEW i, NEW rn, NEW g, Hist(c, v, i, rn, g), NEW s \in Slots,
           v.slot[s].resp # None, g[v.slot[s].resp] = <<>>, SlotsMatch(c.slot[s], v.slot[s])
    PROVE  c.slot[s].req = v.slot[s].resp /\ v.slot[s].req_num = c.slot[s].req_num
<1>1. c.slot[s].req # None /\ v.slot[s].req_num = c.slot[s].req_num
  BY DEF Hist, KeptOK
<1>. QED
  BY <1>1 DEF SlotsMatch, ReqOf

(* One request moves. *)
LEMMA Moves ==
    ASSUME NEW r \in Requests, NEW from, NEW to,
           <<from, to>> \in {<<"new", "issued">>, <<"issued", "handled">>,
                             <<"handled", "answered">>, <<"answered", "done">>},
           Stage(r) = from, Stage(r)' = to,
           \A x \in Requests : x # r => Stage(x)' = Stage(x)
    PROVE  Service!Next
<1>1. Service!Move(r, from, to)
  BY DEF Service!Move
<1>. QED
  BY <1>1 DEF Service!Next

LEMMA StageStays ==
    ASSUME NEW r, got[r]' = got[r], ran[r]' = ran[r], (r <= issued)' <=> r <= issued,
           (\E s \in Slots : sv.slot[s].resp = r)' <=> \E s \in Slots : sv.slot[s].resp = r
    PROVE  Stage(r)' = Stage(r)
BY DEF Stage

(* Steps that no stage depends on. *)
LEMMA StagesStay ==
    ASSUME \A s \in Slots : sv'.slot[s].resp = sv.slot[s].resp, UNCHANGED <<issued, ran, got>>
    PROVE  UNCHANGED [r \in Requests |-> Stage(r)]
<1>1. ASSUME NEW r \in Requests PROVE Stage(r)' = Stage(r)
  BY StageStays
<1>. QED
  BY <1>1

LEMMA EnqueueRequestMoves ==
    ASSUME IInv, HistoryOK, HistInv, NEW u, EnqueueRequest(u)
    PROVE  Service!Next
<1>1. PICK r \in Requests : issued' = r /\ r = issued + 1
  BY Constants DEF HistoryOK, EnqueueRequest, Requests
<1>0. UNCHANGED <<sv, ran, got>> /\ issued \in Nat
  BY Constants DEF HistoryOK, EnqueueRequest
<1>2. Hist(cl, sv, issued, ran, got) /\ \A s \in Slots : SlotsMatch(cl.slot[s], sv.slot[s])
  BY DEF HistInv, IInv, Inv, SlotsOK
<1>3. r > issued /\ ~(r <= issued) /\ r <= r /\ r # None
  BY <1>0, <1>1, Constants
<1>4. ran[r] = 0 /\ got[r] = <<>>
  BY <1>1, <1>2, <1>3 DEF Hist, FreshOK
<1>5. ASSUME NEW s \in Slots, sv.slot[s].resp = r PROVE FALSE
  <2>1. cl.slot[s].req = r
    BY <1>2, <1>3, <1>4, <1>5, AnsweredIsActive
  <2>2. r <= issued
    BY <1>2, <1>3, <2>1 DEF Hist, ActiveOK
  <2>. QED
    BY <1>3, <2>2
<1>6. Stage(r) = "new"
  BY <1>3, <1>4, <1>5 DEF Stage
<1>7. Stage(r)' = "issued"
  BY <1>0, <1>1, <1>3, <1>4, <1>5 DEF Stage
<1>8. ASSUME NEW x \in Requests, x # r PROVE Stage(x)' = Stage(x)
  <2>1. (x <= issued)' <=> x <= issued
    BY <1>0, <1>1, <1>8 DEF Requests
  <2>. QED
    BY <1>0, <2>1, StageStays
<1>. QED
  BY <1>1, <1>6, <1>7, <1>8, Moves

LEMMA CompleteMoves ==
    ASSUME IInv, HistoryOK, HistInv, NEW p \in net, NEW u, ProcessResp(p, u)
    PROVE  Service!Next \/ UNCHANGED [r \in Requests |-> Stage(r)]
<1>. DEFINE s == SlotOf(p)  d == TakeResp(cl, s, p)
<1>1. /\ Inv(cl, sv, net, {}) /\ p.type = "kResp" /\ in_order_client(cl.slot[s], p)
      /\ UNCHANGED <<sv, issued, ran>> /\ Hist(cl, sv, issued, ran, got)
  BY DEF IInv, HistInv, ProcessResp
<1>2. CASE ~RespComplete(d.slot[s], p)
  BY <1>1, <1>2, StagesStay DEF ProcessResp
<1>3. CASE RespComplete(d.slot[s], p)
  <2>1. PICK r \in Requests : r = cl.slot[s].req
    BY <1>1, <1>3, CompleteIsFull
  <2>2. s \in Slots /\ sv.slot[s].resp = r
    BY <1>1, <1>3, <2>1, CompleteIsFull
  <2>3. d.slot[s].resp = Full(r)
    BY <1>1, <1>3, <2>1, CompleteIsFull
  <2>4. got' = [got EXCEPT ![r] = Append(@, Full(r))]
    BY <1>3, <2>1, <2>3 DEF ProcessResp
  <2>5. got[r] = <<>> /\ DOMAIN got = Requests
    BY <1>1, <2>1, <2>2, Constants DEF Hist, ActiveOK, HistoryOK
  <2>6. got'[r] = <<Full(r)>> /\ \A x \in Requests : x # r => got'[x] = got[x]
    BY <2>4, <2>5
  <2>7. Stage(r) = "answered"
    BY <2>2, <2>5 DEF Stage
  <2>8. Stage(r)' = "done"
    BY <2>6 DEF Stage
  <2>9. ASSUME NEW x \in Requests, x # r PROVE Stage(x)' = Stage(x)
    BY <1>1, <2>6, <2>9, StageStays
  <2>. QED
    BY <2>7, <2>8, <2>9, Moves
<1>. QED
  BY <1>2, <1>3

(* A packet of a request: the handler is called, or no request moves.  The *)
(* response that the slot buries was received.                             *)
LEMMA ReceivedMoves ==
    ASSUME IInv, HistoryOK, HistInv, NEW p \in net, p.type = "kReq",
           NextInOrder(sv.slot[SlotOf(p)], p),
           sv'.slot = [sv.slot EXCEPT ![SlotOf(p)] = Received(sv.slot[SlotOf(p)], p)],
           UNCHANGED <<cl, issued, got>>,
           IF ReceivedNum(sv.slot[SlotOf(p)], p) = p.pkts
           THEN ran' = [ran EXCEPT ![p.data] = @ + 1] ELSE ran' = ran
    PROVE  Service!Next \/ UNCHANGED [r \in Requests |-> Stage(r)]
<1>. DEFINE s == SlotOf(p)  cs == cl.slot[s]  vs == sv.slot[s]  new == Received(vs, p)
<1>1. /\ Inv(cl, sv, net, {}) /\ cl \in Clients /\ p \in Packets /\ DOMAIN sv.slot = Slots
      /\ Hist(cl, sv, issued, ran, got) /\ \A t \in Slots : SlotsMatch(cl.slot[t], sv.slot[t])
  BY DEF IInv, Inv, SlotsOK, HistInv, Servers
<1>2. s \in Slots /\ p.data \in Requests /\ p.req_num \in Nat /\ vs.req_num \in Nat
  BY <1>1, ReqPktFacts, PacketFields, ServerFields DEF Inv
<1>3. ReceivedOK(cl, sv, p)
  BY <1>1, ReceivedFacts
<1>4. new.resp = None
  BY <1>3 DEF ReceivedOK
<1>5. cs.req_num = p.req_num /\ cs.req = p.data /\ vs.busy = FALSE
  BY <1>3 DEF ReceivedOK
<1>6. p.req_num = vs.req_num + Window \/ (p.req_num = vs.req_num /\ vs.resp = None)
  BY <1>3 DEF ReceivedOK
<1>7. ~Handled(cl, sv, s)
  BY <1>2, <1>5, <1>6, Constants DEF Handled
<1>8. vs.resp # None => got[vs.resp] # <<>>
  <2>1. vs.resp # None => vs.req_num # cs.req_num
    BY <1>2, <1>5, <1>6, Constants
  <2>. QED
    BY <1>1, <1>2, <2>1 DEF Hist, KeptOK
<1>. HIDE DEF new
<1>9. sv'.slot[s] = new /\ \A t \in Slots \ {s} : sv'.slot[t] = sv.slot[t]
  BY <1>1, <1>2 DEF new
<1>10. ASSUME NEW x \in Requests, ran'[x] = ran[x] PROVE Stage(x)' = Stage(x)
  <2>1. CASE got[x] # <<>>
    BY <2>1 DEF Stage
  <2>2. CASE got[x] = <<>>
    <3>1. vs.resp # x /\ new.resp # x
      BY <1>4, <1>8, <2>2, Constants
    <3>2. (\E t \in Slots : sv.slot[t].resp = x)' <=> \E t \in Slots : sv.slot[t].resp = x
      BY <1>9, <3>1
    <3>. QED
      BY <1>10, <3>2, StageStays
  <2>. QED
    BY <2>1, <2>2
<1>11. CASE ReceivedNum(vs, p) # p.pkts
  <2>1. ran' = ran
    BY <1>11
  <2>. QED
    BY <1>10, <2>1
<1>12. CASE ReceivedNum(vs, p) = p.pkts
  <2>1. PICK r \in Requests : r = p.data
    BY <1>2
  <2>2. r # None /\ cs.req = r
    BY <1>5, <2>1, Constants
  <2>3. got[r] = <<>> /\ ran[r] = 0 /\ r <= issued
    BY <1>1, <1>2, <1>7, <2>2 DEF Hist, ActiveOK
  <2>4. ran' = [ran EXCEPT ![r] = @ + 1] /\ ran \in [Requests -> Nat]
    BY <1>12, <2>1 DEF HistoryOK
  <2>5. ran'[r] = 1 /\ \A x \in Requests : x # r => ran'[x] = ran[x]
    BY <2>3, <2>4
  <2>6. ASSUME NEW t \in Slots, sv.slot[t].resp = r PROVE FALSE
    <3>1. cl.slot[t].req = r /\ sv.slot[t].req_num = cl.slot[t].req_num
      BY <1>1, <2>2, <2>3, <2>6, AnsweredIsActive
    <3>2. t = s
      BY <1>1, <1>2, <2>2, <3>1 DEF Hist, ActiveOnce
    <3>. QED
      BY <1>7, <2>2, <2>6, <3>1, <3>2 DEF Handled
  <2>7. ASSUME NEW t \in Slots, sv'.slot[t].resp = r PROVE FALSE
    BY <1>4, <1>9, <2>2, <2>6, <2>7
  <2>8. Stage(r) = "issued"
    BY <2>3, <2>6 DEF Stage
  <2>9. Stage(r)' = "handled"
    BY <2>3, <2>5, <2>7 DEF Stage
  <2>10. ASSUME NEW x \in Requests, x # r PROVE Stage(x)' = Stage(x)
    BY <1>10, <2>5, <2>10
  <2>. QED
    BY <2>8, <2>9, <2>10, Moves
<1>. QED
  BY <1>11, <1>12

LEMMA EnqueueResponseMoves ==
    ASSUME IInv, HistInv, NEW s \in Slots, EnqueueResponse(s)
    PROVE  Service!Next
<1>. DEFINE cs == cl.slot[s]  vs == sv.slot[s]  new == Responded(vs)
<1>1. sv'.slot = [sv.slot EXCEPT ![s] = new] /\ vs.busy /\ cs.req \in Requests
  BY ResponseSlot
<1>2. vs.req_num = cs.req_num /\ new.resp = cs.req /\ Receiving(vs)
  BY ResponseSlot
<1>3. /\ UNCHANGED <<cl, issued, ran, got>> /\ DOMAIN sv.slot = Slots
      /\ Hist(cl, sv, issued, ran, got) /\ \A t \in Slots : SlotsMatch(cl.slot[t], sv.slot[t])
  BY DEF EnqueueResponse, HistInv, IInv, Inv, Servers, SlotsOK
<1>. HIDE DEF new
<1>4. PICK r \in Requests : r = cs.req
  BY <1>1
<1>5. r # None /\ vs.resp = None /\ new.resp = r
  BY <1>2, <1>4, Constants DEF Receiving
<1>6. sv'.slot[s] = new /\ \A t \in Slots \ {s} : sv'.slot[t] = sv.slot[t]
  BY <1>1, <1>3
<1>7. got[r] = <<>> /\ ran[r] = 1
  BY <1>1, <1>2, <1>3, <1>4, <1>5 DEF Hist, ActiveOK, Handled
<1>8. ASSUME NEW t \in Slots, sv.slot[t].resp = r PROVE FALSE
  <2>1. cl.slot[t].req = r
    BY <1>3, <1>5, <1>7, <1>8, AnsweredIsActive
  <2>2. t = s
    BY <1>3, <1>4, <1>5, <2>1 DEF Hist, ActiveOnce
  <2>. QED
    BY <1>5, <1>8, <2>2
<1>9. Stage(r) = "handled"
  BY <1>7, <1>8 DEF Stage
<1>10. Stage(r)' = "answered"
  BY <1>3, <1>5, <1>6, <1>7 DEF Stage
<1>11. ASSUME NEW x \in Requests, x # r PROVE Stage(x)' = Stage(x)
  <2>1. vs.resp # x /\ new.resp # x
    BY <1>5, <1>11, Constants
  <2>2. (\E t \in Slots : sv.slot[t].resp = x)' <=> \E t \in Slots : sv.slot[t].resp = x
    BY <1>6, <2>1
  <2>. QED
    BY <1>3, <2>2, StageStays
<1>. QED
  BY <1>9, <1>10, <1>11, Moves

ServiceMove == Service!Next \/ UNCHANGED [r \in Requests |-> Stage(r)]

LEMMA ServiceStep ==
    ASSUME IInv, HistoryOK, HistInv, [Next]_vars
    PROVE  ServiceMove
<1>1. ASSUME UNCHANGED <<sv, issued, ran, got>> PROVE ServiceMove
  BY <1>1, StagesStay DEF ServiceMove
<1>2. ASSUME sv'.slot = sv.slot, UNCHANGED <<issued, ran, got>> PROVE ServiceMove
  BY <1>2, StagesStay DEF ServiceMove
<1>3. sv \in Servers /\ DOMAIN sv.slot = Slots
  BY DEF IInv, Inv, Servers
<1>4. ASSUME NEW sl, NEW i, Resend(sl, i) PROVE ServiceMove
  <2>1. sv'.slot = sv.slot
    BY <1>3, <1>4 DEF Resend, Servers
  <2>. QED
    BY <1>2, <1>4, <2>1 DEF Resend
<1>5. ASSUME NEW p \in net, ProcessSmallReq(p) PROVE ServiceMove
  BY <1>4, <1>5, SmallReqReceives, ReceivedMoves DEF ServiceMove
<1>6. ASSUME NEW p \in net, ProcessLargeReq(p) PROVE ServiceMove
  <2>1. CASE /\ sv' = [sv EXCEPT !.out = @ \cup Reply(p)]
             /\ UNCHANGED <<cl, net, issued, ran, got>>
    <3>1. sv'.slot = sv.slot
      BY <1>3, <2>1 DEF Servers
    <3>. QED
      BY <1>2, <2>1, <3>1
  <2>. QED
    BY <1>4, <1>6, <2>1, LargeReqReceives, ReceivedMoves DEF ServiceMove
<1>7. ASSUME NEW p \in net, ProcessRFR(p) PROVE ServiceMove
  <2>. DEFINE s == SlotOf(p)  vs == sv.slot[s]  i == resp_ntoi(p.pkt_num, vs.sav)
              new == [vs EXCEPT !.num_rx = @ + 1]
  <2>1. CASE p.pkt_num < vs.num_rx /\ Resend(vs, i)
    BY <1>4, <2>1
  <2>2. CASE ~(p.pkt_num < vs.num_rx /\ Resend(vs, i))
    <3>1. sv'.slot = [sv.slot EXCEPT ![s] = new] /\ UNCHANGED <<cl, issued, ran, got>>
      BY <1>7, <2>2, RfrSlot
    <3>2. new.resp = vs.resp
      BY <1>7, <2>2, RfrSlot
    <3>. HIDE DEF new
    <3>3. \A t \in Slots : sv'.slot[t].resp = sv.slot[t].resp
      BY <1>3, <3>1, <3>2
    <3>. QED
      BY <3>1, <3>3, StagesStay DEF ServiceMove
  <2>. QED
    BY <2>1, <2>2
<1>8. ASSUME NEW p \in net, Deliver(p) PROVE ServiceMove
  <2>1. ASSUME NEW u, ProcessExplCR(p, u) PROVE ServiceMove
    BY <1>1, <2>1 DEF ProcessExplCR
  <2>2. ASSUME NEW u, ProcessResp(p, u) PROVE ServiceMove
    BY <2>2, CompleteMoves DEF ServiceMove
  <2>. QED
    BY <1>5, <1>6, <1>7, <1>8, <2>1, <2>2 DEF Deliver
<1>9. CASE ServerTx
  <2>1. sv'.slot = sv.slot
    BY <1>3, <1>9 DEF ServerTx, Servers
  <2>. QED
    BY <1>2, <1>9, <2>1 DEF ServerTx
<1>10. ASSUME NEW s \in Slots, NEW u, PktLossRetransmit(s, u) PROVE ServiceMove
  BY <1>1, <1>10 DEF PktLossRetransmit, Drain
<1>11. ASSUME NEW u, ProcessStallQueue(u) PROVE ServiceMove
  BY <1>1, <1>11 DEF ProcessStallQueue
<1>12. ASSUME NEW s, NEW i, ProcessWheel(s, i) PROVE ServiceMove
  BY <1>1, <1>12 DEF ProcessWheel
<1>13. ASSUME ClientTx \/ UNCHANGED vars \/ \E p : Lose(p) PROVE ServiceMove
  BY <1>1, <1>13 DEF ClientTx, Drain, vars, Lose
<1>14. ASSUME NEW u, EnqueueRequest(u) PROVE ServiceMove
  BY <1>14, EnqueueRequestMoves DEF ServiceMove
<1>15. ASSUME NEW s \in Slots, EnqueueResponse(s) PROVE ServiceMove
  BY <1>15, EnqueueResponseMoves DEF ServiceMove
<1>. QED
  BY <1>8, <1>9, <1>10, <1>11, <1>12, <1>13, <1>14, <1>15 DEF Next

(* Over a network that loses, duplicates and reorders packets a session is *)
(* still a remote procedure call: every request is handled once after it   *)
(* was issued, answered once after that and completed once after that.     *)
THEOREM DatapathImplementsService == Spec => ImplementsService
<1>1. Init => Service!Init
  <2>. SUFFICES ASSUME Init PROVE Service!Init
    OBVIOUS
  <2>1. ASSUME NEW r \in Requests PROVE Stage(r) = "new"
    <3>1. /\ \A s \in Slots : sv.slot[s].resp = None
          /\ issued = 0 /\ ran[r] = 0 /\ got[r] = <<>>
      BY DEF Init, ServerSlot
    <3>2. r # None /\ ~(r <= 0)
      BY Constants DEF Requests
    <3>. QED
      BY <3>1, <3>2 DEF Stage
  <2>. QED
    BY <2>1 DEF Service!Init
<1>2. IInv /\ HistoryOK /\ HistInv /\ [Next]_vars
        => [Service!Next]_([r \in Requests |-> Stage(r)])
  BY ServiceStep DEF ServiceMove
<1>. QED
  BY <1>1, <1>2, HistoryInvariant, PTL DEF Spec, ImplementsService, Service!Spec
-----------------------------------------------------------------------------
(***************************************************************************)
(* What the server has posted.                                             *)
(***************************************************************************)
(* What the parts of the invariant say of one response packet. *)
LEMMA PostedFacts ==
    ASSUME NEW c, NEW v, NEW n, Inv(c, v, n, {}), NEW p \in n \cup v.out, p.type = "kResp"
    PROVE  LET s == SlotOf(p)
               cs == c.slot[s]
               vs == v.slot[s]
           IN  /\ p \in Packets /\ s \in Slots /\ p.req_num <= vs.req_num
               /\ vs.req_num <= cs.req_num
               /\ p.req_num = vs.req_num =>
                     /\ vs.resp \in Requests /\ p.data = vs.resp /\ Responding(vs)
                     /\ p.pkt_num \in (ReqPkts[vs.resp] - 1) .. (Wire(vs.resp) - 1)
                     /\ p.pkt_num < vs.num_rx /\ vs.num_rx \in ReqPkts[vs.resp] .. Wire(vs.resp)
<1>. DEFINE s == SlotOf(p)  cs == c.slot[s]  vs == v.slot[s]
<1>1. p \in Packets /\ c \in Clients /\ v \in Servers
  BY DEF Inv, Servers
<1>2. s \in Slots /\ cs.req_num \in Nat /\ vs.req_num \in Nat
  BY <1>1, PacketFields, ClientFields, ServerFields
<1>3. PacketOK(p, cs, vs) /\ ServerSlotOK(vs) /\ SlotsMatch(cs, vs)
  BY <1>2 DEF Inv, PacketsOK, SlotsOK
<1>4. RespPktOK(p, vs) /\ p.req_num >= Window
  BY <1>3 DEF PacketOK
<1>5. vs.req_num <= cs.req_num
  BY <1>2, <1>3, Constants DEF SlotsMatch
<1>6. ASSUME p.req_num = vs.req_num PROVE Responding(vs)
  BY <1>2, <1>3, <1>4, <1>6, Constants DEF ServerSlotOK, RespPktOK, Receiving
<1>. QED
  BY <1>1, <1>2, <1>4, <1>5, <1>6 DEF RespPktOK, Responding

(* Requests and receptions stay; no response packet is added to the wire. *)
LEMMA QuietPosted ==
    ASSUME NEW c, NEW d, NEW v, NEW n, NEW m, Inv(c, v, n, {}), Posted(c, v, n),
           SameRequests(c, d), SameReceived(c, d), \A p \in m : p.type = "kResp" => p \in n
    PROVE  Posted(d, v, m)
<1>1. \A s \in Slots : ReceivedSent(d.slot[s], v.slot[s])
  BY DEF Posted, ReceivedSent, SameRequests, SameReceived
<1>2. ASSUME NEW p \in v.out, p.type = "kResp"
      PROVE  PostedResp(p, d.slot[SlotOf(p)], v.slot[SlotOf(p)], m)
  <2>1. SlotOf(p) \in Slots
    BY <1>2, PostedFacts
  <2>2. PostedResp(p, c.slot[SlotOf(p)], v.slot[SlotOf(p)], n)
    BY <1>2 DEF Posted
  <2>. QED
    BY <1>2, <2>1, <2>2 DEF PostedResp, SameRequests, SameReceived
<1>. QED
  BY <1>1, <1>2 DEF Posted

(* An answer is taken. *)
LEMMA TookPosted ==
    ASSUME NEW c, NEW d, NEW v, NEW n, Inv(c, v, n, {}), Posted(c, v, n),
           NEW p \in n, ~ToServer(p), in_order_client(c.slot[SlotOf(p)], p),
           Took(c, d, SlotOf(p))
    PROVE  Posted(d, v, n)
<1>. DEFINE s == SlotOf(p)  cs == c.slot[s]  vs == v.slot[s]
<1>1. p \in Packets /\ c \in Clients /\ v \in Servers
  BY DEF Inv
<1>2. /\ s \in Slots /\ cs.req_num \in Nat /\ vs.req_num \in Nat /\ cs.num_rx \in Nat
      /\ vs.num_rx \in Nat /\ p.pkt_num \in Nat /\ p.type \in {"kExplCR", "kResp"}
  BY <1>1, PacketFields, ClientFields, ServerFields DEF ToServer
<1>3. PacketOK(p, cs, vs) /\ ServerSlotOK(vs) /\ SlotsMatch(cs, vs)
  BY <1>2 DEF Inv, PacketsOK, SlotsOK
<1>4. p.req_num = cs.req_num /\ p.pkt_num = cs.num_rx
  BY DEF in_order_client
<1>5. vs.req_num = p.req_num /\ p.req_num >= Window
  BY <1>2, <1>3, <1>4, Constants
     DEF PacketOK, CreditReturnOK, RespPktOK, SlotsMatch
<1>6. /\ \A t \in Slots \ {s} : /\ d.slot[t].req = c.slot[t].req
                                /\ d.slot[t].req_num = c.slot[t].req_num
                                /\ d.slot[t].num_rx = c.slot[t].num_rx
      /\ d.slot[s].req = cs.req /\ d.slot[s].req_num = cs.req_num
      /\ d.slot[s].num_rx = cs.num_rx + 1
  BY <1>2 DEF Took, SameRequests, OthersReceived
<1>7. ASSUME vs.resp # None
      PROVE  /\ vs.resp \in Requests /\ vs.num_rx \in ReqPkts[vs.resp] .. Wire(vs.resp)
             /\ p.type = "kExplCR" => cs.num_rx < ReqPkts[vs.resp] - 1
             /\ p.type = "kResp" => cs.num_rx < vs.num_rx
  <2>1. Responding(vs)
    BY <1>2, <1>3, <1>5, <1>7, Constants DEF ServerSlotOK, Receiving
  <2>2. p.type = "kExplCR" => p.pkt_num < ReqPkts[ReqOf(vs)] - 1
    BY <1>3, <1>5 DEF PacketOK, CreditReturnOK
  <2>3. p.type = "kResp" => p.pkt_num < vs.num_rx
    BY <1>3, <1>5 DEF PacketOK, RespPktOK
  <2>. QED
    BY <1>4, <1>7, <2>1, <2>2, <2>3 DEF Responding, ReqOf
<1>8. ASSUME NEW t \in Slots PROVE ReceivedSent(d.slot[t], v.slot[t])
  <2>1. ReceivedSent(c.slot[t], v.slot[t])
    BY DEF Posted
  <2>2. CASE t # s
    BY <1>6, <2>1, <2>2 DEF ReceivedSent
  <2>3. CASE t = s /\ vs.resp # None
    <3>1. cs.num_rx + 1 <= vs.num_rx
      BY <1>2, <1>7, <2>3, Constants
    <3>. QED
      BY <1>6, <2>1, <2>3, <3>1 DEF ReceivedSent
  <2>4. CASE t = s /\ vs.resp = None
    BY <2>4 DEF ReceivedSent
  <2>. QED
    BY <2>2, <2>3, <2>4
<1>9. ASSUME NEW q \in v.out, q.type = "kResp"
      PROVE  PostedResp(q, d.slot[SlotOf(q)], v.slot[SlotOf(q)], n)
  <2>1. PostedResp(q, c.slot[SlotOf(q)], v.slot[SlotOf(q)], n)
    BY <1>9 DEF Posted
  <2>2. SlotOf(q) \in Slots /\ q \in Packets /\ q.pkt_num \in Nat
    BY <1>9, PostedFacts, PacketFields
  <2>3. CASE SlotOf(q) # s
    BY <1>6, <2>1, <2>2, <2>3 DEF PostedResp
  <2>4. CASE SlotOf(q) = s
    <3>1. /\ q.req_num = vs.req_num /\ cs.num_rx <= q.pkt_num /\ q \notin n
      BY <2>1, <2>4 DEF PostedResp
    <3>2. /\ vs.resp # None /\ q.data = vs.resp /\ q.pkt_num >= ReqPkts[vs.resp] - 1
          /\ q.pkts = RespPkts[vs.resp]
      <4>1. PacketOK(q, cs, vs)
        BY <2>2, <2>4 DEF Inv, PacketsOK
      <4>2. RespPktOK(q, vs)
        BY <4>1, <1>9 DEF PacketOK
      <4>. QED
        BY <3>1, <4>2, <1>7 DEF RespPktOK
    <3>3. q.pkt_num # cs.num_rx
      <4>1. CASE p.type = "kExplCR"
        BY <1>2, <1>7, <2>2, <3>2, <4>1, Constants
      <4>2. CASE p.type = "kResp"
        <5>1. p.data = vs.resp /\ p.pkts = RespPkts[vs.resp]
          BY <1>3, <1>5, <4>2 DEF PacketOK, RespPktOK
        <5>2. ASSUME q.pkt_num = cs.num_rx PROVE p = q
          BY <1>1, <1>4, <1>5, <1>9, <2>2, <3>1, <3>2, <4>2, <5>1, <5>2 DEF Packets
        <5>. QED
          BY <3>1, <5>2
      <4>. QED
        BY <1>2, <4>1, <4>2
    <3>4. cs.num_rx + 1 <= q.pkt_num
      BY <1>2, <2>2, <3>1, <3>3
    <3>. QED
      BY <1>6, <2>1, <2>4, <3>4 DEF PostedResp
  <2>. QED
    BY <2>3, <2>4
<1>. QED
  BY <1>8, <1>9 DEF Posted

(* A free slot gets a request. *)
LEMMA GetsPosted ==
    ASSUME NEW c, NEW d, NEW v, NEW n, v \in Servers, Posted(c, v, n),
           NEW s \in Slots, NEW r \in Requests, Gets(c, d, s, r),
           c.slot[s].req_num \in Nat, v.slot[s].req_num = c.slot[s].req_num
    PROVE  Posted(d, v, n)
<1>1. /\ c.slot[s].req = None
      /\ d.slot[s].req = r /\ d.slot[s].req_num = c.slot[s].req_num + Window
      /\ \A t \in Slots \ {s} : /\ d.slot[t].req = c.slot[t].req
                                /\ d.slot[t].req_num = c.slot[t].req_num
                                /\ d.slot[t].num_rx = c.slot[t].num_rx
  BY DEF Gets, Begins, OtherRequests, OthersReceived
<1>3. v.slot[s].req_num # d.slot[s].req_num
  BY <1>1, Constants
<1>4. ASSUME NEW t \in Slots PROVE ReceivedSent(d.slot[t], v.slot[t])
  <2>1. ReceivedSent(c.slot[t], v.slot[t])
    BY DEF Posted
  <2>. QED
    BY <1>1, <1>3, <2>1 DEF ReceivedSent
<1>5. ASSUME NEW q \in v.out, q.type = "kResp"
      PROVE  PostedResp(q, d.slot[SlotOf(q)], v.slot[SlotOf(q)], n)
  <2>1. PostedResp(q, c.slot[SlotOf(q)], v.slot[SlotOf(q)], n)
    BY <1>5 DEF Posted
  <2>2. SlotOf(q) \in Slots
    BY PacketFields DEF Servers
  <2>3. SlotOf(q) # s
    BY <1>1, <2>1 DEF PostedResp
  <2>. QED
    BY <1>1, <2>1, <2>2, <2>3 DEF PostedResp
<1>. QED
  BY <1>4, <1>5 DEF Posted

(* A slot is freed when all of the response is there. *)
LEMMA FreedPosted ==
    ASSUME NEW c, NEW d, NEW v, NEW n, v \in Servers, n \in SUBSET Packets,
           \A q \in v.out : PacketOK(q, c.slot[SlotOf(q)], v.slot[SlotOf(q)]),
           Posted(c, v, n), NEW s \in Slots, v.slot[s].resp # None, Responding(v.slot[s]),
           v.slot[s].req_num = c.slot[s].req_num, c.slot[s].num_rx = Wire(v.slot[s].resp),
           OnlySlot(c, d, s), d.slot[s].req = None, d.slot[s].req_num = c.slot[s].req_num,
           d.slot[s].num_rx = c.slot[s].num_rx
    PROVE  Posted(d, v, n)
<1>1. Wire(v.slot[s].resp) \in Nat /\ v.slot[s].num_rx \in Nat
  BY Constants, ServerFields DEF Wire, Responding
<1>2. v.slot[s].num_rx = Wire(v.slot[s].resp)
  BY <1>1 DEF Posted, ReceivedSent, Responding
<1>3. ASSUME NEW t \in Slots PROVE ReceivedSent(d.slot[t], v.slot[t])
  <2>1. ReceivedSent(c.slot[t], v.slot[t])
    BY DEF Posted
  <2>. QED
    BY <1>1, <1>2, <2>1 DEF ReceivedSent, OnlySlot
<1>4. ASSUME NEW q \in v.out, q.type = "kResp"
      PROVE  PostedResp(q, d.slot[SlotOf(q)], v.slot[SlotOf(q)], n)
  <2>1. PostedResp(q, c.slot[SlotOf(q)], v.slot[SlotOf(q)], n)
    BY <1>4 DEF Posted
  <2>2. q \in Packets
    BY DEF Servers
  <2>3. SlotOf(q) \in Slots /\ q.pkt_num \in Nat
    BY <2>2, PacketFields
  <2>4. SlotOf(q) # s
    <3>. SUFFICES ASSUME SlotOf(q) = s PROVE FALSE
      OBVIOUS
    <3>1. PacketOK(q, c.slot[s], v.slot[s])
      OBVIOUS
    <3>2. RespPktOK(q, v.slot[s]) /\ PostedResp(q, c.slot[s], v.slot[s], n)
      BY <1>4, <2>1, <3>1 DEF PacketOK
    <3>. QED
      BY <1>1, <2>3, <3>2 DEF RespPktOK, PostedResp
  <2>. QED
    BY <2>1, <2>3, <2>4 DEF PostedResp, OnlySlot
<1>. QED
  BY <1>3, <1>4 DEF Posted

(* The server posts no response, and sends nothing or everything. *)
LEMMA OutPosted ==
    ASSUME NEW c, NEW v, NEW w, NEW n, Posted(c, v, n), w.slot = v.slot,
           \A q \in w.out : q.type = "kResp" => q \in v.out
    PROVE  Posted(c, w, n)
BY DEF Posted

LEMMA DrainedPosted ==
    ASSUME NEW c, NEW v, NEW w, NEW n, NEW m, Posted(c, v, n), w.slot = v.slot, w.out = {}
    PROVE  Posted(c, w, m)
BY DEF Posted

(* It receives a request packet. *)
LEMMA ReceivedPosted ==
    ASSUME NEW c, NEW v, NEW w, NEW n, Inv(c, v, n, {}), Posted(c, v, n), NEW p \in n,
           p.type = "kReq", NextInOrder(v.slot[SlotOf(p)], p),
           w.slot[SlotOf(p)] = Received(v.slot[SlotOf(p)], p),
           \A t \in Slots \ {SlotOf(p)} : w.slot[t] = v.slot[t],
           \A q \in w.out : q.type = "kResp" => q \in v.out
    PROVE  Posted(c, w, n)
<1>. DEFINE s == SlotOf(p)  cs == c.slot[s]  vs == v.slot[s]  new == Received(vs, p)
<1>1. s \in Slots /\ vs.req_num \in Nat
  BY PacketFields, ServerFields DEF Inv
<1>2. /\ new.resp = None /\ cs.req_num = p.req_num
      /\ p.req_num = vs.req_num + Window \/ vs.resp = None
  <2>1. ReceivedOK(c, v, p)
    BY ReceivedFacts
  <2>. QED
    BY <2>1 DEF ReceivedOK
<1>. HIDE DEF new
<1>3. ASSUME NEW t \in Slots PROVE ReceivedSent(c.slot[t], w.slot[t])
  <2>1. ReceivedSent(c.slot[t], v.slot[t])
    BY DEF Posted
  <2>2. w.slot[s].resp = None
    BY <1>2 DEF new
  <2>. QED
    BY <2>1, <2>2 DEF ReceivedSent
<1>4. ASSUME NEW q \in w.out, q.type = "kResp"
      PROVE  PostedResp(q, c.slot[SlotOf(q)], w.slot[SlotOf(q)], n)
  <2>1. q \in v.out
    BY <1>4
  <2>2. PostedResp(q, c.slot[SlotOf(q)], v.slot[SlotOf(q)], n)
    BY <1>4, <2>1 DEF Posted
  <2>3. SlotOf(q) \in Slots
    BY <1>4, <2>1, PostedFacts
  <2>4. SlotOf(q) # s
    <3>. SUFFICES ASSUME SlotOf(q) = s PROVE FALSE
      OBVIOUS
    <3>1. q.req_num = vs.req_num /\ q.req_num = cs.req_num
      BY <2>2 DEF PostedResp
    <3>2. vs.resp \in Requests
      BY <1>4, <2>1, <3>1, PostedFacts
    <3>. QED
      BY <1>1, <1>2, <3>1, <3>2, Constants
  <2>. QED
    BY <2>2, <2>3, <2>4
<1>. QED
  BY <1>3, <1>4 DEF Posted

(* It posts a response packet that it has not sent before. *)
LEMMA RespondedPosted ==
    ASSUME NEW c, NEW v, NEW w, NEW n, Inv(c, v, n, {}), Posted(c, v, n), NEW s \in Slots,
           \A t \in Slots \ {s} : w.slot[t] = v.slot[t],
           w.slot[s].req_num = v.slot[s].req_num, ReceivedSent(c.slot[s], w.slot[s]),
           NEW p, SlotOf(p) = s, w.out = v.out \cup {p}, PostedResp(p, c.slot[s], w.slot[s], n)
    PROVE  Posted(c, w, n)
<1>1. ASSUME NEW t \in Slots PROVE ReceivedSent(c.slot[t], w.slot[t])
  BY DEF Posted
<1>2. ASSUME NEW q \in v.out, q.type = "kResp"
      PROVE  PostedResp(q, c.slot[SlotOf(q)], w.slot[SlotOf(q)], n)
  <2>1. PostedResp(q, c.slot[SlotOf(q)], v.slot[SlotOf(q)], n)
    BY <1>2 DEF Posted
  <2>2. SlotOf(q) \in Slots
    BY <1>2, PostedFacts
  <2>. QED
    BY <2>1, <2>2 DEF PostedResp
<1>. QED
  BY <1>1, <1>2 DEF Posted

LEMMA PostedPrimed ==
    ASSUME NEW c, NEW v, NEW n, cl' = c, sv' = v, net' = n, Posted(c, v, n)
    PROVE  PostedInv'
BY DEF PostedInv

LEMMA ResendPosted ==
    ASSUME IInv, PostedInv, NEW sl, NEW i, Resend(sl, i)
    PROVE  PostedInv'
<1>. DEFINE w == [sv EXCEPT !.out = {}]  m == net \cup sv.out \cup {RespPkt(sl, i)}
<1>1. sv' = w /\ net' = m /\ UNCHANGED cl /\ sv \in Servers
  BY DEF Resend, IInv, Inv
<1>2. w.slot = sv.slot /\ w.out = {}
  BY <1>1 DEF Servers
<1>. HIDE DEF w, m
<1>3. Posted(cl, w, m)
  BY <1>2, DrainedPosted DEF PostedInv
<1>. QED
  BY <1>1, <1>3, PostedPrimed

LEMMA EnqueueRequestPosted ==
    ASSUME IInv, HistoryOK, PostedInv, NEW u, EnqueueRequest(u)
    PROVE  PostedInv'
<1>. DEFINE r == issued + 1  d == enqueue_request(cl, r, u)  s == cl.free[Len(cl.free)]
<1>1. /\ Inv(cl, sv, net, {}) /\ cl \in Clients /\ sv \in Servers /\ FreeOK(cl)
      /\ SlotsOK(cl, sv) /\ Posted(cl, sv, net) /\ cl' = d /\ UNCHANGED <<sv, net>>
  BY DEF IInv, Inv, PostedInv, EnqueueRequest
<1>2. r \in Requests
  BY Constants DEF HistoryOK, EnqueueRequest, Requests
<1>3. CASE cl.free = <<>>
  <2>1. d.slot = cl.slot
    BY <1>1, <1>2, <1>3, EnqueueRequestInv
  <2>. HIDE DEF d
  <2>2. SameRequests(cl, d) /\ SameReceived(cl, d)
    BY <2>1 DEF SameRequests, SameReceived
  <2>3. Posted(d, sv, net)
    BY <1>1, <2>2, QuietPosted
  <2>. QED
    BY <1>1, <2>3, PostedPrimed
<1>4. CASE cl.free # <<>>
  <2>1. \A t \in Slots : cl.slot[t].req = None <=> \E i \in DOMAIN cl.free : cl.free[i] = t
    BY <1>1 DEF FreeOK
  <2>2. s \in Slots /\ Gets(cl, d, s, r)
    BY <1>1, <1>2, <1>4, <2>1, EnqueueRequestGets
  <2>. HIDE DEF d, s, r
  <2>3. cl.slot[s].req_num \in Nat /\ sv.slot[s].req_num = cl.slot[s].req_num
    BY <1>1, <2>2, ClientFields DEF Gets, Begins, SlotsOK, SlotsMatch
  <2>4. Posted(d, sv, net)
    BY <1>1, <1>2, <2>2, <2>3, GetsPosted
  <2>. QED
    BY <1>1, <2>4, PostedPrimed
<1>. QED
  BY <1>3, <1>4

LEMMA ProcessRespPosted ==
    ASSUME IInv, PostedInv, NEW p \in net, NEW u, ProcessResp(p, u)
    PROVE  PostedInv'
<1>. DEFINE s == SlotOf(p)  d == TakeResp(cl, s, p)  e == FinishRequest(d, s, u)
            r == cl.slot[s].req  m == Freed(d, s)
<1>1. /\ Inv(cl, sv, net, {}) /\ BacklogOK(cl) /\ cl \in Clients /\ FreeOK(cl)
      /\ sv \in Servers /\ net \in SUBSET Packets
      /\ Posted(cl, sv, net) /\ p.type = "kResp"
      /\ in_order_client(cl.slot[s], p) /\ UNCHANGED <<sv, net>>
  BY DEF IInv, Inv, PostedInv, ProcessResp
<1>2. Took(cl, d, s)
  BY <1>1, TakeRespTook
<1>3. Posted(d, sv, net)
  <2>1. ~ToServer(p)
    BY <1>1 DEF ToServer
  <2>. HIDE DEF d
  <2>. QED
    BY <1>1, <1>2, <2>1, TookPosted
<1>4. CASE ~RespComplete(d.slot[s], p)
  <2>1. cl' = d
    BY <1>4 DEF ProcessResp
  <2>. HIDE DEF d
  <2>. QED
    BY <1>1, <1>3, <2>1, PostedPrimed
<1>5. CASE RespComplete(d.slot[s], p)
  <2>1. s \in Slots /\ r \in Requests /\ sv.slot[s].resp = r
    BY <1>1, <1>5, CompleteIsFull
  <2>2. sv.slot[s].req_num = cl.slot[s].req_num /\ Takes(cl, d, s)
    BY <1>1, <1>5, CompleteIsFull
  <2>3. d.slot[s].num_rx = Wire(r)
    BY <1>1, <1>5, CompleteIsFull
  <2>4. cl' = e
    BY <1>5 DEF ProcessResp
  <2>. HIDE DEF d
  <2>5. /\ d \in Clients /\ d.slot[s].req = r /\ r # None /\ d.backlog = cl.backlog
        /\ d.slot[s].req_num = cl.slot[s].req_num /\ d.free = cl.free
    BY <2>1, <2>2, Constants DEF Takes, SameRequests, SameQueues
  <2>6. FreeOK(d) /\ BacklogOK(d)
    BY <1>1, <2>2, <2>5, FreeFrame DEF Takes, BacklogOK
  <2>7. m \in Clients /\ m.backlog = d.backlog /\ OnlySlot(d, m, s)
    BY <2>1, <2>5, <2>6, FinishGets
  <2>8. m.slot[s].req = None /\ m.slot[s].req_num = d.slot[s].req_num
    BY <2>1, <2>5, <2>6, FinishGets
  <2>9. m.slot[s].num_rx = d.slot[s].num_rx
    BY <2>1, <2>5, <2>6, FinishGets
  <2>10. d.backlog = <<>> => e = m
    BY <2>1, <2>5, <2>6, FinishGets
  <2>11. d.backlog # <<>> => Gets(m, e, s, Head(d.backlog))
    BY <2>1, <2>5, <2>6, FinishGets
  <2>. HIDE DEF m, e
  <2>12. Responding(sv.slot[s])
    <3>1. ServerSlotOK(sv.slot[s]) /\ sv.slot[s].resp # None
      BY <1>1, <2>1, Constants DEF Inv, SlotsOK
    <3>. QED
      BY <3>1 DEF ServerSlotOK, Receiving
  <2>13. \A q \in sv.out : PacketOK(q, d.slot[SlotOf(q)], sv.slot[SlotOf(q)])
    <3>. SUFFICES ASSUME NEW q \in sv.out
                  PROVE  PacketOK(q, d.slot[SlotOf(q)], sv.slot[SlotOf(q)])
      OBVIOUS
    <3>1. PacketOK(q, cl.slot[SlotOf(q)], sv.slot[SlotOf(q)]) /\ ~ToServer(q)
      BY <1>1 DEF Inv, PacketsOK, WaysOK
    <3>. QED
      BY <3>1 DEF PacketOK, ToServer
  <2>14. Posted(m, sv, net)
    <3>1. sv.slot[s].resp # None /\ sv.slot[s].req_num = d.slot[s].req_num
          /\ d.slot[s].num_rx = Wire(sv.slot[s].resp)
      BY <2>1, <2>2, <2>3, <2>5, Constants
    <3>. QED
      BY <1>1, <1>3, <2>1, <2>7, <2>8, <2>9, <2>12, <2>13, <3>1, FreedPosted
  <2>15. CASE d.backlog = <<>>
    BY <1>1, <2>4, <2>10, <2>14, <2>15, PostedPrimed
  <2>16. CASE d.backlog # <<>>
    <3>1. Head(d.backlog) \in Requests
      BY <2>5, <2>16, ClientFields, TailEntries
    <3>2. m.slot[s].req_num \in Nat /\ sv.slot[s].req_num = m.slot[s].req_num
      BY <2>1, <2>2, <2>5, <2>7, <2>8, ClientFields
    <3>3. Posted(e, sv, net)
      BY <1>1, <2>1, <2>11, <2>14, <2>16, <3>1, <3>2, GetsPosted
    <3>. QED
      BY <1>1, <2>4, <3>3, PostedPrimed
  <2>. QED
    BY <2>15, <2>16
<1>. QED
  BY <1>4, <1>5

LEMMA EnqueueResponsePosted ==
    ASSUME IInv, PostedInv, NEW s \in Slots, EnqueueResponse(s)
    PROVE  PostedInv'
<1>. DEFINE cs == cl.slot[s]  vs == sv.slot[s]  new == Responded(vs)  p == RespPkt(new, 0)
            w == sv'
<1>1. w.slot = [sv.slot EXCEPT ![s] = new] /\ w.out = sv.out \cup {p} /\ vs.busy
  BY ResponseSlot
<1>2. /\ cs.req \in Requests /\ vs.req_num = cs.req_num /\ Receiving(vs)
      /\ new.resp = cs.req /\ new.req_num = vs.req_num /\ new.num_rx = vs.num_rx
  BY ResponseSlot
<1>3. new.num_rx = ReqPkts[cs.req] /\ new.sav = ReqPkts[cs.req] /\ cs.num_rx < ReqPkts[cs.req]
  BY ResponseSlot
<1>4. /\ Inv(cl, sv, net, {}) /\ Posted(cl, sv, net) /\ DOMAIN sv.slot = Slots
      /\ cl \in Clients /\ sv \in Servers /\ UNCHANGED <<cl, net>> /\ sv' = w
  BY DEF EnqueueResponse, PostedInv, IInv, Inv, Servers
<1>5. /\ p.type = "kResp" /\ p.req_num = new.req_num /\ p.data = new.resp
      /\ p.pkt_num = new.sav - 1 + 0
  BY DEF RespPkt, Pkt
<1>6. new.req_num % Window = s
  BY <1>2, <1>4 DEF Inv, SlotsOK
<1>7. SlotOf(p) = s
  BY <1>5, <1>6 DEF SlotOf
<1>. HIDE DEF new, p, w
<1>8. w.slot[s] = new /\ \A t \in Slots \ {s} : w.slot[t] = sv.slot[t]
  BY <1>1, <1>4
<1>9. /\ ReqPkts[cs.req] \in Nat \ {0} /\ cs.num_rx \in Nat /\ cs.req # None
      /\ vs.resp = None /\ p.pkt_num = ReqPkts[cs.req] - 1
  BY <1>2, <1>3, <1>4, <1>5, ClientFields, Constants DEF Receiving
<1>10. ReceivedSent(cs, new)
  BY <1>2, <1>3, <1>9 DEF ReceivedSent
<1>11. p \notin net
  <2>. SUFFICES ASSUME p \in net PROVE FALSE
    OBVIOUS
  <2>1. vs.resp \in Requests
    BY <1>2, <1>4, <1>5, <1>7, PostedFacts
  <2>. QED
    BY <1>9, <2>1, Constants
<1>12. PostedResp(p, cs, new, net)
  BY <1>2, <1>3, <1>5, <1>9, <1>11 DEF PostedResp
<1>13. Posted(cl, w, net)
  BY <1>1, <1>2, <1>4, <1>7, <1>8, <1>10, <1>12, RespondedPosted
<1>. QED
  BY <1>4, <1>13, PostedPrimed

LEMMA ProcessRFRPosted ==
    ASSUME IInv, PostedInv, NEW p \in net, ProcessRFR(p)
    PROVE  PostedInv'
<1>. DEFINE s == SlotOf(p)  cs == cl.slot[s]  vs == sv.slot[s]
            i == resp_ntoi(p.pkt_num, vs.sav)
            new == [vs EXCEPT !.num_rx = @ + 1]  q == RespPkt(vs, i)  w == sv'
<1>1. CASE p.pkt_num < vs.num_rx /\ Resend(vs, i)
  BY <1>1, ResendPosted
<1>2. CASE ~(p.pkt_num < vs.num_rx /\ Resend(vs, i))
  <2>1. /\ w.slot = [sv.slot EXCEPT ![s] = new] /\ w.out = sv.out \cup {q}
        /\ UNCHANGED <<cl, net>>
    BY <1>2, RfrSlot
  <2>2. /\ new.req_num = vs.req_num /\ new.resp = vs.resp /\ new.num_rx = vs.num_rx + 1
        /\ p.type = "kRFR" /\ p.req_num = vs.req_num /\ p.pkt_num = vs.num_rx
    BY <1>2, RfrSlot
  <2>3. /\ sv' = w /\ Inv(cl, sv, net, {}) /\ Posted(cl, sv, net) /\ DOMAIN sv.slot = Slots
        /\ cl \in Clients /\ sv \in Servers
    BY DEF PostedInv, IInv, Inv, Servers
  <2>4. /\ s \in Slots /\ vs.req_num % Window = s /\ Responding(vs) /\ vs.resp # None
        /\ vs.sav - 1 + i = p.pkt_num
        /\ p.pkt_num \in (ReqPkts[vs.resp] - 1) .. (Wire(vs.resp) - 1)
    BY <2>2, <2>3, RfrFacts
  <2>5. /\ q.type = "kResp" /\ q.req_num = vs.req_num /\ q.data = vs.resp
        /\ q.pkt_num = vs.sav - 1 + i
    BY DEF RespPkt, Pkt
  <2>6. SlotOf(q) = s
    BY <2>4, <2>5 DEF SlotOf
  <2>. HIDE DEF new, q, w, i
  <2>7. w.slot[s] = new /\ \A t \in Slots \ {s} : w.slot[t] = sv.slot[t]
    BY <2>1, <2>3, <2>4
  <2>8. /\ vs.num_rx \in Nat /\ cs.num_rx \in Nat /\ vs.num_rx # Wire(vs.resp)
        /\ q.pkt_num = vs.num_rx
    <3>1. vs.num_rx \in Nat /\ cs.num_rx \in Nat /\ vs.resp \in Requests
      BY <2>3, <2>4, ClientFields, ServerFields
    <3>2. Wire(vs.resp) \in Nat
      BY <3>1, Constants DEF Wire
    <3>. QED
      BY <2>2, <2>4, <2>5, <3>1, <3>2
  <2>9. /\ cs.req # None /\ vs.req_num = cs.req_num /\ cs.num_rx <= vs.num_rx
    BY <2>3, <2>4, <2>8 DEF Posted, ReceivedSent
  <2>10. vs.resp = cs.req
    BY <2>3, <2>4, <2>9 DEF Inv, SlotsOK, SlotsMatch, ReqOf
  <2>11. ReceivedSent(cs, new)
    BY <2>2, <2>8, <2>9 DEF ReceivedSent
  <2>12. q \notin net
    <3>. SUFFICES ASSUME q \in net PROVE FALSE
      OBVIOUS
    <3>1. q.pkt_num < vs.num_rx
      BY <2>3, <2>5, <2>6, PostedFacts
    <3>. QED
      BY <2>8, <3>1
  <2>13. PostedResp(q, cs, new, net)
    BY <2>2, <2>5, <2>8, <2>9, <2>10, <2>12 DEF PostedResp
  <2>14. Posted(cl, w, net)
    BY <2>1, <2>2, <2>3, <2>4, <2>6, <2>7, <2>11, <2>13, RespondedPosted
  <2>. QED
    BY <2>1, <2>3, <2>14, PostedPrimed
<1>. QED
  BY <1>1, <1>2

LEMMA ReplyType ==
    ASSUME NEW p, NEW q \in Reply(p)
    PROVE  q.type # "kResp"
BY DEF Reply, CreditReturn, Pkt

LEMMA ReqPosted ==
    ASSUME IInv, PostedInv, NEW p \in net, ProcessSmallReq(p) \/ ProcessLargeReq(p)
    PROVE  PostedInv'
<1>. DEFINE s == SlotOf(p)  vs == sv.slot[s]  w == sv'
<1>1. CASE Resend(vs, 0)
  BY <1>1, ResendPosted
<1>2. /\ Inv(cl, sv, net, {}) /\ Posted(cl, sv, net) /\ DOMAIN sv.slot = Slots
      /\ sv \in Servers /\ p \in Packets /\ sv' = w
  BY DEF PostedInv, IInv, Inv, Servers
<1>3. s \in Slots
  BY <1>2, PacketFields
<1>4. CASE sv' = [sv EXCEPT !.out = @ \cup Reply(p)] /\ UNCHANGED <<cl, net>>
  <2>1. w.slot = sv.slot /\ w.out = sv.out \cup Reply(p)
    BY <1>2, <1>4 DEF Servers
  <2>2. \A q \in w.out : q.type = "kResp" => q \in sv.out
    BY <2>1, ReplyType
  <2>. HIDE DEF w
  <2>3. Posted(cl, w, net)
    BY <1>2, <2>1, <2>2, OutPosted
  <2>. QED
    BY <1>2, <1>4, <2>3, PostedPrimed
<1>5. ASSUME NEW o, o \subseteq Reply(p), p.type = "kReq", NextInOrder(vs, p),
             sv' = [sv EXCEPT !.slot[s] = Received(vs, p), !.out = @ \cup o],
             w.slot = [sv.slot EXCEPT ![s] = Received(vs, p)], UNCHANGED <<cl, net>>
      PROVE  PostedInv'
  <2>1. w.out = sv.out \cup o
    BY <1>2, <1>5 DEF Servers
  <2>2. \A q \in w.out : q.type = "kResp" => q \in sv.out
    BY <1>5, <2>1, ReplyType
  <2>3. w.slot[s] = Received(vs, p) /\ \A t \in Slots \ {s} : w.slot[t] = sv.slot[t]
    BY <1>2, <1>3, <1>5
  <2>. HIDE DEF w
  <2>4. Posted(cl, w, net)
    BY <1>2, <1>5, <2>2, <2>3, ReceivedPosted
  <2>. QED
    BY <1>2, <1>5, <2>4, PostedPrimed
<1>6. ASSUME ProcessSmallReq(p) PROVE PostedInv'
  <2>. DEFINE z == {}
  <2>1. \/ Resend(vs, 0)
        \/ /\ p.type = "kReq" /\ NextInOrder(vs, p)
           /\ sv' = [sv EXCEPT !.slot[s] = Received(vs, p), !.out = @ \cup z]
           /\ w.slot = [sv.slot EXCEPT ![s] = Received(vs, p)]
           /\ UNCHANGED <<cl, net>>
    BY <1>6, SmallReqReceives
  <2>2. z \subseteq Reply(p)
    OBVIOUS
  <2>. HIDE DEF z, w
  <2>. QED
    BY <1>1, <1>5, <2>1, <2>2
<1>7. ASSUME ProcessLargeReq(p) PROVE PostedInv'
  BY <1>1, <1>4, <1>5, <1>7, LargeReqReceives
<1>. QED
  BY <1>6, <1>7

(* What the client sends is for the server. *)
LEMMA DrainedToServer ==
    ASSUME NEW c, NEW v, NEW n, Inv(c, v, n, {})
    PROVE  \A p \in n \cup c.out : p.type = "kResp" => p \in n
BY DEF Inv, WaysOK, ToServer

LEMMA PostedStep ==
    ASSUME IInv, HistoryOK, PostedInv, [Next]_vars
    PROVE  PostedInv'
<1>1. Inv(cl, sv, net, {}) /\ Posted(cl, sv, net)
  BY DEF IInv, PostedInv
<1>2. ASSUME Quiet(cl, cl'), UNCHANGED sv, NEW m, net' = m,
             \A p \in m : p.type = "kResp" => p \in net
      PROVE  PostedInv'
  <2>. DEFINE d == cl'
  <2>1. cl' = d /\ SameRequests(cl, d) /\ SameReceived(cl, d)
    BY <1>2 DEF Quiet
  <2>. HIDE DEF d
  <2>2. Posted(d, sv, m)
    BY <1>1, <1>2, <2>1, QuietPosted
  <2>. QED
    BY <1>2, <2>1, <2>2, PostedPrimed
<1>3. ASSUME Quiet(cl, cl'), UNCHANGED <<sv, net>> PROVE PostedInv'
  BY <1>2, <1>3
<1>4. ASSUME NEW u, ProcessStallQueue(u) PROVE PostedInv'
  BY <1>3, <1>4, StallQueueQuiet DEF ProcessStallQueue
<1>5. ASSUME NEW s \in Slots, NEW u, PktLossRetransmit(s, u) PROVE PostedInv'
  <2>. DEFINE d == kick(RollBack(cl, s), s, u)  m == net \cup d.out
  <2>1. Inv(d, sv, net, {}) /\ net' = m /\ UNCHANGED sv
    BY <1>5, RetransmitInv DEF PktLossRetransmit, Drain
  <2>. HIDE DEF d
  <2>2. \A p \in m : p.type = "kResp" => p \in net
    BY <2>1, DrainedToServer
  <2>. QED
    BY <1>2, <1>5, <2>1, <2>2, RetransmitQuiet
<1>6. ASSUME NEW s, NEW i, ProcessWheel(s, i) PROVE PostedInv'
  BY <1>3, <1>6, WheelQuiet DEF ProcessWheel
<1>7. CASE ClientTx
  <2>1. net' = net \cup cl.out /\ UNCHANGED sv
    BY <1>7 DEF ClientTx, Drain
  <2>. QED
    BY <1>1, <1>2, <1>7, <2>1, DrainedToServer, ClientTxQuiet
<1>8. ASSUME NEW p \in net, NEW u, ProcessExplCR(p, u) PROVE PostedInv'
  <2>1. UNCHANGED <<sv, net>> /\ ~ToServer(p)
    BY <1>8 DEF ProcessExplCR, ToServer
  <2>2. CASE Quiet(cl, cl')
    BY <1>3, <2>1, <2>2
  <2>3. CASE in_order_client(cl.slot[SlotOf(p)], p) /\ Took(cl, cl', SlotOf(p))
    <3>. DEFINE d == cl'
    <3>1. cl' = d /\ Took(cl, d, SlotOf(p))
      BY <2>3
    <3>. HIDE DEF d
    <3>2. Posted(d, sv, net)
      BY <1>1, <2>1, <2>3, <3>1, TookPosted
    <3>. QED
      BY <2>1, <3>1, <3>2, PostedPrimed
  <2>. QED
    BY <1>8, <2>2, <2>3, ExplCRTook
<1>9. CASE ServerTx
  <2>. DEFINE w == [sv EXCEPT !.out = {}]  m == net \cup sv.out
  <2>1. sv' = w /\ net' = m /\ UNCHANGED cl /\ sv \in Servers
    BY <1>1, <1>9 DEF ServerTx, Inv
  <2>2. w.slot = sv.slot /\ w.out = {}
    BY <2>1 DEF Servers
  <2>. HIDE DEF w, m
  <2>3. Posted(cl, w, m)
    BY <1>1, <2>2, DrainedPosted
  <2>. QED
    BY <2>1, <2>3, PostedPrimed
<1>10. Quiet(cl, cl)
  BY SameSlotsQuiet
<1>11. ASSUME NEW p, Lose(p) PROVE PostedInv'
  BY <1>2, <1>10, <1>11 DEF Lose
<1>12. CASE UNCHANGED vars
  BY <1>3, <1>10, <1>12 DEF vars
<1>13. ASSUME NEW p \in net, Deliver(p) PROVE PostedInv'
  BY <1>8, <1>13, ProcessRespPosted, ReqPosted, ProcessRFRPosted DEF Deliver
<1>. QED
  BY <1>4, <1>5, <1>6, <1>7, <1>9, <1>11, <1>12, <1>13, EnqueueRequestPosted,
     EnqueueResponsePosted
     DEF Next

(* What the two ends know of each other's progress. *)
THEOREM PostedInvariant == Spec => [](IInv /\ PostedInv)
<1>1. Init => PostedInv
  <2>. SUFFICES ASSUME Init PROVE PostedInv
    OBVIOUS
  <2>1. sv.out = {} /\ \A s \in Slots : sv.slot[s].resp = None
    BY DEF Init, ServerSlot
  <2>. QED
    BY <2>1 DEF PostedInv, Posted, ReceivedSent
<1>2. IInv /\ HistoryOK /\ PostedInv /\ [Next]_vars => PostedInv'
  BY PostedStep
<1>. QED
  BY <1>1, <1>2, Invariant, PTL DEF Spec

(* A response packet in the server's TX batch or DMA queue refers to a     *)
(* response that its slot still has: process_small_req_st and              *)
(* process_large_req_one_st bury a response only when the client has all   *)
(* of it, and then nothing posted refers to it, because a retransmission   *)
(* drains both (process_rfr_st and the two above).                         *)
THEOREM ServerTxAlwaysLive == Spec => []ServerTxLive
<1>1. ASSUME IInv, PostedInv PROVE ServerTxLive
  <2>. SUFFICES ASSUME NEW p \in sv.out, p.type = "kResp"
                PROVE  /\ sv.slot[SlotOf(p)].resp = p.data
                       /\ sv.slot[SlotOf(p)].req_num = p.req_num
    BY DEF ServerTxLive
  <2>1. PostedResp(p, cl.slot[SlotOf(p)], sv.slot[SlotOf(p)], net)
    BY <1>1 DEF PostedInv, Posted
  <2>2. Inv(cl, sv, net, {}) /\ p.req_num = sv.slot[SlotOf(p)].req_num
    BY <1>1, <2>1 DEF IInv, PostedResp
  <2>. QED
    BY <2>2, PostedFacts
<1>. QED
  BY <1>1, PostedInvariant, PTL

-----------------------------------------------------------------------------
(***************************************************************************)
(* What the client has posted, when no packet is paced.  Most steps only   *)
(* let slots advance, and post packets of one of them.                     *)
(***************************************************************************)
Fresh(c, d, s, p) ==
    p.type = "kReq" =>
        /\ SlotOf(p) = s /\ p.req_num = c.slot[s].req_num /\ c.slot[s].req # None
        /\ c.slot[s].num_tx < ReqPkts[c.slot[s].req]
        /\ c.slot[s].num_tx <= p.pkt_num /\ p.pkt_num < d.slot[s].num_tx

Advances(c, d, s) ==
    /\ SameRequests(c, d) /\ d.wheel = c.wheel
    /\ \A t \in Slots : /\ d.slot[t].wheel_count = c.slot[t].wheel_count
                        /\ d.slot[t].num_tx >= c.slot[t].num_tx
    /\ \A p \in d.out : p \in c.out \/ Fresh(c, d, s, p)

LEMMA AdvancesUnpaced ==
    ASSUME NEW c \in Clients, NEW d \in Clients, NEW v \in Servers, NEW n \in SUBSET Packets,
           Unpaced(c, v, n), NEW s \in Slots, Advances(c, d, s)
    PROVE  Unpaced(d, v, n)
<1>1. \A t \in Slots : /\ d.slot[t].req = c.slot[t].req
                       /\ d.slot[t].req_num = c.slot[t].req_num
                       /\ d.slot[t].num_tx >= c.slot[t].num_tx
                       /\ d.slot[t].num_tx \in Nat /\ c.slot[t].num_tx \in Nat
                       /\ c.slot[t].req # None => ReqPkts[c.slot[t].req] \in Nat
                       /\ v.slot[t].num_rx \in Nat
  BY ClientFields, ServerFields, Constants DEF Advances, SameRequests
<1>2. d.wheel = {} /\ \A t \in Slots : d.slot[t].wheel_count = 0
  BY DEF Advances, Unpaced
<1>3. ASSUME NEW t \in Slots PROVE SentReceived(d.slot[t], v.slot[t])
  <2>1. SentReceived(c.slot[t], v.slot[t])
    BY DEF Unpaced
  <2>. QED
    BY <1>1, <2>1 DEF SentReceived
<1>4. \A p \in n \cup d.out : SlotOf(p) \in Slots /\ p.pkt_num \in Nat
  BY PacketFields, ClientFields
<1>5. ASSUME NEW p \in n \cup d.out, p.type = "kReq" PROVE SentReq(p, d.slot[SlotOf(p)])
  <2>1. CASE p \in n \cup c.out
    <3>1. SentReq(p, c.slot[SlotOf(p)])
      BY <1>5, <2>1 DEF Unpaced
    <3>. QED
      BY <1>1, <1>4, <3>1 DEF SentReq
  <2>2. CASE Fresh(c, d, s, p)
    BY <1>5, <2>2 DEF Fresh, SentReq
  <2>. QED
    BY <2>1, <2>2 DEF Advances
<1>6. ASSUME NEW p \in d.out, p.type = "kReq"
      PROVE  PostedReq(p, d.slot[SlotOf(p)], v.slot[SlotOf(p)], n)
  <2>1. CASE p \in c.out
    <3>1. PostedReq(p, c.slot[SlotOf(p)], v.slot[SlotOf(p)], n)
      BY <1>6, <2>1 DEF Unpaced
    <3>. QED
      BY <1>1, <1>4, <3>1 DEF PostedReq
  <2>2. CASE Fresh(c, d, s, p)
    <3>1. /\ SlotOf(p) = s /\ p.req_num = c.slot[s].req_num /\ c.slot[s].req # None
          /\ c.slot[s].num_tx < ReqPkts[c.slot[s].req]
          /\ c.slot[s].num_tx <= p.pkt_num
      BY <1>6, <2>2 DEF Fresh
    <3>2. p \notin n
      <4>. SUFFICES ASSUME p \in n PROVE FALSE
        OBVIOUS
      <4>1. SentReq(p, c.slot[s])
        BY <1>6, <3>1 DEF Unpaced
      <4>. QED
        BY <1>1, <1>4, <3>1, <4>1 DEF SentReq
    <3>3. SentReceived(c.slot[s], v.slot[s])
      BY DEF Unpaced
    <3>4. v.slot[s].req_num = c.slot[s].req_num
            => v.slot[s].resp = None /\ v.slot[s].num_rx <= p.pkt_num
      BY <1>1, <1>4, <3>1, <3>3 DEF SentReceived
    <3>. QED
      BY <1>1, <3>1, <3>2, <3>4 DEF PostedReq
  <2>. QED
    BY <2>1, <2>2 DEF Advances
<1>. QED
  BY <1>2, <1>3, <1>5, <1>6 DEF Unpaced

(* Nothing is sent. *)
LEMMA SilentAdvances ==
    ASSUME NEW c \in Clients, NEW d \in Clients, NEW s \in Slots, SameRequests(c, d),
           d.wheel = c.wheel, d.out = c.out,
           \A t \in Slots : /\ d.slot[t].wheel_count = c.slot[t].wheel_count
                            /\ d.slot[t].num_tx = c.slot[t].num_tx
    PROVE  Advances(c, d, s)
BY ClientFields DEF Advances

LEMMA TakesAdvances ==
    ASSUME NEW c \in Clients, NEW d, NEW s \in Slots, Takes(c, d, s)
    PROVE  Advances(c, d, s)
<1>1. /\ d \in Clients /\ SameRequests(c, d) /\ d.wheel = c.wheel /\ d.out = c.out
      /\ \A t \in Slots : /\ d.slot[t].wheel_count = c.slot[t].wheel_count
                          /\ d.slot[t].num_tx = c.slot[t].num_tx
  BY DEF Takes, SameTx, OnlySlot
<1>. QED
  BY <1>1, SilentAdvances

(* Exactly what kick_req and kick_rfr send. *)
LEMMA KickReqExactly ==
    ASSUME NEW c \in Clients, NEW s \in Slots, c.slot[s].req \in Requests,
           c.slot[s].num_tx < ReqPkts[c.slot[s].req], c.slot[s].wheel_count = 0
    PROVE  LET d == kick_req(c, s, TRUE)
               sl == c.slot[s]
               k == Lesser(c.credits, ReqPkts[sl.req] - sl.num_tx)
           IN  /\ d \in Clients /\ OnlySlot(c, d, s) /\ SameRequests(c, d)
               /\ d.wheel = c.wheel /\ d.slot[s].wheel_count = 0
               /\ d.out = c.out \cup {ReqPkt(sl, i) : i \in sl.num_tx .. (sl.num_tx + k - 1)}
               /\ d.slot[s].num_tx = sl.num_tx + k /\ k \in Nat
<1>. DEFINE sl == c.slot[s]
            k == Lesser(c.credits, ReqPkts[sl.req] - sl.num_tx)
            sent == {ReqPkt(sl, i) : i \in sl.num_tx .. (sl.num_tx + k - 1)}
            d == kick_req(c, s, TRUE)
            i == sl.in_wheel
            a == sl.num_tx + k
            new == [sl EXCEPT !.num_tx = a, !.wheel_count = 0, !.in_wheel = i]
<1>1. d \in Clients /\ OnlySlot(c, d, s) /\ SameRequests(c, d)
  BY KickReqSends DEF SendsReq, Sends
<1>2. k \in Nat
  BY ClientFields, Constants DEF Lesser
<1>3. can_bypass_wheel(sl, TRUE) = TRUE
  BY DEF can_bypass_wheel
<1>4. d.wheel = c.wheel /\ d.out = c.out \cup sent /\ d.slot = [c.slot EXCEPT ![s] = new]
  BY <1>3 DEF Clients, kick_req
<1>5. c.slot \in [Slots -> ClientSlots] /\ sl \in ClientSlots
  BY DEF Clients
<1>. HIDE DEF d, a, i, k, sent
<1>6. new.wheel_count = 0 /\ new.num_tx = a
  BY <1>5 DEF ClientSlots
<1>. HIDE DEF new
<1>7. d.slot[s] = new
  BY <1>4, <1>5
<1>. QED
  BY <1>1, <1>2, <1>4, <1>6, <1>7 DEF d, a, k, sent

LEMMA KickReqAdvances ==
    ASSUME NEW c \in Clients, NEW s \in Slots, c.slot[s].req \in Requests,
           c.slot[s].num_tx < ReqPkts[c.slot[s].req], c.slot[s].wheel_count = 0,
           c.slot[s].req_num % Window = s
    PROVE  LET d == kick_req(c, s, TRUE)
           IN  d \in Clients /\ Advances(c, d, s)
<1>. DEFINE d == kick_req(c, s, TRUE)  sl == c.slot[s]
            k == Lesser(c.credits, ReqPkts[sl.req] - sl.num_tx)
<1>1. d \in Clients /\ OnlySlot(c, d, s) /\ SameRequests(c, d)
  BY KickReqExactly
<1>2. d.wheel = c.wheel /\ d.slot[s].wheel_count = 0
  BY KickReqExactly
<1>3. d.out = c.out \cup {ReqPkt(sl, i) : i \in sl.num_tx .. (sl.num_tx + k - 1)}
  BY KickReqExactly
<1>4. d.slot[s].num_tx = sl.num_tx + k /\ k \in Nat
  BY KickReqExactly
<1>. HIDE DEF d, k
<1>5. sl.num_tx \in Nat /\ sl.req # None
  BY ClientFields, Constants
<1>6. \A t \in Slots : /\ d.slot[t].wheel_count = c.slot[t].wheel_count
                       /\ d.slot[t].num_tx >= c.slot[t].num_tx
  <2>1. \A t \in Slots : c.slot[t].num_tx \in Nat
    BY ClientFields
  <2>2. \A t \in Slots \ {s} : d.slot[t] = c.slot[t]
    BY <1>1 DEF OnlySlot
  <2>3. d.slot[s].num_tx >= sl.num_tx
    BY <1>4, <1>5
  <2>. QED
    BY <1>2, <2>1, <2>2, <2>3
<1>7. ASSUME NEW i \in sl.num_tx .. (sl.num_tx + k - 1)
      PROVE  Fresh(c, d, s, ReqPkt(sl, i))
  BY <1>4, <1>5 DEF Fresh, ReqPkt, Pkt, SlotOf
<1>8. Advances(c, d, s)
  BY <1>1, <1>2, <1>3, <1>6, <1>7 DEF Advances
<1>. QED
  BY <1>1, <1>8 DEF d

LEMMA KickRfrAdvances ==
    ASSUME NEW c \in Clients, NEW s \in Slots, c.slot[s].req \in Requests,
           wire_pkts(c.slot[s]) \in Nat, c.slot[s].num_tx < wire_pkts(c.slot[s])
    PROVE  LET d == kick_rfr(c, s)
           IN  /\ d \in Clients /\ Advances(c, d, s)
               /\ \A p \in d.out : p.type = "kReq" => p \in c.out
<1>. DEFINE d == kick_rfr(c, s)  sl == c.slot[s]
<1>1. PICK k \in Nat : SendsRfr(c, d, s, k)
  BY KickRfrSends
<1>. HIDE DEF d
<1>2. /\ d \in Clients /\ OnlySlot(c, d, s) /\ SameRequests(c, d) /\ d.wheel = c.wheel
      /\ d.slot[s].wheel_count = sl.wheel_count /\ d.slot[s].num_tx = sl.num_tx + k
      /\ d.out = c.out \cup {RfrPkt(sl, i) : i \in sl.num_tx .. (sl.num_tx + k - 1)}
  BY <1>1 DEF SendsRfr, Sends
<1>3. \A t \in Slots : /\ d.slot[t].wheel_count = c.slot[t].wheel_count
                       /\ d.slot[t].num_tx >= c.slot[t].num_tx
  <2>1. \A t \in Slots : c.slot[t].num_tx \in Nat
    BY ClientFields
  <2>2. \A t \in Slots \ {s} : d.slot[t] = c.slot[t]
    BY <1>2 DEF OnlySlot
  <2>3. d.slot[s].num_tx >= sl.num_tx
    BY <1>2, <2>1
  <2>. QED
    BY <1>2, <2>1, <2>2, <2>3
<1>4. \A i : RfrPkt(sl, i).type # "kReq"
  BY DEF RfrPkt, Pkt
<1>5. \A p \in d.out : p.type = "kReq" => p \in c.out
  BY <1>2, <1>4
<1>6. Advances(c, d, s)
  BY <1>2, <1>3, <1>5 DEF Advances, Fresh
<1>. QED
  BY <1>2, <1>5, <1>6 DEF d

(* A free slot gets a request; nothing of it is sent yet. *)
LEMMA StartedUnpaced ==
    ASSUME NEW c \in Clients, NEW v \in Servers, NEW n \in SUBSET Packets, Unpaced(c, v, n),
           NEW s \in Slots, NEW r \in Requests, c.free # <<>>, c.slot[s].req = None,
           v.slot[s].req_num = c.slot[s].req_num,
           \A p \in n : p.type = "kReq" => p.req_num <= c.slot[SlotOf(p)].req_num
    PROVE  Unpaced(Started(c, s, r), v, n)
<1>. DEFINE d == Started(c, s, r)
<1>1. /\ d \in Clients /\ OnlySlot(c, d, s) /\ d.out = c.out /\ d.wheel = c.wheel
      /\ d.slot[s].wheel_count = c.slot[s].wheel_count
      /\ d.slot[s].req_num = c.slot[s].req_num + Window
  BY StartedFields DEF SameTx
<1>. HIDE DEF d
<1>2. c.slot[s].req_num \in Nat /\ Window \in Nat \ {0}
  BY ClientFields, Constants
<1>3. d.wheel = {} /\ \A t \in Slots : d.slot[t].wheel_count = 0
  BY <1>1 DEF Unpaced, OnlySlot
<1>4. ASSUME NEW t \in Slots PROVE SentReceived(d.slot[t], v.slot[t])
  <2>1. SentReceived(c.slot[t], v.slot[t])
    BY DEF Unpaced
  <2>2. CASE t # s
    BY <1>1, <2>1, <2>2 DEF OnlySlot
  <2>3. CASE t = s
    BY <1>1, <1>2, <2>3 DEF SentReceived
  <2>. QED
    BY <2>2, <2>3
<1>5. ASSUME NEW p \in c.out, p.type = "kReq"
      PROVE  /\ PostedReq(p, d.slot[SlotOf(p)], v.slot[SlotOf(p)], n)
             /\ SentReq(p, d.slot[SlotOf(p)])
  <2>1. /\ PostedReq(p, c.slot[SlotOf(p)], v.slot[SlotOf(p)], n)
        /\ SentReq(p, c.slot[SlotOf(p)])
    BY <1>5 DEF Unpaced
  <2>2. SlotOf(p) \in Slots
    BY PacketFields, ClientFields
  <2>3. SlotOf(p) # s
    BY <2>1 DEF PostedReq
  <2>. QED
    BY <1>1, <2>1, <2>2, <2>3 DEF OnlySlot
<1>6. ASSUME NEW p \in n, p.type = "kReq" PROVE SentReq(p, d.slot[SlotOf(p)])
  <2>1. SentReq(p, c.slot[SlotOf(p)])
    BY <1>6 DEF Unpaced
  <2>2. SlotOf(p) \in Slots /\ p.req_num \in Nat
    BY PacketFields
  <2>3. CASE SlotOf(p) # s
    BY <1>1, <2>1, <2>2, <2>3 DEF OnlySlot
  <2>4. CASE SlotOf(p) = s
    BY <1>1, <1>2, <1>6, <2>2, <2>4 DEF SentReq
  <2>. QED
    BY <2>3, <2>4
<1>7. Unpaced(d, v, n)
  BY <1>1, <1>3, <1>4, <1>5, <1>6 DEF Unpaced
<1>. QED
  BY <1>7 DEF d

LEMMA EnqueueUnpaced ==
    ASSUME NEW c \in Clients, NEW v \in Servers, NEW n \in SUBSET Packets, Unpaced(c, v, n),
           NEW r \in Requests,
           \A s \in Slots : c.slot[s].req = None <=> \E i \in DOMAIN c.free : c.free[i] = s,
           \A s \in Slots : c.slot[s].req = None => v.slot[s].req_num = c.slot[s].req_num,
           \A s \in Slots : c.slot[s].req_num % Window = s,
           \A p \in n : p.type = "kReq" => p.req_num <= c.slot[SlotOf(p)].req_num
    PROVE  LET d == enqueue_request(c, r, TRUE)
           IN  d \in Clients /\ Unpaced(d, v, n)
<1>. DEFINE q == c.free  s == q[Len(q)]  a == Started(c, s, r)
            d == enqueue_request(c, r, TRUE)
            b == [a EXCEPT !.stallq = Append(@, s)]
            w == [c EXCEPT !.backlog = Append(@, r)]
<1>1. q \in Seq(Slots) /\ c.backlog \in Seq(Requests) /\ 0 \in Slots
  BY ClientFields, Constants DEF Slots
<1>2. CASE c.free = <<>>
  <2>1. d = w
    BY <1>2 DEF enqueue_request
  <2>2. Append(c.backlog, r) \in Seq(Requests)
    BY <1>1, AppendProperties
  <2>3. w \in Clients /\ w.slot = c.slot /\ w.out = c.out /\ w.wheel = c.wheel
    BY <2>2 DEF Clients
  <2>. HIDE DEF w, d
  <2>4. Advances(c, w, 0)
    BY <1>1, <2>3, SilentAdvances DEF SameRequests
  <2>. QED
    BY <1>1, <2>1, <2>3, <2>4, AdvancesUnpaced DEF d
<1>3. CASE c.free # <<>>
  <2>1. Len(q) \in DOMAIN q /\ s \in Slots
    <3>1. Len(q) \in Nat /\ Len(q) # 0 /\ DOMAIN q = 1..Len(q)
      BY <1>1, <1>3, LenProperties, EmptySeq
    <3>2. Len(q) \in 1..Len(q)
      BY <3>1
    <3>. QED
      BY <1>1, <3>1, <3>2, ElementOfSeq
  <2>2. c.slot[s].req = None
    BY <2>1
  <2>3. Unpaced(a, v, n)
    BY <1>3, <2>1, <2>2, StartedUnpaced
  <2>4. a \in Clients /\ a.slot[s].req = r /\ a.slot[s].num_tx = 0
    BY <1>3, <2>1, StartedFields
  <2>5. a.slot[s].req_num = c.slot[s].req_num + Window
    BY <1>3, <2>1, StartedFields
  <2>6. d = IF a.credits > 0 THEN kick_req(a, s, TRUE) ELSE b
    BY <1>3 DEF enqueue_request, Started
  <2>. HIDE DEF a, s, q
  <2>7. a.slot[s].req_num % Window = s
    BY <2>1, <2>5, ClientFields, Constants, ModStep
  <2>8. d \in Clients /\ Advances(a, d, s)
    <3>1. CASE a.credits > 0
      <4>1. a.slot[s].num_tx < ReqPkts[a.slot[s].req] /\ a.slot[s].wheel_count = 0
        BY <2>1, <2>3, <2>4, Constants DEF Unpaced
      <4>. QED
        BY <2>1, <2>4, <2>6, <2>7, <3>1, <4>1, KickReqAdvances
    <3>2. CASE ~(a.credits > 0)
      <4>1. Append(a.stallq, s) \in Seq(Slots)
        BY <2>1, <2>4, ClientFields, AppendProperties
      <4>2. b \in Clients /\ b.slot = a.slot /\ b.out = a.out /\ b.wheel = a.wheel
        BY <2>4, <4>1 DEF Clients
      <4>. HIDE DEF b
      <4>3. Advances(a, b, s)
        BY <2>1, <2>4, <4>2, SilentAdvances DEF SameRequests
      <4>. QED
        BY <2>6, <3>2, <4>2, <4>3
    <3>. QED
      BY <3>1, <3>2
  <2>. HIDE DEF d
  <2>9. Unpaced(d, v, n)
    BY <2>1, <2>3, <2>4, <2>8, AdvancesUnpaced
  <2>. QED
    BY <2>8, <2>9 DEF d
<1>. QED
  BY <1>2, <1>3

(* A slot is freed when the server has answered its request. *)
LEMMA FreedUnpaced ==
    ASSUME NEW c \in Clients, NEW v \in Servers, NEW n \in SUBSET Packets,
           Unpaced(c, v, n), NEW s \in Slots,
           v.slot[s].resp # None, v.slot[s].req_num = c.slot[s].req_num, c.slot[s].req # None
    PROVE  Unpaced(Freed(c, s), v, n)
<1>. DEFINE d == Freed(c, s)
<1>1. /\ d \in Clients /\ OnlySlot(c, d, s) /\ d.out = c.out /\ d.wheel = c.wheel
      /\ d.slot[s].wheel_count = c.slot[s].wheel_count /\ d.slot[s].req = None
  BY FreedFields DEF SameTx
<1>. HIDE DEF d
<1>2. d.wheel = {} /\ \A t \in Slots : d.slot[t].wheel_count = 0
  BY <1>1 DEF Unpaced, OnlySlot
<1>3. ASSUME NEW t \in Slots PROVE SentReceived(d.slot[t], v.slot[t])
  <2>1. SentReceived(c.slot[t], v.slot[t])
    BY DEF Unpaced
  <2>. QED
    BY <1>1, <2>1 DEF OnlySlot, SentReceived
<1>4. ASSUME NEW p \in n \cup c.out, p.type = "kReq" PROVE SentReq(p, d.slot[SlotOf(p)])
  <2>1. SentReq(p, c.slot[SlotOf(p)])
    BY <1>4 DEF Unpaced
  <2>2. SlotOf(p) \in Slots
    BY PacketFields, ClientFields
  <2>3. CASE SlotOf(p) = s
    BY <1>1, <2>3 DEF SentReq
  <2>4. CASE SlotOf(p) \in Slots \ {s}
    BY <1>1, <2>1, <2>4 DEF OnlySlot
  <2>. QED
    BY <2>2, <2>3, <2>4
<1>5. ASSUME NEW p \in c.out, p.type = "kReq"
      PROVE  PostedReq(p, d.slot[SlotOf(p)], v.slot[SlotOf(p)], n)
  <2>1. PostedReq(p, c.slot[SlotOf(p)], v.slot[SlotOf(p)], n)
    BY <1>5 DEF Unpaced
  <2>2. SlotOf(p) \in Slots
    BY PacketFields, ClientFields
  <2>3. SlotOf(p) # s
    BY <2>1 DEF PostedReq
  <2>. QED
    BY <1>1, <2>1, <2>2, <2>3 DEF OnlySlot
<1>6. Unpaced(d, v, n)
  BY <1>1, <1>2, <1>3, <1>4, <1>5 DEF Unpaced
<1>. QED
  BY <1>6 DEF d

LEMMA UnpacedPrimed ==
    ASSUME NEW c, NEW v, NEW n, cl' = c, sv' = v, net' = n, Unpaced(c, v, n)
    PROVE  UnpacedInv'
BY DEF UnpacedInv

LEMMA EnqueueRequestUnpaced ==
    ASSUME IInv, HistoryOK, UnpacedInv, EnqueueRequest(TRUE)
    PROVE  UnpacedInv'
<1>. DEFINE r == issued + 1  d == enqueue_request(cl, r, TRUE)
<1>1. /\ Inv(cl, sv, net, {}) /\ cl \in Clients /\ sv \in Servers /\ net \in SUBSET Packets
      /\ Unpaced(cl, sv, net) /\ cl' = d /\ UNCHANGED <<sv, net>>
  BY DEF IInv, Inv, UnpacedInv, EnqueueRequest
<1>2. r \in Requests
  BY Constants DEF HistoryOK, EnqueueRequest, Requests
<1>3. \A t \in Slots : cl.slot[t].req = None <=> \E i \in DOMAIN cl.free : cl.free[i] = t
  BY <1>1 DEF Inv, FreeOK
<1>4. \A t \in Slots : /\ cl.slot[t].req = None => sv.slot[t].req_num = cl.slot[t].req_num
                       /\ cl.slot[t].req_num % Window = t
  BY <1>1 DEF Inv, SlotsOK, SlotsMatch
<1>5. \A p \in net : p.type = "kReq" => p.req_num <= cl.slot[SlotOf(p)].req_num
  BY <1>1 DEF Inv, PacketsOK, PacketOK, ReqPktOK
<1>6. Unpaced(d, sv, net)
  BY <1>1, <1>2, <1>3, <1>4, <1>5, EnqueueUnpaced
<1>. HIDE DEF d
<1>. QED
  BY <1>1, <1>6, UnpacedPrimed

LEMMA StallQueueUnpaced ==
    ASSUME IInv, UnpacedInv, ProcessStallQueue(TRUE)
    PROVE  UnpacedInv'
<1>. DEFINE s == Head(cl.stallq)  c == Popped(cl)  d == kick(c, s, TRUE)
<1>1. /\ Inv(cl, sv, net, {}) /\ cl.stallq # <<>> /\ cl' = d /\ UNCHANGED <<sv, net>>
      /\ cl \in Clients /\ sv \in Servers /\ net \in SUBSET Packets /\ Unpaced(cl, sv, net)
  BY DEF IInv, Inv, ProcessStallQueue, Popped, UnpacedInv
<1>2. s \in Slots /\ c.slot = cl.slot /\ Inv(c, sv, net, {s})
  BY <1>1, PoppedInv
<1>3. cl.slot[s].req \in Requests /\ cl.slot[s].num_tx = 0
  BY <1>1, PoppedInv
<1>4. c.out = cl.out /\ c.wheel = cl.wheel
  BY <1>1 DEF Popped, Clients
<1>5. c \in Clients /\ c.slot[s].req_num % Window = s
  BY <1>2 DEF Inv, SlotsOK
<1>. HIDE DEF c, s
<1>6. d = kick_req(c, s, TRUE) /\ c.slot[s].num_tx < ReqPkts[c.slot[s].req]
  <2>1. c.slot[s].num_tx < ReqPkts[c.slot[s].req]
    BY <1>2, <1>3, Constants
  <2>. QED
    BY <2>1 DEF kick, req_pkts_pending
<1>7. Advances(cl, c, s)
  BY <1>1, <1>2, <1>4, <1>5, SilentAdvances DEF SameRequests
<1>8. Unpaced(c, sv, net)
  BY <1>1, <1>2, <1>5, <1>7, AdvancesUnpaced
<1>9. c.slot[s].wheel_count = 0 /\ c.slot[s].req \in Requests
  BY <1>2, <1>3, <1>8 DEF Unpaced
<1>10. d \in Clients /\ Advances(c, d, s)
  BY <1>2, <1>5, <1>6, <1>9, KickReqAdvances
<1>. HIDE DEF d
<1>11. Unpaced(d, sv, net)
  BY <1>1, <1>2, <1>5, <1>8, <1>10, AdvancesUnpaced
<1>. QED
  BY <1>1, <1>11, UnpacedPrimed

LEMMA ExplCRUnpaced ==
    ASSUME IInv, UnpacedInv, NEW p \in net, ProcessExplCR(p, TRUE)
    PROVE  UnpacedInv'
<1>. DEFINE s == SlotOf(p)  c == Answered(cl, s)  d == process_expl_cr(cl, s, p, TRUE)
<1>1. /\ Inv(cl, sv, net, {}) /\ cl \in Clients /\ sv \in Servers /\ net \in SUBSET Packets
      /\ Unpaced(cl, sv, net) /\ cl' = d /\ UNCHANGED <<sv, net>> /\ ~ToServer(p)
  BY DEF IInv, Inv, ProcessExplCR, UnpacedInv, ToServer
<1>2. s \in Slots
  BY <1>1, PacketFields
<1>3. Takes(cl, c, s)
  BY <1>1, <1>2, AnsweredTakes
<1>4. d = IF ~in_order_client(cl.slot[s], p) THEN cl
          ELSE IF req_pkts_pending(c.slot[s]) THEN kick_req(c, s, TRUE) ELSE c
  BY DEF process_expl_cr
<1>5. in_order_client(cl.slot[s], p) => cl.slot[s].req \in Requests
  BY <1>1, InOrderFacts
<1>. HIDE DEF c
<1>6. /\ c \in Clients /\ Advances(cl, c, s) /\ c.slot[s].req = cl.slot[s].req
      /\ c.slot[s].req_num = cl.slot[s].req_num
  BY <1>1, <1>2, <1>3, TakesAdvances DEF Takes, SameRequests
<1>7. Unpaced(c, sv, net)
  BY <1>1, <1>2, <1>6, AdvancesUnpaced
<1>8. Unpaced(d, sv, net)
  <2>1. CASE in_order_client(cl.slot[s], p) /\ req_pkts_pending(c.slot[s])
    <3>1. c.slot[s].wheel_count = 0 /\ c.slot[s].num_tx < ReqPkts[c.slot[s].req]
      BY <1>2, <1>7, <2>1 DEF Unpaced, req_pkts_pending
    <3>2. c.slot[s].req \in Requests /\ c.slot[s].req_num % Window = s
      BY <1>1, <1>2, <1>5, <1>6, <2>1 DEF Inv, SlotsOK
    <3>3. d = kick_req(c, s, TRUE)
      BY <1>4, <2>1
    <3>4. d \in Clients /\ Advances(c, d, s)
      BY <1>2, <1>6, <3>1, <3>2, <3>3, KickReqAdvances
    <3>. HIDE DEF d
    <3>. QED
      BY <1>1, <1>2, <1>6, <1>7, <3>4, AdvancesUnpaced
  <2>2. CASE ~(in_order_client(cl.slot[s], p) /\ req_pkts_pending(c.slot[s]))
    <3>1. d = cl \/ d = c
      BY <1>4, <2>2
    <3>. QED
      BY <1>1, <1>7, <3>1
  <2>. QED
    BY <2>1, <2>2
<1>. HIDE DEF d
<1>. QED
  BY <1>1, <1>8, UnpacedPrimed

LEMMA TakeRespUnpaced ==
    ASSUME NEW c, NEW v, NEW n, Inv(c, v, n, {}), Unpaced(c, v, n), NEW p \in n,
           p.type = "kResp", in_order_client(c.slot[SlotOf(p)], p)
    PROVE  Unpaced(TakeResp(c, SlotOf(p), p), v, n)
<1>. DEFINE s == SlotOf(p)  r == c.slot[s].req  d == Copied(c, s, p)  e == TakeResp(c, s, p)
<1>1. c \in Clients /\ v \in Servers /\ n \in SUBSET Packets /\ ~ToServer(p)
  BY DEF Inv, ToServer
<1>2. s \in Slots /\ r \in Requests
  BY <1>1, InOrderFacts
<1>3. /\ Takes(c, d, s)
      /\ d.slot[s].resp_pkts = RespPkts[r]
      /\ d.slot[s].resp = [i \in 1..RespPkts[r] |->
             IF i <= d.slot[s].num_rx - ReqPkts[r] + 1 THEN r ELSE None]
      /\ wire_pkts(d.slot[s]) = Wire(r)
      /\ e = IF p.pkts > 1 /\ c.slot[s].num_tx # Wire(r) THEN kick_rfr(d, s) ELSE d
  BY CopiedFacts
<1>. HIDE DEF d
<1>4. /\ d \in Clients /\ Advances(c, d, s) /\ d.slot[s].req = r
      /\ d.slot[s].num_tx = c.slot[s].num_tx
  BY <1>1, <1>2, <1>3, TakesAdvances DEF Takes, SameRequests
<1>5. Unpaced(d, v, n)
  BY <1>1, <1>2, <1>4, AdvancesUnpaced
<1>6. CASE p.pkts > 1 /\ c.slot[s].num_tx # Wire(r)
  <2>1. Wire(r) \in Nat /\ ReqPkts[r] <= Wire(r) /\ ReqPkts[r] \in Nat /\ r # None
    BY <1>2, Constants DEF Wire
  <2>2. ClientSlotOK(c.slot[s]) /\ c.slot[s].num_tx \in Nat /\ c.slot[s].num_rx \in Nat
    BY <1>1, <1>2, ClientFields DEF Inv, SlotsOK
  <2>3. c.slot[s].num_tx < Wire(r)
    BY <1>6, <2>1, <2>2 DEF ClientSlotOK
  <2>4. e = kick_rfr(d, s)
    BY <1>3, <1>6
  <2>. HIDE DEF e, r
  <2>5. e \in Clients /\ Advances(d, e, s)
    BY <1>2, <1>3, <1>4, <2>1, <2>3, <2>4, KickRfrAdvances
  <2>6. Unpaced(e, v, n)
    BY <1>1, <1>2, <1>4, <1>5, <2>5, AdvancesUnpaced
  <2>. QED
    BY <2>6 DEF e
<1>7. CASE ~(p.pkts > 1 /\ c.slot[s].num_tx # Wire(r))
  BY <1>3, <1>5, <1>7
<1>. QED
  BY <1>6, <1>7

LEMMA ProcessRespUnpaced ==
    ASSUME IInv, UnpacedInv, NEW p \in net, ProcessResp(p, TRUE)
    PROVE  UnpacedInv'
<1>. DEFINE s == SlotOf(p)  d == TakeResp(cl, s, p)  e == FinishRequest(d, s, TRUE)
            r == cl.slot[s].req  m == Freed(d, s)
            x == Head(d.backlog)  b == enqueue_request(m, x, TRUE)
<1>1. /\ Inv(cl, sv, net, {}) /\ BacklogOK(cl) /\ cl \in Clients /\ FreeOK(cl)
      /\ sv \in Servers /\ net \in SUBSET Packets
      /\ Unpaced(cl, sv, net) /\ p.type = "kResp"
      /\ in_order_client(cl.slot[s], p) /\ UNCHANGED <<sv, net>>
  BY DEF IInv, Inv, UnpacedInv, ProcessResp
<1>2. Unpaced(d, sv, net)
  BY <1>1, TakeRespUnpaced
<1>3. CASE ~RespComplete(d.slot[s], p)
  <2>1. cl' = d
    BY <1>3 DEF ProcessResp
  <2>. HIDE DEF d
  <2>. QED
    BY <1>1, <1>2, <2>1, UnpacedPrimed
<1>4. CASE RespComplete(d.slot[s], p)
  <2>1. s \in Slots /\ r \in Requests /\ sv.slot[s].resp = r
    BY <1>1, <1>4, CompleteIsFull
  <2>2. sv.slot[s].req_num = cl.slot[s].req_num /\ Takes(cl, d, s)
    BY <1>1, <1>4, CompleteIsFull
  <2>3. cl' = e
    BY <1>4 DEF ProcessResp
  <2>. HIDE DEF d
  <2>4. /\ d \in Clients /\ d.slot[s].req = r /\ r # None /\ d.backlog = cl.backlog
        /\ SameRequests(cl, d) /\ d.free = cl.free
        /\ d.slot[s].req_num = cl.slot[s].req_num
    BY <2>1, <2>2, Constants DEF Takes, SameRequests, SameQueues
  <2>5. FreeOK(d) /\ BacklogOK(d)
    BY <1>1, <2>2, <2>4, FreeFrame DEF Takes, BacklogOK
  <2>6. m \in Clients /\ m.backlog = d.backlog /\ OnlySlot(d, m, s)
    BY <2>1, <2>4, FreedFields
  <2>7. m.slot[s].req = None /\ m.slot[s].req_num = d.slot[s].req_num
    BY <2>1, <2>4, FreedFields
  <2>8. m.free = Append(d.free, s)
    BY <2>1, <2>4, FreedFields
  <2>9. Unpaced(m, sv, net)
    BY <1>1, <1>2, <2>1, <2>2, <2>4, FreedUnpaced
  <2>10. e = IF m.backlog = <<>> THEN m ELSE [b EXCEPT !.backlog = Tail(@)]
    BY <2>6 DEF FinishRequest, Freed
  <2>11. CASE m.backlog = <<>>
    <3>1. e = m
      BY <2>10, <2>11
    <3>. HIDE DEF e, m
    <3>. QED
      BY <1>1, <2>3, <2>9, <3>1, UnpacedPrimed
  <2>12. CASE m.backlog # <<>>
    <3>. HIDE DEF m
    <3>1. d.free = <<>> /\ d.backlog \in Seq(Requests) /\ d.backlog # <<>>
      BY <2>4, <2>5, <2>6, <2>12, ClientFields DEF BacklogOK
    <3>2. x \in Requests /\ Tail(d.backlog) \in Seq(Requests)
      BY <3>1, TailEntries
    <3>3. m.free = <<s>> /\ DOMAIN m.free = {1} /\ m.free[1] = s
      BY <2>8, <3>1
    <3>4. \A t \in Slots : m.slot[t].req = None <=> \E i \in DOMAIN m.free : m.free[i] = t
      <4>1. \A t \in Slots \ {s} : m.slot[t].req # None
        <5>1. DOMAIN d.free = {}
          BY <3>1
        <5>. QED
          BY <2>5, <2>6, <5>1 DEF FreeOK, OnlySlot
      <4>. QED
        BY <2>7, <3>3, <4>1
    <3>5. \A t \in Slots : m.slot[t].req_num = cl.slot[t].req_num
      BY <2>4, <2>6, <2>7 DEF OnlySlot, SameRequests
    <3>6. \A t \in Slots : m.slot[t].req = None => sv.slot[t].req_num = m.slot[t].req_num
      BY <2>2, <3>3, <3>4, <3>5
    <3>7. \A t \in Slots : m.slot[t].req_num % Window = t
      BY <1>1, <3>5 DEF Inv, SlotsOK
    <3>8. \A q \in net : q.type = "kReq" => q.req_num <= m.slot[SlotOf(q)].req_num
      <4>1. \A q \in net : SlotOf(q) \in Slots
        BY <1>1, PacketFields
      <4>. QED
        BY <1>1, <3>5, <4>1 DEF Inv, PacketsOK, PacketOK, ReqPktOK
    <3>. HIDE DEF x
    <3>9. b \in Clients /\ Unpaced(b, sv, net)
      BY <1>1, <2>6, <2>9, <3>2, <3>4, <3>6, <3>7, <3>8, EnqueueUnpaced
    <3>. HIDE DEF b
    <3>10. e = [b EXCEPT !.backlog = Tail(@)]
      BY <2>10, <2>12
    <3>11. b.backlog \in Seq(Requests) /\ b.backlog # <<>>
      <4>1. PICK i \in DOMAIN m.free : m.free[i] = s
        BY <3>3
      <4>2. m.free # <<>>
        BY <3>3
      <4>3. b.backlog = m.backlog
        BY <2>6, <3>2, <3>4, <4>2, EnqueueRequestGets DEF b
      <4>. QED
        BY <2>6, <2>12, <3>1, <4>3
    <3>12. Tail(b.backlog) \in Seq(Requests)
      BY <3>11, TailEntries
    <3>13. e \in Clients /\ e.slot = b.slot /\ e.out = b.out /\ e.wheel = b.wheel
      BY <3>9, <3>10, <3>12 DEF Clients
    <3>. HIDE DEF e
    <3>14. Advances(b, e, s)
      BY <2>1, <3>9, <3>13, SilentAdvances DEF SameRequests
    <3>15. Unpaced(e, sv, net)
      BY <1>1, <2>1, <3>9, <3>13, <3>14, AdvancesUnpaced
    <3>. QED
      BY <1>1, <2>3, <3>15, UnpacedPrimed
  <2>. QED
    BY <2>11, <2>12
<1>. QED
  BY <1>3, <1>4

(* What was posted is sent; some packets of slot s may be sent again. *)
LEMMA DrainedUnpaced ==
    ASSUME NEW c, NEW d, NEW v, NEW n, NEW m, Unpaced(c, v, n), SameRequests(c, d),
           d.wheel = {}, d.out = {}, \A t \in Slots : d.slot[t].wheel_count = 0,
           \A t \in Slots : SentReceived(d.slot[t], v.slot[t]),
           \A p \in m : p.type = "kReq" => SentReq(p, d.slot[SlotOf(p)])
    PROVE  Unpaced(d, v, m)
BY DEF Unpaced

LEMMA RetransmitUnpaced ==
    ASSUME IInv, UnpacedInv, NEW s \in Slots, PktLossRetransmit(s, TRUE)
    PROVE  UnpacedInv'
<1>. DEFINE sl == cl.slot[s]  c == RollBack(cl, s)  d == kick(c, s, TRUE)
            e == [d EXCEPT !.out = {}]  m == net \cup d.out  P == ReqPkts[sl.req]
            k == Lesser(c.credits, ReqPkts[c.slot[s].req] - c.slot[s].num_tx)
<1>1. /\ Inv(cl, sv, net, {}) /\ cl \in Clients /\ sv \in Servers /\ net \in SUBSET Packets
      /\ Unpaced(cl, sv, net) /\ cl' = e /\ net' = m /\ UNCHANGED sv
      /\ ClientSlotOK(sl) /\ sl.num_rx <= sl.num_tx
      /\ sl.req # None /\ sl.num_tx # sl.num_rx /\ sl.wheel_count = 0
  BY DEF IInv, Inv, UnpacedInv, PktLossRetransmit, Drain, SlotsOK, ClientSlotOK
<1>2. /\ sl.num_tx \in Nat /\ sl.num_rx \in Nat /\ cl.credits \in Nat /\ sl.req \in Requests
      /\ P \in Nat \ {0}
  BY <1>1, ClientFields, Constants
<1>3. c \in Clients /\ SameTx(cl, c, s) /\ OnlySlot(cl, c, s) /\ SameRequests(cl, c)
  BY <1>1, RollBackFields
<1>4. c.credits = cl.credits + (sl.num_tx - sl.num_rx)
  BY <1>1, RollBackFields
<1>5. c.slot[s].num_tx = sl.num_rx /\ c.slot[s].num_rx = sl.num_rx
  BY <1>1, RollBackFields
<1>6. Inv(d, sv, net, {})
  BY <1>1, RetransmitInv
<1>7. \/ c.slot[s].num_tx < ReqPkts[c.slot[s].req]
      \/ /\ c.slot[s].num_rx >= ReqPkts[c.slot[s].req]
         /\ c.slot[s].num_tx < wire_pkts(c.slot[s])
  BY <1>1, RollBackInv
<1>. HIDE DEF c
<1>8. c.slot[s].req = sl.req /\ c.slot[s].req_num = sl.req_num /\ c.slot[s].wheel_count = 0
  BY <1>1, <1>3 DEF SameTx, SameRequests
<1>9. d \in Clients
  BY <1>6 DEF Inv
(* d has at least as much sent as cl, or all of the request. *)
<1>10. /\ SameRequests(cl, d) /\ d.wheel = {} /\ OnlySlot(cl, d, s)
       /\ d.slot[s].wheel_count = 0
       /\ d.slot[s].num_tx >= sl.num_tx \/ d.slot[s].num_tx >= P
       /\ \A p \in d.out : p.type = "kReq" =>
             p \in cl.out \/ (SlotOf(p) = s /\ p.pkt_num < d.slot[s].num_tx)
  <2>1. CASE c.slot[s].num_tx < ReqPkts[c.slot[s].req]
    <3>1. d = kick_req(c, s, TRUE)
      BY <2>1 DEF kick, req_pkts_pending
    <3>2. OnlySlot(c, d, s) /\ SameRequests(c, d) /\ d.wheel = c.wheel
      BY <1>2, <1>3, <1>8, <2>1, <3>1, KickReqExactly
    <3>3. d.slot[s].wheel_count = 0 /\ d.slot[s].num_tx = c.slot[s].num_tx + k /\ k \in Nat
      BY <1>2, <1>3, <1>8, <2>1, <3>1, KickReqExactly
    <3>4. d.out = c.out \cup {ReqPkt(c.slot[s], i) :
                                i \in c.slot[s].num_tx .. (c.slot[s].num_tx + k - 1)}
      BY <1>2, <1>3, <1>8, <2>1, <3>1, KickReqExactly
    <3>5. /\ c.wheel = {} /\ c.out = cl.out
      BY <1>1, <1>3 DEF Unpaced, SameTx
    <3>6. d.slot[s].num_tx >= sl.num_tx
      <4>1. sl.num_tx <= P
        BY <1>1, <1>2, <1>5, <1>8, <2>1 DEF ClientSlotOK
      <4>2. k >= sl.num_tx - sl.num_rx
        BY <1>2, <1>4, <1>5, <1>8, <4>1 DEF Lesser
      <4>. HIDE DEF k, d
      <4>. QED
        BY <1>1, <1>2, <1>5, <3>3, <4>2
    <3>. HIDE DEF k, d
    <3>7. ASSUME NEW i \in c.slot[s].num_tx .. (c.slot[s].num_tx + k - 1)
          PROVE  LET p == ReqPkt(c.slot[s], i)
                 IN  SlotOf(p) = s /\ p.pkt_num < d.slot[s].num_tx
      <4>1. sl.req_num % Window = s
        BY <1>1 DEF Inv, SlotsOK
      <4>2. ReqPkt(c.slot[s], i).req_num = sl.req_num /\ ReqPkt(c.slot[s], i).pkt_num = i
        BY <1>8 DEF ReqPkt, Pkt
      <4>. QED
        BY <1>2, <1>5, <3>3, <4>1, <4>2 DEF SlotOf
    <3>8. \A p \in d.out : p \in cl.out \/ (SlotOf(p) = s /\ p.pkt_num < d.slot[s].num_tx)
      BY <3>4, <3>5, <3>7
    <3>9. SameRequests(cl, d) /\ OnlySlot(cl, d, s)
      BY <1>3, <3>2 DEF SameRequests, OnlySlot
    <3>. QED
      BY <3>2, <3>3, <3>5, <3>6, <3>8, <3>9
  <2>2. CASE ~(c.slot[s].num_tx < ReqPkts[c.slot[s].req])
    <3>1. d = kick_rfr(c, s)
      BY <2>2 DEF kick, req_pkts_pending
    <3>2. wire_pkts(c.slot[s]) \in Nat
      <4>1. c.slot[s].resp_pkts \in Nat
        BY <1>3, ClientFields
      <4>. QED
        BY <1>2, <1>8, <4>1 DEF wire_pkts
    <3>3. PICK j \in Nat : SendsRfr(c, d, s, j)
      BY <1>2, <1>3, <1>7, <1>8, <2>2, <3>1, <3>2, KickRfrSends
    <3>4. \A p \in d.out : p.type = "kReq" => p \in c.out
      BY <1>2, <1>3, <1>7, <1>8, <2>2, <3>1, <3>2, KickRfrAdvances
    <3>. HIDE DEF d
    <3>5. /\ OnlySlot(c, d, s) /\ SameRequests(c, d) /\ d.wheel = c.wheel
          /\ d.slot[s].wheel_count = 0 /\ d.slot[s].num_tx = c.slot[s].num_tx + j
      BY <1>8, <3>3 DEF SendsRfr, Sends
    <3>6. d.slot[s].num_tx >= P
      BY <1>2, <1>5, <1>8, <2>2, <3>5
    <3>7. c.wheel = {} /\ c.out = cl.out
      BY <1>1, <1>3 DEF Unpaced, SameTx
    <3>8. SameRequests(cl, d) /\ OnlySlot(cl, d, s)
      BY <1>3, <3>5 DEF SameRequests, OnlySlot
    <3>. QED
      BY <3>4, <3>5, <3>6, <3>7, <3>8
  <2>. QED
    BY <2>1, <2>2
<1>. HIDE DEF d
<1>11. e.slot = d.slot /\ e.wheel = d.wheel /\ e.out = {}
  BY <1>9 DEF Clients
<1>12. d.slot[s].num_tx \in Nat /\ d.slot[s].req = sl.req /\ d.slot[s].req_num = sl.req_num
  BY <1>9, <1>10, ClientFields DEF SameRequests
<1>. HIDE DEF e, m
<1>13. ASSUME NEW t \in Slots PROVE SentReceived(d.slot[t], sv.slot[t])
  <2>1. SentReceived(cl.slot[t], sv.slot[t])
    BY <1>1 DEF Unpaced
  <2>2. CASE t # s
    BY <1>10, <2>1, <2>2 DEF OnlySlot
  <2>3. CASE t = s
    <3>1. sv.slot[s].num_rx \in Nat
      BY <1>1, ServerFields
    <3>. QED
      BY <1>2, <1>10, <1>12, <2>1, <2>3, <3>1 DEF SentReceived
  <2>. QED
    BY <2>2, <2>3
<1>14. ASSUME NEW p \in m, p.type = "kReq" PROVE SentReq(p, d.slot[SlotOf(p)])
  <2>1. p \in net \cup d.out
    BY <1>14 DEF m
  <2>2. p \in Packets
    BY <1>1, <1>9, <2>1, ClientFields
  <2>3. SlotOf(p) \in Slots /\ p.pkt_num \in Nat
    BY <2>2, PacketFields
  <2>4. CASE p \in net \cup cl.out
    <3>1. SentReq(p, cl.slot[SlotOf(p)])
      BY <1>1, <1>14, <2>4 DEF Unpaced
    <3>2. CASE SlotOf(p) # s
      BY <1>10, <2>3, <3>1, <3>2 DEF OnlySlot
    <3>3. CASE SlotOf(p) = s
      <4>1. PacketOK(p, sl, sv.slot[s])
        BY <1>1, <2>4, <3>3 DEF Inv, PacketsOK
      <4>2. p.req_num = sl.req_num => p.pkt_num < P
        BY <1>1, <1>14, <4>1 DEF PacketOK, ReqPktOK
      <4>3. p.req_num = sl.req_num => p.pkt_num < sl.num_tx
        BY <1>1, <3>1, <3>3 DEF SentReq
      <4>. QED
        BY <1>2, <1>10, <1>12, <2>3, <3>3, <4>2, <4>3 DEF SentReq
    <3>. QED
      BY <3>2, <3>3
  <2>5. CASE SlotOf(p) = s /\ p.pkt_num < d.slot[s].num_tx
    BY <2>5 DEF SentReq
  <2>. QED
    BY <1>10, <1>14, <2>1, <2>4, <2>5
<1>15. /\ \A t \in Slots : e.slot[t] = d.slot[t] /\ e.slot[t].wheel_count = 0
       /\ SameRequests(cl, e)
  BY <1>1, <1>10, <1>11 DEF Unpaced, OnlySlot, SameRequests
<1>16. Unpaced(e, sv, m)
  BY <1>1, <1>10, <1>11, <1>13, <1>14, <1>15, DrainedUnpaced
<1>. QED
  BY <1>1, <1>16, UnpacedPrimed

(* The server's steps.  Slots that the client has nothing posted for may   *)
(* change; no request packet is added to the wire.                         *)
LEMMA ServerUnpaced ==
    ASSUME NEW c \in Clients, NEW v \in Servers, NEW w, NEW n \in SUBSET Packets, NEW m,
           Unpaced(c, v, n),
           \A s \in Slots : SentReceived(c.slot[s], w.slot[s]),
           \A p \in m : p.type = "kReq" => p \in n,
           \A p \in c.out : p.type = "kReq" =>
               PostedReq(p, c.slot[SlotOf(p)], w.slot[SlotOf(p)], n)
    PROVE  Unpaced(c, w, m)
<1>1. ASSUME NEW p \in c.out, p.type = "kReq"
      PROVE  PostedReq(p, c.slot[SlotOf(p)], w.slot[SlotOf(p)], m)
  <2>1. PostedReq(p, c.slot[SlotOf(p)], w.slot[SlotOf(p)], n)
    BY <1>1
  <2>. QED
    BY <1>1, <2>1 DEF PostedReq
<1>2. \A p \in m \cup c.out : p.type = "kReq" => SentReq(p, c.slot[SlotOf(p)])
  BY DEF Unpaced
<1>. QED
  BY <1>1, <1>2 DEF Unpaced

LEMMA SameSlotsUnpaced ==
    ASSUME IInv, UnpacedInv, sv'.slot = sv.slot, UNCHANGED cl, NEW m, net' = m,
           \A p \in m : p.type = "kReq" => p \in net
    PROVE  UnpacedInv'
<1>. DEFINE w == sv'
<1>1. /\ cl \in Clients /\ sv \in Servers /\ net \in SUBSET Packets /\ Unpaced(cl, sv, net)
      /\ sv' = w /\ w.slot = sv.slot
  BY DEF IInv, Inv, UnpacedInv
<1>. HIDE DEF w
<1>2. /\ \A s \in Slots : SentReceived(cl.slot[s], w.slot[s])
      /\ \A p \in cl.out : p.type = "kReq" =>
            PostedReq(p, cl.slot[SlotOf(p)], w.slot[SlotOf(p)], net)
  BY <1>1 DEF Unpaced
<1>3. Unpaced(cl, w, m)
  BY <1>1, <1>2, ServerUnpaced
<1>. QED
  BY <1>1, <1>3, UnpacedPrimed

(* One slot changes. *)
LEMMA SlotUnpaced ==
    ASSUME IInv, UnpacedInv, UNCHANGED <<cl, net>>, NEW s \in Slots, NEW new,
           sv'.slot = [sv.slot EXCEPT ![s] = new], SentReceived(cl.slot[s], new),
           \A p \in cl.out : p.type = "kReq" /\ SlotOf(p) = s =>
               PostedReq(p, cl.slot[s], new, net)
    PROVE  UnpacedInv'
<1>. DEFINE w == sv'
<1>1. /\ cl \in Clients /\ sv \in Servers /\ net \in SUBSET Packets /\ Unpaced(cl, sv, net)
      /\ sv' = w /\ DOMAIN sv.slot = Slots
  BY DEF IInv, Inv, UnpacedInv, Servers
<1>2. w.slot = [sv.slot EXCEPT ![s] = new]
  OBVIOUS
<1>. HIDE DEF w
<1>3. w.slot[s] = new /\ \A t \in Slots \ {s} : w.slot[t] = sv.slot[t]
  BY <1>1, <1>2
<1>4. \A p \in cl.out : SlotOf(p) \in Slots
  BY <1>1, PacketFields, ClientFields
<1>5. \A t \in Slots : SentReceived(cl.slot[t], w.slot[t])
  BY <1>1, <1>3 DEF Unpaced
<1>6. ASSUME NEW p \in cl.out, p.type = "kReq"
      PROVE  PostedReq(p, cl.slot[SlotOf(p)], w.slot[SlotOf(p)], net)
  BY <1>1, <1>3, <1>4, <1>6 DEF Unpaced
<1>7. Unpaced(cl, w, net)
  BY <1>1, <1>5, <1>6, ServerUnpaced
<1>. QED
  BY <1>1, <1>7, UnpacedPrimed

LEMMA ResendUnpaced ==
    ASSUME IInv, UnpacedInv, NEW sl, NEW i, Resend(sl, i)
    PROVE  UnpacedInv'
<1>. DEFINE m == net \cup sv.out \cup {RespPkt(sl, i)}
<1>1. sv'.slot = sv.slot /\ UNCHANGED cl /\ net' = m
  BY DEF IInv, Inv, Servers, Resend
<1>2. RespPkt(sl, i).type # "kReq"
  BY DEF RespPkt, Pkt
<1>3. \A p \in m : p.type = "kReq" => p \in net
  BY <1>2 DEF IInv, Inv, WaysOK, ToServer
<1>. HIDE DEF m
<1>. QED
  BY <1>1, <1>3, SameSlotsUnpaced

LEMMA ReceivedUnpaced ==
    ASSUME IInv, UnpacedInv, NEW p \in net, p.type = "kReq",
           NextInOrder(sv.slot[SlotOf(p)], p),
           sv'.slot = [sv.slot EXCEPT ![SlotOf(p)] = Received(sv.slot[SlotOf(p)], p)],
           UNCHANGED <<cl, net>>
    PROVE  UnpacedInv'
<1>. DEFINE s == SlotOf(p)  cs == cl.slot[s]  vs == sv.slot[s]  new == Received(vs, p)
<1>1. /\ Inv(cl, sv, net, {}) /\ cl \in Clients /\ sv \in Servers /\ net \in SUBSET Packets
      /\ Unpaced(cl, sv, net) /\ p \in Packets
  BY DEF IInv, Inv, UnpacedInv
<1>2. /\ s \in Slots /\ p.pkt_num \in Nat /\ vs.num_rx \in Nat /\ vs.req_num \in Nat
      /\ cs.num_tx \in Nat
  BY <1>1, PacketFields, ServerFields, ClientFields
<1>3. ReceivedOK(cl, sv, p)
  BY <1>1, ReceivedFacts
<1>4. p.data \in Requests /\ p.pkts = ReqPkts[p.data]
  BY <1>1, ReqPktFacts
<1>5. /\ new.req_num = p.req_num /\ new.resp = None /\ new.num_rx = ReceivedNum(vs, p)
      /\ cs.req_num = p.req_num /\ cs.req = p.data
      /\ \/ p.req_num = vs.req_num + Window /\ p.pkt_num = 0
         \/ p.req_num = vs.req_num /\ vs.resp = None /\ p.pkt_num > 0
  BY <1>3 DEF ReceivedOK
<1>6. cs.req # None
  BY <1>4, <1>5, Constants
<1>7. new.num_rx = p.pkt_num + 1
  BY <1>2, <1>5, Constants DEF NextInOrder, ReceivedNum
<1>. HIDE DEF new
<1>8. SentReq(p, cs)
  BY <1>1 DEF Unpaced
<1>9. SentReceived(cs, new)
  BY <1>2, <1>5, <1>6, <1>7, <1>8 DEF SentReq, SentReceived
<1>10. ASSUME NEW q \in cl.out, q.type = "kReq", SlotOf(q) = s
       PROVE  PostedReq(q, cs, new, net)
  <2>1. PostedReq(q, cs, vs, net)
    BY <1>1, <1>10 DEF Unpaced
  <2>2. q \in Packets
    BY <1>1, ClientFields
  <2>3. q.pkt_num \in Nat
    BY <2>2, PacketFields
  <2>4. PacketOK(q, cs, vs)
    BY <1>1, <1>10 DEF Inv, PacketsOK
  <2>5. q.req_num = cs.req_num /\ q.data = cs.req /\ q.pkts = ReqPkts[cs.req] /\ q # p
    BY <1>6, <1>10, <2>1, <2>4 DEF PostedReq, PacketOK, ReqPktOK
  <2>6. q.pkt_num # p.pkt_num
    BY <1>1, <1>4, <1>5, <1>10, <2>2, <2>5 DEF Packets
  <2>7. p.req_num = vs.req_num => vs.num_rx <= q.pkt_num /\ vs.num_rx = p.pkt_num
    BY <1>2, <1>5, <2>1, Constants DEF PostedReq, NextInOrder
  <2>8. new.num_rx <= q.pkt_num
    BY <1>2, <1>5, <1>7, <2>3, <2>6, <2>7
  <2>. QED
    BY <1>5, <2>1, <2>8 DEF PostedReq
<1>. QED
  BY <1>2, <1>9, <1>10, SlotUnpaced DEF new

LEMMA ReqUnpaced ==
    ASSUME IInv, UnpacedInv, NEW p \in net, ProcessSmallReq(p) \/ ProcessLargeReq(p)
    PROVE  UnpacedInv'
<1>. DEFINE s == SlotOf(p)  vs == sv.slot[s]
<1>1. CASE Resend(vs, 0)
  BY <1>1, ResendUnpaced
<1>2. CASE sv' = [sv EXCEPT !.out = @ \cup Reply(p)] /\ UNCHANGED <<cl, net>>
  <2>1. sv'.slot = sv.slot
    BY <1>2 DEF IInv, Inv, Servers
  <2>. QED
    BY <1>2, <2>1, SameSlotsUnpaced
<1>3. CASE /\ p.type = "kReq" /\ NextInOrder(vs, p)
           /\ sv'.slot = [sv.slot EXCEPT ![s] = Received(vs, p)] /\ UNCHANGED <<cl, net>>
  BY <1>3, ReceivedUnpaced
<1>4. ASSUME ProcessSmallReq(p) PROVE UnpacedInv'
  BY <1>1, <1>3, <1>4, SmallReqReceives
<1>5. ASSUME ProcessLargeReq(p) PROVE UnpacedInv'
  BY <1>1, <1>2, <1>3, <1>5, LargeReqReceives
<1>. QED
  BY <1>4, <1>5

LEMMA EnqueueResponseUnpaced ==
    ASSUME IInv, UnpacedInv, NEW s \in Slots, EnqueueResponse(s)
    PROVE  UnpacedInv'
<1>. DEFINE cs == cl.slot[s]  vs == sv.slot[s]  new == Responded(vs)
<1>1. sv'.slot = [sv.slot EXCEPT ![s] = new] /\ vs.busy
  BY ResponseSlot
<1>2. /\ cs.req \in Requests /\ vs.req_num = cs.req_num /\ Receiving(vs)
      /\ new.resp = cs.req /\ new.req_num = vs.req_num /\ new.num_rx = vs.num_rx
  BY ResponseSlot
<1>3. new.num_rx = ReqPkts[cs.req]
  BY ResponseSlot
<1>4. /\ Inv(cl, sv, net, {}) /\ cl \in Clients /\ UNCHANGED <<cl, net>>
      /\ Unpaced(cl, sv, net)
  BY DEF EnqueueResponse, IInv, Inv, UnpacedInv
<1>. HIDE DEF new
<1>5. cs.req # None /\ cs.num_tx \in Nat /\ ReqPkts[cs.req] \in Nat
  BY <1>2, <1>4, ClientFields, Constants
<1>6. SentReceived(cs, vs)
  BY <1>4 DEF Unpaced
<1>7. SentReceived(cs, new)
  BY <1>2, <1>3, <1>5, <1>6 DEF SentReceived
<1>8. ASSUME NEW q \in cl.out, q.type = "kReq", SlotOf(q) = s PROVE FALSE
  <2>1. PostedReq(q, cs, vs, net) /\ PacketOK(q, cs, vs)
    BY <1>4, <1>8 DEF Unpaced, Inv, PacketsOK
  <2>2. q.pkt_num \in Nat
    BY <1>4, PacketFields, ClientFields
  <2>. QED
    BY <1>2, <1>3, <1>5, <1>8, <2>1, <2>2 DEF PostedReq, PacketOK, ReqPktOK
<1>. QED
  BY <1>1, <1>4, <1>7, <1>8, SlotUnpaced

LEMMA ProcessRFRUnpaced ==
    ASSUME IInv, UnpacedInv, NEW p \in net, ProcessRFR(p)
    PROVE  UnpacedInv'
<1>. DEFINE s == SlotOf(p)  cs == cl.slot[s]  vs == sv.slot[s]
            i == resp_ntoi(p.pkt_num, vs.sav)  new == [vs EXCEPT !.num_rx = @ + 1]
<1>1. CASE p.pkt_num < vs.num_rx /\ Resend(vs, i)
  BY <1>1, ResendUnpaced
<1>2. CASE ~(p.pkt_num < vs.num_rx /\ Resend(vs, i))
  <2>1. sv'.slot = [sv.slot EXCEPT ![s] = new] /\ UNCHANGED <<cl, net>>
    BY <1>2, RfrSlot
  <2>2. /\ new.req_num = vs.req_num /\ new.resp = vs.resp /\ p.type = "kRFR"
        /\ p.req_num = vs.req_num
    BY <1>2, RfrSlot
  <2>3. Inv(cl, sv, net, {}) /\ Unpaced(cl, sv, net)
    BY DEF IInv, UnpacedInv
  <2>4. s \in Slots /\ vs.resp # None
    BY <2>2, <2>3, RfrFacts
  <2>. HIDE DEF new
  <2>5. SentReceived(cs, vs)
    BY <2>3, <2>4 DEF Unpaced
  <2>6. SentReceived(cs, new)
    BY <2>2, <2>4, <2>5 DEF SentReceived
  <2>7. ASSUME NEW q \in cl.out, q.type = "kReq", SlotOf(q) = s
        PROVE  PostedReq(q, cs, new, net)
    <3>1. PostedReq(q, cs, vs, net)
      BY <2>3, <2>7 DEF Unpaced
    <3>. QED
      BY <2>2, <2>4, <3>1 DEF PostedReq
  <2>. QED
    BY <2>1, <2>4, <2>6, <2>7, SlotUnpaced
<1>. QED
  BY <1>1, <1>2

LEMMA ClientTxUnpaced ==
    ASSUME IInv, UnpacedInv, ClientTx
    PROVE  UnpacedInv'
<1>. DEFINE d == [cl EXCEPT !.out = {}]  m == net \cup cl.out
<1>1. cl' = d /\ net' = m /\ UNCHANGED sv /\ cl \in Clients /\ Unpaced(cl, sv, net)
  BY DEF ClientTx, Drain, IInv, Inv, UnpacedInv
<1>2. d.slot = cl.slot /\ d.wheel = cl.wheel /\ d.out = {}
  BY <1>1 DEF Clients
<1>. HIDE DEF d
<1>3. /\ d.wheel = {} /\ \A t \in Slots : d.slot[t].wheel_count = 0
      /\ \A t \in Slots : SentReceived(d.slot[t], sv.slot[t])
      /\ \A p \in m : p.type = "kReq" => SentReq(p, d.slot[SlotOf(p)])
      /\ SameRequests(cl, d)
  BY <1>1, <1>2 DEF Unpaced, SameRequests
<1>. HIDE DEF m
<1>4. Unpaced(d, sv, m)
  BY <1>1, <1>2, <1>3, DrainedUnpaced
<1>. QED
  BY <1>1, <1>4, UnpacedPrimed

LEMMA UnpacedStep ==
    ASSUME ~MayPace, IInv, HistoryOK, UnpacedInv, [Next]_vars
    PROVE  UnpacedInv'
<1>1. Congestion = {TRUE}
  BY DEF Congestion
<1>2. ASSUME NEW p \in net, Deliver(p) PROVE UnpacedInv'
  BY <1>1, <1>2, ExplCRUnpaced, ProcessRespUnpaced, ReqUnpaced, ProcessRFRUnpaced DEF Deliver
<1>3. ASSUME NEW s, NEW i, ProcessWheel(s, i) PROVE UnpacedInv'
  <2>1. FALSE
    BY <1>3 DEF ProcessWheel, UnpacedInv, Unpaced
  <2>. QED
    BY <2>1
<1>4. CASE ServerTx
  <2>1. /\ sv'.slot = sv.slot /\ UNCHANGED cl /\ net' = net \cup sv.out
        /\ \A p \in net \cup sv.out : p.type = "kReq" => p \in net
    BY <1>4 DEF ServerTx, IInv, Inv, Servers, WaysOK, ToServer
  <2>. QED
    BY <2>1, SameSlotsUnpaced
<1>5. ASSUME NEW p, Lose(p) PROVE UnpacedInv'
  <2>1. /\ sv'.slot = sv.slot /\ UNCHANGED cl /\ net' = net \ {p}
        /\ \A q \in net \ {p} : q.type = "kReq" => q \in net
    BY <1>5 DEF Lose
  <2>. QED
    BY <2>1, SameSlotsUnpaced
<1>6. CASE UNCHANGED vars
  BY <1>6, SameSlotsUnpaced DEF vars
<1>7. ASSUME NEW u \in Congestion, EnqueueRequest(u) \/ ProcessStallQueue(u) PROVE UnpacedInv'
  BY <1>1, <1>7, EnqueueRequestUnpaced, StallQueueUnpaced
<1>8. ASSUME NEW s \in Slots, NEW u \in Congestion, PktLossRetransmit(s, u) PROVE UnpacedInv'
  BY <1>1, <1>8, RetransmitUnpaced
<1>. QED
  BY <1>2, <1>3, <1>4, <1>5, <1>6, <1>7, <1>8, EnqueueResponseUnpaced, ClientTxUnpaced DEF Next

(* Without pacing, a request packet in the client's TX batch or DMA queue  *)
(* refers to a request that its slot still carries: process_resp_one_st    *)
(* may give the request's buffer back to the caller, because pkt_loss_     *)
(* retransmit_st drains both and so the server cannot have answered a      *)
(* request that is still to be read.  With pacing this is false: a packet  *)
(* that leaves the wheel after its retransmission was drained is posted    *)
(* and not drained.                                                        *)
THEOREM UnpacedClientTxLive == ASSUME ~MayPace PROVE Spec => []ClientTxLive
<1>1. Init => UnpacedInv
  <2>. SUFFICES ASSUME Init PROVE UnpacedInv
    OBVIOUS
  <2>1. /\ cl.wheel = {} /\ cl.out = {} /\ net = {}
        /\ \A s \in Slots : cl.slot[s].req = None /\ cl.slot[s].wheel_count = 0
    BY DEF Init, ClientSlot
  <2>. QED
    BY <2>1 DEF UnpacedInv, Unpaced, SentReceived
<1>2. IInv /\ HistoryOK /\ UnpacedInv /\ [Next]_vars => UnpacedInv'
  BY UnpacedStep
<1>3. UnpacedInv => ClientTxLive
  BY DEF UnpacedInv, Unpaced, PostedReq, ClientTxLive, Active
<1>. QED
  BY <1>1, <1>2, <1>3, Invariant, PTL DEF Spec

================================================================================
