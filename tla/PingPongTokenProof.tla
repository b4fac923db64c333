------------------------- MODULE PingPongTokenProof -------------------------
(***************************************************************************)
(* Where the packets of rclc/ping_pong_sel4 are: there is never more than  *)
(* one ping or pong on its way, the two domains never wait for one         *)
(* another, and with rings of one block nobody sleeps on a packet.         *)
(*                                                                         *)
(* PingPongSel4Proof says how the rings are used.  Here a packet is        *)
(* followed from place to place, from the decision to publish it to its    *)
(* receipt.  With rings of one block that goes also when VMM uses vmm2pp   *)
(* before PP initialises it: see EraInv.                                   *)
(***************************************************************************)
EXTENDS PingPongSel4Proof, SequenceTheorems

Places == {"out", "tx", "inbox", "outbox", "send", "rx"}

Part ==
  [x \in Places |->
     CASE x = "out" -> IF pp.pc \in {"publish", "write"} THEN << pp.msg >> ELSE << >>
       [] x = "tx" -> IF p2vCons.pc = "pop" THEN Tail(P2V!Contents) ELSE P2V!Contents
       [] x = "inbox" -> guest.inbox
       [] x = "outbox" -> guest.outbox
       [] x = "send" -> IF vmm.pc = "notify" THEN Tail(vmm.tx) ELSE vmm.tx
       [] x = "rx" -> V2P!Contents]

Balls == {"ping", "pong"}

(* With one answer to a request everything but the guest's own packets is   *)
(* one token that goes round; with more only the ball is.                   *)
Token == IF ReplyBurst = 1 THEN Message \ Noise ELSE Balls

\* No element of s is in S; at most one is.
Free(s, S) == \A i \in DOMAIN s : s[i] \notin S
Once(s, S) == \A i, j \in DOMAIN s : s[i] \in S /\ s[j] \in S => i = j

Single(P, S) ==
  /\ \A x \in Places : Once(P[x], S)
  /\ \A x, y \in Places : ~Free(P[x], S) /\ ~Free(P[y], S) => x = y

(* PP waits for answers before it has its publishers, and afterwards passes *)
(* the ball: whatever it is sent.                                           *)
ControlInv ==
  /\ pp.pc = "transport" => ~pp.publishers /\ pp.calls = 0
  /\ pp.calls > 0 => ~pp.publishers
  /\ pp.pc \in {"wait", "dispatch", "check"} /\ pp.rings => pp.publishers
  /\ pp.pc \in {"write", "notify"} =>
       IF pp.msg = "request" THEN pp.calls > 0 ELSE pp.publishers /\ pp.calls = 0
  /\ pp.pc = "read" /\ pp.calls = 0 => pp.publishers
  /\ pp.pc = "publish" => pp.msg \in Balls

(* Before the publishers exist there is no ping and no pong but the one     *)
(* that send_impl is about to be refused.                                   *)
NoBalls ==
  ~pp.publishers => /\ \A x \in Places \ {"out", "rx"} : Free(Part[x], Balls)
                    /\ \A i \in V2P!Slots : v2pBlock[i] \notin Balls

\* While PP decides what to send no token is left anywhere.
TokenInv(S) ==
  /\ Quiet \/ pp.pc \in {"transport", "setup"} => \A x \in Places : Free(Part[x], S)
  /\ Single(Part, S)

(* What the way of a packet needs of vmm2pp in a step: nothing comes out    *)
(* that was not in it.                                                      *)
Delivers ==
  /\ PpCheck \/ PpInitRx => V2P!Contents' = V2P!Contents
  /\ PpRead => \/ pp' = pp /\ V2P!Contents' = V2P!Contents
               \/ /\ V2P!Contents # << >>
                  /\ pp' = AfterRead(Head(V2P!Contents))
                  /\ V2P!Contents' = Tail(V2P!Contents)
  /\ VmmTx => \/ vmm' = vmm /\ V2P!Contents' = V2P!Contents
              \/ /\ vmm' = [vmm EXCEPT !.pc = "notify"]
                 /\ V2P!Contents' \in {V2P!Contents, Append(V2P!Contents, Head(vmm.tx))}

(* A ring of one packet: whatever it holds is announced, or is being dealt  *)
(* with.                                                                    *)
WakeInv ==
  /\ V2P!Contents # << >> =>
       \/ vmm.pc = "notify" \/ "pingpong" \in pp.badge \cup ppPending
       \/ pp.pc \in {"check", "read", "faulted"}
  /\ P2V!Contents # << >> => vmmPending \/ pp.pc = "notify" \/ vmm.pc \in {"drain", "send"}
-----------------------------------------------------------------------------
(* A packet that goes from one place to another.                            *)

(* From P to Q something may have gone from x to y, and nothing else has    *)
(* changed that is in S.                                                    *)
Moved(P, Q, x, y, S) ==
  /\ x \in Places /\ y \in Places /\ x # y
  /\ \A z \in Places \ {x, y} : Q[z] = P[z]
  /\ Free(P[x], S) => Free(Q[x], S)
  /\ Free(P[x], S) /\ Free(P[y], S) => Free(Q[y], S)
  /\ Once(P[x], S) /\ Once(P[y], S) /\ (Free(P[x], S) \/ Free(P[y], S)) =>
       Once(Q[x], S) /\ Once(Q[y], S) /\ (Free(Q[x], S) \/ Free(Q[y], S))

\* One token stays one token.
LEMMA MovedSingle ==
  ASSUME NEW P, NEW Q, NEW x, NEW y, NEW S, Single(P, S), Moved(P, Q, x, y, S)
  PROVE  Single(Q, S)
<1>1. x \in Places /\ y \in Places /\ x # y /\ \A z \in Places \ {x, y} : Q[z] = P[z]
  BY DEF Moved
<1>2. Once(P[x], S) /\ Once(P[y], S) /\ (Free(P[x], S) \/ Free(P[y], S))
  BY <1>1 DEF Single
<1>3. Once(Q[x], S) /\ Once(Q[y], S) /\ (Free(Q[x], S) \/ Free(Q[y], S))
  BY <1>2 DEF Moved
<1>4. ASSUME NEW z \in Places
      PROVE  Once(Q[z], S)
  BY <1>1, <1>3 DEF Single
<1>5. ASSUME NEW z \in Places \ {x, y}, ~Free(Q[z], S)
      PROVE  Free(Q[x], S) /\ Free(Q[y], S)
  BY <1>1, <1>5 DEF Single, Moved
<1>6. ASSUME NEW z \in Places, NEW w \in Places, ~Free(Q[z], S), ~Free(Q[w], S)
      PROVE  z = w
  BY <1>1, <1>3, <1>5, <1>6 DEF Single
<1> QED
  BY <1>4, <1>6 DEF Single

\* Where there was none there is none.
LEMMA MovedFree ==
  ASSUME NEW P, NEW Q, NEW S, NEW Z \in SUBSET Places, NEW x \in Z, NEW y \in Z,
         Moved(P, Q, x, y, S), \A z \in Z : Free(P[z], S)
  PROVE  \A z \in Z : Free(Q[z], S)
BY DEF Moved

\* The first of a sequence is taken, and at most as much added elsewhere.
LEMMA HandOver ==
  ASSUME NEW M, NEW S, NEW s \in Seq(M), s # << >>, NEW t \in Seq(M), NEW u \in Seq(M),
         Once(u, S), Free(u, S) \/ Head(s) \in S
  PROVE  /\ Free(s, S) => Free(Tail(s), S)
         /\ Free(s, S) /\ Free(t, S) => Free(t \o u, S)
         /\ Once(s, S) /\ Once(t, S) /\ (Free(s, S) \/ Free(t, S)) =>
              Once(Tail(s), S) /\ Once(t \o u, S) /\ (Free(Tail(s), S) \/ Free(t \o u, S))
<1>1. /\ Head(s) = s[1] /\ 1 \in DOMAIN s
      /\ \A i \in DOMAIN Tail(s) : i + 1 \in DOMAIN s /\ i + 1 # 1 /\ Tail(s)[i] = s[i + 1] /\ i \in Nat
  OBVIOUS
<1>2. \A i \in DOMAIN (t \o u) :
         \/ i \in DOMAIN t /\ (t \o u)[i] = t[i]
         \/ i - Len(t) \in DOMAIN u /\ (t \o u)[i] = u[i - Len(t)]
  OBVIOUS
<1>3. Free(s, S) => Free(Tail(s), S)
  BY <1>1 DEF Free
<1>4. Free(s, S) => Free(u, S)
  BY <1>1 DEF Free
<1>5. Free(t, S) /\ Free(u, S) => Free(t \o u, S)
  BY <1>2 DEF Free
<1>6. Once(s, S) => Once(Tail(s), S)
  BY <1>1 DEF Once
<1>7. Once(t, S) /\ (Free(t, S) \/ Free(u, S)) => Once(t \o u, S)
  <2>1. Len(t) \in Nat /\ DOMAIN (t \o u) \subseteq Nat
    OBVIOUS
  <2> QED
    BY <1>2, <2>1 DEF Once, Free
<1>8. ~Free(u, S) /\ Once(s, S) => Free(Tail(s), S)
  BY <1>1 DEF Once, Free
<1> QED
  BY <1>3, <1>4, <1>5, <1>6, <1>7, <1>8

\* So something moves.
LEMMA HandOverMoves ==
  ASSUME NEW P, NEW Q, NEW M, NEW S, NEW x \in Places, NEW y \in Places \ {x},
         P[x] \in Seq(M), P[x] # << >>, P[y] \in Seq(M),
         NEW u \in Seq(M), Once(u, S), Free(u, S) \/ Head(P[x]) \in S,
         Q[x] = Tail(P[x]), Q[y] = P[y] \o u, \A z \in Places \ {x, y} : Q[z] = P[z]
  PROVE  Moved(P, Q, x, y, S)
<1> DEFINE s == P[x]
           t == P[y]
<1>1. /\ Free(s, S) => Free(Tail(s), S)
      /\ Free(s, S) /\ Free(t, S) => Free(t \o u, S)
      /\ Once(s, S) /\ Once(t, S) /\ (Free(s, S) \/ Free(t, S)) =>
           Once(Tail(s), S) /\ Once(t \o u, S) /\ (Free(Tail(s), S) \/ Free(t \o u, S))
  <2>1. s \in Seq(M) /\ s # << >> /\ t \in Seq(M) /\ (Free(u, S) \/ Head(s) \in S)
    OBVIOUS
  <2> HIDE DEF s, t
  <2> QED
    BY <2>1, HandOver
<1> QED
  BY <1>1 DEF Moved
-----------------------------------------------------------------------------
(* The places, one by one.                                                  *)

\* What there may be in them.
Packet == Message \cup {NoMessage}

\* What Part says of each place.
LEMMA PartValues ==
  /\ Part["out"] = IF pp.pc \in {"publish", "write"} THEN << pp.msg >> ELSE << >>
  /\ Part["tx"] = IF p2vCons.pc = "pop" THEN Tail(P2V!Contents) ELSE P2V!Contents
  /\ Part["inbox"] = guest.inbox
  /\ Part["outbox"] = guest.outbox
  /\ Part["send"] = IF vmm.pc = "notify" THEN Tail(vmm.tx) ELSE vmm.tx
  /\ Part["rx"] = V2P!Contents
BY DEF Part, Places

\* The same of the next state.
LEMMA PartNext ==
  /\ Part'["out"] = IF pp'.pc \in {"publish", "write"} THEN << pp'.msg >> ELSE << >>
  /\ Part'["tx"] = IF p2vCons'.pc = "pop" THEN Tail(P2V!Contents') ELSE P2V!Contents'
  /\ Part'["inbox"] = guest'.inbox
  /\ Part'["outbox"] = guest'.outbox
  /\ Part'["send"] = IF vmm'.pc = "notify" THEN Tail(vmm'.tx) ELSE vmm'.tx
  /\ Part'["rx"] = V2P!Contents'
BY DEF Part, Places

\* Two states with the same in every place.
LEMMA PartSame ==
  ASSUME Part'["out"] = Part["out"], Part'["tx"] = Part["tx"], Part'["inbox"] = Part["inbox"],
         Part'["outbox"] = Part["outbox"], Part'["send"] = Part["send"], Part'["rx"] = Part["rx"]
  PROVE  \A z \in Places : Part'[z] = Part[z]
BY DEF Places

\* Every place holds a sequence of packets.
LEMMA PartTypes ==
  ASSUME BootInv
  PROVE  \A z \in Places : Part[z] \in Seq(Packet)
<1>1. /\ pp.msg \in Packet
      /\ vmm.tx \in Seq(Packet) /\ guest.inbox \in Seq(Packet) /\ guest.outbox \in Seq(Packet)
  BY DEF BootInv, DomainTypes, Packet
<1>2. P2V!Contents \in Seq(Packet) /\ V2P!Contents \in Seq(Packet)
  BY TxAssumptions, RxAssumptions, TxStates, RxStates, Tx!UserContents, Rx!ContentsType
     DEF BootInv, TxInv, Packet
<1>3. vmm.pc = "notify" => vmm.tx # << >>
  BY DEF BootInv, RoleInv
<1>4. p2vCons.pc = "pop" => P2V!Contents # << >>
  BY TxAssumptions, TxStates, Tx!OldestHeld DEF BootInv, TxInv, Tx!UserInv, Tx!IInv
<1>5. /\ Part["out"] \in Seq(Packet) /\ Part["tx"] \in Seq(Packet) /\ Part["inbox"] \in Seq(Packet)
      /\ Part["outbox"] \in Seq(Packet) /\ Part["send"] \in Seq(Packet) /\ Part["rx"] \in Seq(Packet)
  <2> HIDE DEF Packet
  <2> QED
    BY <1>1, <1>2, <1>3, <1>4, PartValues
<1> QED
  BY <1>5 DEF Places

\* Tokens and balls: the guest's own packets are neither, and a status is one
\* when a request is.
LEMMA Kinds ==
  ASSUME NEW S \in {Token, Balls}
  PROVE  /\ Balls \subseteq S /\ S \subseteq Message /\ NoMessage \notin S
         /\ \A k \in Noise : k \notin S
         /\ "status" \in S <=> "request" \in S
         /\ "status" \in S => ReplyBurst = 1
BY Packets DEF Token, Balls, Noise, NoMessage

\* In short sequences.
LEMMA Short ==
  /\ \A S : Once(<< >>, S) /\ Free(<< >>, S)
  /\ \A S, m : Once(<< m >>, S) /\ (Free(<< m >>, S) <=> m \notin S)
BY DEF Once, Free
-----------------------------------------------------------------------------
(* What each action moves.                                                  *)

\* A ring nobody touches holds what it held.
LEMMA ContentsKept ==
  /\ UNCHANGED p2v => P2V!Contents' = P2V!Contents /\ p2vCons' = p2vCons
  /\ UNCHANGED v2p => V2P!Contents' = V2P!Contents /\ v2pCons' = v2pCons
BY DEF p2v, v2p, P2V!Contents, P2V!Dist, P2V!Slot, V2P!Contents, V2P!Dist, V2P!Slot

\* The event loop of PP, and initialising the rings, which are empty.
LEMMA PpStill ==
  ASSUME BootInv,
         \/ PpReceive \/ PpNotified \/ PpNullRing \/ PpCheck \/ PpInitTx \/ PpInitRx \/ PpNotify
  PROVE  /\ \A z \in Places \ {"rx"} : Part'[z] = Part[z]
         /\ P2V!Contents' = P2V!Contents
         /\ Delivers => \A z \in Places : Part'[z] = Part[z]
<1>1. UNCHANGED << vmm, guest >> /\ p2vCons' = p2vCons
  BY DEF PpReceive, PpNotified, PpNullRing, PpCheck, PpInitTx, PpInitRx, PpNotify, p2v
<1>2. pp.pc \notin {"publish", "write"} /\ pp'.pc \notin {"publish", "write"}
  <2>5. DomainTypes
    BY DEF BootInv
  <2>1. CASE PpReceive \/ PpNotified
    BY <2>1, <2>5 DEF PpReceive, PpNotified, DomainTypes
  <2>2. CASE PpNullRing \/ PpCheck
    BY <2>2, <2>5 DEF PpNullRing, PpCheck, DomainTypes
  <2>3. CASE PpInitTx \/ PpInitRx
    BY <2>3, <2>5 DEF PpInitTx, PpInitRx, DomainTypes
  <2>4. CASE PpNotify
    BY <2>4, <2>5 DEF PpNotify, DomainTypes
  <2> QED
    BY <2>1, <2>2, <2>3, <2>4
<1>3. P2V!Contents' = P2V!Contents
  <2>1. p2vQ' = p2vQ /\ p2vBlock' = p2vBlock
    BY DEF PpReceive, PpNotified, PpNullRing, PpCheck, PpInitTx, PpInitRx, PpNotify, p2v,
           BootInv, ReadyInv, QuietInv, Quiet
  <2> QED
    BY <2>1 DEF P2V!Contents, P2V!Dist, P2V!Slot
<1>4. Part'["out"] = Part["out"] /\ Part'["tx"] = Part["tx"] /\ Part'["inbox"] = Part["inbox"]
      /\ Part'["outbox"] = Part["outbox"] /\ Part'["send"] = Part["send"]
  BY <1>1, <1>2, <1>3, PartValues, PartNext
<1>5. Delivers => Part'["rx"] = Part["rx"]
  <2>1. CASE PpCheck \/ PpInitRx
    BY <2>1, PartValues, PartNext DEF Delivers
  <2>2. CASE PpReceive \/ PpNotified \/ PpNullRing \/ PpInitTx \/ PpNotify
    BY <2>2, ContentsKept, PartValues, PartNext DEF PpReceive, PpNotified, PpNullRing, PpInitTx, PpNotify
  <2> QED
    BY <2>1, <2>2
<1> QED
  BY <1>3, <1>4, <1>5 DEF Places

\* Deciding what to send, or that nothing can be sent.
LEMMA PpDecides ==
  ASSUME BootInv, PpTransport \/ PpSetup \/ PpPublish
  PROVE  \A z \in Places \ {"out"} : Part'[z] = Part[z]
<1>1. UNCHANGED << p2v, v2p, vmm, guest >>
  BY DEF PpTransport, PpSetup, PpPublish
<1> QED
  BY <1>1, ContentsKept, PartValues, PartNext DEF Places

\* What VMM and the guest do to themselves.
LEMMA OthersStill ==
  ASSUME BootInv,
         \/ VmmReceive \/ VmmDrain \/ VmmReadySignal \/ VmmFaultFails \/ VmmNotify \/ AgentBinds
         \/ UNCHANGED vars
  PROVE  \A z \in Places : Part'[z] = Part[z]
<1>1. /\ P2V!Contents' = P2V!Contents /\ p2vCons' = p2vCons
      /\ V2P!Contents' = V2P!Contents
  <2>1. CASE VmmDrain
    BY <2>1, TxAssumptions, TxSteps, TxStates, TxNext, Tx!UserTests, ContentsKept DEF VmmDrain, BootInv, TxInv
  <2>2. CASE \/ VmmReceive \/ VmmReadySignal \/ VmmFaultFails \/ VmmNotify \/ AgentBinds
             \/ UNCHANGED vars
    BY <2>2, ContentsKept DEF VmmReceive, VmmReadySignal, VmmFaultFails, VmmNotify, AgentBinds, vars
  <2> QED
    BY <2>1, <2>2
<1>2. Part'["out"] = Part["out"]
  <2>1. \/ UNCHANGED pp \/ NotifyPP("ready") \/ NotifyPP("pingpong")
    BY DEF VmmReceive, VmmDrain, VmmReadySignal, VmmFaultFails, VmmNotify, AgentBinds, vars
  <2>2. \/ pp' = pp
        \/ pp.pc = "wait" /\ pp'.pc = "dispatch"
    BY <2>1 DEF NotifyPP, BootInv, DomainTypes
  <2> QED
    BY <2>2, PartValues, PartNext
<1>3. guest'.inbox = guest.inbox /\ guest'.outbox = guest.outbox
  BY DEF VmmReceive, VmmDrain, VmmReadySignal, VmmFaultFails, VmmNotify, AgentBinds, vars, BootInv, DomainTypes
<1>4. Part'["send"] = Part["send"]
  <2>1. CASE VmmNotify
    BY <2>1, PartValues, PartNext DEF VmmNotify, BootInv, DomainTypes
  <2>2. CASE \/ VmmReceive \/ VmmDrain \/ VmmReadySignal \/ VmmFaultFails \/ AgentBinds
             \/ UNCHANGED vars
    <3>1. vmm'.tx = vmm.tx /\ (vmm'.pc = "notify" <=> vmm.pc = "notify")
      BY <2>2 DEF VmmReceive, VmmDrain, VmmReadySignal, VmmFaultFails, AgentBinds, vars, BootInv, DomainTypes
    <3> QED
      BY <3>1, PartValues, PartNext
  <2> QED
    BY <2>1, <2>2
<1> QED
  BY <1>1, <1>2, <1>3, <1>4, PartSame, PartValues, PartNext

\* custom_transport_seL4_write: from PP's hand into pp2vmm.
LEMMA PpWriteMoves ==
  ASSUME BootInv, PpWrite
  PROVE  /\ pp.pc = "write"
         /\ \/ pp' = pp /\ \A z \in Places : Part'[z] = Part[z]
            \/ /\ pp' = [pp EXCEPT !.pc = "notify"]
               /\ Part'["tx"] = Part["tx"] \o << pp.msg >>
               /\ \A z \in Places \ {"out", "tx"} : Part'[z] = Part[z]
               /\ \A S : Moved(Part, Part', "out", "tx", S)
<1>1. pp.pc = "write" /\ pp.msg \in Message /\ pp.msg \in Packet /\ UNCHANGED << v2p, vmm, guest >>
  BY DEF PpWrite, BootInv, RoleInv, Sent, Message, Packet
<1>2. V2P!Contents' = V2P!Contents
  BY <1>1, ContentsKept
<1>3. CASE (P2V!NewBlock(pp.msg) \/ P2V!ReloadFront \/ P2V!FillBlock \/ P2V!Push) /\ UNCHANGED pp
  <2>1. P2V!Contents' = P2V!Contents /\ p2vCons' = p2vCons
    BY <1>1, <1>3, TxAssumptions, TxSteps, TxStates, TxNext, Tx!UserWrites DEF BootInv, TxInv, RoleInv
  <2> QED
    BY <1>1, <1>2, <1>3, <2>1, PartSame, PartValues, PartNext
<1>4. CASE P2V!PublishBack /\ pp' = [pp EXCEPT !.pc = "notify"]
  <2>1. /\ P2V!Contents' = Append(P2V!Contents, p2vProd.pkt) /\ p2vCons' = p2vCons
        /\ p2vProd.pc # "idle"
    BY <1>4, TxAssumptions, TxSteps, TxStates, TxNext, Tx!UserPublishes DEF BootInv, TxInv
  <2>2. p2vProd.pkt = pp.msg
    BY <2>1 DEF BootInv, RoleInv
  <2>3. P2V!Contents \in Seq(Packet) /\ (p2vCons.pc = "pop" => P2V!Contents # << >>)
    BY TxAssumptions, TxStates, Tx!UserContents, Tx!OldestHeld
       DEF BootInv, TxInv, Tx!UserInv, Tx!IInv, Packet
  <2> HIDE DEF Packet
  <2>4. Part'["tx"] = Part["tx"] \o << pp.msg >>
    <3>1. CASE p2vCons.pc = "pop"
      <4>1. Tail(Append(P2V!Contents, pp.msg)) = Append(Tail(P2V!Contents), pp.msg)
        BY <1>1, <2>3, <3>1
      <4>2. Append(Tail(P2V!Contents), pp.msg) = Tail(P2V!Contents) \o << pp.msg >>
        BY <1>1, <2>3, <3>1
      <4> QED
        BY <2>1, <2>2, <3>1, <4>1, <4>2, PartValues, PartNext
    <3>2. CASE p2vCons.pc # "pop"
      <4>1. Append(P2V!Contents, pp.msg) = P2V!Contents \o << pp.msg >>
        BY <1>1, <2>3
      <4> QED
        BY <2>1, <2>2, <3>2, <4>1, PartValues, PartNext
    <3> QED
      BY <3>1, <3>2
  <2>5. \A z \in Places \ {"out", "tx"} : Part'[z] = Part[z]
    BY <1>1, <1>2, PartValues, PartNext DEF Places
  <2>6. Part["out"] = << pp.msg >> /\ Part'["out"] = << >>
    BY <1>1, <1>4, PartValues, PartNext DEF BootInv, DomainTypes
  <2>7. ASSUME NEW S
        PROVE  Moved(Part, Part', "out", "tx", S)
    <3>1. /\ << pp.msg >> \in Seq(Packet) /\ Once(<< pp.msg >>, S)
          /\ Free(<< pp.msg >>, S) \/ Head(<< pp.msg >>) \in S
          /\ Tail(<< pp.msg >>) = << >> /\ << pp.msg >> # << >>
      BY <1>1, Short
    <3>2. Part["tx"] \in Seq(Packet) /\ "out" \in Places /\ "tx" \in Places \ {"out"}
      BY PartTypes DEF Places
    <3> QED
      BY <2>4, <2>5, <2>6, <3>1, <3>2, HandOverMoves
  <2> QED
    BY <1>1, <1>4, <2>4, <2>5, <2>7
<1> QED
  BY <1>1, <1>3, <1>4 DEF PpWrite

\* custom_transport_seL4_read: out of vmm2pp.
LEMMA PpReadMoves ==
  ASSUME BootInv, PpRead
  PROVE  /\ pp.pc = "read" /\ Part["out"] = << >>
         /\ pp' = pp \/ pp' = AfterRead(v2pCons.pkt)
         /\ \A z \in Places \ {"out", "rx"} : Part'[z] = Part[z]
         /\ Delivers =>
              \/ pp' = pp /\ \A z \in Places : Part'[z] = Part[z]
              \/ /\ Part["rx"] \in Seq(Packet) /\ Part["rx"] # << >>
                 /\ pp' = AfterRead(Head(Part["rx"]))
                 /\ Part'["rx"] = Tail(Part["rx"])
<1>1. pp.pc = "read" /\ UNCHANGED << p2v, vmm, guest >> /\ (pp' = pp \/ pp' = AfterRead(v2pCons.pkt))
  BY DEF PpRead
<1>2. P2V!Contents' = P2V!Contents /\ p2vCons' = p2vCons
  BY <1>1, ContentsKept
<1>3. Part["out"] = << >>
  BY <1>1, PartValues
<1>4. \A z \in Places \ {"out", "rx"} : Part'[z] = Part[z]
  BY <1>1, <1>2, PartValues, PartNext DEF Places
<1>5. Part["rx"] \in Seq(Packet) /\ Part["rx"] = V2P!Contents /\ Part'["rx"] = V2P!Contents'
  BY PartTypes, PartValues, PartNext DEF Places
<1>6. ASSUME pp' = pp, V2P!Contents' = V2P!Contents
      PROVE  \A z \in Places : Part'[z] = Part[z]
  BY <1>1, <1>4, <1>5, <1>6, PartValues, PartNext DEF Places
<1> QED
  BY <1>1, <1>3, <1>4, <1>5, <1>6 DEF Delivers

\* send_pkt_to_guest: out of pp2vmm to the guest, when virtIO does not drop it.
LEMMA VmmSendMoves ==
  ASSUME BootInv, VmmSend
  PROVE  \/ \A z \in Places : Part'[z] = Part[z]
         \/ \A S : Moved(Part, Part', "tx", "inbox", S)
<1>1. vmm.pc = "send" /\ UNCHANGED << v2p, pp >> /\ vmm'.pc # "notify" /\ vmm'.tx = vmm.tx
      /\ guest'.outbox = guest.outbox
  BY DEF VmmSend, BootInv, DomainTypes
<1>2. V2P!Contents' = V2P!Contents
  BY <1>1, ContentsKept
<1>3. CASE P2V!FrontBlock /\ UNCHANGED << vmm, guest >>
  <2>1. P2V!Contents' = P2V!Contents /\ p2vCons.pc # "pop" /\ p2vCons'.pc # "pop"
    BY <1>3, TxAssumptions, TxSteps, TxStates, TxNext, Tx!UserFronts DEF BootInv, TxInv
  <2> QED
    BY <1>1, <1>2, <1>3, <2>1, PartSame, PartValues, PartNext
<1>4. CASE /\ P2V!ReadBlock /\ UNCHANGED vmm
           /\ guest' = [guest EXCEPT !.inbox = Append(@, p2vCons'.pkt)] \/ UNCHANGED guest
  <2>1. /\ P2V!Contents' = P2V!Contents /\ p2vCons.pc # "pop" /\ p2vCons'.pc = "pop"
        /\ P2V!Contents # << >> /\ p2vCons'.pkt = Head(P2V!Contents)
    BY <1>4, TxAssumptions, TxSteps, TxStates, TxNext, Tx!UserReads DEF BootInv, TxInv
  <2>2. /\ Part["tx"] = P2V!Contents /\ Part["tx"] # << >> /\ Part["tx"] \in Seq(Packet)
        /\ Part'["tx"] = Tail(Part["tx"])
    BY <2>1, PartTypes, PartValues, PartNext DEF Places
  <2>3. \A z \in Places \ {"tx", "inbox"} : Part'[z] = Part[z]
    BY <1>1, <1>2, <1>4, PartValues, PartNext DEF Places
  <2>4. Part["inbox"] \in Seq(Packet) /\ Head(Part["tx"]) \in Packet
    BY <2>2, PartTypes DEF Places
  <2>5. PICK u \in {<< >>, << Head(Part["tx"]) >>} : Part'["inbox"] = Part["inbox"] \o u
    <3> HIDE DEF Packet
    <3>1. CASE guest' = [guest EXCEPT !.inbox = Append(@, p2vCons'.pkt)]
      <4>1. Part'["inbox"] = Append(Part["inbox"], Head(Part["tx"]))
        BY <2>1, <2>2, <3>1, PartValues, PartNext DEF BootInv, DomainTypes
      <4>2. Append(Part["inbox"], Head(Part["tx"])) = Part["inbox"] \o << Head(Part["tx"]) >>
        BY <2>4, AppendIsConcat
      <4> QED
        BY <4>1, <4>2
    <3>2. CASE UNCHANGED guest
      <4>1. Part'["inbox"] = Part["inbox"]
        BY <3>2, PartValues, PartNext
      <4>2. Part["inbox"] \o << >> = Part["inbox"]
        BY <2>4, ConcatEmptySeq
      <4> QED
        BY <4>1, <4>2
    <3> QED
      BY <1>4, <3>1, <3>2
  <2>6. ASSUME NEW S
        PROVE  Moved(Part, Part', "tx", "inbox", S)
    <3>1. u \in Seq(Packet) /\ Once(u, S) /\ (Free(u, S) \/ Head(Part["tx"]) \in S)
      <4> HIDE DEF Packet
      <4>1. CASE u = << >>
        BY <4>1, Short
      <4>2. CASE u = << Head(Part["tx"]) >>
        BY <2>4, <4>2, Short
      <4> QED
        BY <2>5, <4>1, <4>2
    <3>2. "tx" \in Places /\ "inbox" \in Places \ {"tx"}
      BY DEF Places
    <3> QED
      BY <2>2, <2>3, <2>4, <2>5, <3>1, <3>2, HandOverMoves
  <2> QED
    BY <2>6
<1>5. CASE P2V!Pop /\ vmm' = [vmm EXCEPT !.pc = "drain"] /\ UNCHANGED guest
  <2>1. /\ P2V!Contents' = Tail(P2V!Contents) /\ p2vCons.pc = "pop" /\ p2vCons'.pc = "idle"
    BY <1>5, TxAssumptions, TxSteps, TxStates, TxNext, Tx!UserPops DEF BootInv, TxInv
  <2> QED
    BY <1>1, <1>2, <1>5, <2>1, PartSame, PartValues, PartNext
<1> QED
  BY <1>3, <1>4, <1>5 DEF VmmSend

\* process_tx_pending: out of the guest's device into vmm2pp.
LEMMA VmmTxMoves ==
  ASSUME BootInv, VmmTx
  PROVE  /\ \A z \in Places \ {"send", "rx"} : Part'[z] = Part[z]
         /\ Part["send"] = vmm.tx /\ vmm.tx # << >> /\ vmm.tx \in Seq(Packet)
         /\ vmm' = vmm \/ (vmm' = [vmm EXCEPT !.pc = "notify"] /\ Part'["send"] = Tail(vmm.tx))
         /\ Delivers =>
              \/ \A z \in Places : Part'[z] = Part[z]
              \/ \A S : Moved(Part, Part', "send", "rx", S)
<1>1. vmm.pc = "tx" /\ UNCHANGED << p2v, pp, guest >> /\ vmm.tx \in Seq(Packet) /\ vmm.tx # << >>
      /\ Head(vmm.tx) \in Packet
  BY DEF VmmTx, BootInv, RoleInv, DomainTypes, Packet
<1>2. P2V!Contents' = P2V!Contents /\ p2vCons' = p2vCons
  BY <1>1, ContentsKept
<1>3. Part["send"] = vmm.tx
  BY <1>1, PartValues
<1>4. \A z \in Places \ {"send", "rx"} : Part'[z] = Part[z]
  BY <1>1, <1>2, PartValues, PartNext DEF Places
<1>5. vmm' = vmm \/ vmm' = [vmm EXCEPT !.pc = "notify"]
  BY DEF VmmTx
<1>6. ASSUME vmm' = [vmm EXCEPT !.pc = "notify"]
      PROVE  Part'["send"] = Tail(vmm.tx)
  BY <1>6, PartNext DEF BootInv, DomainTypes
<1>7. Part["rx"] \in Seq(Packet) /\ Part["rx"] = V2P!Contents /\ Part'["rx"] = V2P!Contents'
  BY PartTypes, PartValues, PartNext DEF Places
<1> HIDE DEF Packet
<1>8. CASE vmm' = vmm /\ V2P!Contents' = V2P!Contents
  <2>1. Part'["send"] = Part["send"]
    BY <1>8, PartValues, PartNext
  <2>2. \A z \in Places : Part'[z] = Part[z]
    BY <1>4, <1>7, <1>8, <2>1 DEF Places
  <2> QED
    BY <1>1, <1>3, <1>4, <1>8, <2>2
<1>9. CASE /\ vmm' = [vmm EXCEPT !.pc = "notify"]
           /\ V2P!Contents' \in {V2P!Contents, Append(V2P!Contents, Head(vmm.tx))}
  <2>1. PICK u \in {<< >>, << Head(vmm.tx) >>} : Part'["rx"] = Part["rx"] \o u
    <3>1. Part["rx"] \o << >> = Part["rx"]
      BY <1>7, ConcatEmptySeq
    <3>2. Append(Part["rx"], Head(vmm.tx)) = Part["rx"] \o << Head(vmm.tx) >>
      BY <1>1, <1>7, AppendIsConcat
    <3> QED
      BY <1>7, <1>9, <3>1, <3>2
  <2>2. ASSUME NEW S
        PROVE  Moved(Part, Part', "send", "rx", S)
    <3>1. u \in Seq(Packet) /\ Once(u, S) /\ (Free(u, S) \/ Head(Part["send"]) \in S)
      <4>1. CASE u = << >>
        BY <4>1, Short
      <4>2. CASE u = << Head(vmm.tx) >>
        BY <1>1, <1>3, <4>2, Short
      <4> QED
        BY <2>1, <4>1, <4>2
    <3>2. "send" \in Places /\ "rx" \in Places \ {"send"}
      BY DEF Places
    <3> QED
      BY <1>1, <1>3, <1>4, <1>6, <1>7, <1>9, <2>1, <3>1, <3>2, HandOverMoves
  <2> QED
    BY <1>1, <1>3, <1>4, <1>6, <1>9, <2>2
<1> QED
  BY <1>1, <1>3, <1>4, <1>5, <1>6, <1>8, <1>9 DEF Delivers

\* Packets of which none is in S change nothing about S.
LEMMA Padding ==
  ASSUME NEW M, NEW S, NEW s \in Seq(M), NEW n \in 0 .. Len(s), NEW b \in Seq(M), Free(b, S)
  PROVE  LET a == SubSeq(s, 1, n)
             r == SubSeq(s, n + 1, Len(s))
         IN  \A c \in {a \o b, b \o a} :
               /\ Free(s, S) => Free(r, S) /\ Free(c, S)
               /\ Once(s, S) => Once(r, S) /\ Once(c, S) /\ (Free(r, S) \/ Free(c, S))
<1> DEFINE a == SubSeq(s, 1, n)
           r == SubSeq(s, n + 1, Len(s))
<1>1. /\ a \in Seq(M) /\ Len(a) = n /\ \A i \in DOMAIN a : i \in DOMAIN s /\ i <= n /\ a[i] = s[i]
      /\ r \in Seq(M)
      /\ \A i \in DOMAIN r : i + n \in DOMAIN s /\ i + n > n /\ r[i] = s[i + n] /\ i \in Nat
      /\ n \in Nat
  OBVIOUS
<1> HIDE DEF a, r
<1>2. \A i \in DOMAIN (a \o b) :
         \/ i \in DOMAIN a /\ (a \o b)[i] = a[i]
         \/ i - Len(a) \in DOMAIN b /\ (a \o b)[i] = b[i - Len(a)]
  BY <1>1
<1>3. \A i \in DOMAIN (b \o a) :
         /\ i \in Nat
         /\ \/ i \in DOMAIN b /\ (b \o a)[i] = b[i]
            \/ i - Len(b) \in DOMAIN a /\ (b \o a)[i] = a[i - Len(b)]
  BY <1>1
<1>4. Len(b) \in Nat
  OBVIOUS
<1>5. Free(s, S) => Free(r, S) /\ Free(a, S)
  BY <1>1 DEF Free
<1>6. Once(s, S) => Once(r, S) /\ Once(a, S)
  <2>1. Once(s, S) => Once(r, S)
    BY <1>1 DEF Once
  <2>2. Once(s, S) => Once(a, S)
    BY <1>1 DEF Once
  <2> QED
    BY <2>1, <2>2
<1>7. Once(s, S) => Free(r, S) \/ Free(a, S)
  <2> SUFFICES ASSUME Once(s, S), NEW i \in DOMAIN r, r[i] \in S, NEW j \in DOMAIN a, a[j] \in S
               PROVE  FALSE
    BY DEF Free
  <2>1. i + n = j
    BY <1>1 DEF Once
  <2> QED
    BY <1>1, <2>1
<1>8. /\ Free(a, S) => Free(a \o b, S) /\ Free(b \o a, S)
      /\ Once(a, S) => Once(a \o b, S) /\ Once(b \o a, S)
  <2>1. Free(a, S) => Free(a \o b, S) /\ Free(b \o a, S)
    BY <1>2, <1>3 DEF Free
  <2>2. Once(a, S) => Once(a \o b, S)
    BY <1>2 DEF Once, Free
  <2>3. Once(a, S) => Once(b \o a, S)
    BY <1>3, <1>4 DEF Once, Free
  <2> QED
    BY <2>1, <2>2, <2>3
<1>9. \A c \in {a \o b, b \o a} :
        /\ Free(s, S) => Free(r, S) /\ Free(c, S)
        /\ Once(s, S) => Once(r, S) /\ Once(c, S) /\ (Free(r, S) \/ Free(c, S))
  BY <1>5, <1>6, <1>7, <1>8
<1> QED
  BY <1>9 DEF a, r

\* fault_handle: the guest's answers, among packets of its own, to its device.
LEMMA VmmKickMoves ==
  ASSUME BootInv, VmmKick, NEW S \in {Token, Balls}
  PROVE  Moved(Part, Part', "outbox", "send", S)
<1>1. UNCHANGED << p2v, v2p, pp >> /\ vmm.pc = "wait"
  BY DEF VmmKick
<1>2. PICK n \in 0 .. Len(guest.outbox), k \in 0 .. guest.noise, kind \in Noise :
        /\ \/ vmm' = [vmm EXCEPT !.pc = "tx",
                        !.tx = SubSeq(guest.outbox, 1, n) \o [i \in 1 .. k |-> kind]]
           \/ vmm' = [vmm EXCEPT !.pc = "tx",
                        !.tx = [i \in 1 .. k |-> kind] \o SubSeq(guest.outbox, 1, n)]
        /\ guest' = [guest EXCEPT !.outbox = SubSeq(@, n + 1, Len(@)), !.noise = @ - k]
        /\ [i \in 1 .. k |-> kind] \in Seq(Message)
  <2>1. DomainTypes
    BY DEF BootInv
  <2>2. \E n \in 0 .. Len(guest.outbox), k \in 0 .. guest.noise, kind \in Noise :
          /\ n + k \in 1 .. KickBurst
          /\ k > 0 => NoiseAllowed
          /\ \/ vmm' = [vmm EXCEPT !.pc = "tx",
                          !.tx = SubSeq(guest.outbox, 1, n) \o [i \in 1 .. k |-> kind]]
             \/ vmm' = [vmm EXCEPT !.pc = "tx",
                          !.tx = [i \in 1 .. k |-> kind] \o SubSeq(guest.outbox, 1, n)]
          /\ guest' = [guest EXCEPT !.outbox = SubSeq(@, n + 1, Len(@)), !.noise = @ - k]
          /\ SubSeq(guest.outbox, 1, n) \in Seq(Message)
          /\ Len(SubSeq(guest.outbox, 1, n)) = n
          /\ SubSeq(guest.outbox, n + 1, Len(guest.outbox)) \in Seq(Message)
          /\ [i \in 1 .. k |-> kind] \in Seq(Message)
          /\ Len([i \in 1 .. k |-> kind]) = k
          /\ guest.noise - k \in 0 .. MaxNoise
    BY <2>1, KickForms
  <2> QED
    BY <2>2
<1> DEFINE b == [i \in 1 .. k |-> kind]
           a == SubSeq(guest.outbox, 1, n)
           r == SubSeq(guest.outbox, n + 1, Len(guest.outbox))
<1>3. Free(b, S)
  BY Kinds DEF Free
<1>4. b \in Seq(Message) /\ guest.outbox \in Seq(Message)
  BY <1>2 DEF BootInv, DomainTypes
<1>5. /\ Part'["send"] \in {a \o b, b \o a}
      /\ Part'["outbox"] = r
      /\ guest'.inbox = guest.inbox
  <2> HIDE DEF a, b, r
  <2>1. /\ vmm' = [vmm EXCEPT !.pc = "tx", !.tx = a \o b] \/ vmm' = [vmm EXCEPT !.pc = "tx", !.tx = b \o a]
        /\ guest' = [guest EXCEPT !.outbox = r, !.noise = @ - k]
    BY <1>2 DEF a, b, r
  <2> QED
    BY <2>1, PartNext DEF BootInv, DomainTypes
<1>6. \A c \in {a \o b, b \o a} :
        /\ Free(guest.outbox, S) => Free(r, S) /\ Free(c, S)
        /\ Once(guest.outbox, S) => Once(r, S) /\ Once(c, S) /\ (Free(r, S) \/ Free(c, S))
  <2> HIDE DEF b
  <2> QED
    BY <1>3, <1>4, Padding
<1>7. \A z \in Places \ {"outbox", "send"} : Part'[z] = Part[z]
  BY <1>1, <1>5, ContentsKept, PartValues, PartNext DEF Places
<1>8. Part["outbox"] = guest.outbox
  BY PartValues
<1> HIDE DEF a, b, r
<1> QED
  BY <1>5, <1>6, <1>7, <1>8 DEF Moved, Places

\* The agent takes a packet and answers it, or loses it.
LEMMA AgentReceivesMoves ==
  ASSUME BootInv, AgentReceives, NEW S \in {Token, Balls}
  PROVE  Moved(Part, Part', "inbox", "outbox", S)
<1>1. UNCHANGED << p2v, v2p, pp, vmm >>
  BY DEF AgentReceives
<1> DEFINE m == Head(guest.inbox)
<1>2. /\ guest.inbox \in Seq(Packet) /\ guest.inbox # << >> /\ guest.outbox \in Seq(Packet)
      /\ m \in Packet
  BY DEF AgentReceives, BootInv, DomainTypes, Packet
<1>3. PICK n \in 1 .. ReplyBurst :
        guest' = [guest EXCEPT !.inbox = Tail(@),
                    !.outbox = IF guest.port
                               THEN @ \o (IF m = "request" THEN [i \in 1 .. n |-> "status"] ELSE << m >>)
                               ELSE @]
  BY DEF AgentReceives
<1> DEFINE u == IF guest.port
                THEN IF m = "request" THEN [i \in 1 .. n |-> "status"] ELSE << m >>
                ELSE << >>
<1>4. u \in Seq(Packet) /\ Once(u, S) /\ (Free(u, S) \/ m \in S)
  <2>1. CASE ~guest.port
    BY <2>1, Short
  <2>2. CASE guest.port /\ m # "request"
    <3> HIDE DEF m, Packet
    <3> QED
      BY <1>2, <2>2, Short
  <2>3. CASE guest.port /\ m = "request"
    <3>1. n \in Nat /\ "status" \in Packet /\ u = [i \in 1 .. n |-> "status"]
      BY <2>3, Constants, Packets DEF Packet
    <3>2. [i \in 1 .. n |-> "status"] \in Seq(Packet)
      BY <3>1
    <3>3. CASE "status" \in S
      <4>1. n = 1
        BY <3>3, Kinds
      <4>2. Once(u, S)
        BY <3>1, <4>1 DEF Once
      <4> QED
        BY <2>3, <3>1, <3>2, <3>3, <4>2, Kinds
    <3>4. CASE "status" \notin S
      BY <3>1, <3>2, <3>4 DEF Free, Once
    <3> QED
      BY <3>3, <3>4
  <2> QED
    BY <2>1, <2>2, <2>3
<1>5. guest.outbox \o << >> = guest.outbox
  BY <1>2, ConcatEmptySeq
<1>6. /\ guest'.inbox = Tail(guest.inbox) /\ guest'.outbox = guest.outbox \o u
  BY <1>3, <1>5 DEF BootInv, DomainTypes
<1> HIDE DEF u, m
<1>7. \A z \in Places \ {"inbox", "outbox"} : Part'[z] = Part[z]
  BY <1>1, ContentsKept, PartValues, PartNext DEF Places
<1>8. "inbox" \in Places /\ "outbox" \in Places \ {"inbox"}
  BY DEF Places
<1>9. /\ Part["inbox"] = guest.inbox /\ Part["outbox"] = guest.outbox
      /\ Part'["inbox"] = Tail(guest.inbox) /\ Part'["outbox"] = guest.outbox \o u
  BY <1>6, PartValues, PartNext
<1>10. Head(Part["inbox"]) = m
  BY <1>9 DEF m
<1> QED
  BY <1>2, <1>4, <1>7, <1>8, <1>9, <1>10, HandOverMoves
-----------------------------------------------------------------------------
(* PP's own decisions: ControlInv.                                          *)

\* VMM and the guest can but wake PP.
LEMMA OthersLeavePp ==
  ASSUME BootInv, VMM \/ AgentBinds \/ AgentReceives \/ UNCHANGED vars
  PROVE  /\ UNCHANGED << pp.publishers, pp.calls, pp.msg, pp.rings >>
         /\ pp'.pc = pp.pc \/ (pp.pc = "wait" /\ pp'.pc = "dispatch")
<1>1. \/ UNCHANGED pp \/ NotifyPP("ready") \/ NotifyPP("pingpong")
  BY DEF VMM, VmmReceive, VmmDrain, VmmSend, VmmReadySignal, VmmKick, VmmFaultFails, VmmTx, VmmNotify,
         AgentBinds, AgentReceives, vars
<1>2. ASSUME NEW ch, NotifyPP(ch), pp' # pp
      PROVE  pp.pc = "wait" /\ pp' = [pp EXCEPT !.pc = "dispatch", !.badge = {ch}]
  BY <1>2 DEF NotifyPP
<1>3. \/ pp' = pp
      \/ \E ch : pp.pc = "wait" /\ pp' = [pp EXCEPT !.pc = "dispatch", !.badge = {ch}]
  BY <1>1, <1>2
<1> QED
  BY <1>3 DEF BootInv, DomainTypes

\* The event loop of PP, field by field.
LEMMA StillFields ==
  ASSUME BootInv,
         \/ PpReceive \/ PpNotified \/ PpNullRing \/ PpCheck \/ PpInitTx \/ PpInitRx \/ PpNotify
  PROVE  /\ UNCHANGED << pp.publishers, pp.calls >>
         /\ \/ pp.pc = "dispatch" /\ pp'.pc \in {"wait", "dispatch", "check", "initTx"} /\ pp'.rings = pp.rings
            \/ Quiet /\ pp'.pc = "faulted" /\ pp'.rings = pp.rings
            \/ /\ pp.pc = "check" /\ pp.rings /\ pp'.rings
               /\ pp'.pc = IF V2P!ConsumerSeesEmpty(v2pQ') THEN "dispatch" ELSE "read"
            \/ Quiet /\ pp'.pc \in {"initRx", "transport"}
            \/ /\ pp.pc = "notify" /\ pp.rings /\ pp'.rings
               /\ pp'.pc = IF pp.msg = "request" THEN "read" ELSE "dispatch"
<1>1. CASE PpReceive \/ PpNotified
  BY <1>1 DEF PpReceive, PpNotified, BootInv, DomainTypes
<1>2. CASE PpNullRing
  BY <1>2 DEF PpNullRing, Quiet, BootInv, DomainTypes
<1>3. CASE PpCheck
  BY <1>3 DEF PpCheck, BootInv, DomainTypes
<1>4. CASE PpInitTx \/ PpInitRx
  BY <1>4 DEF PpInitTx, PpInitRx, BootInv, DomainTypes, ReadyInv, Quiet
<1>5. CASE PpNotify
  BY <1>5 DEF PpNotify, BootInv, DomainTypes, ReadyInv
<1> QED
  BY <1>1, <1>2, <1>3, <1>4, <1>5

\* What PP does with a packet it has read, whatever the packet.
LEMMA ReadFields ==
  ASSUME BootInv, PpRead
  PROVE  /\ pp.pc = "read" /\ UNCHANGED << pp.publishers, pp.rings >>
         /\ \/ pp' = pp
            \/ pp'.pc = "read" /\ pp'.calls = pp.calls
            \/ pp'.pc = "setup" /\ pp'.calls = pp.calls - 1 /\ pp.calls > 0
            \/ pp'.pc = "publish" /\ pp'.calls = pp.calls /\ pp'.msg \in Balls /\ pp.calls = 0
            \/ pp'.pc = "dispatch" /\ pp'.calls = pp.calls /\ pp.calls = 0
<1>1. pp.pc = "read" /\ (pp' = pp \/ pp' = AfterRead(v2pCons.pkt)) /\ DomainTypes
  BY DEF PpRead, BootInv
<1> QED
  BY <1>1, AfterReadFields DEF Balls

\* ControlInv is inductive.
LEMMA NextControl ==
  ASSUME BootInv, ControlInv, [Next]_vars
  PROVE  ControlInv'
<1> USE DEF ControlInv
<1>1. CASE VMM \/ AgentBinds \/ AgentReceives \/ UNCHANGED vars
  BY <1>1, OthersLeavePp
<1>2. CASE \/ PpReceive \/ PpNotified \/ PpNullRing \/ PpCheck \/ PpInitTx \/ PpInitRx \/ PpNotify
  <2>1. Quiet => ~pp.publishers /\ pp.calls = 0
    BY DEF BootInv, QuietInv
  <2> QED
    BY <1>2, <2>1, StillFields
<1>3. CASE PpTransport
  <2>1. CASE pp' = [pp EXCEPT !.pc = "setup", !.calls = SetupCalls]
    BY <1>3, <2>1 DEF PpTransport, BootInv, DomainTypes
  <2>2. CASE pp' = [pp EXCEPT !.pc = "publish", !.msg = "ping"]
    BY <1>3, <2>2 DEF PpTransport, BootInv, DomainTypes, Balls
  <2> QED
    BY <1>3, <2>1, <2>2 DEF PpTransport
<1>4. CASE PpSetup
  <2>1. CASE pp.calls > 0 /\ pp' = [pp EXCEPT !.pc = "write", !.msg = "request"]
    BY <1>4, <2>1 DEF PpSetup, BootInv, DomainTypes
  <2>2. CASE pp.calls = 0 /\ pp' = [pp EXCEPT !.pc = "publish", !.msg = "ping", !.publishers = TRUE]
    BY <1>4, <2>2 DEF PpSetup, BootInv, DomainTypes, Balls
  <2>3. CASE pp' = [pp EXCEPT !.pc = "exited"]
    BY <1>4, <2>3 DEF PpSetup, BootInv, DomainTypes
  <2> QED
    BY <1>4, <2>1, <2>2, <2>3 DEF PpSetup
<1>5. CASE PpPublish
  <2>1. CASE pp.publishers /\ pp' = [pp EXCEPT !.pc = "write"]
    <3>1. pp.pc = "publish" /\ pp.calls \in Nat
      BY <1>5, Constants DEF PpPublish, BootInv, DomainTypes
    <3> QED
      BY <2>1, <3>1 DEF BootInv, DomainTypes, Balls
  <2>2. CASE pp' = [pp EXCEPT !.pc = "exited"]
    BY <1>5, <2>2 DEF PpPublish, BootInv, DomainTypes
  <2> QED
    BY <1>5, <2>1, <2>2 DEF PpPublish
<1>6. CASE PpWrite
  <2>1. pp.pc = "write" /\ (pp' = pp \/ pp' = [pp EXCEPT !.pc = "notify"])
    BY <1>6 DEF PpWrite
  <2> QED
    BY <2>1 DEF BootInv, DomainTypes
<1>7. CASE PpRead
  <2>1. pp.calls \in Nat
    BY Constants DEF BootInv, DomainTypes
  <2> QED
    BY <1>7, <2>1, ReadFields
<1> QED
  BY <1>1, <1>2, <1>3, <1>4, <1>5, <1>6, <1>7 DEF Next, PP

\* It is an invariant, whatever the guest sends.
LEMMA AlwaysControl == Spec => []ControlInv
<1>1. Init => ControlInv
  BY DEF Init, ControlInv
<1>2. BootInv /\ ControlInv /\ [Next]_vars => ControlInv'
  BY NextControl
<1> QED
  BY <1>1, <1>2, AlwaysBoot, PTL DEF Spec
-----------------------------------------------------------------------------
(* No ping and no pong before the publishers exist: NoBalls.                *)

\* Only the last set-up call makes the publishers.
LEMMA PublishersMade ==
  ASSUME BootInv, [Next]_vars
  PROVE  /\ pp.publishers => pp'.publishers
         /\ ~pp.publishers /\ pp'.publishers => PpSetup
<1>1. CASE VMM \/ AgentBinds \/ AgentReceives \/ UNCHANGED vars
  BY <1>1, OthersLeavePp
<1>2. CASE \/ PpReceive \/ PpNotified \/ PpNullRing \/ PpCheck \/ PpInitTx \/ PpInitRx \/ PpNotify
  BY <1>2, StillFields
<1>3. CASE PpSetup
  BY <1>3, DecidedFields DEF BootInv
<1>4. CASE PpTransport \/ PpPublish \/ PpWrite
  BY <1>4 DEF PpTransport, PpPublish, PpWrite, BootInv, DomainTypes
<1>5. CASE PpRead
  BY <1>5, ReadFields
<1> QED
  BY <1>1, <1>2, <1>3, <1>4, <1>5 DEF Next, PP

\* Nothing but a packet of the guest's device is written to a block of vmm2pp.
LEMMA BlocksWritten ==
  ASSUME BootInv, [Next]_vars
  PROVE  \/ v2pBlock' = v2pBlock
         \/ /\ VmmTx /\ vmm.tx # << >> /\ vmm.pc = "tx"
            /\ \E i : v2pBlock' = [v2pBlock EXCEPT ![i] = Head(vmm.tx)]
<1>1. CASE VmmTx /\ v2pBlock' # v2pBlock
  <2>1. V2P!FillBlock /\ vmm.pc = "tx"
    BY <1>1 DEF VmmTx, V2P!NewBlock, V2P!ReloadFront, V2P!FillBlock, V2P!Push, V2P!PublishBack
  <2>2. v2pProd.pc = "fill" /\ \E i : v2pBlock' = [v2pBlock EXCEPT ![i] = v2pProd.pkt]
    BY <2>1 DEF V2P!FillBlock
  <2>3. v2pProd.pkt = Head(vmm.tx) /\ vmm.tx # << >>
    BY <2>1, <2>2 DEF BootInv, RoleInv
  <2> QED
    BY <1>1, <2>1, <2>2, <2>3
<1>2. CASE PpCheck \/ PpRead
  BY <1>2 DEF PpCheck, PpRead, V2P!Empty, V2P!FrontBlock, V2P!ReloadBack, V2P!ReadBlock, V2P!Pop
<1>3. CASE ~VmmTx /\ ~PpCheck /\ ~PpRead
  BY <1>3 DEF Next, PP, VMM, vars, v2p, PpReceive, PpNotified, PpNullRing, PpInitTx, PpInitRx, PpTransport,
     PpSetup, PpPublish, PpWrite, PpNotify, VmmReceive, VmmDrain, VmmSend, VmmReadySignal, VmmKick,
     VmmFaultFails, VmmNotify, AgentBinds, AgentReceives
<1> QED
  BY <1>1, <1>2, <1>3

\* No ball appears outside PP.
LEMMA PlacesStayFree ==
  ASSUME BootInv, ControlInv, [Next]_vars, ~pp.publishers,
         \A x \in Places \ {"out", "rx"} : Free(Part[x], Balls)
  PROVE  \A x \in Places \ {"out", "rx"} : Free(Part'[x], Balls)
<1> DEFINE Z == Places \ {"out", "rx"}
<1>1. CASE \A z \in Z : Part'[z] = Part[z]
  BY <1>1
<1>2. CASE \E x, y \in Z : Moved(Part, Part', x, y, Balls)
  BY <1>2 DEF Moved
<1>3. "tx" \in Z /\ "inbox" \in Z /\ "outbox" \in Z /\ "send" \in Z /\ Z \subseteq Places /\ Balls \in {Token, Balls}
  BY DEF Places
<1>4. CASE \/ PpReceive \/ PpNotified \/ PpNullRing \/ PpCheck \/ PpInitTx \/ PpInitRx \/ PpNotify
  <2>1. \A z \in Places \ {"rx"} : Part'[z] = Part[z]
    BY <1>4, PpStill
  <2> QED
    BY <1>1, <2>1
<1>5. CASE PpTransport \/ PpSetup \/ PpPublish
  <2>1. \A z \in Places \ {"out"} : Part'[z] = Part[z]
    BY <1>5, PpDecides
  <2> QED
    BY <1>1, <2>1
<1>6. CASE PpWrite
  <2>1. CASE \A z \in Places : Part'[z] = Part[z]
    BY <1>1, <1>3, <2>1
  <2>2. CASE /\ Part'["tx"] = Part["tx"] \o << pp.msg >>
             /\ \A z \in Places \ {"out", "tx"} : Part'[z] = Part[z]
    <3>1. pp.pc = "write" /\ pp.msg \notin Balls
      BY <1>6, PpWriteMoves DEF ControlInv, Balls
    <3>2. Free(Part["tx"], Balls) /\ Part["tx"] \in Seq(Packet)
      BY <1>3, PartTypes DEF Places
    <3>3. \A i \in DOMAIN (Part["tx"] \o << pp.msg >>) :
             \/ i \in DOMAIN Part["tx"] /\ (Part["tx"] \o << pp.msg >>)[i] = Part["tx"][i]
             \/ (Part["tx"] \o << pp.msg >>)[i] = pp.msg
      BY <3>2
    <3>4. Free(Part'["tx"], Balls)
      BY <2>2, <3>1, <3>2, <3>3 DEF Free
    <3> QED
      BY <2>2, <3>4
  <2> QED
    BY <1>6, <2>1, <2>2, PpWriteMoves
<1>7. CASE PpRead
  BY <1>1, <1>7, PpReadMoves
<1>8. CASE \/ VmmReceive \/ VmmDrain \/ VmmReadySignal \/ VmmFaultFails \/ VmmNotify \/ AgentBinds
           \/ UNCHANGED vars
  BY <1>1, <1>3, <1>8, OthersStill
<1>9. CASE VmmSend
  BY <1>1, <1>2, <1>3, <1>9, VmmSendMoves
<1>10. CASE VmmKick
  BY <1>2, <1>3, <1>10, VmmKickMoves
<1>11. CASE AgentReceives
  BY <1>2, <1>3, <1>11, AgentReceivesMoves
<1>12. CASE VmmTx
  <2>1. /\ \A z \in Places \ {"send", "rx"} : Part'[z] = Part[z]
        /\ Part["send"] = vmm.tx /\ vmm.tx # << >> /\ vmm.tx \in Seq(Packet)
        /\ vmm' = vmm \/ Part'["send"] = Tail(vmm.tx)
    BY <1>12, VmmTxMoves
  <2>2. Free(Part'["send"], Balls)
    <3>1. CASE vmm' = vmm
      BY <1>3, <3>1, PartValues, PartNext
    <3>2. CASE Part'["send"] = Tail(vmm.tx)
      <4>1. \A i \in DOMAIN Tail(vmm.tx) : i + 1 \in DOMAIN vmm.tx /\ Tail(vmm.tx)[i] = vmm.tx[i + 1]
        <5> HIDE DEF Packet
        <5> QED
          BY <2>1
      <4> QED
        BY <1>3, <2>1, <3>2, <4>1 DEF Free
    <3> QED
      BY <2>1, <3>1, <3>2
  <2> QED
    BY <2>1, <2>2
<1> QED
  BY <1>4, <1>5, <1>6, <1>7, <1>8, <1>9, <1>10, <1>11, <1>12 DEF Next, PP, VMM

\* NoBalls is inductive.
LEMMA NextNoBalls ==
  ASSUME BootInv, ControlInv, NoBalls, [Next]_vars
  PROVE  NoBalls'
<1> SUFFICES ASSUME ~pp'.publishers
             PROVE  /\ \A x \in Places \ {"out", "rx"} : Free(Part'[x], Balls)
                    /\ \A i \in V2P!Slots : v2pBlock'[i] \notin Balls
  BY DEF NoBalls
<1>1. /\ ~pp.publishers
      /\ \A x \in Places \ {"out", "rx"} : Free(Part[x], Balls)
      /\ \A i \in V2P!Slots : v2pBlock[i] \notin Balls
  BY PublishersMade DEF NoBalls
<1>2. \A x \in Places \ {"out", "rx"} : Free(Part'[x], Balls)
  BY <1>1, PlacesStayFree
<1>3. ASSUME vmm.tx # << >>, vmm.pc = "tx"
      PROVE  Head(vmm.tx) \notin Balls
  <2>1. Part["send"] = vmm.tx /\ Free(Part["send"], Balls) /\ vmm.tx \in Seq(Message)
    BY <1>1, <1>3, PartValues DEF Places, BootInv, DomainTypes
  <2>2. Head(vmm.tx) = vmm.tx[1] /\ 1 \in DOMAIN vmm.tx
    <3> HIDE DEF Message
    <3> QED
      BY <1>3, <2>1
  <2> QED
    BY <2>1, <2>2 DEF Free
<1>4. v2pBlock \in [V2P!Slots -> Message \cup {NoMessage}]
  BY DEF BootInv, V2P!TypeOK
<1>5. \A i \in V2P!Slots : v2pBlock'[i] \notin Balls
  BY <1>1, <1>3, <1>4, BlocksWritten
<1> QED
  BY <1>2, <1>5

\* It is an invariant, whatever the guest sends.
LEMMA AlwaysNoBalls == Spec => []NoBalls
<1>1. Init => NoBalls
  <2> SUFFICES ASSUME Init PROVE NoBalls
    OBVIOUS
  <2>1. P2V!Contents = << >>
    BY TxAssumptions, TxStates, Tx!InitUser DEF Init
  <2>2. /\ Part["tx"] = << >> /\ Part["inbox"] = << >> /\ Part["outbox"] = << >> /\ Part["send"] = << >>
    BY <2>1, PartValues DEF Init, P2V!Init
  <2>3. \A i \in V2P!Slots : v2pBlock[i] \notin Balls
    BY DEF Init, V2P!Init, NoMessage, Balls
  <2> QED
    BY <2>2, <2>3, Short DEF NoBalls, Places
<1>2. BootInv /\ ControlInv /\ NoBalls /\ [Next]_vars => NoBalls'
  BY NextNoBalls
<1> QED
  BY <1>1, <1>2, AlwaysBoot, AlwaysControl, PTL DEF Spec

\* So the blocks of vmm2pp show none either.
OnlyInHand == \A x \in Places \ {"out"} : Free(Part[x], Balls)

LEMMA RxFree ==
  ASSUME BootInv, NoBalls, ~pp.publishers
  PROVE  OnlyInHand
<1>1. \A i \in V2P!Slots : v2pBlock[i] \notin Balls
  BY DEF NoBalls
<1>2. V2P!TypeOK
  BY DEF BootInv
<1>3. ASSUME NEW i \in DOMAIN V2P!Contents
      PROVE  V2P!Contents[i] \notin Balls
  <2>1. V2P!Contents[i] = v2pBlock[V2P!Slot((v2pQ.front + i - 1) % WordSize)]
    BY <1>3 DEF V2P!Contents
  <2>2. (v2pQ.front + i - 1) % WordSize \in V2P!Word
    <3>1. i \in Nat \ {0} /\ v2pQ.front \in Nat /\ WordSize \in Nat \ {0}
      BY <1>2, <1>3, RxAssumptions, Rx!WordSizePositive, Rx!DistType
         DEF V2P!Contents, V2P!TypeOK, V2P!Word, V2P!Dist, Rx!Dist, Rx!Word
    <3>2. v2pQ.front + i - 1 \in Int
      BY <3>1
    <3> QED
      BY <3>1, <3>2, Rx!ModDef DEF V2P!Word
  <2>3. V2P!Slot((v2pQ.front + i - 1) % WordSize) \in V2P!Slots
    BY <2>2, RxAssumptions, Rx!SlotType DEF V2P!Slot, V2P!Slots, V2P!Word, Rx!Slot, Rx!Slots, Rx!Word
  <2> QED
    BY <1>1, <2>1, <2>3
<1>4. Free(Part["rx"], Balls)
  BY <1>3, PartValues DEF Free
<1> QED
  BY <1>4 DEF OnlyInHand, NoBalls, Places

\* The same of the next state.
LEMMA RxFreeNext == (BootInv /\ NoBalls /\ ~pp.publishers)' => OnlyInHand'
<1>1. BootInv /\ NoBalls /\ ~pp.publishers => OnlyInHand
  BY RxFree
<1> QED
  BY <1>1, PTL
-----------------------------------------------------------------------------
(* One token: TokenInv.                                                     *)

\* In the initial state there is no packet anywhere.
LEMMA InitToken ==
  ASSUME NEW S
  PROVE  Init => TokenInv(S)
<1> SUFFICES ASSUME Init PROVE TokenInv(S)
  OBVIOUS
<1>1. P2V!Contents = << >> /\ V2P!Contents = << >>
  BY TxAssumptions, TxStates, Tx!InitUser, RxAssumptions, RxStates, Rx!InitUser DEF Init
<1>2. /\ Part["out"] = << >> /\ Part["tx"] = << >> /\ Part["inbox"] = << >>
      /\ Part["outbox"] = << >> /\ Part["send"] = << >> /\ Part["rx"] = << >>
  BY <1>1, PartValues DEF Init, P2V!Init
<1>3. \A z \in Places : Part[z] = << >>
  BY <1>2 DEF Places
<1> QED
  BY <1>3, Short DEF TokenInv, Single

\* The same tokens in the same places.
LEMMA SameTokens ==
  ASSUME NEW S, \A z \in Places : Part'[z] = Part[z], Single(Part, S)
  PROVE  /\ Single(Part', S)
         /\ (\A z \in Places : Free(Part[z], S)) => \A z \in Places : Free(Part'[z], S)
BY DEF Single

\* A packet that goes from place to place.
LEMMA MovedTokens ==
  ASSUME NEW S, NEW x \in Places, NEW y \in Places, Single(Part, S), Moved(Part, Part', x, y, S)
  PROVE  /\ Single(Part', S)
         /\ (\A z \in Places : Free(Part[z], S)) => \A z \in Places : Free(Part'[z], S)
<1>1. Single(Part', S)
  BY MovedSingle
<1>2. (\A z \in Places : Free(Part[z], S)) => \A z \in Places : Free(Part'[z], S)
  BY MovedFree
<1> QED
  BY <1>1, <1>2

\* What VMM and the guest do leaves PP's decisions alone.
LEMMA OthersToken ==
  ASSUME NEW S \in {Token, Balls}, BootInv, Delivers, TokenInv(S),
         VMM \/ AgentBinds \/ AgentReceives \/ UNCHANGED vars
  PROVE  TokenInv(S)'
<1>1. /\ Single(Part', S)
      /\ (\A z \in Places : Free(Part[z], S)) => \A z \in Places : Free(Part'[z], S)
  <2>1. CASE \A z \in Places : Part'[z] = Part[z]
    BY <2>1, SameTokens DEF TokenInv
  <2>2. CASE \E x, y \in Places : Moved(Part, Part', x, y, S)
    BY <2>2, MovedTokens DEF TokenInv
  <2>3. "tx" \in Places /\ "inbox" \in Places /\ "outbox" \in Places /\ "send" \in Places /\ "rx" \in Places
    BY DEF Places
  <2>4. CASE VmmSend
    BY <2>1, <2>2, <2>3, <2>4, VmmSendMoves
  <2>5. CASE VmmKick
    BY <2>2, <2>3, <2>5, VmmKickMoves
  <2>6. CASE VmmTx
    BY <2>1, <2>2, <2>3, <2>6, VmmTxMoves
  <2>7. CASE AgentReceives
    BY <2>2, <2>3, <2>7, AgentReceivesMoves
  <2> QED
    BY <2>1, <2>4, <2>5, <2>6, <2>7, OthersStill DEF VMM
<1> QED
  BY <1>1, OthersLeavePp DEF TokenInv, Quiet

\* The event loop of PP and its callbacks, up to what they send.
LEMMA PpStillToken ==
  ASSUME NEW S, BootInv, Delivers, TokenInv(S),
         \/ PpReceive \/ PpNotified \/ PpNullRing \/ PpCheck \/ PpInitTx \/ PpInitRx \/ PpNotify
  PROVE  TokenInv(S)'
<1>1. /\ Single(Part', S)
      /\ (\A z \in Places : Free(Part[z], S)) => \A z \in Places : Free(Part'[z], S)
  BY PpStill, SameTokens DEF TokenInv
<1>2. Quiet' \/ pp'.pc \in {"transport", "setup"} => Quiet
  BY StillFields DEF Quiet
<1> QED
  BY <1>1, <1>2 DEF TokenInv

\* PP decides to send something only when no token is left.
LEMMA PpDecidesToken ==
  ASSUME NEW S, BootInv, TokenInv(S), PpTransport \/ PpSetup \/ PpPublish
  PROVE  TokenInv(S)'
<1>1. \A z \in Places \ {"out"} : Part'[z] = Part[z]
  BY PpDecides
<1>2. Single(Part, S) /\ "out" \in Places
  BY DEF TokenInv, Places
<1>3. /\ Part'["out"] = IF pp'.pc \in {"publish", "write"} THEN << pp'.msg >> ELSE << >>
      /\ Part["out"] = IF pp.pc \in {"publish", "write"} THEN << pp.msg >> ELSE << >>
  BY PartNext, PartValues
<1>4. pp.rings /\ pp'.rings = pp.rings /\ pp'.pc \in {"setup", "publish", "write", "exited"}
      /\ (pp'.pc = "setup" => pp.pc = "transport")
  BY DecidedFields DEF PpTransport, PpSetup, PpPublish, BootInv, ReadyInv
<1>5. Single(Part', S)
  <2>1. CASE pp.pc \in {"transport", "setup"}
    <3>1. \A z \in Places : Free(Part[z], S)
      BY <2>1 DEF TokenInv
    <3>2. Once(Part'["out"], S)
      BY <1>3, Short
    <3> QED
      BY <1>1, <1>2, <3>1, <3>2 DEF Single
  <2>2. CASE pp.pc = "publish"
    <3>1. pp'.msg = pp.msg
      BY <2>2 DEF PpTransport, PpSetup, PpPublish, BootInv, DomainTypes
    <3>2. Part'["out"] = Part["out"] \/ Part'["out"] = << >>
      BY <1>3, <2>2, <3>1
    <3>3. Free(Part'["out"], S) \/ Part'["out"] = Part["out"]
      BY <3>2, Short
    <3>4. Once(Part'["out"], S)
      BY <1>2, <3>2, Short DEF Single
    <3> QED
      BY <1>1, <1>2, <3>3, <3>4 DEF Single
  <2> QED
    BY <2>1, <2>2 DEF PpTransport, PpSetup, PpPublish
<1>6. Quiet' \/ pp'.pc \in {"transport", "setup"} => \A x \in Places : Free(Part'[x], S)
  <2> SUFFICES ASSUME pp'.pc = "setup"
               PROVE  \A x \in Places : Free(Part'[x], S)
    BY <1>4 DEF Quiet
  <2>1. \A x \in Places : Free(Part[x], S)
    BY <1>4 DEF TokenInv
  <2> QED
    BY <1>1, <1>3, <2>1, Short
<1> QED
  BY <1>5, <1>6 DEF TokenInv

\* A packet goes from PP's hand into pp2vmm.
LEMMA PpWriteToken ==
  ASSUME NEW S, BootInv, TokenInv(S), PpWrite
  PROVE  TokenInv(S)'
<1>1. Single(Part, S) /\ pp.pc = "write" /\ pp.rings
  BY DEF TokenInv, PpWrite, BootInv, ReadyInv
<1>2. pp'.pc \in {"write", "notify"} /\ pp'.rings = pp.rings
  BY DEF PpWrite, BootInv, DomainTypes
<1>3. Single(Part', S)
  BY <1>1, PpWriteMoves, SameTokens, MovedSingle
<1> QED
  BY <1>1, <1>2, <1>3 DEF TokenInv, Quiet

\* Where one place holds a token first, that is the only one.
LEMMA TokenTaken ==
  ASSUME NEW P, NEW S, Single(P, S), NEW x \in Places, NEW M, P[x] \in Seq(M), P[x] # << >>,
         Head(P[x]) \in S
  PROVE  Free(Tail(P[x]), S) /\ \A z \in Places \ {x} : Free(P[z], S)
<1> DEFINE s == P[x]
<1>1. /\ Head(s) = s[1] /\ 1 \in DOMAIN s
      /\ \A i \in DOMAIN Tail(s) : i + 1 \in DOMAIN s /\ i + 1 # 1 /\ Tail(s)[i] = s[i + 1]
  <2>1. s \in Seq(M) /\ s # << >>
    OBVIOUS
  <2> HIDE DEF s
  <2> QED
    BY <2>1
<1>2. Once(s, S) /\ s[1] \in S
  BY <1>1 DEF Single
<1>3. ~Free(s, S)
  BY <1>1, <1>2 DEF Free
<1>4. Free(Tail(s), S)
  <2> HIDE DEF s
  <2> QED
    BY <1>1, <1>2 DEF Once, Free
<1> QED
  BY <1>3, <1>4 DEF Single

\* A packet that PP reads is answered, ignored, or lets the next call begin.
LEMMA PpReadToken ==
  ASSUME NEW S \in {Token, Balls}, BootInv, BootInv', NoBalls', Delivers, TokenInv(S), ControlInv, PpRead
  PROVE  TokenInv(S)'
<1>1. Single(Part, S) /\ pp.pc = "read" /\ pp.rings /\ Part["out"] = << >>
      /\ \A z \in Places \ {"out", "rx"} : Part'[z] = Part[z]
  BY PpReadMoves DEF TokenInv, PpRead, BootInv, ReadyInv
<1>2. CASE pp' = pp /\ \A z \in Places : Part'[z] = Part[z]
  BY <1>1, <1>2, SameTokens DEF TokenInv, Quiet
<1>3. CASE /\ Part["rx"] \in Seq(Packet) /\ Part["rx"] # << >>
           /\ pp' = AfterRead(Head(Part["rx"]))
           /\ Part'["rx"] = Tail(Part["rx"])
  <2> DEFINE p == Head(Part["rx"])
  <2>1. pp' = AfterRead(p) /\ DomainTypes
    BY <1>3 DEF BootInv
  <2> HIDE DEF p
  <2>2. /\ pp'.rings = pp.rings /\ pp'.publishers = pp.publishers
        /\ \/ pp'.pc = "read"
           \/ pp'.pc = "setup" /\ pp.calls > 0 /\ p = "status"
           \/ pp'.pc = "publish" /\ pp'.msg \in Balls /\ p \in Balls
           \/ pp'.pc = "dispatch"
    BY <2>1, AfterReadFields DEF Balls
  <2>3. Part'["out"] = IF pp'.pc = "publish" THEN << pp'.msg >> ELSE << >>
    BY <2>2, PartNext
  <2>4. Moved(Part, Part', "rx", "out", S)
    <3>1. PICK u : u = Part'["out"]
      OBVIOUS
    <3>2. u \in Seq(Packet) /\ Once(u, S) /\ (Free(u, S) \/ p \in S)
      <4>1. CASE pp'.pc = "publish"
        <5>1. pp'.msg \in Packet
          BY <2>2, <4>1, Packets DEF Balls, Packet
        <5>2. u \in Seq(Packet)
          <6> HIDE DEF Packet
          <6> QED
            BY <2>3, <3>1, <4>1, <5>1
        <5>3. p \in S
          BY <2>2, <4>1, Kinds
        <5> QED
          BY <2>3, <3>1, <4>1, <5>2, <5>3, Short
      <4>2. CASE pp'.pc # "publish"
        BY <2>3, <3>1, <4>2, Short
      <4> QED
        BY <4>1, <4>2
    <3>3. Part["out"] \o u = u /\ Part["out"] \in Seq(Packet)
      BY <1>1, <3>2, ConcatEmptySeq, EmptySeq
    <3>4. "rx" \in Places /\ "out" \in Places \ {"rx"} /\ Places \ {"rx", "out"} = Places \ {"out", "rx"}
      BY DEF Places
    <3>5. Part'["out"] = Part["out"] \o u
      BY <3>1, <3>3
    <3>6. Free(u, S) \/ Head(Part["rx"]) \in S
      BY <3>2 DEF p
    <3> QED
      BY <1>1, <1>3, <3>2, <3>3, <3>4, <3>5, <3>6, HandOverMoves
  <2>5. Single(Part', S)
    BY <1>1, <2>4, MovedSingle
  <2>6. pp'.pc = "setup" => \A x \in Places : Free(Part'[x], S)
    <3> SUFFICES ASSUME pp'.pc = "setup"
                 PROVE  \A x \in Places : Free(Part'[x], S)
      OBVIOUS
    <3>1. p = "status" /\ pp.calls > 0 /\ Part'["out"] = << >>
      BY <2>2, <2>3
    <3>2. CASE "status" \in S
      <4>1. Free(Tail(Part["rx"]), S) /\ \A z \in Places \ {"rx"} : Free(Part[z], S)
        BY <1>1, <1>3, <3>1, <3>2, TokenTaken DEF p, Places
      <4> QED
        BY <1>1, <1>3, <3>1, <4>1, Short
    <3>3. CASE "status" \notin S
      <4>1. S = Balls
        BY <3>3, Packets DEF Token, Noise
      <4>2. ~pp'.publishers
        BY <2>2, <3>1 DEF ControlInv
      <4>3. \A x \in Places \ {"out"} : Free(Part'[x], Balls)
        BY <4>2, RxFreeNext DEF OnlyInHand
      <4> QED
        BY <3>1, <4>1, <4>3, Short
    <3> QED
      BY <3>2, <3>3
  <2> QED
    BY <1>1, <2>2, <2>5, <2>6 DEF TokenInv, Quiet
<1> QED
  BY <1>2, <1>3, PpReadMoves

\* TokenInv is inductive where vmm2pp delivers.
LEMMA NextToken ==
  ASSUME NEW S \in {Token, Balls}, BootInv, BootInv', ControlInv, NoBalls', Delivers, TokenInv(S),
         [Next]_vars
  PROVE  TokenInv(S)'
BY PpStillToken, PpDecidesToken, PpWriteToken, PpReadToken, OthersToken DEF Next, PP
-----------------------------------------------------------------------------
(* A vmm2pp that is used as its proof assumes delivers.                     *)

\* Each operation does to what the ring holds what it should.
LEMMA RingDelivers ==
  ASSUME BootInv, RxInv, Quiet => v2pQ = V2P!EmptyRing
  PROVE  Delivers
<1>1. PpCheck => V2P!Contents' = V2P!Contents
  BY RxAssumptions, RxSteps, RxStates, RxNext, Rx!UserTests DEF PpCheck, RxInv
<1>2. ASSUME PpInitRx
      PROVE  V2P!Contents' = V2P!Contents
  <2>1. v2pQ = V2P!EmptyRing
    BY <1>2 DEF PpInitRx, Quiet
  <2>2. PICK i \in Index : v2pQ' = [v2pQ EXCEPT ![i] = 0]
    BY <1>2 DEF PpInitRx, BootInv, DomainTypes
  <2>3. UNCHANGED v2p
    BY <1>2, <2>1, <2>2, EmptyStaysEmpty DEF PpInitRx, v2p
  <2> QED
    BY <2>3, ContentsKept
<1>3. ASSUME PpRead
      PROVE  \/ pp' = pp /\ V2P!Contents' = V2P!Contents
             \/ /\ V2P!Contents # << >>
                /\ pp' = AfterRead(Head(V2P!Contents))
                /\ V2P!Contents' = Tail(V2P!Contents)
  <2>1. CASE V2P!Pop /\ pp' = AfterRead(v2pCons.pkt)
    BY <2>1, RxAssumptions, RxSteps, RxStates, RxNext, Rx!UserPops DEF RxInv
  <2>2. CASE (V2P!FrontBlock \/ V2P!ReloadBack \/ V2P!ReadBlock) /\ UNCHANGED pp
    BY <2>2, RxAssumptions, RxSteps, RxStates, RxNext, Rx!UserFronts, Rx!UserReads DEF RxInv
  <2> QED
    BY <1>3, <2>1, <2>2 DEF PpRead
<1>4. ASSUME VmmTx
      PROVE  \/ vmm' = vmm /\ V2P!Contents' = V2P!Contents
             \/ /\ vmm' = [vmm EXCEPT !.pc = "notify"]
                /\ V2P!Contents' = Append(V2P!Contents, Head(vmm.tx))
  <2>1. vmm.pc = "tx" /\ Head(vmm.tx) \in Message
    BY <1>4 DEF VmmTx, BootInv, RoleInv, DomainTypes
  <2>2. CASE (V2P!NewBlock(Head(vmm.tx)) \/ V2P!ReloadFront \/ V2P!FillBlock \/ V2P!Push) /\ UNCHANGED vmm
    BY <2>1, <2>2, RxAssumptions, RxSteps, RxStates, RxNext, Rx!UserWrites DEF BootInv, RxInv, RoleInv
  <2>3. CASE V2P!PublishBack /\ vmm' = [vmm EXCEPT !.pc = "notify"]
    <3>1. V2P!Contents' = Append(V2P!Contents, v2pProd.pkt) /\ v2pProd.pc # "idle"
      BY <2>3, RxAssumptions, RxSteps, RxStates, RxNext, Rx!UserPublishes DEF RxInv
    <3> QED
      BY <2>3, <3>1 DEF BootInv, RoleInv
  <2> QED
    BY <1>4, <2>2, <2>3 DEF VmmTx
<1> QED
  BY <1>1, <1>2, <1>3, <1>4 DEF Delivers

\* If the guest is quiet until PP has its rings, there is one token at most.
LEMMA AlwaysToken ==
  ASSUME NoiseFrom = "rings"
  PROVE  Spec => []TokenInv(Token)
<1>1. Init => TokenInv(Token)
  BY InitToken
<1>2. /\ BootInv /\ ControlInv /\ CalmInv /\ TokenInv(Token) /\ [Next]_vars
      /\ BootInv' /\ NoBalls'
      => TokenInv(Token)'
  BY RingDelivers, NextToken DEF CalmInv
<1> QED
  BY <1>1, <1>2, AlwaysBoot, AlwaysControl, AlwaysNoBalls, AlwaysCalm, PTL DEF Spec

\* Two sequences of which at most one has something in S.
LEMMA OnceInConcat ==
  ASSUME NEW M, NEW S, NEW s \in Seq(M), NEW t \in Seq(M),
         Once(s, S), Once(t, S), Free(s, S) \/ Free(t, S)
  PROVE  /\ s \o t \in Seq(M)
         /\ Once(s \o t, S)
         /\ Free(s \o t, S) <=> Free(s, S) /\ Free(t, S)
<1>1. /\ s \o t \in Seq(M) /\ Len(s) \in Nat
      /\ \A i \in DOMAIN (s \o t) :
           /\ i \in Nat
           /\ \/ i \in DOMAIN s /\ (s \o t)[i] = s[i]
              \/ i - Len(s) \in DOMAIN t /\ (s \o t)[i] = t[i - Len(s)]
  OBVIOUS
<1>2. /\ \A i \in DOMAIN s : i \in DOMAIN (s \o t) /\ (s \o t)[i] = s[i]
      /\ \A i \in DOMAIN t : i + Len(s) \in DOMAIN (s \o t) /\ (s \o t)[i + Len(s)] = t[i]
  OBVIOUS
<1>3. Once(s \o t, S)
  BY <1>1 DEF Once, Free
<1>4. Free(s, S) /\ Free(t, S) => Free(s \o t, S)
  BY <1>1 DEF Free
<1>5. Free(s \o t, S) => Free(s, S) /\ Free(t, S)
  BY <1>2 DEF Free
<1> QED
  BY <1>1, <1>3, <1>4, <1>5

\* What VMM has to hand to the guest is the place "tx".
LEMMA ForGuestPart ==
  ASSUME BootInv
  PROVE  ForGuest = Part["tx"]
<1>1. P2V!Contents \in Seq(Packet) /\ (p2vCons.pc = "pop" => P2V!Contents # << >>)
  BY TxAssumptions, TxStates, Tx!UserContents, Tx!OldestHeld
     DEF BootInv, TxInv, Tx!UserInv, Tx!IInv, Packet
<1>2. SubSeq(P2V!Contents, 1, Len(P2V!Contents)) = P2V!Contents
  BY <1>1, SubSeqFull
<1>3. p2vCons.pc = "pop" => SubSeq(P2V!Contents, 2, Len(P2V!Contents)) = Tail(P2V!Contents)
  BY <1>1, TailIsSubSeq
<1> QED
  BY <1>2, <1>3, PartValues DEF ForGuest

\* InFlight is the places, one after the other.
LEMMA InFlightParts ==
  ASSUME BootInv
  PROVE  InFlight = Part["out"] \o Part["tx"] \o Part["inbox"] \o Part["outbox"] \o Part["send"] \o Part["rx"]
BY ForGuestPart, PartValues DEF InFlight, ForPP

(* Until transport_init has made the publishers there is no ping and no     *)
(* pong but in the hands of send_impl: however early and whatever the guest *)
(* transmits, and whichever calls of the library fail.                      *)
THEOREM PublishersAlwaysBeforePings == Spec => []PublishersBeforePings
<1>1. BootInv /\ NoBalls => PublishersBeforePings
  <2> SUFFICES ASSUME BootInv, NoBalls, ~pp.publishers,
                      NEW s \in {ForGuest, guest.inbox, guest.outbox, ForPP, V2P!Contents}
               PROVE  \A i \in DOMAIN s : s[i] \notin {"ping", "pong"}
    BY DEF PublishersBeforePings
  <2>1. \E x \in Places \ {"out"} : s = Part[x]
    BY ForGuestPart, PartValues DEF ForPP, Places
  <2> QED
    BY <2>1, RxFree DEF OnlyInHand, Free, Balls
<1> QED
  BY <1>1, AlwaysBoot, AlwaysNoBalls, PTL

\* With one token in all places there is at most one ball in InFlight.
LEMMA OneBall ==
  ASSUME NEW S \in {Token, Balls}, BootInv, TokenInv(S)
  PROVE  OneMessageInFlight
<1> DEFINE a == Part["out"]
           b == Part["tx"]
           c == Part["inbox"]
           d == Part["outbox"]
           e == Part["send"]
           f == Part["rx"]
<1>1. /\ a \in Seq(Packet) /\ b \in Seq(Packet) /\ c \in Seq(Packet)
      /\ d \in Seq(Packet) /\ e \in Seq(Packet) /\ f \in Seq(Packet)
  BY PartTypes DEF Places
<1>2. /\ Once(a, S) /\ Once(b, S) /\ Once(c, S)
      /\ Once(d, S) /\ Once(e, S) /\ Once(f, S)
  BY DEF TokenInv, Single, Places
<1>3. \A x, y \in Places : x # y => Free(Part[x], S) \/ Free(Part[y], S)
  BY DEF TokenInv, Single
<1>4. /\ Free(a, S) \/ Free(b, S)
      /\ (Free(a, S) /\ Free(b, S)) \/ Free(c, S)
      /\ (Free(a, S) /\ Free(b, S) /\ Free(c, S)) \/ Free(d, S)
      /\ (Free(a, S) /\ Free(b, S) /\ Free(c, S) /\ Free(d, S)) \/ Free(e, S)
      /\ (Free(a, S) /\ Free(b, S) /\ Free(c, S) /\ Free(d, S) /\ Free(e, S))
           \/ Free(f, S)
  BY <1>3 DEF Places
<1>5. InFlight = a \o b \o c \o d \o e \o f
  BY InFlightParts
<1> HIDE DEF a, b, c, d, e, f, Packet
<1>6. /\ a \o b \in Seq(Packet) /\ Once(a \o b, S)
      /\ Free(a \o b, S) <=> Free(a, S) /\ Free(b, S)
  BY <1>1, <1>2, <1>4, OnceInConcat
<1>7. /\ a \o b \o c \in Seq(Packet) /\ Once(a \o b \o c, S)
      /\ Free(a \o b \o c, S) <=> Free(a \o b, S) /\ Free(c, S)
  BY <1>1, <1>2, <1>4, <1>6, OnceInConcat
<1>8. /\ a \o b \o c \o d \in Seq(Packet) /\ Once(a \o b \o c \o d, S)
      /\ Free(a \o b \o c \o d, S) <=> Free(a \o b \o c, S) /\ Free(d, S)
  BY <1>1, <1>2, <1>4, <1>6, <1>7, OnceInConcat
<1>9. /\ a \o b \o c \o d \o e \in Seq(Packet) /\ Once(a \o b \o c \o d \o e, S)
      /\ Free(a \o b \o c \o d \o e, S) <=> Free(a \o b \o c \o d, S) /\ Free(e, S)
  BY <1>1, <1>2, <1>4, <1>6, <1>7, <1>8, OnceInConcat
<1>10. Once(InFlight, S)
  BY <1>1, <1>2, <1>4, <1>5, <1>6, <1>7, <1>8, <1>9, OnceInConcat
<1> DEFINE T == {i \in DOMAIN InFlight : InFlight[i] \in {"ping", "pong"}}
<1>11. \A i, j \in T : i = j
  BY <1>10, Kinds DEF Once, Balls
<1>12. CASE T = {}
  BY <1>12, FS_EmptySet DEF OneMessageInFlight
<1>13. CASE T # {}
  <2>1. PICK i : i \in T
    BY <1>13
  <2>2. T = {i}
    BY <1>11, <2>1
  <2>3. Cardinality(T) = 1
    BY <2>2, FS_Singleton
  <2> QED
    BY <2>3 DEF OneMessageInFlight
<1> QED
  BY <1>12, <1>13

\* Were PP spinning on a full pp2vmm, it would hold one token, and VMM, which
\* is not emptying it, would be kept from another.
LEMMA NotBothStuck ==
  ASSUME BootInv, Free(Part["out"], Token) \/ Free(Part["tx"], Token), ReplyBurst = 1
  PROVE  NeverStuckTogether
<1> SUFFICES ASSUME p2vProd.pc = "full", Len(P2V!Contents) = Capacity, v2pProd.pc = "full"
             PROVE  FALSE
  BY DEF NeverStuckTogether
<1>1. Sent \subseteq Token
  BY Packets DEF Sent, Token, Noise
<1>2. pp.pc = "write" /\ pp.msg \in Sent /\ vmm.pc = "tx" /\ p2vCons.pc = "idle"
  BY DEF BootInv, RoleInv
<1>3. ~Free(Part["out"], Token)
  BY <1>1, <1>2, PartValues, Short
<1>4. Part["tx"] = P2V!Contents
  BY <1>2, PartValues
<1>5. P2V!Contents \in Seq(Packet)
  BY TxAssumptions, TxStates, Tx!UserContents DEF BootInv, TxInv, Packet
<1>6. 1 \in DOMAIN P2V!Contents
  <2> HIDE DEF Packet
  <2> QED
    BY <1>5, Constants
<1>7. ~Free(Part["tx"], Token)
  BY <1>1, <1>4, <1>6 DEF Free, BootInv, TxHolds
<1> QED
  BY <1>3, <1>7
-----------------------------------------------------------------------------
(* A vmm2pp of one block that VMM has used before PP initialises it: the    *)
(* indices may go apart, once, and then one packet is lost and none comes   *)
(* twice.                                                                   *)

(* PP has read nothing: its end stands where spsc_init of either domain     *)
(* puts it, and VMM has published one packet, or one again and again.       *)
RingUnread ==
  /\ v2pQ.front = 0 /\ v2pQ.consumerCachedFront = 0 /\ v2pQ.producerCachedFront = 0
  /\ v2pQ.producerCachedBack \in {0, 1} /\ v2pQ.back \in {0, 1}
  /\ v2pProd.pc \in {"fill", "push"} => v2pQ.producerCachedBack = 0
  /\ v2pProd.pc = "publish" => v2pProd.newBack = 1
  /\ IF v2pCons.pc \in {"read", "pop"}
     THEN v2pQ.consumerCachedBack = 1 /\ v2pQ.back = 1
     ELSE v2pQ.consumerCachedBack = 0

\* That is while PP is still waiting for its first answer.
Unread == RingUnread /\ ~pp.publishers /\ (pp.pc = "setup" => pp.calls > 0)

\* PP has read one packet, and VMM begins from zero once more.
Skewed ==
  /\ v2pQ.front = 1 /\ v2pQ.consumerCachedFront = 1 /\ v2pQ.consumerCachedBack = 1 /\ v2pQ.back = 1
  /\ v2pQ.producerCachedFront \in {0, 1} /\ v2pQ.producerCachedBack \in {0, 1}
  /\ v2pCons.pc \in {"idle", "empty"}
  /\ IF v2pProd.pc = "publish" THEN v2pProd.newBack = 1 ELSE v2pQ.producerCachedBack = 0

\* Both have counted one packet.
Level ==
  /\ v2pQ.front = 1 /\ v2pQ.consumerCachedFront = 1 /\ v2pQ.consumerCachedBack = 1 /\ v2pQ.back = 1
  /\ v2pQ.producerCachedFront \in {0, 1} /\ v2pQ.producerCachedBack = 1
  /\ v2pCons.pc \in {"idle", "empty"} /\ v2pProd.pc \in {"idle", "full"}

EraInv == Unread \/ (~Quiet /\ (Skewed \/ RxInv))

\* Of the arithmetic of the indices only this is needed.
LEMMA ZeroAndOne ==
  ASSUME Capacity = 1
  PROVE  /\ 0 \in V2P!Word /\ 1 \in V2P!Word /\ V2P!Inc(0) = 1
         /\ V2P!Dist(0, 0) = 0 /\ V2P!Dist(0, 1) = 1 /\ V2P!Dist(1, 1) = 0
<1>1. 0 \in Rx!Word /\ 1 \in Rx!Word /\ WordSize \in Nat /\ WordSize > 1
  BY RxAssumptions, Rx!WordSizePositive DEF Rx!Word
<1>2. Rx!Inc(0) = 1
  BY <1>1, RxAssumptions, Rx!IncValue
<1>3. Rx!Dist(0, 0) = 0 /\ Rx!Dist(0, 1) = 1 /\ Rx!Dist(1, 1) = 0
  BY <1>1, RxAssumptions, Rx!DistValue
<1> QED
  BY <1>1, <1>2, <1>3 DEF V2P!Word, V2P!Inc, V2P!Dist, Rx!Word, Rx!Inc, Rx!Dist

\* From there on it is a ring as the proof of the ring assumes.
LEMMA LevelIsRing ==
  ASSUME Capacity = 1, BootInv, Level
  PROVE  RxInv
<1>1. Rx!TypeOK
  BY RxStates DEF BootInv
<1>2. Rx!BackInv
  BY DEF Level, Rx!BackInv
<1>3. Rx!OrderInv
  BY ZeroAndOne DEF Level, Rx!OrderInv, Rx!Beyond, Rx!Dist, V2P!Dist
<1>4. Rx!BlockInv
  BY DEF Level, Rx!BlockInv
<1>5. Rx!PktInv
  BY DEF BootInv, RoleInv, DomainTypes, Rx!PktInv
<1> QED
  BY <1>1, <1>2, <1>3, <1>4, <1>5 DEF RxInv, Rx!UserInv, Rx!IInv

\* The same of the next state.
LEMMA LevelNext ==
  ASSUME Capacity = 1
  PROVE  (BootInv /\ Level)' => RxInv'
<1>1. BootInv /\ Level => RxInv
  BY LevelIsRing
<1> QED
  BY <1>1, PTL

\* The ring is empty when its indices are equal.
EmptyIfEqual == V2P!TypeOK => (V2P!Contents = << >> <=> v2pQ.front = v2pQ.back)

LEMMA EqualIsEmpty == EmptyIfEqual
<1> SUFFICES ASSUME V2P!TypeOK
             PROVE  V2P!Contents = << >> <=> v2pQ.front = v2pQ.back
  BY DEF EmptyIfEqual
<1>1. Rx!TypeOK /\ v2pQ.front \in Rx!Word /\ v2pQ.back \in Rx!Word
  BY RxStates DEF V2P!TypeOK, V2P!Word, Rx!Word
<1>2. V2P!Contents \in Seq(Packet) /\ Len(V2P!Contents) = Rx!Dist(v2pQ.front, v2pQ.back)
  BY <1>1, RxAssumptions, RxStates, Rx!ContentsType DEF Packet
<1>3. Rx!Dist(v2pQ.front, v2pQ.back) = 0 <=> v2pQ.front = v2pQ.back
  BY <1>1, RxAssumptions, Rx!DistZero
<1> HIDE DEF Packet
<1> QED
  BY <1>2, <1>3, EmptyByLength

\* The same of the next state.
LEMMA EqualIsEmptyNext == EmptyIfEqual'
BY EqualIsEmpty, PTL

\* VMM's operations before PP has read anything, and PP's up to spsc_pop.
LEMMA UnreadOps ==
  ASSUME Capacity = 1, V2P!TypeOK, RingUnread,
         \/ \E p \in Message : V2P!NewBlock(p)
         \/ V2P!ReloadFront \/ V2P!FillBlock \/ V2P!Push \/ V2P!PublishBack
         \/ V2P!FrontBlock \/ V2P!ReloadBack \/ V2P!ReadBlock
  PROVE  RingUnread'
<1>1. ASSUME NEW p \in Message, V2P!NewBlock(p)
      PROVE  RingUnread'
  BY <1>1, ZeroAndOne DEF V2P!NewBlock, V2P!ProducerSeesFull, V2P!TypeOK, RingUnread
<1>2. CASE V2P!ReloadFront
  BY <1>2, ZeroAndOne DEF V2P!ReloadFront, V2P!ProducerSeesFull, V2P!TypeOK, RingUnread
<1>3. CASE V2P!FillBlock
  BY <1>3 DEF V2P!FillBlock, V2P!TypeOK, RingUnread
<1>4. CASE V2P!Push
  BY <1>4, ZeroAndOne DEF V2P!Push, V2P!TypeOK, RingUnread
<1>5. CASE V2P!PublishBack
  BY <1>5 DEF V2P!PublishBack, V2P!TypeOK, RingUnread
<1>6. CASE V2P!FrontBlock
  BY <1>6 DEF V2P!FrontBlock, V2P!ConsumerSeesEmpty, V2P!TypeOK, RingUnread
<1>7. CASE V2P!ReloadBack
  BY <1>7 DEF V2P!ReloadBack, V2P!ConsumerSeesEmpty, V2P!TypeOK, RingUnread
<1>8. CASE V2P!ReadBlock
  BY <1>8 DEF V2P!ReadBlock, V2P!TypeOK, RingUnread
<1> QED
  BY <1>1, <1>2, <1>3, <1>4, <1>5, <1>6, <1>7, <1>8

\* spsc_pop: VMM has counted the packet, is about to, or counts it again.
LEMMA UnreadPop ==
  ASSUME Capacity = 1, V2P!TypeOK, RingUnread, V2P!Pop
  PROVE  Skewed' \/ Level'
<1>1. v2pQ'.front = 1 /\ v2pQ'.consumerCachedFront = 1 /\ v2pCons'.pc = "idle" /\ v2pProd' = v2pProd
      /\ v2pQ'.consumerCachedBack = 1 /\ v2pQ'.back = 1
      /\ v2pQ'.producerCachedFront = 0 /\ v2pQ'.producerCachedBack = v2pQ.producerCachedBack
  BY ZeroAndOne DEF V2P!Pop, V2P!TypeOK, RingUnread
<1> QED
  BY <1>1 DEF V2P!TypeOK, RingUnread, Skewed, Level

\* Then PP finds nothing until VMM has caught up.
LEMMA SkewedOps ==
  ASSUME Capacity = 1, V2P!TypeOK, Skewed,
         \/ \E p \in Message : V2P!NewBlock(p)
         \/ V2P!ReloadFront \/ V2P!FillBlock \/ V2P!Push \/ V2P!PublishBack
         \/ V2P!Empty \/ V2P!FrontBlock \/ V2P!ReloadBack
  PROVE  Skewed' \/ Level'
<1>1. ASSUME NEW p \in Message, V2P!NewBlock(p)
      PROVE  Skewed'
  BY <1>1 DEF V2P!NewBlock, V2P!TypeOK, Skewed
<1>2. CASE V2P!ReloadFront
  BY <1>2 DEF V2P!ReloadFront, V2P!TypeOK, Skewed
<1>3. CASE V2P!FillBlock
  BY <1>3 DEF V2P!FillBlock, V2P!TypeOK, Skewed
<1>4. CASE V2P!Push
  BY <1>4, ZeroAndOne DEF V2P!Push, V2P!TypeOK, Skewed
<1>5. CASE V2P!PublishBack
  BY <1>5 DEF V2P!PublishBack, V2P!TypeOK, Skewed, Level
<1>6. CASE V2P!Empty
  BY <1>6 DEF V2P!Empty, V2P!TypeOK, Skewed
<1>7. CASE V2P!FrontBlock \/ V2P!ReloadBack
  BY <1>7 DEF V2P!FrontBlock, V2P!ReloadBack, V2P!ConsumerSeesEmpty, V2P!TypeOK, Skewed
<1> QED
  BY <1>1, <1>2, <1>3, <1>4, <1>5, <1>6, <1>7

\* A ring whose indices are apart is read by nobody.
LEMMA SkewedReads ==
  ASSUME V2P!TypeOK, Skewed
  PROVE  /\ ~V2P!ReadBlock /\ ~V2P!Pop
         /\ V2P!Empty => V2P!ConsumerSeesEmpty(v2pQ')
         /\ V2P!Contents = << >>
<1>1. ~V2P!ReadBlock /\ ~V2P!Pop
  BY DEF V2P!ReadBlock, V2P!Pop, Skewed
<1>2. V2P!Empty => V2P!ConsumerSeesEmpty(v2pQ')
  BY DEF V2P!Empty, V2P!ConsumerSeesEmpty, V2P!TypeOK, Skewed
<1>3. V2P!Contents = << >>
  BY EqualIsEmpty DEF EmptyIfEqual, Skewed
<1> QED
  BY <1>1, <1>2, <1>3

\* While PP has read nothing it is setting up.
LEMMA StillUnread ==
  ASSUME BootInv, ~pp.publishers, pp.pc = "setup" => pp.calls > 0, [Next]_vars, ~(PpRead /\ V2P!Pop)
  PROVE  ~pp'.publishers /\ (pp'.pc = "setup" => pp'.calls > 0)
<1>1. ~pp'.publishers
  <2> SUFFICES ASSUME pp'.publishers PROVE FALSE
    BY DEF BootInv
  <2>1. PpSetup
    BY PublishersMade
  <2>2. pp.calls > 0 /\ pp.calls \in Nat
    BY <2>1, Constants DEF PpSetup, BootInv, DomainTypes
  <2>3. pp' = [pp EXCEPT !.pc = "write", !.msg = "request"] \/ pp' = [pp EXCEPT !.pc = "exited"]
    BY <2>1, <2>2 DEF PpSetup
  <2> QED
    BY <2>3 DEF BootInv, DomainTypes
<1>2. ASSUME pp'.pc = "setup"
      PROVE  pp'.calls > 0
  <2>1. CASE VMM \/ AgentBinds \/ AgentReceives \/ UNCHANGED vars
    BY <1>2, <2>1, OthersLeavePp
  <2>2. CASE \/ PpReceive \/ PpNotified \/ PpNullRing \/ PpCheck \/ PpInitTx \/ PpInitRx \/ PpNotify
    BY <1>2, <2>2, StillFields
  <2>3. CASE PpTransport \/ PpSetup \/ PpPublish
    <3>1. pp.pc = "transport" /\ DomainTypes
      BY <1>2, <2>3, DecidedFields DEF BootInv
    <3>2. PpTransport
      BY <2>3, <3>1 DEF PpSetup, PpPublish
    <3>3. pp' = [pp EXCEPT !.pc = "setup", !.calls = SetupCalls]
      BY <1>2, <3>1, <3>2 DEF PpTransport, DomainTypes
    <3> QED
      BY <3>1, <3>3, Constants DEF DomainTypes
  <2>4. CASE PpWrite
    BY <1>2, <2>4 DEF PpWrite, BootInv, DomainTypes
  <2>5. CASE PpRead
    <3>1. pp' = pp
      BY <2>5 DEF PpRead
    <3> QED
      BY <1>2, <3>1
  <2> QED
    BY <2>1, <2>2, <2>3, <2>4, <2>5 DEF Next, PP
<1> QED
  BY <1>1, <1>2

\* The steps that use vmm2pp.
LEMMA RingSteps ==
  ASSUME BootInv, [Next]_vars
  PROVE  \/ UNCHANGED v2p
         \/ PpCheck /\ pp.pc = "check" /\ pp.rings /\ V2P!Empty
         \/ PpInitRx /\ pp.pc = "initRx"
         \/ /\ PpRead /\ pp.pc = "read"
            /\ \/ (V2P!FrontBlock \/ V2P!ReloadBack \/ V2P!ReadBlock) /\ pp' = pp
               \/ V2P!Pop
         \/ /\ VmmTx /\ UNCHANGED pp
            /\ \/ \E p \in Message : V2P!NewBlock(p)
               \/ V2P!ReloadFront \/ V2P!FillBlock \/ V2P!Push \/ V2P!PublishBack
<1>1. CASE ~PpCheck /\ ~PpInitRx /\ ~PpRead /\ ~VmmTx
  BY <1>1 DEF Next, PP, VMM, vars, PpReceive, PpNotified, PpNullRing, PpInitTx, PpWrite, PpTransport,
     PpSetup, PpPublish, PpNotify, VmmReceive, VmmDrain, VmmSend, VmmReadySignal, VmmKick,
     VmmFaultFails, VmmNotify, AgentBinds, AgentReceives
<1>2. CASE VmmTx
  <2>1. Head(vmm.tx) \in Message
    BY <1>2 DEF VmmTx, BootInv, RoleInv, DomainTypes
  <2> QED
    BY <1>2, <2>1 DEF VmmTx
<1> QED
  BY <1>1, <1>2 DEF PpCheck, PpInitRx, PpRead

\* A ring nobody touches is as it was.
LEMMA RingKept ==
  ASSUME UNCHANGED v2p
  PROVE  (RingUnread => RingUnread') /\ (Skewed => Skewed')
BY DEF v2p, RingUnread, Skewed

\* spsc_init of PP, possibly in the middle of an operation of VMM.
LEMMA UnreadInit ==
  ASSUME BootInv, RingUnread, PpInitRx
  PROVE  RingUnread'
<1>1. v2pCons.pc = "idle" /\ UNCHANGED << v2pProd, v2pCons >>
  BY DEF PpInitRx, BootInv, RoleInv, V2P!TypeOK
<1>2. PICK i \in Index : v2pQ' = [v2pQ EXCEPT ![i] = 0]
  BY DEF PpInitRx, BootInv, DomainTypes
<1>3. \A x \in Index : v2pQ'[x] = v2pQ[x] \/ v2pQ'[x] = 0
  BY <1>2 DEF Index, BootInv, V2P!TypeOK
<1>4. /\ v2pQ'.front = 0 /\ v2pQ'.consumerCachedFront = 0 /\ v2pQ'.producerCachedFront = 0
      /\ v2pQ'.producerCachedBack \in {v2pQ.producerCachedBack, 0} /\ v2pQ'.back \in {v2pQ.back, 0}
      /\ v2pQ'.consumerCachedBack = 0
  BY <1>1, <1>3 DEF RingUnread, Index
<1> QED
  BY <1>1, <1>4 DEF RingUnread

\* That lasts until PP has read one packet.
LEMMA UnreadStep ==
  ASSUME Capacity = 1, BootInv, ControlInv, Unread, [Next]_vars
  PROVE  /\ PpRead /\ V2P!Pop => ~Quiet' /\ (Skewed' \/ Level')
         /\ ~(PpRead /\ V2P!Pop) => Unread'
<1>1. V2P!TypeOK
  BY DEF BootInv
<1>2. CASE PpRead /\ V2P!Pop
  <2>1. Skewed' \/ Level'
    BY <1>1, <1>2, UnreadPop DEF Unread
  <2>2. ~Quiet'
    BY <1>2, NeverQuietAgain DEF PpRead, BootInv, ReadyInv, Quiet
  <2> QED
    BY <1>2, <2>1, <2>2
<1>3. CASE ~(PpRead /\ V2P!Pop)
  <2>1. ~pp'.publishers /\ (pp'.pc = "setup" => pp'.calls > 0)
    BY <1>3, StillUnread DEF Unread
  <2>2. ~(pp.pc = "check" /\ pp.rings)
    BY DEF Unread, ControlInv
  <2>3. RingUnread'
    BY <1>1, <1>3, <2>2, RingSteps, RingKept, UnreadInit, UnreadOps DEF Unread
  <2> QED
    BY <1>3, <2>1, <2>3 DEF Unread
<1> QED
  BY <1>2, <1>3

\* From then on PP finds nothing until VMM has caught up.
LEMMA SkewedStep ==
  ASSUME Capacity = 1, BootInv, BootInv', Skewed, ~Quiet, [Next]_vars
  PROVE  /\ ~Quiet' /\ (Skewed' \/ Level')
         /\ V2P!Contents = << >> /\ V2P!Contents' = << >>
         /\ PpCheck => V2P!ConsumerSeesEmpty(v2pQ')
         /\ PpRead => pp' = pp /\ (V2P!FrontBlock \/ V2P!ReloadBack)
         /\ ~PpInitRx
<1>1. V2P!TypeOK /\ V2P!TypeOK' /\ pp.pc # "initRx" /\ ~Quiet'
  BY NeverQuietAgain DEF BootInv, Quiet
<1>2. Skewed' \/ Level'
  BY <1>1, RingSteps, RingKept, SkewedReads, SkewedOps
<1>3. V2P!Contents' = << >>
  BY <1>1, <1>2, EqualIsEmptyNext DEF EmptyIfEqual, Skewed, Level
<1>4. PpCheck => V2P!ConsumerSeesEmpty(v2pQ')
  BY <1>1, SkewedReads DEF PpCheck
<1>5. PpRead => pp' = pp /\ (V2P!FrontBlock \/ V2P!ReloadBack)
  BY <1>1, SkewedReads DEF PpRead
<1> QED
  BY <1>1, <1>2, <1>3, <1>4, <1>5, SkewedReads DEF PpInitRx

\* And then vmm2pp is the ring it should be.
LEMMA RingStep ==
  ASSUME BootInv, RxInv, ~Quiet, [Next]_vars
  PROVE  RxInv' /\ ~Quiet'
BY NeverQuietAgain, RxMoves, RxInvStep

\* EraInv is inductive.
LEMMA NextEra ==
  ASSUME Capacity = 1, BootInv, BootInv', ControlInv, EraInv, [Next]_vars
  PROVE  EraInv'
<1>1. CASE Unread
  BY <1>1, UnreadStep, LevelNext DEF EraInv
<1>2. CASE ~Quiet /\ Skewed
  BY <1>2, SkewedStep, LevelNext DEF EraInv
<1>3. CASE ~Quiet /\ RxInv
  BY <1>3, RingStep DEF EraInv
<1> QED
  BY <1>1, <1>2, <1>3 DEF EraInv

\* It is an invariant, whatever the guest sends.
LEMMA AlwaysEra ==
  ASSUME Capacity = 1
  PROVE  Spec => []EraInv
<1>1. Init => EraInv
  BY DEF Init, V2P!Init, V2P!EmptyRing, EraInv, Unread, RingUnread
<1>2. BootInv /\ BootInv' /\ ControlInv /\ EraInv /\ [Next]_vars => EraInv'
  BY NextEra
<1> QED
  BY <1>1, <1>2, AlwaysBoot, AlwaysControl, PTL DEF Spec

\* Once PP has its publishers nothing comes out of vmm2pp that was not in it.
LEMMA EraDelivers ==
  ASSUME Capacity = 1, BootInv, BootInv', EraInv, pp.publishers, [Next]_vars
  PROVE  Delivers
<1>1. CASE ~Quiet /\ Skewed
  <2>1. VmmTx => vmm' = vmm \/ vmm' = [vmm EXCEPT !.pc = "notify"]
    BY DEF VmmTx
  <2> QED
    BY <1>1, <2>1, SkewedStep DEF Delivers
<1>2. CASE ~Quiet /\ RxInv
  BY <1>2, RingDelivers
<1> QED
  BY <1>1, <1>2 DEF EraInv, Unread

\* Until then there is no ball but the one that send_impl is refused.
LEMMA NextBall ==
  ASSUME Capacity = 1, BootInv, BootInv', ControlInv, NoBalls, NoBalls', EraInv, TokenInv(Balls),
         [Next]_vars
  PROVE  TokenInv(Balls)'
<1>1. CASE pp.publishers
  BY <1>1, EraDelivers, NextToken
<1>2. CASE ~pp.publishers /\ pp'.publishers
  BY <1>2, PublishersMade, PpDecidesToken
<1>3. CASE ~pp'.publishers
  <2>1. \A x \in Places \ {"out"} : Free(Part'[x], Balls)
    BY <1>3, RxFreeNext DEF OnlyInHand
  <2>2. Part'["out"] = IF pp'.pc \in {"publish", "write"} THEN << pp'.msg >> ELSE << >>
    BY PartNext
  <2>3. Once(Part'["out"], Balls)
    BY <2>2, Short
  <2>4. Single(Part', Balls)
    <3>1. \A x \in Places : Once(Part'[x], Balls)
      BY <2>1, <2>3 DEF Free, Once
    <3> QED
      BY <2>1, <3>1 DEF Single
  <2>5. Quiet' \/ pp'.pc \in {"transport", "setup"} => \A x \in Places : Free(Part'[x], Balls)
    <3> SUFFICES ASSUME Quiet' \/ pp'.pc \in {"transport", "setup"}
                 PROVE  \A x \in Places : Free(Part'[x], Balls)
      OBVIOUS
    <3>1. pp'.pc \notin {"publish", "write"}
      BY DEF BootInv, ReadyInv, Quiet
    <3> QED
      BY <2>1, <2>2, <3>1, Short
  <2> QED
    BY <2>4, <2>5 DEF TokenInv
<1> QED
  BY <1>1, <1>2, <1>3 DEF BootInv, DomainTypes

\* With rings of one block there is one ball at most, whatever the guest sends.
LEMMA AlwaysBall ==
  ASSUME Capacity = 1
  PROVE  Spec => []TokenInv(Balls)
<1>1. Init => TokenInv(Balls)
  BY InitToken
<1>2. /\ BootInv /\ ControlInv /\ NoBalls /\ EraInv /\ TokenInv(Balls) /\ [Next]_vars
      /\ BootInv' /\ NoBalls'
      => TokenInv(Balls)'
  BY NextBall
<1> QED
  BY <1>1, <1>2, AlwaysBoot, AlwaysControl, AlwaysNoBalls, AlwaysEra, PTL DEF Spec

(* Ping and pong alternate, whatever the agent's answers and the guest's    *)
(* own packets: with rings of one block, as they are built, also when the   *)
(* guest transmits before PP has its rings, and with larger rings if it     *)
(* does not.                                                                *)
THEOREM OneMessageAlwaysInFlight ==
  ASSUME NoiseFrom = "rings" \/ Capacity = 1
  PROVE  Spec => []OneMessageInFlight
<1>1. BootInv /\ TokenInv(Token) => OneMessageInFlight
  BY OneBall
<1>2. BootInv /\ TokenInv(Balls) => OneMessageInFlight
  BY OneBall
<1>3. CASE NoiseFrom = "rings"
  BY <1>1, <1>3, AlwaysBoot, AlwaysToken, PTL
<1>4. CASE Capacity = 1
  BY <1>2, <1>4, AlwaysBoot, AlwaysBall, PTL
<1> QED
  BY <1>3, <1>4
-----------------------------------------------------------------------------
(* One token, however early the guest transmits.                            *)

(* While vmm2pp is not the ring it should be, a packet is where PP will     *)
(* find it: in the block as soon as VMM has written it, until PP has popped *)
(* it.  After that PP finds nothing.                                        *)
Early ==
  [x \in Places |->
     CASE x = "send" -> IF v2pProd.pc \in {"push", "publish"} THEN Tail(vmm.tx) ELSE Part["send"]
       [] x = "rx" -> IF v2pQ.front = 1 THEN << >>
                      ELSE IF v2pCons.pc = "pop" THEN << v2pCons.pkt >> ELSE << v2pBlock[0] >>
       [] OTHER -> Part[x]]

\* TokenInv with Early in place of Part.
EarlyInv(S) ==
  /\ Quiet \/ pp.pc \in {"transport", "setup"} => \A x \in Places : Free(Early[x], S)
  /\ Single(Early, S)

EraToken(S) ==
  \/ (Unread \/ (~Quiet /\ Skewed)) /\ EarlyInv(S)
  \/ ~Quiet /\ RxInv /\ TokenInv(S)

\* What Early says of each place.
LEMMA EarlyValues ==
  /\ \A z \in Places \ {"send", "rx"} : Early[z] = Part[z]
  /\ Early["send"] = IF v2pProd.pc \in {"push", "publish"} THEN Tail(vmm.tx) ELSE Part["send"]
  /\ Early["rx"] = IF v2pQ.front = 1 THEN << >>
                   ELSE IF v2pCons.pc = "pop" THEN << v2pCons.pkt >> ELSE << v2pBlock[0] >>
BY DEF Early, Places

\* The same of the next state.
LEMMA EarlyNext ==
  /\ \A z \in Places \ {"send", "rx"} : Early'[z] = Part'[z]
  /\ Early'["send"] = IF v2pProd'.pc \in {"push", "publish"} THEN Tail(vmm'.tx) ELSE Part'["send"]
  /\ Early'["rx"] = IF v2pQ'.front = 1 THEN << >>
                    ELSE IF v2pCons'.pc = "pop" THEN << v2pCons'.pkt >> ELSE << v2pBlock'[0] >>
BY DEF Early, Places

\* VMM's places hold sequences of packets.
LEMMA EarlyTypes ==
  ASSUME BootInv
  PROVE  \A z \in Places \ {"rx"} : Early[z] \in Seq(Packet)
<1>1. v2pProd.pc \in {"push", "publish"} => vmm.tx # << >>
  BY DEF BootInv, RoleInv
<1>2. vmm.tx \in Seq(Packet)
  BY DEF BootInv, DomainTypes, Packet
<1>3. Early["send"] \in Seq(Packet)
  <2>1. Part["send"] \in Seq(Packet)
    BY PartTypes DEF Places
  <2> HIDE DEF Packet
  <2> QED
    BY <1>1, <1>2, <2>1, EarlyValues
<1> QED
  BY <1>3, PartTypes, EarlyValues

\* What stays in its place by Part does so by Early.
LEMMA EarlySame ==
  ASSUME BootInv, BootInv', UNCHANGED << v2pBlock, v2pProd, v2pCons >>, v2pQ'.front = v2pQ.front
  PROVE  /\ Early'["rx"] = Early["rx"]
         /\ \A z \in Places \ {"rx"} : Part'[z] = Part[z] => Early'[z] = Early[z]
<1>1. Early'["rx"] = Early["rx"]
  BY EarlyValues, EarlyNext
<1>2. v2pProd.pc \in {"push", "publish"} => vmm.pc = "tx" /\ vmm'.pc = "tx"
  BY DEF BootInv, RoleInv
<1>3. Part'["send"] = Part["send"] => Early'["send"] = Early["send"]
  BY <1>2, PartValues, PartNext, EarlyValues, EarlyNext
<1> QED
  BY <1>1, <1>3, EarlyValues, EarlyNext

\* What moves by Part does so by Early.
LEMMA EarlyMoved ==
  ASSUME BootInv, BootInv', UNCHANGED << v2pBlock, v2pProd, v2pCons >>, v2pQ'.front = v2pQ.front,
         NEW x \in Places \ {"rx"}, NEW y \in Places \ {"rx"}, NEW S, Moved(Part, Part', x, y, S),
         v2pProd.pc \notin {"push", "publish"} \/ "send" \notin {x, y}
  PROVE  Moved(Early, Early', x, y, S)
<1>1. Early[x] = Part[x] /\ Early[y] = Part[y] /\ Early'[x] = Part'[x] /\ Early'[y] = Part'[y]
  BY EarlyValues, EarlyNext
<1>2. ASSUME NEW z \in Places \ {x, y}
      PROVE  Early'[z] = Early[z]
  BY EarlySame DEF Moved
<1> QED
  BY <1>1, <1>2 DEF Moved

\* In either case one token stays one token.
LEMMA EarlyTokens ==
  ASSUME NEW S, Single(Early, S),
         \/ \A z \in Places : Early'[z] = Early[z]
         \/ \E x, y \in Places : Moved(Early, Early', x, y, S)
  PROVE  /\ Single(Early', S)
         /\ (\A z \in Places : Free(Early[z], S)) => \A z \in Places : Free(Early'[z], S)
<1>1. CASE \A z \in Places : Early'[z] = Early[z]
  BY <1>1 DEF Single
<1>2. CASE \E x, y \in Places : Moved(Early, Early', x, y, S)
  <2>1. PICK x \in Places, y \in Places : Moved(Early, Early', x, y, S)
    BY <1>2
  <2>2. Single(Early', S)
    BY <2>1, MovedSingle
  <2>3. (\A z \in Places : Free(Early[z], S)) => \A z \in Places : Free(Early'[z], S)
    BY <2>1, MovedFree
  <2> QED
    BY <2>2, <2>3
<1> QED
  BY <1>1, <1>2

\* With one block there is one block.
LEMMA OneSlot ==
  ASSUME Capacity = 1
  PROVE  V2P!Slots = {0} /\ \A i \in V2P!Word : V2P!Slot(i) = 0
<1>1. V2P!Slots = {0}
  BY DEF V2P!Slots
<1>2. \A i \in V2P!Word : V2P!Slot(i) \in V2P!Slots
  BY RxAssumptions, Rx!SlotType DEF V2P!Slot, V2P!Slots, V2P!Word, Rx!Slot, Rx!Slots, Rx!Word
<1> QED
  BY <1>1, <1>2

\* VMM and the guest, apart from process_tx_pending.
LEMMA EarlyOthers ==
  ASSUME NEW S \in {Token, Balls}, BootInv, BootInv', EarlyInv(S),
         VMM \/ AgentBinds \/ AgentReceives \/ UNCHANGED vars, ~VmmTx
  PROVE  EarlyInv(S)'
<1>1. UNCHANGED v2p
  BY DEF VMM, VmmReceive, VmmDrain, VmmSend, VmmReadySignal, VmmKick, VmmFaultFails, VmmNotify,
         AgentBinds, AgentReceives, vars
<1>2. UNCHANGED << v2pBlock, v2pProd, v2pCons >> /\ v2pQ'.front = v2pQ.front
  BY <1>1 DEF v2p
<1>3. /\ "tx" \in Places \ {"rx"} /\ "inbox" \in Places \ {"rx"} /\ "outbox" \in Places \ {"rx"}
      /\ "send" \in Places \ {"rx"}
  BY DEF Places
<1>4. CASE \A z \in Places : Part'[z] = Part[z]
  <2>1. \A z \in Places : Early'[z] = Early[z]
    BY <1>2, <1>4, EarlySame
  <2> QED
    BY <2>1, EarlyTokens, OthersLeavePp DEF EarlyInv, Quiet
<1>5. ASSUME NEW x \in Places \ {"rx"}, NEW y \in Places \ {"rx"}, Moved(Part, Part', x, y, S),
             v2pProd.pc \notin {"push", "publish"} \/ "send" \notin {x, y}
      PROVE  EarlyInv(S)'
  <2>1. Moved(Early, Early', x, y, S)
    BY <1>2, <1>5, EarlyMoved
  <2> QED
    BY <2>1, EarlyTokens, OthersLeavePp DEF EarlyInv, Quiet
<1>6. CASE VmmSend
  BY <1>3, <1>4, <1>5, <1>6, VmmSendMoves
<1>7. CASE VmmKick
  <2>1. v2pProd.pc = "idle"
    BY <1>7 DEF VmmKick, BootInv, RoleInv
  <2> QED
    BY <1>3, <1>5, <1>7, <2>1, VmmKickMoves
<1>8. CASE AgentReceives
  BY <1>3, <1>5, <1>8, AgentReceivesMoves
<1> QED
  BY <1>4, <1>6, <1>7, <1>8, OthersStill DEF VMM

\* The event loop of PP.
LEMMA EarlyStill ==
  ASSUME NEW S, BootInv, BootInv', EarlyInv(S), v2pQ'.front = v2pQ.front,
         \/ PpReceive \/ PpNotified \/ PpNullRing \/ PpCheck \/ PpInitTx \/ PpInitRx \/ PpNotify
  PROVE  EarlyInv(S)'
<1>1. UNCHANGED << v2pBlock, v2pProd, v2pCons >>
  BY DEF PpReceive, PpNotified, PpNullRing, PpCheck, PpInitTx, PpInitRx, PpNotify, v2p, V2P!Empty
<1>2. \A z \in Places : Early'[z] = Early[z]
  BY <1>1, PpStill, EarlySame
<1>3. Quiet' \/ pp'.pc \in {"transport", "setup"} => Quiet
  BY StillFields DEF Quiet
<1> QED
  BY <1>2, <1>3, EarlyTokens DEF EarlyInv

\* PP decides to send something only when no token is left.
LEMMA EarlyDecides ==
  ASSUME NEW S, BootInv, BootInv', EarlyInv(S), PpTransport \/ PpSetup \/ PpPublish
  PROVE  EarlyInv(S)'
<1>1. UNCHANGED v2p /\ \A z \in Places \ {"out"} : Part'[z] = Part[z]
  BY PpDecides DEF PpTransport, PpSetup, PpPublish
<1>2. "out" \in Places \ {"send", "rx"} /\ UNCHANGED << v2pBlock, v2pProd, v2pCons >>
      /\ v2pQ'.front = v2pQ.front
  BY <1>1 DEF Places, v2p
<1>3. \A z \in Places \ {"out"} : Early'[z] = Early[z]
  BY <1>1, <1>2, EarlySame
<1>4. /\ Early'["out"] = IF pp'.pc \in {"publish", "write"} THEN << pp'.msg >> ELSE << >>
      /\ Early["out"] = IF pp.pc \in {"publish", "write"} THEN << pp.msg >> ELSE << >>
  BY <1>2, PartNext, PartValues, EarlyNext, EarlyValues
<1>5. pp.rings /\ pp'.rings = pp.rings /\ pp'.pc \in {"setup", "publish", "write", "exited"}
      /\ (pp'.pc = "setup" => pp.pc = "transport")
  BY DecidedFields DEF PpTransport, PpSetup, PpPublish, BootInv, ReadyInv
<1>6. CASE pp.pc \in {"transport", "setup"}
  <2>1. \A z \in Places : Free(Early[z], S)
    BY <1>6 DEF EarlyInv
  <2>2. Once(Early'["out"], S) /\ (pp'.pc = "setup" => Free(Early'["out"], S))
    BY <1>4, Short
  <2>3. Single(Early', S)
    BY <1>2, <1>3, <2>1, <2>2 DEF Single, EarlyInv
  <2> QED
    BY <1>3, <1>5, <2>1, <2>2, <2>3 DEF EarlyInv, Quiet
<1>7. CASE pp.pc = "publish"
  <2>1. pp'.msg = pp.msg /\ pp'.pc \in {"write", "exited"}
    BY <1>7 DEF PpTransport, PpSetup, PpPublish, BootInv, DomainTypes
  <2>2. Early'["out"] = Early["out"] \/ Early'["out"] = << >>
    BY <1>4, <1>7, <2>1
  <2>3. Free(Early'["out"], S) \/ Early'["out"] = Early["out"]
    BY <2>2, Short
  <2>4. Once(Early'["out"], S)
    BY <1>2, <2>2, Short DEF Single, EarlyInv
  <2>5. Single(Early', S)
    BY <1>2, <1>3, <2>3, <2>4 DEF Single, EarlyInv
  <2> QED
    BY <1>5, <2>1, <2>5 DEF EarlyInv, Quiet
<1> QED
  BY <1>6, <1>7 DEF PpTransport, PpSetup, PpPublish

\* A packet goes from PP's hand into pp2vmm.
LEMMA EarlyWrite ==
  ASSUME NEW S, BootInv, BootInv', EarlyInv(S), PpWrite
  PROVE  EarlyInv(S)'
<1>1. UNCHANGED << v2pBlock, v2pProd, v2pCons >> /\ v2pQ'.front = v2pQ.front
      /\ pp.pc = "write" /\ pp.rings
  BY DEF PpWrite, v2p, BootInv, ReadyInv
<1>2. pp'.pc \in {"write", "notify"} /\ pp'.rings = pp.rings
  BY DEF PpWrite, BootInv, DomainTypes
<1>3. CASE \A z \in Places : Part'[z] = Part[z]
  <2>1. \A z \in Places : Early'[z] = Early[z]
    BY <1>1, <1>3, EarlySame
  <2> QED
    BY <1>1, <1>2, <2>1, EarlyTokens DEF EarlyInv, Quiet
<1>4. CASE Moved(Part, Part', "out", "tx", S)
  <2>1. "out" \in Places \ {"rx"} /\ "tx" \in Places \ {"rx"}
    BY DEF Places
  <2>2. Moved(Early, Early', "out", "tx", S)
    BY <1>1, <1>4, <2>1, EarlyMoved
  <2> QED
    BY <1>1, <1>2, <2>1, <2>2, EarlyTokens DEF EarlyInv, Quiet
<1> QED
  BY <1>3, <1>4, PpWriteMoves

\* PP waits for a packet, or reads the block.
LEMMA EarlyFront ==
  ASSUME Capacity = 1, NEW S, BootInv, BootInv', EarlyInv(S), PpRead, pp' = pp,
         V2P!FrontBlock \/ V2P!ReloadBack \/ V2P!ReadBlock
  PROVE  EarlyInv(S)'
<1>1. /\ UNCHANGED << v2pBlock, v2pProd >> /\ v2pQ'.front = v2pQ.front
      /\ \/ v2pCons.pc # "pop" /\ v2pCons'.pc # "pop"
         \/ v2pCons.pc # "pop" /\ v2pCons' = [v2pCons EXCEPT !.pc = "pop", !.pkt = v2pBlock[0]]
  <2>1. V2P!TypeOK /\ V2P!Slot(v2pQ.consumerCachedFront) = 0
    BY OneSlot DEF BootInv, V2P!TypeOK
  <2> QED
    BY <2>1 DEF V2P!FrontBlock, V2P!ReloadBack, V2P!ReadBlock, V2P!TypeOK
<1>2. Early'["rx"] = Early["rx"]
  <2>1. CASE v2pCons.pc # "pop" /\ v2pCons'.pc # "pop"
    BY <1>1, <2>1, EarlyValues, EarlyNext
  <2>2. CASE v2pCons.pc # "pop" /\ v2pCons' = [v2pCons EXCEPT !.pc = "pop", !.pkt = v2pBlock[0]]
    <3>1. v2pCons'.pc = "pop" /\ v2pCons'.pkt = v2pBlock[0]
      BY <2>2 DEF BootInv, V2P!TypeOK
    <3> QED
      BY <1>1, <2>2, <3>1, EarlyValues, EarlyNext
  <2> QED
    BY <1>1, <2>1, <2>2
<1>3. UNCHANGED << p2v, vmm, guest >>
  BY DEF PpRead
<1>4. \A z \in Places \ {"rx"} : Part'[z] = Part[z]
  BY <1>3, ContentsKept, PartValues, PartNext DEF Places
<1>5. \A z \in Places : Early'[z] = Early[z]
  BY <1>1, <1>2, <1>3, <1>4, EarlyValues, EarlyNext
<1> QED
  BY <1>5, EarlyTokens DEF EarlyInv, Quiet

\* process_tx_pending: a packet is in the block once it is written, or lost.
LEMMA EarlyTx ==
  ASSUME Capacity = 1, NEW S, BootInv, BootInv', EarlyInv(S), VmmTx
  PROVE  EarlyInv(S)'
<1>1. /\ vmm.pc = "tx" /\ vmm.tx # << >> /\ vmm.tx \in Seq(Packet) /\ UNCHANGED pp
      /\ Head(vmm.tx) \in Message /\ Part["send"] = vmm.tx
  BY PartValues DEF VmmTx, BootInv, RoleInv, DomainTypes, Packet
<1>2. \A z \in Places \ {"send", "rx"} : Early'[z] = Early[z]
  BY VmmTxMoves, EarlyValues, EarlyNext
<1>3. CASE /\ V2P!NewBlock(Head(vmm.tx)) \/ V2P!ReloadFront \/ V2P!Push
           /\ UNCHANGED vmm
  <2>1. /\ UNCHANGED << v2pBlock, v2pCons >> /\ v2pQ'.front = v2pQ.front
        /\ v2pProd'.pc \in {"push", "publish"} <=> v2pProd.pc \in {"push", "publish"}
    BY <1>3 DEF V2P!NewBlock, V2P!ReloadFront, V2P!Push, BootInv, V2P!TypeOK
  <2>2. Part'["send"] = Part["send"]
    BY <1>3, PartValues, PartNext
  <2>3. \A z \in Places : Early'[z] = Early[z]
    BY <1>2, <1>3, <2>1, <2>2, EarlyValues, EarlyNext
  <2> QED
    BY <1>1, <2>3, EarlyTokens DEF EarlyInv, Quiet
<1>4. CASE V2P!FillBlock /\ UNCHANGED vmm
  <2>1. V2P!TypeOK /\ V2P!Slot(v2pQ.producerCachedBack) = 0 /\ 0 \in V2P!Slots
    BY OneSlot DEF BootInv, V2P!TypeOK
  <2>2. /\ v2pProd.pc = "fill" /\ v2pProd'.pc = "push" /\ UNCHANGED << v2pQ, v2pCons >>
        /\ v2pBlock'[0] = Head(vmm.tx)
    BY <1>4, <2>1 DEF V2P!FillBlock, V2P!TypeOK, BootInv, RoleInv
  <2>3. Early["send"] = vmm.tx /\ Early'["send"] = Tail(vmm.tx)
    BY <1>1, <1>4, <2>2, EarlyValues, EarlyNext
  <2>4. Early'["rx"] = Early["rx"] \/ Early'["rx"] = << Head(vmm.tx) >>
    BY <2>2, EarlyValues, EarlyNext
  <2>5. /\ Free(vmm.tx, S) => Free(Tail(vmm.tx), S) /\ Free(<< Head(vmm.tx) >>, S)
        /\ Once(vmm.tx, S) => Once(Tail(vmm.tx), S) /\ Once(<< Head(vmm.tx) >>, S)
                              /\ (Free(Tail(vmm.tx), S) \/ Free(<< Head(vmm.tx) >>, S))
    <3>1. /\ Head(vmm.tx) = vmm.tx[1] /\ 1 \in DOMAIN vmm.tx
          /\ \A i \in DOMAIN Tail(vmm.tx) :
               i + 1 \in DOMAIN vmm.tx /\ i + 1 # 1 /\ Tail(vmm.tx)[i] = vmm.tx[i + 1] /\ i \in Nat
      <4> HIDE DEF Packet
      <4> QED
        BY <1>1
    <3>2. Once(vmm.tx, S) => Once(Tail(vmm.tx), S)
      BY <3>1 DEF Once
    <3>3. Free(vmm.tx, S) => Free(Tail(vmm.tx), S) /\ Head(vmm.tx) \notin S
      BY <3>1 DEF Free
    <3>4. Once(vmm.tx, S) => Free(Tail(vmm.tx), S) \/ Head(vmm.tx) \notin S
      BY <3>1 DEF Once, Free
    <3> QED
      BY <3>2, <3>3, <3>4, Short
  <2>6. Moved(Early, Early', "send", "rx", S)
    <3>1. "send" \in Places /\ "rx" \in Places /\ Places \ {"send", "rx"} = Places \ {"rx", "send"}
      BY DEF Places
    <3>2. CASE Early'["rx"] = Early["rx"]
      <4>1. Free(Early["send"], S) => Free(Early'["send"], S)
        BY <2>3, <2>5
      <4>2. Once(Early["send"], S) => Once(Early'["send"], S)
        BY <2>3, <2>5
      <4> QED
        BY <1>2, <3>1, <3>2, <4>1, <4>2 DEF Moved
    <3>3. CASE Early'["rx"] = << Head(vmm.tx) >>
      BY <1>2, <2>3, <2>5, <3>1, <3>3 DEF Moved
    <3> QED
      BY <2>4, <3>2, <3>3
  <2>7. "send" \in Places /\ "rx" \in Places
    BY DEF Places
  <2> QED
    BY <1>1, <2>6, <2>7, EarlyTokens DEF EarlyInv, Quiet
<1>5. CASE V2P!PublishBack /\ vmm' = [vmm EXCEPT !.pc = "notify"]
  <2>1. /\ UNCHANGED << v2pBlock, v2pCons >> /\ v2pQ'.front = v2pQ.front
        /\ v2pProd.pc = "publish" /\ v2pProd'.pc = "idle"
    BY <1>5 DEF V2P!PublishBack, BootInv, V2P!TypeOK
  <2>2. Part'["send"] = Tail(vmm.tx)
    BY <1>5, PartNext DEF BootInv, DomainTypes
  <2>3. \A z \in Places : Early'[z] = Early[z]
    BY <1>2, <2>1, <2>2, EarlyValues, EarlyNext
  <2> QED
    BY <1>1, <2>3, EarlyTokens DEF EarlyInv, Quiet
<1> QED
  BY <1>3, <1>4, <1>5 DEF VmmTx

\* The one packet that PP reads before VMM has caught up may be an answer.
LEMMA EarlyPop ==
  ASSUME Capacity = 1, NEW S, "status" \in S, BootInv, BootInv', ControlInv, Unread, EarlyInv(S),
         PpRead, V2P!Pop
  PROVE  EarlyInv(S)'
<1>1. /\ UNCHANGED << v2pBlock, v2pProd >> /\ v2pQ'.front = 1 /\ v2pQ.front = 0 /\ v2pCons.pc = "pop"
  BY ZeroAndOne DEF V2P!Pop, BootInv, V2P!TypeOK, Unread, RingUnread
<1>2. Early["rx"] = << v2pCons.pkt >> /\ Early'["rx"] = << >>
  BY <1>1, EarlyValues, EarlyNext
<1>3. /\ pp.pc = "read" /\ pp.rings /\ pp' = AfterRead(v2pCons.pkt) /\ DomainTypes
      /\ UNCHANGED << p2v, vmm, guest >>
  BY DEF PpRead, V2P!Pop, V2P!FrontBlock, V2P!ReloadBack, V2P!ReadBlock, BootInv, ReadyInv
<1>4. pp.calls > 0 /\ pp.calls # 0
  BY <1>3, Constants DEF Unread, ControlInv, DomainTypes
<1>5. pp'.rings /\ (pp'.pc = "read" \/ (pp'.pc = "setup" /\ v2pCons.pkt = "status"))
  BY <1>3, <1>4 DEF AfterRead, DomainTypes
<1>6. \A z \in Places \ {"rx"} : Early'[z] = Early[z]
  <2>1. \A z \in Places \ {"rx"} : Part'[z] = Part[z]
    BY <1>3, <1>5, ContentsKept, PartValues, PartNext DEF Places
  <2> QED
    BY <1>1, <1>3, <2>1, EarlyValues, EarlyNext
<1>7. Single(Early', S)
  BY <1>2, <1>6, Short DEF Single, EarlyInv
<1>8. pp'.pc = "setup" => \A z \in Places : Free(Early'[z], S)
  <2> SUFFICES ASSUME pp'.pc = "setup"
               PROVE  \A z \in Places : Free(Early'[z], S)
    OBVIOUS
  <2>1. ~Free(Early["rx"], S) /\ "rx" \in Places
    BY <1>2, <1>5, Short DEF Places
  <2>2. \A z \in Places \ {"rx"} : Free(Early[z], S)
    BY <2>1 DEF EarlyInv, Single
  <2> QED
    BY <1>2, <1>6, <2>2, Short
<1> QED
  BY <1>5, <1>7, <1>8 DEF EarlyInv, Quiet

\* Once VMM has caught up the two agree.
LEMMA LevelEarly ==
  ASSUME NEW S
  PROVE  (BootInv /\ Level /\ EarlyInv(S))' => TokenInv(S)'
<1>1. ASSUME BootInv, Level, EarlyInv(S)
      PROVE  TokenInv(S)
  <2>1. V2P!Contents = << >>
    BY <1>1, EqualIsEmpty DEF EmptyIfEqual, Level, BootInv
  <2>2. Early["rx"] = Part["rx"] /\ Early["send"] = Part["send"]
    BY <1>1, <2>1, EarlyValues, PartValues DEF Level
  <2>3. \A z \in Places : Part[z] = Early[z]
    BY <2>2, EarlyValues
  <2> QED
    BY <1>1, <2>3 DEF EarlyInv, TokenInv, Single
<1> QED
  BY <1>1, PTL

\* Every step before VMM has caught up.
LEMMA EarlyStep ==
  ASSUME Capacity = 1, ReplyBurst = 1, BootInv, BootInv', ControlInv, Unread \/ (~Quiet /\ Skewed),
         EarlyInv(Token), [Next]_vars
  PROVE  EarlyInv(Token)'
<1>1. "status" \in Token
  BY Packets DEF Token, Noise
<1>2. CASE VMM \/ AgentBinds \/ AgentReceives \/ UNCHANGED vars
  <2>1. CASE VmmTx
    BY <2>1, EarlyTx
  <2>2. CASE ~VmmTx
    BY <1>2, <2>2, EarlyOthers
  <2> QED
    BY <2>1, <2>2
<1>3. CASE PpRead
  <2>1. CASE V2P!Pop
    BY <1>1, <1>3, <2>1, EarlyPop, SkewedStep DEF V2P!Pop, V2P!FrontBlock, V2P!ReloadBack, Skewed
  <2>2. CASE ~V2P!Pop
    <3>1. pp' = pp /\ (V2P!FrontBlock \/ V2P!ReloadBack \/ V2P!ReadBlock)
      BY <1>3, <2>2 DEF PpRead
    <3> QED
      BY <1>3, <3>1, EarlyFront
  <2> QED
    BY <2>1, <2>2
<1>4. CASE \/ PpReceive \/ PpNotified \/ PpNullRing \/ PpCheck \/ PpInitTx \/ PpInitRx \/ PpNotify
  <2>1. v2pQ'.front = v2pQ.front
    <3>1. CASE PpCheck
      BY <3>1 DEF PpCheck, V2P!Empty, BootInv, V2P!TypeOK
    <3>2. CASE PpInitRx
      <4>1. v2pQ.front = 0
        BY <3>2, SkewedStep DEF Unread, RingUnread
      <4>2. PICK i \in Index : v2pQ' = [v2pQ EXCEPT ![i] = 0]
        BY <3>2 DEF PpInitRx, BootInv, DomainTypes
      <4> QED
        BY <4>1, <4>2 DEF Index, BootInv, V2P!TypeOK
    <3>3. CASE PpReceive \/ PpNotified \/ PpNullRing \/ PpInitTx \/ PpNotify
      BY <3>3 DEF PpReceive, PpNotified, PpNullRing, PpInitTx, PpNotify, v2p
    <3> QED
      BY <1>4, <3>1, <3>2, <3>3
  <2> QED
    BY <1>4, <2>1, EarlyStill
<1>5. CASE PpTransport \/ PpSetup \/ PpPublish
  BY <1>5, EarlyDecides
<1>6. CASE PpWrite
  BY <1>6, EarlyWrite
<1> QED
  BY <1>2, <1>3, <1>4, <1>5, <1>6 DEF Next, PP

\* EraToken is inductive.
LEMMA NextEraToken ==
  ASSUME Capacity = 1, ReplyBurst = 1, BootInv, BootInv', ControlInv, NoBalls', EraToken(Token),
         [Next]_vars
  PROVE  EraToken(Token)'
<1>1. CASE Unread /\ EarlyInv(Token)
  <2>1. EarlyInv(Token)'
    BY <1>1, EarlyStep
  <2>2. Unread' \/ (~Quiet' /\ (Skewed' \/ Level'))
    BY <1>1, UnreadStep
  <2> QED
    BY <2>1, <2>2, LevelNext, LevelEarly DEF EraToken
<1>2. CASE ~Quiet /\ Skewed /\ EarlyInv(Token)
  <2>1. EarlyInv(Token)'
    BY <1>2, EarlyStep
  <2>2. ~Quiet' /\ (Skewed' \/ Level')
    BY <1>2, SkewedStep
  <2> QED
    BY <2>1, <2>2, LevelNext, LevelEarly DEF EraToken
<1>3. CASE ~Quiet /\ RxInv /\ TokenInv(Token)
  <2>1. TokenInv(Token)'
    BY <1>3, RingDelivers, NextToken
  <2> QED
    BY <1>3, <2>1, RingStep DEF EraToken
<1> QED
  BY <1>1, <1>2, <1>3 DEF EraToken

\* It is an invariant, whatever the guest sends.
LEMMA AlwaysEraToken ==
  ASSUME Capacity = 1, ReplyBurst = 1
  PROVE  Spec => []EraToken(Token)
<1>1. Init => EraToken(Token)
  <2> SUFFICES ASSUME Init PROVE EraToken(Token)
    OBVIOUS
  <2>1. Unread
    BY DEF Init, V2P!Init, V2P!EmptyRing, Unread, RingUnread
  <2>2. TokenInv(Token)
    BY InitToken
  <2>3. \A z \in Places \ {"rx"} : Early[z] = Part[z] /\ Free(Part[z], Token)
    BY <2>2, EarlyValues DEF Init, V2P!Init, TokenInv, Quiet
  <2>4. Early["rx"] = << NoMessage >>
    BY OneSlot, EarlyValues DEF Init, V2P!Init, V2P!EmptyRing
  <2>5. Free(Early["rx"], Token)
    BY <2>4, Kinds, Short
  <2>6. \A z \in Places : Free(Early[z], Token)
    BY <2>3, <2>5
  <2>7. EarlyInv(Token)
    BY <2>6 DEF EarlyInv, Single, Once, Free
  <2> QED
    BY <2>1, <2>7 DEF EraToken
<1>2. /\ BootInv /\ ControlInv /\ EraToken(Token) /\ [Next]_vars
      /\ BootInv' /\ NoBalls'
      => EraToken(Token)'
  BY NextEraToken
<1> QED
  BY <1>1, <1>2, AlwaysBoot, AlwaysControl, AlwaysNoBalls, PTL DEF Spec

(* When the agent answers a request with one packet, PP and VMM never wait  *)
(* for one another, each for room in the ring that only the other empties:  *)
(* with rings of one block whatever the guest sends, and with larger rings  *)
(* if it is quiet until PP has its own.                                     *)
THEOREM NeverEverStuckTogether ==
  ASSUME NoiseFrom = "rings" \/ Capacity = 1, ReplyBurst = 1
  PROVE  Spec => []NeverStuckTogether
<1>1. BootInv /\ TokenInv(Token) => NeverStuckTogether
  BY NotBothStuck DEF TokenInv, Single, Places
<1>2. BootInv /\ EarlyInv(Token) => NeverStuckTogether
  <2>1. "out" \in Places \ {"send", "rx"} /\ "tx" \in Places \ {"send", "rx"}
    BY DEF Places
  <2> QED
    BY <2>1, EarlyValues, NotBothStuck DEF EarlyInv, Single
<1>3. BootInv /\ EraToken(Token) => NeverStuckTogether
  BY <1>1, <1>2 DEF EraToken
<1>4. CASE NoiseFrom = "rings"
  BY <1>1, <1>4, AlwaysBoot, AlwaysToken, PTL
<1>5. CASE Capacity = 1
  BY <1>3, <1>5, AlwaysBoot, AlwaysEraToken, PTL
<1> QED
  BY <1>4, <1>5
-----------------------------------------------------------------------------
(* Nobody sleeps on a packet: WakeInv.                                      *)

(* What that needs of vmm2pp in a step: only spsc_push, which a             *)
(* notification follows, fills it, and PP leaves it empty.                  *)
Announces ==
  /\ PpCheck => /\ V2P!Contents' = V2P!Contents
                /\ V2P!ConsumerSeesEmpty(v2pQ') <=> V2P!Contents = << >>
  /\ PpInitRx => (V2P!Contents = << >> => V2P!Contents' = << >>)
  /\ PpRead => pp' = pp \/ V2P!Contents' = << >>
  /\ VmmTx => vmm' = [vmm EXCEPT !.pc = "notify"]
              \/ (V2P!Contents = << >> => V2P!Contents' = << >>)

\* Whether the ring is empty only its two public indices say.
LEMMA IndicesKept ==
  ASSUME V2P!TypeOK, V2P!TypeOK', v2pQ'.front = v2pQ.front, v2pQ'.back = v2pQ.back
  PROVE  V2P!Contents = << >> <=> V2P!Contents' = << >>
BY EqualIsEmpty, EqualIsEmptyNext DEF EmptyIfEqual

\* process_tx_pending, up to the release store.
LEMMA TxAnnounces ==
  ASSUME BootInv, BootInv', VmmTx
  PROVE  vmm' = [vmm EXCEPT !.pc = "notify"] \/ (V2P!Contents = << >> => V2P!Contents' = << >>)
<1> SUFFICES ASSUME V2P!NewBlock(Head(vmm.tx)) \/ V2P!ReloadFront \/ V2P!FillBlock \/ V2P!Push
             PROVE  V2P!Contents = << >> => V2P!Contents' = << >>
  BY DEF VmmTx
<1>1. V2P!TypeOK /\ V2P!TypeOK'
  BY DEF BootInv
<1>2. v2pQ'.front = v2pQ.front /\ v2pQ'.back = v2pQ.back
  BY <1>1 DEF V2P!NewBlock, V2P!ReloadFront, V2P!FillBlock, V2P!Push, V2P!TypeOK
<1> QED
  BY <1>1, <1>2, IndicesKept

\* Before PP has read anything.
LEMMA UnreadAnnounces ==
  ASSUME Capacity = 1, BootInv, BootInv', ControlInv, Unread, [Next]_vars
  PROVE  Announces
<1>1. V2P!TypeOK /\ V2P!TypeOK' /\ RingUnread
  BY DEF BootInv, Unread
<1>2. ~PpCheck
  BY DEF PpCheck, Unread, ControlInv
<1>3. ASSUME PpInitRx
      PROVE  V2P!Contents = << >> => V2P!Contents' = << >>
  <2>1. PICK i \in Index : v2pQ' = [v2pQ EXCEPT ![i] = 0]
    BY <1>3 DEF PpInitRx, BootInv, DomainTypes
  <2>2. v2pQ'.front = 0 /\ v2pQ'.back \in {v2pQ.back, 0} /\ v2pQ.front = 0
    BY <1>1, <2>1 DEF RingUnread, V2P!TypeOK, Index
  <2> QED
    BY <1>1, <2>2, EqualIsEmpty, EqualIsEmptyNext DEF EmptyIfEqual
<1>4. ASSUME PpRead, pp' # pp
      PROVE  V2P!Contents' = << >>
  <2>1. V2P!Pop
    BY <1>4 DEF PpRead
  <2>2. v2pQ'.front = v2pQ'.back
    BY <1>1, <2>1, UnreadPop DEF Skewed, Level
  <2> QED
    BY <1>1, <2>2, EqualIsEmptyNext DEF EmptyIfEqual
<1> QED
  BY <1>2, <1>3, <1>4, TxAnnounces DEF Announces

\* When vmm2pp is used as its proof assumes.
LEMMA RingAnnounces ==
  ASSUME Capacity = 1, BootInv, BootInv', RxInv, ~Quiet
  PROVE  Announces
<1>1. PpCheck => /\ V2P!Contents' = V2P!Contents
                 /\ V2P!ConsumerSeesEmpty(v2pQ') <=> V2P!Contents = << >>
  BY RxAssumptions, RxSteps, RxStates, RxNext, Rx!UserTests
     DEF PpCheck, RxInv, V2P!ConsumerSeesEmpty, Rx!ConsumerSeesEmpty
<1>2. ~PpInitRx
  BY DEF PpInitRx, Quiet
<1>3. ASSUME PpRead, pp' # pp
      PROVE  V2P!Contents' = << >>
  <2>1. V2P!Pop
    BY <1>3 DEF PpRead
  <2>2. V2P!Contents' = Tail(V2P!Contents) /\ V2P!Contents # << >>
    BY <2>1, RxAssumptions, RxSteps, RxStates, RxNext, Rx!UserPops DEF RxInv
  <2>3. V2P!Contents \in Seq(Packet) /\ Len(V2P!Contents) <= Capacity
    BY RxAssumptions, RxStates, Rx!UserContents DEF RxInv, Packet
  <2> HIDE DEF Packet
  <2>4. Tail(V2P!Contents) \in Seq(Packet) /\ Len(Tail(V2P!Contents)) = Len(V2P!Contents) - 1
        /\ Len(V2P!Contents) \in Nat \ {0}
    BY <2>2, <2>3, HeadTailProperties, EmptySeq
  <2> QED
    BY <2>2, <2>3, <2>4, EmptyByLength
<1> QED
  BY <1>1, <1>2, <1>3, TxAnnounces DEF Announces

\* So always, with rings of one block.
LEMMA EraAnnounces ==
  ASSUME Capacity = 1, BootInv, BootInv', ControlInv, EraInv, [Next]_vars
  PROVE  Announces
<1>1. CASE Skewed /\ ~Quiet
  BY <1>1, SkewedStep, TxAnnounces DEF Announces
<1> QED
  BY <1>1, UnreadAnnounces, RingAnnounces DEF EraInv

\* In the initial state there is none.
LEMMA InitWake == Init => WakeInv
BY TxAssumptions, TxStates, Tx!InitUser, RxAssumptions, RxStates, Rx!InitUser DEF Init, WakeInv

\* A notification of PP is in its badge or among its pending channels.
LEMMA PpHears ==
  ASSUME BootInv, PpReceive \/ PpNotified
  PROVE  /\ pp.pc = "dispatch" /\ pp'.pc # "notify"
         /\ "pingpong" \in pp.badge \cup ppPending =>
              "pingpong" \in pp'.badge \cup ppPending' \/ pp'.pc = "check"
<1>1. CASE PpReceive
  BY <1>1 DEF PpReceive, BootInv, DomainTypes
<1>2. CASE PpNotified
  <2>1. CASE "pingpong" \in pp.badge
    BY <1>2, <2>1 DEF PpNotified, BootInv, DomainTypes
  <2>2. CASE "pingpong" \notin pp.badge
    BY <1>2, <2>2 DEF PpNotified, BootInv, DomainTypes
  <2> QED
    BY <2>1, <2>2
<1> QED
  BY <1>1, <1>2

\* PP: it puts nothing into vmm2pp, and announces what it puts into pp2vmm.
LEMMA PpWakes ==
  ASSUME BootInv, Announces, WakeInv, PP
  PROVE  WakeInv'
<1>1. UNCHANGED vmm /\ (vmmPending' = vmmPending \/ vmmPending' = TRUE)
  BY DEF PP, PpReceive, PpNotified, PpNullRing, PpCheck, PpInitTx, PpInitRx, PpTransport, PpSetup,
         PpPublish, PpWrite, PpNotify, PpRead
<1>2. CASE PpReceive \/ PpNotified
  <2>1. P2V!Contents' = P2V!Contents /\ V2P!Contents' = V2P!Contents
    BY <1>2, ContentsKept DEF PpReceive, PpNotified
  <2> QED
    BY <1>1, <1>2, <2>1, PpHears DEF WakeInv
<1>3. CASE PpNullRing
  <2>1. P2V!Contents' = P2V!Contents /\ V2P!Contents' = V2P!Contents
    BY <1>3, ContentsKept DEF PpNullRing
  <2>2. pp.pc = "check" /\ pp'.pc = "faulted"
    BY <1>3 DEF PpNullRing, BootInv, DomainTypes
  <2> QED
    BY <1>1, <2>1, <2>2 DEF WakeInv
<1>4. CASE PpCheck
  <2>1. /\ P2V!Contents' = P2V!Contents /\ V2P!Contents' = V2P!Contents
        /\ V2P!ConsumerSeesEmpty(v2pQ') <=> V2P!Contents = << >>
    BY <1>4, ContentsKept DEF PpCheck, Announces
  <2>2. /\ pp.pc = "check" /\ pp'.badge = pp.badge /\ ppPending' = ppPending
        /\ pp'.pc = IF V2P!ConsumerSeesEmpty(v2pQ') THEN "dispatch" ELSE "read"
    BY <1>4 DEF PpCheck, BootInv, DomainTypes
  <2> QED
    BY <1>1, <2>1, <2>2 DEF WakeInv
<1>5. CASE PpInitTx \/ PpInitRx \/ PpTransport \/ PpSetup \/ PpPublish \/ PpNotify
  <2>1. P2V!Contents' = P2V!Contents /\ (V2P!Contents = << >> => V2P!Contents' = << >>)
    <3>1. CASE PpInitTx \/ PpInitRx \/ PpNotify
      BY <3>1, PpStill, ContentsKept DEF PpInitTx, PpNotify, Announces
    <3>2. CASE PpTransport \/ PpSetup \/ PpPublish
      BY <3>2, ContentsKept DEF PpTransport, PpSetup, PpPublish
    <3> QED
      BY <1>5, <3>1, <3>2
  <2>2. /\ pp.pc \notin {"check", "read", "faulted"} /\ pp'.badge = pp.badge /\ ppPending' = ppPending
        /\ pp.pc = "notify" => vmmPending'
    BY <1>5 DEF PpInitTx, PpInitRx, PpTransport, PpSetup, PpPublish, PpNotify, BootInv, DomainTypes
  <2> QED
    BY <1>1, <2>1, <2>2 DEF WakeInv
<1>6. CASE PpWrite
  <2>1. V2P!Contents' = V2P!Contents /\ pp.pc = "write" /\ ppPending' = ppPending /\ pp'.badge = pp.badge
    BY <1>6, ContentsKept DEF PpWrite, BootInv, DomainTypes
  <2>2. pp'.pc = "notify" \/ (pp' = pp /\ P2V!Contents' = P2V!Contents)
    <3>1. CASE P2V!PublishBack /\ pp' = [pp EXCEPT !.pc = "notify"]
      BY <3>1 DEF BootInv, DomainTypes
    <3>2. CASE (P2V!NewBlock(pp.msg) \/ P2V!ReloadFront \/ P2V!FillBlock \/ P2V!Push) /\ UNCHANGED pp
      <4>1. pp.msg \in Message
        BY <2>1 DEF BootInv, RoleInv, Sent, Message
      <4> QED
        BY <2>1, <3>2, <4>1, TxAssumptions, TxSteps, TxStates, TxNext, Tx!UserWrites DEF BootInv, TxInv, RoleInv
    <3> QED
      BY <1>6, <3>1, <3>2 DEF PpWrite
  <2> QED
    BY <1>1, <2>1, <2>2 DEF WakeInv
<1>7. CASE PpRead
  <2>1. P2V!Contents' = P2V!Contents /\ pp.pc = "read"
    BY <1>7, ContentsKept DEF PpRead
  <2>2. pp' = pp \/ V2P!Contents' = << >>
    BY <1>7 DEF Announces
  <2> QED
    BY <1>1, <2>1, <2>2 DEF WakeInv
<1> QED
  BY <1>2, <1>3, <1>4, <1>5, <1>6, <1>7 DEF PP

\* VMM and the guest: what goes into vmm2pp is announced, and VMM waits only
\* when it has found pp2vmm empty.
LEMMA OthersWake ==
  ASSUME BootInv, Announces, WakeInv, VMM \/ AgentBinds \/ AgentReceives \/ UNCHANGED vars
  PROVE  WakeInv'
<1>1. CASE VmmReceive \/ VmmFaultFails \/ AgentBinds \/ AgentReceives \/ UNCHANGED vars
  <2>1. P2V!Contents' = P2V!Contents /\ V2P!Contents' = V2P!Contents
    BY <1>1, ContentsKept DEF VmmReceive, VmmFaultFails, AgentBinds, AgentReceives, vars
  <2>2. /\ UNCHANGED << pp, ppPending >>
        /\ \/ vmm' = vmm /\ vmmPending' = vmmPending
           \/ vmm.pc = "wait" /\ vmm'.pc = "drain"
    BY <1>1 DEF VmmReceive, VmmFaultFails, AgentBinds, AgentReceives, vars, BootInv, DomainTypes
  <2> QED
    BY <2>1, <2>2 DEF WakeInv
<1>2. CASE VmmDrain
  <2>1. /\ P2V!Contents' = P2V!Contents /\ V2P!Contents' = V2P!Contents
        /\ P2V!ConsumerSeesEmpty(p2vQ') <=> P2V!Contents = << >>
    BY <1>2, ContentsKept, TxAssumptions, TxSteps, TxStates, TxNext, Tx!UserTests
       DEF VmmDrain, BootInv, TxInv, P2V!ConsumerSeesEmpty, Tx!ConsumerSeesEmpty
  <2>2. /\ vmm.pc = "drain" /\ UNCHANGED << pp, ppPending, vmmPending >>
        /\ vmm'.pc = IF P2V!ConsumerSeesEmpty(p2vQ') THEN "wait" ELSE "send"
    BY <1>2 DEF VmmDrain, BootInv, DomainTypes
  <2> QED
    BY <2>1, <2>2 DEF WakeInv
<1>3. CASE VmmSend
  <2>1. V2P!Contents' = V2P!Contents /\ vmm.pc = "send" /\ UNCHANGED << pp, ppPending >>
    BY <1>3, ContentsKept DEF VmmSend
  <2>2. vmm'.pc \in {"send", "drain"}
    BY <1>3 DEF VmmSend, BootInv, DomainTypes
  <2> QED
    BY <2>1, <2>2 DEF WakeInv
<1>4. CASE VmmReadySignal \/ VmmNotify
  <2>1. P2V!Contents' = P2V!Contents /\ V2P!Contents' = V2P!Contents /\ vmmPending' = vmmPending
    BY <1>4, ContentsKept DEF VmmReadySignal, VmmNotify
  <2>2. /\ vmm.pc \in {"wait", "notify"}
        /\ \/ UNCHANGED << vmm, pp, ppPending >>
           \/ NotifyPP("ready") /\ vmm.pc = "wait" /\ vmm'.pc = "wait"
           \/ NotifyPP("pingpong") /\ vmm.pc = "notify"
    BY <1>4 DEF VmmReadySignal, VmmNotify, BootInv, DomainTypes
  <2>3. ASSUME NEW ch \in Channel, NotifyPP(ch)
        PROVE  /\ pp'.badge \cup ppPending' = pp.badge \cup ppPending \cup {ch}
               /\ pp'.pc = pp.pc \/ (pp.pc = "wait" /\ pp'.pc = "dispatch")
    BY <2>3, NotifyForms DEF BootInv, DomainTypes
  <2> QED
    BY <2>1, <2>2, <2>3 DEF WakeInv, Channel
<1>5. CASE VmmKick
  <2>1. P2V!Contents' = P2V!Contents /\ V2P!Contents' = V2P!Contents
        /\ UNCHANGED << pp, ppPending, vmmPending >> /\ vmm.pc = "wait"
    BY <1>5, ContentsKept DEF VmmKick
  <2> QED
    BY <2>1 DEF WakeInv
<1>6. CASE VmmTx
  <2>1. P2V!Contents' = P2V!Contents /\ UNCHANGED << pp, ppPending, vmmPending >> /\ vmm.pc = "tx"
    BY <1>6, ContentsKept DEF VmmTx
  <2>2. \/ vmm' = [vmm EXCEPT !.pc = "notify"]
        \/ vmm' = vmm /\ (V2P!Contents = << >> => V2P!Contents' = << >>)
    <3>1. vmm' = [vmm EXCEPT !.pc = "notify"] \/ vmm' = vmm
      BY <1>6 DEF VmmTx
    <3>2. vmm' = [vmm EXCEPT !.pc = "notify"] \/ (V2P!Contents = << >> => V2P!Contents' = << >>)
      BY <1>6 DEF Announces
    <3> QED
      BY <3>1, <3>2
  <2> QED
    BY <2>1, <2>2 DEF WakeInv, BootInv, DomainTypes
<1> QED
  BY <1>1, <1>2, <1>3, <1>4, <1>5, <1>6 DEF VMM

(* With rings of one block, as they are built, nobody sleeps on a packet,   *)
(* also when the guest transmits before PP has its rings: a notification    *)
(* stands for one packet, and one packet is served for it.                  *)
THEOREM NoWakeupLost ==
  ASSUME Capacity = 1
  PROVE  Spec => []NoLostWakeup
<1>1. /\ BootInv /\ ControlInv /\ EraInv /\ WakeInv /\ [Next]_vars
      /\ BootInv'
      => WakeInv'
  BY EraAnnounces, PpWakes, OthersWake DEF Next
<1>2. BootInv /\ WakeInv => NoLostWakeup
  BY DEF BootInv, RoleInv, WakeInv, NoLostWakeup
<1> QED
  BY <1>1, <1>2, InitWake, AlwaysBoot, AlwaysControl, AlwaysEra, PTL DEF Spec
=============================================================================
