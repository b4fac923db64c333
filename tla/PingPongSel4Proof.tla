------------------------- MODULE PingPongSel4Proof -------------------------
(***************************************************************************)
(* Proofs about rclc/ping_pong_sel4, for every capacity of the rings,      *)
(* number of set-up calls, size of the guest's bursts, and amount of noise.*)
(*                                                                         *)
(* The rings are proved by themselves in SpscQueueProof.  Here it is shown *)
(* that the two domains use them as that proof assumes; everything else    *)
(* sees of a ring only what it holds and where its two sides are.          *)
(***************************************************************************)
EXTENDS PingPongSel4, FiniteSetTheorems, TLAPS

Tx == INSTANCE SpscQueueProof WITH Payload <- Message, Garbage <- NoMessage,
        q <- p2vQ, block <- p2vBlock, prod <- p2vProd, cons <- p2vCons
Rx == INSTANCE SpscQueueProof WITH Payload <- Message, Garbage <- NoMessage,
        q <- v2pQ, block <- v2pBlock, prod <- v2pProd, cons <- v2pCons

\* What PP ever sends.
Sent == {"request", "ping", "pong"}

(* The types of what is not a ring. *)
DomainTypes ==
  /\ pp \in [pc : {"wait", "dispatch", "initTx", "initRx", "transport", "setup",
                   "publish", "write", "notify", "check", "read", "faulted", "exited"},
             badge : SUBSET Channel, rings : BOOLEAN, publishers : BOOLEAN,
             reset : SUBSET Index, calls : 0 .. SetupCalls,
             msg : Message \cup {NoMessage}]
  /\ vmm \in [pc : {"wait", "drain", "send", "tx", "notify"},
              tx : Seq(Message), signalled : BOOLEAN]
  /\ ppPending \subseteq Channel
  /\ vmmPending \in BOOLEAN
  /\ guest \in [running : BOOLEAN, port : BOOLEAN, writes : 0 .. ReadyWrites,
                noise : 0 .. MaxNoise, inbox : Seq(Message), outbox : Seq(Message)]

(* A side is inside a ring operation only where its domain calls it, and    *)
(* with the packet the domain has in hand.                                  *)
RoleInv ==
  /\ p2vProd.pc # "idle" => pp.pc = "write" /\ p2vProd.pkt = pp.msg
  /\ p2vCons.pc # "idle" => vmm.pc = "send"
  /\ v2pProd.pc # "idle" => vmm.pc = "tx" /\ v2pProd.pkt = Head(vmm.tx)
  /\ v2pCons.pc # "idle" => pp.pc = "read"
  /\ vmm.pc \in {"tx", "notify"} <=> vmm.tx # << >>
  /\ pp.pc \in {"publish", "write", "notify"} => pp.msg \in Sent
  /\ pp.pc = "wait" => pp.badge = {} /\ ppPending = {}

(* Readiness is signalled once, and only when the agent listens: until PP   *)
(* has taken the signal it is in one place, and afterwards in none.         *)
ReadyInv ==
  /\ vmm.signalled => guest.port
  /\ "ready" \in pp.badge \cup ppPending \/ pp.pc = "initTx" \/ pp.rings => vmm.signalled
  /\ pp.pc = "initTx" \/ pp.rings => "ready" \notin pp.badge \cup ppPending
  /\ ~("ready" \in pp.badge /\ "ready" \in ppPending)
  /\ pp.pc = "initTx" => ~pp.rings
  /\ ~pp.rings => pp.pc \in {"wait", "dispatch", "check", "initTx", "faulted"}

\* PP has not yet initialised the rings.
Quiet == ~pp.rings \/ pp.pc = "initRx"

(* Until then pp2vmm is as spsc_init of VMM left it and nothing of PP's has *)
(* reached VMM or the guest.                                                *)
QuietInv ==
  Quiet => /\ p2vQ = P2V!EmptyRing /\ p2vProd.pc = "idle" /\ p2vCons.pc = "idle"
           /\ ~vmmPending /\ vmm.pc \notin {"drain", "send"}
           /\ guest.inbox = << >> /\ guest.outbox = << >>
           /\ ~pp.publishers /\ pp.calls = 0

TxInv == Tx!UserInv
RxInv == Rx!UserInv

\* pp2vmm carries what PP sends.
TxHolds == \A i \in DOMAIN P2V!Contents : P2V!Contents[i] \in Sent

\* What holds however early the guest transmits.
BootInv ==
  DomainTypes /\ RoleInv /\ ReadyInv /\ QuietInv /\ TxInv /\ TxHolds /\ V2P!TypeOK

(* If the guest is quiet until PP has its rings, vmm2pp too is untouched    *)
(* until then, and no pingpong notification comes early.                    *)
CalmInv ==
  /\ Quiet => /\ vmm.pc = "wait"
              /\ v2pQ = V2P!EmptyRing /\ v2pProd.pc = "idle" /\ v2pCons.pc = "idle"
              /\ "pingpong" \notin pp.badge \cup ppPending
              /\ pp.pc \notin {"check", "faulted"}
  /\ pp.pc # "faulted"
  /\ RxInv
-----------------------------------------------------------------------------
(* The proof of the ring is about the rings of this system.                 *)

\* What it assumes of the constants holds.
LEMMA TxAssumptions == Tx!CapacityAssumption /\ Tx!WordAssumption /\ Tx!GarbageAssumption
BY PingPongAssumption
   DEF Tx!CapacityAssumption, Tx!WordAssumption, Tx!GarbageAssumption, Message, Noise, NoMessage

\* The same of the other ring.
LEMMA RxAssumptions == Rx!CapacityAssumption /\ Rx!WordAssumption /\ Rx!GarbageAssumption
BY PingPongAssumption
   DEF Rx!CapacityAssumption, Rx!WordAssumption, Rx!GarbageAssumption, Message, Noise, NoMessage

\* The names it uses stand for what they stand for in P2V.
LEMMA TxStates ==
  /\ P2V!Init <=> Tx!Init
  /\ P2V!TypeOK <=> Tx!TypeOK
  /\ P2V!Contents = Tx!Contents
  /\ P2V!vars = Tx!vars
BY DEF P2V!Init, P2V!TypeOK, P2V!Contents, P2V!vars, P2V!Word, P2V!Slots, P2V!Dist, P2V!Slot, P2V!EmptyRing, Tx!Init, Tx!TypeOK, Tx!Contents, Tx!vars, Tx!Word, Tx!Slots, Tx!Dist, Tx!Slot, Tx!EmptyRing

\* The same of the next state.
LEMMA TxNext ==
  /\ P2V!TypeOK' <=> Tx!TypeOK'
  /\ P2V!Contents' = Tx!Contents'
BY DEF P2V!TypeOK, P2V!Contents, P2V!Word, P2V!Slots, P2V!Dist, P2V!Slot, Tx!TypeOK, Tx!Contents, Tx!Word, Tx!Slots, Tx!Dist, Tx!Slot

\* The operations of the producer's and the consumer's side.
LEMMA TxSteps ==
  /\ \A p : P2V!NewBlock(p) <=> Tx!NewBlock(p)
  /\ P2V!ReloadFront <=> Tx!ReloadFront
  /\ P2V!FillBlock <=> Tx!FillBlock
  /\ P2V!Push <=> Tx!Push
  /\ P2V!PublishBack <=> Tx!PublishBack
  /\ P2V!Empty <=> Tx!Empty
  /\ P2V!FrontBlock <=> Tx!FrontBlock
  /\ P2V!ReloadBack <=> Tx!ReloadBack
  /\ P2V!ReadBlock <=> Tx!ReadBlock
  /\ P2V!Pop <=> Tx!Pop
BY DEF P2V!NewBlock, P2V!ReloadFront, P2V!FillBlock, P2V!Push, P2V!PublishBack, P2V!Empty, P2V!FrontBlock, P2V!ReloadBack, P2V!ReadBlock, P2V!Pop, P2V!Inc, P2V!Dist, P2V!Slot, P2V!ProducerSeesFull, P2V!ConsumerSeesEmpty, Tx!NewBlock, Tx!ReloadFront, Tx!FillBlock, Tx!Push, Tx!PublishBack, Tx!Empty, Tx!FrontBlock, Tx!ReloadBack, Tx!ReadBlock, Tx!Pop, Tx!Inc, Tx!Dist, Tx!Slot, Tx!ProducerSeesFull, Tx!ConsumerSeesEmpty

\* The names it uses stand for what they stand for in V2P.
LEMMA RxStates ==
  /\ V2P!Init <=> Rx!Init
  /\ V2P!TypeOK <=> Rx!TypeOK
  /\ V2P!Contents = Rx!Contents
  /\ V2P!vars = Rx!vars
BY DEF V2P!Init, V2P!TypeOK, V2P!Contents, V2P!vars, V2P!Word, V2P!Slots, V2P!Dist, V2P!Slot, V2P!EmptyRing, Rx!Init, Rx!TypeOK, Rx!Contents, Rx!vars, Rx!Word, Rx!Slots, Rx!Dist, Rx!Slot, Rx!EmptyRing

\* The same of the next state.
LEMMA RxNext ==
  /\ V2P!TypeOK' <=> Rx!TypeOK'
  /\ V2P!Contents' = Rx!Contents'
BY DEF V2P!TypeOK, V2P!Contents, V2P!Word, V2P!Slots, V2P!Dist, V2P!Slot, Rx!TypeOK, Rx!Contents, Rx!Word, Rx!Slots, Rx!Dist, Rx!Slot

\* The operations of the producer's and the consumer's side.
LEMMA RxSteps ==
  /\ \A p : V2P!NewBlock(p) <=> Rx!NewBlock(p)
  /\ V2P!ReloadFront <=> Rx!ReloadFront
  /\ V2P!FillBlock <=> Rx!FillBlock
  /\ V2P!Push <=> Rx!Push
  /\ V2P!PublishBack <=> Rx!PublishBack
  /\ V2P!Empty <=> Rx!Empty
  /\ V2P!FrontBlock <=> Rx!FrontBlock
  /\ V2P!ReloadBack <=> Rx!ReloadBack
  /\ V2P!ReadBlock <=> Rx!ReadBlock
  /\ V2P!Pop <=> Rx!Pop
BY DEF V2P!NewBlock, V2P!ReloadFront, V2P!FillBlock, V2P!Push, V2P!PublishBack, V2P!Empty, V2P!FrontBlock, V2P!ReloadBack, V2P!ReadBlock, V2P!Pop, V2P!Inc, V2P!Dist, V2P!Slot, V2P!ProducerSeesFull, V2P!ConsumerSeesEmpty, Rx!NewBlock, Rx!ReloadFront, Rx!FillBlock, Rx!Push, Rx!PublishBack, Rx!Empty, Rx!FrontBlock, Rx!ReloadBack, Rx!ReadBlock, Rx!Pop, Rx!Inc, Rx!Dist, Rx!Slot, Rx!ProducerSeesFull, Rx!ConsumerSeesEmpty

\* What is known of the constants, one by one.
LEMMA Constants ==
  /\ Capacity \in Nat \ {0} /\ SetupCalls \in Nat \ {0} /\ ReplyBurst \in Nat \ {0}
  /\ KickBurst \in Nat \ {0} /\ ReadyWrites \in Nat \ {0} /\ MaxNoise \in Nat
BY PingPongAssumption

\* A sequence is empty when its length says so.
LEMMA EmptyByLength == \A S : \A s \in Seq(S) : s = << >> <=> Len(s) = 0
OBVIOUS

\* Packets and noise.
LEMMA Packets == Message = {"request", "status", "ping", "pong", "foreign", "oversize"}
BY DEF Message, Noise

-----------------------------------------------------------------------------
(* However early the guest transmits: BootInv.                              *)

\* A step that leaves pp2vmm alone leaves its proof and its packets alone.
LEMMA TxUnchanged ==
  ASSUME TxInv, UNCHANGED p2v
  PROVE  TxInv' /\ P2V!Contents' = P2V!Contents
<1>1. UNCHANGED Tx!vars
  BY DEF Tx!vars, p2v
<1>2. TxInv'
  BY <1>1, TxAssumptions, Tx!UserStep DEF TxInv
<1> QED
  BY <1>2 DEF p2v, P2V!Contents, P2V!Dist, P2V!Slot

\* What the event loop and the callbacks of PP do between ring operations.
LEMMA PpLocalKeeps ==
  ASSUME BootInv,
         PpReceive \/ PpNotified \/ PpNullRing \/ PpTransport \/ PpSetup \/ PpPublish \/ PpNotify
  PROVE  BootInv'
<1> USE DEF BootInv
<1>1. UNCHANGED << p2v, v2p >>
  BY DEF PpReceive, PpNotified, PpNullRing, PpTransport, PpSetup, PpPublish, PpNotify
<1>2. TxInv' /\ TxHolds' /\ V2P!TypeOK'
  BY <1>1, TxUnchanged DEF TxHolds, V2P!TypeOK, v2p
<1>3. CASE PpReceive
  <2>1. /\ pp.pc = "dispatch" /\ pp.badge = {} /\ ppPending' = {}
        /\ UNCHANGED << vmm, vmmPending, guest >>
    BY <1>3 DEF PpReceive
  <2>2. PICK c \in {"wait", "dispatch"} :
          pp' = [pp EXCEPT !.pc = c, !.badge = ppPending] /\ (c = "wait" <=> ppPending = {})
    BY <1>3 DEF PpReceive
  <2>3. /\ pp'.pc = c /\ pp'.badge = ppPending
        /\ UNCHANGED << pp.rings, pp.publishers, pp.calls, pp.msg >>
    BY <2>2 DEF DomainTypes
  <2>6. DomainTypes'
    BY <2>1, <2>2 DEF DomainTypes
  <2>4. RoleInv'
    BY <1>1, <2>1, <2>2, <2>3 DEF RoleInv, p2v, v2p
  <2>5. ReadyInv' /\ QuietInv'
    BY <1>1, <2>1, <2>3 DEF ReadyInv, QuietInv, Quiet, p2v, v2p
  <2> QED
    BY <1>2, <2>4, <2>5, <2>6
<1>4. CASE PpNotified
  <2>1. PICK ch \in Channel :
          /\ pp.pc = "dispatch" /\ ch \in pp.badge
          /\ ch = "ready" <=> "pingpong" \notin pp.badge
          /\ pp' = [pp EXCEPT !.pc = IF ch = "pingpong" THEN "check" ELSE "initTx",
                              !.badge = @ \ {ch}]
          /\ UNCHANGED << vmm, ppPending, vmmPending, guest >>
    BY <1>4 DEF PpNotified, DomainTypes, Channel
  <2>2. PICK c \in {"check", "initTx"}, b \in SUBSET Channel :
          /\ pp' = [pp EXCEPT !.pc = c, !.badge = b]
          /\ (c = "check" <=> ch = "pingpong") /\ b = pp.badge \ {ch}
    BY <2>1 DEF DomainTypes
  <2>3. /\ pp'.pc = c /\ pp'.badge = b
        /\ UNCHANGED << pp.rings, pp.publishers, pp.calls, pp.msg >>
    BY <2>2 DEF DomainTypes
  <2>4. DomainTypes'
    BY <2>1, <2>2 DEF DomainTypes
  <2>5. RoleInv'
    BY <1>1, <2>1, <2>2, <2>3 DEF RoleInv, p2v, v2p
  <2>6. ReadyInv' /\ QuietInv'
    BY <1>1, <2>1, <2>2, <2>3 DEF ReadyInv, QuietInv, Quiet, p2v, v2p, Channel
  <2> QED
    BY <1>2, <2>4, <2>5, <2>6
<1>5. CASE PpNullRing
  BY <1>2, <1>5 DEF PpNullRing, DomainTypes, RoleInv, ReadyInv, QuietInv, Quiet, p2v, v2p, Channel
<1>6. CASE PpTransport
  <2>1. CASE pp' = [pp EXCEPT !.pc = "setup", !.calls = SetupCalls]
    <3>1. DomainTypes'
      <4>1. SetupCalls \in 0 .. SetupCalls
        BY Constants
      <4> QED
        BY <1>6, <2>1, <4>1 DEF PpTransport, DomainTypes
    <3> QED
      BY <1>2, <1>6, <2>1, <3>1 DEF PpTransport, DomainTypes, RoleInv, ReadyInv, QuietInv, Quiet, p2v, v2p
  <2>2. CASE pp' = [pp EXCEPT !.pc = "publish", !.msg = "ping"]
    BY <1>2, <1>6, <2>2, Constants, Packets DEF PpTransport, DomainTypes, RoleInv, ReadyInv, QuietInv, Quiet, p2v, v2p, Sent
  <2> QED
    BY <1>6, <2>1, <2>2 DEF PpTransport
<1>7. CASE PpSetup
  <2>1. CASE pp' = [pp EXCEPT !.pc = "write", !.msg = "request"] /\ pp.calls > 0
    BY <1>2, <1>7, <2>1, Constants, Packets DEF PpSetup, DomainTypes, RoleInv, ReadyInv, QuietInv, Quiet, p2v, v2p, Sent
  <2>2. CASE pp' = [pp EXCEPT !.pc = "publish", !.msg = "ping", !.publishers = TRUE]
    BY <1>2, <1>7, <2>2, Constants, Packets DEF PpSetup, DomainTypes, RoleInv, ReadyInv, QuietInv, Quiet, p2v, v2p, Sent
  <2>3. CASE pp' = [pp EXCEPT !.pc = "exited"]
    BY <1>2, <1>7, <2>3, Constants, Packets DEF PpSetup, DomainTypes, RoleInv, ReadyInv, QuietInv, Quiet, p2v, v2p, Sent
  <2> QED
    BY <1>7, <2>1, <2>2, <2>3 DEF PpSetup
<1>8. CASE PpPublish
  <2>1. CASE pp' = [pp EXCEPT !.pc = "write"]
    BY <1>2, <1>8, <2>1, Constants, Packets DEF PpPublish, DomainTypes, RoleInv, ReadyInv, QuietInv, Quiet, p2v, v2p, Sent
  <2>2. CASE pp' = [pp EXCEPT !.pc = "exited"]
    BY <1>2, <1>8, <2>2, Constants, Packets DEF PpPublish, DomainTypes, RoleInv, ReadyInv, QuietInv, Quiet, p2v, v2p, Sent
  <2> QED
    BY <1>8, <2>1, <2>2 DEF PpPublish
<1>9. CASE PpNotify
  BY <1>2, <1>9 DEF PpNotify, DomainTypes, RoleInv, ReadyInv, QuietInv, Quiet, p2v, v2p, Channel
<1> QED
  BY <1>3, <1>4, <1>5, <1>6, <1>7, <1>8, <1>9

\* transport_init initialises pp2vmm, which nobody has used.
LEMMA PpInitTxKeeps == ASSUME BootInv, PpInitTx PROVE BootInv'
<1> USE DEF BootInv
<1>1. p2vQ = P2V!EmptyRing
  BY DEF PpInitTx, ReadyInv, QuietInv, Quiet
<1>2. UNCHANGED p2v /\ UNCHANGED v2p
  BY <1>1 DEF PpInitTx, p2v
<1>3. TxInv' /\ TxHolds' /\ V2P!TypeOK'
  BY <1>2, TxUnchanged DEF TxHolds, V2P!TypeOK, v2p
<1> QED
  BY <1>2, <1>3 DEF PpInitTx, DomainTypes, RoleInv, ReadyInv, QuietInv, Quiet, p2v, v2p

\* It initialises vmm2pp, which VMM may be using; indices stay indices.
LEMMA PpInitRxKeeps == ASSUME BootInv, PpInitRx PROVE BootInv'
<1> USE DEF BootInv
<1>1. UNCHANGED p2v
  BY DEF PpInitRx
<1>2. TxInv' /\ TxHolds'
  BY <1>1, TxUnchanged DEF TxHolds
<1>3. 0 \in V2P!Word
  BY PingPongAssumption DEF V2P!Word
<1>4. V2P!TypeOK'
  <2>1. PICK i \in Index : v2pQ' = [v2pQ EXCEPT ![i] = 0]
    BY DEF PpInitRx, DomainTypes
  <2>2. UNCHANGED << v2pBlock, v2pProd, v2pCons >>
    BY DEF PpInitRx
  <2> QED
    BY <1>3, <2>1, <2>2 DEF V2P!TypeOK
<1>5. PICK i \in pp.reset :
         pp' = [pp EXCEPT !.reset = @ \ {i},
                          !.pc = IF pp.reset = {i} THEN "transport" ELSE "initRx"]
  BY DEF PpInitRx
<1>6. /\ pp.pc = "initRx"
      /\ UNCHANGED << v2pProd, v2pCons, vmm, ppPending, vmmPending, guest >>
  BY DEF PpInitRx
<1>7. DomainTypes'
  BY <1>5, <1>6 DEF DomainTypes
<1>8. /\ pp'.pc \in {"transport", "initRx"}
      /\ UNCHANGED << pp.badge, pp.rings, pp.publishers, pp.calls, pp.msg >>
  BY <1>5 DEF DomainTypes
<1>9. RoleInv'
  BY <1>1, <1>6, <1>8 DEF RoleInv, p2v
<1>10. ReadyInv' /\ QuietInv'
  BY <1>1, <1>6, <1>8 DEF ReadyInv, QuietInv, Quiet, p2v
<1> QED
  BY <1>2, <1>4, <1>7, <1>9, <1>10

\* CHAN_PINGPONG only looks at vmm2pp.
LEMMA PpCheckKeeps == ASSUME BootInv, PpCheck PROVE BootInv'
<1> USE DEF BootInv
<1>1. UNCHANGED p2v
  BY DEF PpCheck
<1>2. TxInv' /\ TxHolds'
  BY <1>1, TxUnchanged DEF TxHolds
<1>3. V2P!TypeOK'
  BY DEF PpCheck, V2P!Empty, V2P!TypeOK
<1>4. /\ pp.pc = "check" /\ pp.rings
      /\ pp' = [pp EXCEPT !.pc = "dispatch"] \/ pp' = [pp EXCEPT !.pc = "read"]
      /\ UNCHANGED << vmm, ppPending, vmmPending, guest, v2pProd, v2pCons >>
  BY DEF PpCheck, V2P!Empty
<1>5. DomainTypes'
  BY <1>4 DEF DomainTypes
<1>6. /\ pp'.pc \in {"dispatch", "read"}
      /\ UNCHANGED << pp.badge, pp.rings, pp.publishers, pp.calls, pp.msg >>
  BY <1>4 DEF DomainTypes
<1>7. RoleInv' /\ ReadyInv' /\ QuietInv'
  BY <1>1, <1>4, <1>6 DEF RoleInv, ReadyInv, QuietInv, Quiet, p2v
<1> QED
  BY <1>2, <1>3, <1>5, <1>7

\* custom_transport_seL4_write appends what PP has in hand to pp2vmm.
LEMMA PpWriteKeeps == ASSUME BootInv, PpWrite PROVE BootInv'
<1> USE DEF BootInv
<1>1. pp.pc = "write" /\ pp.msg \in Message /\ pp.msg \in Sent /\ ~Quiet
  BY DEF PpWrite, RoleInv, ReadyInv, Quiet, Sent, Message
<1>2. UNCHANGED << v2p, vmm, ppPending, vmmPending, guest >> /\ V2P!TypeOK'
  BY DEF PpWrite, V2P!TypeOK, v2p
<1>3. CASE P2V!PublishBack /\ pp' = [pp EXCEPT !.pc = "notify"]
  <2>1. /\ TxInv' /\ P2V!Contents' = Append(P2V!Contents, p2vProd.pkt)
        /\ p2vCons' = p2vCons /\ p2vProd.pc # "idle" /\ p2vProd'.pc = "idle"
    BY <1>3, TxAssumptions, TxSteps, TxStates, TxNext, Tx!UserPublishes DEF TxInv
  <2>2. P2V!Contents \in Seq(Message \cup {NoMessage})
    BY TxAssumptions, TxStates, Tx!UserContents DEF TxInv
  <2>3. TxHolds'
    BY <1>1, <2>1, <2>2 DEF TxHolds, RoleInv
  <2> QED
    BY <1>1, <1>2, <1>3, <2>1, <2>3 DEF DomainTypes, RoleInv, ReadyInv, QuietInv, Quiet, v2p
<1>4. CASE (P2V!NewBlock(pp.msg) \/ P2V!ReloadFront \/ P2V!FillBlock \/ P2V!Push) /\ UNCHANGED pp
  <2>1. /\ TxInv' /\ P2V!Contents' = P2V!Contents
        /\ p2vCons' = p2vCons /\ p2vProd'.pkt = pp.msg
    BY <1>1, <1>4, TxAssumptions, TxSteps, TxStates, TxNext, Tx!UserWrites DEF TxInv, RoleInv
  <2>2. TxHolds'
    BY <2>1 DEF TxHolds
  <2> QED
    BY <1>1, <1>2, <1>4, <2>1, <2>2 DEF DomainTypes, RoleInv, ReadyInv, QuietInv, Quiet, v2p
<1> QED
  BY <1>3, <1>4 DEF PpWrite

\* What PP may do with a packet it has popped.
LEMMA AfterReadForms ==
  ASSUME NEW p, pp' = AfterRead(p), DomainTypes
  PROVE  \/ pp' = [pp EXCEPT !.pc = "read"] /\ (p = "foreign" \/ (p # "status" /\ pp.calls > 0))
         \/ pp' = [pp EXCEPT !.pc = "setup", !.calls = @ - 1] /\ pp.calls > 0 /\ p = "status"
         \/ pp' = [pp EXCEPT !.pc = "publish", !.msg = "pong"] /\ pp.calls = 0 /\ p = "ping"
         \/ pp' = [pp EXCEPT !.pc = "publish", !.msg = "ping"] /\ pp.calls = 0 /\ p = "pong"
         \/ pp' = [pp EXCEPT !.pc = "dispatch"] /\ pp.calls = 0
<1>1. pp.calls = 0 \/ pp.calls > 0
  BY Constants DEF DomainTypes
<1> QED
  BY <1>1 DEF AfterRead

\* The same, field by field.
LEMMA AfterReadFields ==
  ASSUME NEW p, pp' = AfterRead(p), DomainTypes
  PROVE  /\ UNCHANGED << pp.badge, pp.rings, pp.publishers >>
         /\ \/ pp'.pc = "read" /\ pp'.calls = pp.calls
            \/ pp'.pc = "setup" /\ pp'.calls = pp.calls - 1 /\ pp.calls > 0 /\ p = "status"
            \/ pp'.pc = "publish" /\ pp'.calls = pp.calls /\ pp'.msg = "pong" /\ pp.calls = 0 /\ p = "ping"
            \/ pp'.pc = "publish" /\ pp'.calls = pp.calls /\ pp'.msg = "ping" /\ pp.calls = 0 /\ p = "pong"
            \/ pp'.pc = "dispatch" /\ pp'.calls = pp.calls /\ pp.calls = 0
<1>1. CASE pp' = [pp EXCEPT !.pc = "read"]
  BY <1>1 DEF DomainTypes
<1>2. CASE pp' = [pp EXCEPT !.pc = "setup", !.calls = @ - 1] /\ pp.calls > 0 /\ p = "status"
  BY <1>2 DEF DomainTypes
<1>3. CASE pp' = [pp EXCEPT !.pc = "publish", !.msg = "pong"] /\ pp.calls = 0 /\ p = "ping"
  BY <1>3 DEF DomainTypes
<1>4. CASE pp' = [pp EXCEPT !.pc = "publish", !.msg = "ping"] /\ pp.calls = 0 /\ p = "pong"
  BY <1>4 DEF DomainTypes
<1>5. CASE pp' = [pp EXCEPT !.pc = "dispatch"] /\ pp.calls = 0
  BY <1>5 DEF DomainTypes
<1> QED
  BY <1>1, <1>2, <1>3, <1>4, <1>5, AfterReadForms

\* What PP decides by itself, field by field.
LEMMA DecidedFields ==
  ASSUME DomainTypes, PpTransport \/ PpSetup \/ PpPublish
  PROVE  /\ UNCHANGED << pp.badge, pp.rings >>
         /\ pp.publishers => pp'.publishers
         /\ pp'.pc \in {"setup", "publish", "write", "exited"}
         /\ pp'.pc = "setup" => pp.pc = "transport"
<1>1. CASE PpTransport
  <2>1. CASE pp' = [pp EXCEPT !.pc = "setup", !.calls = SetupCalls]
    BY <1>1, <2>1 DEF PpTransport, DomainTypes
  <2>2. CASE pp' = [pp EXCEPT !.pc = "publish", !.msg = "ping"]
    BY <1>1, <2>2 DEF DomainTypes
  <2> QED
    BY <1>1, <2>1, <2>2 DEF PpTransport
<1>2. CASE PpSetup
  <2>1. CASE pp' = [pp EXCEPT !.pc = "write", !.msg = "request"]
    BY <2>1 DEF DomainTypes
  <2>2. CASE pp' = [pp EXCEPT !.pc = "publish", !.msg = "ping", !.publishers = TRUE]
    BY <2>2 DEF DomainTypes
  <2>3. CASE pp' = [pp EXCEPT !.pc = "exited"]
    BY <2>3 DEF DomainTypes
  <2> QED
    BY <1>2, <2>1, <2>2, <2>3 DEF PpSetup
<1>3. CASE PpPublish
  <2>1. CASE pp' = [pp EXCEPT !.pc = "write"]
    BY <2>1 DEF DomainTypes
  <2>2. CASE pp' = [pp EXCEPT !.pc = "exited"]
    BY <2>2 DEF DomainTypes
  <2> QED
    BY <1>3, <2>1, <2>2 DEF PpPublish
<1> QED
  BY <1>1, <1>2, <1>3

\* The sides of vmm2pp while nothing more is known of it than its types.
LEMMA RxTypeStep ==
  ASSUME V2P!TypeOK,
         \/ \E p \in Message : V2P!NewBlock(p)
         \/ V2P!ReloadFront \/ V2P!FillBlock \/ V2P!Push \/ V2P!PublishBack
         \/ V2P!FrontBlock \/ V2P!ReloadBack \/ V2P!ReadBlock \/ V2P!Pop
  PROVE  V2P!TypeOK'
<1>1. Rx!Next
  BY RxSteps DEF Rx!Next, Rx!Producer, Rx!Consumer
<1> QED
  BY <1>1, RxAssumptions, RxStates, RxNext, Rx!TypeStep

\* custom_transport_seL4_read touches PP's side of vmm2pp only.
LEMMA PpReadKeeps == ASSUME BootInv, PpRead PROVE BootInv'
<1> USE DEF BootInv
<1>1. pp.pc = "read" /\ ~Quiet /\ UNCHANGED << p2v, vmm, ppPending, vmmPending, guest >>
  BY DEF PpRead, ReadyInv, Quiet
<1>2. TxInv' /\ TxHolds'
  BY <1>1, TxUnchanged DEF TxHolds
<1>3. V2P!TypeOK'
  BY RxTypeStep DEF PpRead
<1>4. CASE (V2P!FrontBlock \/ V2P!ReloadBack \/ V2P!ReadBlock) /\ UNCHANGED pp
  <2>1. UNCHANGED v2pProd
    BY <1>4 DEF V2P!FrontBlock, V2P!ReloadBack, V2P!ReadBlock
  <2> QED
    BY <1>1, <1>2, <1>3, <1>4, <2>1 DEF DomainTypes, RoleInv, ReadyInv, QuietInv, Quiet, p2v
<1>5. CASE V2P!Pop /\ pp' = AfterRead(v2pCons.pkt)
  <2>1. UNCHANGED v2pProd /\ v2pCons'.pc = "idle"
    BY <1>5 DEF V2P!Pop, V2P!TypeOK
  <2>2. /\ pp' \in [pc : {"read", "setup", "publish", "dispatch"}, badge : {pp.badge}, rings : {pp.rings},
                    publishers : {pp.publishers}, reset : {pp.reset}, calls : 0 .. SetupCalls,
                    msg : Message \cup {NoMessage}]
        /\ pp'.pc = "publish" => pp'.msg \in Sent
    <3>1. "ping" \in Message /\ "pong" \in Message
      BY Packets
    <3>2. pp.calls > 0 => pp.calls - 1 \in 0 .. SetupCalls
      BY Constants DEF DomainTypes
    <3>3. \/ pp' = [pp EXCEPT !.pc = "read"]
          \/ pp' = [pp EXCEPT !.pc = "setup", !.calls = @ - 1] /\ pp.calls > 0
          \/ pp' = [pp EXCEPT !.pc = "publish", !.msg = "pong"]
          \/ pp' = [pp EXCEPT !.pc = "publish", !.msg = "ping"]
          \/ pp' = [pp EXCEPT !.pc = "dispatch"]
      BY <1>5, AfterReadForms
    <3>4. CASE pp' = [pp EXCEPT !.pc = "read"] \/ pp' = [pp EXCEPT !.pc = "dispatch"]
      BY <3>4 DEF DomainTypes
    <3>5. CASE pp' = [pp EXCEPT !.pc = "setup", !.calls = @ - 1] /\ pp.calls > 0
      BY <3>2, <3>5 DEF DomainTypes
    <3>6. CASE pp' = [pp EXCEPT !.pc = "publish", !.msg = "pong"]
      BY <3>1, <3>6 DEF DomainTypes, Sent
    <3>7. CASE pp' = [pp EXCEPT !.pc = "publish", !.msg = "ping"]
      BY <3>1, <3>7 DEF DomainTypes, Sent
    <3> QED
      BY <3>3, <3>4, <3>5, <3>6, <3>7
  <2>3. DomainTypes'
    BY <1>1, <2>2 DEF DomainTypes
  <2> QED
    BY <1>1, <1>2, <1>3, <2>1, <2>2, <2>3 DEF RoleInv, ReadyInv, QuietInv, Quiet, p2v
<1> QED
  BY <1>4, <1>5 DEF PpRead

\* A notification either wakes PP or is kept for it.
LEMMA NotifyForms ==
  ASSUME BootInv, NEW ch \in Channel, NotifyPP(ch)
  PROVE  /\ pp'.badge \cup ppPending' = pp.badge \cup ppPending \cup {ch}
         /\ ppPending' \subseteq Channel
         /\ \/ pp.pc = "wait" /\ pp' = [pp EXCEPT !.pc = "dispatch", !.badge = {ch}] /\ ppPending' = {}
            \/ pp.pc # "wait" /\ pp' = pp /\ ppPending' = ppPending \cup {ch}
<1>1. ppPending \subseteq Channel /\ pp.badge \subseteq Channel
      /\ (pp.pc = "wait" => pp.badge = {} /\ ppPending = {})
  BY DEF BootInv, DomainTypes, RoleInv
<1>2. CASE pp.pc = "wait"
  <2>1. pp' = [pp EXCEPT !.pc = "dispatch", !.badge = {ch}] /\ ppPending' = {}
    BY <1>1, <1>2 DEF NotifyPP
  <2>2. pp'.badge = {ch}
    BY <2>1 DEF BootInv, DomainTypes
  <2> QED
    BY <1>1, <1>2, <2>1, <2>2
<1>3. CASE pp.pc # "wait"
  BY <1>1, <1>3 DEF NotifyPP
<1> QED
  BY <1>2, <1>3

\* VMM receives the notification.
LEMMA VmmReceiveKeeps == ASSUME BootInv, VmmReceive PROVE BootInv'
<1> USE DEF BootInv
<1>1. UNCHANGED << p2v, v2p >>
  BY DEF VmmReceive
<1>2. TxInv' /\ TxHolds' /\ V2P!TypeOK'
  BY <1>1, TxUnchanged DEF TxHolds, V2P!TypeOK, v2p
<1> QED
  BY <1>2 DEF VmmReceive, DomainTypes, RoleInv, ReadyInv, QuietInv, Quiet, p2v, v2p

\* Testing pp2vmm for emptiness changes nothing that anybody else sees.
LEMMA VmmDrainKeeps == ASSUME BootInv, VmmDrain PROVE BootInv'
<1> USE DEF BootInv
<1>1. /\ TxInv' /\ P2V!Contents' = P2V!Contents
      /\ p2vProd' = p2vProd /\ p2vCons' = p2vCons /\ p2vCons.pc = "idle"
  BY TxAssumptions, TxSteps, TxStates, TxNext, Tx!UserTests DEF TxInv, VmmDrain
<1>2. /\ vmm.pc = "drain" /\ ~Quiet
      /\ vmm' = [vmm EXCEPT !.pc = "wait"] \/ vmm' = [vmm EXCEPT !.pc = "send"]
      /\ UNCHANGED << v2p, pp, ppPending, vmmPending, guest >>
  BY DEF VmmDrain, QuietInv
<1>3. TxHolds' /\ V2P!TypeOK'
  BY <1>1, <1>2 DEF TxHolds, V2P!TypeOK, v2p
<1> QED
  BY <1>1, <1>2, <1>3 DEF DomainTypes, RoleInv, ReadyInv, QuietInv, Quiet, v2p

\* send_pkt_to_guest hands the oldest packet of pp2vmm to the guest.
LEMMA VmmSendKeeps == ASSUME BootInv, VmmSend PROVE BootInv'
<1> USE DEF BootInv
<1>1. vmm.pc = "send" /\ ~Quiet /\ UNCHANGED << v2p, pp, ppPending, vmmPending >> /\ V2P!TypeOK'
  BY DEF VmmSend, QuietInv, V2P!TypeOK, v2p
<1>2. P2V!Contents \in Seq(Message \cup {NoMessage})
  BY TxAssumptions, TxStates, Tx!UserContents DEF TxInv
<1>3. CASE P2V!FrontBlock /\ UNCHANGED << vmm, guest >>
  <2>1. TxInv' /\ P2V!Contents' = P2V!Contents /\ p2vProd' = p2vProd
    BY <1>3, TxAssumptions, TxSteps, TxStates, TxNext, Tx!UserFronts DEF TxInv
  <2> QED
    BY <1>1, <1>3, <2>1 DEF TxHolds, DomainTypes, RoleInv, ReadyInv, QuietInv, Quiet, v2p
<1>4. CASE /\ P2V!ReadBlock /\ UNCHANGED vmm
           /\ guest' = [guest EXCEPT !.inbox = Append(@, p2vCons'.pkt)] \/ UNCHANGED guest
  <2>1. /\ TxInv' /\ P2V!Contents' = P2V!Contents /\ p2vProd' = p2vProd
        /\ P2V!Contents # << >> /\ p2vCons'.pkt = Head(P2V!Contents)
    BY <1>4, TxAssumptions, TxSteps, TxStates, TxNext, Tx!UserReads DEF TxInv
  <2>2. p2vCons'.pkt \in Message
    BY <1>2, <2>1, Packets DEF TxHolds, Sent
  <2>3. DomainTypes'
    <3>1. guest.inbox \in Seq(Message) /\ Append(guest.inbox, p2vCons'.pkt) \in Seq(Message)
      BY <2>2 DEF DomainTypes
    <3>2. guest' \in [running : BOOLEAN, port : BOOLEAN, writes : 0 .. ReadyWrites,
                      noise : 0 .. MaxNoise, inbox : Seq(Message), outbox : Seq(Message)]
      <4>1. CASE guest' = [guest EXCEPT !.inbox = Append(@, p2vCons'.pkt)]
        BY <3>1, <4>1 DEF DomainTypes
      <4> QED
        BY <1>4, <4>1 DEF DomainTypes
    <3> QED
      BY <1>1, <1>4, <3>2 DEF DomainTypes
  <2>4. guest'.port = guest.port
    BY <1>4 DEF DomainTypes
  <2>5. RoleInv' /\ ReadyInv' /\ QuietInv'
    BY <1>1, <1>4, <2>1, <2>4 DEF RoleInv, ReadyInv, QuietInv, Quiet, v2p
  <2> QED
    BY <1>1, <2>1, <2>3, <2>5 DEF TxHolds
<1>5. CASE P2V!Pop /\ vmm' = [vmm EXCEPT !.pc = "drain"] /\ UNCHANGED guest
  <2>1. /\ TxInv' /\ P2V!Contents' = Tail(P2V!Contents) /\ p2vProd' = p2vProd
        /\ P2V!Contents # << >> /\ p2vCons'.pc = "idle"
    BY <1>5, TxAssumptions, TxSteps, TxStates, TxNext, Tx!UserPops DEF TxInv
  <2>2. TxHolds'
    BY <1>2, <2>1 DEF TxHolds
  <2>3. DomainTypes' /\ vmm'.pc = "drain" /\ UNCHANGED << vmm.tx, vmm.signalled >>
    BY <1>1, <1>5 DEF DomainTypes
  <2>4. RoleInv' /\ ReadyInv' /\ QuietInv'
    BY <1>1, <1>5, <2>1, <2>3 DEF RoleInv, ReadyInv, QuietInv, Quiet, v2p
  <2> QED
    BY <1>1, <2>1, <2>2, <2>3, <2>4
<1> QED
  BY <1>3, <1>4, <1>5 DEF VmmSend

\* The monitor signals readiness once, and the agent's port is bound by then.
LEMMA VmmReadySignalKeeps == ASSUME BootInv, VmmReadySignal PROVE BootInv'
<1> USE DEF BootInv
<1>1. UNCHANGED << p2v, v2p, vmmPending >> /\ vmm.pc = "wait" /\ guest.port
  BY DEF VmmReadySignal
<1>2. TxInv' /\ TxHolds' /\ V2P!TypeOK'
  BY <1>1, TxUnchanged DEF TxHolds, V2P!TypeOK, v2p
<1>3. guest' = [guest EXCEPT !.writes = @ + 1] /\ guest.writes + 1 \in 0 .. ReadyWrites
  BY Constants DEF VmmReadySignal, DomainTypes
<1>4. /\ guest' \in [running : BOOLEAN, port : BOOLEAN, writes : 0 .. ReadyWrites,
                      noise : 0 .. MaxNoise, inbox : Seq(Message), outbox : Seq(Message)]
      /\ guest'.port /\ guest'.inbox = guest.inbox /\ guest'.outbox = guest.outbox
  BY <1>1, <1>3 DEF DomainTypes
<1>5. CASE UNCHANGED << vmm, pp, ppPending >>
  <2>1. DomainTypes' /\ RoleInv'
    BY <1>1, <1>4, <1>5 DEF DomainTypes, RoleInv, p2v, v2p
  <2> QED
    BY <1>1, <1>2, <1>4, <1>5, <2>1 DEF ReadyInv, QuietInv, Quiet, p2v, v2p
<1>6. CASE ~vmm.signalled /\ vmm' = [vmm EXCEPT !.signalled = TRUE] /\ NotifyPP("ready")
  <2>1. "ready" \notin pp.badge \cup ppPending /\ pp.pc # "initTx" /\ ~pp.rings
    BY <1>6 DEF ReadyInv
  <2>2. /\ ppPending' \subseteq Channel
        /\ \/ pp.pc = "wait" /\ pp' = [pp EXCEPT !.pc = "dispatch", !.badge = {"ready"}] /\ ppPending' = {}
           \/ pp.pc # "wait" /\ pp' = pp /\ ppPending' = ppPending \cup {"ready"}
    BY <1>6, NotifyForms DEF Channel
  <2>3. DomainTypes'
    <3>1. CASE pp.pc = "wait" /\ pp' = [pp EXCEPT !.pc = "dispatch", !.badge = {"ready"}]
      BY <1>1, <1>4, <1>6, <2>2, <3>1 DEF DomainTypes, Channel
    <3>2. CASE pp' = pp
      BY <1>1, <1>4, <1>6, <2>2, <3>2 DEF DomainTypes
    <3> QED
      BY <2>2, <3>1, <3>2
  <2>6. /\ UNCHANGED << vmm.pc, vmm.tx >> /\ vmm'.signalled
        /\ UNCHANGED << pp.rings, pp.publishers, pp.calls, pp.msg >>
        /\ \/ /\ pp.pc = "wait" /\ pp'.pc = "dispatch"
              /\ pp'.badge = {"ready"} /\ ppPending' = {}
           \/ pp.pc # "wait" /\ pp' = pp /\ ppPending' = ppPending \cup {"ready"}
    <3>1. DomainTypes
      OBVIOUS
    <3> HIDE DEF BootInv
    <3>2. CASE pp' = [pp EXCEPT !.pc = "dispatch", !.badge = {"ready"}]
      BY <1>6, <2>2, <3>1, <3>2 DEF DomainTypes
    <3>3. CASE pp' = pp
      BY <1>6, <2>2, <3>1, <3>3 DEF DomainTypes
    <3> QED
      BY <2>2, <3>2, <3>3
  <2>5. RoleInv'
    BY <1>1, <1>4, <2>6 DEF RoleInv, p2v, v2p
  <2>4. ReadyInv' /\ QuietInv'
    BY <1>1, <1>4, <2>1, <2>6 DEF ReadyInv, QuietInv, Quiet, p2v, v2p
  <2> QED
    BY <1>2, <2>3, <2>4, <2>5
<1> QED
  BY <1>5, <1>6 DEF VmmReadySignal

\* What the guest puts on its device are packets, and at least one.
LEMMA KickForms ==
  ASSUME DomainTypes, VmmKick
  PROVE  /\ vmm.pc = "wait"
         /\ \E n \in 0 .. Len(guest.outbox), k \in 0 .. guest.noise, kind \in Noise :
              /\ n + k \in 1 .. KickBurst
              /\ k > 0 => NoiseAllowed
              /\ \/ vmm' = [vmm EXCEPT !.pc = "tx",
                              !.tx = SubSeq(guest.outbox, 1, n) \o [i \in 1 .. k |-> kind]]
                 \/ vmm' = [vmm EXCEPT !.pc = "tx",
                              !.tx = [i \in 1 .. k |-> kind] \o SubSeq(guest.outbox, 1, n)]
              /\ guest' = [guest EXCEPT !.outbox = SubSeq(@, n + 1, Len(@)), !.noise = @ - k]
              /\ SubSeq(guest.outbox, 1, n) \in Seq(Message)
              /\ Len(SubSeq(guest.outbox, 1, n)) = n
              /\ SubSeq(guest.outbox, n + 1, Len(guest.outbox)) \in Seq(Message)
              /\ [i \in 1 .. k |-> kind] \in Seq(Message)
              /\ Len([i \in 1 .. k |-> kind]) = k
              /\ guest.noise - k \in 0 .. MaxNoise
<1>1. PICK n \in 0 .. Len(guest.outbox), k \in 0 .. guest.noise, kind \in Noise :
        /\ n + k \in 1 .. KickBurst
        /\ k > 0 => NoiseAllowed
        /\ \E pkts \in Kick(n, [i \in 1 .. k |-> kind]) :
             vmm' = [vmm EXCEPT !.pc = "tx", !.tx = pkts]
        /\ guest' = [guest EXCEPT !.outbox = SubSeq(@, n + 1, Len(@)), !.noise = @ - k]
  BY DEF VmmKick
<1>2. /\ guest.outbox \in Seq(Message) /\ guest.noise \in 0 .. MaxNoise /\ MaxNoise \in Nat
      /\ Len(guest.outbox) \in Nat
  BY Constants DEF DomainTypes
<1>3. n \in Nat /\ k \in Nat /\ kind \in Message /\ n <= Len(guest.outbox) /\ k <= guest.noise
  BY <1>2 DEF Message
<1>4. SubSeq(guest.outbox, 1, n) \in Seq(Message) /\ Len(SubSeq(guest.outbox, 1, n)) = n
  BY <1>2, <1>3
<1>5. SubSeq(guest.outbox, n + 1, Len(guest.outbox)) \in Seq(Message)
  BY <1>2, <1>3
<1>6. [i \in 1 .. k |-> kind] \in Seq(Message) /\ Len([i \in 1 .. k |-> kind]) = k
  BY <1>3
<1>7. guest.noise - k \in 0 .. MaxNoise
  BY <1>2, <1>3
<1>8. \/ vmm' = [vmm EXCEPT !.pc = "tx",
                 !.tx = SubSeq(guest.outbox, 1, n) \o [i \in 1 .. k |-> kind]]
      \/ vmm' = [vmm EXCEPT !.pc = "tx",
                 !.tx = [i \in 1 .. k |-> kind] \o SubSeq(guest.outbox, 1, n)]
  BY <1>1 DEF Kick
<1>9. vmm.pc = "wait"
  BY DEF VmmKick
<1> QED
  BY <1>1, <1>4, <1>5, <1>6, <1>7, <1>8, <1>9

\* fault_handle leaves the guest's packets for process_tx_pending.
LEMMA VmmKickKeeps == ASSUME BootInv, VmmKick PROVE BootInv'
<1> USE DEF BootInv
<1>1. UNCHANGED << p2v, v2p, pp, ppPending, vmmPending >> /\ vmm.pc = "wait"
  BY DEF VmmKick
<1>2. TxInv' /\ TxHolds' /\ V2P!TypeOK'
  BY <1>1, TxUnchanged DEF TxHolds, V2P!TypeOK, v2p
<1>3. PICK n \in 0 .. Len(guest.outbox), k \in 0 .. guest.noise, kind \in Noise :
        /\ n + k \in 1 .. KickBurst
        /\ \/ vmm' = [vmm EXCEPT !.pc = "tx",
                        !.tx = SubSeq(guest.outbox, 1, n) \o [i \in 1 .. k |-> kind]]
           \/ vmm' = [vmm EXCEPT !.pc = "tx",
                        !.tx = [i \in 1 .. k |-> kind] \o SubSeq(guest.outbox, 1, n)]
        /\ guest' = [guest EXCEPT !.outbox = SubSeq(@, n + 1, Len(@)), !.noise = @ - k]
        /\ SubSeq(guest.outbox, 1, n) \in Seq(Message)
        /\ Len(SubSeq(guest.outbox, 1, n)) = n
        /\ SubSeq(guest.outbox, n + 1, Len(guest.outbox)) \in Seq(Message)
        /\ [i \in 1 .. k |-> kind] \in Seq(Message)
        /\ Len([i \in 1 .. k |-> kind]) = k
        /\ guest.noise - k \in 0 .. MaxNoise
  BY KickForms
<1> DEFINE a == SubSeq(guest.outbox, 1, n)
           b == [i \in 1 .. k |-> kind]
           rest == SubSeq(guest.outbox, n + 1, Len(guest.outbox))
<1>4. /\ a \in Seq(Message) /\ b \in Seq(Message) /\ rest \in Seq(Message)
      /\ Len(a) = n /\ Len(b) = k
  BY <1>3
<1>5. n \in Nat /\ k \in Nat /\ n + k >= 1
  BY <1>3, Constants DEF DomainTypes
<1>6. /\ a \o b \in Seq(Message) /\ a \o b # << >>
      /\ b \o a \in Seq(Message) /\ b \o a # << >>
  <2> HIDE DEF a, b
  <2> QED
    BY <1>4, <1>5
<1>7. /\ vmm' \in [pc : {"tx"}, tx : Seq(Message), signalled : BOOLEAN]
      /\ vmm'.tx # << >> /\ vmm'.signalled = vmm.signalled
  <2> HIDE DEF a, b
  <2>1. vmm' = [vmm EXCEPT !.pc = "tx", !.tx = a \o b] \/ vmm' = [vmm EXCEPT !.pc = "tx", !.tx = b \o a]
    BY <1>3 DEF a, b
  <2> QED
    BY <1>6, <2>1 DEF DomainTypes
<1>8. /\ guest' \in [running : BOOLEAN, port : BOOLEAN, writes : 0 .. ReadyWrites,
                      noise : 0 .. MaxNoise, inbox : Seq(Message), outbox : Seq(Message)]
      /\ guest'.port = guest.port /\ guest'.inbox = guest.inbox /\ guest'.outbox = rest
  <2> HIDE DEF rest
  <2>1. guest' = [guest EXCEPT !.outbox = rest, !.noise = @ - k] /\ guest.noise - k \in 0 .. MaxNoise
    BY <1>3 DEF rest
  <2> QED
    BY <1>4, <2>1 DEF DomainTypes
<1>9. guest.outbox = << >> => rest = << >>
  BY <1>3 DEF DomainTypes
<1> HIDE DEF a, b, rest
<1>10. DomainTypes' /\ RoleInv'
  BY <1>1, <1>7, <1>8 DEF DomainTypes, RoleInv, p2v, v2p
<1>11. ReadyInv' /\ QuietInv'
  BY <1>1, <1>7, <1>8, <1>9 DEF ReadyInv, QuietInv, Quiet, p2v, v2p
<1> QED
  BY <1>2, <1>10, <1>11

\* The virtual CPU stops.
LEMMA VmmFaultFailsKeeps == ASSUME BootInv, VmmFaultFails PROVE BootInv'
<1> USE DEF BootInv
<1>1. UNCHANGED << p2v, v2p >>
  BY DEF VmmFaultFails
<1>2. TxInv' /\ TxHolds' /\ V2P!TypeOK'
  BY <1>1, TxUnchanged DEF TxHolds, V2P!TypeOK, v2p
<1>3. /\ UNCHANGED << pp, vmm, ppPending, vmmPending >>
      /\ guest' = [guest EXCEPT !.running = FALSE]
  BY DEF VmmFaultFails
<1>4. UNCHANGED << guest.port, guest.inbox, guest.outbox >>
  BY <1>3 DEF DomainTypes
<1>5. DomainTypes'
  <2>1. guest' \in [running : BOOLEAN, port : BOOLEAN, writes : 0 .. ReadyWrites,
                    noise : 0 .. MaxNoise, inbox : Seq(Message), outbox : Seq(Message)]
    <3>1. DomainTypes
      OBVIOUS
    <3> HIDE DEF BootInv
    <3> QED
      BY <1>3, <3>1 DEF DomainTypes
  <2> QED
    BY <1>3, <2>1 DEF DomainTypes
<1>6. RoleInv' /\ ReadyInv' /\ QuietInv'
  BY <1>1, <1>3, <1>4 DEF RoleInv, ReadyInv, QuietInv, Quiet, p2v, v2p
<1> QED
  BY <1>2, <1>5, <1>6

\* The producer's operations leave the consumer's side alone and keep the
\* packet they were called with.
LEMMA RxProducerFrame ==
  ASSUME V2P!TypeOK
  PROVE  /\ \A p : V2P!NewBlock(p) => v2pCons' = v2pCons /\ v2pProd'.pkt = p
         /\ V2P!ReloadFront \/ V2P!FillBlock \/ V2P!Push =>
              v2pCons' = v2pCons /\ v2pProd'.pkt = v2pProd.pkt /\ v2pProd.pc # "idle"
         /\ V2P!PublishBack => v2pCons' = v2pCons /\ v2pProd'.pc = "idle" /\ v2pProd.pc # "idle"
<1>1. ASSUME NEW p, V2P!NewBlock(p)
      PROVE  v2pCons' = v2pCons /\ v2pProd'.pkt = p
  BY <1>1 DEF V2P!NewBlock, V2P!TypeOK
<1>2. ASSUME V2P!ReloadFront \/ V2P!FillBlock \/ V2P!Push
      PROVE  v2pCons' = v2pCons /\ v2pProd'.pkt = v2pProd.pkt /\ v2pProd.pc # "idle"
  BY <1>2 DEF V2P!ReloadFront, V2P!FillBlock, V2P!Push, V2P!TypeOK
<1>3. ASSUME V2P!PublishBack
      PROVE  v2pCons' = v2pCons /\ v2pProd'.pc = "idle" /\ v2pProd.pc # "idle"
  BY <1>3 DEF V2P!PublishBack, V2P!TypeOK
<1> QED
  BY <1>1, <1>2, <1>3

\* process_tx_pending touches VMM's side of vmm2pp only.
LEMMA VmmTxKeeps == ASSUME BootInv, VmmTx PROVE BootInv'
<1> USE DEF BootInv
<1>1. vmm.pc = "tx" /\ UNCHANGED << p2v, pp, ppPending, vmmPending, guest >>
  BY DEF VmmTx
<1>2. TxInv' /\ TxHolds'
  BY <1>1, TxUnchanged DEF TxHolds
<1>3. Head(vmm.tx) \in Message
  BY <1>1 DEF DomainTypes, RoleInv
<1>4. V2P!TypeOK'
  BY <1>3, RxTypeStep DEF VmmTx
<1>5. CASE (V2P!NewBlock(Head(vmm.tx)) \/ V2P!ReloadFront \/ V2P!FillBlock \/ V2P!Push) /\ UNCHANGED vmm
  <2>1. v2pCons' = v2pCons /\ v2pProd'.pkt = Head(vmm.tx)
    BY <1>5, RxProducerFrame DEF RoleInv
  <2> QED
    BY <1>1, <1>2, <1>4, <1>5, <2>1 DEF DomainTypes, RoleInv, ReadyInv, QuietInv, Quiet, p2v
<1>6. CASE V2P!PublishBack /\ vmm' = [vmm EXCEPT !.pc = "notify"]
  <2>1. v2pCons' = v2pCons /\ v2pProd'.pc = "idle"
    BY <1>6, RxProducerFrame
  <2>2. DomainTypes'
    BY <1>1, <1>6 DEF DomainTypes
  <2>3. RoleInv'
    BY <1>1, <1>6, <2>1 DEF DomainTypes, RoleInv, p2v
  <2> QED
    BY <1>1, <1>2, <1>4, <1>6, <2>2, <2>3 DEF DomainTypes, ReadyInv, QuietInv, Quiet, p2v
<1> QED
  BY <1>5, <1>6 DEF VmmTx

\* After the last packet VMM waits again.
LEMMA VmmNotifyKeeps == ASSUME BootInv, VmmNotify PROVE BootInv'
<1> USE DEF BootInv
<1>1. /\ UNCHANGED << p2v, v2p, vmmPending, guest >> /\ vmm.pc = "notify"
      /\ vmm' = [vmm EXCEPT !.pc = IF Len(vmm.tx) = 1 THEN "wait" ELSE "tx", !.tx = Tail(@)]
  BY DEF VmmNotify
<1>2. TxInv' /\ TxHolds' /\ V2P!TypeOK'
  BY <1>1, TxUnchanged DEF TxHolds, V2P!TypeOK, v2p
<1>3. /\ vmm.tx \in Seq(Message) /\ vmm.tx # << >>
      /\ Tail(vmm.tx) \in Seq(Message) /\ (Tail(vmm.tx) = << >> <=> Len(vmm.tx) = 1)
  <2>1. vmm.tx \in Seq(Message) /\ vmm.tx # << >>
    BY <1>1 DEF DomainTypes, RoleInv
  <2>2. /\ Tail(vmm.tx) \in Seq(Message) /\ Len(vmm.tx) \in Nat \ {0}
        /\ Len(Tail(vmm.tx)) = Len(vmm.tx) - 1
    BY <2>1
  <2>3. Tail(vmm.tx) = << >> <=> Len(Tail(vmm.tx)) = 0
    BY <2>2, EmptyByLength
  <2> QED
    BY <2>1, <2>2, <2>3
<1>4. /\ vmm' \in [pc : {"wait", "tx"}, tx : Seq(Message), signalled : BOOLEAN]
      /\ vmm'.signalled = vmm.signalled /\ (vmm'.pc = "tx" <=> vmm'.tx # << >>)
  BY <1>1, <1>3 DEF DomainTypes
<1>5. /\ ppPending' \subseteq Channel
      /\ \/ pp.pc = "wait" /\ pp' = [pp EXCEPT !.pc = "dispatch", !.badge = {"pingpong"}] /\ ppPending' = {}
         \/ pp.pc # "wait" /\ pp' = pp /\ ppPending' = ppPending \cup {"pingpong"}
  BY NotifyForms DEF VmmNotify, Channel
<1>6. DomainTypes'
  <2>1. CASE pp.pc = "wait" /\ pp' = [pp EXCEPT !.pc = "dispatch", !.badge = {"pingpong"}]
    BY <1>1, <1>4, <1>5, <2>1 DEF DomainTypes, Channel
  <2>2. CASE pp' = pp
    BY <1>1, <1>4, <1>5, <2>2 DEF DomainTypes
  <2> QED
    BY <1>5, <2>1, <2>2
<1>10. /\ UNCHANGED << pp.rings, pp.publishers, pp.calls, pp.msg >>
       /\ \/ /\ pp.pc = "wait" /\ pp'.pc = "dispatch"
             /\ pp'.badge = {"pingpong"} /\ ppPending' = {}
          \/ pp.pc # "wait" /\ pp' = pp /\ ppPending' = ppPending \cup {"pingpong"}
  <2>1. CASE pp.pc = "wait" /\ pp' = [pp EXCEPT !.pc = "dispatch", !.badge = {"pingpong"}] /\ ppPending' = {}
    BY <2>1 DEF DomainTypes
  <2>2. CASE pp.pc # "wait" /\ pp' = pp /\ ppPending' = ppPending \cup {"pingpong"}
    BY <2>2
  <2> QED
    BY <1>5, <2>1, <2>2
<1>7. RoleInv'
  BY <1>1, <1>4, <1>10 DEF RoleInv, p2v, v2p
<1>8. ReadyInv'
  <2>1. pp.badge \cup ppPending \subseteq Channel /\ (pp.pc = "wait" => pp.badge = {} /\ ppPending = {})
    BY DEF DomainTypes, RoleInv
  <2>2. CASE pp.pc = "wait" /\ pp' = [pp EXCEPT !.pc = "dispatch", !.badge = {"pingpong"}] /\ ppPending' = {}
    BY <1>1, <1>4, <2>1, <2>2 DEF DomainTypes, ReadyInv
  <2>3. CASE pp' = pp /\ ppPending' = ppPending \cup {"pingpong"}
    BY <1>1, <1>4, <2>1, <2>3 DEF ReadyInv
  <2> QED
    BY <1>5, <2>2, <2>3
<1>9. QuietInv'
  BY <1>1, <1>4, <1>10 DEF QuietInv, Quiet, p2v, v2p
<1> QED
  BY <1>2, <1>6, <1>7, <1>8, <1>9

\* The agent binds its port, and answers what comes in.
LEMMA AgentKeeps == ASSUME BootInv, AgentBinds \/ AgentReceives PROVE BootInv'
<1> USE DEF BootInv
<1>1. UNCHANGED << p2v, v2p, pp, vmm, ppPending, vmmPending >>
  BY DEF AgentBinds, AgentReceives
<1>2. TxInv' /\ TxHolds' /\ V2P!TypeOK'
  BY <1>1, TxUnchanged DEF TxHolds, V2P!TypeOK, v2p
<1>3. CASE AgentBinds
  <2>1. guest' = [guest EXCEPT !.port = TRUE]
    BY <1>3 DEF AgentBinds
  <2>2. /\ guest' \in [running : BOOLEAN, port : BOOLEAN, writes : 0 .. ReadyWrites,
                        noise : 0 .. MaxNoise, inbox : Seq(Message), outbox : Seq(Message)]
        /\ guest'.port /\ guest'.inbox = guest.inbox /\ guest'.outbox = guest.outbox
    BY <2>1 DEF DomainTypes
  <2> QED
    BY <1>1, <1>2, <2>2 DEF DomainTypes, RoleInv, ReadyInv, QuietInv, Quiet, p2v, v2p
<1>4. CASE AgentReceives
  <2>1. PICK n \in 1 .. ReplyBurst :
          guest' = [guest EXCEPT !.inbox = Tail(@),
                      !.outbox = IF guest.port
                                 THEN @ \o (IF Head(guest.inbox) = "request" THEN [i \in 1 .. n |-> "status"]
                                            ELSE << Head(guest.inbox) >>)
                                 ELSE @]
    BY <1>4 DEF AgentReceives
  <2> DEFINE answer == IF Head(guest.inbox) = "request" THEN [i \in 1 .. n |-> "status"]
                       ELSE << Head(guest.inbox) >>
  <2>2. guest.inbox \in Seq(Message) /\ guest.inbox # << >> /\ guest.outbox \in Seq(Message)
    BY <1>4 DEF AgentReceives, DomainTypes
  <2>3. n \in Nat
    BY Constants
  <2>4. answer \in Seq(Message)
    <3>1. [i \in 1 .. n |-> "status"] \in Seq(Message)
      BY <2>3, Packets
    <3>2. << Head(guest.inbox) >> \in Seq(Message)
      BY <2>2
    <3> QED
      BY <3>1, <3>2
  <2> HIDE DEF answer
  <2>5. guest.outbox \o answer \in Seq(Message) /\ Tail(guest.inbox) \in Seq(Message)
    BY <2>2, <2>4
  <2>6. guest' = [guest EXCEPT !.inbox = Tail(@), !.outbox = IF guest.port THEN @ \o answer ELSE @]
    BY <2>1 DEF answer
  <2>7. /\ guest' \in [running : BOOLEAN, port : BOOLEAN, writes : 0 .. ReadyWrites,
                        noise : 0 .. MaxNoise, inbox : Seq(Message), outbox : Seq(Message)]
        /\ guest'.port = guest.port
    BY <2>5, <2>6 DEF DomainTypes
  <2>8. ~Quiet
    BY <2>2 DEF QuietInv
  <2> QED
    BY <1>1, <1>2, <2>7, <2>8 DEF DomainTypes, RoleInv, ReadyInv, QuietInv, Quiet, p2v, v2p
<1> QED
  BY <1>3, <1>4

\* In the initial state VMM has initialised the rings and nothing has been said.
LEMMA InitBoot == Init => BootInv
<1> SUFFICES ASSUME Init PROVE BootInv
  OBVIOUS
<1>1. TxInv /\ P2V!Contents = << >>
  BY TxAssumptions, TxStates, Tx!InitUser DEF Init, TxInv
<1>2. TxHolds
  BY <1>1 DEF TxHolds
<1>3. V2P!TypeOK
  BY RxAssumptions, RxStates, Rx!InitUser DEF Init, Rx!UserInv, Rx!IInv
<1>4. DomainTypes
  <2>1. /\ 0 \in 0 .. SetupCalls /\ 0 \in 0 .. ReadyWrites /\ MaxNoise \in 0 .. MaxNoise
        /\ << >> \in Seq(Message)
    BY Constants
  <2> HIDE DEF Message
  <2> QED
    BY <2>1 DEF Init, DomainTypes
<1> QED
  BY <1>1, <1>2, <1>3, <1>4
     DEF BootInv, Init, P2V!Init, V2P!Init, RoleInv, ReadyInv, QuietInv, Quiet

\* BootInv is inductive.
LEMMA NextBoot == BootInv /\ [Next]_vars => BootInv'
<1> SUFFICES ASSUME BootInv, [Next]_vars PROVE BootInv'
  OBVIOUS
<1>1. CASE PP
  BY <1>1, PpLocalKeeps, PpInitTxKeeps, PpInitRxKeeps, PpCheckKeeps, PpWriteKeeps, PpReadKeeps DEF PP
<1>2. CASE VMM
  BY <1>2, VmmReceiveKeeps, VmmDrainKeeps, VmmSendKeeps, VmmReadySignalKeeps, VmmKickKeeps,
     VmmFaultFailsKeeps, VmmTxKeeps, VmmNotifyKeeps DEF VMM
<1>3. CASE AgentBinds \/ AgentReceives
  BY <1>3, AgentKeeps
<1>4. CASE UNCHANGED vars
  <2>1. UNCHANGED << p2v, v2p, pp, vmm, ppPending, vmmPending, guest >>
    BY <1>4 DEF vars
  <2>2. TxInv' /\ TxHolds' /\ V2P!TypeOK'
    BY <2>1, TxUnchanged DEF BootInv, TxHolds, V2P!TypeOK, v2p
  <2> QED
    BY <2>1, <2>2 DEF BootInv, DomainTypes, RoleInv, ReadyInv, QuietInv, Quiet, p2v, v2p
<1> QED
  BY <1>1, <1>2, <1>3, <1>4 DEF Next

\* BootInv is an invariant.
LEMMA AlwaysBoot == Spec => []BootInv
BY InitBoot, NextBoot, PTL DEF Spec

(* Whatever the guest does, both rings and both domains keep their types:   *)
(* also when transport_init zeroes the indices of a ring in use.            *)
THEOREM TypesKept == Spec => []TypeOK
<1>1. BootInv => TypeOK
  BY TxStates DEF BootInv, TxInv, Tx!UserInv, Tx!IInv, DomainTypes, TypeOK
<1> QED
  BY <1>1, AlwaysBoot, PTL

(* Nothing PP sends reaches the guest before the agent listens: a packet of *)
(* PP means that PP has its rings, and it gets them after the signal.       *)
THEOREM AgentAlwaysListens == Spec => []AgentListens
<1>1. BootInv => AgentListens
  BY DEF BootInv, QuietInv, ReadyInv, Quiet, AgentListens
<1> QED
  BY <1>1, AlwaysBoot, PTL
-----------------------------------------------------------------------------
(* Each domain uses its end of a ring as the ring's proofs assume.          *)

\* Whatever happens, pp2vmm is used as a ring: when transport_init
\* initialises it again, that writes what is there already.
LEMMA TxMoves ==
  ASSUME BootInv, [Next]_vars
  PROVE  [P2V!Next]_(P2V!vars)
<1> SUFFICES ASSUME ~UNCHANGED P2V!vars
             PROVE  P2V!Next
  OBVIOUS
<1>1. ~UNCHANGED p2v
  BY DEF P2V!vars, p2v
<1>2. PpInitTx \/ PpWrite \/ VmmDrain \/ VmmSend
  BY <1>1 DEF Next, PP, VMM, vars, PpReceive, PpNotified, PpNullRing, PpCheck, PpInitRx, PpTransport,
     PpSetup, PpPublish, PpNotify, PpRead, VmmReceive, VmmReadySignal, VmmKick,
     VmmFaultFails, VmmTx, VmmNotify, AgentBinds, AgentReceives
<1>3. CASE PpInitTx
  BY <1>1, <1>3 DEF PpInitTx, BootInv, ReadyInv, QuietInv, Quiet, p2v
<1>4. CASE PpWrite
  <2>1. pp.msg \in Message
    BY <1>4 DEF PpWrite, BootInv, RoleInv, Sent, Message
  <2> QED
    BY <1>4, <2>1 DEF PpWrite, P2V!Next, P2V!Producer
<1>5. CASE VmmDrain
  BY <1>5 DEF VmmDrain, P2V!Next, P2V!Consumer
<1>6. CASE VmmSend
  BY <1>6 DEF VmmSend, P2V!Next, P2V!Consumer
<1> QED
  BY <1>2, <1>3, <1>4, <1>5, <1>6

\* Zeroing an index of a ring that spsc_init has just made changes nothing.
LEMMA EmptyStaysEmpty == \A i \in Index : [V2P!EmptyRing EXCEPT ![i] = 0] = V2P!EmptyRing
<1> SUFFICES ASSUME NEW i \in Index
             PROVE  [V2P!EmptyRing EXCEPT ![i] = 0] = V2P!EmptyRing
  OBVIOUS
<1>1. /\ V2P!EmptyRing = [x \in DOMAIN V2P!EmptyRing |-> V2P!EmptyRing[x]]
      /\ \A x \in Index : V2P!EmptyRing[x] = 0
  BY DEF V2P!EmptyRing, Index
<1> QED
  BY <1>1

\* When nobody has used vmm2pp before, zeroing an index changes nothing.
LEMMA RxMoves ==
  ASSUME BootInv, Quiet => v2pQ = V2P!EmptyRing, [Next]_vars
  PROVE  [V2P!Next]_(V2P!vars)
<1> SUFFICES ASSUME ~UNCHANGED V2P!vars
             PROVE  V2P!Next
  OBVIOUS
<1>1. ~UNCHANGED v2p
  BY DEF V2P!vars, v2p
<1>2. PpInitRx \/ PpCheck \/ PpRead \/ VmmTx
  BY <1>1 DEF Next, PP, VMM, vars, PpReceive, PpNotified, PpNullRing, PpInitTx, PpWrite, PpTransport,
     PpSetup, PpPublish, PpNotify, VmmReceive, VmmDrain, VmmSend, VmmReadySignal, VmmKick,
     VmmFaultFails, VmmNotify, AgentBinds, AgentReceives
<1>3. CASE PpInitRx
  <2>1. v2pQ = V2P!EmptyRing
    BY <1>3 DEF PpInitRx, Quiet
  <2>2. PICK i \in Index : v2pQ' = [v2pQ EXCEPT ![i] = 0]
    BY <1>3 DEF PpInitRx, BootInv, DomainTypes
  <2>3. v2pQ' = v2pQ
    BY <2>1, <2>2, EmptyStaysEmpty
  <2> QED
    BY <1>1, <1>3, <2>3 DEF PpInitRx, v2p
<1>4. CASE PpCheck
  BY <1>4 DEF PpCheck, V2P!Next, V2P!Consumer
<1>5. CASE PpRead
  BY <1>5 DEF PpRead, V2P!Next, V2P!Consumer
<1>6. CASE VmmTx
  <2>1. Head(vmm.tx) \in Message
    BY <1>6 DEF VmmTx, BootInv, RoleInv, DomainTypes
  <2> QED
    BY <1>6, <2>1 DEF VmmTx, V2P!Next, V2P!Producer
<1> QED
  BY <1>2, <1>3, <1>4, <1>5, <1>6

\* The proof of the ring covers such a step.
LEMMA RxInvStep ==
  ASSUME RxInv, [V2P!Next]_(V2P!vars)
  PROVE  RxInv'
<1>1. [Rx!Next]_(Rx!vars)
  BY RxSteps DEF V2P!Next, V2P!Producer, V2P!Consumer, V2P!vars, Rx!Next, Rx!Producer, Rx!Consumer, Rx!vars
<1> QED
  BY <1>1, RxAssumptions, Rx!UserStep DEF RxInv

(* PP initialises the rings once, and once it has them it does not follow a *)
(* NULL pointer.                                                            *)
LEMMA NeverQuietAgain ==
  ASSUME BootInv, ~Quiet, [Next]_vars
  PROVE  ~Quiet' /\ (pp.pc # "faulted" => pp'.pc # "faulted")
<1>1. CASE PP
  <2>1. CASE PpRead
    <3>1. pp' = pp \/ pp' = AfterRead(v2pCons.pkt)
      BY <2>1 DEF PpRead
    <3>2. pp'.pc \in {"read", "setup", "publish", "dispatch"} /\ pp'.rings = pp.rings
      <4>1. CASE pp' = pp
        BY <2>1, <4>1 DEF PpRead
      <4>2. CASE pp' = AfterRead(v2pCons.pkt)
        <5>1. DomainTypes
          BY DEF BootInv
        <5> QED
          BY <4>2, <5>1, AfterReadFields
      <4> QED
        BY <3>1, <4>1, <4>2
    <3> QED
      BY <3>2 DEF Quiet
  <2>2. CASE PpReceive \/ PpNotified \/ PpNullRing \/ PpCheck
    <3>1. DomainTypes /\ ReadyInv
      BY DEF BootInv
    <3>2. CASE PpReceive
      <4>1. pp'.pc \in {"wait", "dispatch"} /\ pp'.rings = pp.rings
        BY <3>1, <3>2 DEF PpReceive, DomainTypes
      <4> QED
        BY <3>2, <4>1 DEF PpReceive, Quiet
    <3>3. CASE PpNotified
      <4>1. pp'.pc \in {"check", "initTx"} /\ pp'.rings = pp.rings
        BY <3>1, <3>3 DEF PpNotified, DomainTypes
      <4> QED
        BY <3>3, <4>1 DEF PpNotified, Quiet
    <3>4. CASE PpNullRing
      BY <3>1, <3>4 DEF PpNullRing, Quiet, ReadyInv
    <3>5. CASE PpCheck
      <4>1. pp'.pc \in {"dispatch", "read"} /\ pp'.rings = pp.rings
        BY <3>1, <3>5 DEF PpCheck, DomainTypes
      <4> QED
        BY <3>5, <4>1 DEF PpCheck, Quiet
    <3> QED
      BY <2>2, <3>2, <3>3, <3>4, <3>5
  <2>3. CASE PpInitTx \/ PpInitRx
    <3>1. DomainTypes /\ ReadyInv
      BY DEF BootInv
    <3>2. CASE PpInitTx
      BY <3>1, <3>2 DEF PpInitTx, Quiet, ReadyInv
    <3>3. CASE PpInitRx
      <4>1. PICK i \in pp.reset :
              pp' = [pp EXCEPT !.reset = @ \ {i},
                               !.pc = IF pp.reset = {i} THEN "transport" ELSE "initRx"]
        BY <3>3 DEF PpInitRx
      <4>2. pp'.pc \in {"transport", "initRx"} /\ pp'.rings = pp.rings
        BY <3>1, <4>1 DEF DomainTypes
      <4> QED
        BY <3>3, <4>2 DEF PpInitRx, Quiet
    <3> QED
      BY <2>3, <3>2, <3>3
  <2>4. CASE PpTransport \/ PpSetup \/ PpPublish
    <3>1. pp'.pc \in {"setup", "publish", "write", "exited"} /\ pp'.rings = pp.rings
      BY <2>4, DecidedFields DEF BootInv
    <3> QED
      BY <2>4, <3>1 DEF PpTransport, PpSetup, PpPublish, Quiet
  <2>5. CASE PpWrite \/ PpNotify
    BY <2>5 DEF PpWrite, PpNotify, Quiet, BootInv, DomainTypes
  <2> QED
    BY <1>1, <2>1, <2>2, <2>3, <2>4, <2>5 DEF PP
<1>2. CASE VMM \/ AgentBinds \/ AgentReceives
  BY <1>2 DEF VMM, VmmReceive, VmmDrain, VmmSend, VmmReadySignal, VmmKick, VmmFaultFails, VmmTx,
     VmmNotify, NotifyPP, AgentBinds, AgentReceives, Quiet, BootInv, DomainTypes
<1>3. CASE UNCHANGED vars
  BY <1>3 DEF vars, Quiet
<1> QED
  BY <1>1, <1>2, <1>3 DEF Next

\* It holds at first.
LEMMA InitCalm == Init => CalmInv
<1> SUFFICES ASSUME Init PROVE CalmInv
  OBVIOUS
<1>1. RxInv
  BY RxAssumptions, RxStates, Rx!InitUser DEF Init, RxInv
<1> QED
  BY <1>1 DEF Init, V2P!Init, CalmInv

(* A guest that transmits nothing of its own before PP has its rings: until *)
(* then its kicks would have nothing to send.                               *)
LEMMA NextCalm ==
  ASSUME NoiseFrom = "rings", BootInv, CalmInv, [Next]_vars
  PROVE  CalmInv'
<1>1. RxInv'
  BY RxMoves, RxInvStep DEF CalmInv
<1>2. CASE ~Quiet
  BY <1>1, <1>2, NeverQuietAgain DEF CalmInv
<1>3. CASE Quiet
  <2>1. /\ vmm.pc = "wait" /\ v2pQ = V2P!EmptyRing /\ v2pProd.pc = "idle" /\ v2pCons.pc = "idle"
        /\ "pingpong" \notin pp.badge \cup ppPending /\ pp.pc \notin {"check", "faulted"}
    BY <1>3 DEF CalmInv
  <2>2. /\ ~vmmPending /\ guest.inbox = << >> /\ guest.outbox = << >>
        /\ pp.pc \in {"wait", "dispatch", "initTx", "initRx"}
    BY <1>3, <2>1 DEF BootInv, QuietInv, ReadyInv, Quiet
  <2>3. CASE PpReceive \/ PpNotified
    <3>1. UNCHANGED << v2p, vmm >>
      BY <2>3 DEF PpReceive, PpNotified
    <3>2. /\ pp'.badge \cup ppPending' \subseteq pp.badge \cup ppPending
          /\ pp'.pc \in {"wait", "dispatch", "initTx"}
      <4>1. CASE PpReceive
        BY <4>1 DEF PpReceive, BootInv, DomainTypes
      <4>2. CASE PpNotified
        <5>1. pp' = [pp EXCEPT !.pc = "initTx", !.badge = @ \ {"ready"}] /\ ppPending' = ppPending
          BY <2>1, <4>2 DEF PpNotified
        <5>2. pp'.badge = pp.badge \ {"ready"} /\ pp'.pc = "initTx"
          BY <5>1 DEF BootInv, DomainTypes
        <5> QED
          BY <5>1, <5>2
      <4> QED
        BY <2>3, <4>1, <4>2
    <3> QED
      BY <1>1, <2>1, <3>1, <3>2 DEF CalmInv, v2p, V2P!EmptyRing
  <2>4. CASE PpInitTx
    BY <1>1, <2>1, <2>2, <2>4 DEF PpInitTx, CalmInv, Quiet, BootInv, DomainTypes, v2p
  <2>5. CASE PpInitRx
    <3>1. PICK i \in Index :
             /\ v2pQ' = [v2pQ EXCEPT ![i] = 0]
             /\ pp' = [pp EXCEPT !.reset = @ \ {i},
                                 !.pc = IF pp.reset = {i} THEN "transport" ELSE "initRx"]
      BY <2>5 DEF PpInitRx, BootInv, DomainTypes
    <3>2. v2pQ' = v2pQ
      BY <2>1, <3>1, EmptyStaysEmpty
    <3>3. /\ pp'.badge = pp.badge /\ pp'.pc \in {"initRx", "transport"}
          /\ UNCHANGED << v2pProd, v2pCons, vmm, ppPending >>
      BY <2>5, <3>1 DEF PpInitRx, BootInv, DomainTypes
    <3> QED
      BY <1>1, <2>1, <3>2, <3>3 DEF CalmInv, Quiet, V2P!EmptyRing
  <2>6. CASE VmmReadySignal
    <3>1. UNCHANGED v2p /\ vmm'.pc = "wait"
      BY <2>6 DEF VmmReadySignal, BootInv, DomainTypes
    <3>2. UNCHANGED << pp, ppPending >> \/ NotifyPP("ready")
      BY <2>6 DEF VmmReadySignal
    <3>3. /\ pp'.badge \cup ppPending' \subseteq pp.badge \cup ppPending \cup {"ready"}
          /\ pp'.pc \notin {"check", "faulted"}
      <4>1. CASE UNCHANGED << pp, ppPending >>
        BY <2>1, <4>1
      <4>2. CASE NotifyPP("ready")
        <5>1. \/ pp' = [pp EXCEPT !.pc = "dispatch", !.badge = {"ready"}] /\ ppPending' = {}
              \/ pp' = pp /\ ppPending' = ppPending \cup {"ready"}
          BY <4>2, NotifyForms DEF Channel, BootInv
        <5>2. pp' # pp => pp'.pc = "dispatch" /\ pp'.badge = {"ready"}
          BY <5>1 DEF BootInv, DomainTypes
        <5> QED
          BY <2>1, <5>1, <5>2
      <4> QED
        BY <3>2, <4>1, <4>2
    <3> QED
      BY <1>1, <2>1, <3>1, <3>3 DEF CalmInv, v2p, V2P!EmptyRing
  <2>7. ~VmmKick
    <3> SUFFICES ASSUME VmmKick PROVE FALSE
      OBVIOUS
    <3>1. PICK n \in 0 .. Len(guest.outbox), k \in 0 .. guest.noise :
             n + k \in 1 .. KickBurst /\ (k > 0 => NoiseAllowed)
      BY KickForms DEF BootInv
    <3>2. n = 0
      BY <2>2, <3>1
    <3>3. k > 0
      BY <3>1, <3>2, Constants DEF BootInv, DomainTypes
    <3> QED
      BY <1>3, <3>1, <3>3 DEF NoiseAllowed, Quiet
  <2>8. CASE VmmFaultFails \/ AgentBinds
    BY <1>1, <2>1, <2>8 DEF VmmFaultFails, AgentBinds, CalmInv, Quiet, v2p, V2P!EmptyRing
  <2>9. CASE UNCHANGED vars
    BY <1>1, <2>1, <2>9 DEF vars, CalmInv, Quiet, v2p, V2P!EmptyRing
  <2> QED
    BY <2>1, <2>2, <2>3, <2>4, <2>5, <2>6, <2>7, <2>8, <2>9
       DEF Next, PP, VMM, PpNullRing, PpCheck, PpTransport, PpSetup, PpPublish, PpWrite, PpNotify, PpRead,
           VmmReceive, VmmDrain, VmmSend, VmmTx, VmmNotify, AgentReceives
<1> QED
  BY <1>2, <1>3

\* CalmInv is an invariant.
LEMMA AlwaysCalm ==
  ASSUME NoiseFrom = "rings"
  PROVE  Spec => []CalmInv
<1>1. BootInv /\ CalmInv /\ [Next]_vars => CalmInv'
  BY NextCalm
<1> QED
  BY <1>1, InitCalm, AlwaysBoot, PTL DEF Spec

-----------------------------------------------------------------------------
(* Before PP has its rings, whatever the guest sends: GuestOnly.            *)

\* All of s is the guest's own.
Noisy(s) == \A i \in DOMAIN s : s[i] \in Noise

(* vmm2pp is then still a ring, filled by VMM alone with packets of the     *)
(* guest's own, and whatever brings PP to look at it has left one there.    *)
GuestOnly ==
  ~pp.rings =>
    /\ RxInv
    /\ Noisy(vmm.tx) /\ Noisy(V2P!Contents)
    /\ \/ vmm.pc = "notify" \/ "pingpong" \in pp.badge \cup ppPending
       \/ pp.pc \in {"check", "faulted"}
       => V2P!Contents # << >>

\* A PP that follows the pointer never gets its rings.
NullInv == GuestOnly /\ (pp.pc = "faulted" => ~pp.rings)

\* Taking the first of a sequence.
LEMMA NoisyTaken ==
  ASSUME NEW M, NEW s \in Seq(M), Noisy(s), s # << >>
  PROVE  Head(s) \in Noise /\ Noisy(Tail(s))
<1>1. /\ Head(s) = s[1] /\ 1 \in DOMAIN s
      /\ \A i \in DOMAIN Tail(s) : i + 1 \in DOMAIN s /\ Tail(s)[i] = s[i + 1]
  OBVIOUS
<1> QED
  BY <1>1 DEF Noisy

\* Adding one at the end.
LEMMA NoisyAdded ==
  ASSUME NEW M, NEW s \in Seq(M), NEW e \in Noise, Noisy(s)
  PROVE  Noisy(Append(s, e)) /\ Append(s, e) # << >>
<1>1. /\ Len(Append(s, e)) = Len(s) + 1 /\ Len(s) \in Nat
      /\ \A i \in DOMAIN Append(s, e) :
           (i \in DOMAIN s /\ Append(s, e)[i] = s[i]) \/ Append(s, e)[i] = e
  OBVIOUS
<1>2. Append(s, e) # << >>
  <2>1. Append(s, e) \in Seq(M \cup {e}) /\ Len(Append(s, e)) # 0
    OBVIOUS
  <2> QED
    BY <2>1, EmptyByLength
<1> QED
  BY <1>1, <1>2 DEF Noisy

\* A step that leaves vmm2pp alone leaves its proof and its packets alone.
LEMMA RxUnchanged ==
  ASSUME UNCHANGED v2p
  PROVE  /\ RxInv => RxInv'
         /\ V2P!Contents' = V2P!Contents
<1>1. UNCHANGED Rx!vars
  BY DEF Rx!vars, v2p
<1>2. RxInv => RxInv'
  BY <1>1, RxAssumptions, Rx!UserStep DEF RxInv
<1> QED
  BY <1>2 DEF v2p, V2P!Contents, V2P!Dist, V2P!Slot

\* In the initial state nobody has notified anybody.
LEMMA InitNull == Init => NullInv
<1> SUFFICES ASSUME Init PROVE NullInv
  OBVIOUS
<1>1. RxInv /\ V2P!Contents = << >>
  BY RxAssumptions, RxStates, Rx!InitUser DEF Init, RxInv
<1> QED
  BY <1>1 DEF Init, NullInv, GuestOnly, Noisy

\* The event loop of PP.
LEMMA PpKeepsNull ==
  ASSUME BootInv, NullInv, ~pp.rings, PP
  PROVE  NullInv'
<1>1. pp.pc \in {"wait", "dispatch", "check", "initTx", "faulted"} /\ DomainTypes
  BY DEF BootInv, ReadyInv
<1>2. PpReceive \/ PpNotified \/ PpNullRing \/ PpInitTx
  BY <1>1 DEF PP, PpCheck, PpInitRx, PpTransport, PpSetup, PpPublish, PpWrite, PpNotify, PpRead
<1>3. CASE PpInitTx
  BY <1>1, <1>3 DEF PpInitTx, NullInv, GuestOnly, DomainTypes
<1>4. CASE PpReceive \/ PpNotified \/ PpNullRing
  <2>1. UNCHANGED << v2p, vmm >>
    BY <1>4 DEF PpReceive, PpNotified, PpNullRing
  <2>2. (RxInv => RxInv') /\ V2P!Contents' = V2P!Contents
    BY <2>1, RxUnchanged
  <2>3. pp'.rings = pp.rings
    BY <1>1, <1>4 DEF PpReceive, PpNotified, PpNullRing, DomainTypes
  <2>4. "pingpong" \in pp'.badge \cup ppPending' \/ pp'.pc \in {"check", "faulted"} =>
          "pingpong" \in pp.badge \cup ppPending \/ pp.pc \in {"check", "faulted"}
    <3>1. CASE PpReceive
      BY <1>1, <3>1 DEF PpReceive, DomainTypes
    <3>2. CASE PpNotified
      <4>1. CASE "pingpong" \in pp.badge
        BY <4>1
      <4>2. CASE "pingpong" \notin pp.badge
        BY <1>1, <3>2, <4>2 DEF PpNotified, DomainTypes
      <4> QED
        BY <4>1, <4>2
    <3>3. CASE PpNullRing
      BY <3>3 DEF PpNullRing
    <3> QED
      BY <1>4, <3>1, <3>2, <3>3
  <2>5. Noisy(vmm.tx)' /\ Noisy(V2P!Contents)'
    BY <2>1, <2>2 DEF NullInv, GuestOnly, Noisy
  <2> QED
    BY <2>1, <2>2, <2>3, <2>4, <2>5 DEF NullInv, GuestOnly
<1> QED
  BY <1>2, <1>3, <1>4

\* The monitor and the guest, but for what fills the ring: nobody notifies PP.
LEMMA OthersKeepNull ==
  ASSUME BootInv, NullInv, ~pp.rings,
         \/ VmmReadySignal \/ VmmFaultFails \/ VmmReceive \/ AgentBinds \/ AgentReceives
         \/ UNCHANGED vars
  PROVE  NullInv'
<1>1. UNCHANGED v2p /\ vmm'.tx = vmm.tx /\ (vmm'.pc = "notify" => vmm.pc = "notify")
  BY DEF VmmReadySignal, VmmFaultFails, VmmReceive, AgentBinds, AgentReceives, vars, BootInv, DomainTypes
<1>2. (RxInv => RxInv') /\ V2P!Contents' = V2P!Contents
  BY <1>1, RxUnchanged
<1>3. UNCHANGED << pp, ppPending >> \/ NotifyPP("ready")
  BY DEF VmmReadySignal, VmmFaultFails, VmmReceive, AgentBinds, AgentReceives, vars
<1>4. /\ pp'.rings = pp.rings
      /\ "pingpong" \in pp'.badge \cup ppPending' => "pingpong" \in pp.badge \cup ppPending
      /\ pp'.pc \in {"check", "faulted"} => pp.pc \in {"check", "faulted"}
  <2>1. CASE NotifyPP("ready")
    <3>1. /\ pp'.badge \cup ppPending' = pp.badge \cup ppPending \cup {"ready"}
          /\ pp' = [pp EXCEPT !.pc = "dispatch", !.badge = {"ready"}] \/ pp' = pp
      BY <2>1, NotifyForms DEF Channel
    <3> QED
      BY <3>1 DEF BootInv, DomainTypes
  <2> QED
    BY <1>3, <2>1
<1>5. Noisy(vmm.tx)' /\ Noisy(V2P!Contents)'
  BY <1>1, <1>2 DEF NullInv, GuestOnly, Noisy
<1> QED
  BY <1>1, <1>2, <1>4, <1>5 DEF NullInv, GuestOnly

\* The guest has only packets of its own to send: nobody has asked it anything.
LEMMA KickKeepsNull ==
  ASSUME BootInv, NullInv, ~pp.rings, VmmKick
  PROVE  NullInv'
<1>1. UNCHANGED << v2p, pp, ppPending >> /\ guest.outbox = << >>
  BY DEF VmmKick, BootInv, QuietInv, Quiet
<1>2. (RxInv => RxInv') /\ V2P!Contents' = V2P!Contents
  BY <1>1, RxUnchanged
<1>3. PICK n \in 0 .. Len(guest.outbox), k \in 0 .. guest.noise, kind \in Noise :
        /\ n + k \in 1 .. KickBurst
        /\ k > 0 => NoiseAllowed
        /\ \E pkts \in Kick(n, [i \in 1 .. k |-> kind]) :
             vmm' = [vmm EXCEPT !.pc = "tx", !.tx = pkts]
        /\ guest' = [guest EXCEPT !.outbox = SubSeq(@, n + 1, Len(@)), !.noise = @ - k]
  BY DEF VmmKick
<1>4. n = 0 /\ k \in Nat
  BY <1>1, Constants DEF BootInv, DomainTypes
<1>5. Noisy(SubSeq(guest.outbox, 1, n) \o [i \in 1 .. k |-> kind])
  BY <1>1, <1>4 DEF Noisy
<1>6. Noisy([i \in 1 .. k |-> kind] \o SubSeq(guest.outbox, 1, n))
  BY <1>1, <1>4 DEF Noisy
<1>7. vmm'.pc = "tx" /\ Noisy(vmm'.tx)
  BY <1>3, <1>5, <1>6 DEF Kick, BootInv, DomainTypes
<1>8. Noisy(V2P!Contents)' /\ Noisy(vmm.tx)'
  BY <1>2, <1>7 DEF NullInv, GuestOnly, Noisy
<1> QED
  BY <1>1, <1>2, <1>7, <1>8 DEF NullInv, GuestOnly

\* process_tx_pending puts them into the ring.
LEMMA TxKeepsNull ==
  ASSUME BootInv, NullInv, ~pp.rings, VmmTx
  PROVE  NullInv'
<1>1. /\ vmm.pc = "tx" /\ UNCHANGED << pp, ppPending >>
      /\ vmm.tx \in Seq(Message) /\ vmm.tx # << >>
      /\ v2pProd.pc # "idle" => v2pProd.pkt = Head(vmm.tx)
  BY DEF VmmTx, BootInv, RoleInv, DomainTypes
<1>2. RxInv /\ Noisy(vmm.tx) /\ Noisy(V2P!Contents)
  BY DEF NullInv, GuestOnly
<1>3. Head(vmm.tx) \in Noise /\ Head(vmm.tx) \in Message
  BY <1>1, <1>2, NoisyTaken
<1>4. CASE (V2P!NewBlock(Head(vmm.tx)) \/ V2P!ReloadFront \/ V2P!FillBlock \/ V2P!Push) /\ UNCHANGED vmm
  <2>1. RxInv' /\ V2P!Contents' = V2P!Contents
    BY <1>1, <1>2, <1>3, <1>4, RxAssumptions, RxSteps, RxStates, RxNext, Rx!UserWrites DEF RxInv
  <2>2. Noisy(V2P!Contents)' /\ Noisy(vmm.tx)'
    BY <1>2, <1>4, <2>1 DEF Noisy
  <2> QED
    BY <1>1, <1>4, <2>1, <2>2 DEF NullInv, GuestOnly
<1>5. CASE V2P!PublishBack /\ vmm' = [vmm EXCEPT !.pc = "notify"]
  <2>1. RxInv' /\ V2P!Contents' = Append(V2P!Contents, v2pProd.pkt) /\ v2pProd.pkt = Head(vmm.tx)
    BY <1>1, <1>2, <1>5, RxAssumptions, RxSteps, RxStates, RxNext, Rx!UserPublishes DEF RxInv
  <2>2. V2P!Contents \in Seq(Message \cup {NoMessage})
    BY <1>2, RxAssumptions, RxStates, Rx!UserContents DEF RxInv
  <2> HIDE DEF Message
  <2>3. Noisy(Append(V2P!Contents, Head(vmm.tx))) /\ Append(V2P!Contents, Head(vmm.tx)) # << >>
    BY <1>2, <1>3, <2>2, NoisyAdded
  <2>4. vmm'.tx = vmm.tx
    BY <1>5 DEF BootInv, DomainTypes
  <2>5. Noisy(V2P!Contents)' /\ Noisy(vmm.tx)' /\ V2P!Contents' # << >>
    BY <1>2, <2>1, <2>3, <2>4 DEF Noisy
  <2> QED
    BY <1>1, <2>1, <2>5 DEF NullInv, GuestOnly
<1> QED
  BY <1>4, <1>5 DEF VmmTx

\* And announces each.
LEMMA NotifyKeepsNull ==
  ASSUME BootInv, NullInv, ~pp.rings, VmmNotify
  PROVE  NullInv'
<1>1. UNCHANGED v2p /\ vmm.pc = "notify" /\ NotifyPP("pingpong")
      /\ vmm.tx \in Seq(Message) /\ vmm.tx # << >>
  BY DEF VmmNotify, BootInv, RoleInv, DomainTypes
<1>2. RxInv' /\ V2P!Contents' = V2P!Contents /\ V2P!Contents # << >>
  BY <1>1, RxUnchanged DEF NullInv, GuestOnly
<1>3. vmm'.tx = Tail(vmm.tx) /\ Noisy(Tail(vmm.tx))
  BY <1>1, NoisyTaken DEF VmmNotify, BootInv, DomainTypes, NullInv, GuestOnly
<1>4. pp'.rings = pp.rings /\ (pp'.pc = "faulted" => pp.pc = "faulted")
  <2>1. pp' = [pp EXCEPT !.pc = "dispatch", !.badge = {"pingpong"}] \/ pp' = pp
    BY <1>1, NotifyForms DEF Channel
  <2> QED
    BY <2>1 DEF BootInv, DomainTypes
<1>5. Noisy(V2P!Contents)' /\ Noisy(vmm.tx)' /\ V2P!Contents' # << >>
  BY <1>2, <1>3 DEF NullInv, GuestOnly, Noisy
<1> QED
  BY <1>2, <1>4, <1>5 DEF NullInv, GuestOnly

\* Once PP has its rings, the pointer is never NULL again.
LEMMA RingsStay ==
  ASSUME BootInv, NullInv, pp.rings, [Next]_vars
  PROVE  NullInv'
<1>1. pp.pc # "faulted" /\ pp.pc # "initTx" /\ DomainTypes
  BY DEF NullInv, BootInv, ReadyInv
<1>2. pp'.rings /\ pp'.pc # "faulted"
  <2>1. CASE Quiet
    <3>1. pp.pc = "initRx"
      BY <2>1 DEF Quiet
    <3>2. UNCHANGED pp \/ PpInitRx \/ NotifyPP("ready") \/ NotifyPP("pingpong")
      BY <3>1 DEF Next, PP, VMM, vars, PpReceive, PpNotified, PpNullRing, PpCheck, PpInitTx, PpTransport,
           PpSetup, PpPublish, PpWrite, PpNotify, PpRead, VmmReceive, VmmDrain, VmmSend, VmmReadySignal,
           VmmKick, VmmFaultFails, VmmTx, VmmNotify, AgentBinds, AgentReceives
    <3>3. CASE PpInitRx
      <4>1. PICK i \in pp.reset :
              pp' = [pp EXCEPT !.reset = @ \ {i},
                               !.pc = IF pp.reset = {i} THEN "transport" ELSE "initRx"]
        BY <3>3 DEF PpInitRx
      <4> QED
        BY <1>1, <4>1 DEF DomainTypes
    <3> QED
      BY <1>1, <3>1, <3>2, <3>3 DEF NotifyPP
  <2>2. CASE ~Quiet
    BY <1>1, <2>2, NeverQuietAgain DEF Quiet
  <2> QED
    BY <2>1, <2>2
<1> QED
  BY <1>2 DEF NullInv, GuestOnly

\* NullInv is inductive.
LEMMA NextNull ==
  ASSUME BootInv, NullInv, [Next]_vars
  PROVE  NullInv'
<1>1. CASE pp.rings
  BY <1>1, RingsStay
<1>2. CASE ~pp.rings
  <2>1. vmm.pc \notin {"drain", "send"}
    BY <1>2 DEF BootInv, QuietInv, Quiet
  <2>2. ~VmmDrain /\ ~VmmSend
    BY <2>1 DEF VmmDrain, VmmSend
  <2> QED
    BY <1>2, <2>2, PpKeepsNull, OthersKeepNull, KickKeepsNull, TxKeepsNull, NotifyKeepsNull DEF Next, VMM
<1> QED
  BY <1>1, <1>2

(* Whatever the guest sends and however early, PP follows spsc_vmm2pp while *)
(* it is NULL only for a packet of the guest's own that waits in the ring.  *)
THEOREM OnlyNoiseFollowsNull == Spec => []NullRingOnlyByNoise
<1>1. BootInv /\ NullInv => NullRingOnlyByNoise
  <2> SUFFICES ASSUME BootInv, NullInv, pp.pc = "faulted"
               PROVE  ~pp.rings /\ V2P!Contents # << >> /\ Head(V2P!Contents) \in Noise
    BY DEF NullRingOnlyByNoise
  <2>1. ~pp.rings /\ RxInv /\ Noisy(V2P!Contents) /\ V2P!Contents # << >>
    BY DEF NullInv, GuestOnly
  <2>2. V2P!Contents \in Seq(Message \cup {NoMessage})
    BY <2>1, RxAssumptions, RxStates, Rx!UserContents DEF RxInv
  <2> HIDE DEF Message
  <2> QED
    BY <2>1, <2>2, NoisyTaken
<1>2. BootInv /\ NullInv /\ [Next]_vars => NullInv'
  BY NextNull
<1> QED
  BY <1>1, <1>2, InitNull, AlwaysBoot, PTL DEF Spec
-----------------------------------------------------------------------------
(* And the rings keep to their protocol.                                    *)

(* PP and VMM use pp2vmm, whatever the guest does, as the proof of the ring *)
(* assumes: RingIsFifo and the rest of SpscQueueProof hold of it.           *)
THEOREM TxFollowsProtocol == Spec => P2V!Spec
<1>1. Init => P2V!Init
  BY DEF Init
<1>2. BootInv /\ [Next]_vars => [P2V!Next]_(P2V!vars)
  BY TxMoves
<1> QED
  BY <1>1, <1>2, AlwaysBoot, PTL DEF Spec, P2V!Spec

(* And vmm2pp, if the guest is quiet until PP has initialised it.           *)
THEOREM RingsAlwaysFollowProtocol ==
  ASSUME NoiseFrom = "rings"
  PROVE  Spec => RingsFollowProtocol
<1>1. Init => V2P!Init
  BY DEF Init
<1>2. BootInv /\ CalmInv /\ [Next]_vars => [V2P!Next]_(V2P!vars)
  BY RxMoves DEF CalmInv
<1> QED
  BY <1>1, <1>2, TxFollowsProtocol, AlwaysBoot, AlwaysCalm, PTL DEF Spec, V2P!Spec, RingsFollowProtocol

(* So, whatever the guest does, pp2vmm is a bounded first-in first-out      *)
(* channel from PP to VMM.                                                  *)
THEOREM TxIsFifo == Spec => Tx!ImplementsFifo
<1>1. Init => Tx!Init
  BY TxStates DEF Init
<1>2. BootInv /\ [Next]_vars => [Tx!Next]_(Tx!vars)
  BY TxMoves, TxSteps, TxStates
     DEF P2V!Next, P2V!Producer, P2V!Consumer, P2V!vars, Tx!Next, Tx!Producer, Tx!Consumer, Tx!vars
<1>3. Tx!Spec => Tx!ImplementsFifo
  BY TxAssumptions, Tx!RingIsFifo
<1> QED
  BY <1>1, <1>2, <1>3, AlwaysBoot, PTL DEF Spec, Tx!Spec

(* And vmm2pp from VMM to PP, if the guest is quiet until PP has its rings. *)
THEOREM RxIsFifo ==
  ASSUME NoiseFrom = "rings"
  PROVE  Spec => Rx!ImplementsFifo
<1>1. Init => Rx!Init
  BY RxStates DEF Init
<1>2. BootInv /\ CalmInv /\ [Next]_vars => [Rx!Next]_(Rx!vars)
  BY RxMoves, RxSteps, RxStates
     DEF CalmInv, V2P!Next, V2P!Producer, V2P!Consumer, V2P!vars,
         Rx!Next, Rx!Producer, Rx!Consumer, Rx!vars
<1>3. Rx!Spec => Rx!ImplementsFifo
  BY RxAssumptions, Rx!RingIsFifo
<1> QED
  BY <1>1, <1>2, <1>3, AlwaysBoot, AlwaysCalm, PTL DEF Spec, Rx!Spec
=============================================================================
