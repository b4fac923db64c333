---------------------------- MODULE PingPongSel4 ----------------------------
(***************************************************************************)
(* rclc/ping_pong_sel4: the ping_pong protection domain (PP), the virtual  *)
(* machine monitor (VMM) and the Linux guest that runs the micro-ROS agent *)
(* behind it.                                                              *)
(*                                                                         *)
(* PP and VMM share two rings, pp2vmm and vmm2pp, each an instance of      *)
(* SpscQueue, and notify one another on two Microkit channels.  Three      *)
(* parts are not in the repository and are modelled from how its code uses *)
(* them: Microkit's notifications and event loop, the micro-ROS client     *)
(* library that PP calls, and the guest with its agent and virtIO device.  *)
(***************************************************************************)
EXTENDS Integers, Sequences, FiniteSets

CONSTANTS
  Capacity,     \* blocks of a ring: 1 in the built system, see SpscInit
  WordSize,     \* bound on the indices, see SpscQueue
  SetupCalls,   \* calls of transport_init that wait for the agent's answer
  ReplyBurst,   \* packets the agent sends for one request, at most
  KickBurst,    \* packets the guest queues before it kicks its device
  MaxNoise,     \* packets of the guest that are no answer to PP
  ReadyWrites,  \* writes of the guest to the readiness page
  NoiseFrom,    \* when noise may start: "boot", "ready" (the guest has
                \* signalled) or "rings" (PP has initialised the rings)
  Faulty        \* may library calls and faults fail, and virtIO drop a packet?

ASSUME PingPongAssumption ==
  /\ Capacity \in Nat \ {0}
  /\ WordSize \in Nat /\ WordSize > Capacity /\ WordSize % Capacity = 0
  /\ {SetupCalls, ReplyBurst, KickBurst, ReadyWrites} \subseteq Nat \ {0}
  /\ MaxNoise \in Nat
  /\ NoiseFrom \in {"boot", "ready", "rings"}
  /\ Faulty \in BOOLEAN

VARIABLES
  p2vQ, p2vBlock, p2vProd, p2vCons,   \* the ring pp2vmm: PP produces
  v2pQ, v2pBlock, v2pProd, v2pCons,   \* the ring vmm2pp: VMM produces
  pp,           \* the ping_pong protection domain
  vmm,          \* the virtual machine monitor
  ppPending,    \* channels notified while PP was not waiting
  vmmPending,   \* PINGPONG notified and not yet received by VMM
  guest         \* the Linux guest

p2v == << p2vQ, p2vBlock, p2vProd, p2vCons >>
v2p == << v2pQ, v2pBlock, v2pProd, v2pCons >>
vars == << p2v, v2p, pp, vmm, ppPending, vmmPending, guest >>

\* "request" and "status" stand for the traffic of session and entity
\* creation; "oversize" is addressed to PP and longer than its buffer.
Noise == {"foreign", "oversize"}
Message == {"request", "status", "ping", "pong"} \cup Noise
NoMessage == "none"

P2V == INSTANCE SpscQueue WITH Payload <- Message, Garbage <- NoMessage,
         q <- p2vQ, block <- p2vBlock, prod <- p2vProd, cons <- p2vCons
V2P == INSTANCE SpscQueue WITH Payload <- Message, Garbage <- NoMessage,
         q <- v2pQ, block <- v2pBlock, prod <- v2pProd, cons <- v2pCons

Channel == {"pingpong", "ready"}
Index == {"front", "consumerCachedFront", "producerCachedFront",
          "back", "consumerCachedBack", "producerCachedBack"}

TypeOK ==
  /\ P2V!TypeOK /\ V2P!TypeOK
  /\ pp \in [pc : {"wait", "dispatch", "initTx", "initRx", "transport", "setup",
                   "publish", "write", "notify", "check", "read", "faulted", "exited"},
             badge : SUBSET Channel, rings : BOOLEAN, publishers : BOOLEAN,
             reset : SUBSET Index, calls : 0 .. SetupCalls,
             msg : Message \cup {NoMessage}]
  /\ vmm \in [pc : {"wait", "drain", "send", "tx", "notify"},
              tx : Seq(Message), signalled : BOOLEAN]
  /\ ppPending \subseteq Channel
  /\ vmmPending \in BOOLEAN
  /\ guest \in [running : BOOLEAN, port : BOOLEAN, writes : 0 .. ReadyWrites,
                noise : 0 .. MaxNoise, inbox : Seq(Message), outbox : Seq(Message)]

(* init of VMM has initialised both rings and started the guest; init of PP *)
(* has only set up its heap: spsc_pp2vmm and spsc_vmm2pp are still NULL.    *)
Init ==
  /\ P2V!Init /\ V2P!Init
  /\ pp = [pc |-> "wait", badge |-> {}, rings |-> FALSE, publishers |-> FALSE,
           reset |-> {}, calls |-> 0, msg |-> NoMessage]
  /\ vmm = [pc |-> "wait", tx |-> << >>, signalled |-> FALSE]
  /\ ppPending = {}
  /\ vmmPending = FALSE
  /\ guest = [running |-> TRUE, port |-> FALSE, writes |-> 0, noise |-> MaxNoise,
              inbox |-> << >>, outbox |-> << >>]

(* Definitions named Bug... are not part of the specification: see          *)
(* SpscQueue.                                                               *)

(* microkit_notify towards PP: a waiting PD receives the badge at once, any *)
(* other collects it, one bit per channel.                                  *)
NotifyPP(ch) ==
  IF pp.pc = "wait"
  THEN /\ pp' = [pp EXCEPT !.pc = "dispatch", !.badge = {ch}]
       /\ UNCHANGED ppPending
  ELSE /\ ppPending' = ppPending \cup {ch}
       /\ UNCHANGED pp
-----------------------------------------------------------------------------
(* PP: the event loop. *)

\* All bits of the badge are served, the lowest channel first; then PP
\* receives again.
PpReceive ==
  /\ pp.pc = "dispatch" /\ pp.badge = {}
  /\ pp' = [pp EXCEPT !.pc = IF ppPending = {} THEN "wait" ELSE "dispatch",
                      !.badge = ppPending]
  /\ ppPending' = {}
  /\ UNCHANGED << p2v, v2p, vmm, vmmPending, guest >>

PpNotified ==
  /\ pp.pc = "dispatch" /\ pp.badge # {}
  /\ LET ch == IF "pingpong" \in pp.badge THEN "pingpong" ELSE "ready"
     IN  pp' = [pp EXCEPT !.pc = IF ch = "pingpong" THEN "check" ELSE "initTx",
                          !.badge = @ \ {ch}]
  /\ UNCHANGED << p2v, v2p, vmm, ppPending, vmmPending, guest >>

\* CHAN_PINGPONG before transport_init has run: spsc_empty(NULL)
PpNullRing ==
  /\ pp.pc = "check" /\ ~pp.rings
  /\ pp' = [pp EXCEPT !.pc = "faulted"]
  /\ UNCHANGED << p2v, v2p, vmm, ppPending, vmmPending, guest >>

\* CHAN_PINGPONG: on an empty ring the notification is dropped, else
\* rclc_executor_spin_some receives one message.
PpCheck ==
  /\ pp.pc = "check" /\ pp.rings
  /\ V2P!Empty
  /\ pp' = [pp EXCEPT !.pc = IF V2P!ConsumerSeesEmpty(v2pQ') THEN "dispatch" ELSE "read"]
  /\ UNCHANGED << p2v, vmm, ppPending, vmmPending, guest >>
-----------------------------------------------------------------------------
(* PP: transport_init, on CHAN_READY. *)

\* VMM does not touch pp2vmm before PP has written to it.
PpInitTx ==
  /\ pp.pc = "initTx"
  /\ p2vQ' = P2V!EmptyRing
  /\ pp' = [pp EXCEPT !.pc = "initRx", !.rings = TRUE, !.reset = Index]
  /\ UNCHANGED << p2vBlock, p2vProd, p2vCons, v2p, vmm, ppPending, vmmPending, guest >>

\* spsc_init zeroes the indices of vmm2pp with plain stores, which a compiler
\* may reorder and which VMM may see one by one.
PpInitRx ==
  /\ pp.pc = "initRx"
  /\ \E i \in pp.reset :
       /\ v2pQ' = [v2pQ EXCEPT ![i] = 0]
       /\ pp' = [pp EXCEPT !.reset = @ \ {i},
                           !.pc = IF pp.reset = {i} THEN "transport" ELSE "initRx"]
  /\ UNCHANGED << v2pBlock, v2pProd, v2pCons, p2v, vmm, ppPending, vmmPending, guest >>

\* rmw_uros_set_custom_transport; when it fails transport_init returns early
\* and notified goes on to send_ping with no publisher.
PpTransport ==
  /\ pp.pc = "transport"
  /\ \/ pp' = [pp EXCEPT !.pc = "setup", !.calls = SetupCalls]
     \/ Faulty /\ pp' = [pp EXCEPT !.pc = "publish", !.msg = "ping"]
  /\ UNCHANGED << p2v, v2p, vmm, ppPending, vmmPending, guest >>

\* The RCCHECKed calls: each sends its request and waits for the answer, or
\* fails and ends PP.  After the last one notified sends the first ping.
PpSetup ==
  /\ pp.pc = "setup"
  /\ \/ /\ pp.calls > 0
        /\ pp' = [pp EXCEPT !.pc = "write", !.msg = "request"]
     \/ /\ pp.calls = 0
        /\ pp' = [pp EXCEPT !.pc = "publish", !.msg = "ping", !.publishers = TRUE]
     \/ /\ Faulty
        /\ pp' = [pp EXCEPT !.pc = "exited"]
  /\ UNCHANGED << p2v, v2p, vmm, ppPending, vmmPending, guest >>
-----------------------------------------------------------------------------
(* PP: sending and receiving. *)

\* whether the publisher was ever initialised does not matter
BugPpPublish ==
  /\ pp.pc = "publish"
  /\ \/ pp' = [pp EXCEPT !.pc = "write"]
     \/ /\ Faulty
        /\ pp' = [pp EXCEPT !.pc = "exited"]
  /\ UNCHANGED << p2v, v2p, vmm, ppPending, vmmPending, guest >>

\* send_impl: rcl_publish fails on a publisher that was never initialised,
\* and RCCHECK then ends PP.
PpPublish ==
  /\ pp.pc = "publish"
  /\ \/ /\ pp.publishers
        /\ pp' = [pp EXCEPT !.pc = "write"]
     \/ /\ ~pp.publishers \/ Faulty
        /\ pp' = [pp EXCEPT !.pc = "exited"]
  /\ UNCHANGED << p2v, v2p, vmm, ppPending, vmmPending, guest >>

\* custom_transport_seL4_write up to the release store of spsc_push
PpWrite ==
  /\ pp.pc = "write"
  /\ \/ /\ P2V!NewBlock(pp.msg) \/ P2V!ReloadFront \/ P2V!FillBlock \/ P2V!Push
        /\ UNCHANGED pp
     \/ /\ P2V!PublishBack
        /\ pp' = [pp EXCEPT !.pc = "notify"]
  /\ UNCHANGED << v2p, vmm, ppPending, vmmPending, guest >>

\* no notification
BugPpNotifyForgotten ==
  /\ pp.pc = "notify"
  /\ pp' = [pp EXCEPT !.pc = IF pp.msg = "request" THEN "read" ELSE "dispatch",
                      !.msg = NoMessage]
  /\ UNCHANGED << p2v, v2p, vmm, ppPending, vmmPending, guest >>

\* the next request goes out before the answer to this one has come in
BugPpNotifyPipelined ==
  /\ pp.pc = "notify"
  /\ vmmPending' = TRUE
  /\ pp' = [pp EXCEPT !.pc = IF pp.msg = "request" THEN "setup" ELSE "dispatch",
                      !.msg = NoMessage]
  /\ UNCHANGED << p2v, v2p, vmm, ppPending, guest >>

\* microkit_notify(CHAN_PINGPONG): a request now waits for its answer, a
\* published message ends the callback.
PpNotify ==
  /\ pp.pc = "notify"
  /\ vmmPending' = TRUE
  /\ pp' = [pp EXCEPT !.pc = IF pp.msg = "request" THEN "read" ELSE "dispatch",
                      !.msg = NoMessage]
  /\ UNCHANGED << p2v, v2p, vmm, ppPending, guest >>

\* a late answer counted once more
BugAfterReadLate(p) ==
  CASE p = "foreign" -> [pp EXCEPT !.pc = "read"]
    [] p = "status" -> [pp EXCEPT !.pc = "setup", !.calls = @ - 1]
    [] p = "ping" -> [pp EXCEPT !.pc = "publish", !.msg = "pong"]
    [] p = "pong" -> [pp EXCEPT !.pc = "publish", !.msg = "ping"]
    [] OTHER -> [pp EXCEPT !.pc = "dispatch"]

\* What PP does with the packet that custom_transport_seL4_read has popped.
AfterRead(p) ==
  CASE p = "foreign" \/ (pp.calls > 0 /\ p # "status") -> [pp EXCEPT !.pc = "read"]
    [] pp.calls > 0 /\ p = "status" -> [pp EXCEPT !.pc = "setup", !.calls = @ - 1]
    [] pp.calls = 0 /\ p = "ping" -> [pp EXCEPT !.pc = "publish", !.msg = "pong"]
    [] pp.calls = 0 /\ p = "pong" -> [pp EXCEPT !.pc = "publish", !.msg = "ping"]
    [] OTHER -> [pp EXCEPT !.pc = "dispatch"]

\* custom_transport_seL4_read: waits without regard to its timeout, skips
\* what is not addressed to PP, drops what does not fit.
PpRead ==
  /\ pp.pc = "read"
  /\ \/ /\ V2P!FrontBlock \/ V2P!ReloadBack \/ V2P!ReadBlock
        /\ UNCHANGED pp
     \/ /\ V2P!Pop
        /\ pp' = AfterRead(v2pCons.pkt)
  /\ UNCHANGED << p2v, vmm, ppPending, vmmPending, guest >>

PP == \/ PpReceive \/ PpNotified \/ PpNullRing \/ PpCheck
      \/ PpInitTx \/ PpInitRx \/ PpTransport \/ PpSetup
      \/ PpPublish \/ PpWrite \/ PpNotify \/ PpRead
-----------------------------------------------------------------------------
(* VMM: notified. *)

VmmReceive ==
  /\ vmm.pc = "wait" /\ vmmPending
  /\ vmmPending' = FALSE
  /\ vmm' = [vmm EXCEPT !.pc = "drain"]
  /\ UNCHANGED << p2v, v2p, pp, ppPending, guest >>

\* while (!spsc_empty(spsc_pp2vmm))
VmmDrain ==
  /\ vmm.pc = "drain"
  /\ P2V!Empty
  /\ vmm' = [vmm EXCEPT !.pc = IF P2V!ConsumerSeesEmpty(p2vQ') THEN "wait" ELSE "send"]
  /\ UNCHANGED << v2p, pp, ppPending, vmmPending, guest >>

\* send_pkt_to_guest, on a ring that is not empty: the packet is the guest's when virtio_net_handle_rx
\* returns, before spsc_pop; virtIO drops it if the guest has no buffer.
VmmSend ==
  /\ vmm.pc = "send"
  /\ \/ /\ P2V!FrontBlock
        /\ UNCHANGED << vmm, guest >>
     \/ /\ P2V!ReadBlock
        /\ \/ guest' = [guest EXCEPT !.inbox = Append(@, p2vCons'.pkt)]
           \/ Faulty /\ UNCHANGED guest
        /\ UNCHANGED vmm
     \/ /\ P2V!Pop
        /\ vmm' = [vmm EXCEPT !.pc = "drain"]
        /\ UNCHANGED guest
  /\ UNCHANGED << v2p, pp, ppPending, vmmPending >>
-----------------------------------------------------------------------------
(* VMM: fault.  The guest does not run between its fault and the reply.     *)

GuestRuns == guest.running /\ vmm.pc \in {"wait", "drain", "send"}

\* every write signals
BugReadyEachTime ==
  /\ vmm.pc = "wait" /\ guest.running /\ guest.port
  /\ guest.writes < ReadyWrites
  /\ guest' = [guest EXCEPT !.writes = @ + 1]
  /\ vmm' = [vmm EXCEPT !.signalled = TRUE]
  /\ NotifyPP("ready")
  /\ UNCHANGED << p2v, v2p, vmmPending >>

\* is_port_open does not wait for the port
BugReadyBeforePort ==
  /\ vmm.pc = "wait" /\ guest.running
  /\ guest.writes < ReadyWrites
  /\ guest' = [guest EXCEPT !.writes = @ + 1]
  /\ IF vmm.signalled
     THEN UNCHANGED << vmm, pp, ppPending >>
     ELSE /\ vmm' = [vmm EXCEPT !.signalled = TRUE]
          /\ NotifyPP("ready")
  /\ UNCHANGED << p2v, v2p, vmmPending >>

\* the wrong channel
BugReadyWrongChannel ==
  /\ vmm.pc = "wait" /\ guest.running /\ guest.port
  /\ guest.writes < ReadyWrites
  /\ guest' = [guest EXCEPT !.writes = @ + 1]
  /\ IF vmm.signalled
     THEN UNCHANGED << vmm, pp, ppPending >>
     ELSE /\ vmm' = [vmm EXCEPT !.signalled = TRUE]
          /\ NotifyPP("pingpong")
  /\ UNCHANGED << p2v, v2p, vmmPending >>

\* ready_signal_handler: is_port_open writes once the agent's port is bound.
VmmReadySignal ==
  /\ vmm.pc = "wait" /\ guest.running /\ guest.port
  /\ guest.writes < ReadyWrites
  /\ guest' = [guest EXCEPT !.writes = @ + 1]
  /\ IF vmm.signalled
     THEN UNCHANGED << vmm, pp, ppPending >>
     ELSE /\ vmm' = [vmm EXCEPT !.signalled = TRUE]
          /\ NotifyPP("ready")
  /\ UNCHANGED << p2v, v2p, vmmPending >>

NoiseAllowed ==
  \/ NoiseFrom = "boot"
  \/ NoiseFrom = "ready" /\ vmm.signalled
  \/ NoiseFrom = "rings" /\ pp.rings /\ pp.pc # "initRx"

\* The guest's packets for one kick of its virtIO device: some of what the
\* agent has to send, before or after packets of its own.
Kick(n, noise) ==
  LET answers == SubSeq(guest.outbox, 1, n)
  IN  {answers \o noise, noise \o answers}

\* fault_handle has put them on net_tx; process_tx_pending runs next.
VmmKick ==
  /\ vmm.pc = "wait" /\ guest.running
  /\ \E n \in 0 .. Len(guest.outbox), k \in 0 .. guest.noise, kind \in Noise :
       /\ n + k \in 1 .. KickBurst
       /\ k > 0 => NoiseAllowed
       /\ \E pkts \in Kick(n, [i \in 1 .. k |-> kind]) :
            vmm' = [vmm EXCEPT !.pc = "tx", !.tx = pkts]
       /\ guest' = [guest EXCEPT !.outbox = SubSeq(@, n + 1, Len(@)), !.noise = @ - k]
  /\ UNCHANGED << p2v, v2p, pp, ppPending, vmmPending >>

\* fault_handle fails: microkit_vcpu_stop
VmmFaultFails ==
  /\ Faulty
  /\ vmm.pc = "wait" /\ guest.running
  /\ guest' = [guest EXCEPT !.running = FALSE]
  /\ UNCHANGED << p2v, v2p, pp, vmm, ppPending, vmmPending >>

\* process_tx_pending: one round of its loop, up to the release store
VmmTx ==
  /\ vmm.pc = "tx"
  /\ \/ /\ V2P!NewBlock(Head(vmm.tx)) \/ V2P!ReloadFront \/ V2P!FillBlock \/ V2P!Push
        /\ UNCHANGED vmm
     \/ /\ V2P!PublishBack
        /\ vmm' = [vmm EXCEPT !.pc = "notify"]
  /\ UNCHANGED << p2v, pp, ppPending, vmmPending, guest >>

\* one notification after the last packet
BugVmmNotifyOnce ==
  /\ vmm.pc = "notify"
  /\ IF Len(vmm.tx) = 1 THEN NotifyPP("pingpong") ELSE UNCHANGED << pp, ppPending >>
  /\ vmm' = [vmm EXCEPT !.pc = IF Len(vmm.tx) = 1 THEN "wait" ELSE "tx",
                        !.tx = Tail(@)]
  /\ UNCHANGED << p2v, v2p, vmmPending, guest >>

\* the notification of that round; after the last packet the guest resumes
VmmNotify ==
  /\ vmm.pc = "notify"
  /\ NotifyPP("pingpong")
  /\ vmm' = [vmm EXCEPT !.pc = IF Len(vmm.tx) = 1 THEN "wait" ELSE "tx",
                        !.tx = Tail(@)]
  /\ UNCHANGED << p2v, v2p, vmmPending, guest >>

VMM == \/ VmmReceive \/ VmmDrain \/ VmmSend
       \/ VmmReadySignal \/ VmmKick \/ VmmFaultFails \/ VmmTx \/ VmmNotify
-----------------------------------------------------------------------------
(* The guest. *)

\* S60microros_agent starts the agent in the background.
AgentBinds ==
  /\ GuestRuns /\ ~guest.port
  /\ guest' = [guest EXCEPT !.port = TRUE]
  /\ UNCHANGED << p2v, v2p, pp, vmm, ppPending, vmmPending >>

\* The agent answers requests and hands what is published on a topic back to
\* its subscriber; without a socket the packet is lost.
AgentReceives ==
  /\ GuestRuns /\ guest.inbox # << >>
  /\ \E n \in 1 .. ReplyBurst :
       LET m == Head(guest.inbox)
           answer == IF m = "request" THEN [i \in 1 .. n |-> "status"] ELSE << m >>
       IN  guest' = [guest EXCEPT !.inbox = Tail(@),
                       !.outbox = IF guest.port THEN @ \o answer ELSE @]
  /\ UNCHANGED << p2v, v2p, pp, vmm, ppPending, vmmPending >>

Next == PP \/ VMM \/ AgentBinds \/ AgentReceives

Spec == Init /\ [][Next]_vars

(* Two PDs and the guest of equal priority share the core in turns, and     *)
(* seL4_Yield in a spin loop gives the turn away.  Noise, a second write to *)
(* the readiness page and failures need never happen.                       *)
Fairness ==
  /\ WF_vars(PP)
  /\ WF_vars(VmmReceive \/ VmmDrain \/ VmmSend \/ VmmTx \/ VmmNotify)
  /\ WF_vars(AgentBinds)
  /\ WF_vars(AgentReceives)
  /\ WF_vars(VmmReadySignal /\ ~vmm.signalled)
  /\ WF_vars(VmmKick /\ guest.outbox # guest'.outbox)

FairSpec == Spec /\ Fairness
-----------------------------------------------------------------------------
(* Properties. *)

(* Each domain uses its end of a ring as the ring's proofs assume: one      *)
(* producer and one consumer, blocks written before spsc_push and read      *)
(* before spsc_pop, and spsc_init on a ring nobody has used yet.  So what   *)
(* SpscQueueProof proves of the ring holds of pp2vmm and of vmm2pp.         *)
RingsFollowProtocol == P2V!Spec /\ V2P!Spec

(* Nobody sleeps on a ring that holds a packet: a waiting PP finds vmm2pp   *)
(* empty unless VMM is about to notify it, and a waiting VMM pp2vmm, though *)
(* a notification is one bit however many packets it stands for and PP     *)
(* serves one packet for each.                                              *)
NoLostWakeup ==
  /\ pp.pc = "wait" /\ pp.rings /\ V2P!Contents # << >> => vmm.pc = "notify"
  /\ vmm.pc = "wait" /\ P2V!Contents # << >> => vmmPending \/ pp.pc = "notify"

(* PP and VMM never wait in spsc_new_block for one another, each for a full *)
(* ring that only the other could empty.                                    *)
NeverStuckTogether ==
  ~ /\ p2vProd.pc = "full" /\ Len(P2V!Contents) = Capacity
    /\ v2pProd.pc = "full" /\ Len(V2P!Contents) = Capacity

(* PP follows spsc_vmm2pp while it is NULL only for a packet of the guest's *)
(* own that waits in vmm2pp: neither the readiness signal nor an answer of  *)
(* the agent ever leads there, and no notification does for nothing.        *)
NullRingOnlyByNoise ==
  pp.pc = "faulted" =>
    /\ ~pp.rings
    /\ V2P!Contents # << >> /\ Head(V2P!Contents) \in Noise

(* Nothing PP sends reaches the guest before the agent listens: PP does not *)
(* repeat a request, so it would wait for the answer for ever.              *)
AgentListens == guest.inbox # << >> => guest.port

\* What VMM has still to hand to the guest, and to put into vmm2pp.
ForGuest == SubSeq(P2V!Contents, IF p2vCons.pc = "pop" THEN 2 ELSE 1, Len(P2V!Contents))
ForPP == IF vmm.pc = "notify" THEN Tail(vmm.tx) ELSE vmm.tx

\* Everything on its way, from the decision to publish it to its receipt.
InFlight ==
  (IF pp.pc \in {"publish", "write"} THEN << pp.msg >> ELSE << >>)
  \o ForGuest \o guest.inbox \o guest.outbox \o ForPP \o V2P!Contents

(* Nothing is ever published on a publisher that does not exist, and then   *)
(* comes back: until transport_init has made the publishers no ping and no  *)
(* pong is anywhere but in the hands of send_impl, though notified calls    *)
(* send_ping also when transport_init has given up.                         *)
PublishersBeforePings ==
  ~pp.publishers =>
    \A s \in {ForGuest, guest.inbox, guest.outbox, ForPP, V2P!Contents} :
      \A i \in DOMAIN s : s[i] \notin {"ping", "pong"}

(* Ping and pong alternate: at most one of them is on its way at any time,  *)
(* also when the readiness page is written twice.                           *)
OneMessageInFlight ==
  Cardinality({i \in DOMAIN InFlight : InFlight[i] \in {"ping", "pong"}}) <= 1

(* "Guest is ready, initialising and sending first ping".                   *)
FirstPingSent ==
  <>vmm.signalled => <>(pp.pc = "notify" /\ pp.msg = "ping")

(* Once the guest is ready the agent gets one ping after another.           *)
PingsKeepComing ==
  vmm.signalled ~> \E i \in DOMAIN guest.inbox : guest.inbox[i] = "ping"
=============================================================================
