---------------------------- MODULE PingPongDemo ----------------------------
(***************************************************************************)
(* rclc/ping_pong: devices that each run the program and share the topics  *)
(* ping and pong.  A timer publishes a ping with a new sequence number; a  *)
(* device pongs the pings it takes for those of others and counts the      *)
(* pongs it takes for answers to its own latest ping.                      *)
(*                                                                         *)
(* The topics are external: a published message goes to every subscriber,  *)
(* the publisher's own included, and may be late or, the subscribers being *)
(* best effort, lost: as nothing makes a step happen, a message that is    *)
(* never received stands for a lost one and for a failed publication.      *)
(***************************************************************************)
EXTENDS Integers, FiniteSets

CONSTANTS
  Devices,
  MaxPings,   \* bound on the pings of one device
  MaxLate,    \* bound on the messages still on their way when a ping is sent
  Boards      \* kinds of board, with their C libraries

VARIABLES
  board,      \* what each device is; nobody changes it
  seqNo,      \* which of its pings a device sent last; 0 before the first
  pongCount,
  pings,      \* copies of pings on their way
  pongs       \* copies of pongs on their way

vars == << board, seqNo, pongCount, pings, pongs >>

Ping == [from : Devices, no : Nat \ {0}]

\* The string "%d_%d" of seq_no and device_id, both drawn by rand().  Nobody seeds
\* it, so boards of one kind draw the same numbers; those of others differ.
FrameId(p) == << p.no, board[p.from] >>

(* Definitions named Bug... are not part of the specification: see          *)
(* SpscQueue.                                                               *)

\* no device id in the frame id
BugIsMine(d, p) == seqNo[d] = p.no

\* The ping in outcoming_ping; before the first one, what the buffer on the
\* stack held, which is no ping.
IsMine(d, p) == seqNo[d] > 0 /\ FrameId(p) = FrameId([from |-> d, no |-> seqNo[d]])

TypeOK ==
  /\ board \in [Devices -> Boards]
  /\ seqNo \in [Devices -> Nat]
  /\ pongCount \in [Devices -> Nat]
  /\ pings \subseteq [ping : Ping, to : Devices]
  /\ pongs \subseteq [ping : Ping, by : Devices, to : Devices]

Init ==
  /\ board \in [Devices -> Boards]
  /\ seqNo = [d \in Devices |-> 0]
  /\ pongCount = [d \in Devices |-> 0]
  /\ pings = {} /\ pongs = {}

\* the old count is kept
BugPingTimer(d) ==
  /\ seqNo[d] < MaxPings /\ Cardinality(pings) + Cardinality(pongs) <= MaxLate
  /\ seqNo' = [seqNo EXCEPT ![d] = @ + 1]
  /\ pings' = pings \cup [ping : {[from |-> d, no |-> seqNo[d] + 1]}, to : Devices]
  /\ UNCHANGED << board, pongCount, pongs >>

\* the number is drawn too late: the ping still carries the last one
BugPingNumber(d) ==
  /\ seqNo[d] < MaxPings /\ Cardinality(pings) + Cardinality(pongs) <= MaxLate
  /\ seqNo' = [seqNo EXCEPT ![d] = @ + 1]
  /\ pongCount' = [pongCount EXCEPT ![d] = 0]
  /\ pings' = pings \cup [ping : {[from |-> d, no |-> seqNo[d]]}, to : Devices]
  /\ UNCHANGED << board, pongs >>

\* ping_timer_callback
PingTimer(d) ==
  /\ seqNo[d] < MaxPings /\ Cardinality(pings) + Cardinality(pongs) <= MaxLate
  /\ seqNo' = [seqNo EXCEPT ![d] = @ + 1]
  /\ pongCount' = [pongCount EXCEPT ![d] = 0]
  /\ pings' = pings \cup [ping : {[from |-> d, no |-> seqNo[d] + 1]}, to : Devices]
  /\ UNCHANGED << board, pongs >>

\* ping_subscription_callback
PingReceived(d) ==
  \E m \in pings :
    /\ m.to = d
    /\ pings' = pings \ {m}
    /\ \/ /\ ~IsMine(d, m.ping)
          /\ pongs' = pongs \cup [ping : {m.ping}, by : {d}, to : Devices]
       \/ /\ IsMine(d, m.ping)
          /\ UNCHANGED pongs
    /\ UNCHANGED << board, seqNo, pongCount >>

\* pong_subscription_callback
PongReceived(d) ==
  \E m \in pongs :
    /\ m.to = d
    /\ pongs' = pongs \ {m}
    /\ pongCount' = [pongCount EXCEPT ![d] = IF IsMine(d, m.ping) THEN @ + 1 ELSE @]
    /\ UNCHANGED << board, seqNo, pings >>

Next == \E d \in Devices : PingTimer(d) \/ PingReceived(d) \/ PongReceived(d)

Spec == Init /\ [][Next]_vars
-----------------------------------------------------------------------------
(* Properties. *)

\* The devices whose numbers are not those of d.
OtherBoards(d) == {e \in Devices : board[e] # board[d]}

(* Every device of another kind is accounted for since the last ping: its   *)
(* copy of the ping is on its way, or its pong is, or it is counted,        *)
(* whatever else is late.  Where no two boards are alike, exactly once: so  *)
(* pong_count never exceeds the number of the other devices, and falls      *)
(* short of it only by messages late or lost.  Boards of one kind may count *)
(* the pongs for each other's pings as well.                                *)
PongsAddUp ==
  \A d \in Devices : seqNo[d] > 0 =>
    LET mine  == [from |-> d, no |-> seqNo[d]]
        found == pongCount[d]
                 + Cardinality({m \in pings : m.ping = mine /\ m.to \in OtherBoards(d)})
                 + Cardinality({m \in pongs :
                                  m.ping = mine /\ m.to = d /\ m.by \in OtherBoards(d)})
    IN  /\ found >= Cardinality(OtherBoards(d))
        /\ OtherBoards(d) = Devices \ {d} => found = Cardinality(OtherBoards(d))

Answers(d, p) == \E t \in Devices : [ping |-> p, by |-> d, to |-> t] \in pongs' \ pongs

(* "Dont pong my own pings".                                                *)
NeverPongsOwn ==
  [][\A m \in pongs' \ pongs : m.by # m.ping.from]_vars

(* What arrives from a device of another kind is answered, whatever the two *)
(* have sent: the frame id keeps their numbers apart.                       *)
PongsOtherBoards ==
  [][\A m \in pings \ pings' :
       board[m.to] # board[m.ping.from] => Answers(m.to, m.ping)]_vars

(* "Dont pong my own pings", and no others than those.                      *)
PongsOthers ==
  [][\A m \in pings \ pings' : m.to # m.ping.from => Answers(m.to, m.ping)]_vars
=============================================================================
