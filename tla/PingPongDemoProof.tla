-------------------------- MODULE PingPongDemoProof --------------------------
(***************************************************************************)
(* Proofs about rclc/ping_pong for every set of devices, whatever boards   *)
(* they are, and every number of pings.                                    *)
(***************************************************************************)
EXTENDS PingPongDemo, FiniteSetTheorems, TLAPS

PingCopies == [ping : Ping, to : Devices]
PongCopies == [ping : Ping, by : Devices, to : Devices]

Asked(p, e) == [ping |-> p, to |-> e]
Answer(p, e, t) == [ping |-> p, by |-> e, to |-> t]

\* The latest ping of a device that has sent one.
Mine(d) == [from |-> d, no |-> seqNo[d]]

\* No message is from the future; a device is yet to answer the ping it is asked,
\* and of its own pings it has answered old ones at most.
MessagesInv ==
  /\ \A m \in pings : m.ping.no <= seqNo[m.ping.from]
  /\ \A m \in pongs : m.ping.no <= seqNo[m.ping.from]
  /\ \A m \in pings, t \in Devices : Answer(m.ping, m.to, t) \notin pongs
  /\ \A m \in pongs : m.by = m.ping.from => m.ping.no < seqNo[m.ping.from]

\* The boards of other kinds that are yet to answer d's ping, and those whose pong
\* is on its way.
ToAnswer(d) == {m \in pings : m.ping = Mine(d) /\ m.to \in OtherBoards(d)}
ToCount(d)  == {m \in pongs : m.ping = Mine(d) /\ m.to = d /\ m.by \in OtherBoards(d)}

\* No other device is of d's kind.
Alone(d) == OtherBoards(d) = Devices \ {d}

AddsUp(d) ==
  seqNo[d] > 0 =>
    LET found == pongCount[d] + Cardinality(ToAnswer(d)) + Cardinality(ToCount(d))
    IN  /\ found >= Cardinality(OtherBoards(d))
        /\ Alone(d) => found = Cardinality(OtherBoards(d))

IInv == TypeOK /\ MessagesInv /\ \A d \in Devices : AddsUp(d)
-----------------------------------------------------------------------------
\* A device knows its latest ping, and takes for it no other of a board that is not
\* of its kind; if it is alone of its kind, none at all.
LEMMA MineIsMine ==
  ASSUME NEW d \in Devices, NEW p \in Ping
  PROVE  /\ seqNo[d] > 0 /\ p = Mine(d) => IsMine(d, p)
         /\ IsMine(d, p) => seqNo[d] > 0 /\ p.no = seqNo[d] /\ board[p.from] = board[d]
         /\ IsMine(d, p) /\ Alone(d) => p = Mine(d)
<1>1. IsMine(d, p) <=> seqNo[d] > 0 /\ p.no = seqNo[d] /\ board[p.from] = board[d]
  BY DEF IsMine, FrameId
<1>2. p \in [from : Devices, no : Nat \ {0}]
  BY DEF Ping
<1>3. p = Mine(d) => p.no = seqNo[d] /\ p.from = d
  BY DEF Mine
<1>4. p.no = seqNo[d] /\ p.from = d => p = Mine(d)
  BY <1>2 DEF Mine
<1>5. board[p.from] = board[d] /\ Alone(d) => p.from = d
  BY <1>2 DEF Alone, OtherBoards
<1> QED
  BY <1>1, <1>3, <1>4, <1>5

\* The copies of one ping, and of one device's pong.
LEMMA CopiesAre ==
  ASSUME NEW p, NEW e
  PROVE  /\ [ping : {p}, to : Devices] = {Asked(p, t) : t \in Devices}
         /\ [ping : {p}, by : {e}, to : Devices] = {Answer(p, e, t) : t \in Devices}
<1>1. ASSUME NEW m \in [ping : {p}, to : Devices] PROVE m \in {Asked(p, t) : t \in Devices}
  <2>1. m.to \in Devices /\ m = Asked(p, m.to)
    BY <1>1 DEF Asked
  <2> QED
    BY <2>1
<1>2. ASSUME NEW t \in Devices PROVE Asked(p, t) \in [ping : {p}, to : Devices]
  BY DEF Asked
<1>3. ASSUME NEW m \in [ping : {p}, by : {e}, to : Devices]
      PROVE  m \in {Answer(p, e, t) : t \in Devices}
  <2>1. m.to \in Devices /\ m = Answer(p, e, m.to)
    BY <1>3 DEF Answer
  <2> QED
    BY <2>1
<1>4. ASSUME NEW t \in Devices PROVE Answer(p, e, t) \in [ping : {p}, by : {e}, to : Devices]
  BY DEF Answer
<1> HIDE DEF Asked, Answer
<1>5. [ping : {p}, to : Devices] = {Asked(p, t) : t \in Devices}
  BY <1>1, <1>2
<1>6. [ping : {p}, by : {e}, to : Devices] = {Answer(p, e, t) : t \in Devices}
  BY <1>3, <1>4
<1> QED
  BY <1>5, <1>6

\* A timer step of one device, message by message.
LEMMA PingTimerEffect ==
  ASSUME TypeOK, NEW d \in Devices, PingTimer(d)
  PROVE  /\ seqNo[d] + 1 \in Nat \ {0}
         /\ [from |-> d, no |-> seqNo[d] + 1] \in Ping
         /\ \A x \in Devices : seqNo'[x] = IF x = d THEN seqNo[d] + 1 ELSE seqNo[x]
         /\ \A x \in Devices : pongCount'[x] = IF x = d THEN 0 ELSE pongCount[x]
         /\ pings' = pings \cup {Asked([from |-> d, no |-> seqNo[d] + 1], t) : t \in Devices}
         /\ pongs' = pongs /\ board' = board
<1>1. seqNo[d] \in Nat
  BY DEF TypeOK
<1>2. seqNo[d] + 1 \in Nat \ {0}
  BY <1>1
<1>3. [from |-> d, no |-> seqNo[d] + 1] \in Ping
  BY <1>2 DEF Ping
<1>4. /\ pings' = pings \cup [ping : {[from |-> d, no |-> seqNo[d] + 1]}, to : Devices]
      /\ pongs' = pongs /\ board' = board
      /\ \A x \in Devices : seqNo'[x] = IF x = d THEN seqNo[d] + 1 ELSE seqNo[x]
      /\ \A x \in Devices : pongCount'[x] = IF x = d THEN 0 ELSE pongCount[x]
  BY DEF TypeOK, PingTimer
<1> QED
  BY <1>2, <1>3, <1>4, CopiesAre

\* The types hold initially and after every step.
LEMMA TypesKeptByStep == TypeOK /\ [Next]_vars => TypeOK'
<1> SUFFICES ASSUME TypeOK, [Next]_vars PROVE TypeOK'
  OBVIOUS
<1>1. ASSUME NEW d \in Devices, PingTimer(d) PROVE TypeOK'
  <2> DEFINE p == [from |-> d, no |-> seqNo[d] + 1]
  <2>1. \A t \in Devices : Asked(p, t) \in PingCopies
    BY <1>1, PingTimerEffect DEF Asked, PingCopies
  <2>2. pings' \subseteq PingCopies /\ pongs' \subseteq PongCopies
    BY <1>1, <2>1, PingTimerEffect DEF TypeOK, PingCopies, PongCopies
  <2>3. seqNo' \in [Devices -> Nat]
    <3>1. seqNo[d] + 1 \in Nat
      BY <1>1, PingTimerEffect
    <3> QED
      BY <1>1, <3>1 DEF TypeOK, PingTimer
  <2>4. pongCount' \in [Devices -> Nat]
    BY <1>1 DEF TypeOK, PingTimer
  <2> QED
    BY <1>1, <2>2, <2>3, <2>4, PingTimerEffect DEF TypeOK, PingCopies, PongCopies
<1>2. ASSUME NEW d \in Devices, PingReceived(d) PROVE TypeOK'
  <2>1. PICK m \in pings : /\ pings' = pings \ {m}
                           /\ \/ pongs' = pongs \cup [ping : {m.ping}, by : {d}, to : Devices]
                              \/ UNCHANGED pongs
                           /\ UNCHANGED << board, seqNo, pongCount >>
    BY <1>2 DEF PingReceived
  <2>2. m.ping \in Ping
    BY DEF TypeOK
  <2>3. [ping : {m.ping}, by : {d}, to : Devices] \subseteq PongCopies
    BY <2>2 DEF PongCopies
  <2> QED
    BY <2>1, <2>3 DEF TypeOK, PongCopies
<1>3. ASSUME NEW d \in Devices, PongReceived(d) PROVE TypeOK'
  BY <1>3 DEF TypeOK, PongReceived
<1>4. CASE UNCHANGED vars
  BY <1>4 DEF TypeOK, vars
<1> QED
  BY <1>1, <1>2, <1>3, <1>4 DEF Next

\* pings and pongs stay what the callbacks can read, and the numbers in range
\* (TypeOK).
THEOREM DemoTypes == Spec => []TypeOK
<1>1. Init => TypeOK
  BY DEF Init, TypeOK
<1> QED
  BY <1>1, TypesKeptByStep, PTL DEF Spec
-----------------------------------------------------------------------------
\* What a device does with a ping.
LEMMA PingReceivedEffect ==
  ASSUME TypeOK, NEW d \in Devices, PingReceived(d)
  PROVE  \E m \in pings :
           /\ m.ping \in Ping /\ m.to = d /\ m = Asked(m.ping, d)
           /\ pings' = pings \ {m} /\ UNCHANGED << board, seqNo, pongCount >>
           /\ \/ /\ ~IsMine(d, m.ping)
                 /\ pongs' = pongs \cup {Answer(m.ping, d, t) : t \in Devices}
              \/ IsMine(d, m.ping) /\ pongs' = pongs
<1>1. PICK m \in pings :
         /\ m.to = d
         /\ pings' = pings \ {m} /\ UNCHANGED << board, seqNo, pongCount >>
         /\ \/ /\ ~IsMine(d, m.ping)
               /\ pongs' = pongs \cup [ping : {m.ping}, by : {d}, to : Devices]
            \/ IsMine(d, m.ping) /\ pongs' = pongs
  BY DEF PingReceived
<1>2. m \in [ping : Ping, to : Devices]
  BY DEF TypeOK
<1>3. m.ping \in Ping /\ m = Asked(m.ping, d)
  BY <1>1, <1>2 DEF Asked
<1>4. [ping : {m.ping}, by : {d}, to : Devices] = {Answer(m.ping, d, t) : t \in Devices}
  BY CopiesAre
<1>5. \/ ~IsMine(d, m.ping) /\ pongs' = pongs \cup {Answer(m.ping, d, t) : t \in Devices}
      \/ IsMine(d, m.ping) /\ pongs' = pongs
  BY <1>1, <1>4
<1> QED
  BY <1>1, <1>3, <1>5

\* Records of the messages tell them apart.
LEMMA MessageFields ==
  ASSUME NEW p, NEW e, NEW t
  PROVE  /\ Asked(p, t).ping = p /\ Asked(p, t).to = t
         /\ Answer(p, e, t).ping = p /\ Answer(p, e, t).by = e /\ Answer(p, e, t).to = t
BY DEF Asked, Answer

\* A new ping is the first with its number, so nothing said about older messages
\* is lost.
LEMMA PingTimerMessages ==
  ASSUME TypeOK, MessagesInv, NEW d \in Devices, PingTimer(d)
  PROVE  MessagesInv'
<1> DEFINE p == [from |-> d, no |-> seqNo[d] + 1]
<1>1. seqNo \in [Devices -> Nat]
  BY DEF TypeOK
<1>2. \A x \in Devices : seqNo[x] \in Nat /\ seqNo'[x] \in Nat /\ seqNo[x] <= seqNo'[x]
  <2>1. \A x \in Devices : seqNo[x] \in Nat
    BY <1>1
  <2>2. \A x \in Devices : seqNo'[x] = IF x = d THEN seqNo[d] + 1 ELSE seqNo[x]
    BY PingTimerEffect
  <2> QED
    BY <2>1, <2>2
<1>3. p \in Ping /\ p.no = seqNo[d] + 1 /\ p.from = d /\ seqNo'[d] = seqNo[d] + 1
      /\ pings' = pings \cup {Asked(p, t) : t \in Devices} /\ pongs' = pongs
  BY PingTimerEffect
<1>4. \A x \in Ping : x.from \in Devices /\ x.no \in Nat
  BY <1>1 DEF Ping
<1>5. (\A m \in pings : m.ping \in Ping) /\ (\A m \in pongs : m.ping \in Ping)
  BY DEF TypeOK
<1> HIDE DEF p
<1>6. \A m \in pings' : m.ping.no <= seqNo'[m.ping.from]
  <2> SUFFICES ASSUME NEW m \in pings' PROVE m.ping.no <= seqNo'[m.ping.from]
    OBVIOUS
  <2>1. CASE m \in pings
    BY <2>1, <1>2, <1>4, <1>5 DEF MessagesInv
  <2>2. CASE m \notin pings
    <3>1. PICK t \in Devices : m = Asked(p, t)
      BY <2>2, <1>3
    <3>2. m.ping = p
      BY <3>1, MessageFields
    <3> QED
      BY <3>2, <1>2, <1>3
  <2> QED
    BY <2>1, <2>2
<1>7. \A m \in pongs' : m.ping.no <= seqNo'[m.ping.from]
  BY <1>2, <1>3, <1>4, <1>5 DEF MessagesInv
<1>8. \A m \in pings', t \in Devices : Answer(m.ping, m.to, t) \notin pongs'
  <2> SUFFICES ASSUME NEW m \in pings', NEW t \in Devices
               PROVE  Answer(m.ping, m.to, t) \notin pongs
    BY <1>3
  <2>1. CASE m \in pings
    BY <2>1 DEF MessagesInv
  <2>2. CASE m \notin pings
    <3>1. Answer(m.ping, m.to, t).ping = p
      <4>1. PICK u \in Devices : m = Asked(p, u)
        BY <2>2, <1>3
      <4> QED
        BY <4>1, MessageFields
    <3>2. ~(p.no <= seqNo[p.from])
      BY <1>2, <1>3
    <3> QED
      BY <3>1, <3>2 DEF MessagesInv
  <2> QED
    BY <2>1, <2>2
<1>9. \A m \in pongs' : m.by = m.ping.from => m.ping.no < seqNo'[m.ping.from]
  BY <1>2, <1>3, <1>4, <1>5 DEF MessagesInv
<1> QED
  BY <1>6, <1>7, <1>8, <1>9 DEF MessagesInv

\* A device pongs once what it is asked once, and of its own only what is old.
LEMMA PingReceivedMessages ==
  ASSUME TypeOK, MessagesInv, NEW d \in Devices, PingReceived(d)
  PROVE  MessagesInv'
<1>1. PICK m \in pings :
         /\ m.ping \in Ping /\ m.to = d /\ m = Asked(m.ping, d)
         /\ pings' = pings \ {m} /\ UNCHANGED << board, seqNo, pongCount >>
         /\ \/ /\ ~IsMine(d, m.ping)
               /\ pongs' = pongs \cup {Answer(m.ping, d, t) : t \in Devices}
            \/ IsMine(d, m.ping) /\ pongs' = pongs
  BY PingReceivedEffect
<1>2. CASE pongs' = pongs
  BY <1>1, <1>2 DEF MessagesInv
<1>3. CASE ~IsMine(d, m.ping) /\ pongs' = pongs \cup {Answer(m.ping, d, t) : t \in Devices}
  <2>1. \A x \in pongs' : x \in pongs \/ (x.ping = m.ping /\ x.by = d)
    BY <1>3, MessageFields
  <2>2. \A x \in pings' : x.ping.no <= seqNo'[x.ping.from]
    BY <1>1 DEF MessagesInv
  <2>3. \A x \in pongs' : x.ping.no <= seqNo'[x.ping.from]
    BY <1>1, <2>1 DEF MessagesInv
  <2>4. ASSUME NEW x \in pings', NEW t \in Devices PROVE Answer(x.ping, x.to, t) \notin pongs'
    <3>1. x \in pings /\ x # m
      BY <1>1
    <3>2. x = Asked(x.ping, x.to)
      BY <3>1 DEF TypeOK, Asked
    <3>3. ~(x.ping = m.ping /\ x.to = d)
      BY <1>1, <3>1, <3>2
    <3> QED
      BY <2>1, <3>1, <3>3, MessageFields DEF MessagesInv
  <2>5. ASSUME m.ping.from = d PROVE m.ping.no < seqNo[d]
    <3>1. m.ping.no \in Nat \ {0} /\ seqNo[d] \in Nat
      BY <1>1 DEF Ping, TypeOK
    <3>2. m.ping.no <= seqNo[d]
      BY <2>5 DEF MessagesInv
    <3>3. m.ping.no = seqNo[d] => m.ping = Mine(d)
      BY <1>1, <2>5 DEF Mine, Ping
    <3>4. m.ping # Mine(d)
      BY <1>1, <1>3, <3>1, <3>2, MineIsMine
    <3>5. m.ping.no # seqNo[d]
      BY <3>3, <3>4
    <3> QED
      BY <3>1, <3>2, <3>5
  <2>6. \A x \in pongs' : x.by = x.ping.from => x.ping.no < seqNo'[x.ping.from]
    BY <1>1, <2>1, <2>5 DEF MessagesInv
  <2> QED
    BY <2>2, <2>3, <2>4, <2>6 DEF MessagesInv
<1> QED
  BY <1>1, <1>2, <1>3

\* What is known of messages survives every step.
LEMMA MessagesKept == TypeOK /\ MessagesInv /\ [Next]_vars => MessagesInv'
<1> SUFFICES ASSUME TypeOK, MessagesInv, [Next]_vars PROVE MessagesInv'
  OBVIOUS
<1>1. ASSUME NEW d \in Devices, PongReceived(d) PROVE MessagesInv'
  BY <1>1 DEF PongReceived, MessagesInv
<1>2. CASE UNCHANGED vars
  BY <1>2 DEF MessagesInv, vars
<1> QED
  BY <1>1, <1>2, PingTimerMessages, PingReceivedMessages DEF Next

\* Nothing is known of messages at first.
LEMMA NothingSent == Init => TypeOK /\ MessagesInv
BY DEF Init, TypeOK, MessagesInv

\* A ping that goes, from a board of another kind, has been answered.
LEMMA PongsOthersByStep ==
  TypeOK /\ MessagesInv /\ Next =>
    \A m \in pings \ pings' : board[m.to] # board[m.ping.from] => Answers(m.to, m.ping)
<1> SUFFICES ASSUME TypeOK, MessagesInv, Next,
                    NEW x \in pings \ pings', board[x.to] # board[x.ping.from]
             PROVE  Answers(x.to, x.ping)
  OBVIOUS
<1>1. ASSUME NEW d \in Devices, PingReceived(d) PROVE Answers(x.to, x.ping)
  <2>1. PICK m \in pings :
           /\ m.ping \in Ping /\ m.to = d
           /\ pings' = pings \ {m}
           /\ ~IsMine(d, m.ping) => pongs' = pongs \cup {Answer(m.ping, d, t) : t \in Devices}
    BY <1>1, PingReceivedEffect
  <2>2. x = m
    BY <2>1
  <2>3. ~IsMine(d, x.ping)
    BY <2>1, <2>2, MineIsMine
  <2>4. Answer(x.ping, d, d) \in pongs' \ pongs
    BY <2>1, <2>2, <2>3 DEF MessagesInv
  <2> QED
    BY <2>1, <2>2, <2>4 DEF Answers, Answer
<1>2. ASSUME NEW d \in Devices, PingTimer(d) PROVE FALSE
  BY <1>2 DEF PingTimer
<1>3. ASSUME NEW d \in Devices, PongReceived(d) PROVE FALSE
  BY <1>3 DEF PongReceived
<1> QED
  BY <1>1, <1>2, <1>3 DEF Next

\* A device answers every ping of a board of another kind as it takes it: a pong to
\* each device, none of which it has sent before (PongsOtherBoards).
THEOREM OthersArePonged == Spec => PongsOtherBoards
<1>1. TypeOK /\ MessagesInv /\ [Next]_vars =>
        [\A m \in pings \ pings' :
           board[m.to] # board[m.ping.from] => Answers(m.to, m.ping)]_vars
  BY PongsOthersByStep
<1>2. TypeOK /\ MessagesInv /\ [Next]_vars => TypeOK' /\ MessagesInv'
  BY TypesKeptByStep, MessagesKept
<1> QED
  BY <1>1, <1>2, NothingSent, PTL DEF Spec, PongsOtherBoards
-----------------------------------------------------------------------------
\* There is one copy of a ping for each device of a set.
LEMMA OneCopyEach ==
  ASSUME NEW others, IsFiniteSet(others), NEW p
  PROVE  Cardinality({Asked(p, t) : t \in others}) = Cardinality(others)
<1> DEFINE copies == {Asked(p, t) : t \in others}
           f == [t \in others |-> Asked(p, t)]
<1>1. f \in Surjection(others, copies)
  BY DEF Surjection
<1>2. \A t, u \in others : f[t] = f[u] => t = u
  BY MessageFields
<1>3. f \in Injection(others, copies)
  BY <1>1, <1>2 DEF Surjection, Injection, IsInjective
<1> HIDE DEF copies, f
<1>4. Cardinality(copies) = Cardinality(others)
  BY <1>1, <1>3, FS_Surjection
<1> QED
  BY <1>4 DEF copies

\* The boards of other kinds are finitely many of the devices, d not among them.
LEMMA OthersFacts ==
  ASSUME IsFiniteSet(Devices), NEW d \in Devices
  PROVE  /\ OtherBoards(d) \subseteq Devices \ {d}
         /\ IsFiniteSet(OtherBoards(d)) /\ Cardinality(OtherBoards(d)) \in Nat
<1>1. OtherBoards(d) \subseteq Devices \ {d}
  BY DEF OtherBoards
<1>2. IsFiniteSet(OtherBoards(d))
  BY <1>1, FS_Subset
<1> QED
  BY <1>1, <1>2, FS_CardinalityType

\* What a device waits for is finite.
LEMMA Countable ==
  ASSUME IsFiniteSet(Devices), TypeOK, NEW d \in Devices
  PROVE  /\ IsFiniteSet(ToAnswer(d)) /\ Cardinality(ToAnswer(d)) \in Nat
         /\ IsFiniteSet(ToCount(d)) /\ Cardinality(ToCount(d)) \in Nat
<1> DEFINE asks == {Asked(Mine(d), t) : t \in Devices}
           answers == {Answer(Mine(d), e, d) : e \in Devices}
           f == [t \in Devices |-> Asked(Mine(d), t)]
           h == [e \in Devices |-> Answer(Mine(d), e, d)]
<1>1. f \in Surjection(Devices, asks) /\ h \in Surjection(Devices, answers)
  BY DEF Surjection
<1>2. ToAnswer(d) \in SUBSET asks
  <2> SUFFICES ASSUME NEW m \in ToAnswer(d) PROVE m \in asks
    OBVIOUS
  <2>1. m = Asked(Mine(d), m.to) /\ m.to \in Devices
    BY DEF ToAnswer, TypeOK, Asked
  <2> QED
    BY <2>1
<1>3. ToCount(d) \in SUBSET answers
  <2> SUFFICES ASSUME NEW m \in ToCount(d) PROVE m \in answers
    OBVIOUS
  <2>1. m = Answer(Mine(d), m.by, d) /\ m.by \in Devices
    BY DEF ToCount, TypeOK, Answer
  <2> QED
    BY <2>1
<1> HIDE DEF asks, answers, f, h
<1>4. IsFiniteSet(asks) /\ IsFiniteSet(answers)
  BY <1>1, FS_Surjection
<1> QED
  BY <1>2, <1>3, <1>4, FS_Subset, FS_CardinalityType

\* After a new ping every other board is to answer it, and none has.
LEMMA PingTimerAdds ==
  ASSUME IsFiniteSet(Devices), TypeOK, MessagesInv, NEW d \in Devices, PingTimer(d),
         NEW e \in Devices, AddsUp(e)
  PROVE  AddsUp(e)'
<1> DEFINE p == [from |-> d, no |-> seqNo[d] + 1]
<1>0. OtherBoards(e)' = OtherBoards(e) /\ (Alone(e)' <=> Alone(e))
  BY PingTimerEffect DEF OtherBoards, Alone
<1>1. /\ p \in Ping /\ p.no = seqNo[d] + 1 /\ p.from = d /\ p = Mine(d)'
      /\ seqNo'[d] = seqNo[d] + 1 /\ pongCount'[d] = 0
      /\ d # e => Mine(e)' = Mine(e) /\ seqNo'[e] = seqNo[e] /\ pongCount'[e] = pongCount[e]
      /\ pings' = pings \cup {Asked(p, t) : t \in Devices} /\ pongs' = pongs
  BY PingTimerEffect DEF Mine
<1>2. (\A m \in pings : m.ping # p) /\ (\A m \in pongs : m.ping # p)
  <2>1. seqNo[d] \in Nat
    BY DEF TypeOK
  <2>2. ~(p.no <= seqNo[p.from])
    BY <1>1, <2>1
  <2> QED
    BY <2>2 DEF MessagesInv
<1> HIDE DEF p
<1>3. CASE d = e
  <2>1. ToAnswer(d)' = {Asked(p, t) : t \in OtherBoards(d)}
    <3>1. ASSUME NEW m \in ToAnswer(d)' PROVE m \in {Asked(p, t) : t \in OtherBoards(d)}
      <4>1. m \in pings' /\ m.ping = p /\ m.to \in OtherBoards(d)
        BY <1>0, <1>1, <1>3, <3>1 DEF ToAnswer
      <4>2. PICK t \in Devices : m = Asked(p, t)
        BY <1>1, <1>2, <4>1
      <4>3. t \in OtherBoards(d)
        BY <4>1, <4>2, MessageFields
      <4> QED
        BY <4>2, <4>3
    <3>2. ASSUME NEW t \in OtherBoards(d) PROVE Asked(p, t) \in ToAnswer(d)'
      <4>1. Asked(p, t) \in pings'
        BY <1>1, OthersFacts
      <4>2. Asked(p, t).ping = p /\ Asked(p, t).to = t
        BY MessageFields
      <4>3. OtherBoards(d)' = OtherBoards(d)
        BY <1>0, <1>3
      <4> QED
        BY <1>1, <4>1, <4>2, <4>3 DEF ToAnswer
    <3> QED
      BY <3>1, <3>2
  <2>2. ToCount(d)' = {}
    BY <1>1, <1>2 DEF ToCount
  <2>3. Cardinality(ToAnswer(d)') = Cardinality(OtherBoards(d)) /\ Cardinality(ToCount(d)') = 0
    BY <2>1, <2>2, OneCopyEach, OthersFacts, FS_EmptySet
  <2> QED
    BY <1>0, <1>1, <1>3, <2>3, OthersFacts DEF AddsUp
<1>4. CASE d # e
  <2>1. \A t \in Devices : Asked(p, t).ping # Mine(e)
    <3>1. p # Mine(e)
      BY <1>1, <1>4 DEF Mine
    <3> QED
      BY <3>1, MessageFields
  <2>2. ToAnswer(e)' = ToAnswer(e)
    BY <1>0, <1>1, <1>4, <2>1 DEF ToAnswer
  <2>3. ToCount(e)' = ToCount(e)
    BY <1>0, <1>1, <1>4 DEF ToCount
  <2> QED
    BY <1>0, <1>1, <1>4, <2>2, <2>3 DEF AddsUp
<1> QED
  BY <1>3, <1>4

\* A ping taken of a board of another kind is a pong on its way.
LEMMA PingReceivedAdds ==
  ASSUME IsFiniteSet(Devices), TypeOK, MessagesInv, NEW d \in Devices, PingReceived(d),
         NEW e \in Devices, AddsUp(e)
  PROVE  AddsUp(e)'
<1>1. PICK m \in pings :
         /\ m.ping \in Ping /\ m.to = d /\ m = Asked(m.ping, d)
         /\ pings' = pings \ {m} /\ UNCHANGED << board, seqNo, pongCount >>
         /\ \/ /\ ~IsMine(d, m.ping)
               /\ pongs' = pongs \cup {Answer(m.ping, d, t) : t \in Devices}
            \/ IsMine(d, m.ping) /\ pongs' = pongs
  BY PingReceivedEffect
<1>2. Mine(e)' = Mine(e) /\ OtherBoards(e)' = OtherBoards(e) /\ (Alone(e)' <=> Alone(e))
  BY <1>1 DEF Mine, OtherBoards, Alone
<1> SUFFICES ASSUME seqNo[e] > 0
             PROVE  pongCount[e] + Cardinality(ToAnswer(e)') + Cardinality(ToCount(e)')
                    = pongCount[e] + Cardinality(ToAnswer(e)) + Cardinality(ToCount(e))
  BY <1>1, <1>2 DEF AddsUp
<1>3. \A t \in Devices : /\ Answer(m.ping, d, t).ping = m.ping /\ Answer(m.ping, d, t).to = t
                         /\ Answer(m.ping, d, t).by = d
  BY MessageFields
<1>4. CASE m.ping # Mine(e) \/ d \notin OtherBoards(e)
  <2>1. ToAnswer(e)' = ToAnswer(e)
    BY <1>1, <1>2, <1>4 DEF ToAnswer
  <2>2. ToCount(e)' = ToCount(e)
    BY <1>1, <1>2, <1>3, <1>4 DEF ToCount
  <2> QED
    BY <2>1, <2>2
<1>6. CASE m.ping = Mine(e) /\ d \in OtherBoards(e)
  <2> DEFINE a == Answer(m.ping, d, e)
  <2>1. ~IsMine(d, m.ping)
    BY <1>1, <1>6, MineIsMine DEF Mine, OtherBoards
  <2>2. ToAnswer(e)' = ToAnswer(e) \ {m} /\ m \in ToAnswer(e)
    BY <1>1, <1>2, <1>6 DEF ToAnswer
  <2>3. a \notin pongs /\ a.ping = Mine(e) /\ a.to = e /\ a.by \in OtherBoards(e)
    BY <1>1, <1>6, MessageFields DEF MessagesInv
  <2>4. ToCount(e)' = ToCount(e) \cup {a}
    <3>1. pongs' = pongs \cup {Answer(m.ping, d, t) : t \in Devices}
      BY <1>1, <2>1
    <3>2. \A x \in pongs' : x.to = e => x \in pongs \/ x = a
      BY <3>1, <1>3
    <3>3. a \in pongs'
      BY <3>1
    <3> HIDE DEF a
    <3> QED
      BY <1>2, <2>3, <3>1, <3>2, <3>3 DEF ToCount
  <2>5. a \notin ToCount(e)
    BY <2>3 DEF ToCount
  <2> HIDE DEF a
  <2>6. Cardinality(ToAnswer(e)') = Cardinality(ToAnswer(e)) - 1
    BY <2>2, Countable, FS_RemoveElement
  <2>7. Cardinality(ToCount(e)') = Cardinality(ToCount(e)) + 1
    BY <2>4, <2>5, Countable, FS_AddElement
  <2>8. pongCount[e] \in Nat
    BY DEF TypeOK
  <2> QED
    BY <2>6, <2>7, <2>8, Countable
<1> QED
  BY <1>4, <1>6

\* A pong taken for the latest ping is counted; where no board is alike, no other is.
LEMMA PongReceivedAdds ==
  ASSUME IsFiniteSet(Devices), TypeOK, MessagesInv, NEW d \in Devices, PongReceived(d),
         NEW e \in Devices, AddsUp(e)
  PROVE  AddsUp(e)'
<1>1. PICK m \in pongs :
         /\ m.to = d /\ pongs' = pongs \ {m}
         /\ pongCount' = [pongCount EXCEPT ![d] = IF IsMine(d, m.ping) THEN @ + 1 ELSE @]
         /\ UNCHANGED << board, seqNo, pings >>
  BY DEF PongReceived
<1>2. m.ping \in Ping /\ m.by \in Devices /\ pongCount[e] \in Nat
  BY DEF TypeOK
<1>3. /\ Mine(e)' = Mine(e) /\ ToAnswer(e)' = ToAnswer(e)
      /\ OtherBoards(e)' = OtherBoards(e) /\ (Alone(e)' <=> Alone(e))
  BY <1>1 DEF Mine, ToAnswer, OtherBoards, Alone
<1> SUFFICES ASSUME seqNo[e] > 0
             PROVE  LET now  == pongCount'[e] + Cardinality(ToAnswer(e)) + Cardinality(ToCount(e)')
                        then == pongCount[e] + Cardinality(ToAnswer(e)) + Cardinality(ToCount(e))
                    IN  now >= then /\ (Alone(e) => now = then)
  <2>1. Cardinality(ToAnswer(e)) \in Nat /\ Cardinality(ToCount(e)) \in Nat
    BY Countable
  <2>2. Cardinality(OtherBoards(e)) \in Nat
    BY OthersFacts
  <2>3. TypeOK'
    BY TypesKeptByStep DEF Next
  <2>4. Cardinality(ToCount(e)') \in Nat /\ pongCount'[e] \in Nat
    <3>1. ToCount(e)' \subseteq ToCount(e)
      BY <1>1, <1>3 DEF ToCount
    <3>2. Cardinality(ToCount(e)') \in Nat
      BY <3>1, Countable, FS_Subset, FS_CardinalityType
    <3> QED
      BY <2>3, <3>2 DEF TypeOK
  <2> QED
    BY <1>1, <1>2, <1>3, <2>1, <2>2, <2>4 DEF AddsUp
<1>4. ToCount(e)' = ToCount(e) \ {m}
  BY <1>1, <1>3 DEF ToCount
<1>5. CASE m \in ToCount(e)
  <2>1. d = e /\ IsMine(d, m.ping)
    BY <1>1, <1>2, <1>5, MineIsMine DEF ToCount
  <2>2. Cardinality(ToCount(e)') = Cardinality(ToCount(e)) - 1
    BY <1>4, <1>5, Countable, FS_RemoveElement
  <2>3. pongCount'[e] = pongCount[e] + 1
    BY <1>1, <2>1 DEF TypeOK
  <2> QED
    BY <1>2, <2>2, <2>3, Countable
<1>6. CASE m \notin ToCount(e)
  <2>1. ToCount(e)' = ToCount(e)
    BY <1>4, <1>6
  <2>2. pongCount'[e] = pongCount[e] \/ pongCount'[e] = pongCount[e] + 1
    BY <1>1 DEF TypeOK
  <2>3. ASSUME Alone(e) PROVE ~(d = e /\ IsMine(d, m.ping))
    <3>1. SUFFICES ASSUME d = e, IsMine(d, m.ping) PROVE FALSE
      OBVIOUS
    <3>2. m.ping = Mine(e)
      BY <1>2, <2>3, <3>1, MineIsMine
    <3>3. m.by # e
      <4>1. seqNo[e] \in Nat
        BY DEF TypeOK
      <4> QED
        BY <3>2, <4>1 DEF MessagesInv, Mine
    <3> QED
      BY <1>1, <1>2, <1>6, <2>3, <3>1, <3>2, <3>3 DEF ToCount, Alone
  <2>4. Alone(e) => pongCount'[e] = pongCount[e]
    BY <1>1, <2>3 DEF TypeOK
  <2> QED
    BY <1>2, <2>1, <2>2, <2>4, Countable
<1> QED
  BY <1>5, <1>6

\* The sum survives every step.
LEMMA SumKept == IsFiniteSet(Devices) /\ IInv /\ [Next]_vars => IInv'
<1> SUFFICES ASSUME IsFiniteSet(Devices), IInv, [Next]_vars PROVE IInv'
  OBVIOUS
<1>1. TypeOK' /\ MessagesInv'
  BY TypesKeptByStep, MessagesKept DEF IInv
<1>2. ASSUME NEW e \in Devices PROVE AddsUp(e)'
  <2>1. CASE UNCHANGED vars
    BY <2>1 DEF IInv, AddsUp, ToAnswer, ToCount, Mine, Alone, OtherBoards, vars
  <2>2. ASSUME NEW d \in Devices, PingTimer(d) \/ PingReceived(d) \/ PongReceived(d)
        PROVE  AddsUp(e)'
    BY <1>2, <2>2, PingTimerAdds, PingReceivedAdds, PongReceivedAdds DEF IInv
  <2> QED
    BY <2>1, <2>2 DEF Next
<1> QED
  BY <1>1, <1>2 DEF IInv

\* Before the first ping there is nothing to add up.
LEMMA NothingToAddUp == Init => IInv
BY DEF Init, IInv, TypeOK, MessagesInv, AddsUp

\* The invariant is more than the property.
LEMMA SumsAddUp == IInv => PongsAddUp
BY DEF IInv, AddsUp, PongsAddUp, ToAnswer, ToCount, Mine, Alone

\* Since its last ping every board of another kind is accounted for, asked,
\* answering or counted, and exactly once if no two are of one kind (PongsAddUp).
THEOREM PongsAlwaysAddUp == ASSUME IsFiniteSet(Devices) PROVE Spec => []PongsAddUp
<1>1. IInv /\ [Next]_vars => IInv'
  BY SumKept
<1> QED
  BY <1>1, NothingToAddUp, SumsAddUp, PTL DEF Spec
=============================================================================
