--------------------------- MODULE FibonacciProof ---------------------------
(***************************************************************************)
(* Proofs about the Fibonacci action server and its clients for every set  *)
(* of goals, orders and handles.                                           *)
(***************************************************************************)
EXTENDS FibonacciAction, Arithmetic

\* The worker of the goal may still follow its handle.
Holds(g) == worker[g].pc \notin {"none", "free", "exited"}
Ended(g) == worker[g].pc \in {"free", "exited"}

\* What a worker has computed when it is where it is.
Computed(g) ==
  /\ worker[g].pc \in {"send", "free", "exited"} <=> worker[g].state # NoGoal
  /\ worker[g].pc \in {"loop", "body", "decide"} =>
       2 <= Len(worker[g].data) /\ Len(worker[g].data) <= order[g]
  /\ worker[g].pc = "body" => Len(worker[g].data) < order[g]
  /\ worker[g].pc = "decide" => Len(worker[g].data) = order[g] \/ Cancelled(g)
  /\ worker[g].state = "succeeded" => Len(worker[g].data) = order[g]
  /\ worker[g].pc = "send" /\ worker[g].state = "canceled" => Cancelled(g)

WorkerInv == \A g \in Goals : Computed(g)

(* Handles and the workers that use them belong to one another. *)
HandleInv ==
  /\ \A g \in Goals : Holds(g) => handle[worker[g].h].goal = g
  /\ \A h \in Handles : handle[h].goal # NoGoal =>
       /\ handle[h].goal \in Goals
       /\ Holds(handle[h].goal) /\ worker[handle[h].goal].h = h

(* Where a goal is by the messages about it. *)
GoalInv(g) ==
  /\ client[g].pc \in {"init", "send"} =>
       /\ worker[g].pc = "none" /\ ~client[g].completed
       /\ Request("goal", g) \notin net /\ Request("rejected", g) \notin net
  /\ Request("goal", g) \in net =>
       /\ worker[g].pc = "none" /\ ~client[g].completed
       /\ client[g].pc = "loop" /\ Request("rejected", g) \notin net
  /\ Request("rejected", g) \in net => Rejected(g) /\ worker[g].pc = "none"
  /\ Request("accepted", g) \in net => worker[g].pc # "none"
  /\ Request("getResult", g) \in net => worker[g].pc # "none"
  /\ client[g].completed => (Rejected(g) /\ worker[g].pc = "none") \/ Ended(g)

MessageInv ==
  /\ server.pc = "respond" => server.goal \in Goals /\ worker[server.goal].pc # "none"
  /\ \A m \in net : m.kind = "result" => m.goal \in Goals /\ Ended(m.goal)
  /\ \A g \in Goals : GoalInv(g)

IInv == TypeOK /\ WorkerInv /\ HandleInv /\ MessageInv
-----------------------------------------------------------------------------
\* The lists of workers are lists of integers, of natural lengths.
LEMMA WorkerFacts ==
  ASSUME IInv, NEW g \in Goals
  PROVE  /\ worker[g].data \in Seq(Int) /\ Len(worker[g].data) \in Nat
         /\ order[g] \in Int
         /\ Holds(g) => worker[g].h \in Handles /\ WorkerOrder(g) = order[g]
<1>1. worker[g] \in Workers /\ order[g] \in Orders
  BY DEF IInv, TypeOK
<1>2. worker[g].data \in Seq(Int) /\ worker[g].h \in Handles
  BY <1>1 DEF Workers
<1>3. Holds(g) => handle[worker[g].h].goal = g
  BY DEF IInv, HandleInv
<1>4. Len(worker[g].data) \in Nat
  BY <1>2
<1>5. order[g] \in Int
  BY <1>1, FibonacciAssumption
<1>6. Holds(g) => WorkerOrder(g) = order[g]
  BY <1>3 DEF WorkerOrder
<1> QED
  BY <1>2, <1>4, <1>5, <1>6

\* What WorkerDecide changes.
LEMMA WorkerDecideEffect ==
  ASSUME TypeOK, NEW g \in Goals, WorkerDecide(g)
  PROVE  /\ worker[g].pc = "decide"
         /\ UNCHANGED << order, server, handle, client, net >>
         /\ worker' \in [Goals -> Workers]
         /\ \A x \in Goals :
              /\ worker'[x].pc = IF x = g THEN "send" ELSE worker[x].pc
              /\ worker'[x].h = worker[x].h
              /\ worker'[x].state = IF x = g
                                    THEN (IF Cancelled(g) THEN "canceled" ELSE "succeeded")
                                    ELSE worker[x].state
              /\ worker'[x].data = worker[x].data
<1> DEFINE r == [worker[g] EXCEPT !.pc = "send",
                       !.state = IF Cancelled(g) THEN "canceled" ELSE "succeeded"]
<1>1. worker \in [Goals -> Workers] /\ worker[g] \in Workers
  BY DEF TypeOK
<1>2. worker' = [worker EXCEPT ![g] = r]
  BY <1>1 DEF WorkerDecide
<1>3. r \in Workers
  BY <1>1 DEF Workers, States
<1>4. /\ r.pc = "send"
      /\ r.h = worker[g].h
      /\ r.state = (IF Cancelled(g) THEN "canceled" ELSE "succeeded")
      /\ r.data = worker[g].data
  BY <1>1 DEF Workers
<1>5. worker' \in [Goals -> Workers] /\ \A x \in Goals : worker'[x] = IF x = g THEN r ELSE worker[x]
  BY <1>1, <1>2, <1>3
<1> QED
  BY <1>4, <1>5 DEF WorkerDecide

\* WorkerDecide preserves the invariant.
LEMMA WorkerDecideKeeps ==
  ASSUME IInv, NEW g \in Goals, WorkerDecide(g)
  PROVE  IInv'
<1> USE DEF IInv
<1>1. TypeOK'
  BY WorkerDecideEffect DEF TypeOK
<1>2. WorkerInv'
  <2> SUFFICES ASSUME NEW x \in Goals PROVE Computed(x)'
    BY DEF WorkerInv
  <2> QED
    BY WorkerDecideEffect DEF WorkerInv, Computed, Cancelled, NoGoal
<1>3. HandleInv'
  BY WorkerDecideEffect DEF HandleInv, Holds
<1>4. MessageInv'
  BY WorkerDecideEffect DEF MessageInv, GoalInv, Ended, Rejected, Request
<1> QED
  BY <1>1, <1>2, <1>3, <1>4

\* What WorkerLoop changes.
LEMMA WorkerLoopEffect ==
  ASSUME TypeOK, NEW g \in Goals, WorkerLoop(g)
  PROVE  /\ worker[g].pc = "loop"
         /\ UNCHANGED << order, server, handle, client, net >>
         /\ worker' \in [Goals -> Workers]
         /\ \A x \in Goals :
              /\ worker'[x].pc = IF x = g
                                 THEN (IF Len(worker[g].data) < WorkerOrder(g) /\ ~Cancelled(g) THEN "body" ELSE "decide")
                                 ELSE worker[x].pc
              /\ worker'[x].h = worker[x].h
              /\ worker'[x].state = worker[x].state
              /\ worker'[x].data = worker[x].data
<1> DEFINE r == [worker[g] EXCEPT !.pc =
                   IF Len(worker[g].data) < WorkerOrder(g) /\ ~Cancelled(g) THEN "body" ELSE "decide"]
<1>1. worker \in [Goals -> Workers] /\ worker[g] \in Workers
  BY DEF TypeOK
<1>2. worker' = [worker EXCEPT ![g] = r]
  BY <1>1 DEF WorkerLoop
<1>3. r \in Workers
  BY <1>1 DEF Workers, States
<1>4. /\ r.pc = (IF Len(worker[g].data) < WorkerOrder(g) /\ ~Cancelled(g) THEN "body" ELSE "decide")
      /\ r.h = worker[g].h
      /\ r.state = worker[g].state
      /\ r.data = worker[g].data
  BY <1>1 DEF Workers
<1>5. worker' \in [Goals -> Workers] /\ \A x \in Goals : worker'[x] = IF x = g THEN r ELSE worker[x]
  BY <1>1, <1>2, <1>3
<1> QED
  BY <1>4, <1>5 DEF WorkerLoop

\* WorkerLoop preserves the invariant.
LEMMA WorkerLoopKeeps ==
  ASSUME IInv, NEW g \in Goals, WorkerLoop(g)
  PROVE  IInv'
<1> USE DEF IInv
<1>1. TypeOK'
  BY WorkerLoopEffect, WorkerFacts DEF TypeOK
<1>2. WorkerInv'
  <2> SUFFICES ASSUME NEW x \in Goals PROVE Computed(x)'
    BY DEF WorkerInv
  <2>1. CASE x = g
    <3>1. /\ worker[g].pc = "loop" /\ Computed(g)
          /\ worker'[g].pc = (IF Len(worker[g].data) < order[g] /\ ~Cancelled(g)
                              THEN "body" ELSE "decide")
      BY WorkerLoopEffect, WorkerFacts DEF WorkerInv, Holds
    <3>2. /\ worker'[g].state = worker[g].state /\ worker'[g].data = worker[g].data
          /\ order' = order /\ (Cancelled(g)' <=> Cancelled(g))
      BY WorkerLoopEffect DEF Cancelled
    <3> QED
      BY <2>1, <3>1, <3>2, WorkerFacts DEF Computed, NoGoal
  <2>2. CASE x # g
    BY <2>2, WorkerLoopEffect DEF WorkerInv, Computed, Cancelled
  <2> QED
    BY <2>1, <2>2
<1>3. HandleInv'
  BY WorkerLoopEffect, WorkerFacts DEF HandleInv, Holds
<1>4. MessageInv'
  BY WorkerLoopEffect, WorkerFacts DEF MessageInv, GoalInv, Ended, Rejected, Request
<1> QED
  BY <1>1, <1>2, <1>3, <1>4

\* What WorkerStart changes.
LEMMA WorkerStartEffect ==
  ASSUME TypeOK, NEW g \in Goals, WorkerStart(g)
  PROVE  /\ worker[g].pc = "start"
         /\ server' \in Processes /\ (server' = server \/ server'.pc = "crashed")
         /\ UNCHANGED << order, handle, client, net >>
         /\ worker' \in [Goals -> Workers]
         /\ \A x \in Goals :
              /\ worker'[x].pc = IF x = g
                                 THEN (IF WorkerOrder(g) < 2 THEN "send" ELSE "loop")
                                 ELSE worker[x].pc
              /\ worker'[x].h = worker[x].h
              /\ worker'[x].state = IF x = g
                                    THEN (IF WorkerOrder(g) < 2 THEN "aborted" ELSE worker[g].state)
                                    ELSE worker[x].state
              /\ worker'[x].data = IF x = g
                                   THEN (IF WorkerOrder(g) < 2 THEN worker[g].data ELSE << 0, 1 >>)
                                   ELSE worker[x].data
<1>0. << 0, 1 >> \in Seq(Int)
  OBVIOUS
<1> DEFINE r == IF WorkerOrder(g) < 2
                   THEN [worker[g] EXCEPT !.pc = "send", !.state = "aborted"]
                   ELSE [worker[g] EXCEPT !.pc = "loop", !.data = << 0, 1 >>]
<1>1. worker \in [Goals -> Workers] /\ worker[g] \in Workers
  BY DEF TypeOK
<1>2. worker' = [worker EXCEPT ![g] = r]
  BY <1>1 DEF WorkerStart
<1>3. r \in Workers
  <2>1. CASE WorkerOrder(g) < 2
    BY <1>1, <2>1 DEF Workers, States
  <2>2. CASE ~(WorkerOrder(g) < 2)
    BY <1>1, <1>0, <2>2 DEF Workers, States
  <2> QED
    BY <2>1, <2>2
<1>4. /\ r.pc = (IF WorkerOrder(g) < 2 THEN "send" ELSE "loop")
      /\ r.h = worker[g].h
      /\ r.state = (IF WorkerOrder(g) < 2 THEN "aborted" ELSE worker[g].state)
      /\ r.data = (IF WorkerOrder(g) < 2 THEN worker[g].data ELSE << 0, 1 >>)
  <2>1. CASE WorkerOrder(g) < 2
    BY <1>1, <2>1 DEF Workers
  <2>2. CASE ~(WorkerOrder(g) < 2)
    BY <1>1, <1>0, <2>2 DEF Workers
  <2> QED
    BY <2>1, <2>2
<1>5. worker' \in [Goals -> Workers] /\ \A x \in Goals : worker'[x] = IF x = g THEN r ELSE worker[x]
  BY <1>1, <1>2, <1>3
<1>6. server' = server \/ server' = [server EXCEPT !.pc = "crashed"]
  BY DEF WorkerStart
<1>7. server' \in Processes /\ (server' = server \/ server'.pc = "crashed")
  BY <1>6 DEF TypeOK, Processes
<1> QED
  BY <1>4, <1>5, <1>7 DEF WorkerStart

\* WorkerStart preserves the invariant.
LEMMA WorkerStartKeeps ==
  ASSUME IInv, NEW g \in Goals, WorkerStart(g)
  PROVE  IInv'
<1> USE DEF IInv
<1>1. TypeOK'
  BY WorkerStartEffect DEF TypeOK
<1>2. WorkerInv'
  <2> SUFFICES ASSUME NEW x \in Goals PROVE Computed(x)'
    BY DEF WorkerInv
  <2>1. CASE x = g
    <3>1. Len(<< 0, 1 >>) = 2
      OBVIOUS
    <3>2. CASE order[g] < 2
      BY <2>1, <3>2, WorkerStartEffect, WorkerFacts DEF WorkerInv, Computed, NoGoal, Holds
    <3>3. CASE order[g] >= 2
      <4>1. /\ worker'[g].pc = "loop" /\ worker'[g].state = worker[g].state
            /\ Len(worker'[g].data) = 2 /\ order' = order
        BY <3>1, <3>3, WorkerStartEffect, WorkerFacts DEF Holds
      <4>2. worker[g].state = NoGoal
        BY WorkerStartEffect DEF WorkerInv, Computed
      <4> QED
        BY <2>1, <3>3, <4>1, <4>2, WorkerFacts DEF Computed, NoGoal
    <3> QED
      BY <3>2, <3>3, WorkerFacts
  <2>2. CASE x # g
    BY <2>2, WorkerStartEffect DEF WorkerInv, Computed, Cancelled
  <2> QED
    BY <2>1, <2>2
<1>3. HandleInv'
  BY WorkerStartEffect DEF HandleInv, Holds
<1>4. MessageInv'
  BY WorkerStartEffect DEF MessageInv, GoalInv, Ended, Rejected, Request
<1> QED
  BY <1>1, <1>2, <1>3, <1>4

\* int32 addition yields an integer.
LEMMA AddInt32Type ==
  ASSUME NEW a \in Int, NEW b \in Int
  PROVE  AddInt32(a, b) \in Int
BY FibonacciAssumption DEF AddInt32

\* The next number of a list of at least two is an integer.
LEMMA NextNumber ==
  ASSUME NEW s \in Seq(Int), Len(s) >= 2
  PROVE  AddInt32(s[(Len(s) + 1) - 1], s[(Len(s) + 1) - 2]) \in Int
<1>1. s[(Len(s) + 1) - 1] \in Int /\ s[(Len(s) + 1) - 2] \in Int
  OBVIOUS
<1> QED
  BY <1>1, AddInt32Type

\* What WorkerBody changes.
LEMMA WorkerBodyEffect ==
  ASSUME IInv, NEW g \in Goals, WorkerBody(g)
  PROVE  /\ worker[g].pc = "body"
         /\ UNCHANGED << order, server, handle, client, net >>
         /\ worker' \in [Goals -> Workers]
         /\ \A x \in Goals :
              /\ worker'[x].pc = IF x = g THEN "loop" ELSE worker[x].pc
              /\ worker'[x].h = worker[x].h
              /\ worker'[x].state = worker[x].state
              /\ worker'[x].data = IF x = g
                                   THEN Append(worker[g].data, AddInt32(worker[g].data[(Len(worker[g].data) + 1) - 1],
                                             worker[g].data[(Len(worker[g].data) + 1) - 2])) ELSE worker[x].data
<1> DEFINE r == [worker[g] EXCEPT !.pc = "loop",
                  !.data = Append(@, AddInt32(@[(Len(@) + 1) - 1], @[(Len(@) + 1) - 2]))]
<1>1. worker \in [Goals -> Workers] /\ worker[g] \in Workers
  BY DEF TypeOK, IInv
<1>2. worker' = [worker EXCEPT ![g] = r]
  BY <1>1 DEF WorkerBody
<1>3. r \in Workers
  <2>1. worker[g].data \in Seq(Int) /\ Len(worker[g].data) >= 2
    BY WorkerFacts DEF IInv, WorkerInv, Computed, WorkerBody
  <2>2. r.data \in Seq(Int)
    BY <1>1, <2>1, NextNumber DEF Workers
  <2> QED
    BY <1>1, <2>2 DEF Workers, States
<1>4. /\ r.pc = "loop"
      /\ r.h = worker[g].h
      /\ r.state = worker[g].state
      /\ r.data = Append(worker[g].data, AddInt32(worker[g].data[(Len(worker[g].data) + 1) - 1],
                                             worker[g].data[(Len(worker[g].data) + 1) - 2]))
  BY <1>1 DEF Workers
<1>5. worker' \in [Goals -> Workers] /\ \A x \in Goals : worker'[x] = IF x = g THEN r ELSE worker[x]
  BY <1>1, <1>2, <1>3
<1> QED
  BY <1>4, <1>5 DEF WorkerBody

\* WorkerBody preserves the invariant.
LEMMA WorkerBodyKeeps ==
  ASSUME IInv, NEW g \in Goals, WorkerBody(g)
  PROVE  IInv'
<1> USE DEF IInv
<1>1. TypeOK'
  BY WorkerBodyEffect DEF TypeOK
<1>2. WorkerInv'
  <2> SUFFICES ASSUME NEW x \in Goals PROVE Computed(x)'
    BY DEF WorkerInv
  <2>1. CASE x = g
    <3>1. Len(worker'[g].data) = Len(worker[g].data) + 1
      <4> DEFINE s == worker[g].data
                 e == AddInt32(s[(Len(s) + 1) - 1], s[(Len(s) + 1) - 2])
      <4>1. s \in Seq(Int) /\ Len(s) >= 2
        BY WorkerFacts, WorkerBodyEffect DEF WorkerInv, Computed
      <4>2. e \in Int
        BY <4>1, NextNumber
      <4>3. worker'[g].data = Append(s, e)
        BY WorkerBodyEffect
      <4> HIDE DEF s, e
      <4>4. Len(Append(s, e)) = Len(s) + 1
        BY <4>1, <4>2
      <4> QED
        BY <4>3, <4>4 DEF s
    <3>2. worker'[g].pc = "loop" /\ worker'[g].state = worker[g].state /\ order' = order
      BY WorkerBodyEffect
    <3>3. /\ worker[g].pc = "body" /\ worker[g].state = NoGoal
          /\ 2 <= Len(worker[g].data) /\ Len(worker[g].data) < order[g]
      BY WorkerBodyEffect DEF WorkerInv, Computed
    <3> QED
      BY <2>1, <3>1, <3>2, <3>3, WorkerFacts DEF Computed, NoGoal
  <2>2. CASE x # g
    BY <2>2, WorkerBodyEffect DEF WorkerInv, Computed, Cancelled
  <2> QED
    BY <2>1, <2>2
<1>3. HandleInv'
  BY WorkerBodyEffect DEF HandleInv, Holds
<1>4. MessageInv'
  BY WorkerBodyEffect DEF MessageInv, GoalInv, Ended, Rejected, Request
<1> QED
  BY <1>1, <1>2, <1>3, <1>4

\* What WorkerFree changes.
LEMMA WorkerFreeEffect ==
  ASSUME TypeOK, NEW g \in Goals, WorkerFree(g)
  PROVE  /\ worker[g].pc = "free"
         /\ server' \in Processes /\ (server' = server \/ server'.pc = "crashed")
         /\ UNCHANGED << order, handle, client, net >>
         /\ worker' \in [Goals -> Workers]
         /\ \A x \in Goals :
              /\ worker'[x].pc = IF x = g THEN "exited" ELSE worker[x].pc
              /\ worker'[x].h = worker[x].h
              /\ worker'[x].state = worker[x].state
              /\ worker'[x].data = worker[x].data
<1> DEFINE r == [worker[g] EXCEPT !.pc = "exited"]
<1>1. worker \in [Goals -> Workers] /\ worker[g] \in Workers
  BY DEF TypeOK
<1>2. worker' = [worker EXCEPT ![g] = r]
  BY <1>1 DEF WorkerFree
<1>3. r \in Workers
  BY <1>1 DEF Workers
<1>4. /\ r.pc = "exited"
      /\ r.h = worker[g].h
      /\ r.state = worker[g].state
      /\ r.data = worker[g].data
  BY <1>1 DEF Workers
<1>5. worker' \in [Goals -> Workers] /\ \A x \in Goals : worker'[x] = IF x = g THEN r ELSE worker[x]
  BY <1>1, <1>2, <1>3
<1>6. server' = server \/ server' = [server EXCEPT !.pc = "crashed"]
  BY DEF WorkerFree
<1>7. server' \in Processes /\ (server' = server \/ server'.pc = "crashed")
  BY <1>6 DEF TypeOK, Processes
<1> QED
  BY <1>4, <1>5, <1>7 DEF WorkerFree

\* WorkerFree preserves the invariant.
LEMMA WorkerFreeKeeps ==
  ASSUME IInv, NEW g \in Goals, WorkerFree(g)
  PROVE  IInv'
<1> USE DEF IInv
<1>1. TypeOK'
  BY WorkerFreeEffect DEF TypeOK
<1>2. WorkerInv'
  <2> SUFFICES ASSUME NEW x \in Goals PROVE Computed(x)'
    BY DEF WorkerInv
  <2> QED
    BY WorkerFreeEffect DEF WorkerInv, Computed, Cancelled, NoGoal
<1>3. HandleInv'
  BY WorkerFreeEffect DEF HandleInv, Holds
<1>4. MessageInv'
  BY WorkerFreeEffect DEF MessageInv, GoalInv, Ended, Rejected, Request
<1> QED
  BY <1>1, <1>2, <1>3, <1>4

\* What ClientInit changes.
LEMMA ClientInitEffect ==
  ASSUME TypeOK, NEW g \in Goals, ClientInit(g)
  PROVE  /\ client[g].pc = "init"
         /\ client'[g].pc \in {"send", "exited"}
         /\ UNCHANGED << order, server, handle, worker, net >>
         /\ client' \in [Goals -> Clients]
         /\ \A x \in Goals :
              /\ client'[x].pc = IF x = g THEN client'[g].pc ELSE client[x].pc
              /\ client'[x].completed = client[x].completed
<1>1. client \in [Goals -> Clients] /\ client[g] \in Clients
  BY DEF TypeOK
<1>2. PICK r \in Clients : /\ client' = [client EXCEPT ![g] = r]
                          /\ r.pc \in {"send", "exited"} /\ r.completed = client[g].completed
  <2>1. CASE client' = [client EXCEPT ![g].pc = "send", ![g].executor = TRUE]
    <3> DEFINE r == [client[g] EXCEPT !.pc = "send", !.executor = TRUE]
    <3>1. r \in Clients /\ r.pc = "send" /\ r.completed = client[g].completed
      BY <1>1 DEF Clients
    <3>2. client' = [client EXCEPT ![g] = r]
      BY <1>1, <2>1
    <3> QED
      BY <3>1, <3>2
  <2>2. ASSUME NEW pc \in {"send", "exited"}, client' = [client EXCEPT ![g].pc = pc]
        PROVE  \E r \in Clients : /\ client' = [client EXCEPT ![g] = r]
                                  /\ r.pc \in {"send", "exited"}
                                  /\ r.completed = client[g].completed
    <3> DEFINE r == [client[g] EXCEPT !.pc = pc]
    <3>1. r \in Clients /\ r.pc = pc /\ r.completed = client[g].completed
      BY <1>1 DEF Clients
    <3>2. client' = [client EXCEPT ![g] = r]
      BY <1>1, <2>2
    <3> QED
      BY <3>1, <3>2
  <2> QED
    BY <2>1, <2>2 DEF ClientInit
<1>3. client' \in [Goals -> Clients] /\ \A x \in Goals : client'[x] = IF x = g THEN r ELSE client[x]
  BY <1>1, <1>2
<1> QED
  BY <1>2, <1>3 DEF ClientInit

\* ClientInit preserves the invariant.
LEMMA ClientInitKeeps ==
  ASSUME IInv, NEW g \in Goals, ClientInit(g)
  PROVE  IInv'
<1> USE DEF IInv
<1>1. TypeOK'
  BY ClientInitEffect DEF TypeOK
<1>2. WorkerInv'
  <2> SUFFICES ASSUME NEW x \in Goals PROVE Computed(x)'
    BY DEF WorkerInv
  <2> QED
    BY ClientInitEffect DEF WorkerInv, Computed, Cancelled, NoGoal
<1>3. HandleInv'
  BY ClientInitEffect DEF HandleInv, Holds
<1>4. MessageInv'
  BY ClientInitEffect DEF MessageInv, GoalInv, Ended, Rejected, Request
<1> QED
  BY <1>1, <1>2, <1>3, <1>4

\* Requests of different kinds or goals are different, and none is a result.
LEMMA RequestFacts ==
  /\ \A k1, k2, g1, g2 : Request(k1, g1) = Request(k2, g2) => k1 = k2 /\ g1 = g2
  /\ \A k, g : Request(k, g).kind = k /\ Request(k, g).goal = g
  /\ \A k \in {"goal", "accepted", "rejected", "getResult"}, g \in Goals :
       Request(k, g) \in Messages
<1>1. \A k, g : Request(k, g).kind = k /\ Request(k, g).goal = g
  BY DEF Request
<1>2. \A k \in {"goal", "accepted", "rejected", "getResult"}, g \in Goals :
        Request(k, g) \in Messages
  BY DEF Request, Messages
<1> QED
  BY <1>1, <1>2

\* What HandleCancel changes.
LEMMA HandleCancelEffect ==
  ASSUME TypeOK, NEW g \in Goals, HandleCancel(g)
  PROVE  /\ UNCHANGED << order, server, worker, client, net >>
         /\ handle' \in [Handles -> GoalHandles]
         /\ \A x \in Handles :
              /\ handle'[x].goal = handle[x].goal
              /\ handle[x].cancelled => handle'[x].cancelled
<1> PICK h \in Handles : handle' = [handle EXCEPT ![h].cancelled = TRUE]
  BY DEF HandleCancel
<1> DEFINE r == [handle[h] EXCEPT !.cancelled = TRUE]
<1>1. handle \in [Handles -> GoalHandles] /\ handle[h] \in GoalHandles
  BY DEF TypeOK
<1>2. handle' = [handle EXCEPT ![h] = r]
  BY <1>1
<1>3. r \in GoalHandles /\ r.goal = handle[h].goal /\ r.cancelled
  BY <1>1 DEF GoalHandles
<1>4. handle' \in [Handles -> GoalHandles]
      /\ \A x \in Handles : handle'[x] = IF x = h THEN r ELSE handle[x]
  BY <1>1, <1>2, <1>3
<1> QED
  BY <1>3, <1>4 DEF HandleCancel

\* HandleCancel preserves the invariant.
LEMMA HandleCancelKeeps ==
  ASSUME IInv, NEW g \in Goals, HandleCancel(g)
  PROVE  IInv'
<1> USE DEF IInv
<1>1. TypeOK'
  BY HandleCancelEffect, WorkerFacts DEF TypeOK
<1>2. WorkerInv'
  <2> SUFFICES ASSUME NEW x \in Goals PROVE Computed(x)'
    BY DEF WorkerInv
  <2>1. Holds(x) => (Cancelled(x) => Cancelled(x)')
    BY HandleCancelEffect, WorkerFacts DEF Cancelled
  <2> QED
    BY <2>1, HandleCancelEffect DEF WorkerInv, Computed, Holds
<1>3. HandleInv'
  BY HandleCancelEffect, WorkerFacts DEF HandleInv, Holds
<1>4. MessageInv'
  BY HandleCancelEffect, WorkerFacts DEF MessageInv, GoalInv, Ended, Rejected
<1> QED
  BY <1>1, <1>2, <1>3, <1>4

\* What TakeResultRequest changes.
LEMMA TakeResultRequestEffect ==
  ASSUME TypeOK, NEW g \in Goals, TakeResultRequest(g)
  PROVE  /\ UNCHANGED << order, server, worker, client >>
         /\ net' \subseteq net
         /\ handle' \in [Handles -> GoalHandles]
         /\ \A x \in Goals : Request("goal", x) \in net' <=> Request("goal", x) \in net
         /\ \A x \in Handles :
              /\ handle'[x].goal = handle[x].goal
              /\ handle'[x].cancelled = handle[x].cancelled
<1> PICK h \in Handles : handle' = [handle EXCEPT ![h].asked = TRUE]
  BY DEF TakeResultRequest
<1> DEFINE r == [handle[h] EXCEPT !.asked = TRUE]
<1>1. handle \in [Handles -> GoalHandles] /\ handle[h] \in GoalHandles
  BY DEF TypeOK
<1>2. handle' = [handle EXCEPT ![h] = r]
  BY <1>1
<1>3. r \in GoalHandles /\ r.goal = handle[h].goal /\ r.cancelled = handle[h].cancelled
  BY <1>1 DEF GoalHandles
<1>4. handle' \in [Handles -> GoalHandles]
      /\ \A x \in Handles : handle'[x] = IF x = h THEN r ELSE handle[x]
  BY <1>1, <1>2, <1>3
<1> QED
  BY <1>3, <1>4, RequestFacts DEF TakeResultRequest

\* TakeResultRequest preserves the invariant.
LEMMA TakeResultRequestKeeps ==
  ASSUME IInv, NEW g \in Goals, TakeResultRequest(g)
  PROVE  IInv'
<1> USE DEF IInv
<1>1. TypeOK'
  BY TakeResultRequestEffect, WorkerFacts DEF TypeOK
<1>2. WorkerInv'
  <2> SUFFICES ASSUME NEW x \in Goals PROVE Computed(x)'
    BY DEF WorkerInv
  <2>1. Holds(x) => (Cancelled(x)' <=> Cancelled(x))
    BY TakeResultRequestEffect, WorkerFacts DEF Cancelled
  <2> QED
    BY <2>1, TakeResultRequestEffect DEF WorkerInv, Computed, Holds
<1>3. HandleInv'
  BY TakeResultRequestEffect, WorkerFacts DEF HandleInv, Holds
<1>4. MessageInv'
  BY TakeResultRequestEffect, WorkerFacts DEF MessageInv, GoalInv, Ended, Rejected
<1> QED
  BY <1>1, <1>2, <1>3, <1>4

\* What WorkerSendResult changes.
LEMMA WorkerSendResultEffect ==
  ASSUME TypeOK, NEW g \in Goals, WorkerSendResult(g)
  PROVE  /\ worker[g].pc = "send"
         /\ UNCHANGED << order, server, client >>
         /\ worker' \in [Goals -> Workers]
         /\ \A x \in Goals :
              /\ worker'[x].pc = IF x = g THEN "free" ELSE worker[x].pc
              /\ worker'[x].h = worker[x].h
              /\ worker'[x].state = worker[x].state
              /\ worker'[x].data = worker[x].data
<1> DEFINE r == [worker[g] EXCEPT !.pc = "free"]
<1>1. worker \in [Goals -> Workers] /\ worker[g] \in Workers
  BY DEF TypeOK
<1>2. worker' = [worker EXCEPT ![g] = r]
  BY <1>1 DEF WorkerSendResult
<1>3. r \in Workers
  BY <1>1 DEF Workers
<1>4. /\ r.pc = "free"
      /\ r.h = worker[g].h
      /\ r.state = worker[g].state
      /\ r.data = worker[g].data
  BY <1>1 DEF Workers
<1>5. worker' \in [Goals -> Workers] /\ \A x \in Goals : worker'[x] = IF x = g THEN r ELSE worker[x]
  BY <1>1, <1>2, <1>3
<1> QED
  BY <1>4, <1>5 DEF WorkerSendResult

\* What WorkerSendResult changes besides the worker.
LEMMA WorkerSendResultFrees ==
  ASSUME IInv, NEW g \in Goals, WorkerSendResult(g)
  PROVE  /\ handle' \in [Handles -> GoalHandles]
         /\ \A x \in Handles : handle'[x] = IF x = worker[g].h THEN FreeHandle ELSE handle[x]
         /\ FreeHandle.goal = NoGoal
         /\ net' = net \cup {Result(g)} /\ Result(g) \in Messages
         /\ Result(g).kind = "result" /\ Result(g).goal = g
<1>1. FreeHandle \in GoalHandles /\ FreeHandle.goal = NoGoal
  BY DEF FreeHandle, GoalHandles
<1>2. handle \in [Handles -> GoalHandles] /\ worker[g] \in Workers
  BY DEF IInv, TypeOK
<1>3. handle' = [handle EXCEPT ![worker[g].h] = FreeHandle] /\ net' = net \cup {Result(g)}
  BY DEF WorkerSendResult
<1>4. worker[g].state \in States
  BY <1>2, WorkerSendResultEffect DEF IInv, WorkerInv, Computed, Workers
<1>5. Result(g) \in Messages /\ Result(g).kind = "result" /\ Result(g).goal = g
  BY <1>4 DEF Result, Messages
<1> QED
  BY <1>1, <1>2, <1>3, <1>5

\* WorkerSendResult preserves the invariant.
LEMMA WorkerSendResultKeeps ==
  ASSUME IInv, NEW g \in Goals, WorkerSendResult(g)
  PROVE  IInv'
<1> USE DEF IInv
<1>1. TypeOK'
  BY WorkerSendResultEffect, WorkerSendResultFrees, WorkerFacts DEF TypeOK
<1>2. WorkerInv'
  <2> SUFFICES ASSUME NEW x \in Goals PROVE Computed(x)'
    BY DEF WorkerInv
  <2>1. x # g /\ Holds(x) => (Cancelled(x)' <=> Cancelled(x))
    BY WorkerSendResultEffect, WorkerSendResultFrees, WorkerFacts DEF HandleInv, Holds, Cancelled
  <2> QED
    BY <2>1, WorkerSendResultEffect DEF WorkerInv, Computed, Holds, NoGoal
<1>3. HandleInv'
  <2>1. \A x \in Goals : x # g /\ Holds(x) => worker[x].h # worker[g].h /\ worker[x].h \in Handles
    BY WorkerSendResultEffect, WorkerFacts DEF HandleInv, Holds
  <2>2. \A x \in Goals : Holds(x)' => x # g /\ Holds(x)
    BY WorkerSendResultEffect DEF Holds
  <2>3. \A x \in Goals : Holds(x)' => (handle[worker[x].h].goal)' = x
    BY <2>1, <2>2, WorkerSendResultEffect, WorkerSendResultFrees DEF HandleInv
  <2>4. ASSUME NEW h \in Handles, (handle[h].goal # NoGoal)'
        PROVE  (/\ handle[h].goal \in Goals
                /\ Holds(handle[h].goal) /\ worker[handle[h].goal].h = h)'
    <3>1. h # worker[g].h /\ handle'[h] = handle[h] /\ handle[h].goal # NoGoal
      BY <2>4, WorkerSendResultFrees DEF NoGoal
    <3>2. /\ handle[h].goal \in Goals /\ Holds(handle[h].goal)
          /\ worker[handle[h].goal].h = h /\ handle[h].goal # g
      BY <3>1 DEF HandleInv
    <3> QED
      BY <3>1, <3>2, WorkerSendResultEffect DEF Holds
  <2> QED
    BY <2>3, <2>4 DEF HandleInv
<1>4. MessageInv'
  <2>1. \A k, x : k # "result" => (Request(k, x) \in net' <=> Request(k, x) \in net)
    BY WorkerSendResultFrees, RequestFacts
  <2>2. \A x \in Goals : /\ worker'[x].pc = "none" <=> worker[x].pc = "none"
                         /\ Ended(x) => Ended(x)'
    BY WorkerSendResultEffect DEF Ended
  <2>3. Ended(g)'
    BY WorkerSendResultEffect DEF Ended
  <2>4. ASSUME NEW m \in net', m.kind = "result"
        PROVE  m.goal \in Goals /\ Ended(m.goal)'
    BY <2>2, <2>3, <2>4, WorkerSendResultFrees DEF MessageInv
  <2>5. ASSUME NEW x \in Goals
        PROVE  GoalInv(x)'
    BY <2>1, <2>2, WorkerSendResultEffect DEF MessageInv, GoalInv, Rejected
  <2> QED
    BY <2>2, <2>4, <2>5, WorkerSendResultEffect DEF MessageInv
<1> QED
  BY <1>1, <1>2, <1>3, <1>4

\* What ClientExit changes.
LEMMA ClientExitEffect ==
  ASSUME TypeOK, NEW g \in Goals, ClientExit(g)
  PROVE  /\ client[g].pc = "loop" /\ client[g].completed
         /\ UNCHANGED << order, server, handle, worker, net >>
         /\ client' \in [Goals -> Clients]
         /\ \A x \in Goals :
              /\ client'[x].pc = IF x = g THEN "exited" ELSE client[x].pc
              /\ client'[x].completed = client[x].completed
<1> DEFINE r == [client[g] EXCEPT !.pc = "exited"]
<1>1. client \in [Goals -> Clients] /\ client[g] \in Clients
  BY DEF TypeOK
<1>2. client' = [client EXCEPT ![g] = r]
  BY <1>1 DEF ClientExit
<1>3. r \in Clients
  BY <1>1 DEF Clients
<1>4. /\ r.pc = "exited"
      /\ r.completed = client[g].completed
  BY <1>1 DEF Clients
<1>5. client' \in [Goals -> Clients] /\ \A x \in Goals : client'[x] = IF x = g THEN r ELSE client[x]
  BY <1>1, <1>2, <1>3
<1> QED
  BY <1>4, <1>5 DEF ClientExit

\* ClientExit preserves the invariant.
LEMMA ClientExitKeeps ==
  ASSUME IInv, NEW g \in Goals, ClientExit(g)
  PROVE  IInv'
<1> USE DEF IInv
<1>1. TypeOK'
  BY ClientExitEffect DEF TypeOK
<1>2. WorkerInv'
  <2> SUFFICES ASSUME NEW x \in Goals PROVE Computed(x)'
    BY DEF WorkerInv
  <2> QED
    BY ClientExitEffect DEF WorkerInv, Computed, Cancelled, NoGoal
<1>3. HandleInv'
  BY ClientExitEffect DEF HandleInv, Holds
<1>4. MessageInv'
  BY ClientExitEffect DEF MessageInv, GoalInv, Ended, Rejected, Request
<1> QED
  BY <1>1, <1>2, <1>3, <1>4

\* What ResultResponse changes.
LEMMA ResultResponseEffect ==
  ASSUME TypeOK, NEW g \in Goals, ResultResponse(g)
  PROVE  /\ client[g].pc = "loop" /\ net' \subseteq net
         /\ \A k, x : k # "result" => (Request(k, x) \in net' <=> Request(k, x) \in net)
         /\ UNCHANGED << order, server, handle, worker >>
         /\ client' \in [Goals -> Clients]
         /\ \A x \in Goals :
              /\ client'[x].pc = client[x].pc
              /\ client'[x].completed = IF x = g THEN TRUE ELSE client[x].completed
<1> DEFINE r == [client[g] EXCEPT !.completed = TRUE]
<1>1. client \in [Goals -> Clients] /\ client[g] \in Clients
  BY DEF TypeOK
<1>2. client' = [client EXCEPT ![g] = r]
  BY <1>1 DEF ResultResponse
<1>3. r \in Clients
  BY <1>1 DEF Clients
<1>4. /\ r.pc = client[g].pc
      /\ r.completed = TRUE
  BY <1>1 DEF Clients
<1>5. client' \in [Goals -> Clients] /\ \A x \in Goals : client'[x] = IF x = g THEN r ELSE client[x]
  BY <1>1, <1>2, <1>3
<1>6. PICK m \in net : m.kind = "result" /\ m.goal = g /\ net' = net \ {m}
  BY DEF ResultResponse
<1>7. \A k, x : k # "result" => (Request(k, x) \in net' <=> Request(k, x) \in net)
  BY <1>6, RequestFacts
<1> QED
  BY <1>4, <1>5, <1>6, <1>7 DEF ResultResponse

\* ResultResponse preserves the invariant.
LEMMA ResultResponseKeeps ==
  ASSUME IInv, NEW g \in Goals, ResultResponse(g)
  PROVE  IInv'
<1> USE DEF IInv
<1>1. TypeOK'
  BY ResultResponseEffect DEF TypeOK
<1>2. WorkerInv'
  <2> SUFFICES ASSUME NEW x \in Goals PROVE Computed(x)'
    BY DEF WorkerInv
  <2>1. UNCHANGED << order, handle, worker >>
    BY ResultResponseEffect
  <2> QED
    BY <2>1 DEF WorkerInv, Computed, Cancelled
<1>3. HandleInv'
  BY ResultResponseEffect DEF HandleInv, Holds
<1>4. MessageInv'
  <2>1. ASSUME NEW m \in net', m.kind = "result"
        PROVE  m.goal \in Goals /\ Ended(m.goal)'
    BY <2>1, ResultResponseEffect DEF MessageInv, Ended
  <2>2. Ended(g)
    <3>1. PICK m \in net : m.kind = "result" /\ m.goal = g
      BY DEF ResultResponse
    <3> QED
      BY <3>1 DEF MessageInv
  <2>3. ASSUME NEW x \in Goals
        PROVE  GoalInv(x)'
    <3>1. \A k \in {"goal", "accepted", "rejected", "getResult"} :
            Request(k, x) \in net' <=> Request(k, x) \in net
      BY ResultResponseEffect
    <3>2. /\ GoalInv(x) /\ UNCHANGED << order, worker >>
          /\ client'[x].pc = client[x].pc
          /\ client'[x].completed = client[x].completed \/ x = g
          /\ client[g].pc = "loop"
      BY ResultResponseEffect DEF MessageInv
    <3> QED
      BY <2>2, <3>1, <3>2 DEF GoalInv, Rejected, Ended
  <2> QED
    BY <2>1, <2>3, ResultResponseEffect DEF MessageInv
<1> QED
  BY <1>1, <1>2, <1>3, <1>4

\* What SendGoal changes.
LEMMA SendGoalEffect ==
  ASSUME TypeOK, NEW g \in Goals, SendGoal(g)
  PROVE  /\ client[g].pc = "send"
         /\ UNCHANGED << order, server, handle, worker >>
         /\ client' \in [Goals -> Clients]
         /\ \A x \in Goals :
              /\ x # g => client'[x] = client[x]
              /\ client'[x].completed = client[x].completed
         /\ \/ client'[g].pc = "loop" /\ net' = net \cup {Request("goal", g)}
            \/ client'[g].pc = "exited" /\ net' = net
<1> PICK pc \in {"loop", "exited"} :
         /\ client' = [client EXCEPT ![g].pc = pc]
         /\ pc = "loop" => net' = net \cup {Request("goal", g)}
         /\ pc = "exited" => net' = net
  BY DEF SendGoal
<1> DEFINE r == [client[g] EXCEPT !.pc = pc]
<1>1. client \in [Goals -> Clients] /\ client[g] \in Clients
  BY DEF TypeOK
<1>2. client' = [client EXCEPT ![g] = r]
  BY <1>1
<1>3. r \in Clients /\ r.pc = pc /\ r.completed = client[g].completed
  BY <1>1 DEF Clients
<1>4. client' \in [Goals -> Clients] /\ \A x \in Goals : client'[x] = IF x = g THEN r ELSE client[x]
  BY <1>1, <1>2, <1>3
<1> QED
  BY <1>3, <1>4 DEF SendGoal

\* SendGoal preserves the invariant.
LEMMA SendGoalKeeps ==
  ASSUME IInv, NEW g \in Goals, SendGoal(g)
  PROVE  IInv'
<1> USE DEF IInv
<1>1. TypeOK'
  BY SendGoalEffect, RequestFacts DEF TypeOK
<1>2. WorkerInv'
  <2> SUFFICES ASSUME NEW x \in Goals PROVE Computed(x)'
    BY DEF WorkerInv
  <2> QED
    BY SendGoalEffect DEF WorkerInv, Computed, Cancelled
<1>3. HandleInv'
  BY SendGoalEffect, RequestFacts DEF HandleInv, Holds
<1>4. MessageInv'
  BY SendGoalEffect, RequestFacts DEF MessageInv, GoalInv, Ended, Rejected
<1> QED
  BY <1>1, <1>2, <1>3, <1>4

\* What GoalResponse changes.
LEMMA GoalResponseEffect ==
  ASSUME TypeOK, NEW g \in Goals, GoalResponse(g)
  PROVE  /\ client[g].pc = "loop"
         /\ UNCHANGED << order, server, handle, worker >>
         /\ client' \in [Goals -> Clients]
         /\ \A x \in Goals :
              /\ x # g => client'[x] = client[x]
              /\ client'[x].pc = client[x].pc
         /\ \/ /\ Request("accepted", g) \in net
               /\ net' = (net \ {Request("accepted", g)}) \cup {Request("getResult", g)}
               /\ client'[g].completed = client[g].completed
            \/ /\ Request("rejected", g) \in net
               /\ net' = net \ {Request("rejected", g)}
               /\ client'[g].completed
<1>1. client \in [Goals -> Clients] /\ client[g] \in Clients
  BY DEF TypeOK
<1>2. CASE /\ Request("accepted", g) \in net
           /\ net' = (net \ {Request("accepted", g)}) \cup {Request("getResult", g)}
           /\ UNCHANGED client
  BY <1>1, <1>2 DEF GoalResponse
<1>3. CASE /\ Request("rejected", g) \in net
           /\ net' = net \ {Request("rejected", g)}
           /\ client' = [client EXCEPT ![g].completed = TRUE]
  <2> DEFINE r == [client[g] EXCEPT !.completed = TRUE]
  <2>1. client' = [client EXCEPT ![g] = r]
    BY <1>1, <1>3
  <2>2. r \in Clients /\ r.pc = client[g].pc /\ r.completed
    BY <1>1 DEF Clients
  <2>3. client' \in [Goals -> Clients] /\ \A x \in Goals : client'[x] = IF x = g
                                                                        THEN r
                                                                        ELSE client[x]
    BY <1>1, <2>1, <2>2
  <2> QED
    BY <1>3, <2>2, <2>3 DEF GoalResponse
<1> QED
  BY <1>2, <1>3 DEF GoalResponse

\* GoalResponse preserves the invariant.
LEMMA GoalResponseKeeps ==
  ASSUME IInv, NEW g \in Goals, GoalResponse(g)
  PROVE  IInv'
<1> USE DEF IInv
<1>1. TypeOK'
  BY GoalResponseEffect, RequestFacts DEF TypeOK
<1>2. WorkerInv'
  <2> SUFFICES ASSUME NEW x \in Goals PROVE Computed(x)'
    BY DEF WorkerInv
  <2> QED
    BY GoalResponseEffect DEF WorkerInv, Computed, Cancelled
<1>3. HandleInv'
  BY GoalResponseEffect, RequestFacts DEF HandleInv, Holds
<1>4. MessageInv'
  BY GoalResponseEffect, RequestFacts DEF MessageInv, GoalInv, Ended, Rejected
<1> QED
  BY <1>1, <1>2, <1>3, <1>4

\* HandleGoal preserves the invariant when it rejects the goal.
LEMMA RejectKeeps ==
  ASSUME IInv, NEW g \in Goals, order[g] > MaxOrder,
         Request("goal", g) \in net,
         net' = (net \ {Request("goal", g)}) \cup {Request("rejected", g)},
         UNCHANGED << order, server, handle, worker, client >>
  PROVE  IInv'
<1>1. TypeOK'
  BY RequestFacts DEF IInv, TypeOK
<1>2. WorkerInv' /\ HandleInv'
  BY DEF IInv, WorkerInv, Computed, Cancelled, HandleInv, Holds
<1>3. MessageInv'
  <2>1. ASSUME NEW m \in net', m.kind = "result"
        PROVE  m.goal \in Goals /\ Ended(m.goal)'
    BY <2>1, RequestFacts DEF IInv, MessageInv, Ended
  <2>2. ASSUME NEW x \in Goals
        PROVE  GoalInv(x)'
    BY RequestFacts DEF IInv, MessageInv, GoalInv, Rejected, Ended
  <2> QED
    BY <2>1, <2>2 DEF IInv, MessageInv
<1> QED
  BY <1>1, <1>2, <1>3 DEF IInv

\* What HandleGoal changes when it accepts the goal.
LEMMA AcceptEffect ==
  ASSUME TypeOK, NEW g \in Goals, NEW h \in Handles, NEW pc \in {"start", "lost"},
         handle' = [handle EXCEPT ![h] = [FreeHandle EXCEPT !.goal = g]],
         worker' = [worker EXCEPT ![g].pc = pc, ![g].h = h]
  PROVE  /\ handle' \in [Handles -> GoalHandles]
         /\ worker' \in [Goals -> Workers]
         /\ handle'[h].goal = g
         /\ \A x \in Handles : x # h => handle'[x] = handle[x]
         /\ \A x \in Goals : x # g => worker'[x] = worker[x]
         /\ worker'[g].pc = pc /\ worker'[g].h = h
         /\ worker'[g].state = worker[g].state /\ worker'[g].data = worker[g].data
<1> DEFINE r == [FreeHandle EXCEPT !.goal = g]
           w == [worker[g] EXCEPT !.pc = pc, !.h = h]
<1>1. /\ handle \in [Handles -> GoalHandles]
      /\ worker \in [Goals -> Workers] /\ worker[g] \in Workers
  BY DEF TypeOK
<1>2. r \in GoalHandles /\ r.goal = g
  BY DEF FreeHandle, GoalHandles
<1>3. w \in Workers
  BY <1>1 DEF Workers
<1>4. w.pc = pc /\ w.h = h /\ w.state = worker[g].state /\ w.data = worker[g].data
  BY <1>1 DEF Workers
<1>5. worker' = [worker EXCEPT ![g] = w]
  BY <1>1
<1>6. /\ worker' \in [Goals -> Workers]
      /\ \A x \in Goals : worker'[x] = IF x = g THEN w ELSE worker[x]
  BY <1>1, <1>3, <1>5
<1>7. /\ handle' \in [Handles -> GoalHandles]
      /\ \A x \in Handles : handle'[x] = IF x = h THEN r ELSE handle[x]
  BY <1>1, <1>2
<1> QED
  BY <1>2, <1>4, <1>6, <1>7

\* HandleGoal preserves the invariant when it accepts the goal.
LEMMA AcceptKeeps ==
  ASSUME IInv, NEW g \in Goals, NEW h \in Handles, NEW pc \in {"start", "lost"},
         Request("goal", g) \in net, handle[h].goal = NoGoal,
         handle' = [handle EXCEPT ![h] = [FreeHandle EXCEPT !.goal = g]],
         worker' = [worker EXCEPT ![g].pc = pc, ![g].h = h],
         server' = [pc |-> "respond", goal |-> g],
         net' = net \ {Request("goal", g)},
         UNCHANGED << order, client >>
  PROVE  IInv'
<1> USE DEF IInv
<1>0. /\ handle'[h].goal = g
      /\ \A x \in Handles : x # h => handle'[x] = handle[x]
      /\ \A x \in Goals : x # g => worker'[x] = worker[x]
      /\ worker'[g].pc = pc /\ worker'[g].h = h
  BY AcceptEffect
<1>1. TypeOK'
  <2>1. server' \in Processes
    BY DEF Processes
  <2> QED
    BY <2>1, AcceptEffect DEF TypeOK
<1>2. /\ worker[g].pc = "none" /\ worker[g].state = NoGoal
      /\ ~client[g].completed /\ client[g].pc = "loop"
      /\ Request("rejected", g) \notin net
  BY DEF MessageInv, GoalInv, WorkerInv, Computed
<1>3. \A x \in Goals : Holds(x) =>
        x # g /\ worker[x].h \in Handles /\ worker[x].h # h /\ handle[worker[x].h].goal = x
  BY <1>2, WorkerFacts, NoGoalAssumption DEF HandleInv, Holds
<1>4. WorkerInv'
  <2> SUFFICES ASSUME NEW x \in Goals PROVE Computed(x)'
    BY DEF WorkerInv
  <2>1. CASE x = g
    BY <2>1, <1>2, AcceptEffect DEF Computed, NoGoal
  <2>2. CASE x # g
    <3>1. worker'[x] = worker[x] /\ order' = order
      BY <2>2, <1>0
    <3>2. Holds(x) => worker[x].h \in Handles /\ worker[x].h # h
      BY <1>3
    <3>3. Holds(x) => (Cancelled(x)' <=> Cancelled(x))
      <4>1. Holds(x) => handle'[worker[x].h] = handle[worker[x].h]
        BY <3>2, <1>0
      <4> QED
        BY <3>1, <4>1 DEF Cancelled
    <3>4. Computed(x)
      BY DEF WorkerInv
    <3> QED
      BY <3>1, <3>3, <3>4 DEF Computed, Holds
  <2> QED
    BY <2>1, <2>2
<1>5. HandleInv'
  <2>1. ASSUME NEW x \in Goals, Holds(x)'
        PROVE  (handle[worker[x].h].goal = x)'
    <3>1. CASE x = g
      BY <3>1, <1>0
    <3>2. CASE x # g
      <4>1. worker'[x] = worker[x] /\ Holds(x)
        BY <2>1, <3>2, <1>0 DEF Holds
      <4> QED
        BY <4>1, <1>3, <1>0
    <3> QED
      BY <3>1, <3>2
  <2>2. ASSUME NEW x \in Handles, (handle[x].goal # NoGoal)'
        PROVE  (/\ handle[x].goal \in Goals
                /\ Holds(handle[x].goal) /\ worker[handle[x].goal].h = x)'
    <3>1. CASE x = h
      BY <3>1, <1>0 DEF Holds
    <3>2. CASE x # h
      <4>1. handle'[x] = handle[x] /\ handle[x].goal # NoGoal
        BY <2>2, <3>2, <1>0 DEF NoGoal
      <4>2. /\ handle[x].goal \in Goals /\ Holds(handle[x].goal)
            /\ worker[handle[x].goal].h = x /\ handle[x].goal # g
        BY <4>1, <1>3 DEF HandleInv
      <4> QED
        BY <4>1, <4>2, <1>0 DEF Holds
    <3> QED
      BY <3>1, <3>2
  <2> QED
    BY <2>1, <2>2 DEF HandleInv
<1>6. MessageInv'
  <2>1. ASSUME NEW m \in net', m.kind = "result"
        PROVE  m.goal \in Goals /\ Ended(m.goal)'
    <3>1. m.goal \in Goals /\ Ended(m.goal) /\ m.goal # g
      BY <1>2, <2>1 DEF MessageInv, Ended
    <3>2. worker'[m.goal] = worker[m.goal]
      BY <3>1, <1>0
    <3> QED
      BY <3>1, <3>2 DEF Ended
  <2>2. ASSUME NEW x \in Goals
        PROVE  GoalInv(x)'
    <3>1. CASE x = g
      BY <1>2, <3>1, <1>0, RequestFacts DEF GoalInv
    <3>2. CASE x # g
      <4>1. worker'[x] = worker[x] /\ UNCHANGED << order, client >>
        BY <3>2, <1>0
      <4>2. \A k : Request(k, x) \in net' <=> Request(k, x) \in net
        BY <3>2, RequestFacts
      <4>3. GoalInv(x)
        BY DEF MessageInv
      <4> QED
        BY <4>1, <4>2, <4>3 DEF GoalInv, Rejected, Ended
    <3> QED
      BY <3>1, <3>2
  <2>3. (server.pc = "respond" => server.goal \in Goals /\ worker[server.goal].pc # "none")'
    BY <1>0
  <2> QED
    BY <2>1, <2>2, <2>3 DEF MessageInv
<1> QED
  BY <1>1, <1>4, <1>5, <1>6

\* HandleGoal preserves the invariant when the server crashes in it.
LEMMA CrashKeeps ==
  ASSUME IInv, NEW g \in Goals,
         server' = [server EXCEPT !.pc = "crashed"],
         net' = net \ {Request("goal", g)},
         UNCHANGED << order, handle, worker, client >>
  PROVE  IInv'
<1>1. server' \in Processes /\ server'.pc = "crashed"
  BY DEF IInv, TypeOK, Processes
<1>2. TypeOK'
  BY <1>1 DEF IInv, TypeOK
<1>3. WorkerInv' /\ HandleInv'
  BY DEF IInv, WorkerInv, Computed, Cancelled, HandleInv, Holds
<1>4. MessageInv'
  BY <1>1, RequestFacts DEF IInv, MessageInv, GoalInv, Rejected, Ended
<1> QED
  BY <1>2, <1>3, <1>4 DEF IInv

\* The first step of the server preserves the invariant.
LEMMA ServerInitKeeps ==
  ASSUME IInv, ServerInit
  PROVE  IInv'
<1>1. \E pc \in {"spin", "exited"} : server' = [server EXCEPT !.pc = pc]
  BY DEF ServerInit
<1>2. server \in Processes
  BY DEF IInv, TypeOK
<1>3. server' \in Processes /\ server'.pc # "respond"
  BY <1>1, <1>2 DEF Processes
<1> QED
  BY <1>3 DEF ServerInit, IInv, TypeOK, WorkerInv, Computed, Cancelled, HandleInv, Holds,
              MessageInv, GoalInv, Ended, Rejected

\* The response to an accepted goal preserves the invariant.
LEMMA RespondAcceptedKeeps ==
  ASSUME IInv, RespondAccepted
  PROVE  IInv'
<1>1. server.goal \in Goals /\ worker[server.goal].pc # "none"
  BY DEF IInv, MessageInv, RespondAccepted
<1>2. /\ server' \in Processes /\ server'.pc = "spin"
      /\ net' = net \cup {Request("accepted", server.goal)}
      /\ UNCHANGED << order, handle, worker, client >>
  BY DEF RespondAccepted, Processes
<1>3. TypeOK'
  BY <1>1, <1>2, RequestFacts DEF IInv, TypeOK
<1>4. WorkerInv' /\ HandleInv'
  BY <1>2 DEF IInv, WorkerInv, Computed, Cancelled, HandleInv, Holds
<1>5. MessageInv'
  <2>1. ASSUME NEW m \in net', m.kind = "result"
        PROVE  m.goal \in Goals /\ Ended(m.goal)'
    BY <1>2, <2>1, RequestFacts DEF IInv, MessageInv, Ended
  <2>2. ASSUME NEW x \in Goals
        PROVE  GoalInv(x)'
    BY <1>1, <1>2, RequestFacts DEF IInv, MessageInv, GoalInv, Rejected, Ended
  <2> QED
    BY <1>2, <2>1, <2>2 DEF MessageInv
<1> QED
  BY <1>3, <1>4, <1>5 DEF IInv

-----------------------------------------------------------------------------
(* The inductive invariant. *)
LEMMA Initially == Init => IInv
<1> SUFFICES ASSUME Init
             PROVE  IInv
  OBVIOUS
<1> USE DEF Init, FreeHandle
<1>1. AnyHandle \in Handles
  BY FibonacciAssumption DEF AnyHandle
<1>2. TypeOK
  BY <1>1 DEF TypeOK, Processes, GoalHandles, Workers, Clients, NoGoal
<1>3. WorkerInv /\ HandleInv /\ MessageInv
  BY DEF WorkerInv, Computed, HandleInv, Holds, MessageInv, GoalInv, NoGoal
<1> QED
  BY <1>2, <1>3 DEF IInv

\* Every step preserves the invariant.
LEMMA Inductive == IInv /\ [Next]_vars => IInv'
<1> SUFFICES ASSUME IInv, [Next]_vars
             PROVE  IInv'
  OBVIOUS
<1>1. CASE UNCHANGED vars
  BY <1>1 DEF vars, IInv, TypeOK, WorkerInv, Computed, Cancelled, HandleInv, Holds,
              MessageInv, GoalInv, Ended, Rejected
<1>2. CASE ServerInit
  BY <1>2, ServerInitKeeps
<1>3. CASE RespondAccepted
  BY <1>3, RespondAcceptedKeeps
<1>4. ASSUME NEW g \in Goals, Executor(g)
      PROVE  IInv'
  <2>1. CASE HandleGoal(g)
    BY <2>1, RejectKeeps, AcceptKeeps, CrashKeeps DEF HandleGoal
  <2>2. CASE TakeResultRequest(g)
    BY <2>2, TakeResultRequestKeeps
  <2> QED
    BY <1>4, <2>1, <2>2 DEF Executor
<1>5. ASSUME NEW g \in Goals, HandleCancel(g)
      PROVE  IInv'
  BY <1>5, HandleCancelKeeps
<1>6. ASSUME NEW g \in Goals, Worker(g)
      PROVE  IInv'
  BY <1>6, WorkerStartKeeps, WorkerLoopKeeps, WorkerBodyKeeps, WorkerDecideKeeps,
     WorkerSendResultKeeps, WorkerFreeKeeps DEF Worker
<1>7. ASSUME NEW g \in Goals, Client(g)
      PROVE  IInv'
  BY <1>7, ClientInitKeeps, SendGoalKeeps, GoalResponseKeeps, ResultResponseKeeps,
     ClientExitKeeps DEF Client
<1> QED
  BY <1>1, <1>2, <1>3, <1>4, <1>5, <1>6, <1>7 DEF Next

\* The inductive invariant holds in every reachable state.
LEMMA Invariant == Spec => []IInv
BY Initially, Inductive, PTL DEF Spec

(* The variables have their types; in particular every number a worker     *)
(* puts in its list is an integer.                                          *)
THEOREM Typed == Spec => []TypeOK
BY Invariant, PTL DEF IInv

(* A worker never follows its handle to the goal of another.                *)
THEOREM OwnHandle == Spec => []WorkersOwnHandle
<1>1. IInv => WorkersOwnHandle
  BY DEF IInv, HandleInv, Holds, WorkersOwnHandle
<1> QED
  BY <1>1, Invariant, PTL

(* A goal that succeeded has as many numbers as were asked for.             *)
THEOREM Complete == Spec => []SuccessIsComplete
<1>1. IInv => SuccessIsComplete
  BY DEF IInv, WorkerInv, Computed, SuccessIsComplete
<1> QED
  BY <1>1, Invariant, PTL

(* A client ends its wait only when its goal is rejected or ended.          *)
THEOREM Completed == Spec => []CompletedMeansEnded
<1>1. IInv => CompletedMeansEnded
  BY DEF IInv, MessageInv, GoalInv, Ended, CompletedMeansEnded
<1> QED
  BY <1>1, Invariant, PTL
-----------------------------------------------------------------------------
(* The numbers of a worker. *)

\* The numbers of an order exist in an int32.
Fits(n) == \E s \in [1 .. n -> 0 .. IntMax] : IsFibonacci(s)

\* Those of every order that is accepted do: see Int32Fits.
OrdersFit == \A n \in Orders : n <= MaxOrder => Fits(n)

\* The Fibonacci numbers, however large.
IsSequence(f) ==
  /\ f \in [Nat -> Nat]
  /\ f[0] = 0 /\ f[1] = 1
  /\ \A n \in Nat : f[n + 2] = f[n] + f[n + 1]

\* There are such numbers: each pair of them determines the next.
LEMMA SequenceExists == \E f : IsSequence(f)
<1> DEFINE Pairs == Nat \X Nat
           before == [n \in Nat \ {0} |-> n - 1]
           step == [n \in Nat \ {0} |-> [v \in Pairs |-> << v[2], v[1] + v[2] >>]]
<1>1. PICK p : Solves(p, Pairs, << 0, 1 >>, before, step)
  <2>1. IsRecursion(Pairs, << 0, 1 >>, before, step)
    BY DEF IsRecursion
  <2> HIDE DEF before, step, Pairs
  <2> QED
    BY <2>1, Recursion
<1>2. \A n \in Nat : p[n] \in Nat \X Nat
  BY <1>1 DEF Solves
<1>3. ASSUME NEW n \in Nat
      PROVE  p[n + 1][1] = p[n][2] /\ p[n + 1][2] = p[n][1] + p[n][2]
  <2>1. n + 1 \in Nat \ {0} /\ (n + 1) - 1 = n
    OBVIOUS
  <2>2. p[n + 1] = step[n + 1][p[before[n + 1]]] /\ before[n + 1] = n
    BY <1>1, <2>1 DEF Solves
  <2>3. step[n + 1][p[n]] = << p[n][2], p[n][1] + p[n][2] >>
    BY <1>2, <2>1
  <2> QED
    BY <2>2, <2>3
<1> DEFINE f == [n \in Nat |-> p[n][1]]
<1>4. p[0] = << 0, 1 >>
  BY <1>1 DEF Solves
<1>5. f \in [Nat -> Nat]
  BY <1>2
<1>6. f[0] = 0 /\ f[1] = 1
  <2>1. p[0 + 1][1] = p[0][2]
    BY <1>3
  <2> QED
    BY <1>4, <2>1
<1>7. ASSUME NEW n \in Nat PROVE f[n + 2] = f[n] + f[n + 1]
  <2>1. /\ p[n + 1][1] = p[n][2] /\ p[n + 1][2] = p[n][1] + p[n][2]
        /\ p[(n + 1) + 1][1] = p[n + 1][2] /\ (n + 1) + 1 = n + 2
    BY <1>3
  <2> QED
    BY <2>1
<1> QED
  BY <1>5, <1>6, <1>7 DEF IsSequence

\* They grow.
LEMMA SequenceGrows ==
  ASSUME NEW f, IsSequence(f), NEW m \in Nat
  PROVE  \A n \in Nat : n <= m => f[n] <= f[m]
<1> DEFINE S == {k \in Nat : \A n \in Nat : n <= k => f[n] <= f[k]}
<1>1. 0 \in S
  BY DEF IsSequence
<1>2. ASSUME NEW k \in Nat, k \in S PROVE k + 1 \in S
  <2>1. f[k] <= f[k + 1]
    <3>1. CASE k = 0
      BY <3>1 DEF IsSequence
    <3>2. CASE k # 0
      <4>1. k - 1 \in Nat /\ (k - 1) + 1 = k /\ (k - 1) + 2 = k + 1
        BY <3>2
      <4>2. f[(k - 1) + 2] = f[k - 1] + f[(k - 1) + 1] /\ f[k - 1] \in Nat /\ f[k] \in Nat
        BY <4>1 DEF IsSequence
      <4> QED
        BY <4>1, <4>2
    <3> QED
      BY <3>1, <3>2
  <2>2. \A n \in Nat : f[n] \in Nat
    BY DEF IsSequence
  <2>3. \A n \in Nat : n <= k + 1 => n = k + 1 \/ n <= k
    OBVIOUS
  <2> QED
    BY <1>2, <2>1, <2>2, <2>3
<1> HIDE DEF S
<1>3. \A k \in Nat : k \in S
  BY <1>1, <1>2, Induction
<1> QED
  BY <1>3 DEF S

\* The list of an order is their beginning, and no other.
LEMMA SequenceUnique ==
  ASSUME NEW f, IsSequence(f), NEW n \in Int, NEW s \in [1 .. n -> Int]
  PROVE  IsFibonacci(s) <=> \A i \in 1 .. n : s[i] = f[i - 1]
<1>1. ASSUME NEW i \in 1 .. n, i >= 3
      PROVE  /\ i - 1 \in 1 .. n /\ i - 2 \in 1 .. n
             /\ f[i - 1] = f[i - 3] + f[i - 2] /\ (i - 1) - 1 = i - 2 /\ (i - 2) - 1 = i - 3
             /\ f[i - 1] \in Nat /\ f[i - 2] \in Nat /\ f[i - 3] \in Nat
  <2>1. i - 3 \in Nat /\ (i - 3) + 2 = i - 1 /\ (i - 3) + 1 = i - 2
    BY <1>1
  <2>2. f[(i - 3) + 2] = f[i - 3] + f[(i - 3) + 1]
    BY <2>1 DEF IsSequence
  <2>3. \A k \in Nat : f[k] \in Nat
    BY DEF IsSequence
  <2> QED
    BY <1>1, <2>1, <2>2, <2>3
<1>2. ASSUME NEW i \in 1 .. n, i < 3 PROVE f[i - 1] = i - 1
  <2>1. (i = 1 /\ i - 1 = 0) \/ (i = 2 /\ i - 1 = 1)
    BY <1>2
  <2>2. f[0] = 0 /\ f[1] = 1
    BY DEF IsSequence
  <2> QED
    BY <2>1, <2>2
<1>3. ASSUME \A i \in 1 .. n : s[i] = f[i - 1] PROVE IsFibonacci(s)
  <2> SUFFICES ASSUME NEW i \in 1 .. n
               PROVE  IF i < 3 THEN s[i] = i - 1
                      ELSE s[i] >= s[i - 1] /\ s[i] - s[i - 1] = s[i - 2]
    BY DEF IsFibonacci
  <2>1. CASE i < 3
    BY <1>2, <1>3, <2>1
  <2>2. CASE i >= 3
    <3>1. s[i] = f[i - 1] /\ s[i - 1] = f[i - 2] /\ s[i - 2] = f[i - 3]
      BY <1>1, <1>3, <2>2
    <3>2. f[i - 1] = f[i - 3] + f[i - 2] /\ f[i - 2] \in Nat /\ f[i - 3] \in Nat
      BY <1>1, <2>2
    <3> QED
      BY <2>2, <3>1, <3>2
  <2> QED
    BY <2>1, <2>2
<1>4. ASSUME IsFibonacci(s) PROVE \A i \in 1 .. n : s[i] = f[i - 1]
  <2> DEFINE S == {i \in Nat : i \in 1 .. n => s[i] = f[i - 1]}
  <2>1. ASSUME NEW i \in Nat, \A j \in 0 .. (i - 1) : j \in S
        PROVE  i \in S
    <3> SUFFICES ASSUME i \in 1 .. n PROVE s[i] = f[i - 1]
      OBVIOUS
    <3>1. IF i < 3 THEN s[i] = i - 1
          ELSE s[i] >= s[i - 1] /\ s[i] - s[i - 1] = s[i - 2]
      BY <1>4 DEF IsFibonacci
    <3>2. CASE i < 3
      BY <1>2, <3>1, <3>2
    <3>3. CASE i >= 3
      <4>1. /\ i - 1 \in 0 .. (i - 1) /\ i - 2 \in 0 .. (i - 1)
            /\ i - 1 \in 1 .. n /\ i - 2 \in 1 .. n
        BY <3>3
      <4>2. s[i - 1] = f[i - 2] /\ s[i - 2] = f[i - 3]
        <5>1. (i - 1) - 1 = i - 2 /\ (i - 2) - 1 = i - 3
          OBVIOUS
        <5> QED
          BY <2>1, <4>1, <5>1
      <4>3. s[i] - s[i - 1] = s[i - 2] /\ s[i] \in Int
        BY <3>1, <3>3
      <4> QED
        BY <1>1, <3>3, <4>2, <4>3
    <3> QED
      BY <3>2, <3>3
  <2> HIDE DEF S
  <2>2. \A i \in Nat : i \in S
    BY <2>1, StrongInduction
  <2> QED
    BY <2>2 DEF S
<1> QED
  BY <1>3, <1>4

\* The largest int32_t lies between the forty-seventh and the next.
MaxInt32 == 2147483647

\* By computing them, eight at a time.
LEMMA FortySeven ==
  ASSUME NEW f, IsSequence(f)
  PROVE  f[46] <= MaxInt32 /\ MaxInt32 < f[47]
<1>1. \A n \in Nat : f[n + 2] = f[n] + f[n + 1] /\ f[n] \in Nat
  BY DEF IsSequence
<1>2. f[0] = 0 /\ f[1] = 1
  BY DEF IsSequence
<1>3. ASSUME NEW n \in Nat
      PROVE  /\ f[n + 6] = 5 * f[n] + 8 * f[n + 1] /\ f[n + 7] = 8 * f[n] + 13 * f[n + 1]
             /\ f[n + 8] = 13 * f[n] + 21 * f[n + 1] /\ f[n + 9] = 21 * f[n] + 34 * f[n + 1]
  <2>1. /\ f[n + 2] = f[n] + f[n + 1] /\ f[(n + 1) + 2] = f[n + 1] + f[(n + 1) + 1]
        /\ f[(n + 2) + 2] = f[n + 2] + f[(n + 2) + 1] /\ f[(n + 3) + 2] = f[n + 3] + f[(n + 3) + 1]
        /\ f[(n + 4) + 2] = f[n + 4] + f[(n + 4) + 1] /\ f[(n + 5) + 2] = f[n + 5] + f[(n + 5) + 1]
        /\ f[(n + 6) + 2] = f[n + 6] + f[(n + 6) + 1] /\ f[(n + 7) + 2] = f[n + 7] + f[(n + 7) + 1]
    BY <1>1
  <2>2. f[n] \in Nat /\ f[n + 1] \in Nat
    BY <1>1
  <2> QED
    BY <2>1, <2>2
<1>4. f[8] = 21 /\ f[9] = 34
  <2>1. f[0 + 8] = 13 * f[0] + 21 * f[0 + 1] /\ f[0 + 9] = 21 * f[0] + 34 * f[0 + 1]
    BY <1>3
  <2> QED
    BY <1>2, <2>1, SMTT(30)
<1>5. f[16] = 987 /\ f[17] = 1597
  <2>1. f[8 + 8] = 13 * f[8] + 21 * f[8 + 1] /\ f[8 + 9] = 21 * f[8] + 34 * f[8 + 1]
    BY <1>3
  <2> QED
    BY <1>4, <2>1, SMTT(30)
<1>6. f[24] = 46368 /\ f[25] = 75025
  <2>1. f[16 + 8] = 13 * f[16] + 21 * f[16 + 1] /\ f[16 + 9] = 21 * f[16] + 34 * f[16 + 1]
    BY <1>3
  <2> QED
    BY <1>5, <2>1, SMTT(30)
<1>7. f[32] = 2178309 /\ f[33] = 3524578
  <2>1. f[24 + 8] = 13 * f[24] + 21 * f[24 + 1] /\ f[24 + 9] = 21 * f[24] + 34 * f[24 + 1]
    BY <1>3
  <2> QED
    BY <1>6, <2>1, SMTT(30)
<1>8. f[40] = 102334155 /\ f[41] = 165580141
  <2>1. f[32 + 8] = 13 * f[32] + 21 * f[32 + 1] /\ f[32 + 9] = 21 * f[32] + 34 * f[32 + 1]
    BY <1>3
  <2> QED
    BY <1>7, <2>1, SMTT(30)
<1>9. f[46] = 1836311903 /\ f[47] = 2971215073
  <2>1. f[40 + 6] = 5 * f[40] + 8 * f[40 + 1] /\ f[40 + 7] = 8 * f[40] + 13 * f[40 + 1]
    BY <1>3
  <2> QED
    BY <1>8, <2>1, SMTT(30)
<1> QED
  BY <1>9, SMTT(30) DEF MaxInt32

(* Where handle_goal computes in int32_t the numbers of an order fit when,  *)
(* and only when, the order is at most 47: of the 200 it accepts, 153 are   *)
(* too large.                                                               *)
THEOREM Int32Fits ==
  ASSUME IntMax = MaxInt32
  PROVE  \A n \in Int : Fits(n) <=> n <= 47
<1>1. PICK f : IsSequence(f)
  BY SequenceExists
<1>2. f[46] <= IntMax /\ IntMax < f[47] /\ IntMax \in Nat
  BY <1>1, FortySeven, FibonacciAssumption
<1>3. f \in [Nat -> Nat]
  BY <1>1 DEF IsSequence
<1>4. ASSUME NEW n \in Int, n <= 47 PROVE Fits(n)
  <2> DEFINE s == [i \in 1 .. n |-> f[i - 1]]
  <2>1. \A i \in 1 .. n : i - 1 \in Nat /\ i - 1 <= 46 /\ 46 \in Nat
    BY <1>4
  <2>2. \A i \in 1 .. n : f[i - 1] \in Nat /\ f[i - 1] <= f[46] /\ f[46] \in Nat
    BY <1>1, <1>3, <2>1, SequenceGrows
  <2>3. s \in [1 .. n -> 0 .. IntMax] /\ s \in [1 .. n -> Int] /\ \A i \in 1 .. n : s[i] = f[i - 1]
    BY <1>2, <2>2
  <2> HIDE DEF s
  <2>4. IsFibonacci(s)
    BY <1>1, <2>3, SequenceUnique
  <2> QED
    BY <2>3, <2>4 DEF Fits
<1>5. ASSUME NEW n \in Int, n > 47, Fits(n) PROVE FALSE
  <2>1. PICK s \in [1 .. n -> 0 .. IntMax] : IsFibonacci(s)
    BY <1>5 DEF Fits
  <2>2. s \in [1 .. n -> Int] /\ 48 \in 1 .. n /\ 48 - 1 = 47
    BY <1>2, <1>5
  <2>3. s[48] = f[48 - 1] /\ s[48] \in 0 .. IntMax
    <3>1. \A i \in 1 .. n : s[i] = f[i - 1]
      BY <1>1, <2>1, <2>2, SequenceUnique
    <3> QED
      BY <2>2, <3>1
  <2>4. s[48] = f[47] /\ f[47] \in Nat
    BY <1>3, <2>2, <2>3
  <2> QED
    BY <1>2, <2>3, <2>4
<1> QED
  BY <1>4, <1>5

Follows(d, s) == \A i \in DOMAIN d : i \in DOMAIN s /\ d[i] = s[i]

\* What a worker has computed so far is the beginning of the numbers of its order.
Numbers(g) ==
  IF worker[g].pc = "none" THEN worker[g].data = << >>
  ELSE \E s \in [1 .. order[g] -> 0 .. IntMax] : IsFibonacci(s) /\ Follows(worker[g].data, s)

NumbersInv == \A g \in Goals : Numbers(g)

\* A step that leaves a list alone leaves its numbers right.
LEMMA NumbersStay ==
  ASSUME NEW x \in Goals, Numbers(x), order' = order, worker'[x].data = worker[x].data,
         worker'[x].pc = "none" <=> worker[x].pc = "none"
  PROVE  Numbers(x)'
BY DEF Numbers, Follows, IsFibonacci

\* The empty list of a new worker begins the numbers of its order.
LEMMA NumbersBegin ==
  ASSUME IInv, NumbersInv, OrdersFit, NEW g \in Goals, HandleGoal(g)
  PROVE  NumbersInv'
<1>1. order' = order
  BY DEF HandleGoal
<1>2. CASE UNCHANGED worker
  BY <1>1, <1>2, NumbersStay DEF NumbersInv
<1>3. CASE ~UNCHANGED worker
  <2>1. PICK h \in Handles, pc \in {"start", "lost"} :
          /\ order[g] <= MaxOrder
          /\ handle' = [handle EXCEPT ![h] = [FreeHandle EXCEPT !.goal = g]]
          /\ worker' = [worker EXCEPT ![g].pc = pc, ![g].h = h]
    BY <1>3 DEF HandleGoal
  <2>2. /\ \A x \in Goals : x # g => worker'[x] = worker[x]
        /\ worker'[g].pc = pc /\ worker'[g].data = worker[g].data
    BY <2>1, AcceptEffect DEF IInv
  <2>3. worker[g].data = << >>
    BY DEF HandleGoal, IInv, MessageInv, GoalInv, NumbersInv, Numbers
  <2>4. PICK s \in [1 .. order[g] -> 0 .. IntMax] : IsFibonacci(s)
    BY <2>1 DEF OrdersFit, Fits, IInv, TypeOK
  <2>5. Follows(worker'[g].data, s)
    BY <2>2, <2>3 DEF Follows
  <2>6. Numbers(g)'
    BY <1>1, <2>2, <2>4, <2>5 DEF Numbers, IsFibonacci
  <2>7. \A x \in Goals : x # g => Numbers(x)'
    BY <1>1, <2>2, NumbersStay DEF NumbersInv
  <2> QED
    BY <2>6, <2>7 DEF NumbersInv
<1> QED
  BY <1>2, <1>3

\* The numbers 0 and 1 begin every list.
LEMMA NumbersStart ==
  ASSUME IInv, NumbersInv, NEW g \in Goals, WorkerStart(g)
  PROVE  NumbersInv'
<1>1. \A x \in Goals : x # g => Numbers(x)'
  BY WorkerStartEffect, NumbersStay DEF NumbersInv, IInv
<1>2. /\ order' = order /\ worker[g].pc = "start" /\ worker'[g].pc \in {"send", "loop"}
      /\ worker'[g].data = IF WorkerOrder(g) < 2 THEN worker[g].data ELSE << 0, 1 >>
  BY WorkerStartEffect DEF IInv
<1>3. CASE WorkerOrder(g) < 2
  <2>1. worker'[g].data = worker[g].data /\ (worker'[g].pc = "none" <=> worker[g].pc = "none")
    BY <1>2, <1>3
  <2>2. Numbers(g)'
    BY <1>2, <2>1, NumbersStay DEF NumbersInv
  <2> QED
    BY <1>1, <2>2 DEF NumbersInv
<1>4. CASE ~(WorkerOrder(g) < 2)
  <2>1. order[g] \in Int /\ WorkerOrder(g) = order[g]
    BY <1>2, WorkerFacts DEF Holds
  <2>2. PICK s \in [1 .. order[g] -> 0 .. IntMax] : IsFibonacci(s)
    BY <1>2 DEF NumbersInv, Numbers
  <2>3. 1 \in DOMAIN s /\ 2 \in DOMAIN s
    BY <1>4, <2>1
  <2>4. s[1] = 0 /\ s[2] = 1
    BY <2>2, <2>3 DEF IsFibonacci
  <2>5. Follows(<< 0, 1 >>, s)
    BY <2>3, <2>4 DEF Follows
  <2>6. Numbers(g)'
    BY <1>2, <1>4, <2>2, <2>5 DEF Numbers, IsFibonacci
  <2> QED
    BY <1>1, <2>6 DEF NumbersInv
<1> QED
  BY <1>1, <1>3, <1>4 DEF NumbersInv

\* A number that fits is the sum of the two before it: the addition does not wrap.
LEMMA NoWrap ==
  ASSUME NEW a \in 0 .. IntMax, NEW b \in 0 .. IntMax, NEW c \in 0 .. IntMax, c >= a, c - a = b
  PROVE  AddInt32(a, b) = c
BY FibonacciAssumption DEF AddInt32

\* The next number of the loop is the next of the order.
LEMMA NumbersNext ==
  ASSUME IInv, NumbersInv, NEW g \in Goals, WorkerBody(g)
  PROVE  NumbersInv'
<1> DEFINE d == worker[g].data
           n == Len(d)
           e == AddInt32(d[(n + 1) - 1], d[(n + 1) - 2])
<1>1. \A x \in Goals : x # g => Numbers(x)'
  BY WorkerBodyEffect, NumbersStay DEF NumbersInv
<1>2. /\ order' = order /\ worker[g].pc = "body" /\ worker'[g].pc = "loop"
      /\ worker'[g].data = Append(d, e)
  BY WorkerBodyEffect
<1>3. d \in Seq(Int) /\ n \in Nat /\ n >= 2 /\ n < order[g] /\ order[g] \in Int
  BY <1>2, WorkerFacts DEF IInv, WorkerInv, Computed
<1>4. PICK s \in [1 .. order[g] -> 0 .. IntMax] : IsFibonacci(s) /\ Follows(d, s)
  BY <1>2 DEF NumbersInv, Numbers
<1>5. e \in Int
  BY <1>3, NextNumber
<1> HIDE DEF e, n, d
<1>6. DOMAIN d = 1 .. n /\ DOMAIN Append(d, e) = 1 .. (n + 1)
      /\ Append(d, e)[n + 1] = e /\ \A i \in 1 .. n : Append(d, e)[i] = d[i]
  BY <1>3, <1>5 DEF n
<1>7. n \in DOMAIN s /\ n - 1 \in DOMAIN s /\ n + 1 \in DOMAIN s /\ n \in DOMAIN d /\ n - 1 \in DOMAIN d
  BY <1>3, <1>6
<1>8. s[n + 1] >= s[n] /\ s[n + 1] - s[n] = s[n - 1]
  <2>1. ~(n + 1 < 3) /\ (n + 1) - 1 = n /\ (n + 1) - 2 = n - 1
    BY <1>3
  <2>2. s[n + 1] >= s[(n + 1) - 1] /\ s[n + 1] - s[(n + 1) - 1] = s[(n + 1) - 2]
    BY <1>4, <1>7, <2>1 DEF IsFibonacci
  <2> QED
    BY <2>1, <2>2
<1>9. e = s[n + 1]
  <2>1. (n + 1) - 1 = n /\ (n + 1) - 2 = n - 1
    BY <1>3
  <2>2. e = AddInt32(s[n], s[n - 1])
    BY <1>4, <1>7, <2>1 DEF Follows, e
  <2> QED
    BY <1>7, <1>8, <2>2, NoWrap
<1>10. Follows(Append(d, e), s)
  <2>1. \A i \in 1 .. (n + 1) : i \in 1 .. n \/ i = n + 1
    BY <1>3
  <2> QED
    BY <1>4, <1>6, <1>7, <1>9, <2>1 DEF Follows
<1>11. Numbers(g)'
  BY <1>2, <1>4, <1>10 DEF Numbers, IsFibonacci
<1> QED
  BY <1>1, <1>11 DEF NumbersInv

\* No other step touches a list.
LEMMA NumbersKept == OrdersFit /\ IInv /\ NumbersInv /\ [Next]_vars => NumbersInv'
<1> SUFFICES ASSUME OrdersFit, IInv, NumbersInv, [Next]_vars
             PROVE  NumbersInv'
  OBVIOUS
<1>1. CASE order' = order /\ worker' = worker
  BY <1>1, NumbersStay DEF NumbersInv
<1>2. ASSUME NEW g \in Goals, HandleGoal(g) \/ WorkerStart(g) \/ WorkerBody(g)
      PROVE  NumbersInv'
  BY <1>2, NumbersBegin, NumbersStart, NumbersNext
<1>3. ASSUME NEW g \in Goals,
             WorkerLoop(g) \/ WorkerDecide(g) \/ WorkerSendResult(g) \/ WorkerFree(g)
      PROVE  NumbersInv'
  <2>1. ASSUME NEW x \in Goals
        PROVE  /\ order' = order /\ worker'[x].data = worker[x].data
               /\ worker'[x].pc = "none" <=> worker[x].pc = "none"
    BY <1>3, WorkerLoopEffect, WorkerDecideEffect, WorkerSendResultEffect, WorkerFreeEffect
       DEF IInv
  <2> QED
    BY <2>1, NumbersStay DEF NumbersInv
<1>4. ASSUME NEW g \in Goals, TakeResultRequest(g) \/ HandleCancel(g) \/ Client(g)
      PROVE  order' = order /\ worker' = worker
  BY <1>4 DEF TakeResultRequest, HandleCancel, Client, ClientInit, SendGoal, GoalResponse,
              ResultResponse, ClientExit
<1>5. CASE ServerInit \/ RespondAccepted \/ UNCHANGED vars
  BY <1>1, <1>5 DEF ServerInit, RespondAccepted, vars
<1> QED
  BY <1>1, <1>2, <1>3, <1>4, <1>5 DEF Next, Executor, Worker

(* When the numbers of the orders fit an int32, the list of a goal that     *)
(* succeeded is Fibonacci's, whatever the workers share and whoever cancels *)
(* what (SuccessIsFibonacci).                                               *)
THEOREM FibonacciNumbers == ASSUME OrdersFit PROVE Spec => []SuccessIsFibonacci
<1>1. Init => NumbersInv
  <2> SUFFICES ASSUME Init, NEW g \in Goals PROVE Numbers(g)
    BY DEF NumbersInv
  <2>1. worker[g] = [pc |-> "none", h |-> AnyHandle, state |-> NoGoal, data |-> << >>]
    BY DEF Init
  <2> QED
    BY <2>1 DEF Numbers
<1>2. IInv /\ NumbersInv /\ [Next]_vars => NumbersInv'
  BY NumbersKept
<1>3. IInv /\ NumbersInv => SuccessIsFibonacci
  <2> SUFFICES ASSUME IInv, NumbersInv, NEW g \in Goals, worker[g].state = "succeeded"
               PROVE  IsFibonacci(worker[g].data)
    BY DEF SuccessIsFibonacci
  <2> DEFINE d == worker[g].data
  <2>1. worker[g].pc # "none"
    BY DEF IInv, WorkerInv, Computed, NoGoal
  <2>2. PICK s \in [1 .. order[g] -> 0 .. IntMax] : IsFibonacci(s) /\ Follows(d, s)
    BY <2>1 DEF NumbersInv, Numbers
  <2>3. d \in Seq(Int)
    BY WorkerFacts
  <2> HIDE DEF d
  <2>4. \A i \in DOMAIN d : i \in Int /\ (~(i < 3) => i - 1 \in DOMAIN d /\ i - 2 \in DOMAIN d)
    BY <2>3
  <2>5. IsFibonacci(d)
    BY <2>2, <2>4 DEF IsFibonacci, Follows
  <2> QED
    BY <2>5 DEF d
<1> QED
  BY <1>1, <1>2, <1>3, Initially, Inductive, PTL DEF Spec

(* In int32_t this is so when every order is at most 47 or rejected.        *)
THEOREM Int32Numbers ==
  ASSUME IntMax = MaxInt32, \A n \in Orders : n <= 47 \/ n > MaxOrder
  PROVE  Spec => []SuccessIsFibonacci
<1>1. OrdersFit
  BY Int32Fits, FibonacciAssumption DEF OrdersFit
<1> QED
  BY <1>1, FibonacciNumbers
-----------------------------------------------------------------------------
(* The goals implement the abstract action goals. *)
Statuses == [g \in Goals |-> Status(g)]

\* A status stays as long as what it stands for does.
LEMMA SameStatus ==
  ASSUME NEW x \in Goals,
         worker'[x].pc = "none" <=> worker[x].pc = "none",
         Ended(x)' <=> Ended(x),
         Ended(x) => worker'[x].state = worker[x].state,
         Holds(x) => (Cancelled(x)' <=> Cancelled(x)),
         worker[x].pc = "none" =>
           (   Request("rejected", x) \in net' \/ client'[x].completed
           <=> Request("rejected", x) \in net \/ client[x].completed)
  PROVE  Status(x)' = Status(x)
<1>1. CASE Ended(x)
  BY <1>1 DEF Status, Ended
<1>2. CASE worker[x].pc = "none"
  BY <1>2 DEF Status, Ended
<1>3. CASE Holds(x)
  BY <1>3 DEF Status, Ended, Holds
<1> QED
  BY <1>1, <1>2, <1>3 DEF Ended, Holds

\* When no status changes, the abstract specification stutters.
LEMMA Stutters ==
  ASSUME \A x \in Goals : Status(x)' = Status(x)
  PROVE  Statuses' = Statuses
BY DEF Statuses

\* When one status changes as a goal's may, the abstract specification takes a step.
LEMMA Moves ==
  ASSUME NEW g \in Goals,
         \A x \in Goals : x # g => Status(x)' = Status(x),
         \/ Status(g) = "unknown" /\ Status(g)' \in {"executing", "rejected"}
         \/ Status(g) = "executing" /\ Status(g)' = "canceling"
         \/ /\ Status(g) \in {"executing", "canceling"}
            /\ Status(g)' \in {"succeeded", "aborted"}
         \/ Status(g) = "canceling" /\ Status(g)' = "canceled"
  PROVE  Abstract!Next
<1> DEFINE s == Status(g)'
<1>1. Statuses' = [Statuses EXCEPT ![g] = s] /\ Statuses[g] = Status(g)
  BY DEF Statuses
<1> HIDE DEF s
<1>2. CASE Status(g) = "unknown" /\ s \in {"executing", "rejected"}
  BY <1>1, <1>2 DEF Abstract!Next, Abstract!Answer, Statuses
<1>3. CASE Status(g) = "executing" /\ s = "canceling"
  BY <1>1, <1>3 DEF Abstract!Next, Abstract!Cancel, Statuses
<1>4. CASE Status(g) \in {"executing", "canceling"} /\ s \in {"succeeded", "aborted"}
  BY <1>1, <1>4 DEF Abstract!Next, Abstract!End, Statuses
<1>5. CASE Status(g) = "canceling" /\ s = "canceled"
  BY <1>1, <1>5 DEF Abstract!Next, Abstract!End, Statuses
<1> QED
  BY <1>2, <1>3, <1>4, <1>5 DEF s

\* What the executor does to the status of a goal.
LEMMA ExecutorRefines ==
  ASSUME IInv, NEW g \in Goals, Executor(g) \/ HandleCancel(g)
  PROVE  Abstract!Next \/ Statuses' = Statuses
<1> USE DEF IInv
<1>1. CASE HandleGoal(g) /\ order[g] > MaxOrder
  <2>1. /\ net' = (net \ {Request("goal", g)}) \cup {Request("rejected", g)}
        /\ UNCHANGED << handle, worker, client >>
        /\ worker[g].pc = "none" /\ ~client[g].completed /\ Request("rejected", g) \notin net
    BY <1>1, WorkerFacts, FibonacciAssumption DEF HandleGoal, MessageInv, GoalInv
  <2>2. \A x \in Goals : x # g => Status(x)' = Status(x)
    BY <2>1, RequestFacts DEF Status, Cancelled
  <2>3. Status(g) = "unknown" /\ Status(g)' = "rejected"
    BY <2>1 DEF Status
  <2> QED
    BY <2>2, <2>3, Moves
<1>5. CASE /\ UNCHANGED << handle, worker, client >>
           /\ net' = net \ {Request("goal", g)}
  <2>1. ASSUME NEW x \in Goals
        PROVE  Status(x)' = Status(x)
    BY <1>5, RequestFacts DEF Status, Cancelled
  <2> QED
    BY <2>1, Stutters
<1>2. CASE /\ HandleGoal(g) /\ ~(order[g] > MaxOrder)
           /\ ~UNCHANGED << handle, worker >>
  <2>1. /\ Request("goal", g) \in net /\ net' = net \ {Request("goal", g)}
        /\ UNCHANGED client
    BY <1>2 DEF HandleGoal
  <2>2. PICK h \in Handles, pc \in {"start", "lost"} :
          /\ handle[h].goal = NoGoal
          /\ handle' = [handle EXCEPT ![h] = [FreeHandle EXCEPT !.goal = g]]
          /\ worker' = [worker EXCEPT ![g].pc = pc, ![g].h = h]
    BY <1>2 DEF HandleGoal
  <2>3. /\ \A x \in Handles : x # h => handle'[x] = handle[x]
        /\ \A x \in Goals : x # g => worker'[x] = worker[x]
        /\ worker'[g].pc = pc /\ worker'[g].h = h
    BY <2>2, AcceptEffect
  <2>4. ~handle'[h].cancelled
    BY <2>2 DEF TypeOK, FreeHandle
  <2>5. worker[g].pc = "none" /\ ~client[g].completed /\ Request("rejected", g) \notin net
    BY <2>1 DEF MessageInv, GoalInv
  <2>6. ASSUME NEW x \in Goals, x # g
        PROVE  Status(x)' = Status(x)
    <3>1. worker'[x] = worker[x]
      BY <2>3, <2>6
    <3>2. Holds(x) => (Cancelled(x)' <=> Cancelled(x))
      <4>1. Holds(x) => worker[x].h \in Handles /\ worker[x].h # h
        BY <2>2, WorkerFacts, NoGoalAssumption DEF HandleInv
      <4> QED
        BY <3>1, <4>1, <2>3 DEF Cancelled
    <3>3. Request("rejected", x) \in net' <=> Request("rejected", x) \in net
      BY <2>1, RequestFacts
    <3> QED
      BY <2>1, <3>1, <3>2, <3>3, SameStatus DEF Ended
  <2>7. Status(g) = "unknown" /\ Status(g)' = "executing"
    BY <2>3, <2>4, <2>5 DEF Status, Cancelled
  <2> QED
    BY <2>6, <2>7, Moves
<1>3. CASE HandleCancel(g)
  <2>1. PICK h \in Handles : /\ handle[h].goal = g /\ ~handle[h].cancelled
                             /\ handle' = [handle EXCEPT ![h].cancelled = TRUE]
    BY <1>3 DEF HandleCancel
  <2>2. UNCHANGED << worker, client, net >>
    BY <1>3 DEF HandleCancel
  <2>3. Holds(g) /\ worker[g].h = h
    BY <2>1, NoGoalAssumption DEF HandleInv
  <2>4. handle'[h].cancelled /\ \A x \in Handles : x # h => handle'[x] = handle[x]
    BY <2>1 DEF TypeOK, GoalHandles
  <2>5. ASSUME NEW x \in Goals, x # g
        PROVE  Status(x)' = Status(x)
    <3>1. Holds(x) => worker[x].h \in Handles /\ worker[x].h # h
      BY <2>1, <2>5, WorkerFacts DEF HandleInv
    <3>2. Holds(x) => (Cancelled(x)' <=> Cancelled(x))
      BY <3>1, <2>2, <2>4 DEF Cancelled
    <3> QED
      BY <2>2, <3>2, SameStatus DEF Ended
  <2>6. Status(g) = "executing" /\ Status(g)' = "canceling"
    BY <2>1, <2>2, <2>3, <2>4 DEF Status, Holds, Cancelled
  <2> QED
    BY <2>5, <2>6, Moves
<1>4. CASE TakeResultRequest(g)
  <2>1. ASSUME NEW x \in Goals
        PROVE  Status(x)' = Status(x)
    <3>1. Holds(x) => (Cancelled(x)' <=> Cancelled(x))
      BY <1>4, TakeResultRequestEffect, WorkerFacts DEF Cancelled
    <3>2. Request("rejected", x) \in net' <=> Request("rejected", x) \in net
      BY <1>4, RequestFacts DEF TakeResultRequest
    <3> QED
      BY <1>4, <3>1, <3>2, TakeResultRequestEffect, SameStatus DEF Ended
  <2> QED
    BY <2>1, Stutters
<1>6. CASE /\ HandleGoal(g) /\ ~(order[g] > MaxOrder)
           /\ UNCHANGED << handle, worker >>
  <2>1. net' = net \ {Request("goal", g)} /\ UNCHANGED client
    BY <1>6 DEF HandleGoal
  <2> QED
    BY <1>5, <1>6, <2>1
<1> QED
  BY <1>1, <1>2, <1>3, <1>4, <1>6 DEF Executor

\* What a worker does to the status of its goal.
LEMMA WorkerRefines ==
  ASSUME IInv, NEW g \in Goals, Worker(g)
  PROVE  Abstract!Next \/ Statuses' = Statuses
<1> USE DEF IInv
<1>1. CASE WorkerSendResult(g)
  <2>1. ASSUME NEW x \in Goals, x # g
        PROVE  Status(x)' = Status(x)
    <3>1. /\ worker'[x].pc = worker[x].pc /\ worker'[x].h = worker[x].h
          /\ worker'[x].state = worker[x].state /\ UNCHANGED client
      BY <1>1, <2>1, WorkerSendResultEffect
    <3>2. Holds(x) => (Cancelled(x)' <=> Cancelled(x))
      BY <1>1, <2>1, <3>1, WorkerSendResultEffect, WorkerSendResultFrees, WorkerFacts
         DEF HandleInv, Holds, Cancelled
    <3>3. Request("rejected", x) \in net' <=> Request("rejected", x) \in net
      BY <1>1, WorkerSendResultFrees, RequestFacts
    <3> QED
      BY <3>1, <3>2, <3>3, SameStatus DEF Ended
  <2>2. worker[g].pc = "send" /\ worker'[g].pc = "free" /\ worker'[g].state = worker[g].state
    BY <1>1, WorkerSendResultEffect
  <2>3. worker[g].state \in States /\ (worker[g].state = "canceled" => Cancelled(g))
    <3>1. worker[g].state \in States \cup {NoGoal}
      BY DEF TypeOK, Workers
    <3> QED
      BY <2>2, <3>1 DEF WorkerInv, Computed
  <2>4. Status(g) = (IF Cancelled(g) THEN "canceling" ELSE "executing")
    BY <2>2 DEF Status
  <2>5. Status(g)' = worker[g].state
    BY <2>2 DEF Status
  <2> QED
    BY <2>1, <2>3, <2>4, <2>5, Moves DEF States
<1>2. CASE \/ WorkerStart(g) \/ WorkerLoop(g) \/ WorkerBody(g)
           \/ WorkerDecide(g) \/ WorkerFree(g)
  <2>1. UNCHANGED << handle, client, net >>
    BY <1>2 DEF WorkerStart, WorkerLoop, WorkerBody, WorkerDecide, WorkerFree
  <2>2. ASSUME NEW x \in Goals
        PROVE  /\ worker'[x].pc = "none" <=> worker[x].pc = "none"
               /\ worker'[x].pc \in {"free", "exited"} <=> worker[x].pc \in {"free", "exited"}
               /\ worker[x].pc \in {"free", "exited"} => worker'[x].state = worker[x].state
               /\ worker'[x].h = worker[x].h
    BY <1>2, WorkerStartEffect, WorkerLoopEffect, WorkerBodyEffect, WorkerDecideEffect,
       WorkerFreeEffect
  <2>3. ASSUME NEW x \in Goals
        PROVE  Status(x)' = Status(x)
    BY <2>1, <2>2, SameStatus DEF Ended, Cancelled
  <2> QED
    BY <2>3, Stutters
<1> QED
  BY <1>1, <1>2 DEF Worker

\* Clients do not change the status of any goal.
LEMMA ClientRefines ==
  ASSUME IInv, NEW g \in Goals, Client(g)
  PROVE  Statuses' = Statuses
<1> USE DEF IInv
<1>1. UNCHANGED << handle, worker >>
  BY DEF Client, ClientInit, SendGoal, GoalResponse, ResultResponse, ClientExit
<1>2. ASSUME NEW x \in Goals, worker[x].pc = "none"
      PROVE      Request("rejected", x) \in net' \/ client'[x].completed
             <=> Request("rejected", x) \in net \/ client[x].completed
  <2>1. CASE ClientInit(g)
    BY <2>1, ClientInitEffect
  <2>2. CASE SendGoal(g)
    BY <2>2, SendGoalEffect, RequestFacts
  <2>3. CASE GoalResponse(g)
    BY <1>2, <2>3, GoalResponseEffect, RequestFacts
  <2>4. CASE ResultResponse(g)
    <3>1. PICK m \in net : m.kind = "result" /\ m.goal = g
      BY <2>4 DEF ResultResponse
    <3>2. x # g
      BY <1>2, <3>1 DEF MessageInv, Ended
    <3>3. Request("rejected", x) \in net' <=> Request("rejected", x) \in net
      BY <2>4, ResultResponseEffect
    <3> QED
      BY <2>4, <3>2, <3>3, ResultResponseEffect
  <2>5. CASE ClientExit(g)
    BY <2>5, ClientExitEffect
  <2> QED
    BY <2>1, <2>2, <2>3, <2>4, <2>5 DEF Client
<1>3. ASSUME NEW x \in Goals
      PROVE  Status(x)' = Status(x)
  BY <1>1, <1>2, SameStatus DEF Ended, Cancelled
<1> QED
  BY <1>3, Stutters

(* Every goal goes through the states of an action: it is rejected or       *)
(* executed, ends at most once, and canceled only after a cancel request.   *)
THEOREM Refinement == Spec => ImplementsActionGoals
<1>1. Init => Abstract!Init
  BY DEF Init, Abstract!Init, Status
<1>2. IInv /\ [Next]_vars => [Abstract!Next]_Statuses
  <2> SUFFICES ASSUME IInv, [Next]_vars
               PROVE  Abstract!Next \/ Statuses' = Statuses
    OBVIOUS
  <2>1. CASE UNCHANGED vars
    BY <2>1 DEF vars, Statuses, Status, Cancelled
  <2>2. CASE ServerInit
    BY <2>2 DEF ServerInit, Statuses, Status, Cancelled
  <2>3. CASE RespondAccepted
    <3>1. ASSUME NEW x \in Goals
          PROVE  Status(x)' = Status(x)
      BY <2>3, RequestFacts DEF RespondAccepted, Status, Cancelled
    <3> QED
      BY <3>1, Stutters
  <2> QED
    BY <2>1, <2>2, <2>3, ExecutorRefines, WorkerRefines, ClientRefines DEF Next
<1>3. IInv /\ [Next]_vars => [Abstract!Next]_[g \in Goals |-> Status(g)]
  BY <1>2 DEF Statuses
<1> QED
  BY <1>1, <1>3, Invariant, PTL DEF Spec, ImplementsActionGoals, Abstract!Spec
=============================================================================
