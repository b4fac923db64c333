-------------------------- MODULE FibonacciAction --------------------------
(***************************************************************************)
(* rclc/fibonacci_action_server with clients running                       *)
(* rclc/fibonacci_action_client, each with one goal.                       *)
(*                                                                         *)
(* The server's executor thread answers requests; every accepted goal has  *)
(* a worker thread, which shares its goal handle with the executor and     *)
(* frees it by sending the result.  The rclc library, external, keeps the  *)
(* pool of handles, sets goal_cancelled, asks for the result on behalf of  *)
(* a client whose goal is accepted, and accepts a result only after that.  *)
(***************************************************************************)
EXTENDS Integers, Sequences

CONSTANTS
  Goals,        \* one client and one goal for each
  Orders,       \* the orders clients ask for; goal_order is 10
  MaxOrder,     \* larger orders are rejected: 200
  Handles,      \* the server's goal handles: 10
  IntMax,       \* the largest int32
  Cancellable,  \* goals that some other client may ask to cancel
  Garbage,      \* what an uninitialised pointer may be: "null" or "wild"
  Faulty        \* may library calls, malloc and pthread_create fail?

ASSUME FibonacciAssumption ==
  /\ Orders \subseteq Int
  /\ {MaxOrder, IntMax} \subseteq Nat
  /\ Handles # {}
  /\ Cancellable \subseteq Goals
  /\ Garbage \subseteq {"null", "wild"} /\ Garbage # {}
  /\ Faulty \in BOOLEAN

\* where there is no goal, and no final state yet
NoGoal == "none"

ASSUME NoGoalAssumption == NoGoal \notin Goals

VARIABLES
  order,    \* req->goal.order of each goal
  server,   \* the process: its main thread, and the goal it is answering
  handle,   \* the pool: whose goal, goal_cancelled, has the result been asked for
  worker,   \* the worker threads
  client,   \* the clients' main loops
  net       \* requests and responses on their way, in no order

vars == << order, server, handle, worker, client, net >>

AnyHandle == CHOOSE h \in Handles : TRUE
FreeHandle == [goal |-> NoGoal, cancelled |-> FALSE, asked |-> FALSE]

States == {"succeeded", "canceled", "aborted"}
Request(kind, g) == [kind |-> kind, goal |-> g]
Messages == [kind : {"goal", "accepted", "rejected", "getResult"}, goal : Goals]
            \cup [kind : {"result"}, goal : Goals, status : States]

Processes == [pc : {"init", "spin", "respond", "exited", "crashed"}, goal : Goals \cup {NoGoal}]
GoalHandles == [goal : Goals \cup {NoGoal}, cancelled : BOOLEAN, asked : BOOLEAN]
\* "lost": the thread of an accepted goal that could not be created
Workers == [pc : {"none", "lost", "start", "loop", "body", "decide", "send", "free", "exited"},
            h : Handles, state : States \cup {NoGoal}, data : Seq(Int)]
\* a client without an executor hears nothing
Clients == [pc : {"init", "send", "loop", "exited"}, executor : BOOLEAN, completed : BOOLEAN]

TypeOK ==
  /\ order \in [Goals -> Orders]
  /\ server \in Processes
  /\ handle \in [Handles -> GoalHandles]
  /\ worker \in [Goals -> Workers]
  /\ client \in [Goals -> Clients]
  /\ net \subseteq Messages

Init ==
  /\ order \in [Goals -> Orders]
  /\ server = [pc |-> "init", goal |-> NoGoal]
  /\ handle = [h \in Handles |-> FreeHandle]
  /\ worker = [g \in Goals |-> [pc |-> "none", h |-> AnyHandle, state |-> NoGoal,
                               data |-> << >>]]
  /\ client = [g \in Goals |-> [pc |-> "init", executor |-> FALSE, completed |-> FALSE]]
  /\ net = {}

(* Definitions named Bug... are not part of the specification: see          *)
(* SpscQueue.                                                               *)
-----------------------------------------------------------------------------
(* The server's main thread. *)

\* up to the endless loop; a failed RCCHECK returns from main
ServerInit ==
  /\ server.pc = "init"
  /\ \/ server' = [server EXCEPT !.pc = "spin"]
     \/ Faulty /\ server' = [server EXCEPT !.pc = "exited"]
  /\ UNCHANGED << order, handle, worker, client, net >>

\* handle_goal: a free handle is taken for the request.  On acceptance the
\* worker runs before the client has been told; a goal whose thread cannot be
\* created is accepted all the same, and a failed malloc ends the process.
HandleGoal(g) ==
  /\ server.pc = "spin" /\ Request("goal", g) \in net
  /\ \E h \in Handles :
       /\ handle[h].goal = NoGoal
       /\ \/ /\ order[g] > MaxOrder
             /\ net' = (net \ {Request("goal", g)}) \cup {Request("rejected", g)}
             /\ UNCHANGED << handle, worker, server >>
          \/ /\ order[g] <= MaxOrder
             /\ handle' = [handle EXCEPT ![h] = [FreeHandle EXCEPT !.goal = g]]
             /\ \E pc \in {"start"} \cup IF Faulty THEN {"lost"} ELSE {} :
                  worker' = [worker EXCEPT ![g].pc = pc, ![g].h = h]
             /\ server' = [pc |-> "respond", goal |-> g]
             /\ net' = net \ {Request("goal", g)}
          \/ /\ order[g] <= MaxOrder /\ Faulty
             /\ server' = [server EXCEPT !.pc = "crashed"]
             /\ net' = net \ {Request("goal", g)}
             /\ UNCHANGED << handle, worker >>
  /\ UNCHANGED << order, client >>

\* what the library does with RCL_RET_ACTION_GOAL_ACCEPTED
RespondAccepted ==
  /\ server.pc = "respond"
  /\ net' = net \cup {Request("accepted", server.goal)}
  /\ server' = [pc |-> "spin", goal |-> NoGoal]
  /\ UNCHANGED << order, handle, worker, client >>

\* handle_cancel agrees to every request; the library sets goal_cancelled
HandleCancel(g) ==
  /\ server.pc = "spin" /\ g \in Cancellable
  /\ \E h \in Handles :
       /\ handle[h].goal = g /\ ~handle[h].cancelled
       /\ handle' = [handle EXCEPT ![h].cancelled = TRUE]
  /\ UNCHANGED << order, server, worker, client, net >>

\* the library notes that the client waits for the result
TakeResultRequest(g) ==
  /\ server.pc = "spin" /\ Request("getResult", g) \in net
  /\ \E h \in Handles :
       /\ handle[h].goal = g
       /\ handle' = [handle EXCEPT ![h].asked = TRUE]
  /\ net' = net \ {Request("getResult", g)}
  /\ UNCHANGED << order, server, worker, client >>
-----------------------------------------------------------------------------
(* A worker thread: fibonacci_worker. *)

Alive == server.pc \notin {"exited", "crashed"}

\* int32_t addition, which wraps in the builds there are
AddInt32(a, b) ==
  IF \/ b > 0 /\ a > IntMax - b
     \/ b < 0 /\ a < (-IntMax - 1) - b
  THEN IF b > 0 THEN (a - IntMax - 1) + (b - IntMax - 1) ELSE (a + IntMax + 1) + (b + IntMax + 1)
  ELSE a + b

\* the order and goal_cancelled as the worker sees them, through its handle
WorkerOrder(g) == order[handle[worker[g].h].goal]
Cancelled(g) == handle[worker[g].h].cancelled

\* goal_state is left unset
BugNoState(g) ==
  /\ Alive /\ worker[g].pc = "start"
  /\ worker' = [worker EXCEPT ![g] =
       IF WorkerOrder(g) < 2
       THEN [@ EXCEPT !.pc = "send"]
       ELSE [@ EXCEPT !.pc = "loop", !.data = << 0, 1 >>]]
  /\ UNCHANGED << order, server, handle, client, net >>

\* an order below 2 is aborted at once; a failed malloc ends the process
WorkerStart(g) ==
  /\ Alive /\ worker[g].pc = "start"
  /\ worker' = [worker EXCEPT ![g] =
       IF WorkerOrder(g) < 2
       THEN [@ EXCEPT !.pc = "send", !.state = "aborted"]
       ELSE [@ EXCEPT !.pc = "loop", !.data = << 0, 1 >>]]
  /\ \/ UNCHANGED server
     \/ Faulty /\ WorkerOrder(g) >= 2 /\ server' = [server EXCEPT !.pc = "crashed"]
  /\ UNCHANGED << order, handle, client, net >>

\* the condition of the loop
WorkerLoop(g) ==
  /\ Alive /\ worker[g].pc = "loop"
  /\ worker' = [worker EXCEPT ![g].pc =
       IF Len(worker[g].data) < WorkerOrder(g) /\ ~Cancelled(g) THEN "body" ELSE "decide"]
  /\ UNCHANGED << order, server, handle, client, net >>

\* the last number twice
BugWorkerBody(g) ==
  /\ Alive /\ worker[g].pc = "body"
  /\ worker' = [worker EXCEPT ![g].pc = "loop",
       ![g].data = LET i == Len(@) + 1 IN Append(@, AddInt32(@[i - 1], @[i - 1]))]
  /\ UNCHANGED << order, server, handle, client, net >>

\* the next number, and the feedback, which clients only print
WorkerBody(g) ==
  /\ Alive /\ worker[g].pc = "body"
  /\ worker' = [worker EXCEPT ![g].pc = "loop",
       ![g].data = LET i == Len(@) + 1 IN Append(@, AddInt32(@[i - 1], @[i - 2]))]
  /\ UNCHANGED << order, server, handle, client, net >>

\* whatever ended the loop
BugAlwaysSucceeds(g) ==
  /\ Alive /\ worker[g].pc = "decide"
  /\ worker' = [worker EXCEPT ![g].pc = "send", ![g].state = "succeeded"]
  /\ UNCHANGED << order, server, handle, client, net >>

\* the negation lost
BugDecideSwapped(g) ==
  /\ Alive /\ worker[g].pc = "decide"
  /\ worker' = [worker EXCEPT ![g].pc = "send",
       ![g].state = IF Cancelled(g) THEN "succeeded" ELSE "canceled"]
  /\ UNCHANGED << order, server, handle, client, net >>

\* goal_cancelled, read once more
WorkerDecide(g) ==
  /\ Alive /\ worker[g].pc = "decide"
  /\ worker' = [worker EXCEPT ![g].pc = "send",
       ![g].state = IF Cancelled(g) THEN "canceled" ELSE "succeeded"]
  /\ UNCHANGED << order, server, handle, client, net >>

Result(g) == [kind |-> "result", goal |-> g, status |-> worker[g].state]

\* one attempt, whatever comes of it
BugSendOnce(g) ==
  /\ Alive /\ worker[g].pc = "send"
  /\ IF handle[worker[g].h].asked
     THEN /\ net' = net \cup {Result(g)}
          /\ handle' = [handle EXCEPT ![worker[g].h] = FreeHandle]
     ELSE UNCHANGED << net, handle >>
  /\ worker' = [worker EXCEPT ![g].pc = "free"]
  /\ UNCHANGED << order, server, client >>

\* a round too many
BugSendAgain(g) ==
  /\ Alive /\ worker[g].pc = "send"
  /\ handle[worker[g].h].asked
  /\ net' = net \cup {Result(g)}
  /\ handle' = [handle EXCEPT ![worker[g].h] = FreeHandle]
  /\ UNCHANGED << order, server, worker, client >>

\* rclc_action_send_result, repeated until it succeeds; the handle is free then
WorkerSendResult(g) ==
  /\ Alive /\ worker[g].pc = "send"
  /\ handle[worker[g].h].asked
  /\ net' = net \cup {Result(g)}
  /\ handle' = [handle EXCEPT ![worker[g].h] = FreeHandle]
  /\ worker' = [worker EXCEPT ![g].pc = "free"]
  /\ UNCHANGED << order, server, client >>

\* free(feedback.feedback.sequence.data), never set if the goal was aborted
WorkerFree(g) ==
  /\ Alive /\ worker[g].pc = "free"
  /\ \E pointer \in IF worker[g].state = "aborted" THEN Garbage ELSE {"null"} :
       server' = IF pointer = "wild" THEN [server EXCEPT !.pc = "crashed"] ELSE server
  /\ worker' = [worker EXCEPT ![g].pc = "exited"]
  /\ UNCHANGED << order, handle, client, net >>
-----------------------------------------------------------------------------
(* A client. *)

\* up to the sleep before the goal request; a failed RCCHECK returns from main,
\* but rclc_executor_init is not under one
ClientInit(g) ==
  /\ client[g].pc = "init"
  /\ \/ client' = [client EXCEPT ![g].pc = "send", ![g].executor = TRUE]
     \/ Faulty /\ client' = [client EXCEPT ![g].pc = "send"]
     \/ Faulty /\ client' = [client EXCEPT ![g].pc = "exited"]
  /\ UNCHANGED << order, server, handle, worker, net >>

SendGoal(g) ==
  /\ client[g].pc = "send"
  /\ \/ /\ client' = [client EXCEPT ![g].pc = "loop"]
        /\ net' = net \cup {Request("goal", g)}
     \/ /\ Faulty
        /\ client' = [client EXCEPT ![g].pc = "exited"]
        /\ UNCHANGED net
  /\ UNCHANGED << order, server, handle, worker >>

\* a client content with being accepted
BugGoalResponse(g) ==
  /\ client[g].pc = "loop" /\ client[g].executor
  /\ \/ /\ Request("accepted", g) \in net
        /\ net' = (net \ {Request("accepted", g)}) \cup {Request("getResult", g)}
        /\ client' = [client EXCEPT ![g].completed = TRUE]
     \/ /\ Request("rejected", g) \in net
        /\ net' = net \ {Request("rejected", g)}
        /\ UNCHANGED client
  /\ UNCHANGED << order, server, handle, worker >>

\* goal_request_callback; the library then asks for an accepted goal's result
GoalResponse(g) ==
  /\ client[g].pc = "loop" /\ client[g].executor
  /\ \/ /\ Request("accepted", g) \in net
        /\ net' = (net \ {Request("accepted", g)}) \cup {Request("getResult", g)}
        /\ UNCHANGED client
     \/ /\ Request("rejected", g) \in net
        /\ net' = net \ {Request("rejected", g)}
        /\ client' = [client EXCEPT ![g].completed = TRUE]
  /\ UNCHANGED << order, server, handle, worker >>

\* result_request_callback
ResultResponse(g) ==
  /\ client[g].pc = "loop" /\ client[g].executor
  /\ \E m \in net :
       /\ m.kind = "result" /\ m.goal = g
       /\ net' = net \ {m}
  /\ client' = [client EXCEPT ![g].completed = TRUE]
  /\ UNCHANGED << order, server, handle, worker >>

\* while (!goal_completed), and the calls after it, whose failure changes no more
ClientExit(g) ==
  /\ client[g].pc = "loop" /\ client[g].completed
  /\ client' = [client EXCEPT ![g].pc = "exited"]
  /\ UNCHANGED << order, server, handle, worker, net >>
-----------------------------------------------------------------------------
Executor(g) == HandleGoal(g) \/ TakeResultRequest(g)

Worker(g) == \/ WorkerStart(g) \/ WorkerLoop(g) \/ WorkerBody(g)
             \/ WorkerDecide(g) \/ WorkerSendResult(g) \/ WorkerFree(g)

Client(g) == \/ ClientInit(g) \/ SendGoal(g) \/ GoalResponse(g)
             \/ ResultResponse(g) \/ ClientExit(g)

Next ==
  \/ ServerInit \/ RespondAccepted
  \/ \E g \in Goals : Executor(g) \/ HandleCancel(g) \/ Worker(g) \/ Client(g)

Spec == Init /\ [][Next]_vars

(* Threads and processes are scheduled by a POSIX system, and both main     *)
(* loops spin for ever, every request being taken in some round.  Nobody    *)
(* needs to cancel.                                                         *)
Fairness ==
  /\ WF_vars(ServerInit) /\ WF_vars(RespondAccepted)
  /\ \A g \in Goals : /\ WF_vars(HandleGoal(g)) /\ WF_vars(TakeResultRequest(g))
                      /\ WF_vars(Worker(g)) /\ WF_vars(Client(g))

FairSpec == Spec /\ Fairness
-----------------------------------------------------------------------------
(* Properties. *)

(* As long as a worker may follow its goal handle, the handle is still that *)
(* of its own goal: the executor, which reuses handles, has not given it to *)
(* another.                                                                 *)
WorkersOwnHandle ==
  \A g \in Goals :
    worker[g].pc \notin {"none", "free", "exited"} => handle[worker[g].h].goal = g

IsFibonacci(s) ==
  \A i \in DOMAIN s : IF i < 3 THEN s[i] = i - 1
                      ELSE s[i] >= s[i - 1] /\ s[i] - s[i - 1] = s[i - 2]

(* A goal that is reported to have succeeded has all the numbers that were  *)
(* asked for, wherever a cancel request fell between the two reads of       *)
(* goal_cancelled.                                                          *)
SuccessIsComplete ==
  \A g \in Goals : worker[g].state = "succeeded" => Len(worker[g].data) = order[g]

(* And the numbers are the Fibonacci numbers: orders too big for int32 are  *)
(* rejected.                                                                *)
SuccessIsFibonacci ==
  \A g \in Goals : worker[g].state = "succeeded" => IsFibonacci(worker[g].data)

Rejected(g) == order[g] > MaxOrder

(* A client leaves its loop only when its goal was rejected or its worker   *)
(* has sent the result: acceptance or feedback do not end it.               *)
CompletedMeansEnded ==
  \A g \in Goals : client[g].completed =>
    Rejected(g) \/ worker[g].pc \in {"free", "exited"}

\* The state of a goal that the handle, the thread and the messages stand for.
Status(g) ==
  CASE worker[g].pc \in {"free", "exited"} -> worker[g].state
    [] worker[g].pc = "none" ->
         IF Request("rejected", g) \in net \/ client[g].completed THEN "rejected" ELSE "unknown"
    [] OTHER -> IF Cancelled(g) THEN "canceling" ELSE "executing"

Abstract == INSTANCE ActionGoals WITH status <- [g \in Goals |-> Status(g)]

(* Every goal goes through the states of an action and ends at most once,   *)
(* and it ends canceled only after a cancel request.                        *)
ImplementsActionGoals == Abstract!Spec

\* An accepted goal that keeps its handle for ever: it has no thread, or nobody
\* asks for its result.
Stuck(g) == worker[g].pc = "lost" \/ (client[g].pc = "loop" /\ ~client[g].executor)
AllHandlesStuck ==
  \A h \in Handles : handle[h].goal # NoGoal /\ Stuck(handle[h].goal)

(* Every client that hears and has sent its goal gets to the end of its     *)
(* loop: accepted goals get their result although the first attempts to     *)
(* send it fail, and rejected ones do not wait for one.  Nothing but the    *)
(* failures that the code overlooks keeps a client waiting: the server is   *)
(* gone, the goal has no thread, or such goals hold every handle.           *)
ClientsEnd ==
  \A g \in Goals : client[g].pc = "loop" /\ client[g].executor ~>
    client[g].pc = "exited" \/ ~Alive \/ worker[g].pc = "lost" \/ AllHandlesStuck
=============================================================================
