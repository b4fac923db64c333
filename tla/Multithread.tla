----------------------------- MODULE Multithread -----------------------------
(***************************************************************************)
(* multithread_publisher_subscriber: main makes a node, PublisherNumber    *)
(* publishers and a subscription, starts a thread per publisher, spins,    *)
(* and takes everything down again while the threads may still publish.    *)
(***************************************************************************)
EXTENDS Naturals

CONSTANT PublisherNumber

Threads == 0..(PublisherNumber - 1)

VARIABLES
    main,       \* where main is
    index,      \* i of its loops
    thread,     \* where each publisher thread is
    exit_flag,
    exists,     \* which of support (on main's stack), the node and the subscription
    publisher,  \* the publishers that exist
    early       \* main has returned out of an RCCHECK while threads were running

threadVars == <<main, index, thread, exit_flag, exists, publisher, early>>

Init ==
    /\ main = "setup" /\ index = 0
    /\ thread = [i \in Threads |-> "none"]
    /\ exit_flag = FALSE
    /\ exists = {} /\ publisher = {}
    /\ early = FALSE

\* RCCHECK returns from main, and support goes with main's stack.
Return ==
    /\ main' = "returned"
    /\ exists' = exists \ {"support"}
    /\ early' = (\E i \in Threads : thread[i] \notin {"none", "done"})
    /\ UNCHANGED <<index, thread, exit_flag, publisher>>

\* A signal ends the process where it is.
Killed ==
    /\ main' = "exited"
    /\ thread' = [i \in Threads |-> "done"]

\* Everything up to the executor: no thread exists yet, and any call may fail.
Setup ==
    /\ main = "setup"
    /\ \/ /\ main' = "start"
          /\ exists' = {"support", "node", "subscriber"}
          /\ publisher' = Threads
       \/ /\ main' = "returned"
          /\ \/ exists' = {} /\ publisher' = {}
             \/ exists' = {"node"} /\ \E n \in 0..PublisherNumber : publisher' = 0..(n - 1)
             \/ exists' = {"node", "subscriber"} /\ publisher' = Threads
    /\ UNCHANGED <<index, thread, exit_flag, early>>

\* pthread_create, whose result is not looked at; args is malloc'ed and written to.
StartThread ==
    /\ main = "start"
    /\ \/ /\ \/ thread' = [thread EXCEPT ![index] = "memory"]
             \/ UNCHANGED thread
          /\ IF index + 1 < PublisherNumber
                THEN index' = index + 1 /\ UNCHANGED main
                ELSE index' = 0 /\ main' = "timeout"
       \/ Killed /\ UNCHANGED index
    /\ UNCHANGED <<exit_flag, exists, publisher, early>>

SetTimeout ==
    /\ main = "timeout"
    /\ \/ main' = "spin" /\ UNCHANGED <<index, thread, exit_flag, exists, publisher, early>>
       \/ Return

\* rclc_executor_spin returns when the executor fails.
SpinEnds ==
    /\ main = "spin"
    /\ main' = "subscription"
    /\ exit_flag' = TRUE
    /\ UNCHANGED <<index, thread, exists, publisher, early>>

SubscriptionFini ==
    /\ main = "subscription"
    /\ \/ /\ main' = "join"
          /\ exists' = exists \ {"subscriber"}
          /\ UNCHANGED <<index, thread, exit_flag, publisher, early>>
       \/ Return

BugJoin ==
    /\ main = "join"
    /\ main' = "publisher"
    /\ UNCHANGED <<index, thread, exit_flag, exists, publisher, early>>

\* pthread_join waits for the thread. Given one that was never created it may
\* do anything.
Join ==
    /\ main = "join"
    /\ \/ thread[index] \in {"none", "done"} /\ main' = "publisher" /\ UNCHANGED thread
       \/ thread[index] = "none" /\ Killed
    /\ UNCHANGED <<index, exit_flag, exists, publisher, early>>

PublisherFini ==
    /\ main = "publisher"
    /\ \/ /\ publisher' = publisher \ {index}
          /\ IF index + 1 < PublisherNumber
                THEN index' = index + 1 /\ main' = "join"
                ELSE index' = 0 /\ main' = "node"
          /\ UNCHANGED <<thread, exit_flag, exists, early>>
       \/ Return

NodeFini ==
    /\ main = "node"
    /\ main' = "returned"
    /\ exists' \in {exists \ {"support", "node"}, exists \ {"support"}}
    /\ UNCHANGED <<index, thread, exit_flag, publisher, early>>

\* The threads run on until the exit of the process has reached its end.
ProcessExit ==
    /\ main = "returned"
    /\ Killed
    /\ UNCHANGED <<index, exit_flag, exists, publisher, early>>

Goes(i, from, to) ==
    /\ thread[i] = from
    /\ thread' = [thread EXCEPT ![i] = to]
    /\ UNCHANGED <<main, index, exit_flag, exists, publisher, early>>

CreateMessage(i) == Goes(i, "memory", "test") \/ Goes(i, "memory", "done")

BugTestFlag(i) == Goes(i, "test", "publish")

\* while (!exit_flag)
TestFlag(i) == Goes(i, "test", IF exit_flag THEN "done" ELSE "publish")

Publish(i) == Goes(i, "publish", "sleep")

Wake(i) == Goes(i, "sleep", "test")

ThreadStep(i) == CreateMessage(i) \/ TestFlag(i) \/ Publish(i) \/ Wake(i)

MainStep ==
    \/ Setup \/ StartThread \/ SetTimeout \/ SubscriptionFini
    \/ Join \/ PublisherFini \/ NodeFini \/ ProcessExit

Next == MainStep \/ SpinEnds \/ \E i \in Threads : ThreadStep(i)

\* Threads are scheduled and usleep ends. The executor need never fail.
Fairness == WF_threadVars(MainStep) /\ \A i \in Threads : WF_threadVars(ThreadStep(i))

Spec == Init /\ [][Next]_threadVars /\ Fairness

-----------------------------------------------------------------------------
ThreadTypeOK ==
    /\ main \in {"setup", "start", "timeout", "spin", "subscription", "join",
                 "publisher", "node", "returned", "exited"}
    /\ index \in Threads
    /\ thread \in [Threads -> {"none", "memory", "test", "publish", "sleep", "done"}]
    /\ exit_flag \in BOOLEAN /\ early \in BOOLEAN
    /\ exists \subseteq {"support", "node", "subscriber"}
    /\ publisher \subseteq Threads

\* A thread about to publish has its publisher, the node and support under it,
\* as long as main has not fled through an RCCHECK: taking a publisher down
\* waits for its own thread, and the node for all of them.
PublishesOnWhatExists ==
    ~early =>
        \A i \in Threads : thread[i] = "publish" => i \in publisher /\ {"node", "support"} \subseteq exists

\* Once main raises the flag the program ends: every thread sees it, so no join
\* waits for ever.
ShutdownCompletes == exit_flag ~> main = "exited"
=============================================================================
