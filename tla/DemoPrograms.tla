---------------------------- MODULE DemoPrograms ----------------------------
(***************************************************************************)
(* The mains of the demos as sequences of steps (AppLifecycle.tla), each   *)
(* with the handles its callbacks use.  Message contents, names, topics    *)
(* and periods are left out.                                               *)
(***************************************************************************)
EXTENDS Naturals, Sequences

Step(does, what, needs) ==
    [does |-> does, what |-> what, needs |-> needs,
     check |-> "return", room |-> 0, onto |-> {}, uses |-> {}]

Make(what, needs) == Step("make", what, needs)
Call(what, needs) == Step("call", what, needs)
Fini(what, node)  == Step("fini", what, {what, node})

\* A call whose result no one reads, and one that cannot fail.
Unchecked(s) == [s EXCEPT !.check = "none"]
Sure(s)      == [s EXCEPT !.check = "sure"]
\* static_type_handling: RCCHECK is error_loop.
Stops(s)     == [s EXCEPT !.check = "stop"]
\* malloc and micro_ros_utilities_create_message_memory.
Memory(what) == Unchecked(Make(what, {}))

ExecutorOf(x, room) == [Make(x, {"support"}) EXCEPT !.room = room]
AddTo(x, handle, uses) ==
    [Step("add", handle, {x, handle}) EXCEPT !.onto = {x}, !.uses = uses]
SpinOver(xs) == [Step("spin", "", xs) EXCEPT !.onto = xs]
LoopOver(xs) == [Step("loop", "", xs) EXCEPT !.onto = xs]

Executor(room)    == ExecutorOf("executor", room)
Add(handle, uses) == AddTo("executor", handle, uses)
Spin              == SpinOver({"executor"})

On(entity) == Make(entity, {"node"})
Timer      == Make("timer", {"support"})
Node       == Make("node", {"support"})
Support    == Make("support", {})
\* With init options: each option set is a checked call of its own.
Configured(calls) ==
    <<Make("options", {})>> \o [i \in 1..Len(calls) |-> Call(calls[i], {"options"})]
       \o <<Make("support", {"options"})>>

NodeFini   == Step("fini", "node", {"node"})

\* Every step of a program whose RCCHECK is not the usual one.
AllUnchecked(steps) == [i \in DOMAIN steps |-> Unchecked(steps[i])]
AllStop(steps)      == [i \in DOMAIN steps |-> Stops(steps[i])]

-----------------------------------------------------------------------------
(* One publisher, one timer that publishes. *)
int32_publisher ==
    <<Support, Node, On("publisher"), Timer, Executor(1), Add("timer", {"publisher"}),
      Spin, Fini("publisher", "node"), NodeFini>>

configured_publisher ==
    <<Call("usage", {})>> \o Configured(<<"udp address", "client key", "domain id">>) \o
    <<Node, On("publisher"), Timer, Executor(1), Add("timer", {"publisher"}),
      Spin, Fini("publisher", "node"), NodeFini>>

custom_transports ==
    Configured(<<"client key", "transport">>) \o
    <<Node, On("publisher"), Timer, Executor(1), Add("timer", {"publisher"}),
      Spin, Fini("publisher", "node"), NodeFini>>

\* The agent is looked for before the session is made.
autodiscover_agent ==
    Configured(<<"discover">>) \o
    <<Node, On("publisher"), Timer, Executor(1), Add("timer", {"publisher"}),
      Spin, Fini("publisher", "node"), NodeFini>>

epoch_synchronization ==
    <<Support, Node, On("publisher"), Timer, Executor(1), Add("timer", {"publisher"}),
      Spin, Fini("publisher", "node"), NodeFini>>

\* The buffer comes after the timer has been added, but before the first spin.
string_publisher ==
    <<Support, Node, On("publisher"), Timer, Executor(1), Add("timer", {"publisher", "message"}),
      Memory("message"), Spin, Fini("publisher", "node"), NodeFini>>

\* Its main also fills the buffer.
fragmented_publication ==
    <<Support, Node, On("publisher"), Timer, Executor(1), Add("timer", {"publisher", "message"}),
      Memory("message"), Sure(Call("fill", {"message"})), Spin,
      Fini("publisher", "node"), NodeFini>>

\* It publishes in main for ever: the finalisers are never reached.
complex_msg_publisher ==
    <<Support, Node, On("publisher"), Step("loop", "", {"publisher"}),
      Fini("publisher", "node"), NodeFini>>

timer ==
    <<Support, Node, Timer, Executor(1), Add("timer", {}), Spin, NodeFini>>

(* One subscription. *)
int32_subscriber ==
    <<Support, Node, On("subscriber"), Executor(1), Add("subscriber", {}),
      Spin, Fini("subscriber", "node"), NodeFini>>

configured_subscriber ==
    <<Call("usage", {})>> \o Configured(<<"udp address", "client key", "domain id">>) \o
    <<Node, On("subscriber"), Executor(1), Add("subscriber", {}),
      Spin, Fini("subscriber", "node"), NodeFini>>

BugBufferLate ==
    <<Support, Node, On("subscriber"), Executor(1), Add("subscriber", {"message"}),
      Spin, Memory("message"), Fini("subscriber", "node"), NodeFini>>

string_subscriber ==
    <<Support, Node, On("subscriber"), Executor(1), Add("subscriber", {"message"}),
      Memory("message"), Spin, Fini("subscriber", "node"), NodeFini>>

fragmented_subscription ==
    <<Support, Node, On("subscriber"), Executor(1), Add("subscriber", {"message"}),
      Memory("message"), Spin, Fini("subscriber", "node"), NodeFini>>

\* The strings it receives into are arrays of main.
complex_msg_subscriber ==
    <<Support, Node, On("subscriber"), Executor(1), Add("subscriber", {}),
      Spin, Fini("subscriber", "node"), NodeFini>>

(* Timer and subscriptions together. *)
BugSmallExecutor ==
    <<Support, Node, On("publisher"), On("subscriber"), Timer, Executor(1),
      Add("timer", {"publisher"}), Add("subscriber", {}),
      Spin, Fini("subscriber", "node"), Fini("publisher", "node"), NodeFini>>

int32_publisher_subscriber ==
    <<Support, Node, On("publisher"), On("subscriber"), Timer, Executor(2),
      Add("timer", {"publisher"}), Add("subscriber", {}),
      Spin, Fini("subscriber", "node"), Fini("publisher", "node"), NodeFini>>

BugForgets ==
    <<Support, Node, On("ping_publisher"), On("pong_publisher"),
      On("ping_subscriber"), On("pong_subscriber"), Timer, Executor(3),
      Add("timer", {"ping_publisher"}), Add("ping_subscriber", {"pong_publisher"}),
      Add("pong_subscriber", {}), Spin,
      Fini("ping_publisher", "node"), Fini("pong_publisher", "node"),
      Fini("ping_subscriber", "node"), NodeFini>>

ping_pong ==
    <<Support, Node, On("ping_publisher"), On("pong_publisher"),
      On("ping_subscriber"), On("pong_subscriber"), Timer, Executor(3),
      Add("timer", {"ping_publisher"}), Add("ping_subscriber", {"pong_publisher"}),
      Add("pong_subscriber", {}), Spin,
      Fini("ping_publisher", "node"), Fini("pong_publisher", "node"),
      Fini("ping_subscriber", "node"), Fini("pong_subscriber", "node"), NodeFini>>

\* Two nodes, each with an executor of its own, served in turn for ever.
NodeWith(n, publisher, subscriber, t, x) ==
    <<Make(n, {"support"}), Make(publisher, {n}), Make(subscriber, {n}),
      Make(t, {"support"}), ExecutorOf(x, 2),
      AddTo(x, t, {publisher}), AddTo(x, subscriber, {})>>

int32_multinode ==
    <<Support>> \o NodeWith("node_1", "publisher_1", "subscriber_1", "timer_1", "executor_1")
    \o NodeWith("node_2", "publisher_2", "subscriber_2", "timer_2", "executor_2")
    \o <<LoopOver({"executor_1", "executor_2"})>>

(* The counts are read by the timer; the subscription and the publisher are
   only there to be asked. *)
publisher_count ==
    <<Support, Node, On("subscription"), Timer, Executor(1),
      Add("timer", {"subscription", "node"}), Spin, Fini("subscription", "node"), NodeFini>>

subscription_count ==
    <<Support, Node, On("publisher"), Timer, Executor(1),
      Add("timer", {"publisher", "node"}), Spin, Fini("publisher", "node"), NodeFini>>

(* Services and actions. *)
addtwoints_server ==
    AllUnchecked(<<Support, Node, On("service"), Executor(1), Add("service", {}),
                   Spin, Fini("service", "node"), NodeFini>>)

addtwoints_client ==
    <<Support, Node, On("client"), Executor(1), Add("client", {}), Call("request", {"client"}),
      Spin, Fini("client", "node"), NodeFini>>

\* The parameter server needs RCLC_EXECUTOR_PARAMETER_SERVER_HANDLES places, which
\* count here as one; what follows it in main is in ParameterServer.tla.
parameter_server ==
    <<Support, Node, On("publisher"), Unchecked(On("param_server")), Timer, Executor(2),
      Add("param_server", {"timer"}), Add("timer", {"publisher"}),
      Unchecked(Call("parameters", {"param_server", "timer"})),
      Spin, Fini("publisher", "node"), NodeFini>>

fibonacci_action_server ==
    <<Support, Node, Make("action_server", {"node", "support"}), Executor(1),
      Add("action_server", {}), LoopOver({"executor"}),
      Fini("action_server", "node"), NodeFini>>

fibonacci_action_client ==
    <<Support, Node, On("action_client"), Unchecked(Executor(1)),
      Memory("sequence"), Memory("result"), Add("action_client", {"sequence", "result"}),
      Call("goal", {"action_client"}), Spin, Fini("action_client", "node"), NodeFini>>

\* A failure stops it for good; only the allocations are not looked at: of the text
\* that is printed, of the two messages, and of their strings when they are set.
static_type_handling ==
    AllStop(<<Support, Node, On("publisher"), Timer, Executor(1),
              Add("timer", {"publisher", "message", "message_static"})>>) \o
    <<Memory("type_info"), Sure(Call("print", {"type_info"})),
      Memory("message"), Memory("message_static"),
      Unchecked(Call("strings", {"message", "message_static"})),
      Sure(Call("fill", {"message", "message_static"})), LoopOver({"executor"})>>

-----------------------------------------------------------------------------
Programs ==
    [int32_publisher |-> int32_publisher, configured_publisher |-> configured_publisher,
     custom_transports |-> custom_transports, autodiscover_agent |-> autodiscover_agent,
     epoch_synchronization |-> epoch_synchronization, string_publisher |-> string_publisher,
     fragmented_publication |-> fragmented_publication,
     complex_msg_publisher |-> complex_msg_publisher, timer |-> timer,
     int32_subscriber |-> int32_subscriber, configured_subscriber |-> configured_subscriber,
     string_subscriber |-> string_subscriber,
     fragmented_subscription |-> fragmented_subscription,
     complex_msg_subscriber |-> complex_msg_subscriber,
     int32_publisher_subscriber |-> int32_publisher_subscriber, ping_pong |-> ping_pong,
     int32_multinode |-> int32_multinode, publisher_count |-> publisher_count,
     subscription_count |-> subscription_count, addtwoints_server |-> addtwoints_server,
     addtwoints_client |-> addtwoints_client, parameter_server |-> parameter_server,
     fibonacci_action_server |-> fibonacci_action_server,
     fibonacci_action_client |-> fibonacci_action_client,
     static_type_handling |-> static_type_handling]

\* The programs with a call whose failure they do not look at.
CarelessPrograms ==
    {"addtwoints_server", "string_publisher", "string_subscriber",
     "fragmented_publication", "fragmented_subscription", "parameter_server",
     "fibonacci_action_client", "static_type_handling"}
=============================================================================
