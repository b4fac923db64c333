--------------------------- MODULE GraphVisualizer ---------------------------
(***************************************************************************)
(* graph_visualizer: waits for the graph guard condition and prints topics *)
(* with their endpoints, services, and the nodes with their publishers,    *)
(* asking the library again for each of them while nodes come and go.      *)
(***************************************************************************)
EXTENDS Naturals, FiniteSets

CONSTANTS
    OtherNodes,     \* nodes that come and go; a topic and a service stand for each
    MaxChanges      \* bound: how often they do

VARIABLES
    graph,      \* the nodes there are
    triggered,  \* the graph guard condition
    drawing,    \* what the program does next
    shown,      \* the graph as the topics, services and nodes printed last had it
    toShow,     \* the nodes it has listed and not yet shown the publishers of
    changes     \* how often the graph has changed

graphVars == <<graph, triggered, drawing, shown, toShow, changes>>

\* The library reports the nodes it finds as a change of the graph.
Init ==
    /\ graph \in SUBSET OtherNodes
    /\ triggered \in BOOLEAN /\ (graph # {} => triggered)
    /\ drawing = "setup"
    /\ shown = [topics |-> {}, services |-> {}, nodes |-> {}]
    /\ toShow = {}
    /\ changes = 0

\* A node comes or goes; every change of the graph triggers the guard condition.
GraphChanges ==
    /\ changes < MaxChanges
    /\ \E n \in OtherNodes :
          graph' = IF n \in graph THEN graph \ {n} ELSE graph \cup {n}
    /\ triggered' = TRUE
    /\ changes' = changes + 1
    /\ UNCHANGED <<drawing, shown, toShow>>

GiveUp == drawing' = "returned" /\ UNCHANGED <<graph, triggered, shown, toShow, changes>>

\* Init options, context, node and wait set; the guard condition may be NULL.
SetUp ==
    /\ drawing = "setup"
    /\ \/ drawing' = "wait" /\ UNCHANGED <<graph, triggered, shown, toShow, changes>>
       \/ GiveUp

\* rcl_wait hands the trigger over, or times out with NULL in the wait set.
Wait ==
    /\ drawing = "wait"
    /\ triggered
    /\ triggered' = FALSE
    /\ drawing' = "topics"
    /\ UNCHANGED <<graph, shown, toShow, changes>>

\* rcl_wait fails, which main does not look at, and leaves the wait set as it was.
WaitFails ==
    /\ drawing = "wait"
    /\ drawing' = "topics"
    /\ UNCHANGED <<graph, triggered, shown, toShow, changes>>

\* One query of the library, which answers for the graph as it is now.
Shows(what, next) ==
    /\ drawing = what
    /\ shown' = [shown EXCEPT ![what] = graph]
    /\ drawing' = next
    /\ UNCHANGED <<graph, triggered, changes>>

ShowTopics   == Shows("topics", "services") /\ UNCHANGED toShow
ShowServices == Shows("services", "nodes") /\ UNCHANGED toShow
BugListNodes ==
    /\ drawing = "nodes" /\ drawing' = "publishers"
    /\ shown' = IF shown["nodes"] = {} THEN [shown EXCEPT !["nodes"] = graph] ELSE shown
    /\ toShow' = shown'["nodes"]
    /\ UNCHANGED <<graph, triggered, changes>>

ListNodes    == Shows("nodes", "publishers") /\ toShow' = graph

\* The library fails to tell the publishers of a node that has gone.
ShowNode ==
    /\ drawing = "publishers"
    /\ \E n \in toShow :
          IF n \in graph
             THEN toShow' = toShow \ {n} /\ UNCHANGED <<graph, triggered, drawing, shown, changes>>
             ELSE GiveUp

BugNextRound ==
    /\ drawing = "publishers"
    /\ toShow = {}
    /\ drawing' = "wait"
    /\ triggered' = FALSE
    /\ UNCHANGED <<graph, shown, toShow, changes>>

NextRound ==
    /\ drawing = "publishers"
    /\ toShow = {}
    /\ drawing' = "wait"
    /\ UNCHANGED <<graph, triggered, shown, toShow, changes>>

\* Filling the wait set, or any query, may fail, and RCCHECK returns.
QueryFails ==
    /\ drawing \in {"wait", "topics", "services", "nodes", "publishers"}
    /\ GiveUp

Draw == SetUp \/ Wait \/ ShowTopics \/ ShowServices \/ ListNodes \/ ShowNode \/ NextRound

Next == GraphChanges \/ Draw \/ WaitFails \/ QueryFails

\* The program runs; the graph need not change, nor a call fail.
Fairness == WF_graphVars(Draw)

Spec == Init /\ [][Next]_graphVars /\ Fairness

-----------------------------------------------------------------------------
GraphTypeOK ==
    /\ graph \subseteq OtherNodes /\ toShow \subseteq OtherNodes
    /\ triggered \in BOOLEAN
    /\ drawing \in {"setup", "wait", "topics", "services", "nodes", "publishers", "returned"}
    /\ shown \in [{"topics", "services", "nodes"} -> SUBSET OtherNodes]
    /\ changes \in 0..MaxChanges

UpToDate == shown = [what \in {"topics", "services", "nodes"} |-> graph]

\* However the graph changes between the queries of one round, nothing is missed:
\* when the program waits and the guard condition is not triggered, what it has
\* printed last is the graph.
NothingMissed == drawing = "wait" /\ ~triggered => UpToDate

\* When the graph stops changing the printed picture comes to agree with it, or
\* the program has given up.
PictureCatchesUp == <>[](UpToDate \/ drawing = "returned")
=============================================================================
