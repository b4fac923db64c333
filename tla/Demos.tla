-------------------------------- MODULE Demos --------------------------------
(***************************************************************************)
(* One of the demo executables is started.  The scripted ones follow their *)
(* script (AppLifecycle.tla, DemoPrograms.tla); what some do besides has a *)
(* module of its own, and is started under a name of its own.  Only what   *)
(* was started takes steps.                                                *)
(***************************************************************************)
EXTENDS Bits, DemoPrograms

CONSTANTS
    PublisherNumber,                    \* of Multithread
    NsPerMs, Width, InitialRate,        \* of ParameterServer
    OtherNodes, MaxChanges,             \* of GraphVisualizer
    BasicAttempts, MaxStarts,           \* of PingAgent
    Attempts,                           \* of CustomTransport
    Devices, MaxPings, MaxLate, Boards  \* of PingPongDemo

\* The initial rate is one whose nanoseconds fit.
ASSUME DemosAssumption ==
    /\ {PublisherNumber, NsPerMs, Width, BasicAttempts, MaxStarts, Attempts} \subseteq Nat \ {0}
    /\ {MaxChanges, MaxPings, MaxLate} \subseteq Nat
    /\ InitialRate \in 0..((Shifted[Width - 1] - 1) \div NsPerMs)

VARIABLES
    program, at, live, missed, misused, served, fate,
    main, index, thread, exit_flag, exists, publisher, early,
    phase, declared, stored, toggle, rate, publish, period, sent,
    graph, triggered, drawing, shown, toShow, changes,
    ping, attempts, heard, code, agent, starts, session,
    library, fd, received, answer, left,
    board, seqNo, pongCount, pings, pongs

\* Rates below zero, at zero, in range, and two whose nanoseconds do not fit: one
\* comes out negative, the other as a period in range.
AskedRates == {-2, 0, 2, 12, 20, 30}

App       == INSTANCE AppLifecycle WITH Script <- Programs, Careless <- CarelessPrograms
Multi     == INSTANCE Multithread
Parameter == INSTANCE ParameterServer WITH Rates <- AskedRates
Graph     == INSTANCE GraphVisualizer
Ping      == INSTANCE PingAgent
Transport == INSTANCE CustomTransport
PingPong  == INSTANCE PingPongDemo

Threaded     == "multithread_publisher_subscriber"
Parameters   == "on_parameter_changed"
Visualizer   == "graph_visualizer"
Pinging      == "ping_uros_agent"
TransportFns == "custom_transport_open"
Playing      == "ping_timer_callback"

ofApp       == <<program, at, live, missed, misused, served, fate>>
ofMulti     == <<main, index, thread, exit_flag, exists, publisher, early>>
ofParameter == <<phase, declared, stored, toggle, rate, publish, period, sent>>
ofGraph     == <<graph, triggered, drawing, shown, toShow, changes>>
ofPing      == <<ping, attempts, heard, code, agent, starts, session>>
ofTransport == <<library, fd, received, answer, left>>
ofPingPong  == <<board, seqNo, pongCount, pings, pongs>>

vars == <<ofApp, ofMulti, ofParameter, ofGraph, ofPing, ofTransport, ofPingPong>>

\* One initial state for the program that is not started, every one for the other.
Init ==
    /\ program \in DOMAIN Programs \cup
          {Threaded, Parameters, Visualizer, Pinging, TransportFns, Playing}
    /\ at = 1 /\ live = {} /\ missed = {} /\ misused = {} /\ served = {}
    /\ fate = "running"
    /\ Multi!Init /\ Parameter!Init /\ Transport!Init
    /\ Graph!Init /\ (program # Visualizer => ~triggered)
    /\ Ping!Init /\ (program # Pinging => ping = "usage" /\ agent = 0)
    /\ PingPong!Init /\ (program # Playing => \E b \in Boards : \A d \in Devices : board[d] = b)

Next ==
    \/ /\ App!Next
       /\ UNCHANGED <<ofMulti, ofParameter, ofGraph, ofPing, ofTransport, ofPingPong>>
    \/ /\ program = Threaded /\ Multi!Next
       /\ UNCHANGED <<ofApp, ofParameter, ofGraph, ofPing, ofTransport, ofPingPong>>
    \/ /\ program = Parameters /\ Parameter!Next
       /\ UNCHANGED <<ofApp, ofMulti, ofGraph, ofPing, ofTransport, ofPingPong>>
    \/ /\ program = Visualizer /\ Graph!Next
       /\ UNCHANGED <<ofApp, ofMulti, ofParameter, ofPing, ofTransport, ofPingPong>>
    \/ /\ program = Pinging /\ Ping!Next
       /\ UNCHANGED <<ofApp, ofMulti, ofParameter, ofGraph, ofTransport, ofPingPong>>
    \/ /\ program = TransportFns /\ Transport!Next
       /\ UNCHANGED <<ofApp, ofMulti, ofParameter, ofGraph, ofPing, ofPingPong>>
    \/ /\ program = Playing /\ PingPong!Next
       /\ UNCHANGED <<ofApp, ofMulti, ofParameter, ofGraph, ofPing, ofTransport>>

Fairness ==
    /\ program = Threaded     => Multi!Fairness
    /\ program = Visualizer   => Graph!Fairness
    /\ program = Pinging      => Ping!Fairness
    /\ program = TransportFns => Transport!Fairness

Spec == Init /\ [][Next]_vars /\ Fairness

-----------------------------------------------------------------------------
\* The types of all of them; the script that is followed is one that the theorems
\* of DemosProof.tla are about.
TypeOK ==
    /\ program \in DOMAIN Programs => App!WellMade(program)
    /\ App!AppTypeOK /\ Multi!ThreadTypeOK /\ Parameter!ParameterTypeOK
    /\ Graph!GraphTypeOK /\ Ping!PingTypeOK /\ Transport!TransportTypeOK
    /\ PingPong!TypeOK

\* The properties of the modules, under the names they have there: of every
\* scripted main, what it uses exists, its executors fit, and nothing is left.
UsesWhatExists == App!UsesWhatExists
ExecutorsFit   == App!ExecutorsFit
NothingLeft    == App!NothingLeft

\* multithread_publisher_subscriber: threads publish on what exists, and end.
PublishesOnWhatExists == Multi!PublishesOnWhatExists
ShutdownCompletes     == program = Threaded => Multi!ShutdownCompletes

\* parameter_server: the program does what its parameters say.
ParametersObeyed == Parameter!ParametersObeyed

\* graph_visualizer: no change is missed, and the picture catches up.
NothingMissed    == program = Visualizer => Graph!NothingMissed
PictureCatchesUp == program = Visualizer => Graph!PictureCatchesUp

\* ping_uros_agent: it believes in an agent that has answered, ends without one,
\* and starts with one.
SaysUpOnlyIfHeard    == Ping!SaysUpOnlyIfHeard
LostAgentEndsIt      == program = Pinging => Ping!LostAgentEndsIt
StartsWhenAgentStays == program = Pinging => Ping!StartsWhenAgentStays

\* custom_transports: no session without a connection, no failed open unnoticed.
SessionNeedsConnection == Transport!SessionNeedsConnection
FailedOpenFoundOut     == program = TransportFns => Transport!FailedOpenFoundOut

\* ping_pong: every device of another kind is answered and accounted for.
PongsAddUp       == PingPong!PongsAddUp
PongsOtherBoards == PingPong!PongsOtherBoards
=============================================================================
