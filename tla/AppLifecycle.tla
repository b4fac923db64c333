---------------------------- MODULE AppLifecycle ----------------------------
(***************************************************************************)
(* The life of one demo program: main creates entities one on top of       *)
(* another, gives them to an executor, spins, and finalises them.  A       *)
(* program is a sequence of steps, the calls of its main in their order    *)
(* (DemoPrograms.tla has one per program); this module says what a step    *)
(* does when it succeeds, when it fails, and when it is given something    *)
(* that does not exist.                                                    *)
(*                                                                         *)
(* The step that the program is at may                                     *)
(*   make   create .what from .needs (rclc_*_init_default, malloc)         *)
(*   call   any other call that uses .needs                                *)
(*   add    give handle .what to the executors .onto; its callback uses    *)
(*          .uses                                                          *)
(*   spin   serve the executors .onto until one fails or the program has   *)
(*          what it waits for                                              *)
(*   loop   the same without an end                                        *)
(*   fini   finalise .what, which is on .needs                             *)
(* and .check says what main does with a failure: "return" 1, "stop" in    *)
(* error_loop, or "none", to go on as if nothing had happened; "sure" is   *)
(* what cannot fail.                                                       *)
(***************************************************************************)
EXTENDS Naturals, Sequences, FiniteSets, SequencesExt

CONSTANTS
    Script,     \* the steps of each program, a function from names
    Careless    \* the programs known to go on after a failed call

VARIABLES
    program,    \* the program that runs
    at,         \* its next step
    live,       \* the entities and buffers that exist
    missed,     \* those whose failed creation or removal went unnoticed
    misused,    \* those used although they do not exist
    served,     \* what the executors hold: executor, handle, what its callback uses
    fate        \* "running", or how it ended

appVars == <<program, at, live, missed, misused, served, fate>>

Here == Script[program][at]

\* The handles in executor x, and how many it was made for.
HandlesIn(x) == {s.handle : s \in {t \in served : t.executor = x}}
RoomIn(p, x) == (CHOOSE s \in ToSet(Script[p]) : s.does = "make" /\ s.what = x).room
RoomOf(x) == RoomIn(program, x)

Init ==
    /\ program \in DOMAIN Script
    /\ at = 1
    /\ live = {} /\ missed = {} /\ misused = {} /\ served = {}
    /\ fate = "running"

Running(kinds) ==
    /\ program \in DOMAIN Script
    /\ fate = "running"
    /\ Here.does \in kinds

\* C does not look whether an argument is initialised: a call with one that is
\* not goes ahead, and what it does then is anything (see Crash).
Use(things) == misused' = misused \cup (things \ live)

GoOn ==
    /\ at' = IF at = Len(Script[program]) THEN at ELSE at + 1
    /\ fate' = IF at = Len(Script[program]) THEN "ended" ELSE fate

Make ==
    /\ Running({"make"})
    /\ Use(Here.needs)
    /\ live' = live \cup {Here.what}
    /\ GoOn
    /\ UNCHANGED <<program, missed, served>>

Call ==
    /\ Running({"call"})
    /\ Use(Here.needs)
    /\ GoOn
    /\ UNCHANGED <<program, live, missed, served>>

\* rclc_executor_add_* refuses a handle when all the room is taken.
Add ==
    /\ Running({"add"})
    /\ \A x \in Here.onto : Cardinality(HandlesIn(x)) < RoomOf(x)
    /\ Use(Here.needs)
    /\ served' = served \cup {[executor |-> x, handle |-> Here.what, uses |-> Here.uses] :
                                x \in Here.onto}
    /\ GoOn
    /\ UNCHANGED <<program, live, missed>>

\* One round of an executor: nothing was due, or one callback runs.
Serve ==
    /\ Running({"spin", "loop"})
    /\ \E due \in {{}} \cup {s.uses \cup {s.handle} : s \in {t \in served : t.executor \in Here.onto}} :
          Use(Here.needs \cup due)
    /\ UNCHANGED <<program, at, live, missed, served, fate>>

StopSpinning ==
    /\ Running({"spin"})
    /\ Use(Here.needs)
    /\ GoOn
    /\ UNCHANGED <<program, live, missed, served>>

Finalise ==
    /\ Running({"fini"})
    /\ Use(Here.needs)
    /\ live' = live \ {Here.what}
    /\ GoOn
    /\ UNCHANGED <<program, missed, served>>

\* A call fails.  A finaliser that fails may or may not have removed its entity.
Fail ==
    /\ Running({"make", "call", "add", "fini"})
    /\ Use(Here.needs)
    /\ \/ live' = live
       \/ Here.does = "fini" /\ live' = live \ {Here.what}
    /\ \/ Here.check = "return" /\ fate' = "aborted" /\ UNCHANGED <<at, missed>>
       \/ Here.check = "stop"   /\ fate' = "stuck"   /\ UNCHANGED <<at, missed>>
       \/ Here.check = "none"   /\ missed' = missed \cup {Here.what} /\ GoOn
    /\ UNCHANGED <<program, served>>

\* What follows from using something that does not exist is undefined.
Crash ==
    /\ Running({"make", "call", "add", "spin", "loop", "fini"})
    /\ misused # {}
    /\ fate' = "crashed"
    /\ UNCHANGED <<program, at, live, missed, misused, served>>

Next ==
    \/ Make \/ Call \/ Add \/ Serve \/ StopSpinning \/ Finalise
    \/ Fail \/ Crash

Spec == Init /\ [][Next]_appVars

-----------------------------------------------------------------------------
Things == UNION {UNION {s.needs \cup s.uses \cup {s.what} : s \in ToSet(Script[p])} :
                    p \in DOMAIN Script}

AppTypeOK ==
    /\ program \in DOMAIN Script => at \in DOMAIN Script[program]
    /\ live \subseteq Things /\ missed \subseteq Things /\ misused \subseteq Things
    /\ fate \in {"running", "aborted", "stuck", "ended", "crashed"}

\* What runs when an executor does, and so must be in one.
Handles ==
    {"timer", "timer_1", "timer_2", "subscriber", "subscriber_1", "subscriber_2",
     "ping_subscriber", "pong_subscriber", "service", "client", "param_server",
     "action_server", "action_client"}

\* No program uses an entity or a buffer before it exists or after it is gone,
\* in main or in a callback, except one whose failed creation (or removal) it
\* did not look at; and only the programs in Careless overlook one.
UsesWhatExists ==
    /\ misused \subseteq missed
    /\ misused # {} => program \in Careless

\* Executors are made to measure: there is room for every handle at the moment
\* it is added, and whatever has a callback has been added by the time the
\* program spins (a timer forgotten would just never fire).
ExecutorsFit ==
    program \in DOMAIN Script /\ fate = "running" =>
        /\ Here.does = "add" =>
              \A x \in Here.onto : Cardinality(HandlesIn(x)) < RoomOf(x)
        /\ Here.does \in {"spin", "loop"} =>
              live \cap Handles \subseteq missed \cup UNION {HandlesIn(x) : x \in Here.onto}

\* What stays behind when main comes to its end: nothing that is on a node, and
\* no node (the agent would keep its side of it), unless finalising failed
\* unnoticed.  Support, executors, timers and buffers are left to the exit of
\* the process, and so is the parameter server, which that demo never finalises.
LeftToExit ==
    {"options", "support", "executor", "timer", "message",
     "sequence", "result", "param_server"}

NothingLeft == fate = "ended" => live \subseteq LeftToExit \cup missed

-----------------------------------------------------------------------------
\* What makes these properties true is in the script, and can be read off it:
\* what there is before step i if no call has failed, what has been given to
\* executor x, and that every step finds what it needs.
Made(p, i) ==
    {Script[p][j].what : j \in {k \in 1..(i - 1) :
        /\ Script[p][k].does = "make"
        /\ \A l \in k..(i - 1) :
              ~(Script[p][l].does = "fini" /\ Script[p][l].what = Script[p][k].what)}}

Added(p, i, x) ==
    {Script[p][j].what : j \in {k \in 1..(i - 1) :
        Script[p][k].does = "add" /\ x \in Script[p][k].onto}}

StepWellMade(p, i, s) ==
    /\ s.needs \subseteq Made(p, i)
    /\ s.does = "make" /\ s.check = "none" => p \in Careless
    /\ s.does = "add" => \A x \in s.onto :
          RoomIn(p, x) \in Nat /\ Cardinality(Added(p, i, x)) < RoomIn(p, x)
    /\ s.does \in {"spin", "loop"} =>
          /\ \A j \in 1..(i - 1) :
                Script[p][j].does = "add" /\ Script[p][j].onto \cap s.onto # {} =>
                    Script[p][j].uses \cup {Script[p][j].what} \subseteq Made(p, i)
          /\ Made(p, i) \cap Handles \subseteq UNION {Added(p, i, x) : x \in s.onto}

WellMade(p) ==
    /\ Len(Script[p]) \in Nat \ {0}
    /\ DOMAIN Script[p] = 1..Len(Script[p])
    /\ \A i \in DOMAIN Script[p] : StepWellMade(p, i, Script[p][i])
    /\ \/ Script[p][Len(Script[p])].does = "loop"
       \/ Made(p, Len(Script[p]) + 1) \subseteq LeftToExit
=============================================================================
