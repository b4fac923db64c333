--------------------------- MODULE ParameterServer ---------------------------
(***************************************************************************)
(* parameter_server: two parameters, and what the program makes of them in *)
(* on_parameter_changed: the flag `publish` and the period of the timer.   *)
(* The client library (rclc_parameter) keeps the parameters: it refuses    *)
(* what is unknown or of another type, asks on_parameter_changed about the *)
(* rest, with no new parameter for a deletion, and stores what it accepts. *)
(***************************************************************************)
EXTENDS Bits

CONSTANTS
    Rates,          \* the rates that are asked for, in milliseconds
    InitialRate,    \* 1000 in the program
    NsPerMs,        \* RCL_MS_TO_NS: 10^6
    Width           \* of the integers: 64

VARIABLES
    phase,      \* 1..5: which parameter call of main is next; 5: spinning
    declared,   \* the parameters the server has
    stored,     \* those that have been given a value
    toggle,     \* the value of publish_toogle
    rate,       \* the value of publish_rate_ms
    publish,    \* the flag of the program
    period,     \* of its timer, in nanoseconds
    sent        \* msg.data, reduced to its lowest bit

paramVars == <<phase, declared, stored, toggle, rate, publish, period, sent>>

\* An integer as a word of two's complement.
Signed(n) == LET m == n % Shifted[Width] IN IF m < Shifted[Width - 1] THEN m ELSE m - Shifted[Width]
MsToNs(ms) == Signed(ms * NsPerMs)

Init ==
    /\ phase = 1
    /\ declared = {} /\ stored = {}
    /\ toggle = FALSE /\ rate = 0
    /\ publish = TRUE
    /\ period = MsToNs(InitialRate)
    /\ sent = 0

\* rcl_timer_exchange_period refuses a negative period; RCSOFTCHECK prints it.
Exchange(ns) == period' = IF ns < 0 THEN period ELSE ns

BugRateChanged(ms) ==
    /\ IF ms = 0 THEN UNCHANGED period ELSE Exchange(MsToNs(ms))
    /\ UNCHANGED publish

\* on_parameter_changed with a new value for one or for the other: it accepts,
\* whatever became of the period.
ToggleChanged(on) == publish' = on /\ UNCHANGED period
RateChanged(ms)   == Exchange(MsToNs(ms)) /\ UNCHANGED publish

SetToggle(on) ==
    /\ "publish_toogle" \in declared
    /\ ToggleChanged(on)
    /\ toggle' = on /\ stored' = stored \cup {"publish_toogle"}
    /\ UNCHANGED rate

SetRate(ms) ==
    /\ "publish_rate_ms" \in declared
    /\ RateChanged(ms)
    /\ rate' = ms /\ stored' = stored \cup {"publish_rate_ms"}
    /\ UNCHANGED toggle

\* Unknown, of another type, a deletion, which on_parameter_changed rejects, or a call
\* that fails before the callback.
Refused == UNCHANGED <<stored, toggle, rate, publish, period>>

\* main: the result of none of these four calls is looked at.
AddParameter(name) ==
    /\ declared' \in {declared, declared \cup {name}}
    /\ UNCHANGED <<stored, toggle, rate, publish, period>>

SetUp ==
    /\ phase < 5
    /\ phase' = phase + 1
    /\ \/ phase = 1 /\ AddParameter("publish_toogle")
       \/ phase = 2 /\ AddParameter("publish_rate_ms")
       \/ phase = 3 /\ (SetToggle(TRUE) \/ Refused) /\ UNCHANGED declared
       \/ phase = 4 /\ (SetRate(InitialRate) \/ Refused) /\ UNCHANGED declared
    /\ UNCHANGED sent

\* The executor serves a request of another node.
Request ==
    /\ phase = 5
    /\ \/ \E on \in BOOLEAN : SetToggle(on)
       \/ \E ms \in Rates : SetRate(ms)
       \/ Refused
    /\ UNCHANGED <<phase, declared, sent>>

\* timer_callback
TimerFires ==
    /\ phase = 5
    /\ publish
    /\ sent' = 1 - sent
    /\ UNCHANGED <<phase, declared, stored, toggle, rate, publish, period>>

Next == SetUp \/ Request \/ TimerFires

Spec == Init /\ [][Next]_paramVars

-----------------------------------------------------------------------------
ParameterTypeOK ==
    /\ phase \in 1..5
    /\ declared \subseteq {"publish_toogle", "publish_rate_ms"} /\ stored \subseteq declared
    /\ toggle \in BOOLEAN /\ publish \in BOOLEAN
    /\ rate \in Rates \cup {0, InitialRate}
    /\ period \in 0..(Shifted[Width - 1] - 1)
    /\ sent \in {0, 1}

\* What a node reads is what the program does, from when a parameter has been given
\* a value: the flag is the toggle parameter, and the period of the timer the rate
\* parameter, for every rate whose nanoseconds are not negative and fit an int64.
\* For any other the parameter is stored and the timer keeps its period or takes a
\* wrapped one; and a parameter that main declared and failed to set, unnoticed, is
\* read as its default while the program publishes at the initial rate.
ParametersObeyed ==
    /\ "publish_toogle" \in stored => publish = toggle
    /\ "publish_rate_ms" \in stored /\ rate \in 0..((Shifted[Width - 1] - 1) \div NsPerMs) =>
          period = rate * NsPerMs
=============================================================================
