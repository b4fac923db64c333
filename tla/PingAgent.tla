------------------------------ MODULE PingAgent ------------------------------
(***************************************************************************)
(* ping_uros_agent: asks whether the agent is up (basic), or waits for it, *)
(* makes an application and asks again after every message (interactive),  *)
(* while the agent is stopped and started as it pleases.                   *)
(***************************************************************************)
EXTENDS Naturals

CONSTANTS
    BasicAttempts,  \* 5 in the program
    MaxStarts       \* bound: how often the agent is started

VARIABLES
    ping,       \* what the program does
    attempts,   \* pings of this round still to be tried
    heard,      \* an agent has answered a ping
    code,       \* what the program returns
    agent,      \* 0 when the agent is down, else which start of it runs
    starts,     \* how often it has been started
    session     \* the start of the agent that has the session, 0 when none

pingVars == <<ping, attempts, heard, code, agent, starts, session>>

Calls == <<"support", "node", "publisher">>     \* the calls that talk to the agent

Init ==
    /\ ping \in {"usage", "basic", "interactive"}
    /\ attempts = BasicAttempts
    /\ heard = FALSE
    /\ code = "none"
    /\ agent \in {0, 1} /\ starts = agent
    /\ session = 0

AgentStops ==
    /\ agent # 0
    /\ agent' = 0
    /\ UNCHANGED <<ping, attempts, heard, code, starts, session>>

AgentStarts ==
    /\ agent = 0
    /\ starts < MaxStarts
    /\ starts' = starts + 1
    /\ agent' = starts + 1
    /\ UNCHANGED <<ping, attempts, heard, code, session>>

Exit(c) == ping' = "exited" /\ code' = c

\* The arguments of the program are wrong.
Usage ==
    /\ ping = "usage"
    /\ Exit("1")
    /\ UNCHANGED <<attempts, heard, agent, starts, session>>

\* rmw_uros_ping_agent: any agent that is up may answer, session or not; a ping
\* or its answer may also be lost, or come too late.
Answered == agent # 0 /\ heard' = TRUE
Silence  == UNCHANGED heard

BasicPing ==
    /\ ping = "basic"
    /\ \/ Answered /\ Exit("0") /\ UNCHANGED attempts
       \/ /\ Silence
          /\ attempts' = attempts - 1
          /\ IF attempts > 1 THEN UNCHANGED <<ping, code>> ELSE Exit("1")
    /\ UNCHANGED <<agent, starts, session>>

BugGoesOnUnanswered ==
    /\ ping = "interactive"
    /\ agent = 0 /\ Silence
    /\ ping' = "support"
    /\ UNCHANGED <<attempts, code, agent, starts, session>>

\* One ping a round until one is answered; silence is another round.
GetsAnswer ==
    /\ ping = "interactive"
    /\ Answered
    /\ ping' = "support"
    /\ UNCHANGED <<attempts, code, agent, starts, session>>

\* rclc_support_init makes the session, the other two use it: an agent started
\* since does not know it. Timer and executor need no agent and may fail too.
SetUp(from, next) ==
    /\ ping = from
    /\ \/ /\ agent # 0
          /\ from = "support" \/ session = agent
          /\ session' = agent
          /\ ping' = next
          /\ UNCHANGED code
       \/ Exit("1") /\ UNCHANGED session
    /\ UNCHANGED <<attempts, heard, agent, starts>>

BugIgnoresAnswer ==
    /\ ping = "running"
    /\ UNCHANGED pingVars

\* timer_callback publishes (RCSOFTCHECK), and exits when one ping is not answered.
TimerFires ==
    /\ ping = "running"
    /\ \/ Answered /\ UNCHANGED <<ping, code>>
       \/ Silence /\ Exit("1")
    /\ UNCHANGED <<attempts, agent, starts, session>>

\* The executor fails: everything is finalised, whatever comes of it.
SpinEnds ==
    /\ ping = "running"
    /\ Exit("0")
    /\ session' = 0
    /\ UNCHANGED <<attempts, heard, agent, starts>>

SetUps ==
    \/ SetUp("support", "node") \/ SetUp("node", "publisher") \/ SetUp("publisher", "running")

Next ==
    \/ AgentStops \/ AgentStarts
    \/ Usage \/ BasicPing \/ GetsAnswer \/ SetUps \/ TimerFires \/ SpinEnds

\* The program runs and its timer fires: a ping to an agent that stays down is
\* given up, and of the pings to one that stays up one is answered. Nothing is
\* assumed about the agent.
Fairness ==
    /\ WF_pingVars(Usage) /\ WF_pingVars(BasicPing) /\ WF_pingVars(SetUps)
    /\ WF_pingVars(agent = 0 /\ TimerFires)
    /\ WF_pingVars(GetsAnswer)

Spec == Init /\ [][Next]_pingVars /\ Fairness

-----------------------------------------------------------------------------
PingTypeOK ==
    /\ ping \in {"usage", "basic", "interactive", "support", "node", "publisher",
                 "running", "exited"}
    /\ attempts \in 0..BasicAttempts
    /\ heard \in BOOLEAN
    /\ code \in {"none", "0", "1"} /\ (code = "none" <=> ping # "exited")
    /\ agent \in 0..starts /\ starts \in 0..MaxStarts /\ session \in 0..starts

\* The program says that the agent is up, and starts its application, only when an
\* agent has answered.
SaysUpOnlyIfHeard ==
    ping \in {"support", "node", "publisher", "running"} \/ code = "0" => heard

\* An application whose agent goes down exits, unless an agent is up again
\* before the next ping: the ping does not tell one from another.
LostAgentEndsIt == (ping = "running" /\ agent = 0) ~> (ping = "exited" \/ agent # 0)

\* Waiting for the agent is not in vain: when one is up for good the application
\* starts, or has failed.
StartsWhenAgentStays ==
    <>[](agent # 0) => [](ping = "interactive" => <>(ping # "interactive"))
=============================================================================
