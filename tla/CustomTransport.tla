--------------------------- MODULE CustomTransport ---------------------------
(***************************************************************************)
(* custom_transports: the four functions of a UDP transport, and the       *)
(* client library that makes a session over them (rmw_uros_options and     *)
(* rclc_support_init_with_options): it opens the transport, sends a        *)
(* request and reads the answer, Attempts times, and closes it again when  *)
(* there was none.                                                         *)
(***************************************************************************)
EXTENDS Naturals

CONSTANT Attempts

VARIABLES
    library,    \* what the library does next
    fd,         \* the socket: "unset", "none" (-1), "open", "connected" or "closed"
    received,   \* what the last read returned: "nothing", "answer" or "garbage"
    answer,     \* the agent has a request, and its answer may be on the way
    left        \* attempts left

transportVars == <<library, fd, received, answer, left>>

Init ==
    /\ library = "open"
    /\ fd = "unset"
    /\ received = "nothing"
    /\ answer = FALSE
    /\ left = Attempts

\* What custom_transport_open returns is the address of rcutils_vsnprintf: true.
Reported(rv) == TRUE

\* socket fails; or getaddrinfo fails, and a pointer that was never set is freed;
\* or none of the addresses, or one of them, can be connected to.
Open ==
    /\ library = "open"
    /\ \/ fd' = "none" /\ library' = IF Reported(FALSE) THEN "write" ELSE "failed"
       \/ fd' = "open" /\ library' = IF Reported(FALSE) THEN "write" ELSE "failed"
       \/ fd' = "open" /\ library' = "crashed"
       \/ fd' = "connected" /\ library' = IF Reported(TRUE) THEN "write" ELSE "failed"
    /\ UNCHANGED <<received, answer, left>>

\* send fails on anything but a connected socket, and may fail on that. Only the
\* error code says so; the library reads in any case.
Write ==
    /\ library = "write"
    /\ \/ fd = "connected" /\ answer' \in BOOLEAN
       \/ UNCHANGED answer
    /\ library' = "read"
    /\ UNCHANGED <<fd, received, left>>

BugRecv(n) == IF n = "error" THEN "garbage" ELSE n

\* The bytes of a recv: none when it fails (-1).
Recv(n) == IF n = "error" THEN "nothing" ELSE n

BugTimedOut == "garbage"

\* The bytes when poll times out or fails.
TimedOut == "nothing"

\* poll ignores a descriptor of -1 and times out. With no connection .events was
\* never set either: it may ask for more than POLLIN and have poll say that the
\* socket is ready, and then recv waits for a packet that no one can send.
Read ==
    /\ library = "read"
    /\ \/ received' = TimedOut /\ library' = "decide"
       \/ fd = "connected" /\ received' = Recv("error") /\ library' = "decide"
       \/ fd = "connected" /\ answer /\ received' = Recv("answer") /\ library' = "decide"
       \/ fd = "open" /\ library' = "blocked" /\ UNCHANGED received
    /\ UNCHANGED <<fd, answer, left>>

\* The library makes a session of any bytes it is handed, or tries again.
Decide ==
    /\ library = "decide"
    /\ \/ received # "nothing" /\ library' = "session" /\ UNCHANGED left
       \/ /\ received = "nothing"
          /\ left' = left - 1
          /\ library' = IF left > 1 THEN "write" ELSE "close"
    /\ UNCHANGED <<fd, received, answer>>

\* custom_transport_close; then RCCHECK returns from main.
Close ==
    /\ library = "close"
    /\ fd' = IF fd = "none" THEN "none" ELSE "closed"
    /\ library' = "failed"
    /\ UNCHANGED <<received, answer, left>>

Next == Open \/ Write \/ Read \/ Decide \/ Close

Fairness == WF_transportVars(Next)

Spec == Init /\ [][Next]_transportVars /\ Fairness

-----------------------------------------------------------------------------
TransportTypeOK ==
    /\ library \in {"open", "write", "read", "decide", "close", "session", "failed",
                    "blocked", "crashed"}
    /\ fd \in {"unset", "none", "open", "connected", "closed"}
    /\ received \in {"nothing", "answer", "garbage"}
    /\ answer \in BOOLEAN /\ left \in 0..Attempts

\* Although open reports success whatever happened, a session is only ever made
\* over a connected socket, of an answer to a request that was sent.
SessionNeedsConnection == library = "session" => fd = "connected" /\ answer

\* An open that failed is found out: the attempts run out and main returns, unless
\* the program hangs in recv or was brought down by freeing what was never set.
FailedOpenFoundOut ==
    fd \in {"none", "open"} ~> library \in {"failed", "blocked", "crashed"}
=============================================================================
