----------------------------- MODULE Connections -----------------------------
(***************************************************************************)
(* What the server promises to the peers of its connections, whatever it   *)
(* takes to answer a request (a page in memory, a file read or written, a  *)
(* CGI): requests are served one at a time, each complete request gets     *)
(* exactly one response, a connection is never dropped while its request   *)
(* is being served, and the server itself never leaves a request unserved  *)
(* or a response unsent.                                                   *)
(***************************************************************************)
CONSTANT Conn     \* the numbers connections may have

VARIABLE phase    \* closed, reading (awaiting a request), serving or sending

Phase == {"closed", "reading", "serving", "sending"}

Init == phase = [c \in Conn |-> "closed"]

Becomes(c, from, to) ==
    /\ phase[c] \in from
    /\ \E p \in to : phase' = [phase EXCEPT ![c] = p]

\* A connection is accepted.
Opens(c) == Becomes(c, {"closed"}, {"reading"})
\* A request is complete; from now on it is owed one response.
Requests(c) == Becomes(c, {"reading"}, {"serving"})
\* The response is known.
Answers(c) == Becomes(c, {"serving"}, {"sending"})
\* It is out: the connection ends, or goes on with the next request, all of
\* which may have arrived already.
Delivers(c) == Becomes(c, {"sending"}, {"closed", "reading", "serving"})
\* The peer leaves, or is silent for too long, between requests.
Leaves(c) == Becomes(c, {"reading"}, {"closed"})

Next == \E c \in Conn :
    Opens(c) \/ Requests(c) \/ Answers(c) \/ Delivers(c) \/ Leaves(c)

Spec == Init /\ [][Next]_phase

\* Nothing is owed for ever.
FairSpec == Spec /\ \A c \in Conn : WF_phase(Answers(c)) /\ WF_phase(Delivers(c))
=============================================================================
