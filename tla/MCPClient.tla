------------------------------ MODULE MCPClient ------------------------------
(***************************************************************************)
(* The connection to one MCP server: tools/mcp_client.py.  (Connections to *)
(* different servers share nothing.)                                       *)
(*                                                                         *)
(* The first call that finds no connection leads: it starts a supervisor   *)
(* task, which starts the server process and then serves the requests in   *)
(* its queue.  Calls that come meanwhile follow the leader.  A step lies   *)
(* between two awaits.  The server process and the mcp library are         *)
(* external: they connect or fail, answer, or break.                       *)
(***************************************************************************)
EXTENDS Naturals, Sequences, SequencesExt

CONSTANTS
  Calls,           \* call_tool and refresh
  MaxConnections   \* bound on the supervisors started, for model checking

ASSUME MCPAssumption == MaxConnections \in Nat \ {0} /\ Calls \cap {"stop"} = {}

VARIABLES
  connection,  \* the supervisor found in connections, or None
  pending,     \* the supervisor whose ready future is in _pending, or None
  server,      \* server[g]: supervisor g
  queue,       \* queue[g]: its requests; "stop" is the None of disconnect
  ready,       \* ready[g]: its future
  call         \* call[c]: where call c is, the supervisor it deals with, and
               \* how it ended

vars == <<connection, pending, server, queue, ready, call>>

None == 0
Supervisors == 1..MaxConnections

\* A supervisor that serves no request.
At(where) == [at |-> where, serves |-> {}]

Init ==
  /\ connection = None /\ pending = None
  /\ server = [g \in Supervisors |-> At("none")]
  /\ queue = [g \in Supervisors |-> <<>>]
  /\ ready = [g \in Supervisors |-> "open"]
  /\ call = [c \in Calls |-> [at |-> "idle", on |-> None, outcome |-> "none"]]

\* Call c is over.
Over(c, outcome) == [call EXCEPT ![c].at = "done", ![c].outcome = outcome]

\* Call c puts its request and awaits its future.
Request(c, g) ==
  /\ queue' = [queue EXCEPT ![g] = Append(@, c)]
  /\ call' = [call EXCEPT ![c] = [at |-> "waiting", on |-> g, outcome |-> "none"]]

-----------------------------------------------------------------------------
(* call_tool, refresh and connect                                          *)

UseConnection(c) ==
  /\ call[c].at = "idle" /\ connection # None
  /\ Request(c, connection)
  /\ UNCHANGED <<connection, pending, server, ready>>

\* Mutant: the call does not look for a connection being made.
Lead_Always(c) ==
  /\ call[c].at = "idle" /\ connection = None
  /\ \E g \in Supervisors :
       /\ server[g].at = "none" /\ \A h \in Supervisors : h < g => server[h].at # "none"
       /\ pending' = g
       /\ server' = [server EXCEPT ![g].at = "starting"]
       /\ call' = [call EXCEPT ![c].at = "leading", ![c].on = g]
  /\ UNCHANGED <<connection, queue, ready>>

Lead(c) ==
  /\ call[c].at = "idle" /\ connection = None /\ pending = None
  /\ \E g \in Supervisors :
       /\ server[g].at = "none" /\ \A h \in Supervisors : h < g => server[h].at # "none"
       /\ pending' = g
       /\ server' = [server EXCEPT ![g].at = "starting"]
       /\ call' = [call EXCEPT ![c].at = "leading", ![c].on = g]
  /\ UNCHANGED <<connection, queue, ready>>

Follow(c) ==
  /\ call[c].at = "idle" /\ connection = None /\ pending # None
  /\ call' = [call EXCEPT ![c].at = "following", ![c].on = pending]
  /\ UNCHANGED <<connection, pending, server, queue, ready>>

\* The leader or a follower wakes up with the connection.
Connected(c) ==
  /\ call[c].at \in {"leading", "following"} /\ ready[call[c].on] = "resolved"
  /\ Request(c, call[c].on)
  /\ pending' = IF call[c].at = "leading" THEN None ELSE pending
  /\ UNCHANGED <<connection, server, ready>>

\* A follower wakes up with what has become of the leader's attempt: shield
\* keeps its cancellation from the others, not theirs from it.
FollowerFails(c) ==
  /\ call[c].at = "following" /\ ready[call[c].on] \in {"failed", "cancelled"}
  /\ call' = Over(c, ready[call[c].on])
  /\ UNCHANGED <<connection, pending, server, queue, ready>>

\* A call in flight is cancelled with its run.  A request that is in the
\* queue stays there; a leader's cancellation also cancels the future.
Cancel(c) ==
  LET g == call[c].on IN
  /\ call[c].at \in {"leading", "following", "waiting"}
  /\ IF call[c].at = "leading"
     THEN /\ ready' = [ready EXCEPT ![g] = IF @ = "open" THEN "cancelled" ELSE @]
          /\ call' = [call EXCEPT ![c].at = "stopping", ![c].outcome = "cancelled"]
     ELSE call' = Over(c, "cancelled") /\ UNCHANGED ready
  /\ UNCHANGED <<connection, pending, server, queue>>

\* The leader, cancelled or failed, cancels the supervisor.
LeaderStops(c) ==
  LET g == call[c].on IN
  /\ \/ call[c].at = "stopping"
     \/ call[c].at = "leading" /\ ready[g] = "failed"
  /\ server' = [server EXCEPT ![g] = IF @.at \in {"starting", "idle"} THEN At("failing") ELSE @]
  /\ call' = [call EXCEPT ![c].at = "gathering",
                          ![c].outcome = IF call[c].at = "stopping" THEN @ ELSE "failed"]
  /\ UNCHANGED <<connection, pending, queue, ready>>

\* ... and waits for it to end.
LeaderGone(c) ==
  /\ call[c].at = "gathering" /\ server[call[c].on].at = "ended"
  /\ call' = [call EXCEPT ![c].at = "done"]
  /\ pending' = None
  /\ UNCHANGED <<connection, server, queue, ready>>

-----------------------------------------------------------------------------
(* _serve                                                                  *)

\* Those who await the future of g and have not been resumed.  The event loop
\* resumes them in the order they are scheduled in: the leader before the
\* supervisor gets a request, all of them before it has left its context.
Leaders(g) == {c \in Calls : call[c].on = g /\ call[c].at \in {"leading", "stopping"}}
Unresumed(g) ==
  Leaders(g) \cup {c \in Calls : call[c].on = g /\ call[c].at = "following" /\ ready[g] = "resolved"}

\* The server is initialized and its tools are listed; when the future has
\* been cancelled, set_result raises.
Connects(g) ==
  /\ server[g].at = "starting"
  /\ connection' = g
  /\ IF ready[g] = "open"
     THEN /\ ready' = [ready EXCEPT ![g] = "resolved"]
          /\ server' = [server EXCEPT ![g] = At("idle")]
     ELSE /\ server' = [server EXCEPT ![g] = At("failing")]
          /\ UNCHANGED ready
  /\ UNCHANGED <<pending, queue, call>>

\* The server cannot be started, or the connection breaks between requests.
Breaks(g) ==
  /\ server[g].at \in {"starting", "idle"}
  /\ Leaders(g) = {} \/ server[g].at = "starting"
  /\ server' = [server EXCEPT ![g] = At("failing")]
  /\ UNCHANGED <<connection, pending, queue, ready, call>>

\* The supervisor gets the next request, or its stop.
Take(g) ==
  /\ server[g].at = "idle" /\ queue[g] # <<>> /\ Leaders(g) = {}
  /\ queue' = [queue EXCEPT ![g] = Tail(@)]
  /\ server' = [server EXCEPT ![g] =
       IF Head(queue[g]) = "stop" THEN At("stopping")
       ELSE [at |-> "calling", serves |-> {Head(queue[g])}]]
  /\ UNCHANGED <<connection, pending, ready, call>>

\* The requests of these calls are given an outcome; one whose future is done
\* (its call was cancelled) is passed over.
Settle(requests, outcome) ==
  [c \in Calls |-> IF c \in requests /\ call[c].at = "waiting"
                   THEN [call[c] EXCEPT !.at = "done", !.outcome = outcome] ELSE call[c]]

\* Mutant: an error in a request ends the supervisor without an answer to it.
Answer_ErrorEnds(g, outcome) ==
  /\ server[g].at = "calling"
  /\ call' = IF outcome = "ok" THEN Settle(server[g].serves, outcome) ELSE call
  /\ server' = [server EXCEPT ![g] = IF outcome = "ok" THEN At("idle") ELSE At("failing")]
  /\ UNCHANGED <<connection, pending, queue, ready>>

\* The answer, or whatever was raised, goes to the request's future.
Answer(g, outcome) ==
  /\ server[g].at = "calling"
  /\ call' = Settle(server[g].serves, outcome)
  /\ server' = [server EXCEPT ![g] = At("idle")]
  /\ UNCHANGED <<connection, pending, queue, ready>>

\* Mutant: connections is not cleaned up.
Forgotten_Kept(g) == connection

Forgotten(g) == IF connection = g THEN None ELSE connection

\* The supervisor has left its context after an error: the future fails unless
\* it is done, and so does every request in the queue.
EndsFailed(g) ==
  /\ server[g].at = "failing" /\ (ready[g] = "open" \/ Unresumed(g) = {})
  /\ ready' = [ready EXCEPT ![g] = IF @ = "open" THEN "failed" ELSE @]
  /\ call' = Settle(Range(queue[g]), "failed")
  /\ queue' = [queue EXCEPT ![g] = <<>>]
  /\ server' = [server EXCEPT ![g] = At("ended")]
  /\ connection' = Forgotten(g)
  /\ UNCHANGED pending

\* ... after "stop": what is in the queue stays there.
EndsStopped(g) ==
  /\ server[g].at = "stopping" /\ Unresumed(g) = {}
  /\ server' = [server EXCEPT ![g] = At("ended")]
  /\ connection' = Forgotten(g)
  /\ UNCHANGED <<pending, queue, ready, call>>

\* disconnect, and close_all when the engine shuts down.
Disconnect ==
  /\ connection # None
  /\ queue' = [queue EXCEPT ![connection] = Append(@, "stop")]
  /\ connection' = None
  /\ UNCHANGED <<pending, server, ready, call>>

-----------------------------------------------------------------------------
Outcomes == {"ok", "failed"}

Next ==
  \/ \E c \in Calls :
       \/ UseConnection(c) \/ Lead(c) \/ Follow(c) \/ Connected(c)
       \/ FollowerFails(c) \/ Cancel(c) \/ LeaderStops(c) \/ LeaderGone(c)
  \/ \E g \in Supervisors :
       \/ Connects(g) \/ Breaks(g) \/ Take(g) \/ EndsFailed(g) \/ EndsStopped(g)
       \/ \E outcome \in Outcomes : Answer(g, outcome)
  \/ Disconnect

Spec == Init /\ [][Next]_vars

\* The event loop resumes what may go on, and the server starts or fails to
\* and answers what it is asked: the code sets no time limit for either.
Fairness ==
  /\ \A c \in Calls : WF_vars(Connected(c) \/ FollowerFails(c) \/ LeaderStops(c) \/ LeaderGone(c))
  /\ \A g \in Supervisors :
       WF_vars(\/ Connects(g) \/ Take(g) \/ EndsFailed(g) \/ EndsStopped(g)
               \/ \E outcome \in Outcomes : Answer(g, outcome))

FairSpec == Spec /\ Fairness

-----------------------------------------------------------------------------
Serving == {"starting", "idle", "calling"}

ServerState == [at : Serving \cup {"none", "failing", "stopping", "ended"}, serves : SUBSET Calls]

CallState ==
  [at : {"idle", "leading", "following", "waiting", "stopping", "gathering", "done"},
   on : {None} \cup Supervisors, outcome : {"none", "ok", "failed", "cancelled"}]

\* Connections, supervisors, queues and calls are well-formed.
TypeOK ==
  /\ connection \in {None} \cup Supervisors /\ pending \in {None} \cup Supervisors
  /\ server \in [Supervisors -> ServerState]
  /\ \A g \in Supervisors : server[g].at = "calling" <=> server[g].serves # {}
  /\ queue \in [Supervisors -> Seq(Calls \cup {"stop"})]
  /\ ready \in [Supervisors -> {"open", "resolved", "failed", "cancelled"}]
  /\ call \in [Calls -> CallState]

\* What is in connections will answer a request or refuse it: it has not ended
\* and has not been told to.
ConnectionAnswers ==
  connection # None =>
    /\ server[connection].at \in {"idle", "calling", "failing"}
    /\ "stop" \notin Range(queue[connection])

\* No server process is left behind: one that runs can be found, or has been
\* told to stop.
NoneLeftBehind ==
  \A g \in Supervisors : server[g].at \in Serving =>
    g \in {connection, pending} \/ "stop" \in Range(queue[g])

\* The request of call c is in a queue that nobody reads any more: disconnect
\* overtook it, or it followed an attempt that had succeeded and whose leader
\* was cancelled before it was resumed.
Stranded(c) ==
  LET g == call[c].on IN
  /\ call[c].at = "waiting" /\ c \in Range(queue[g])
  /\ server[g].at \in {"stopping", "ended"}

\* Each call is answered, fails or is cancelled, unless it is stranded.
CallsEnd == \A c \in Calls : call[c].at # "idle" ~> call[c].at = "done" \/ Stranded(c)
=============================================================================
