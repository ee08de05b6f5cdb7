--------------------------- MODULE MCPClientProofs ---------------------------
(***************************************************************************)
(* Theorems about the connection to an MCP server, for any number of calls *)
(* and of supervisors.                                                     *)
(***************************************************************************)
EXTENDS MCPClient, SequenceTheorems, TLAPS

USE MCPAssumption

-----------------------------------------------------------------------------
(* Queues.                                                                   *)

\* What is appended to a queue is in it, with what was.
LEMMA QueueAppend ==
  ASSUME NEW S, NEW s \in Seq(S), NEW e \in S
  PROVE  Append(s, e) \in Seq(S) /\ Range(Append(s, e)) = Range(s) \cup {e}
<1>1. /\ Append(s, e) \in Seq(S) /\ Len(Append(s, e)) = Len(s) + 1 /\ Len(s) \in Nat
      /\ \A i \in 1..Len(s) : Append(s, e)[i] = s[i]
      /\ Append(s, e)[Len(s) + 1] = e
      /\ DOMAIN Append(s, e) = 1..Len(s) + 1 /\ DOMAIN s = 1..Len(s)
  BY AppendProperties, LenProperties
<1>2. QED
  BY <1>1 DEF Range

\* A queue holds its head and the rest.
LEMMA QueueTail ==
  ASSUME NEW S, NEW s \in Seq(S), s # <<>>
  PROVE  Tail(s) \in Seq(S) /\ Head(s) \in S /\ Range(s) = {Head(s)} \cup Range(Tail(s))
<1>1. /\ Tail(s) \in Seq(S) /\ Head(s) \in S /\ Head(s) = s[1]
      /\ Len(s) \in Nat /\ Len(s) # 0 /\ Len(Tail(s)) = Len(s) - 1
      /\ \A i \in 1..Len(s) - 1 : Tail(s)[i] = s[i + 1]
      /\ DOMAIN Tail(s) = 1..Len(s) - 1 /\ DOMAIN s = 1..Len(s)
  <2>1. Tail(s) \in Seq(S) /\ Head(s) \in S /\ Len(s) \in Nat /\ DOMAIN s = 1..Len(s)
    BY HeadTailProperties, LenProperties
  <2>2. Len(s) # 0 /\ Len(Tail(s)) = Len(s) - 1
    BY HeadTailProperties, EmptySeq
  <2>3. DOMAIN Tail(s) = 1..Len(s) - 1
    BY <2>1, <2>2, LenProperties
  <2>4. \A i \in 1..Len(s) - 1 : Tail(s)[i] = s[i + 1]
    BY <2>2, HeadTailProperties
  <2>5. Head(s) = s[1]
    OBVIOUS
  <2>6. QED
    BY <2>1, <2>2, <2>3, <2>4, <2>5
<1>2. ASSUME NEW i \in 1..Len(s)
      PROVE  s[i] = Head(s) \/ (i - 1 \in 1..Len(s) - 1 /\ s[i] = Tail(s)[i - 1])
  BY <1>1
<1>3. ASSUME NEW i \in 1..Len(s) - 1
      PROVE  i + 1 \in 1..Len(s) /\ Tail(s)[i] = s[i + 1]
  BY <1>1
<1>4. 1 \in 1..Len(s)
  BY <1>1
<1>5. ASSUME NEW x \in Range(s)
      PROVE  x \in {Head(s)} \cup Range(Tail(s))
  <2>1. PICK i \in 1..Len(s) : x = s[i]
    BY <1>1 DEF Range
  <2>2. CASE s[i] = Head(s)
    BY <2>1, <2>2
  <2>3. CASE i - 1 \in 1..Len(s) - 1 /\ s[i] = Tail(s)[i - 1]
    <3>1. PICK j \in DOMAIN Tail(s) : x = Tail(s)[j]
      BY <1>1, <2>1, <2>3
    <3>2. QED
      BY <3>1 DEF Range
  <2>4. QED
    BY <1>2, <2>2, <2>3
<1>6. ASSUME NEW x \in {Head(s)} \cup Range(Tail(s))
      PROVE  x \in Range(s)
  BY <1>1, <1>3, <1>4 DEF Range
<1>7. QED
  BY <1>1, <1>5, <1>6

LEMMA QueueEmpty ==
  ASSUME NEW S
  PROVE  <<>> \in Seq(S) /\ Range(<<>>) = {}
<1>1. <<>> \in Seq(S) /\ DOMAIN <<>> = {}
  BY EmptySeq, LenProperties
<1>2. QED
  BY <1>1 DEF Range

-----------------------------------------------------------------------------
(* The invariant.                                                            *)

Requests == Calls \cup {"stop"}

\* A supervisor that has not connected has not been told to stop, and no one
\* has been given its connection.
BeforeConnected ==
  \A g \in Supervisors : server[g].at \in {"none", "starting"} =>
    "stop" \notin Range(queue[g]) /\ ready[g] # "resolved"

\* One connection is made at a time, while there is none.
StartingPends ==
  \A g \in Supervisors : server[g].at = "starting" => pending = g /\ connection = None

\* A call that is under way deals with a supervisor.
OnServer == \A c \in Calls : call[c].at \notin {"idle", "done"} => call[c].on \in Supervisors

\* The leader of a connection attempt, until it has given it up or got it.
Leads(c) == call[c].at \in {"leading", "stopping", "gathering"}

OneLeader ==
  \A c \in Calls : Leads(c) =>
    call[c].on = pending /\ \A d \in Calls : Leads(d) => d = c

\* A supervisor that has connected and serves can be found, or told to stop.
ConnectedFound ==
  \A g \in Supervisors : ready[g] = "resolved" /\ server[g].at \in Serving =>
    g = connection \/ "stop" \in Range(queue[g])

\* No request is lost: that of a call that waits is being served, or is in the
\* queue of a supervisor that has connected.
RequestKept(c) ==
  LET g == call[c].on IN
  call[c].at = "waiting" =>
    /\ server[g].at \notin {"none", "starting"}
    /\ c \in server[g].serves \/ c \in Range(queue[g])

RequestsKept == \A c \in Calls : RequestKept(c)

IInv ==
  /\ TypeOK /\ ConnectionAnswers /\ NoneLeftBehind
  /\ BeforeConnected /\ StartingPends /\ OnServer /\ OneLeader /\ ConnectedFound
  /\ RequestsKept

-----------------------------------------------------------------------------
(* What the steps do to the rows.                                            *)

Places == {"idle", "leading", "following", "waiting", "stopping", "gathering", "done"}

EndsAs == {"none", "ok", "failed", "cancelled"}

\* Another place, with another supervisor or another outcome.
WithPlace(row, at) == [row EXCEPT !.at = at]

WithServer(row, at, on) == [row EXCEPT !.at = at, !.on = on]

WithOutcome(row, at, outcome) == [row EXCEPT !.at = at, !.outcome = outcome]

LEMMA CallRows ==
  ASSUME NEW row \in CallState, NEW at \in Places
  PROVE  /\ WithPlace(row, at) \in CallState
         /\ WithPlace(row, at).at = at /\ WithPlace(row, at).on = row.on
BY DEF CallState, Places, WithPlace

LEMMA CallRowsOn ==
  ASSUME NEW row \in CallState, NEW at \in Places, NEW on \in Supervisors
  PROVE  /\ WithServer(row, at, on) \in CallState
         /\ WithServer(row, at, on).at = at /\ WithServer(row, at, on).on = on
BY DEF CallState, Places, WithServer

LEMMA CallRowsOver ==
  ASSUME NEW row \in CallState, NEW at \in Places, NEW outcome \in EndsAs
  PROVE  /\ WithOutcome(row, at, outcome) \in CallState
         /\ WithOutcome(row, at, outcome).at = at /\ WithOutcome(row, at, outcome).on = row.on
BY DEF CallState, Places, EndsAs, WithOutcome

\* What is known of the places of the calls after one of them has moved.
Moved(c, at, on) ==
  /\ call' \in [Calls -> CallState]
  /\ call'[c].at = at /\ call'[c].on = on
  /\ \A d \in Calls : d # c => call'[d] = call[d]

\* A request is put: it is in the queue with what was.
LEMMA Requested ==
  ASSUME TypeOK, NEW c \in Calls, NEW g \in Supervisors, Request(c, g)
  PROVE  /\ queue' \in [Supervisors -> Seq(Requests)]
         /\ \A h \in Supervisors :
              Range(queue'[h]) = IF h = g THEN Range(queue[h]) \cup {c} ELSE Range(queue[h])
         /\ Moved(c, "waiting", g)
<1>1. queue[g] \in Seq(Requests) /\ c \in Requests /\ queue \in [Supervisors -> Seq(Requests)]
  BY DEF TypeOK, Requests
<1>2. Append(queue[g], c) \in Seq(Requests) /\ Range(Append(queue[g], c)) = Range(queue[g]) \cup {c}
  BY <1>1, QueueAppend
<1>3. queue' = [queue EXCEPT ![g] = Append(queue[g], c)]
  BY DEF Request
<1>4. Moved(c, "waiting", g)
  BY DEF Request, TypeOK, CallState, Moved
<1>5. QED
  BY <1>1, <1>2, <1>3, <1>4

\* Some requests are given an outcome: their calls are over.
LEMMA Settled ==
  ASSUME TypeOK, NEW requests, NEW outcome \in EndsAs, call' = Settle(requests, outcome)
  PROVE  /\ call' \in [Calls -> CallState]
         /\ \A d \in Calls :
              IF d \in requests /\ call[d].at = "waiting"
              THEN call'[d].at = "done" ELSE call'[d] = call[d]
<1>1. ASSUME NEW d \in Calls
      PROVE  /\ call'[d] \in CallState
             /\ IF d \in requests /\ call[d].at = "waiting"
                THEN call'[d].at = "done" ELSE call'[d] = call[d]
  <2>1. call[d] \in CallState /\ "done" \in Places
    BY DEF TypeOK, Places
  <2>2. call'[d] = IF d \in requests /\ call[d].at = "waiting"
                   THEN [call[d] EXCEPT !.at = "done", !.outcome = outcome] ELSE call[d]
    BY DEF Settle
  <2>3. CASE d \in requests /\ call[d].at = "waiting"
    <3>1. PICK row \in CallState :
            row = WithOutcome(call[d], "done", outcome) /\ row.at = "done"
      BY <2>1, CallRowsOver
    <3>2. call'[d] = row
      BY <2>2, <2>3, <3>1 DEF WithOutcome
    <3>3. QED
      BY <2>3, <3>1, <3>2
  <2>4. CASE ~(d \in requests /\ call[d].at = "waiting")
    BY <2>1, <2>2, <2>4
  <2>5. QED
    BY <2>3, <2>4
<1>2. call' = [d \in Calls |-> call'[d]]
  BY DEF Settle
<1>3. QED
  BY <1>1, <1>2

LEMMA InvInit == Init => IInv
<1>1. SUFFICES ASSUME Init
               PROVE  IInv
  OBVIOUS
<1>2. <<>> \in Seq(Requests) /\ Range(<<>>) = {}
  BY QueueEmpty
<1>3. TypeOK
  <2>1. server \in [Supervisors -> ServerState] /\ \A g \in Supervisors : server[g] = At("none")
    BY <1>1 DEF Init, At, ServerState, Serving
  <2>2. queue \in [Supervisors -> Seq(Requests)]
    BY <1>1, <1>2 DEF Init
  <2>3. call \in [Calls -> CallState]
    BY <1>1 DEF Init, CallState
  <2>4. QED
    BY <1>1, <2>1, <2>2, <2>3 DEF Init, TypeOK, At, Requests
<1>4. QED
  BY <1>1, <1>2, <1>3 DEF Init, IInv, ConnectionAnswers, NoneLeftBehind, BeforeConnected,
       StartingPends, OnServer, OneLeader, Leads, ConnectedFound, RequestsKept, RequestKept, At,
       Serving, None, Supervisors


LEMMA InvUseConnection ==
  ASSUME IInv, NEW c \in Calls, UseConnection(c)
  PROVE  IInv'
<1>1. /\ connection \in Supervisors /\ Request(c, connection) /\ TypeOK
      /\ server[connection].at \in {"idle", "calling", "failing"}
      /\ UNCHANGED <<connection, pending, server, ready>>
  BY DEF IInv, UseConnection, ConnectionAnswers, TypeOK
<1>2. /\ queue' \in [Supervisors -> Seq(Requests)]
      /\ \A h \in Supervisors :
           Range(queue'[h]) = IF h = connection THEN Range(queue[h]) \cup {c} ELSE Range(queue[h])
      /\ Moved(c, "waiting", connection)
  BY <1>1, Requested
<1>3. TypeOK'
  BY <1>1, <1>2 DEF TypeOK, Moved, Requests
<1>4. BeforeConnected' /\ StartingPends' /\ ConnectedFound'
  BY <1>1, <1>2 DEF IInv, BeforeConnected, StartingPends, ConnectedFound
<1>5. OnServer' /\ OneLeader'
  BY <1>1, <1>2 DEF IInv, OnServer, OneLeader, Leads, Moved
<1>6. RequestsKept'
  <2>1. RequestKept(c)'
    BY <1>1, <1>2 DEF RequestKept, Moved
  <2>2. ASSUME NEW d \in Calls, d # c
        PROVE  RequestKept(d)'
    <3>1. RequestKept(d) /\ call'[d] = call[d]
      BY <1>2, <2>2 DEF IInv, RequestsKept, Moved
    <3>2. call[d].at = "waiting" => call[d].on \in Supervisors
      BY DEF IInv, OnServer
    <3>3. QED
      BY <1>1, <1>2, <3>1, <3>2 DEF RequestKept
  <2>3. QED
    BY <2>1, <2>2 DEF RequestsKept
<1>7. ConnectionAnswers' /\ NoneLeftBehind'
  BY <1>1, <1>2 DEF IInv, ConnectionAnswers, NoneLeftBehind, TypeOK
<1>8. QED
  BY <1>3, <1>4, <1>5, <1>6, <1>7 DEF IInv

LEMMA InvLead ==
  ASSUME IInv, NEW c \in Calls, Lead(c)
  PROVE  IInv'
<1>1. TypeOK /\ connection = None /\ pending = None
  BY DEF IInv, Lead
<1>2. PICK g \in Supervisors :
        /\ server[g].at = "none" /\ pending' = g
        /\ server' = [server EXCEPT ![g].at = "starting"]
        /\ call' = [call EXCEPT ![c].at = "leading", ![c].on = g]
        /\ UNCHANGED <<connection, queue, ready>>
  BY DEF Lead
<1>3. /\ server' \in [Supervisors -> ServerState]
      /\ server'[g].at = "starting" /\ server'[g].serves = {}
      /\ \A h \in Supervisors : h # g => server'[h] = server[h]
  BY <1>1, <1>2 DEF TypeOK, ServerState, Serving
<1>4. Moved(c, "leading", g)
  <2>1. PICK row \in CallState : /\ row = WithServer(call[c], "leading", g)
                                 /\ row.at = "leading" /\ row.on = g
    <3>1. call[c] \in CallState /\ "leading" \in Places
      BY <1>1 DEF TypeOK, Places
    <3>2. QED
      BY <3>1, CallRowsOn
  <2>2. call' = [call EXCEPT ![c] = row]
    BY <1>1, <1>2, <2>1 DEF TypeOK, CallState, WithServer
  <2>3. QED
    BY <1>1, <2>1, <2>2 DEF TypeOK, Moved
<1>5. \A d \in Calls : ~Leads(d)
  BY <1>1 DEF IInv, OneLeader, Leads, OnServer, None, Supervisors
<1>6. TypeOK'
  BY <1>1, <1>2, <1>3, <1>4 DEF TypeOK, Moved
<1>7. BeforeConnected' /\ StartingPends' /\ ConnectedFound'
  <2>1. \A h \in Supervisors : server[h].at # "starting"
    BY <1>1 DEF IInv, StartingPends, None, Supervisors
  <2>2. QED
    BY <1>1, <1>2, <1>3, <2>1 DEF IInv, BeforeConnected, StartingPends, ConnectedFound
<1>8. OnServer' /\ OneLeader'
  BY <1>2, <1>4, <1>5 DEF IInv, OnServer, OneLeader, Leads, Moved
<1>9. RequestsKept'
  BY <1>1, <1>2, <1>3, <1>4 DEF IInv, RequestsKept, RequestKept, Moved, OnServer
<1>10. ConnectionAnswers' /\ NoneLeftBehind'
  BY <1>1, <1>2, <1>3 DEF IInv, ConnectionAnswers, NoneLeftBehind, None, Supervisors
<1>11. QED
  BY <1>6, <1>7, <1>8, <1>9, <1>10 DEF IInv

\* A call goes on, and touches nothing beside its row but futures.
LEMMA CallGoesOn ==
  ASSUME IInv, NEW c \in Calls, NEW at \in {"following", "stopping", "done"}, NEW on,
         Moved(c, at, on), UNCHANGED <<connection, pending, server, queue>>,
         ready' \in [Supervisors -> {"open", "resolved", "failed", "cancelled"}],
         \A g \in Supervisors : ready'[g] = "resolved" => ready[g] = "resolved",
         at = "following" => on \in Supervisors,
         at = "stopping" => Leads(c) /\ on = call[c].on
  PROVE  IInv'
<1>1. TypeOK'
  BY DEF IInv, TypeOK, Moved
<1>2. BeforeConnected' /\ StartingPends' /\ ConnectedFound'
  BY DEF IInv, BeforeConnected, StartingPends, ConnectedFound, TypeOK
<1>3. OnServer' /\ OneLeader'
  BY DEF IInv, OnServer, OneLeader, Leads, Moved
<1>4. RequestsKept'
  BY DEF IInv, RequestsKept, RequestKept, Moved
<1>5. ConnectionAnswers' /\ NoneLeftBehind'
  BY DEF IInv, ConnectionAnswers, NoneLeftBehind
<1>6. QED
  BY <1>1, <1>2, <1>3, <1>4, <1>5 DEF IInv

LEMMA InvFollow ==
  ASSUME IInv, NEW c \in Calls, Follow(c)
  PROVE  IInv'
<1>1. pending \in Supervisors /\ call[c] \in CallState /\ "following" \in Places
  BY DEF IInv, TypeOK, Follow, Places
<1>2. PICK row \in CallState : /\ row = WithServer(call[c], "following", pending)
                               /\ row.at = "following" /\ row.on = pending
  BY <1>1, CallRowsOn
<1>3. call' = [call EXCEPT ![c] = row]
  BY <1>1, <1>2 DEF Follow, IInv, TypeOK, CallState, WithServer
<1>4. Moved(c, "following", pending)
  BY <1>2, <1>3 DEF IInv, TypeOK, Moved
<1>5. QED
  BY <1>1, <1>4, CallGoesOn DEF Follow, IInv, TypeOK

\* Over, as a move.
LEMMA OverMoves ==
  ASSUME TypeOK, NEW c \in Calls, NEW outcome \in EndsAs, call' = Over(c, outcome)
  PROVE  Moved(c, "done", call[c].on)
<1>1. call[c] \in CallState /\ "done" \in Places
  BY DEF TypeOK, Places
<1>2. PICK row \in CallState : /\ row = WithOutcome(call[c], "done", outcome)
                               /\ row.at = "done" /\ row.on = call[c].on
  BY <1>1, CallRowsOver
<1>3. call' = [call EXCEPT ![c] = row]
  BY <1>1, <1>2 DEF Over, TypeOK, CallState, WithOutcome
<1>4. QED
  BY <1>2, <1>3 DEF TypeOK, Moved

LEMMA InvFollowerFails ==
  ASSUME IInv, NEW c \in Calls, FollowerFails(c)
  PROVE  IInv'
<1>1. TypeOK /\ ready[call[c].on] \in EndsAs
  BY DEF IInv, FollowerFails, EndsAs
<1>2. Moved(c, "done", call[c].on)
  BY <1>1, OverMoves DEF FollowerFails
<1>3. QED
  BY <1>1, <1>2, CallGoesOn DEF FollowerFails, TypeOK

LEMMA InvCancel ==
  ASSUME IInv, NEW c \in Calls, Cancel(c)
  PROVE  IInv'
<1>1. TypeOK /\ call[c] \in CallState /\ call[c].on \in Supervisors
  BY DEF IInv, TypeOK, OnServer, Cancel
<1>2. CASE call[c].at = "leading"
  <2>1. PICK row \in CallState : /\ row = WithOutcome(call[c], "stopping", "cancelled")
                                 /\ row.at = "stopping" /\ row.on = call[c].on
    BY <1>1, CallRowsOver DEF Places, EndsAs
  <2>2. call' = [call EXCEPT ![c] = row]
    BY <1>1, <1>2, <2>1 DEF Cancel, TypeOK, CallState, WithOutcome
  <2>3. Moved(c, "stopping", call[c].on)
    BY <1>1, <2>1, <2>2 DEF TypeOK, Moved
  <2>4. /\ ready' \in [Supervisors -> {"open", "resolved", "failed", "cancelled"}]
        /\ \A g \in Supervisors : ready'[g] = "resolved" => ready[g] = "resolved"
    BY <1>1, <1>2 DEF Cancel, TypeOK
  <2>5. QED
    BY <1>2, <2>3, <2>4, CallGoesOn DEF Cancel, Leads
<1>3. CASE call[c].at # "leading"
  <2>1. Moved(c, "done", call[c].on)
    BY <1>1, <1>3, OverMoves DEF Cancel, EndsAs
  <2>2. QED
    BY <1>1, <1>3, <2>1, CallGoesOn DEF Cancel, TypeOK
<1>4. QED
  BY <1>2, <1>3

LEMMA InvConnected ==
  ASSUME IInv, NEW c \in Calls, Connected(c)
  PROVE  IInv'
<1>1. PICK g \in Supervisors : g = call[c].on
  BY DEF IInv, OnServer, Connected
<1>2. /\ TypeOK /\ Request(c, g) /\ ready[g] = "resolved"
      /\ server[g].at \notin {"none", "starting"}
      /\ UNCHANGED <<connection, server, ready>>
  BY <1>1 DEF IInv, Connected, BeforeConnected
<1>3. /\ queue' \in [Supervisors -> Seq(Requests)]
      /\ \A h \in Supervisors :
           Range(queue'[h]) = IF h = g THEN Range(queue[h]) \cup {c} ELSE Range(queue[h])
      /\ Moved(c, "waiting", g)
  BY <1>2, Requested
<1>4. \/ UNCHANGED pending /\ ~Leads(c)
      \/ pending' = None /\ pending = g /\ \A d \in Calls : Leads(d) => d = c
  BY <1>1 DEF Connected, IInv, OneLeader, Leads
<1>5. TypeOK'
  BY <1>2, <1>3, <1>4 DEF TypeOK, Moved, Requests
<1>6. BeforeConnected' /\ StartingPends' /\ ConnectedFound'
  BY <1>2, <1>3, <1>4 DEF IInv, BeforeConnected, StartingPends, ConnectedFound
<1>7. OnServer' /\ OneLeader'
  BY <1>3, <1>4 DEF IInv, OnServer, OneLeader, Leads, Moved
<1>8. RequestsKept'
  BY <1>2, <1>3 DEF IInv, RequestsKept, RequestKept, Moved, OnServer
<1>9. ConnectionAnswers'
  BY <1>2, <1>3 DEF IInv, ConnectionAnswers, TypeOK
<1>10. NoneLeftBehind'
  BY <1>2, <1>3, <1>4 DEF IInv, NoneLeftBehind, ConnectedFound
<1>11. QED
  BY <1>5, <1>6, <1>7, <1>8, <1>9, <1>10 DEF IInv

LEMMA InvLeaderStops ==
  ASSUME IInv, NEW c \in Calls, LeaderStops(c)
  PROVE  IInv'
<1>1. PICK g \in Supervisors : g = call[c].on
  BY DEF IInv, OnServer, LeaderStops
<1>2. TypeOK /\ call[c] \in CallState /\ Leads(c) /\ UNCHANGED <<connection, pending, queue, ready>>
  BY DEF IInv, TypeOK, LeaderStops, Leads
<1>3. /\ server' \in [Supervisors -> ServerState]
      /\ \A h \in Supervisors :
           \/ server'[h] = server[h]
           \/ /\ server[h].at \in {"starting", "idle"}
              /\ server'[h].at = "failing" /\ server'[h].serves = {}
  <2>1. At("failing") \in ServerState
    BY DEF At, ServerState
  <2>2. server' = [server EXCEPT ![g] = IF server[g].at \in {"starting", "idle"}
                                        THEN At("failing") ELSE server[g]]
    BY <1>1, <1>2 DEF LeaderStops, TypeOK
  <2>3. QED
    BY <1>2, <2>1, <2>2 DEF TypeOK, At
<1>4. Moved(c, "gathering", g)
  <2>1. PICK outcome \in EndsAs :
          outcome = IF call[c].at = "stopping" THEN call[c].outcome ELSE "failed"
    BY <1>2 DEF EndsAs, CallState
  <2>2. PICK row \in CallState : /\ row = WithOutcome(call[c], "gathering", outcome)
                                 /\ row.at = "gathering" /\ row.on = call[c].on
    <3>1. "gathering" \in Places
      BY DEF Places
    <3>2. QED
      BY <1>2, <3>1, CallRowsOver
  <2>3. call' = [call EXCEPT ![c] = row]
    BY <1>2, <2>1, <2>2 DEF LeaderStops, TypeOK, CallState, WithOutcome
  <2>4. QED
    BY <1>1, <1>2, <2>2, <2>3 DEF TypeOK, Moved
<1>5. TypeOK'
  BY <1>2, <1>3, <1>4 DEF TypeOK, Moved
<1>6. BeforeConnected' /\ StartingPends' /\ ConnectedFound'
  BY <1>2, <1>3 DEF IInv, BeforeConnected, StartingPends, ConnectedFound, Serving
<1>7. OnServer' /\ OneLeader'
  BY <1>1, <1>2, <1>4 DEF IInv, OnServer, OneLeader, Leads, Moved
<1>8. RequestsKept'
  <2>1. SUFFICES ASSUME NEW d \in Calls, call'[d].at = "waiting"
                 PROVE  RequestKept(d)'
    BY DEF RequestsKept, RequestKept
  <2>2. call'[d] = call[d]
    BY <1>4, <2>1 DEF Moved
  <2>3. PICK h \in Supervisors : h = call[d].on
    BY <2>1, <2>2 DEF IInv, OnServer
  <2>4. /\ server[h].at \notin {"none", "starting"}
        /\ d \in server[h].serves \/ d \in Range(queue[h])
    BY <2>1, <2>2, <2>3 DEF IInv, RequestsKept, RequestKept
  <2>5. server[h].at = "idle" => server[h].serves = {}
    BY <1>2 DEF TypeOK
  <2>6. QED
    BY <1>2, <1>3, <2>2, <2>3, <2>4, <2>5 DEF RequestKept
<1>9. ConnectionAnswers' /\ NoneLeftBehind'
  BY <1>2, <1>3 DEF IInv, ConnectionAnswers, NoneLeftBehind, Serving, TypeOK
<1>10. QED
  BY <1>5, <1>6, <1>7, <1>8, <1>9 DEF IInv

LEMMA InvLeaderGone ==
  ASSUME IInv, NEW c \in Calls, LeaderGone(c)
  PROVE  IInv'
<1>1. /\ TypeOK /\ call[c] \in CallState /\ Leads(c) /\ call[c].on = pending
      /\ pending \in Supervisors /\ server[pending].at = "ended" /\ pending' = None
      /\ UNCHANGED <<connection, server, queue, ready>>
  BY DEF IInv, TypeOK, LeaderGone, Leads, OneLeader, OnServer
<1>2. Moved(c, "done", call[c].on)
  <2>1. PICK row \in CallState : /\ row = WithPlace(call[c], "done")
                                 /\ row.at = "done" /\ row.on = call[c].on
    BY <1>1, CallRows DEF Places
  <2>2. call' = [call EXCEPT ![c] = row]
    BY <1>1, <2>1 DEF LeaderGone, TypeOK, CallState, WithPlace
  <2>3. QED
    BY <1>1, <2>1, <2>2 DEF TypeOK, Moved
<1>3. TypeOK'
  BY <1>1, <1>2 DEF TypeOK, Moved
<1>4. BeforeConnected' /\ StartingPends' /\ ConnectedFound'
  BY <1>1 DEF IInv, BeforeConnected, StartingPends, ConnectedFound
<1>5. OnServer' /\ OneLeader'
  BY <1>1, <1>2 DEF IInv, OnServer, OneLeader, Leads, Moved
<1>6. RequestsKept'
  BY <1>1, <1>2 DEF IInv, RequestsKept, RequestKept, Moved
<1>7. ConnectionAnswers' /\ NoneLeftBehind'
  BY <1>1 DEF IInv, ConnectionAnswers, NoneLeftBehind, Serving
<1>8. QED
  BY <1>3, <1>4, <1>5, <1>6, <1>7 DEF IInv

\* A supervisor goes on, and its queue, the futures and the calls stay as they
\* are.
LEMMA ServerGoesOn ==
  ASSUME IInv, NEW g \in Supervisors, server[g].at \in {"starting", "idle", "stopping"},
         NEW at \in {"failing", "ended"},
         server' = [server EXCEPT ![g] = At(at)],
         server[g].at = "stopping" <=> at = "ended",
         connection' = IF at = "ended" /\ connection = g THEN None ELSE connection,
         UNCHANGED <<pending, queue, ready, call>>
  PROVE  IInv'
<1>1. /\ server' \in [Supervisors -> ServerState]
      /\ server'[g].at = at /\ server'[g].serves = {}
      /\ \A h \in Supervisors : h # g => server'[h] = server[h]
  BY DEF IInv, TypeOK, At, ServerState
<1>2. TypeOK'
  BY <1>1 DEF IInv, TypeOK
<1>3. BeforeConnected' /\ StartingPends' /\ ConnectedFound'
  BY <1>1 DEF IInv, BeforeConnected, StartingPends, ConnectedFound, Serving
<1>4. OnServer' /\ OneLeader'
  BY DEF IInv, OnServer, OneLeader, Leads
<1>5. RequestsKept'
  <2>1. server[g].serves = {}
    BY DEF IInv, TypeOK
  <2>2. QED
    BY <1>1, <2>1 DEF IInv, RequestsKept, RequestKept, OnServer
<1>6. ConnectionAnswers' /\ NoneLeftBehind'
  BY <1>1 DEF IInv, ConnectionAnswers, NoneLeftBehind, Serving, TypeOK
<1>7. QED
  BY <1>2, <1>3, <1>4, <1>5, <1>6 DEF IInv

LEMMA InvBreaks ==
  ASSUME IInv, NEW g \in Supervisors, Breaks(g)
  PROVE  IInv'
BY ServerGoesOn DEF Breaks

LEMMA InvEndsStopped ==
  ASSUME IInv, NEW g \in Supervisors, EndsStopped(g)
  PROVE  IInv'
BY ServerGoesOn DEF EndsStopped, Forgotten

LEMMA InvConnects ==
  ASSUME IInv, NEW g \in Supervisors, Connects(g)
  PROVE  IInv'
<1>1. /\ TypeOK /\ server[g].at = "starting" /\ pending = g /\ connection = None /\ connection' = g
      /\ "stop" \notin Range(queue[g]) /\ UNCHANGED <<pending, queue, call>>
  BY DEF IInv, Connects, StartingPends, BeforeConnected
<1>2. PICK at \in {"idle", "failing"} :
        /\ server' = [server EXCEPT ![g] = At(at)]
        /\ ready' = IF at = "idle" THEN [ready EXCEPT ![g] = "resolved"] ELSE ready
  BY DEF Connects
<1>3. /\ server' \in [Supervisors -> ServerState]
      /\ server'[g].at = at /\ server'[g].serves = {}
      /\ \A h \in Supervisors : h # g => server'[h] = server[h]
  BY <1>1, <1>2 DEF TypeOK, At, ServerState, Serving
<1>4. /\ ready' \in [Supervisors -> {"open", "resolved", "failed", "cancelled"}]
      /\ \A h \in Supervisors : h # g => ready'[h] = ready[h]
  BY <1>1, <1>2 DEF TypeOK
<1>5. \A h \in Supervisors : server[h].at = "starting" => h = g
  BY <1>1 DEF IInv, StartingPends
<1>6. TypeOK'
  <2>1. \A h \in Supervisors : server'[h].at = "calling" <=> server'[h].serves # {}
    BY <1>1, <1>3 DEF TypeOK
  <2>2. QED
    BY <1>1, <1>3, <1>4, <2>1 DEF TypeOK
<1>7. BeforeConnected' /\ StartingPends'
  BY <1>1, <1>3, <1>4, <1>5 DEF IInv, BeforeConnected, StartingPends
<1>8. ConnectedFound'
  BY <1>1, <1>3, <1>4 DEF IInv, ConnectedFound, None, Supervisors
<1>9. OnServer' /\ OneLeader'
  BY <1>1 DEF IInv, OnServer, OneLeader, Leads
<1>10. RequestsKept'
  BY <1>1, <1>3 DEF IInv, RequestsKept, RequestKept, OnServer
<1>11. ConnectionAnswers' /\ NoneLeftBehind'
  BY <1>1, <1>3 DEF IInv, ConnectionAnswers, NoneLeftBehind, None, Supervisors
<1>12. QED
  BY <1>6, <1>7, <1>8, <1>9, <1>10, <1>11 DEF IInv

LEMMA InvTake ==
  ASSUME IInv, NEW g \in Supervisors, Take(g)
  PROVE  IInv'
<1>1. /\ TypeOK /\ server[g].at = "idle" /\ server[g].serves = {}
      /\ queue[g] \in Seq(Requests) /\ queue[g] # <<>>
      /\ queue' = [queue EXCEPT ![g] = Tail(queue[g])]
      /\ UNCHANGED <<connection, pending, ready, call>>
  BY DEF IInv, TypeOK, Take, Requests
<1>2. PICK next \in Requests : next = Head(queue[g])
  BY <1>1, QueueTail
<1>3. Tail(queue[g]) \in Seq(Requests) /\ Range(queue[g]) = {next} \cup Range(Tail(queue[g]))
  BY <1>1, <1>2, QueueTail
<1>4. /\ queue' \in [Supervisors -> Seq(Requests)]
      /\ Range(queue[g]) = {next} \cup Range(queue'[g])
      /\ \A h \in Supervisors : h # g => queue'[h] = queue[h]
  BY <1>1, <1>3 DEF TypeOK, Requests
<1>5. /\ server' \in [Supervisors -> ServerState]
      /\ \A h \in Supervisors : h # g => server'[h] = server[h]
      /\ \/ next = "stop" /\ server'[g].at = "stopping" /\ server'[g].serves = {}
         \/ next # "stop" /\ server'[g].at = "calling" /\ server'[g].serves = {next}
  <2>1. CASE next = "stop"
    <3>1. server' = [server EXCEPT ![g] = At("stopping")]
      BY <1>2, <2>1 DEF Take
    <3>2. QED
      BY <1>1, <2>1, <3>1 DEF At, TypeOK, ServerState
  <2>2. CASE next # "stop"
    <3>1. server' = [server EXCEPT ![g] = [at |-> "calling", serves |-> {next}]]
      BY <1>2, <2>2 DEF Take
    <3>2. next \in Calls
      BY <2>2 DEF Requests
    <3>3. QED
      BY <1>1, <2>2, <3>1, <3>2 DEF TypeOK, ServerState, Serving
  <2>3. QED
    BY <2>1, <2>2
<1>6. TypeOK'
  <2>1. \A h \in Supervisors : server'[h].at = "calling" <=> server'[h].serves # {}
    BY <1>1, <1>5 DEF TypeOK
  <2>2. QED
    BY <1>1, <1>4, <1>5, <2>1 DEF TypeOK, Requests
<1>7. BeforeConnected' /\ StartingPends' /\ ConnectedFound'
  BY <1>1, <1>4, <1>5 DEF IInv, BeforeConnected, StartingPends, ConnectedFound, Serving
<1>8. OnServer' /\ OneLeader'
  BY <1>1 DEF IInv, OnServer, OneLeader, Leads
<1>9. RequestsKept'
  BY <1>1, <1>4, <1>5 DEF IInv, RequestsKept, RequestKept, OnServer
<1>10. ConnectionAnswers' /\ NoneLeftBehind'
  BY <1>1, <1>4, <1>5 DEF IInv, ConnectionAnswers, NoneLeftBehind, Serving, TypeOK
<1>11. QED
  BY <1>6, <1>7, <1>8, <1>9, <1>10 DEF IInv

LEMMA InvAnswer ==
  ASSUME IInv, NEW g \in Supervisors, NEW outcome \in Outcomes, Answer(g, outcome)
  PROVE  IInv'
<1>1. /\ TypeOK /\ server[g].at = "calling" /\ server' = [server EXCEPT ![g] = At("idle")]
      /\ UNCHANGED <<connection, pending, queue, ready>>
  BY DEF IInv, Answer
<1>2. /\ call' \in [Calls -> CallState]
      /\ \A d \in Calls : IF d \in server[g].serves /\ call[d].at = "waiting"
                          THEN call'[d].at = "done" ELSE call'[d] = call[d]
  BY <1>1, Settled DEF Answer, Outcomes, EndsAs
<1>3. /\ server' \in [Supervisors -> ServerState]
      /\ server'[g].at = "idle" /\ server'[g].serves = {}
      /\ \A h \in Supervisors : h # g => server'[h] = server[h]
  BY <1>1 DEF TypeOK, At, ServerState, Serving
<1>4. TypeOK'
  BY <1>1, <1>2, <1>3 DEF TypeOK
<1>5. BeforeConnected' /\ StartingPends' /\ ConnectedFound'
  BY <1>1, <1>3 DEF IInv, BeforeConnected, StartingPends, ConnectedFound, Serving
<1>6. OnServer' /\ OneLeader'
  BY <1>1, <1>2 DEF IInv, OnServer, OneLeader, Leads
<1>7. RequestsKept'
  BY <1>1, <1>2, <1>3 DEF IInv, RequestsKept, RequestKept, OnServer
<1>8. ConnectionAnswers' /\ NoneLeftBehind'
  BY <1>1, <1>3 DEF IInv, ConnectionAnswers, NoneLeftBehind, Serving
<1>9. QED
  BY <1>4, <1>5, <1>6, <1>7, <1>8 DEF IInv

LEMMA InvEndsFailed ==
  ASSUME IInv, NEW g \in Supervisors, EndsFailed(g)
  PROVE  IInv'
<1>1. /\ TypeOK /\ server[g].at = "failing" /\ server[g].serves = {}
      /\ server' = [server EXCEPT ![g] = At("ended")]
      /\ queue' = [queue EXCEPT ![g] = <<>>]
      /\ ready' = [ready EXCEPT ![g] = IF ready[g] = "open" THEN "failed" ELSE ready[g]]
      /\ connection' = IF connection = g THEN None ELSE connection
      /\ UNCHANGED pending
  BY DEF IInv, TypeOK, EndsFailed, Forgotten
<1>2. /\ call' \in [Calls -> CallState]
      /\ \A d \in Calls : IF d \in Range(queue[g]) /\ call[d].at = "waiting"
                          THEN call'[d].at = "done" ELSE call'[d] = call[d]
  BY <1>1, Settled DEF EndsFailed, EndsAs
<1>3. /\ server' \in [Supervisors -> ServerState]
      /\ server'[g].at = "ended" /\ server'[g].serves = {}
      /\ \A h \in Supervisors : h # g => server'[h] = server[h]
  BY <1>1 DEF TypeOK, At, ServerState
<1>4. /\ queue' \in [Supervisors -> Seq(Requests)] /\ Range(queue'[g]) = {}
      /\ \A h \in Supervisors : h # g => queue'[h] = queue[h]
  BY <1>1, QueueEmpty DEF TypeOK, Requests
<1>5. /\ ready' \in [Supervisors -> {"open", "resolved", "failed", "cancelled"}]
      /\ \A h \in Supervisors : ready'[h] = "resolved" => ready[h] = "resolved"
  BY <1>1 DEF TypeOK
<1>6. TypeOK'
  BY <1>1, <1>2, <1>3, <1>4, <1>5 DEF TypeOK, Requests
<1>7. BeforeConnected' /\ StartingPends' /\ ConnectedFound'
  BY <1>1, <1>3, <1>4, <1>5 DEF IInv, BeforeConnected, StartingPends, ConnectedFound, Serving
<1>8. OnServer' /\ OneLeader'
  BY <1>1, <1>2 DEF IInv, OnServer, OneLeader, Leads
<1>9. RequestsKept'
  BY <1>1, <1>2, <1>3, <1>4 DEF IInv, RequestsKept, RequestKept, OnServer
<1>10. ConnectionAnswers' /\ NoneLeftBehind'
  BY <1>1, <1>3, <1>4 DEF IInv, ConnectionAnswers, NoneLeftBehind, Serving
<1>11. QED
  BY <1>6, <1>7, <1>8, <1>9, <1>10 DEF IInv

LEMMA InvDisconnect ==
  ASSUME IInv, Disconnect
  PROVE  IInv'
<1>1. /\ TypeOK /\ connection \in Supervisors /\ connection' = None
      /\ server[connection].at \in {"idle", "calling", "failing"}
      /\ UNCHANGED <<pending, server, ready, call>>
  BY DEF IInv, TypeOK, Disconnect, ConnectionAnswers
<1>2. /\ queue' \in [Supervisors -> Seq(Requests)]
      /\ \A h \in Supervisors :
           Range(queue'[h]) = IF h = connection THEN Range(queue[h]) \cup {"stop"}
                              ELSE Range(queue[h])
  <2>1. queue[connection] \in Seq(Requests) /\ "stop" \in Requests
        /\ queue \in [Supervisors -> Seq(Requests)]
    BY <1>1 DEF TypeOK, Requests
  <2>2. /\ Append(queue[connection], "stop") \in Seq(Requests)
        /\ Range(Append(queue[connection], "stop")) = Range(queue[connection]) \cup {"stop"}
    BY <2>1, QueueAppend
  <2>3. queue' = [queue EXCEPT ![connection] = Append(queue[connection], "stop")]
    BY DEF Disconnect
  <2>4. QED
    BY <1>1, <2>1, <2>2, <2>3
<1>3. TypeOK'
  BY <1>1, <1>2 DEF TypeOK, Requests
<1>4. BeforeConnected' /\ StartingPends' /\ ConnectedFound'
  BY <1>1, <1>2 DEF IInv, BeforeConnected, StartingPends, ConnectedFound
<1>5. OnServer' /\ OneLeader'
  BY <1>1 DEF IInv, OnServer, OneLeader, Leads
<1>6. RequestsKept'
  BY <1>1, <1>2 DEF IInv, RequestsKept, RequestKept, OnServer
<1>7. ConnectionAnswers' /\ NoneLeftBehind'
  BY <1>1, <1>2 DEF IInv, ConnectionAnswers, NoneLeftBehind
<1>8. QED
  BY <1>3, <1>4, <1>5, <1>6, <1>7 DEF IInv

-----------------------------------------------------------------------------
LEMMA InvNext == IInv /\ [Next]_vars => IInv'
<1> SUFFICES ASSUME IInv, [Next]_vars
             PROVE  IInv'
  OBVIOUS
<1>1. CASE UNCHANGED vars
  BY <1>1 DEF vars, IInv, TypeOK, ConnectionAnswers, NoneLeftBehind, BeforeConnected, StartingPends,
       OnServer, OneLeader, Leads, ConnectedFound, RequestsKept, RequestKept
<1>2. ASSUME NEW c \in Calls,
             \/ UseConnection(c) \/ Lead(c) \/ Follow(c) \/ Connected(c)
             \/ FollowerFails(c) \/ Cancel(c) \/ LeaderStops(c) \/ LeaderGone(c)
      PROVE  IInv'
  BY <1>2, InvUseConnection, InvLead, InvFollow, InvConnected, InvFollowerFails, InvCancel,
     InvLeaderStops, InvLeaderGone
<1>3. ASSUME NEW g \in Supervisors,
             \/ Connects(g) \/ Breaks(g) \/ Take(g) \/ EndsFailed(g) \/ EndsStopped(g)
             \/ \E outcome \in Outcomes : Answer(g, outcome)
      PROVE  IInv'
  BY <1>3, InvConnects, InvBreaks, InvTake, InvEndsFailed, InvEndsStopped, InvAnswer
<1>4. CASE Disconnect
  BY <1>4, InvDisconnect
<1>5. QED
  BY <1>1, <1>2, <1>3, <1>4 DEF Next

\* The invariant holds of every behaviour.
THEOREM Invariance == Spec => []IInv
BY InvInit, InvNext, PTL DEF Spec

\* Connections, supervisors, queues and calls are well-formed.
THEOREM TypeCorrect == Spec => []TypeOK
<1>1. IInv => TypeOK
  BY DEF IInv
<1>2. QED
  BY <1>1, Invariance, PTL

\* What is in connections will answer a request or refuse it: it has not ended
\* and has not been told to.
THEOREM ConnectionAlwaysAnswers == Spec => []ConnectionAnswers
<1>1. IInv => ConnectionAnswers
  BY DEF IInv
<1>2. QED
  BY <1>1, Invariance, PTL

\* No server process is left behind: one that runs can be found, or has been
\* told to stop.
THEOREM NoneEverLeftBehind == Spec => []NoneLeftBehind
<1>1. IInv => NoneLeftBehind
  BY DEF IInv
<1>2. QED
  BY <1>1, Invariance, PTL

\* The request of a waiting call is being served, or in a queue that is read
\* or will be refused, or stranded.
Followed(c) ==
  LET g == call[c].on IN
  call[c].at = "waiting" =>
    \/ c \in server[g].serves /\ server[g].at = "calling"
    \/ c \in Range(queue[g]) /\ server[g].at \in {"idle", "calling", "failing"}
    \/ Stranded(c)

\* Each request is being served, is in a queue that is read or will be refused,
\* or is stranded: there is no other way to wait for ever.
THEOREM RequestsAlwaysFollowed == Spec => [](\A c \in Calls : Followed(c))
<1>1. IInv => \A c \in Calls : Followed(c)
  <2>1. SUFFICES ASSUME IInv, NEW c \in Calls, call[c].at = "waiting"
                 PROVE  Followed(c)
    BY DEF Followed
  <2>2. PICK g \in Supervisors : g = call[c].on
    BY <2>1 DEF IInv, OnServer
  <2>3. /\ server[g].at \in {"idle", "calling", "failing", "stopping", "ended"}
        /\ c \in server[g].serves \/ c \in Range(queue[g])
    BY <2>1, <2>2 DEF IInv, TypeOK, ServerState, Serving, RequestsKept, RequestKept
  <2>4. c \in server[g].serves => server[g].at = "calling"
    BY <2>1 DEF IInv, TypeOK
  <2>5. QED
    BY <2>1, <2>2, <2>3, <2>4 DEF Followed, Stranded
<1>2. QED
  BY <1>1, Invariance, PTL

=============================================================================
