------------------------------ MODULE ModelCalls ------------------------------
(***************************************************************************)
(* The calls of the model: AgentLoop.forward_with_handling and _call_model *)
(* with its retries (engine/agent_loop.py), the auxiliary calls for        *)
(* summaries and memory (engine/conch_engine.py), the pool of keys they    *)
(* share (security/credentials.py) and the health of the tools that are    *)
(* offered with a call (tools/registry.py).                                *)
(*                                                                         *)
(* Everything runs on one event loop.  The provider, the tools and the     *)
(* servers that list tools answer at any time, in any order.  Time goes in *)
(* steps of half a minute; a backoff of 1, 2 or 4 seconds may pass within  *)
(* one.                                                                    *)
(***************************************************************************)
EXTENDS Naturals, Sequences, FiniteSets, ErrorClasses

CONSTANTS
  Runs,        \* agent runs, each calling the model for one answer
  Auxiliaries, \* auxiliary calls
  Keys,        \* the credentials of the provider, numbers: the order of their aliases
  Priority,    \* priority[k] of key k
  Resolving,   \* the keys whose reference resolves to a secret
  Core,        \* core tools
  Served,      \* tools of MCP servers
  MaxRetries,  \* max_retries in forward_with_handling
  Cooldown,    \* failure_cooldown
  Suppression, \* transient_suppress
  Errors,      \* the errors that may be raised
  MaxTime,     \* bounds for model checking: on the clock,
  Amounts      \*   and on requests, and tool executions and refreshes: one is chosen

ASSUME CallAssumption ==
  /\ Keys \subseteq Nat \ {0} /\ Priority \in [Keys -> Nat] /\ Resolving \subseteq Keys
  /\ Core \cap Served = {}
  /\ MaxRetries \in Nat /\ Cooldown \in Nat \ {0} /\ Suppression \in Nat \ {0}
  /\ MaxTime \in Nat /\ Amounts \subseteq [requests : Nat, uses : Nat]

VARIABLES
  now,        \* time.time()
  key,        \* key[k]: CredentialPool._state, without the failures nobody reads
  health,     \* health[t]: the entry of tool t in ToolRegistry._health
  registered, \* the keys of ToolRegistry._tools
  executing,  \* the executions of tool t under way
  refreshes,  \* the calls of refresh_mcp_tools under way
  call,       \* call[c]: where call c is
  left,       \* what is left of the amounts
  heard,      \* history: the latest answer to a call with key k, and when it came
  ended       \* history: the ends of tool t since it was registered

vars == <<now, key, health, registered, executing, refreshes, call, left, heard, ended>>

None == 0
Callers == Runs \cup Auxiliaries
Tools == Core \cup Served

Healthy == [failures |-> 0, until |-> 0]

Fresh == [at |-> "idle", attempt |-> 0, key |-> None, tools |-> {}, reason |-> "none"]

Init ==
  /\ now = 0
  /\ key = [k \in Keys |-> [until |-> 0, last |-> 0, uses |-> 0]]
  /\ health = [t \in Tools |-> Healthy]
  /\ registered = Tools
  /\ executing = [t \in Tools |-> 0]
  /\ refreshes = 0
  /\ call = [c \in Callers |-> Fresh]
  /\ left \in Amounts
  /\ heard = [k \in Keys |-> [what |-> "nothing", at |-> 0]]
  /\ ended = [t \in Tools |-> <<>>]

At(c, at) == call[c].at = at

Takes(what) == left[what] > 0 /\ left' = [left EXCEPT ![what] = @ - 1]

Tick ==
  /\ now < MaxTime
  /\ now' = now + 1
  /\ UNCHANGED <<key, health, registered, executing, refreshes, call, left, heard, ended>>

-----------------------------------------------------------------------------
(* CredentialPool                                                            *)

\* The sort key of acquire: priority, uses, last_used_at, alias.
Before(j, k) ==
  LET a == <<Priority[j], key[j].uses, key[j].last, j>>
      b == <<Priority[k], key[k].uses, key[k].last, k>> IN
  \E i \in 1..4 : a[i] < b[i] /\ \A h \in 1..(i - 1) : a[h] = b[h]

\* Mutant: the cooldown is not looked at.
Candidates_Cooling == Resolving

\* A candidate whose reference does not resolve is passed over.
Candidates == {k \in Resolving : key[k].until <= now}

\* acquire: the key to use, or None: then the call is made without api_key,
\* and litellm looks for one in the environment.
Acquired ==
  IF Candidates = {} THEN None
  ELSE CHOOSE k \in Candidates : \A j \in Candidates \ {k} : Before(k, j)

WithUse(k) ==
  IF k = None THEN key ELSE [key EXCEPT ![k].uses = @ + 1, ![k].last = now]

\* record_success and record_failure
WithAnswer(k, what) ==
  IF k = None THEN key
  ELSE [key EXCEPT ![k].until = IF what = "success" THEN 0 ELSE now + Cooldown]

Heard(k, what) ==
  IF k = None THEN heard
  ELSE [heard EXCEPT ![k] = [what |-> what, at |-> now]]

-----------------------------------------------------------------------------
(* The calls.                                                                *)

\* get_available_schemas for core tools: nothing is awaited.
Offered(tools) == {t \in registered \cap tools : now >= health[t].until}

\* The context is assembled.
Begin(c) ==
  /\ c \in Runs /\ At(c, "idle")
  /\ call' = [call EXCEPT ![c].at = "assembling"]
  /\ UNCHANGED <<now, key, health, registered, executing, refreshes, left, heard, ended>>

\* Schemas and key are looked up, and the request is sent.
Send(c) ==
  /\ Takes("requests")
  /\ \/ c \in Runs /\ At(c, "assembling")
     \/ c \in Auxiliaries /\ At(c, "idle")
  /\ key' = WithUse(Acquired)
  /\ call' = [call EXCEPT ![c] = [@ EXCEPT !.at = "sent", !.key = Acquired,
                                           !.tools = IF c \in Runs THEN Offered(Core) ELSE {}]]
  /\ UNCHANGED <<now, health, registered, executing, refreshes, heard, ended>>

Answer(c) ==
  /\ At(c, "sent")
  /\ key' = WithAnswer(call[c].key, "success")
  /\ heard' = Heard(call[c].key, "success")
  /\ call' = [call EXCEPT ![c].at = "done", ![c].reason = "none"]
  /\ UNCHANGED <<now, health, registered, executing, refreshes, left, ended>>

\* What forward_with_handling does about an error: "asleep" before it retries,
\* "compacting" before it does, or at once; else it is over, without a
\* response or with one that says "[Error recovered: ...]".
Handled(c, reason) ==
  LET strategy == Strategy(reason)
      more == call[c].attempt < MaxRetries IN
  CASE strategy = "retry" /\ more -> "asleep"
    [] strategy = "requery" /\ more -> "assembling"
    [] strategy = "compact" /\ more -> "compacting"
    [] OTHER -> "done"

\* Counts the next attempt, if there is one.
AfterError(c, reason) ==
  LET at == Handled(c, reason)
      attempt == call[c].attempt IN
  [call EXCEPT ![c] = [@ EXCEPT !.at = at, !.reason = reason, !.key = None, !.tools = {},
                                !.attempt = IF at = "done" THEN attempt ELSE attempt + 1]]

\* The assembly raises: no key is concerned.
AssemblyFails(c, error) ==
  /\ At(c, "assembling") /\ Takes("requests")
  /\ call' = AfterError(c, Classify(error))
  /\ UNCHANGED <<now, key, health, registered, executing, refreshes, heard, ended>>

\* The provider raises.  Whatever the error is about, the key has failed.
\* For an auxiliary call the exception goes on to its caller.
Fail(c, error) ==
  /\ At(c, "sent")
  /\ key' = WithAnswer(call[c].key, "failure")
  /\ heard' = Heard(call[c].key, "failure")
  /\ call' = IF c \in Runs THEN AfterError(c, Classify(error))
             ELSE [call EXCEPT ![c].at = "done"]
  /\ UNCHANGED <<now, health, registered, executing, refreshes, left, ended>>

\* The sleep, or the compaction, is over.
Again(c) ==
  /\ At(c, "asleep") \/ At(c, "compacting")
  /\ call' = [call EXCEPT ![c].at = "assembling"]
  /\ UNCHANGED <<now, key, health, registered, executing, refreshes, left, heard, ended>>

\* The task is cancelled, which the pool does not hear of, or the compaction
\* raises, which nothing in forward_with_handling catches.
Break(c) ==
  /\ call[c].at \notin {"idle", "done"}
  /\ call' = [call EXCEPT ![c].at = "done", ![c].reason = "none"]
  /\ UNCHANGED <<now, key, health, registered, executing, refreshes, left, heard, ended>>

-----------------------------------------------------------------------------
(* The tools.                                                                *)

ToolStarts(t) ==
  /\ t \in registered /\ Takes("uses")
  /\ executing' = [executing EXCEPT ![t] = @ + 1]
  /\ UNCHANGED <<now, key, health, registered, refreshes, call, heard, ended>>

\* Mutant: a success does not count against earlier failures.
WithEnd_Total(t, what) ==
  LET failures == health[t].failures + 1 IN
  IF what = "success" THEN [health EXCEPT ![t].until = 0]
  ELSE [health EXCEPT ![t] = [failures |-> failures,
                              until |-> IF failures >= 2 THEN now + Suppression ELSE @.until]]

\* record_success, and record_failure: two failures in a row suppress a tool.
WithEnd(t, what) ==
  LET failures == health[t].failures + 1 IN
  IF what = "success" THEN [health EXCEPT ![t] = Healthy]
  ELSE [health EXCEPT ![t] = [failures |-> failures,
                              until |-> IF failures >= 2 THEN now + Suppression ELSE @.until]]

\* Of a tool that is not registered any more there is no health to record.
ToolEnds(t, what) ==
  /\ executing[t] > 0
  /\ executing' = [executing EXCEPT ![t] = @ - 1]
  /\ IF t \in registered
     THEN /\ health' = WithEnd(t, what)
          /\ ended' = [ended EXCEPT ![t] = Append(@, [what |-> what, at |-> now])]
     ELSE UNCHANGED <<health, ended>>
  /\ UNCHANGED <<now, key, registered, refreshes, call, left, heard>>

\* refresh_mcp_tools takes all tools of servers out, and asks the servers.
RefreshStarts ==
  /\ Takes("uses")
  /\ refreshes' = refreshes + 1
  /\ registered' = registered \ Served
  /\ health' = [t \in Tools |-> IF t \in Served THEN Healthy ELSE health[t]]
  /\ ended' = [t \in Tools |-> IF t \in Served THEN <<>> ELSE ended[t]]
  /\ UNCHANGED <<now, key, executing, call, heard>>

\* The answer of the servers; of one that fails no tool is registered.
RefreshEnds ==
  /\ refreshes > 0
  /\ refreshes' = refreshes - 1
  /\ \E found \in SUBSET Served :
       /\ registered' = registered \cup found
       /\ health' = [t \in Tools |-> IF t \in found THEN Healthy ELSE health[t]]
       /\ ended' = [t \in Tools |-> IF t \in found THEN <<>> ELSE ended[t]]
  /\ UNCHANGED <<now, key, executing, call, left, heard>>

-----------------------------------------------------------------------------
CallStep(c) ==
  \/ Begin(c) \/ Send(c) \/ Answer(c) \/ Again(c) \/ Break(c)
  \/ \E error \in Errors : Fail(c, error) \/ AssemblyFails(c, error)

Next ==
  \/ Tick
  \/ \E c \in Callers : CallStep(c)
  \/ \E t \in Tools : ToolStarts(t) \/ \E what \in {"success", "failure"} : ToolEnds(t, what)
  \/ RefreshStarts \/ RefreshEnds

Spec == Init /\ [][Next]_vars

-----------------------------------------------------------------------------
(* Properties.                                                               *)

KeyState == [until : Nat, last : Nat, uses : Nat]

End == [what : {"success", "failure"}, at : Nat]

CallState ==
  [at : {"idle", "assembling", "sent", "asleep", "compacting", "done"}, attempt : 0..MaxRetries,
   key : Keys \cup {None}, tools : SUBSET Core, reason : Reasons]

\* Keys, tools, calls and histories are well-formed; no call makes more than
\* max_retries + 1 attempts.
TypeOK ==
  /\ now \in Nat /\ refreshes \in Nat /\ left \in [requests : Nat, uses : Nat]
  /\ key \in [Keys -> KeyState]
  /\ health \in [Tools -> [failures : Nat, until : Nat]]
  /\ registered \subseteq Tools
  /\ executing \in [Tools -> Nat]
  /\ call \in [Callers -> CallState]
  /\ heard \in [Keys -> [what : {"nothing", "success", "failure"}, at : Nat]]
  /\ ended \in [Tools -> Seq(End)]

\* Key k has not failed, or its latest answer is a failure that long ago.
Rested(k) == heard[k].what = "failure" => now >= heard[k].at + Cooldown

\* However the calls of several runs overlap: a call is made with a key whose
\* latest answer is not a failure within the cooldown, none that would do has
\* precedence over it, and it is made without a key only when none would do.
KeyChosen ==
  [][\A c \in Callers : ~At(c, "sent") /\ At(c, "sent")' =>
       LET k == call'[c].key  fit == {j \in Resolving : Rested(j)} IN
       IF k = None THEN fit = {}
       ELSE k \in fit /\ \A j \in fit : Priority[k] <= Priority[j]]_vars

\* The strategies, the sets of errors that may and may not be retried, and the
\* loop agree: what must never be retried ends the call at once, what may be
\* retried is recovered from only after max_retries.
RepeatsAsTabled ==
  \A c \in Runs :
    /\ call[c].reason \in NeverRetry => At(c, "done")
    /\ At(c, "done") /\ call[c].reason \in Retryable => call[c].attempt = MaxRetries

\* The latest two executions of the tool that ended failed, and the second of
\* them less than transient_suppress ago.
FailedTwice(t) ==
  LET n == Len(ended[t]) IN
  /\ n >= 2
  /\ \A i \in {n - 1, n} : ended[t][i].what = "failure"
  /\ now < ended[t][n].at + Suppression

\* Whatever ends, is registered or taken out meanwhile, and in any order: a
\* tool is offered unless its latest two executions have just failed.
OfferedUnlessFailing == Offered(Tools) = {t \in registered : ~FailedTwice(t)}

=============================================================================
