----------------------------- MODULE MCAgentLoop -----------------------------
EXTENDS AgentLoop
CONSTANTS r1, r2

NoHooks == [event \in {"graph_start", "pause"} |-> <<>>]

Plain == [runs |-> {r1}, overlapping |-> FALSE, usages |-> {1}, turns |-> 2, hooks |-> NoHooks,
          commands |-> 0, review |-> FALSE, mishaps |-> {}]

TwoRuns == [Plain EXCEPT !.runs = {r1, r2}, !.hooks["graph_start"] = <<TRUE>>,
                         !.mishaps = {"late", "hook", "ask"}]

Verified == [Plain EXCEPT !.usages = {0}, !.turns = 3, !.commands = 2, !.review = TRUE,
                          !.mishaps = {"blank", "ask"}]

Faulty == [Plain EXCEPT !.overlapping = TRUE,
                        !.hooks = [event \in DOMAIN NoHooks |-> <<FALSE, TRUE>>],
                        !.commands = 1, !.review = TRUE, !.mishaps = AllMishaps]

\* Two runs one after the other, with pauses and resumptions; a run whose
\* writes are verified and whose answer is reviewed; both with more that may go
\* wrong; and one run with everything that may fail or interfere.
RegularVerifiedAndFaulty ==
  {TwoRuns, [TwoRuns EXCEPT !.mishaps = @ \cup {"declined", "unresumable"}],
   Verified, [Verified EXCEPT !.mishaps = @ \cup {"interrupt", "restart", "declined"}],
   Faulty}
=============================================================================
