------------------------------ MODULE Compaction ------------------------------
(***************************************************************************)
(* The compaction of a conversation, context/compact/pipeline.py, as       *)
(* operators on sequences of messages.                                     *)
(*                                                                         *)
(* Of a message's content only the length is kept, in the classes that     *)
(* the pipeline tells apart; Weight is what a class counts for.            *)
(***************************************************************************)
EXTENDS Naturals, SequencesExt

CONSTANTS
  KeepRecent,   \* ResultCleanup.keep_recent
  Weight,       \* tokens counted for a content of each class
  Available     \* token_budget.available_for_context

\* At most 200 characters, up to 2000, and more; a cleared tool result, and a
\* folded content.
Contents == {"short", "long", "huge", "cleared", "folded"}

\* A cleared result has some 50 characters, a folded content some 1430.
ASSUME CompactionAssumption ==
  /\ KeepRecent \in Nat /\ Available \in Nat
  /\ Weight \in [Contents -> Nat]
  /\ Weight["cleared"] <= Weight["long"] /\ Weight["cleared"] <= Weight["huge"]
  /\ Weight["folded"] <= Weight["huge"]

\* id is the row of the messages table, 0 for what is not in it.
Message(role, id, content) == [role |-> role, id |-> id, content |-> content]

\* SimpleTokenCounter.estimate
Tokens(messages) == FoldLeft(LAMBDA sum, m : sum + Weight[m.content], 0, messages)

Fits(messages) == Tokens(messages) <= Available

\* Step 1, ResultCleanup: old tool results of some length are cleared.
Cleaned(messages) ==
  [i \in DOMAIN messages |->
     IF /\ i + KeepRecent <= Len(messages)
        /\ messages[i].role = "tool" /\ messages[i].content \in {"long", "huge"}
     THEN [messages[i] EXCEPT !.content = "cleared"]
     ELSE messages[i]]

\* Step 2, ContentFolding.
Folded(messages) ==
  [i \in DOMAIN messages |->
     IF messages[i].content = "huge" THEN [messages[i] EXCEPT !.content = "folded"]
     ELSE messages[i]]

\* Mutant: no look at the budget between the first two steps.
Prepared_Both(messages) ==
  IF Fits(messages) THEN messages ELSE Folded(Cleaned(messages))

\* The steps that ask no model, each only while the budget is exceeded.
Prepared(messages) ==
  CASE Fits(messages) -> messages
    [] ~Fits(messages) /\ Fits(Cleaned(messages)) -> Cleaned(messages)
    [] OTHER -> Folded(Cleaned(messages))

\* The messages of some positions, in their order.
Picked(messages, positions) ==
  LET IsKth(k, i) == Cardinality({j \in positions : j <= i}) = k IN
  [k \in 1..Cardinality(positions) |-> messages[CHOOSE i \in positions : IsKth(k, i)]]

System(messages) == Picked(messages, {i \in DOMAIN messages : messages[i].role = "system"})

Conversation(messages) == Picked(messages, {i \in DOMAIN messages : messages[i].role # "system"})

\* Step 3, SummaryArchive, asks the auxiliary model about a conversation of six
\* messages and more...
WantsSummary(messages) == ~Fits(messages) /\ Len(Conversation(messages)) >= 6

\* ... and puts its summary in the place of all but the last four of them.
Archived(messages, summary) ==
  LET talk == Conversation(messages) IN
  System(messages) \o <<Message("user", 0, summary)>>
                   \o SubSeq(talk, Len(talk) - 3, Len(talk))
=============================================================================
