---------------------------- MODULE ContextEngine ----------------------------
(***************************************************************************)
(* What the model is shown and what is remembered: LegacyEngine of         *)
(* context/engine.py for one session, with the pipeline of Compaction, the *)
(* auxiliary model behind it, the long-term memory of Memory, and the      *)
(* agent loop as it uses them.                                             *)
(*                                                                         *)
(* A step lies between two awaits that really suspend: a model call, a     *)
(* summary, a tool, the extraction of memories.                            *)
(***************************************************************************)
EXTENDS Compaction, Memory, FiniteSets

CONSTANTS
  Runs,          \* runs of the session
  MaxRetries,    \* max_retries in forward_with_handling
  Racing,        \* whether a message may come while a summary is awaited
  Lengths,       \* of user messages, tool results and summaries; the
                 \* model's own messages are short
  MaxMessages,   \* bound on the messages of the session
  Answers,       \* what the auxiliary model may extract: sequences of items
  MaxTypes       \* bound on how often a line is read back from MEMORY.md

ASSUME ContextAssumption ==
  /\ Racing \in BOOLEAN /\ Lengths \subseteq {"short", "long", "huge"}
  /\ MaxRetries \in Nat /\ MaxMessages \in Nat /\ MaxTypes \in Nat

VARIABLES
  db,       \* the messages of the session in the messages table
  cache,    \* compacted_messages and compacted_source_count of its state
  run,      \* run[r]: where run r stands; history: "seen" is the number of
            \* messages when it last saw to its context
  rows,     \* the long_term_memory table
  memoryFile      \* the lines of MEMORY.md

engineVars == <<db, cache, run, rows, memoryFile>>

NoCache == [messages |-> <<>>, count |-> 0]

Resting == [pc |-> "idle", tries |-> 0, held |-> <<>>, seen |-> 0]

EngineInit ==
  /\ db = <<>>
  /\ cache = NoCache
  /\ run = [r \in Runs |-> Resting]
  /\ rows = {} /\ memoryFile = {}

Stands(r, pc) == run[r].pc = pc

GoesOn(r, pc) == run' = [run EXCEPT ![r].pc = pc]

Add(role, content) ==
  /\ Len(db) < MaxMessages
  /\ Racing \/ \A r \in Runs : ~Stands(r, "summary")
  /\ db' = Append(db, Message(role, Len(db) + 1, content))

\* _assemble_full_messages
Full == <<Message("system", 0, "short")>> \o db

-----------------------------------------------------------------------------
(* The context                                                             *)

\* bootstrap replaces the state, then the user's message is saved.
StartRun(r) ==
  /\ Stands(r, "idle")
  /\ cache' = NoCache
  /\ \E content \in Lengths : Add("user", content)
  /\ GoesOn(r, "turn")
  /\ UNCHANGED <<rows, memoryFile>>

\* A run that has seen to its context.
ToCall(tries) == [pc |-> "call", tries |-> tries, held |-> <<>>, seen |-> Len(db)]

\* _compact_messages keeps what the pipeline returned, with the number of
\* messages in the table by then.
Keep(messages) == cache' = [messages |-> messages, count |-> Len(db)]

\* The pipeline up to the call of the auxiliary model, if it comes to that.
Compact(r, tries) ==
  IF WantsSummary(Prepared(Full))
  THEN /\ run' = [run EXCEPT ![r] = [pc |-> "summary", tries |-> tries, held |-> Prepared(Full),
                                    seen |-> Len(db)]]
       /\ UNCHANGED cache
  ELSE /\ Keep(Prepared(Full))
       /\ run' = [run EXCEPT ![r] = ToCall(tries)]

\* maintain, at the head of a turn
Maintain(r) ==
  /\ Stands(r, "turn")
  /\ IF Fits(Full)
     THEN cache' = NoCache /\ run' = [run EXCEPT ![r] = ToCall(run[r].tries)]
     ELSE Compact(r, run[r].tries)
  /\ UNCHANGED <<db, rows, memoryFile>>

\* The auxiliary model has returned a summary, or has failed.
Summarized(r) ==
  /\ Stands(r, "summary")
  /\ \/ \E summary \in Lengths : Keep(Archived(run[r].held, summary))
     \/ Keep(run[r].held)
  /\ run' = [run EXCEPT ![r].pc = "call", ![r].held = <<>>]
  /\ UNCHANGED <<db, rows, memoryFile>>

\* Mutant: the count is not compared.
Assembled_Unchecked == IF cache # NoCache THEN cache.messages ELSE Full

\* assemble: the cached context is good for the table it was made from.
Assembled ==
  IF cache # NoCache /\ cache.count = Len(db) THEN cache.messages ELSE Full

\* The model is given what is Assembled.
CallModel(r) ==
  /\ Stands(r, "call")
  /\ run' = [run EXCEPT ![r].pc = "model", ![r].seen = 0]
  /\ UNCHANGED <<db, cache, rows, memoryFile>>

\* Another attempt after compacting whatever the counter says is too long: by
\* its measure there may be nothing to compact.
Recover(r) ==
  /\ IF Fits(Full)
     THEN run' = [run EXCEPT ![r] = ToCall(run[r].tries + 1)] /\ UNCHANGED cache
     ELSE Compact(r, run[r].tries + 1)
  /\ UNCHANGED <<db, rows, memoryFile>>

\* The model refuses the context as too long.
Overflow(r) == Stands(r, "model") /\ run[r].tries < MaxRetries /\ Recover(r)

\* The model calls a tool.
CallTool(r) ==
  /\ Stands(r, "model")
  /\ Add("assistant", "short")
  /\ run' = [run EXCEPT ![r].pc = "tool", ![r].tries = 0]
  /\ UNCHANGED <<cache, rows, memoryFile>>

ToolReturns(r) ==
  /\ Stands(r, "tool")
  /\ \E content \in Lengths : Add("tool", content)
  /\ GoesOn(r, "turn")
  /\ UNCHANGED <<cache, rows, memoryFile>>

Answer(r) ==
  /\ Stands(r, "model")
  /\ Add("assistant", "short")
  /\ run' = [run EXCEPT ![r].pc = "noting", ![r].tries = 0]
  /\ UNCHANGED <<cache, rows, memoryFile>>

-----------------------------------------------------------------------------
(* The memory                                                              *)

\* extract_and_persist, and the file is written when something was added.
Remember(answer) ==
  /\ rows' = Stored(rows, Extracted(answer))
  /\ memoryFile' = IF rows' = rows THEN memoryFile ELSE Persisted(rows')

\* after_turn
AfterTurn(r) ==
  /\ Stands(r, "noting")
  /\ \E answer \in Answers : Remember(answer)
  /\ run' = [run EXCEPT ![r] = Resting]
  /\ UNCHANGED <<db, cache>>

\* Each entry is committed by itself: what a process that stops may have added
\* without writing the file.
HalfStored ==
  {rows} \cup UNION {{Stored(rows, SubSeq(Extracted(answer), 1, k)) : k \in DOMAIN Extracted(answer)} :
                     answer \in {a \in Answers : \E r \in Runs : Stands(r, "noting")}}

\* The process ends and is started again: states are lost, the file is read.
Restart ==
  /\ \A line \in memoryFile : Len(line.types) <= MaxTypes
  /\ run' = [r \in Runs |-> Resting]
  /\ cache' = NoCache
  /\ \E left \in HalfStored : rows' = ReadBack(left, memoryFile)
  /\ UNCHANGED <<db, memoryFile>>

-----------------------------------------------------------------------------
EngineNext ==
  \/ \E r \in Runs :
       \/ StartRun(r) \/ Maintain(r) \/ Summarized(r) \/ CallModel(r) \/ Overflow(r)
       \/ CallTool(r) \/ ToolReturns(r) \/ Answer(r) \/ AfterTurn(r)
  \/ Restart

EngineSpec == EngineInit /\ [][EngineNext]_engineVars

-----------------------------------------------------------------------------
Messages == [role : {"system", "user", "assistant", "tool"}, id : 0..MaxMessages,
             content : Contents]

\* Conversations, runs and memories are well-formed.
EngineTypeOK ==
  /\ db \in Seq(Messages) /\ Len(db) <= MaxMessages
  /\ cache \in [messages : Seq(Messages), count : 0..MaxMessages]
  /\ run \in [Runs -> [pc : {"idle", "turn", "summary", "call", "model", "tool", "noting"},
                       tries : 0..MaxRetries, held : Seq(Messages), seen : 0..MaxMessages]]
  /\ rows \subseteq Memories /\ memoryFile \subseteq Line

Ids(messages) == [i \in DOMAIN messages |-> messages[i].id]

SummaryIds == <<0, 0>> \o Ids(SubSeq(db, Len(db) - 3, Len(db)))

\* What the model is shown when run r calls it is the conversation as it stands
\* then, whatever this run or another one has cached or added: the system
\* prompt and all messages in their order, or a summary and the last four.
\* (Holds unless a message comes while a summary is awaited.)
SentIsCurrent ==
  \A r \in Runs : Stands(r, "call") =>
    \/ Ids(Assembled) = Ids(Full)
    \/ Len(db) >= 4 /\ Ids(Assembled) = SummaryIds

\* Compaction goes as far as it must and no further: what is shown exceeds the
\* budget only when all three steps have been tried, or another run has added
\* to the conversation since this one saw to it; and a step leaves its marks
\* only when the steps before it were not enough.
AsMuchAsNeeded ==
  \A r \in Runs : Stands(r, "call") =>
    LET marks == {Assembled[i].content : i \in DOMAIN Assembled}
        summarized == Ids(Assembled) # Ids(Full) IN
    /\ ~Fits(Assembled) =>
         summarized \/ Assembled = Folded(Cleaned(Full)) \/ run[r].seen < Len(db)
    /\ "cleared" \in marks => ~Fits(Full)
    /\ "folded" \in marks => ~Fits(Cleaned(Full))
    /\ summarized => ~Fits(Folded(Cleaned(Full)))

(* What the comments say, and the code does not do.                        *)

\* Signatures keep a memory from being stored twice.
NoRestatement ==
  \A m, n \in rows : m.content[1].text = n.content[1].text => m = n
=============================================================================
