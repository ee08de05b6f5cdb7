----------------------------- MODULE SessionTables -----------------------------
(***************************************************************************)
(* What is kept of one session in the database: its messages and turns     *)
(* (state/session_db.py), and its checkpoints (state/checkpoint.py).       *)
(*                                                                         *)
(* A message: "of" is the run and turn that wrote it; "n" is the number of *)
(* tool calls of an assistant message, and for a tool message the call     *)
(* whose id it carries, 0 when its tool_call_id is empty.                  *)
(***************************************************************************)
EXTENDS Naturals, SequencesExt

Message(role, of, n) == [role |-> role, of |-> of, n |-> n]

\* start_turn, and finish_turn for the row it made
WithTurn(turns) == Append(turns, "running")

Finished(turns, turn, outcome) == [turns EXCEPT ![turn] = outcome]

\* save_checkpoint, which is given no messages and takes those of the table
Saved(checkpoints, saved, turn, messages) ==
  Append(checkpoints, [status |-> saved, turn |-> turn, messages |-> messages])

\* load_checkpoint without an id
Latest(checkpoints) ==
  IF checkpoints = <<>> THEN [status |-> "none", turn |-> 0, messages |-> <<>>]
  ELSE Last(checkpoints)

\* pause, apart from the session's status
Paused(checkpoints, turn, messages) == Saved(checkpoints, "paused", turn, messages)

\* resume with restore, apart from the session's status: the messages are
\* replaced by those of the latest checkpoint, if that was made by a pause.
Resumed(checkpoints, messages) ==
  IF Latest(checkpoints).status = "paused" THEN Latest(checkpoints).messages ELSE messages

\* What is in the table when the process stops inside of restore: the first
\* add_message commits the DELETE, and each commits its own message.
Interrupted(checkpoints) ==
  {SubSeq(Latest(checkpoints).messages, 1, k) : k \in DOMAIN Latest(checkpoints).messages}

=============================================================================
