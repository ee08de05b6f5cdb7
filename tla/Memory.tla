-------------------------------- MODULE Memory --------------------------------
(***************************************************************************)
(* The long-term memory of context/memory/manager.py: the table            *)
(* long_term_memory, the file MEMORY.md, and the extraction of what is     *)
(* worth remembering by the auxiliary model.                               *)
(*                                                                         *)
(* A content is a sequence of lines.  A line is a text with the types that *)
(* persist_to_file has put before it, the latest first: reading the file   *)
(* does not take them away.                                                *)
(***************************************************************************)
EXTENDS Naturals, Sequences, SequencesExt

CONSTANTS
  Texts,     \* what a line may say
  Skipped    \* the texts that are blank or begin with "#"

Types == {"fact", "preference", "decision", "error_lesson"}

Written(text) == [text |-> text, types |-> <<>>]

Line == [text : Texts, types : Seq(Types)]

Entry(content, type) == [content |-> content, type |-> type]

Memories == [content : Seq(Line), type : Types]

\* The UNIQUE signature is a hash of the content, whatever the type is.
IsStored(rows, content) == \E row \in rows : row.content = content

\* _add_to_db for each of the items, in their order
Stored(rows, items) ==
  rows \cup {items[i] : i \in {k \in DOMAIN items :
                                 /\ ~IsStored(rows, items[k].content)
                                 /\ \A j \in 1..(k - 1) : items[j].content # items[k].content}}

\* _llm_extract: an item of another type is passed over.  A call that fails, and
\* an answer that is no list, have no item at all.
Extracted(answer) == SelectSeq(answer, LAMBDA item : item.type \in Types)

\* persist_to_file: a bullet and the type are put before the first line.
Persisted(rows) ==
  UNION {{[row.content[1] EXCEPT !.types = <<row.type>> \o @]}
           \cup Range(Tail(row.content)) : row \in rows}

\* _load_memory_file: every line of the file is an entry of its own.
ReadBack(rows, file) ==
  rows \cup {Entry(<<line>>, "fact") : line \in
              {l \in file : /\ l.types # <<>> \/ l.text \notin Skipped
                            /\ ~IsStored(rows, <<l>>)}}

=============================================================================
