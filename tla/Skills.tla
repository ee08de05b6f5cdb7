-------------------------------- MODULE Skills --------------------------------
(***************************************************************************)
(* The skill files and their curator: context/skills/registry.py (what is  *)
(* loaded), context/skills/curator.py, and POST /curator/... of            *)
(* api/server.py, which asks for an approval before a proposal is applied. *)
(*                                                                         *)
(* A skill is a directory with a SKILL.md, named after it.  What its text  *)
(* says is a set of pieces of guidance.  The approvals are those of        *)
(* ApprovalTable; a request is known by the proposal it is about.          *)
(*                                                                         *)
(* Inside one process an application is not interrupted.  Its file         *)
(* operations are steps all the same: people edit the files, a second      *)
(* process works on the same ones, and a process may stop anywhere.        *)
(***************************************************************************)
EXTENDS Naturals, FiniteSets, FiniteSetsExt, Sequences

CONSTANTS
  Names,         \* names of skills, numbers: the order of their names
  Guidance,      \* what the skills say at the start, in pieces
  Levels,        \* the directories that are loaded, by priority: 1 is the lowest
  Initially,     \* the skills there are at the start: a function from places
  Notes,         \* what people add to skills, each once
  Processes,     \* API processes on the same files and database
  MaxApprovals   \* bound on the approvals table, for model checking

ASSUME SkillsAssumption ==
  /\ Names \subseteq Nat /\ Levels \subseteq Nat /\ MaxApprovals \in Nat

\* The skill made of several is named after all of them.
Places == [level : Levels, name : (SUBSET Names) \ {{}}]

Simple(place) == \E n \in Names : place.name = {n}

\* tagged: with tags, all the same; thin: without a description or a body;
\* plain: name and description mean themselves in YAML without quotes, and have
\* no "---" in them; broken: the frontmatter cannot be parsed.
Documents ==
  [created : BOOLEAN, pinned : BOOLEAN, deprecated : BOOLEAN, tagged : BOOLEAN,
   thin : BOOLEAN, plain : BOOLEAN, broken : BOOLEAN, holds : SUBSET (Guidance \cup Notes)]

ASSUME InitiallyAssumption ==
  \A place \in DOMAIN Initially :
    place \in Places /\ Simple(place) /\ Initially[place] \in Documents

\* No directory, and one without a SKILL.md.
NoDirectory == "no directory"
Empty == "empty"

NoText == [created |-> FALSE, pinned |-> FALSE, deprecated |-> FALSE, tagged |-> FALSE,
           thin |-> FALSE, plain |-> TRUE, broken |-> FALSE, holds |-> {}]

VARIABLES
  file,       \* file[place]: is there a directory, and what its SKILL.md says
  archive,    \* what was moved to the archive directory, and from where
  proposals,  \* the table curator_proposals; a row is known by its fingerprint
  applied,    \* the proposals marked as applied
  approvals,  \* the approvals table
  curator,    \* curator[p]: where process p is in apply
  noted       \* the notes that have been written

vars == <<file, archive, proposals, applied, approvals, curator, noted>>

Store == INSTANCE ApprovalTable WITH Requests <- proposals, Requesters <- {"operator"}

Actions == {"archive", "improve", "consolidate"}

Proposals == [action : Actions, places : SUBSET Places, text : Documents]

Proposal(action, places, text) == [action |-> action, places |-> places, text |-> text]

Idle == [at |-> "idle", proposal |-> Proposal("none", {}, NoText), todo |-> {}, text |-> NoText]

Init ==
  /\ file = [place \in Places |-> IF place \in DOMAIN Initially
                                  THEN [is |-> "skill", text |-> Initially[place]]
                                  ELSE [is |-> NoDirectory, text |-> NoText]]
  /\ archive = {}
  /\ proposals = {}
  /\ applied = {}
  /\ approvals = <<>>
  /\ curator = [p \in Processes |-> Idle]
  /\ noted = {}

There(place) == file[place].is = "skill"

Text(place) == file[place].text

Puts(place, text) == file' = [file EXCEPT ![place] = [is |-> "skill", text |-> text]]

-----------------------------------------------------------------------------
(* What is loaded, and what the curator makes of it.                         *)

\* _load_from_dir and _parse_skill_file: a file that cannot be parsed is passed
\* over.
Readable(place) == There(place) /\ ~Text(place).broken

\* load_all: of several skills of one name, that of the highest level.
Loaded ==
  {place \in Places :
     Readable(place) /\ \A other \in Places :
                          Readable(other) /\ other.name = place.name => other.level <= place.level}

Candidates == {place \in Loaded : Text(place).created /\ ~Text(place).pinned}

\* _improved_content: the description and the body are filled in, and put into
\* the frontmatter without quotes; tags and other metadata are not taken over.
Improved(text) ==
  [NoText EXCEPT !.created = TRUE, !.plain = text.plain, !.broken = ~text.plain,
                 !.holds = text.holds]

\* What analyze proposes.
Found ==
  {Proposal("archive", {c}, NoText) : c \in {d \in Candidates : Text(d).deprecated}}
  \cup {Proposal("improve", {c}, Improved(Text(c))) :
          c \in {d \in Candidates : ~Text(d).deprecated /\ Text(d).thin}}
  \cup LET group == {c \in Candidates : Text(c).tagged} IN
       {Proposal("consolidate", places, NoText) :
          places \in {g \in {group} : Cardinality(g) > 1}}

\* POST /curator/analyze.  A proposal that was made before, applied or not,
\* is not made again.
Analyze ==
  /\ proposals' = proposals \cup Found
  /\ proposals' # proposals
  /\ UNCHANGED <<file, archive, applied, approvals, curator, noted>>

-----------------------------------------------------------------------------
(* POST /curator/proposals/{id}/apply.                                       *)

At(p, at) == curator[p].at = at

Goes(p, at) == curator' = [curator EXCEPT ![p].at = at]

\* apply returns, raises, or its process stops.
Over(p) == curator' = [curator EXCEPT ![p] = Idle]

\* The first step of each action.
First(action) == CASE action = "archive" -> "move"
                   [] action = "improve" -> "improve"
                   [] action = "consolidate" -> "mkdir"

\* authorize_or_request consumes an approval of this proposal, or asks for
\* one.  The approval is consumed before apply looks at the row: for a
\* proposal that is not pending any more, apply raises.
Authorize(p, proposal) ==
  /\ At(p, "idle") /\ proposal \in proposals
  /\ \/ \E k \in DOMAIN approvals :
          /\ Store!IsNewestReusable(approvals, proposal, "approved", k)
          /\ approvals' = Store!Consumed(approvals, k)
          /\ IF proposal \in applied THEN UNCHANGED curator
             ELSE curator' = [curator EXCEPT ![p] =
                    [Idle EXCEPT !.at = First(proposal.action), !.proposal = proposal,
                                 !.todo = proposal.places]]
     \/ /\ Store!Reusable(approvals, proposal, "approved") = {}
        /\ Store!Reusable(approvals, proposal, "pending") = {}
        /\ Len(approvals) < MaxApprovals
        /\ approvals' = Store!WithPending(approvals, proposal, "operator")
        /\ UNCHANGED curator
  /\ UNCHANGED <<file, archive, proposals, applied, noted>>

Decide(k, decision) ==
  /\ Store!Decidable(approvals, k)
  /\ approvals' = Store!Decided(approvals, k, decision)
  /\ UNCHANGED <<file, archive, proposals, applied, curator, noted>>

\* write_text, which fails without the directory
Improve(p) ==
  LET place == CHOOSE place \in curator[p].todo : TRUE IN
  /\ At(p, "improve")
  /\ IF file[place].is = NoDirectory
     THEN Over(p) /\ UNCHANGED file
     ELSE Puts(place, curator[p].proposal.text) /\ Goes(p, "update")
  /\ UNCHANGED <<archive, proposals, applied, approvals, noted>>

Least(places) == CHOOSE place \in places : \A other \in places : Min(place.name) <= Min(other.name)

\* The directory of the combined skill: next to the first of its parts.
Combined(proposal) ==
  [level |-> Least(proposal.places).level, name |-> UNION {place.name : place \in proposal.places}]

\* mkdir with exist_ok=False
MakeDirectory(p) ==
  LET to == Combined(curator[p].proposal) IN
  /\ At(p, "mkdir")
  /\ IF file[to].is # NoDirectory
     THEN Over(p) /\ UNCHANGED file
     ELSE file' = [file EXCEPT ![to].is = Empty] /\ Goes(p, "read")
  /\ UNCHANGED <<archive, proposals, applied, approvals, noted>>

\* All bodies are read; one that is missing raises, and leaves the directory.
Read(p) ==
  LET parts == curator[p].proposal.places IN
  /\ At(p, "read")
  /\ IF \A place \in parts : There(place)
     THEN curator' = [curator EXCEPT ![p].at = "write",
            ![p].text = [NoText EXCEPT !.created = TRUE,
                                       !.holds = UNION {Text(place).holds : place \in parts}]]
     ELSE Over(p)
  /\ UNCHANGED <<file, archive, proposals, applied, approvals, noted>>

\* write_text once more
Write(p) ==
  LET to == Combined(curator[p].proposal) IN
  /\ At(p, "write")
  /\ IF file[to].is = NoDirectory
     THEN Over(p) /\ UNCHANGED file
     ELSE Puts(to, curator[p].text) /\ Goes(p, "move")
  /\ UNCHANGED <<archive, proposals, applied, approvals, noted>>

\* Mutant: the loop ends with the first directory.
Move_First(p) ==
  LET place == Least(curator[p].todo) IN
  /\ At(p, "move")
  /\ IF file[place].is = NoDirectory
     THEN Over(p) /\ UNCHANGED <<file, archive>>
     ELSE /\ archive' = archive \cup {[from |-> place, text |-> Text(place)]}
          /\ file' = [file EXCEPT ![place] = [is |-> NoDirectory, text |-> NoText]]
          /\ Goes(p, "update")
  /\ UNCHANGED <<proposals, applied, approvals, noted>>

\* Mutant: the archive holds one directory of each name.
Move_Replaces(p) ==
  LET place == Least(curator[p].todo)
      left == curator[p].todo \ {place} IN
  /\ At(p, "move")
  /\ IF file[place].is = NoDirectory
     THEN Over(p) /\ UNCHANGED <<file, archive>>
     ELSE /\ archive' = {a \in archive : a.from.name # place.name}
                          \cup {[from |-> place, text |-> Text(place)]}
          /\ file' = [file EXCEPT ![place] = [is |-> NoDirectory, text |-> NoText]]
          /\ curator' = [curator EXCEPT ![p].todo = left,
                                        ![p].at = IF left = {} THEN "update" ELSE "move"]
  /\ UNCHANGED <<proposals, applied, approvals, noted>>

\* _archive, one directory after the other.  A name that the archive has
\* already is made unique; a directory that is not there raises.
Move(p) ==
  LET place == Least(curator[p].todo)
      left == curator[p].todo \ {place} IN
  /\ At(p, "move")
  /\ IF file[place].is = NoDirectory
     THEN Over(p) /\ UNCHANGED <<file, archive>>
     ELSE /\ archive' = archive \cup {[from |-> place, text |-> Text(place)]}
          /\ file' = [file EXCEPT ![place] = [is |-> NoDirectory, text |-> NoText]]
          /\ curator' = [curator EXCEPT ![p].todo = left,
                                        ![p].at = IF left = {} THEN "update" ELSE "move"]
  /\ UNCHANGED <<proposals, applied, approvals, noted>>

Update(p) ==
  /\ At(p, "update")
  /\ applied' = applied \cup {curator[p].proposal}
  /\ Over(p)
  /\ UNCHANGED <<file, archive, proposals, approvals, noted>>

\* The process stops in the middle of an application.
Crash(p) ==
  /\ ~At(p, "idle")
  /\ Over(p)
  /\ UNCHANGED <<file, archive, proposals, applied, approvals, noted>>

-----------------------------------------------------------------------------
(* What people do to the files.                                              *)

\* A note is added to a skill, or written to a skill of its own.
Note(place, note) ==
  /\ note \notin noted
  /\ \/ There(place)
     \/ /\ file[place].is = NoDirectory
        /\ Cardinality(place.name) = 1
  /\ noted' = noted \cup {note}
  /\ Puts(place, [Text(place) EXCEPT !.thin = FALSE, !.holds = @ \cup {note}])
  /\ UNCHANGED <<archive, proposals, applied, approvals, curator>>

\* A skill that is loaded is marked as deprecated, or pinned.
Mark(place) ==
  /\ place \in Candidates /\ ~Text(place).deprecated
  /\ \/ Puts(place, [Text(place) EXCEPT !.deprecated = TRUE])
     \/ Puts(place, [Text(place) EXCEPT !.pinned = TRUE])
  /\ UNCHANGED <<archive, proposals, applied, approvals, curator, noted>>

-----------------------------------------------------------------------------
Apply(p) ==
  \/ Improve(p) \/ MakeDirectory(p) \/ Read(p) \/ Write(p) \/ Move(p) \/ Update(p)

Next ==
  \/ Analyze
  \/ \E p \in Processes : Apply(p) \/ Crash(p) \/ \E proposal \in proposals : Authorize(p, proposal)
  \/ \E k \in DOMAIN approvals, decision \in {"approved", "rejected"} : Decide(k, decision)
  \/ \E place \in Places : Mark(place) \/ \E note \in Notes : Note(place, note)

Spec == Init /\ [][Next]_vars

-----------------------------------------------------------------------------
(* Properties.                                                               *)

\* Files, archive, proposals and the applications under way are well-formed.
TypeOK ==
  /\ file \in [Places -> [is : {NoDirectory, Empty, "skill"}, text : Documents]]
  /\ archive \subseteq [from : Places, text : Documents]
  /\ proposals \subseteq Proposals /\ applied \subseteq proposals
  /\ approvals \in Seq(Store!Row)
  /\ curator \in [Processes ->
       [at : {"idle", "improve", "mkdir", "read", "write", "move", "update"},
        proposal : Proposals \cup {Idle.proposal}, todo : SUBSET Places, text : Documents]]
  /\ \A p \in Processes : At(p, "idle") \/ curator[p].proposal \in proposals
  /\ noted \subseteq Notes

\* Is this piece of guidance in a skill that can be read, or at least in the
\* archive?
Present(piece) ==
  \/ \E place \in Places : Readable(place) /\ piece \in Text(place).holds
  \/ \E a \in archive : piece \in a.text.holds

\* Was the directory of a combined skill archived while it was empty, by an
\* application of another process?
Emptied(place) == \E a \in archive : a.from = place /\ a.text = NoText

\* Whatever crashes, fails or is applied twice, no guidance is lost, except by
\* improve: what was added to a skill after the analysis, since apply writes
\* the text of the proposal over it, and a skill with a description that has to
\* be quoted, since that text does not.  And by consolidate, when its directory
\* was taken away and made again before it writes.
GuidanceKept ==
  [][\A piece \in Guidance \cup Notes :
       Present(piece) /\ ~Present(piece)' =>
         \E p \in Processes :
           LET written == curator[p].proposal.text IN
           \/ At(p, "improve") /\ (piece \notin written.holds \/ written.broken)
           \/ At(p, "write") /\ Emptied(Combined(curator[p].proposal))]_vars

\* What a skill says, or said when it was archived.
Whole(place) ==
  Text(place).holds \cup UNION {a.text.holds : a \in {b \in archive : b.from = place}}

\* What may have been written to a skill since it was read.
Later(place) ==
  Notes \cup UNION {q.text.holds : q \in {r \in proposals : r.action = "improve" /\ r.places = {place}}}

\* A proposal that is marked as applied has been, in full: every skill it
\* archives is in the archive, and what these said is in the combined skill,
\* unless it was noted meanwhile, or written by an improvement.
AppliedInFull ==
  \A proposal \in applied :
    proposal.action # "improve" => \A place \in proposal.places :
      \E a \in archive :
        /\ a.from = place
        /\ proposal.action = "consolidate" /\ ~Emptied(Combined(proposal)) =>
             a.text.holds \subseteq Whole(Combined(proposal)) \cup Later(place)

=============================================================================
