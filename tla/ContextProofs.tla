----------------------------- MODULE ContextProofs -----------------------------
(***************************************************************************)
(* Proofs about what the model is shown and guided by: the curator of the  *)
(* skills (Skills), and the context of a session (ContextEngine).          *)
(***************************************************************************)
EXTENDS Skills, ContextEngine, SequenceTheorems, FiniteSetTheorems,
        WellFoundedInduction, TLAPS

-----------------------------------------------------------------------------
(* The skills and the curator.                                             *)

(* A set of naturals has a smallest element.                               *)
LEMMA LeastNumber ==
  ASSUME NEW S, S \subseteq Nat, S # {}
  PROVE  Min(S) \in S /\ \A x \in S : Min(S) <= x
<1>1. PICK x \in S : \A y \in S : <<y, x>> \notin OpToRel(<, Nat)
  BY NatLessThanWellFounded, WFMin
<1>2. \A y \in S : ~(y < x)
  BY <1>1 DEF OpToRel
<1>3. \A y \in S : x <= y
  BY <1>2
<1>4. QED
  BY <1>3 DEF Min

(* There is a first one among places, in the order of their names.         *)
LEMMA LeastPlace ==
  ASSUME NEW places \in SUBSET Places, places # {}
  PROVE  Least(places) \in places
<1> DEFINE F(place) == Min(place.name)
           S == {F(place) : place \in places}
<1>1. \A place \in places : F(place) \in Nat
  <2> SUFFICES ASSUME NEW place \in places PROVE F(place) \in Nat
    OBVIOUS
  <2>1. place.name \subseteq Nat /\ place.name # {}
    BY SkillsAssumption DEF Places
  <2>2. QED
    BY <2>1, LeastNumber
<1> HIDE DEF F
<1>2. S \subseteq Nat /\ S # {}
  BY <1>1
<1>3. Min(S) \in S /\ \A x \in S : Min(S) <= x
  BY <1>2, LeastNumber
<1>4. PICK place \in places : F(place) = Min(S)
  BY <1>3
<1>5. \A other \in places : F(place) <= F(other)
  BY <1>3, <1>4
<1>6. QED
  BY <1>5 DEF Least, F

(* Two skills of different simple names give a name that is not simple.    *)
LEMMA CombinedPlace ==
  ASSUME NEW proposal \in Proposals,
         \A place \in proposal.places : Simple(place),
         NEW c \in proposal.places, NEW d \in proposal.places, c.name # d.name
  PROVE  Combined(proposal) \in Places /\ ~Simple(Combined(proposal))
<1> DEFINE joined == UNION {place.name : place \in proposal.places}
<1>1. proposal.places \in SUBSET Places /\ proposal.places # {}
  BY DEF Proposals
<1>2. Least(proposal.places) \in Places
  BY <1>1, LeastPlace
<1>3. PICK m \in Names : c.name = {m}
  BY DEF Simple
<1>4. PICK n \in Names : d.name = {n}
  BY DEF Simple
<1>5. m \in joined /\ n \in joined /\ m # n
  BY <1>3, <1>4
<1>6. joined \in (SUBSET Names) \ {{}}
  BY <1>1, <1>5 DEF Places
<1>7. Combined(proposal).name = joined /\ Combined(proposal).level = Least(proposal.places).level
  BY DEF Combined
<1> HIDE DEF joined
<1>8. Combined(proposal) \in Places
  <2>1. Least(proposal.places).level \in Levels
    BY <1>2 DEF Places
  <2>2. Combined(proposal) = [level |-> Least(proposal.places).level, name |-> joined]
    BY DEF Combined, joined
  <2>3. QED
    BY <1>6, <2>1, <2>2 DEF Places
<1>9. ~Simple(Combined(proposal))
  BY <1>5, <1>7 DEF Simple
<1>10. QED
  BY <1>8, <1>9

-----------------------------------------------------------------------------
(* The files and the proposals.                                            *)

FilesShaped ==
  \A place \in Places :
    /\ ~There(place) => Text(place) = NoText
    /\ Text(place).thin \/ Text(place).tagged => Simple(place)

Sound(q) ==
  /\ q \in Proposals /\ q.places # {}
  /\ q.action = "improve" => \E c \in Places : q.places = {c} /\ Simple(c)
  /\ q.action = "consolidate" => /\ \A c \in q.places : Simple(c)
                                 /\ \E c, d \in q.places : c.name # d.name

Files == [Places -> [is : {NoDirectory, Empty, "skill"}, text : Documents]]

Steps == {"idle", "improve", "mkdir", "read", "write", "move", "update"}

Curators == [at : Steps, proposal : Proposals \cup {Idle.proposal}, todo : SUBSET Places,
             text : Documents]

(* Where an application is in its proposal.                                *)
Stage(c) ==
  LET q == c.proposal IN
  /\ c.at # "idle" => q \in proposals
  /\ c.at = "improve" => q.action = "improve" /\ c.todo = q.places
  /\ c.at \in {"mkdir", "read", "write"} => q.action = "consolidate" /\ c.todo = q.places
  /\ c.at = "move" => q.action # "improve" /\ c.todo # {} /\ c.todo \subseteq q.places
  /\ c.at = "update" => q.action = "improve" \/ c.todo = {}
  /\ ~c.text.thin /\ ~c.text.tagged

Shapes ==
  /\ file \in Files
  /\ archive \subseteq [from : Places, text : Documents]
  /\ curator \in [Processes -> Curators]
  /\ noted \subseteq Notes
  /\ applied \subseteq proposals
  /\ FilesShaped
  /\ \A q \in proposals : Sound(q)
  /\ \A p \in Processes : Stage(curator[p])

LEMMA NoTextFacts ==
  /\ NoText \in Documents /\ ~NoText.thin /\ ~NoText.tagged /\ ~NoText.broken
  /\ NoText.holds = {} /\ NoDirectory # Empty /\ NoDirectory # "skill" /\ Empty # "skill"
BY DEF NoText, Documents, NoDirectory, Empty

LEMMA IdleFacts ==
  /\ Idle \in Curators /\ Idle.at = "idle" /\ Stage(Idle)
BY NoTextFacts DEF Idle, Curators, Steps, Stage

(* What analyze proposes.                                                  *)
LEMMA FoundSound ==
  ASSUME Shapes, NEW q \in Found
  PROVE  Sound(q)
<1>1. \A c \in Candidates : c \in Places /\ Text(c) \in Documents /\ c \in Loaded
  BY DEF Candidates, Loaded, Shapes, Files, Text
<1>2. CASE \E c \in Candidates : q = Proposal("archive", {c}, NoText)
  BY <1>1, <1>2, NoTextFacts DEF Sound, Proposal, Proposals, Actions
<1>3. CASE \E c \in Candidates : Text(c).thin /\ q = Proposal("improve", {c}, Improved(Text(c)))
  <2> PICK c \in Candidates : Text(c).thin /\ q = Proposal("improve", {c}, Improved(Text(c)))
    BY <1>3
  <2>1. Simple(c) /\ c \in Places /\ Text(c) \in Documents
    BY <1>1 DEF Shapes, FilesShaped
  <2>2. Improved(Text(c)) \in Documents
    BY <2>1, NoTextFacts DEF Improved, Documents
  <2>3. QED
    BY <2>1, <2>2 DEF Sound, Proposal, Proposals, Actions
<1>4. ASSUME NEW group, group \subseteq {c \in Candidates : Text(c).tagged}, Cardinality(group) > 1,
             q = Proposal("consolidate", group, NoText)
      PROVE  Sound(q)
  <2>1. group # {}
    BY <1>4, FS_EmptySet
  <2>2. PICK c \in group : TRUE
    BY <2>1
  <2>3. group # {c}
    <3>1. Cardinality({c}) = 1
      BY FS_Singleton
    <3>2. QED
      BY <1>4, <3>1
  <2>4. PICK d \in group : d # c
    BY <2>2, <2>3
  <2>5. /\ c \in Loaded /\ d \in Loaded /\ c \in Places /\ d \in Places
        /\ \A e \in group : Simple(e) /\ e \in Places
    BY <1>1, <1>4 DEF Shapes, FilesShaped
  <2>6. ASSUME c.name = d.name PROVE FALSE
    <3>1. c.level <= d.level /\ d.level <= c.level
      BY <2>5, <2>6 DEF Loaded
    <3>2. c.level \in Nat /\ d.level \in Nat
      BY <2>5, SkillsAssumption DEF Places
    <3>3. c.level = d.level
      BY <3>1, <3>2
    <3>4. c = d
      BY <2>5, <2>6, <3>3 DEF Places
    <3>5. QED
      BY <2>4, <3>4
  <2>7. /\ q.action = "consolidate" /\ q.places = group /\ q \in Proposals
    BY <1>4, <2>5, NoTextFacts DEF Proposal, Proposals, Actions
  <2>8. QED
    BY <2>1, <2>2, <2>4, <2>5, <2>6, <2>7 DEF Sound
<1>5. QED
  BY <1>2, <1>3, <1>4 DEF Found

(* One place is given a new directory.                                     *)
LEMMA FileWritten ==
  ASSUME Shapes, NEW place \in Places, NEW is \in {NoDirectory, Empty, "skill"},
         NEW text \in Documents,
         is # "skill" => text = NoText,
         text.thin \/ text.tagged => Simple(place),
         file' = [file EXCEPT ![place] = [is |-> is, text |-> text]]
  PROVE  /\ file' \in Files /\ FilesShaped'
         /\ file'[place].is = is /\ Text(place)' = text
         /\ \A other \in Places \ {place} : file'[other] = file[other]
<1>1. file \in Files
  BY DEF Shapes
<1>2. /\ file' \in Files
      /\ file'[place] = [is |-> is, text |-> text]
      /\ \A other \in Places \ {place} : file'[other] = file[other]
  BY <1>1 DEF Files
<1>3. FilesShaped'
  BY <1>2 DEF Shapes, FilesShaped, There, Text
<1>4. QED
  BY <1>2, <1>3 DEF Text

(* One application moves on, or ends.                                      *)
Advances(p) ==
  /\ curator' \in [Processes -> Curators]
  /\ \A q \in Processes \ {p} : curator'[q] = curator[q]

LEMMA CuratorSet ==
  ASSUME Shapes, NEW p \in Processes, NEW c \in Curators,
         curator' = [curator EXCEPT ![p] = c]
  PROVE  Advances(p) /\ curator'[p] = c
BY DEF Shapes, Advances

LEMMA CuratorGoes ==
  ASSUME Shapes, NEW p \in Processes, NEW at \in Steps, Goes(p, at)
  PROVE  Advances(p) /\ curator'[p] = [curator[p] EXCEPT !.at = at]
<1>1. curator \in [Processes -> Curators] /\ curator[p] \in Curators
  BY DEF Shapes
<1>2. [curator[p] EXCEPT !.at = at] \in Curators
  BY <1>1 DEF Curators
<1>3. curator' = [curator EXCEPT ![p] = [curator[p] EXCEPT !.at = at]]
  BY DEF Goes
<1>4. QED
  BY <1>2, <1>3, CuratorSet

LEMMA CuratorOver ==
  ASSUME Shapes, NEW p \in Processes, Over(p)
  PROVE  Advances(p) /\ curator'[p] = Idle
BY CuratorSet, IdleFacts DEF Over

-----------------------------------------------------------------------------
(* What the steps of an application do.                                    *)

Ends(p) == Advances(p) /\ curator'[p] = Idle /\ UNCHANGED <<file, archive, noted>>

Improves(p) ==
  \E place \in Places :
    /\ curator[p].at = "improve" /\ curator[p].proposal.places = {place} /\ Simple(place)
    /\ curator[p].proposal.action = "improve"
    /\ file' \in Files /\ FilesShaped'
    /\ file'[place].is = "skill" /\ Text(place)' = curator[p].proposal.text
    /\ \A other \in Places \ {place} : file'[other] = file[other]
    /\ Advances(p) /\ curator'[p] = [curator[p] EXCEPT !.at = "update"]
    /\ UNCHANGED <<archive, applied, noted>>

Target(p) == Combined(curator[p].proposal)

Makes(p) ==
  /\ curator[p].at = "mkdir" /\ file[Target(p)].is = NoDirectory
  /\ file' \in Files /\ FilesShaped'
  /\ file'[Target(p)].is = Empty /\ \A other \in Places : Text(other)' = Text(other)
  /\ \A other \in Places \ {Target(p)} : file'[other] = file[other]
  /\ Advances(p) /\ curator'[p] = [curator[p] EXCEPT !.at = "read"]
  /\ UNCHANGED <<archive, applied, noted>>

Reads(p) ==
  LET parts == curator[p].proposal.places IN
  /\ curator[p].at = "read"
  /\ Advances(p)
  /\ \E text \in Documents :
       /\ curator'[p] = [curator[p] EXCEPT !.at = "write", !.text = text]
       /\ ~text.thin /\ ~text.tagged
       /\ \A place \in parts : Text(place).holds \subseteq text.holds
  /\ UNCHANGED <<file, archive, applied, noted>>

Writes(p) ==
  /\ curator[p].at = "write" /\ file[Target(p)].is # NoDirectory
  /\ file' \in Files /\ FilesShaped'
  /\ file'[Target(p)] = [is |-> "skill", text |-> curator[p].text]
  /\ \A other \in Places \ {Target(p)} : file'[other] = file[other]
  /\ Advances(p) /\ curator'[p] = [curator[p] EXCEPT !.at = "move"]
  /\ UNCHANGED <<archive, applied, noted>>

Moves(p) ==
  \E place \in curator[p].todo :
    /\ curator[p].at = "move" /\ place \in Places
    /\ archive' = archive \cup {[from |-> place, text |-> Text(place)]}
    /\ file' \in Files /\ FilesShaped'
    /\ file'[place].is = NoDirectory /\ Text(place)' = NoText
    /\ \A other \in Places \ {place} : file'[other] = file[other]
    /\ Advances(p)
    /\ curator'[p] = [curator[p] EXCEPT !.todo = @ \ {place},
                                        !.at = IF curator[p].todo = {place} THEN "update" ELSE "move"]
    /\ UNCHANGED <<applied, noted>>

Applies(p) ==
  /\ curator[p].at = "update"
  /\ applied' = applied \cup {curator[p].proposal}
  /\ Advances(p) /\ curator'[p] = Idle
  /\ UNCHANGED <<file, archive, noted>>

LEMMA ImproveEffect ==
  ASSUME Shapes, NEW p \in Processes, Improve(p)
  PROVE  Improves(p) \/ (Ends(p) /\ UNCHANGED applied)
<1> DEFINE place == CHOOSE place \in curator[p].todo : TRUE
           q == curator[p].proposal
<1>1. curator \in [Processes -> Curators] /\ curator[p] \in Curators
  BY DEF Shapes
<1>2. curator[p].at = "improve" /\ q \in proposals /\ Sound(q) /\ q.action = "improve"
      /\ curator[p].todo = q.places
  BY DEF Shapes, Stage, Improve, At
<1>3. PICK c \in Places : q.places = {c} /\ Simple(c)
  BY <1>2 DEF Sound
<1>4. place = c
  BY <1>2, <1>3
<1>5. q.text \in Documents
  BY <1>2 DEF Sound, Proposals
<1>6. CASE file[place].is = NoDirectory
  BY <1>6, CuratorOver DEF Improve, Ends
<1>7. CASE file[place].is # NoDirectory
  <2>1. /\ file' = [file EXCEPT ![c] = [is |-> "skill", text |-> q.text]]
        /\ Goes(p, "update") /\ UNCHANGED <<archive, applied, noted>>
    BY <1>4, <1>7 DEF Improve, Puts
  <2>2. /\ file' \in Files /\ FilesShaped'
        /\ file'[c].is = "skill" /\ Text(c)' = q.text
        /\ \A other \in Places \ {c} : file'[other] = file[other]
    BY <1>3, <1>5, <2>1, FileWritten
  <2>3. Advances(p) /\ curator'[p] = [curator[p] EXCEPT !.at = "update"]
    BY <2>1, CuratorGoes DEF Steps
  <2>4. QED
    BY <1>2, <1>3, <2>1, <2>2, <2>3 DEF Improves
<1>8. QED
  BY <1>6, <1>7

(* The directory of a consolidation under way.                             *)
LEMMA TargetPlace ==
  ASSUME Shapes, NEW p \in Processes, curator[p].at # "idle",
         curator[p].proposal.action = "consolidate"
  PROVE  Target(p) \in Places /\ ~Simple(Target(p))
<1>1. Sound(curator[p].proposal)
  BY DEF Shapes, Stage
<1>2. QED
  BY <1>1, CombinedPlace DEF Sound, Target

LEMMA MakeEffect ==
  ASSUME Shapes, NEW p \in Processes, MakeDirectory(p)
  PROVE  Makes(p) \/ (Ends(p) /\ UNCHANGED applied)
<1>1. curator \in [Processes -> Curators] /\ curator[p] \in Curators /\ file \in Files
  BY DEF Shapes
<1>2. curator[p].at = "mkdir" /\ curator[p].proposal.action = "consolidate"
  BY DEF Shapes, Stage, MakeDirectory, At
<1>3. PICK to \in Places : to = Target(p)
  BY <1>2, TargetPlace
<1>4. CASE file[to].is # NoDirectory
  BY <1>3, <1>4, CuratorOver DEF MakeDirectory, Ends, Target
<1>5. CASE file[to].is = NoDirectory
  <2>1. /\ file' = [file EXCEPT ![to].is = Empty] /\ Goes(p, "read")
        /\ UNCHANGED <<archive, applied, noted>>
    BY <1>3, <1>5 DEF MakeDirectory, Target
  <2>2. Text(to) = NoText
    BY <1>3, <1>5, NoTextFacts DEF Shapes, FilesShaped, There
  <2>3. [file[to] EXCEPT !.is = Empty] = [is |-> Empty, text |-> NoText]
    BY <1>1, <1>3, <2>2 DEF Files, Text
  <2>4. file' = [file EXCEPT ![to] = [is |-> Empty, text |-> NoText]]
    BY <2>1, <2>3
  <2>5. /\ file' \in Files /\ FilesShaped'
        /\ file'[to].is = Empty /\ Text(to)' = NoText
        /\ \A other \in Places \ {to} : file'[other] = file[other]
    BY <1>3, <2>4, FileWritten, NoTextFacts
  <2>6. Advances(p) /\ curator'[p] = [curator[p] EXCEPT !.at = "read"]
    BY <2>1, CuratorGoes DEF Steps
  <2>7. \A other \in Places : Text(other)' = Text(other)
    BY <2>2, <2>5 DEF Text
  <2>8. QED
    BY <1>2, <1>3, <1>5, <2>1, <2>5, <2>6, <2>7 DEF Makes
<1>6. QED
  BY <1>4, <1>5

LEMMA ReadEffect ==
  ASSUME Shapes, NEW p \in Processes, Read(p)
  PROVE  Reads(p) \/ (Ends(p) /\ UNCHANGED applied)
<1> DEFINE parts == curator[p].proposal.places
           text == [NoText EXCEPT !.created = TRUE,
                                  !.holds = UNION {Text(place).holds : place \in parts}]
<1>1. curator \in [Processes -> Curators] /\ curator[p] \in Curators /\ file \in Files
  BY DEF Shapes
<1>2. curator[p].at = "read" /\ parts \subseteq Places
  <2>1. curator[p].at = "read"
    BY DEF Read, At
  <2>2. QED
    BY <2>1 DEF Shapes, Stage, Sound, Proposals
<1>3. CASE \A place \in parts : There(place)
  <2>1. curator' = [curator EXCEPT ![p].at = "write", ![p].text = text]
        /\ UNCHANGED <<file, archive, applied, noted>>
    BY <1>3 DEF Read
  <2>2. \A place \in parts : Text(place).holds \subseteq Guidance \cup Notes
    BY <1>1, <1>2 DEF Files, Documents, Text
  <2>3. text \in Documents /\ ~text.thin /\ ~text.tagged
        /\ text.holds = UNION {Text(place).holds : place \in parts}
    BY <2>2 DEF NoText, Documents
  <2>4. \A place \in parts : Text(place).holds \subseteq text.holds
    BY <2>3
  <2> HIDE DEF text
  <2>5. [curator[p] EXCEPT !.at = "write", !.text = text] \in Curators
    BY <1>1, <2>3 DEF Curators, Steps
  <2>6. Advances(p) /\ curator'[p] = [curator[p] EXCEPT !.at = "write", !.text = text]
    BY <1>1, <2>1, <2>5, CuratorSet
  <2>7. QED
    BY <1>2, <2>1, <2>3, <2>4, <2>6 DEF Reads
<1>4. CASE ~\A place \in parts : There(place)
  BY <1>4, CuratorOver DEF Read, Ends
<1>5. QED
  BY <1>3, <1>4

LEMMA WriteEffect ==
  ASSUME Shapes, NEW p \in Processes, Write(p)
  PROVE  Writes(p) \/ (Ends(p) /\ UNCHANGED applied)
<1> DEFINE text == curator[p].text
<1>1. curator \in [Processes -> Curators] /\ curator[p] \in Curators
  BY DEF Shapes
<1>2. /\ curator[p].at = "write" /\ curator[p].proposal.action = "consolidate"
      /\ ~text.thin /\ ~text.tagged /\ text \in Documents
  BY <1>1 DEF Shapes, Stage, Write, At, Curators
<1>3. PICK to \in Places : to = Target(p)
  BY <1>2, TargetPlace
<1>4. CASE file[to].is = NoDirectory
  BY <1>3, <1>4, CuratorOver DEF Write, Ends, Target
<1>5. CASE file[to].is # NoDirectory
  <2>1. /\ file' = [file EXCEPT ![to] = [is |-> "skill", text |-> text]] /\ Goes(p, "move")
        /\ UNCHANGED <<archive, applied, noted>>
    BY <1>3, <1>5 DEF Write, Puts, Target
  <2>2. /\ file' \in Files /\ FilesShaped'
        /\ \A other \in Places \ {to} : file'[other] = file[other]
    <3> HIDE DEF text
    <3>1. QED
      BY <1>2, <1>3, <2>1, FileWritten
  <2>5. file'[to] = [is |-> "skill", text |-> text]
    BY <1>3, <2>1 DEF Shapes, Files
  <2>3. Advances(p) /\ curator'[p] = [curator[p] EXCEPT !.at = "move"]
    BY <2>1, CuratorGoes DEF Steps
  <2>4. QED
    BY <1>2, <1>3, <1>5, <2>1, <2>2, <2>3, <2>5 DEF Writes
<1>6. QED
  BY <1>4, <1>5

LEMMA MoveEffect ==
  ASSUME Shapes, NEW p \in Processes, Move(p)
  PROVE  Moves(p) \/ (Ends(p) /\ UNCHANGED applied)
<1>1. curator \in [Processes -> Curators] /\ curator[p] \in Curators
  BY DEF Shapes
<1>2. curator[p].at = "move" /\ curator[p].todo # {} /\ curator[p].todo \in SUBSET Places
  BY <1>1 DEF Shapes, Stage, Move, At, Curators
<1>3. PICK place \in Places : place \in curator[p].todo /\ place = Least(curator[p].todo)
  BY <1>2, LeastPlace
<1> DEFINE left == curator[p].todo \ {place}
           at == IF left = {} THEN "update" ELSE "move"
<1>4. CASE file[place].is = NoDirectory
  BY <1>3, <1>4, CuratorOver DEF Move, Ends
<1>5. CASE file[place].is # NoDirectory
  <2>1. /\ archive' = archive \cup {[from |-> place, text |-> Text(place)]}
        /\ file' = [file EXCEPT ![place] = [is |-> NoDirectory, text |-> NoText]]
        /\ curator' = [curator EXCEPT ![p].todo = left, ![p].at = at]
        /\ UNCHANGED <<applied, noted>>
    BY <1>3, <1>5 DEF Move
  <2>2. /\ file' \in Files /\ FilesShaped'
        /\ file'[place].is = NoDirectory /\ Text(place)' = NoText
        /\ \A other \in Places \ {place} : file'[other] = file[other]
    BY <1>3, <2>1, FileWritten, NoTextFacts
  <2>3. left \in SUBSET Places /\ at \in Steps /\ (left = {} <=> curator[p].todo = {place})
    BY <1>2, <1>3 DEF Steps
  <2>4. [curator[p] EXCEPT !.todo = left, !.at = at] \in Curators
    BY <1>1, <2>3 DEF Curators
  <2>5. Advances(p) /\ curator'[p] = [curator[p] EXCEPT !.todo = left, !.at = at]
    BY <1>1, <2>1, <2>4, CuratorSet
  <2>6. QED
    BY <1>2, <1>3, <2>1, <2>2, <2>3, <2>5 DEF Moves
<1>6. QED
  BY <1>4, <1>5

LEMMA UpdateEffect ==
  ASSUME Shapes, NEW p \in Processes, Update(p)
  PROVE  Applies(p)
BY CuratorOver DEF Update, Applies, At

(* What a consumed approval begins.                                        *)
Begins(p) ==
  /\ Advances(p) /\ UNCHANGED <<file, archive, applied, noted>>
  /\ curator[p].at = "idle"
  /\ \E q \in proposals :
       curator'[p] = [Idle EXCEPT !.at = First(q.action), !.proposal = q, !.todo = q.places]

LEMMA AuthorizeEffect ==
  ASSUME Shapes, NEW p \in Processes, NEW q \in proposals, Authorize(p, q)
  PROVE  Begins(p) \/ UNCHANGED <<file, archive, applied, noted, curator>>
<1> DEFINE c == [Idle EXCEPT !.at = First(q.action), !.proposal = q, !.todo = q.places]
<1>1. UNCHANGED <<file, archive, applied, noted>> /\ curator[p].at = "idle"
      /\ (UNCHANGED curator \/ curator' = [curator EXCEPT ![p] = c])
  BY DEF Authorize, At
<1>2. Sound(q)
  BY DEF Shapes
<1>3. First(q.action) \in Steps
  BY <1>2 DEF Sound, Proposals, Actions, First, Steps
<1>4. c \in Curators
  BY <1>2, <1>3, IdleFacts DEF Sound, Proposals, Curators, Idle
<1> HIDE DEF c
<1>5. CASE curator' = [curator EXCEPT ![p] = c]
  BY <1>1, <1>4, <1>5, CuratorSet DEF Begins, c
<1>6. QED
  BY <1>1, <1>5

(* What people do to a skill: what it says stays, but for a note.          *)
Edited ==
  \E place \in Places :
    /\ file' \in Files /\ FilesShaped'
    /\ file[place].is # Empty /\ file'[place].is = "skill"
    /\ Text(place).holds \subseteq file'[place].text.holds
    /\ file'[place].text.holds \subseteq Text(place).holds \cup Notes
    /\ file'[place].text.broken = Text(place).broken
    /\ \A other \in Places \ {place} : file'[other] = file[other]
    /\ noted' \subseteq Notes
    /\ UNCHANGED <<archive, applied, curator>>

LEMMA NoteEffect ==
  ASSUME Shapes, NEW place \in Places, NEW note \in Notes, Note(place, note)
  PROVE  Edited
<1> DEFINE text == [Text(place) EXCEPT !.thin = FALSE, !.holds = @ \cup {note}]
<1>1. file \in Files /\ Text(place) \in Documents /\ noted \subseteq Notes
  BY DEF Shapes, Files, Text
<1>2. /\ file' = [file EXCEPT ![place] = [is |-> "skill", text |-> text]]
      /\ noted' = noted \cup {note} /\ UNCHANGED <<archive, applied, curator>>
      /\ (There(place) \/ file[place].is = NoDirectory)
  BY DEF Note, Puts
<1>5. /\ text \in Documents /\ text.holds = Text(place).holds \cup {note}
      /\ text.broken = Text(place).broken /\ ~text.thin /\ text.tagged = Text(place).tagged
  BY <1>1 DEF Documents
<1>6. text.tagged => Simple(place)
  BY <1>5 DEF Shapes, FilesShaped
<1> HIDE DEF text
<1>7. /\ file' \in Files /\ FilesShaped'
      /\ \A other \in Places \ {place} : file'[other] = file[other]
  BY <1>2, <1>5, <1>6, FileWritten
<1>8. file'[place] = [is |-> "skill", text |-> text] /\ file[place].is # Empty
  BY <1>1, <1>2, NoTextFacts DEF Files, There
<1>9. QED
  BY <1>1, <1>2, <1>5, <1>7, <1>8 DEF Edited

LEMMA MarkEffect ==
  ASSUME Shapes, NEW place \in Places, Mark(place)
  PROVE  Edited
<1>1. file \in Files /\ Text(place) \in Documents /\ noted \subseteq Notes
  BY DEF Shapes, Files, Text
<1>2. There(place) /\ UNCHANGED <<archive, applied, curator, noted>>
  BY DEF Mark, Candidates, Loaded, Readable
<1>3. ASSUME NEW text \in Documents, file' = [file EXCEPT ![place] = [is |-> "skill", text |-> text]],
             text.holds = Text(place).holds, text.broken = Text(place).broken,
             text.thin = Text(place).thin, text.tagged = Text(place).tagged
      PROVE  Edited
  <2>1. text.thin \/ text.tagged => Simple(place)
    BY <1>3 DEF Shapes, FilesShaped
  <2>2. /\ file' \in Files /\ FilesShaped'
        /\ \A other \in Places \ {place} : file'[other] = file[other]
    BY <1>3, <2>1, FileWritten
  <2>3. file'[place] = [is |-> "skill", text |-> text] /\ file[place].is # Empty
    BY <1>1, <1>2, <1>3, NoTextFacts DEF Files, There
  <2>4. QED
    BY <1>1, <1>2, <1>3, <2>2, <2>3 DEF Edited
<1>4. CASE Puts(place, [Text(place) EXCEPT !.deprecated = TRUE])
  <2> DEFINE text == [Text(place) EXCEPT !.deprecated = TRUE]
  <2>1. /\ text \in Documents /\ text.holds = Text(place).holds /\ text.broken = Text(place).broken
        /\ text.thin = Text(place).thin /\ text.tagged = Text(place).tagged
    BY <1>1 DEF Documents
  <2>2. file' = [file EXCEPT ![place] = [is |-> "skill", text |-> text]]
    BY <1>4 DEF Puts
  <2> HIDE DEF text
  <2>3. QED
    BY <1>3, <2>1, <2>2
<1>5. CASE Puts(place, [Text(place) EXCEPT !.pinned = TRUE])
  <2> DEFINE text == [Text(place) EXCEPT !.pinned = TRUE]
  <2>1. /\ text \in Documents /\ text.holds = Text(place).holds /\ text.broken = Text(place).broken
        /\ text.thin = Text(place).thin /\ text.tagged = Text(place).tagged
    BY <1>1 DEF Documents
  <2>2. file' = [file EXCEPT ![place] = [is |-> "skill", text |-> text]]
    BY <1>5 DEF Puts
  <2> HIDE DEF text
  <2>3. QED
    BY <1>3, <2>1, <2>2
<1>6. QED
  BY <1>4, <1>5 DEF Mark

(* Analysis adds proposals, and nothing else does.                         *)
Analyzed ==
  /\ proposals \subseteq proposals' /\ \A q \in proposals' : Sound(q)
  /\ UNCHANGED <<file, archive, applied, curator, noted>>

ProcessStep(p) ==
  \/ Begins(p) \/ Improves(p) \/ Makes(p) \/ Reads(p) \/ Writes(p) \/ Moves(p) \/ Applies(p)
  \/ Ends(p) /\ UNCHANGED applied

LEMMA StepCases ==
  ASSUME Shapes, [Next]_vars
  PROVE  \/ Analyzed
         \/ UNCHANGED proposals /\ Edited
         \/ UNCHANGED proposals /\ \E p \in Processes : ProcessStep(p)
         \/ UNCHANGED <<file, archive, proposals, applied, curator, noted>>
<1>1. CASE Analyze
  BY <1>1, FoundSound DEF Analyze, Analyzed, Shapes, Sound
<1>2. ASSUME NEW p \in Processes, Apply(p)
      PROVE  UNCHANGED proposals /\ ProcessStep(p)
  <2>1. UNCHANGED proposals
    BY <1>2 DEF Apply, Improve, MakeDirectory, Read, Write, Move, Update
  <2>2. QED
    BY <1>2, <2>1, ImproveEffect, MakeEffect, ReadEffect, WriteEffect, MoveEffect, UpdateEffect
       DEF Apply, ProcessStep
<1>3. ASSUME NEW p \in Processes, Crash(p)
      PROVE  UNCHANGED proposals /\ ProcessStep(p)
  BY <1>3, CuratorOver DEF Crash, ProcessStep, Ends
<1>4. ASSUME NEW p \in Processes, NEW q \in proposals, Authorize(p, q)
      PROVE  UNCHANGED proposals /\ (ProcessStep(p) \/ UNCHANGED <<file, archive, applied, curator, noted>>)
  <2>1. UNCHANGED proposals
    BY <1>4 DEF Authorize
  <2>2. QED
    BY <1>4, <2>1, AuthorizeEffect DEF ProcessStep
<1>5. ASSUME NEW k, NEW decision, Decide(k, decision)
      PROVE  UNCHANGED <<file, archive, proposals, applied, curator, noted>>
  BY <1>5 DEF Decide
<1>6. ASSUME NEW place \in Places, Mark(place) \/ \E note \in Notes : Note(place, note)
      PROVE  UNCHANGED proposals /\ Edited
  <2>1. UNCHANGED proposals
    BY <1>6 DEF Mark, Note
  <2>2. QED
    BY <1>6, <2>1, MarkEffect, NoteEffect
<1>7. CASE UNCHANGED vars
  BY <1>7 DEF vars
<1>8. QED
  BY <1>1, <1>2, <1>3, <1>4, <1>5, <1>6, <1>7 DEF Next

(* The applications that stay where they are keep their stage.             *)
LEMMA StageKept ==
  ASSUME Shapes, NEW p \in Processes, Advances(p), UNCHANGED proposals,
         Stage(curator'[p])
  PROVE  \A q \in Processes : Stage(curator[q])'
BY DEF Shapes, Advances, Stage

LEMMA ShapesStep == Shapes /\ [Next]_vars => Shapes'
<1> SUFFICES ASSUME Shapes, [Next]_vars PROVE Shapes'
  OBVIOUS
<1>0. /\ file \in Files /\ FilesShaped /\ curator \in [Processes -> Curators]
      /\ archive \subseteq [from : Places, text : Documents]
  BY DEF Shapes
<1>1. CASE Analyzed
  BY <1>1 DEF Analyzed, Shapes, Stage, FilesShaped, There, Text
<1>2. CASE UNCHANGED proposals /\ Edited
  BY <1>2 DEF Edited, Shapes, Stage
<1>3. CASE UNCHANGED <<file, archive, proposals, applied, curator, noted>>
  BY <1>3 DEF Shapes, Stage, FilesShaped, There, Text
<1>4. ASSUME UNCHANGED proposals, NEW p \in Processes, ProcessStep(p)
      PROVE  Shapes'
  <2>0. Stage(curator[p]) /\ curator[p] \in Curators
    BY <1>0 DEF Shapes
  <2>1. ASSUME Advances(p), Stage(curator'[p]), file' \in Files, FilesShaped',
               archive' \subseteq [from : Places, text : Documents], UNCHANGED noted,
               applied' \subseteq proposals
        PROVE  Shapes'
    <3>1. \A q \in Processes : Stage(curator[q])'
      BY <1>4, <2>1, StageKept
    <3>2. QED
      BY <1>4, <2>1, <3>1 DEF Shapes, Advances
  <2>2. CASE Begins(p)
    <3>1. PICK q \in proposals :
            curator'[p] = [Idle EXCEPT !.at = First(q.action), !.proposal = q, !.todo = q.places]
      BY <2>2 DEF Begins
    <3>2. Sound(q)
      BY DEF Shapes
    <3>3. Stage(curator'[p])
      BY <3>1, <3>2, NoTextFacts DEF Stage, Idle, First, Sound, Proposals, Actions
    <3>4. FilesShaped'
      BY <1>0, <2>2 DEF Begins, FilesShaped, There, Text
    <3>5. QED
      BY <1>0, <2>1, <2>2, <3>3, <3>4 DEF Begins, Shapes
  <2>3. CASE Improves(p)
    <3>1. Stage(curator'[p])
      BY <2>0, <2>3 DEF Improves, Stage, Curators
    <3>2. QED
      BY <1>0, <2>1, <2>3, <3>1 DEF Improves, Shapes
  <2>4. CASE Makes(p)
    <3>1. Stage(curator'[p])
      BY <2>0, <2>4 DEF Makes, Stage, Curators
    <3>2. QED
      BY <1>0, <2>1, <2>4, <3>1 DEF Makes, Shapes
  <2>5. CASE Reads(p)
    <3>1. Stage(curator'[p])
      BY <2>0, <2>5 DEF Reads, Stage, Curators
    <3>2. FilesShaped'
      BY <1>0, <2>5 DEF Reads, FilesShaped, There, Text
    <3>3. QED
      BY <1>0, <2>1, <2>5, <3>1, <3>2 DEF Reads, Shapes
  <2>6. CASE Writes(p)
    <3>1. Stage(curator'[p])
      <4>1. Sound(curator[p].proposal)
        BY <2>0, <2>6 DEF Writes, Stage, Shapes
      <4>2. QED
        BY <2>0, <2>6, <4>1 DEF Writes, Stage, Curators, Sound
    <3>2. QED
      BY <1>0, <2>1, <2>6, <3>1 DEF Writes, Shapes
  <2>7. CASE Moves(p)
    <3>1. Stage(curator'[p])
      BY <2>0, <2>7 DEF Moves, Stage, Curators
    <3>2. archive' \subseteq [from : Places, text : Documents]
      BY <1>0, <2>7 DEF Moves, Files, Text
    <3>3. QED
      BY <2>1, <2>7, <3>1, <3>2 DEF Moves, Shapes
  <2>8. CASE Applies(p)
    <3>1. FilesShaped' /\ Stage(curator'[p])
      BY <1>0, <2>8, IdleFacts DEF Applies, FilesShaped, There, Text
    <3>2. curator[p].proposal \in proposals
      BY <2>0, <2>8 DEF Applies, Stage
    <3>3. QED
      BY <1>0, <2>1, <2>8, <3>1, <3>2 DEF Applies, Shapes
  <2>9. CASE Ends(p) /\ UNCHANGED applied
    <3>1. FilesShaped' /\ Stage(curator'[p])
      BY <1>0, <2>9, IdleFacts DEF Ends, FilesShaped, There, Text
    <3>2. QED
      BY <1>0, <2>1, <2>9, <3>1 DEF Ends, Shapes
  <2>10. QED
    BY <1>4, <2>2, <2>3, <2>4, <2>5, <2>6, <2>7, <2>8, <2>9 DEF ProcessStep
<1>5. QED
  BY <1>1, <1>2, <1>3, <1>4, StepCases

-----------------------------------------------------------------------------
(* What was read for a combined skill, and what became of it.              *)

Filling(p) == curator[p].at \in {"read", "write"}

(* The directory a consolidation has made is its own until it has written, *)
(* unless it was taken away.                                               *)
OwnDirectory(p) ==
  Filling(p) /\ ~Emptied(Target(p)) =>
    /\ file[Target(p)].is = Empty
    /\ \A q \in Processes : Filling(q) /\ Target(q) = Target(p) => q = p

Says(p, place) == curator[p].text.holds \cup Later(place)

(* What is still to be archived says no more than was read, or written     *)
(* later; ...                                                              *)
Covered(p) ==
  curator[p].at \in {"write", "move"} /\ curator[p].proposal.action = "consolidate" =>
    \A place \in curator[p].todo : Text(place).holds \subseteq Says(p, place)

(* ... and so does what has been archived; ...                             *)
Moved(p) ==
  curator[p].at \in {"move", "update"} /\ curator[p].proposal.action # "improve" =>
    \A place \in curator[p].proposal.places \ curator[p].todo : \E a \in archive :
      /\ a.from = place
      /\ curator[p].proposal.action = "consolidate" => a.text.holds \subseteq Says(p, place)

(* ... what was read stays in the combined skill, or in the archive.       *)
Combines(p) ==
  curator[p].at \in {"move", "update"} /\ curator[p].proposal.action = "consolidate"
    /\ ~Emptied(Target(p)) => curator[p].text.holds \subseteq Whole(Target(p))

ApplicationInv ==
  /\ Shapes
  /\ \A p \in Processes : OwnDirectory(p) /\ Covered(p) /\ Moved(p) /\ Combines(p)
  /\ AppliedInFull

(* What every step does to the archive, the proposals and the files.       *)
Monotone ==
  /\ archive \subseteq archive' /\ proposals \subseteq proposals'
  /\ \A place \in Places : Later(place) \subseteq Later(place)'
  /\ \A place \in Places : Emptied(place) => Emptied(place)'
  /\ \A place \in Places :
       Simple(place) => file'[place].text.holds \subseteq Text(place).holds \cup Later(place)'
  /\ \A place \in Places :
       ~Simple(place) /\ ~Emptied(place)' => Whole(place) \subseteq Whole(place)'

LEMMA GrowthMonotone ==
  ASSUME archive \subseteq archive', proposals \subseteq proposals'
  PROVE  /\ \A place \in Places : Later(place) \subseteq Later(place)'
         /\ \A place \in Places : Emptied(place) => Emptied(place)'
         /\ \A place \in Places : file'[place].text.holds = Text(place).holds =>
              Whole(place) \subseteq Whole(place)'
BY DEF Later, Emptied, Whole, Text

LEMMA MonotoneStep ==
  ASSUME Shapes, \A p \in Processes : OwnDirectory(p), [Next]_vars
  PROVE  Monotone
<1>0. file \in Files /\ archive \subseteq [from : Places, text : Documents]
  BY DEF Shapes
<1>1. ASSUME archive \subseteq archive', proposals \subseteq proposals',
             NEW place \in Places,
             \A other \in Places \ {place} : file'[other] = file[other],
             Simple(place) => file'[place].text.holds \subseteq Text(place).holds \cup Later(place)',
             ~Simple(place) /\ ~Emptied(place)' => Whole(place) \subseteq Whole(place)'
      PROVE  Monotone
  <2>1. ASSUME NEW other \in Places, Simple(other)
        PROVE  file'[other].text.holds \subseteq Text(other).holds \cup Later(other)'
    BY <1>1, <2>1 DEF Text
  <2>2. ASSUME NEW other \in Places, ~Simple(other) /\ ~Emptied(other)'
        PROVE  Whole(other) \subseteq Whole(other)'
    <3>1. CASE other = place
      BY <1>1, <2>2, <3>1
    <3>2. CASE other # place
      BY <1>1, <3>2, GrowthMonotone DEF Text
    <3>3. QED
      BY <3>1, <3>2
  <2>3. QED
    BY <1>1, <2>1, <2>2, GrowthMonotone DEF Monotone
<1>2. ASSUME archive = archive', proposals \subseteq proposals', file' = file
      PROVE  Monotone
  BY <1>2, GrowthMonotone DEF Monotone, Text
<1>3. CASE UNCHANGED proposals /\ Edited
  <2>1. PICK place \in Places :
          /\ Text(place).holds \subseteq file'[place].text.holds
          /\ file'[place].text.holds \subseteq Text(place).holds \cup Notes
          /\ \A other \in Places \ {place} : file'[other] = file[other]
          /\ UNCHANGED archive
    BY <1>3 DEF Edited
  <2>2. file'[place].text.holds \subseteq Text(place).holds \cup Later(place)'
    BY <2>1 DEF Later
  <2>3. Whole(place) \subseteq Whole(place)'
    BY <2>1 DEF Whole, Text
  <2>4. QED
    BY <1>1, <1>3, <2>1, <2>2, <2>3
<1>4. ASSUME UNCHANGED proposals, NEW p \in Processes, ProcessStep(p)
      PROVE  Monotone
  <2>0. Stage(curator[p])
    BY DEF Shapes
  <2>1. CASE Begins(p) \/ Reads(p) \/ Applies(p) \/ Ends(p)
    BY <1>2, <1>4, <2>1 DEF Begins, Reads, Applies, Ends
  <2>2. CASE Improves(p)
    <3>1. PICK place \in Places :
            /\ curator[p].proposal.places = {place} /\ Simple(place)
            /\ curator[p].proposal.action = "improve" /\ curator[p].at = "improve"
            /\ file'[place].text = curator[p].proposal.text
            /\ \A other \in Places \ {place} : file'[other] = file[other]
            /\ UNCHANGED archive
      BY <2>2 DEF Improves, Text
    <3>2. curator[p].proposal \in proposals'
      BY <1>4, <2>0, <3>1 DEF Stage
    <3>3. file'[place].text.holds \subseteq Later(place)'
      BY <3>1, <3>2 DEF Later
    <3>4. QED
      BY <1>1, <1>4, <3>1, <3>3
  <2>3. CASE Makes(p)
    BY <1>4, <2>3, GrowthMonotone DEF Makes, Monotone, Text
  <2>4. CASE Writes(p)
    <3>1. PICK to \in Places : to = Target(p) /\ ~Simple(to)
      BY <2>0, <2>4, TargetPlace DEF Writes, Stage
    <3>2. ~Emptied(to)' => file[to].is = Empty
      BY <1>0, <2>4, <3>1 DEF Writes, OwnDirectory, Filling, Emptied
    <3>3. ASSUME ~Emptied(to)' PROVE Whole(to) \subseteq Whole(to)'
      <4>1. Text(to).holds = {}
        BY <3>1, <3>2, <3>3, NoTextFacts DEF Shapes, FilesShaped, There
      <4>2. QED
        BY <2>4, <4>1 DEF Whole, Writes
    <3>4. QED
      BY <1>1, <1>4, <2>4, <3>1, <3>3 DEF Writes
  <2>5. CASE Moves(p)
    <3>1. PICK place \in Places :
            /\ archive' = archive \cup {[from |-> place, text |-> Text(place)]}
            /\ file'[place].text = NoText
            /\ \A other \in Places \ {place} : file'[other] = file[other]
      BY <2>5 DEF Moves, Text
    <3>2. Whole(place) \subseteq Whole(place)'
      <4> DEFINE moved == [from |-> place, text |-> Text(place)]
      <4>1. moved \in archive' /\ moved.from = place /\ moved.text.holds = Text(place).holds
        BY <3>1
      <4>2. archive \subseteq archive'
        BY <3>1
      <4> HIDE DEF moved
      <4>3. QED
        BY <4>1, <4>2 DEF Whole
    <3>3. file'[place].text.holds = {}
      BY <3>1, NoTextFacts
    <3>4. QED
      BY <1>1, <1>4, <3>1, <3>2, <3>3
  <2>6. QED
    BY <1>4, <2>1, <2>2, <2>3, <2>4, <2>5 DEF ProcessStep
<1>5. QED
  BY <1>2, <1>3, <1>4, StepCases DEF Analyzed

(* An application that stays where it is keeps what is said of it.         *)
LEMMA OthersKeep ==
  ASSUME Shapes, Monotone, NEW p \in Processes, curator'[p] = curator[p],
         Covered(p), Moved(p), Combines(p)
  PROVE  Covered(p)' /\ Moved(p)' /\ Combines(p)'
<1>0. Stage(curator[p]) /\ curator[p] \in Curators
  BY DEF Shapes
<1>1. ASSUME NEW place \in Places PROVE Says(p, place) \subseteq Says(p, place)'
  BY DEF Monotone, Says
<1>2. Covered(p)'
  <2> SUFFICES ASSUME curator[p].at \in {"write", "move"}, curator[p].proposal.action = "consolidate",
                      NEW place \in curator[p].todo
               PROVE  file'[place].text.holds \subseteq Says(p, place)'
    BY DEF Covered, Text
  <2>1. Sound(curator[p].proposal) /\ curator[p].todo \subseteq curator[p].proposal.places
    BY <1>0 DEF Stage, Shapes
  <2>2. Simple(place) /\ place \in Places
    BY <2>1 DEF Sound, Proposals
  <2>3. file'[place].text.holds \subseteq Text(place).holds \cup Later(place)'
    BY <2>2 DEF Monotone
  <2>4. Text(place).holds \subseteq Says(p, place)'
    BY <1>1, <2>2 DEF Covered
  <2>5. QED
    BY <2>3, <2>4 DEF Says
<1>3. Moved(p)'
  <2> SUFFICES ASSUME curator[p].at \in {"move", "update"}, curator[p].proposal.action # "improve",
                      NEW place \in curator[p].proposal.places \ curator[p].todo
               PROVE  \E a \in archive' :
                        /\ a.from = place
                        /\ curator[p].proposal.action = "consolidate" =>
                             a.text.holds \subseteq Says(p, place)'
    BY DEF Moved
  <2>1. PICK a \in archive :
          /\ a.from = place
          /\ curator[p].proposal.action = "consolidate" => a.text.holds \subseteq Says(p, place)
    BY DEF Moved
  <2>2. place \in Places
    BY <1>0 DEF Stage, Shapes, Sound, Proposals
  <2>3. QED
    BY <1>1, <2>1, <2>2 DEF Monotone
<1>4. Combines(p)'
  <2> SUFFICES ASSUME curator[p].at \in {"move", "update"}, curator[p].proposal.action = "consolidate",
                      ~Emptied(Target(p))'
               PROVE  curator[p].text.holds \subseteq Whole(Target(p))'
    BY DEF Combines
  <2>1. PICK to \in Places : to = Target(p) /\ ~Simple(to)
    BY TargetPlace
  <2>2. Target(p)' = to
    BY <2>1 DEF Target
  <2>3. ~Emptied(to)' /\ ~Emptied(to)
    BY <2>2 DEF Monotone, Emptied
  <2>4. Whole(to) \subseteq Whole(to)'
    BY <2>1, <2>3 DEF Monotone
  <2>5. Whole(Target(p))' = Whole(to)'
    BY <2>2 DEF Whole, Text
  <2>6. QED
    BY <2>1, <2>3, <2>4, <2>5 DEF Combines
<1>5. QED
  BY <1>2, <1>3, <1>4

(* A marked proposal stays as applied as it was.                           *)
LEMMA AppliedKept ==
  ASSUME Shapes, Monotone, AppliedInFull, UNCHANGED applied
  PROVE  AppliedInFull'
<1> SUFFICES ASSUME NEW q \in applied, q.action # "improve", NEW place \in q.places
             PROVE  \E a \in archive' :
                      /\ a.from = place
                      /\ q.action = "consolidate" /\ ~Emptied(Combined(q))' =>
                           a.text.holds \subseteq Whole(Combined(q))' \cup Later(place)'
  BY DEF AppliedInFull
<1>1. Sound(q) /\ place \in Places
  BY DEF Shapes, Sound, Proposals
<1>2. PICK a \in archive :
        /\ a.from = place
        /\ q.action = "consolidate" /\ ~Emptied(Combined(q)) =>
             a.text.holds \subseteq Whole(Combined(q)) \cup Later(place)
  BY DEF AppliedInFull
<1>3. ASSUME q.action = "consolidate", ~Emptied(Combined(q))'
      PROVE  a.text.holds \subseteq Whole(Combined(q))' \cup Later(place)'
  <2>1. PICK to \in Places : to = Combined(q) /\ ~Simple(to)
    BY <1>1, <1>3, CombinedPlace DEF Sound
  <2>2. ~Emptied(to)' /\ ~Emptied(to)
    BY <1>3, <2>1 DEF Monotone
  <2>3. Whole(to) \subseteq Whole(to)' /\ Later(place) \subseteq Later(place)'
    BY <1>1, <2>1, <2>2 DEF Monotone
  <2>4. QED
    BY <1>2, <1>3, <2>1, <2>2, <2>3
<1>4. QED
  BY <1>2, <1>3 DEF Monotone

(* An application that begins, or has ended, says nothing yet.             *)
LEMMA NothingSaid ==
  ASSUME NEW p \in Processes, curator'[p].at \in {"idle", "improve", "mkdir", "read"}
  PROVE  Covered(p)' /\ Moved(p)' /\ Combines(p)'
BY DEF Covered, Moved, Combines

LEMMA BegunWithAll ==
  ASSUME Shapes, NEW p \in Processes, Begins(p)
  PROVE  /\ curator'[p].at \in {"improve", "mkdir"} \/ curator'[p].at = "move"
         /\ curator'[p].at = "move" =>
              /\ curator'[p].proposal.action = "archive"
              /\ curator'[p].todo = curator'[p].proposal.places
<1>1. PICK q \in proposals :
        curator'[p] = [Idle EXCEPT !.at = First(q.action), !.proposal = q, !.todo = q.places]
  BY DEF Begins
<1>2. q.action \in Actions
  BY DEF Shapes, Sound, Proposals
<1>3. QED
  BY <1>1, <1>2 DEF Idle, First, Actions

LEMMA SaidStep ==
  ASSUME ApplicationInv, Monotone, NEW p \in Processes, ProcessStep(p), UNCHANGED proposals
  PROVE  Covered(p)' /\ Moved(p)' /\ Combines(p)'
<1>0. Stage(curator[p]) /\ curator[p] \in Curators /\ file \in Files
  BY DEF ApplicationInv, Shapes
<1>1. CASE Begins(p)
  <2>1. CASE curator'[p].at \in {"improve", "mkdir"}
    BY <2>1, NothingSaid
  <2>2. CASE curator'[p].at = "move"
    BY <1>1, <2>2, BegunWithAll DEF ApplicationInv, Covered, Moved, Combines
  <2>3. QED
    BY <1>1, <2>1, <2>2, BegunWithAll DEF ApplicationInv
<1>2. CASE Improves(p)
  <2>1. curator'[p].at = "update" /\ curator'[p].proposal.action = "improve"
    BY <1>0, <1>2 DEF Improves, Curators
  <2>2. QED
    BY <2>1 DEF Covered, Moved, Combines
<1>3. CASE Makes(p)
  BY <1>0, <1>3, NothingSaid DEF Makes, Curators
<1>4. CASE Reads(p)
  <2>1. PICK text \in Documents :
          /\ curator'[p] = [curator[p] EXCEPT !.at = "write", !.text = text]
          /\ \A place \in curator[p].proposal.places : Text(place).holds \subseteq text.holds
    BY <1>4 DEF Reads
  <2>2. /\ curator'[p].at = "write" /\ curator'[p].text = text
        /\ curator'[p].todo = curator[p].proposal.places
    BY <1>0, <1>4, <2>1 DEF Reads, Stage, Curators
  <2>3. UNCHANGED file
    BY <1>4 DEF Reads
  <2>4. QED
    BY <2>1, <2>2, <2>3 DEF Covered, Moved, Combines, Says, Text
<1>5. CASE Writes(p)
  <2>1. /\ curator[p].at = "write" /\ curator[p].proposal.action = "consolidate"
        /\ curator[p].todo = curator[p].proposal.places
        /\ Sound(curator[p].proposal)
    BY <1>0, <1>5 DEF Writes, Stage, ApplicationInv, Shapes
  <2>2. PICK to \in Places : to = Target(p) /\ ~Simple(to)
    BY <2>1, TargetPlace DEF ApplicationInv
  <2>3. /\ curator'[p].at = "move" /\ curator'[p].text = curator[p].text
        /\ curator'[p].todo = curator[p].todo /\ curator'[p].proposal = curator[p].proposal
        /\ file'[to].text = curator[p].text
        /\ \A other \in Places \ {to} : file'[other] = file[other]
    BY <1>0, <1>5, <2>2 DEF Writes, Curators
  <2>4. Covered(p)'
    <3> SUFFICES ASSUME NEW place \in curator[p].todo
                 PROVE  file'[place].text.holds \subseteq Says(p, place)'
      BY <2>1, <2>3 DEF Covered, Text
    <3>1. place \in Places /\ Simple(place)
      BY <2>1 DEF Sound, Proposals
    <3>2. file'[place] = file[place]
      BY <2>2, <2>3, <3>1
    <3>3. Text(place).holds \subseteq Says(p, place)
      BY <2>1 DEF ApplicationInv, Covered
    <3>4. QED
      BY <2>3, <3>1, <3>2, <3>3 DEF Says, Monotone, Text
  <2>5. Moved(p)'
    BY <2>1, <2>3 DEF Moved
  <2>6. Combines(p)'
    BY <2>2, <2>3 DEF Combines, Whole, Text, Target
  <2>7. QED
    BY <2>4, <2>5, <2>6
<1>6. CASE Moves(p)
  <2>1. PICK place \in curator[p].todo :
          /\ place \in Places
          /\ archive' = archive \cup {[from |-> place, text |-> Text(place)]}
          /\ Text(place)' = NoText
          /\ \A other \in Places \ {place} : file'[other] = file[other]
          /\ curator'[p] = [curator[p] EXCEPT !.todo = @ \ {place},
                              !.at = IF curator[p].todo = {place} THEN "update" ELSE "move"]
    BY <1>6 DEF Moves
  <2>2. /\ curator[p].at = "move" /\ curator[p].todo \subseteq curator[p].proposal.places
        /\ Sound(curator[p].proposal)
    BY <1>0, <1>6 DEF Moves, Stage, ApplicationInv, Shapes
  <2>3. /\ curator'[p].at \in {"move", "update"} /\ curator'[p].text = curator[p].text
        /\ curator'[p].todo = curator[p].todo \ {place}
        /\ curator'[p].proposal = curator[p].proposal
    BY <1>0, <2>1 DEF Curators
  <2>4. \A other \in Places : Says(p, other) \subseteq Says(p, other)'
    BY <2>3 DEF Says, Monotone
  <2>5. Covered(p)'
    <3> SUFFICES ASSUME curator[p].proposal.action = "consolidate",
                        NEW other \in curator[p].todo \ {place}
                 PROVE  file'[other].text.holds \subseteq Says(p, other)'
      BY <2>3 DEF Covered, Text
    <3>1. other \in Places
      BY <2>2 DEF Sound, Proposals
    <3>2. Text(other).holds \subseteq Says(p, other)
      BY <2>2 DEF ApplicationInv, Covered
    <3>3. QED
      BY <2>1, <2>4, <3>1, <3>2 DEF Text
  <2>6. Moved(p)'
    <3> SUFFICES ASSUME curator[p].proposal.action # "improve",
                        NEW other \in curator[p].proposal.places \ (curator[p].todo \ {place})
                 PROVE  \E a \in archive' :
                          /\ a.from = other
                          /\ curator[p].proposal.action = "consolidate" =>
                               a.text.holds \subseteq Says(p, other)'
      BY <2>3 DEF Moved
    <3>1. CASE other = place
      <4> DEFINE moved == [from |-> place, text |-> Text(place)]
      <4>1. moved \in archive' /\ moved.from = place /\ moved.text = Text(place)
        BY <2>1
      <4>2. curator[p].proposal.action = "consolidate" => Text(place).holds \subseteq Says(p, place)
        BY <2>1, <2>2 DEF ApplicationInv, Covered
      <4> HIDE DEF moved
      <4>3. QED
        BY <2>1, <2>4, <3>1, <4>1, <4>2
    <3>2. CASE other # place
      <4>1. PICK a \in archive :
              /\ a.from = other
              /\ curator[p].proposal.action = "consolidate" => a.text.holds \subseteq Says(p, other)
        BY <2>2, <3>2 DEF ApplicationInv, Moved
      <4>2. other \in Places
        BY <2>2 DEF Sound, Proposals
      <4>3. QED
        BY <2>1, <2>4, <4>1, <4>2
    <3>3. QED
      BY <3>1, <3>2
  <2>7. Combines(p)'
    <3> SUFFICES ASSUME curator[p].proposal.action = "consolidate", ~Emptied(Target(p))'
                 PROVE  curator[p].text.holds \subseteq Whole(Target(p))'
      BY <2>3 DEF Combines
    <3>1. PICK to \in Places : to = Target(p) /\ ~Simple(to)
      BY <2>2, TargetPlace DEF ApplicationInv
    <3>2. Target(p)' = to
      BY <2>3, <3>1 DEF Target
    <3>3. ~Emptied(to)' /\ ~Emptied(to)
      BY <3>2 DEF Monotone, Emptied
    <3>4. Whole(to) \subseteq Whole(to)'
      BY <3>1, <3>3 DEF Monotone
    <3>5. Whole(Target(p))' = Whole(to)'
      BY <3>2 DEF Whole, Text
    <3>6. QED
      BY <2>2, <3>1, <3>3, <3>4, <3>5 DEF ApplicationInv, Combines
  <2>8. QED
    BY <2>5, <2>6, <2>7
<1>7. CASE Applies(p) \/ Ends(p)
  BY <1>7, IdleFacts, NothingSaid DEF Applies, Ends
<1>8. QED
  BY <1>1, <1>2, <1>3, <1>4, <1>5, <1>6, <1>7 DEF ProcessStep


-----------------------------------------------------------------------------
(* What a step of another process leaves of a directory under way.         *)
LEMMA OthersLeave ==
  ASSUME Shapes, NEW p \in Processes, NEW r \in Processes, r # p, ProcessStep(r),
         Filling(p), OwnDirectory(p), ~Emptied(Target(p))'
  PROVE  /\ file'[Target(p)].is = Empty
         /\ Filling(r)' => Target(r)' # Target(p)'
<1>0. /\ Stage(curator[p]) /\ curator[p].at # "idle" /\ curator[p].proposal.action = "consolidate"
      /\ Stage(curator[r]) /\ curator[r] \in Curators
  BY DEF Shapes, Filling, Stage
<1>1. PICK to \in Places : to = Target(p) /\ ~Simple(to)
  BY <1>0, TargetPlace
<1>2. curator'[p] = curator[p]
  BY DEF ProcessStep, Begins, Improves, Makes, Reads, Writes, Moves, Applies, Ends, Advances
<1>3. Target(p)' = to
  BY <1>1, <1>2 DEF Target
<1>4. archive \subseteq archive'
  BY DEF ProcessStep, Begins, Improves, Makes, Reads, Writes, Moves, Applies, Ends
<1>5. ~Emptied(to)' /\ ~Emptied(to)
  BY <1>3, <1>4 DEF Emptied
<1>6. /\ file[to].is = Empty
      /\ Filling(r) => Target(r) # to
  BY <1>1, <1>5 DEF OwnDirectory
<1>7. file'[to].is = Empty /\ (Filling(r)' => Target(r)' # to)
  <2>1. CASE Begins(r)
    BY <1>0, <1>6, <2>1, BegunWithAll DEF Begins, Filling
  <2>2. CASE Improves(r)
    BY <1>0, <1>1, <1>6, <2>2 DEF Improves, Filling, Curators
  <2>3. CASE Makes(r)
    <3>1. Target(r) # to /\ Target(r)' = Target(r)
      BY <1>0, <1>6, <2>3, NoTextFacts DEF Makes, Target, Curators
    <3>2. QED
      BY <1>1, <1>6, <2>3, <3>1 DEF Makes
  <2>4. CASE Reads(r)
    BY <1>0, <1>6, <2>4 DEF Reads, Filling, Target, Curators
  <2>5. CASE Writes(r)
    BY <1>0, <1>1, <1>6, <2>5 DEF Writes, Filling, Curators
  <2>6. CASE Moves(r)
    <3>1. PICK place \in Places :
            /\ archive' = archive \cup {[from |-> place, text |-> Text(place)]}
            /\ \A other \in Places \ {place} : file'[other] = file[other]
            /\ curator'[r].at \in {"update", "move"}
      BY <1>0, <2>6 DEF Moves, Curators
    <3>2. Text(to) = NoText
      BY <1>1, <1>6, NoTextFacts DEF Shapes, FilesShaped, There
    <3>3. ASSUME place = to PROVE FALSE
      <4> DEFINE moved == [from |-> place, text |-> Text(place)]
      <4>1. moved \in archive' /\ moved.from = to /\ moved.text = NoText
        BY <3>1, <3>2, <3>3
      <4> HIDE DEF moved
      <4>2. QED
        BY <1>5, <4>1 DEF Emptied, NoText
    <3>4. QED
      BY <1>1, <1>6, <3>1, <3>3 DEF Filling
  <2>7. CASE Applies(r) \/ Ends(r)
    BY <1>6, <2>7, IdleFacts DEF Applies, Ends, Filling
  <2>8. QED
    BY <2>1, <2>2, <2>3, <2>4, <2>5, <2>6, <2>7 DEF ProcessStep
<1>8. QED
  BY <1>1, <1>3, <1>7

(* A directory that nobody touches, and no application but those that are  *)
(* under way.                                                              *)
LEMMA OwnDirectoryKept ==
  ASSUME Shapes, NEW p \in Processes, OwnDirectory(p), UNCHANGED curator,
         archive \subseteq archive',
         \A place \in Places : file[place].is = Empty => file'[place].is = Empty
  PROVE  OwnDirectory(p)'
<1> SUFFICES ASSUME Filling(p), ~Emptied(Target(p))'
             PROVE  /\ file'[Target(p)].is = Empty
                    /\ \A q \in Processes : Filling(q) /\ Target(q) = Target(p) => q = p
  BY DEF OwnDirectory, Filling, Target
<1>1. curator[p].at # "idle" /\ curator[p].proposal.action = "consolidate"
  BY DEF Shapes, Filling, Stage
<1>2. PICK to \in Places : to = Target(p)
  BY <1>1, TargetPlace
<1>3. ~Emptied(to)
  BY <1>2 DEF Emptied, Target
<1>4. QED
  BY <1>2, <1>3 DEF OwnDirectory

LEMMA OwnDirectoryStep ==
  ASSUME Shapes, \A p \in Processes : OwnDirectory(p), [Next]_vars
  PROVE  \A p \in Processes : OwnDirectory(p)'
<1>1. CASE Analyzed \/ UNCHANGED <<file, archive, proposals, applied, curator, noted>>
  BY <1>1, OwnDirectoryKept DEF Analyzed
<1>2. CASE Edited
  <2>1. UNCHANGED <<curator, archive>>
    BY <1>2 DEF Edited
  <2>2. \A place \in Places : file[place].is = Empty => file'[place].is = Empty
    BY <1>2 DEF Edited
  <2>3. QED
    BY <2>1, <2>2, OwnDirectoryKept
<1>3. ASSUME NEW r \in Processes, ProcessStep(r), NEW p \in Processes
      PROVE  OwnDirectory(p)'
  <2> SUFFICES ASSUME Filling(p)', ~Emptied(Target(p))'
               PROVE  /\ file'[Target(p)'].is = Empty
                      /\ \A q \in Processes : Filling(q)' /\ Target(q)' = Target(p)' => q = p
    BY DEF OwnDirectory
  <2>0. Stage(curator[r]) /\ curator[r] \in Curators
    BY DEF Shapes
  <2>1. \A q \in Processes \ {r} : curator'[q] = curator[q]
    BY <1>3 DEF ProcessStep, Begins, Improves, Makes, Reads, Writes, Moves, Applies, Ends, Advances
  <2>2. \A q \in Processes \ {r} : (Filling(q)' <=> Filling(q)) /\ Target(q)' = Target(q)
    BY <2>1 DEF Filling, Target
  <2>3. CASE p # r
    <3>1. Filling(p) /\ Target(p)' = Target(p)
      BY <2>2, <2>3
    <3>2. ~Emptied(Target(p))
      <4>1. archive \subseteq archive'
        BY <1>3 DEF ProcessStep, Begins, Improves, Makes, Reads, Writes, Moves, Applies, Ends
      <4>2. QED
        BY <3>1, <4>1 DEF Emptied
    <3>3. \A q \in Processes : Filling(q) /\ Target(q) = Target(p) => q = p
      BY <3>1, <3>2 DEF OwnDirectory
    <3>4. file'[Target(p)].is = Empty /\ (Filling(r)' => Target(r)' # Target(p)')
      BY <1>3, <2>3, <3>1, OthersLeave
    <3>5. QED
      BY <2>2, <3>1, <3>3, <3>4
  <2>4. CASE p = r
    <3>1. Makes(p) \/ Reads(p)
      BY <1>3, <2>0, <2>4, BegunWithAll, IdleFacts
         DEF ProcessStep, Improves, Writes, Moves, Applies, Ends, Filling, Curators, Begins
    <3>2. Target(p)' = Target(p)
      BY <2>0, <2>4, <3>1 DEF Makes, Reads, Target, Curators
    <3>3. UNCHANGED archive
      BY <3>1 DEF Makes, Reads
    <3>4. ~Emptied(Target(p))
      BY <3>2, <3>3 DEF Emptied
    <3>5. CASE Makes(p)
      <4>1. ASSUME NEW q \in Processes \ {p}, Filling(q), Target(q) = Target(p)
            PROVE  FALSE
        <5>1. file[Target(q)].is = Empty
          BY <3>4, <4>1 DEF OwnDirectory
        <5>2. QED
          BY <3>5, <4>1, <5>1, NoTextFacts DEF Makes
      <4>2. QED
        BY <2>2, <2>4, <3>2, <3>5, <4>1 DEF Makes
    <3>6. CASE Reads(p)
      <4>1. Filling(p)
        BY <3>6 DEF Reads, Filling
      <4>2. QED
        BY <2>2, <2>4, <3>2, <3>4, <3>6, <4>1 DEF Reads, OwnDirectory
    <3>7. QED
      BY <3>1, <3>5, <3>6
  <2>5. QED
    BY <2>3, <2>4
<1>4. QED
  BY <1>1, <1>2, <1>3, StepCases

(* A proposal is marked when all of its skills have been moved.            *)
LEMMA AppliedStep ==
  ASSUME ApplicationInv, Monotone, [Next]_vars
  PROVE  AppliedInFull'
<1>1. CASE UNCHANGED applied
  BY <1>1, AppliedKept DEF ApplicationInv
<1>2. ASSUME NEW p \in Processes, Applies(p)
      PROVE  AppliedInFull'
  <2> SUFFICES ASSUME NEW q \in applied', q.action # "improve", NEW place \in q.places
               PROVE  \E a \in archive' :
                        /\ a.from = place
                        /\ q.action = "consolidate" /\ ~Emptied(Combined(q))' =>
                             a.text.holds \subseteq Whole(Combined(q))' \cup Later(place)'
    BY DEF AppliedInFull
  <2>0. UNCHANGED <<file, archive>>
    BY <1>2 DEF Applies
  <2>1. /\ \E a \in archive :
             /\ a.from = place
             /\ q.action = "consolidate" /\ ~Emptied(Combined(q)) =>
                  a.text.holds \subseteq Whole(Combined(q)) \cup Later(place)
        /\ place \in Places
    <3>1. CASE q \in applied
      BY <3>1 DEF ApplicationInv, AppliedInFull, Shapes, Sound, Proposals
    <3>2. CASE q = curator[p].proposal
      <4>1. curator[p].at = "update" /\ curator[p].todo = {} /\ Sound(q)
        BY <1>2, <3>2 DEF Applies, ApplicationInv, Shapes, Stage
      <4>2. PICK a \in archive :
              /\ a.from = place
              /\ q.action = "consolidate" => a.text.holds \subseteq Says(p, place)
        BY <3>2, <4>1 DEF ApplicationInv, Moved
      <4>3. q.action = "consolidate" /\ ~Emptied(Combined(q)) =>
              curator[p].text.holds \subseteq Whole(Combined(q))
        BY <3>2, <4>1 DEF ApplicationInv, Combines, Target
      <4>4. QED
        BY <4>1, <4>2, <4>3 DEF Says, Sound, Proposals
    <3>3. QED
      BY <1>2, <3>1, <3>2 DEF Applies
  <2>2. Whole(Combined(q))' = Whole(Combined(q)) /\ Emptied(Combined(q))' = Emptied(Combined(q))
    BY <2>0 DEF Whole, Text, Emptied
  <2>3. Later(place) \subseteq Later(place)'
    BY <2>1 DEF Monotone
  <2>4. QED
    BY <2>0, <2>1, <2>2, <2>3
<1>3. UNCHANGED applied \/ \E p \in Processes : Applies(p)
  <2>1. \A p \in Processes : ProcessStep(p) => UNCHANGED applied \/ Applies(p)
    BY DEF ProcessStep, Begins, Improves, Makes, Reads, Writes, Moves
  <2>2. QED
    BY <2>1, StepCases DEF ApplicationInv, Analyzed, Edited
<1>4. QED
  BY <1>1, <1>2, <1>3

LEMMA ApplicationStep == ApplicationInv /\ [Next]_vars => ApplicationInv'
<1> SUFFICES ASSUME ApplicationInv, [Next]_vars PROVE ApplicationInv'
  OBVIOUS
<1>0. Shapes /\ \A p \in Processes : OwnDirectory(p) /\ Covered(p) /\ Moved(p) /\ Combines(p)
  BY DEF ApplicationInv
<1>1. Shapes'
  BY <1>0, ShapesStep
<1>2. Monotone
  BY <1>0, MonotoneStep
<1>3. \A p \in Processes : OwnDirectory(p)'
  BY <1>0, OwnDirectoryStep
<1>4. AppliedInFull'
  BY <1>2, AppliedStep
<1>5. ASSUME NEW p \in Processes PROVE Covered(p)' /\ Moved(p)' /\ Combines(p)'
  <2>1. CASE curator'[p] = curator[p]
    BY <1>0, <1>2, <2>1, OthersKeep
  <2>2. CASE UNCHANGED proposals /\ ProcessStep(p)
    BY <1>2, <2>2, SaidStep
  <2>3. ASSUME UNCHANGED proposals, NEW q \in Processes, ProcessStep(q)
        PROVE  Covered(p)' /\ Moved(p)' /\ Combines(p)'
    <3>1. CASE q = p
      BY <2>2, <2>3, <3>1
    <3>2. CASE q # p
      <4>1. curator'[p] = curator[p]
        BY <2>3, <3>2
           DEF ProcessStep, Begins, Improves, Makes, Reads, Writes, Moves, Applies, Ends, Advances
      <4>2. QED
        BY <2>1, <4>1
    <3>3. QED
      BY <3>1, <3>2
  <2>4. ASSUME Analyzed \/ Edited \/ UNCHANGED curator
        PROVE  Covered(p)' /\ Moved(p)' /\ Combines(p)'
    <3>1. curator'[p] = curator[p]
      BY <2>4 DEF Analyzed, Edited
    <3>2. QED
      BY <2>1, <3>1
  <2>5. QED
    BY <1>0, <2>3, <2>4, StepCases
<1>6. QED
  BY <1>1, <1>3, <1>4, <1>5 DEF ApplicationInv

LEMMA ApplicationInit == Init => ApplicationInv
<1> SUFFICES ASSUME Init PROVE ApplicationInv
  OBVIOUS
<1>1. file \in Files /\ FilesShaped
  <2>1. ASSUME NEW place \in Places
        PROVE  /\ file[place] \in [is : {NoDirectory, Empty, "skill"}, text : Documents]
               /\ ~There(place) => Text(place) = NoText
               /\ Text(place).thin \/ Text(place).tagged => Simple(place)
    <3>1. CASE place \in DOMAIN Initially
      BY <3>1, InitiallyAssumption DEF Init, There, Text
    <3>2. CASE place \notin DOMAIN Initially
      BY <3>2, NoTextFacts DEF Init, There, Text
    <3>3. QED
      BY <3>1, <3>2
  <2>2. QED
    BY <2>1 DEF Init, Files, FilesShaped
<1>2. \A p \in Processes : curator[p] = Idle
  BY DEF Init
<1>3. Shapes
  BY <1>1, <1>2, IdleFacts DEF Init, Shapes
<1>4. \A p \in Processes : OwnDirectory(p) /\ Covered(p) /\ Moved(p) /\ Combines(p)
  BY <1>2, IdleFacts DEF OwnDirectory, Filling, Covered, Moved, Combines
<1>5. AppliedInFull
  BY DEF Init, AppliedInFull
<1>6. QED
  BY <1>3, <1>4, <1>5 DEF ApplicationInv

(* The files, the proposals and the applications under way agree at all    *)
(* times.                                                                  *)
THEOREM ApplicationsInvariant == Spec => []ApplicationInv
<1>1. Init => ApplicationInv
  BY ApplicationInit
<1>2. ApplicationInv /\ [Next]_vars => ApplicationInv'
  BY ApplicationStep
<1>3. QED
  BY <1>1, <1>2, PTL DEF Spec

(* Whatever crashes or is applied twice, a proposal that is marked as      *)
(* applied has been, in full.                                              *)
THEOREM AppliedInFullAlways == Spec => []AppliedInFull
<1>1. ApplicationInv => AppliedInFull
  BY DEF ApplicationInv
<1>2. QED
  BY <1>1, ApplicationsInvariant, PTL


-----------------------------------------------------------------------------
(* What becomes of a piece of guidance.                                    *)

(* A skill that a step leaves alone, or adds to, still holds its piece.    *)
LEMMA PieceStays ==
  ASSUME NEW piece, NEW place \in Places, Readable(place), piece \in Text(place).holds,
         file'[place].is = "skill", ~file'[place].text.broken,
         Text(place).holds \subseteq file'[place].text.holds
  PROVE  Present(piece)'
BY DEF Present, Readable, There, Text

(* Only improve and write may lose a piece, and each only in its exception.*)
LEMMA GuidanceStep ==
  ASSUME Shapes, \A p \in Processes : OwnDirectory(p), [Next]_vars,
         NEW piece, Present(piece), ~Present(piece)'
  PROVE  \E p \in Processes :
           LET written == curator[p].proposal.text IN
           \/ At(p, "improve") /\ (piece \notin written.holds \/ written.broken)
           \/ At(p, "write") /\ Emptied(Combined(curator[p].proposal))
<1>1. archive \subseteq archive'
  <2>1. \A p \in Processes : ProcessStep(p) => archive \subseteq archive'
    BY DEF ProcessStep, Begins, Improves, Makes, Reads, Writes, Moves, Applies, Ends
  <2>2. QED
    BY <2>1, StepCases DEF Analyzed, Edited
<1>2. PICK c \in Places : Readable(c) /\ piece \in Text(c).holds
  BY <1>1 DEF Present
<1>3. file[c].is = "skill" /\ ~file[c].text.broken
  BY <1>2 DEF Readable, There, Text
<1>4. file'[c] # file[c]
  BY <1>2, <1>3, PieceStays DEF Text
<1>5. ~Edited
  <2> SUFFICES ASSUME Edited PROVE FALSE
    OBVIOUS
  <2>1. PICK place \in Places :
          /\ file'[place].is = "skill"
          /\ Text(place).holds \subseteq file'[place].text.holds
          /\ file'[place].text.broken = Text(place).broken
          /\ \A other \in Places \ {place} : file'[other] = file[other]
    BY DEF Edited
  <2>2. c = place
    BY <1>4, <2>1
  <2>3. QED
    BY <1>2, <1>3, <2>1, <2>2, PieceStays DEF Text
<1>6. PICK p \in Processes : ProcessStep(p)
  BY <1>4, <1>5, StepCases DEF Analyzed
<1>7. Improves(p) \/ Makes(p) \/ Writes(p) \/ Moves(p)
  BY <1>4, <1>6 DEF ProcessStep, Begins, Reads, Applies, Ends
<1>8. CASE Improves(p)
  <2>1. PICK place \in Places :
          /\ curator[p].at = "improve"
          /\ file'[place].is = "skill" /\ file'[place].text = curator[p].proposal.text
          /\ \A other \in Places \ {place} : file'[other] = file[other]
    BY <1>8 DEF Improves, Text
  <2>2. c = place
    BY <1>4, <2>1
  <2>3. piece \notin curator[p].proposal.text.holds \/ curator[p].proposal.text.broken
    BY <2>1, <2>2 DEF Present, Readable, There, Text
  <2>4. QED
    BY <2>1, <2>3 DEF At
<1>9. CASE Makes(p)
  BY <1>3, <1>4, <1>9, NoTextFacts DEF Makes
<1>10. CASE Writes(p)
  <2>1. curator[p].at = "write" /\ \A other \in Places \ {Target(p)} : file'[other] = file[other]
    BY <1>10 DEF Writes
  <2>2. c = Target(p)
    BY <1>4, <2>1
  <2>3. Emptied(Target(p))
    BY <1>3, <2>1, <2>2, NoTextFacts DEF OwnDirectory, Filling
  <2>4. QED
    BY <2>1, <2>3 DEF At, Target
<1>11. CASE Moves(p)
  <2>1. PICK place \in Places :
          /\ archive' = archive \cup {[from |-> place, text |-> Text(place)]}
          /\ \A other \in Places \ {place} : file'[other] = file[other]
    BY <1>11 DEF Moves
  <2>2. c = place
    BY <1>4, <2>1
  <2> DEFINE moved == [from |-> place, text |-> Text(place)]
  <2>3. moved \in archive' /\ moved.text = Text(c)
    BY <2>1, <2>2
  <2> HIDE DEF moved
  <2>4. QED
    BY <1>2, <2>3 DEF Present
<1>12. QED
  BY <1>7, <1>8, <1>9, <1>10, <1>11

(* No guidance is lost, except by an improvement that leaves it out or     *)
(* cannot be read, and by a consolidation whose directory was taken away.  *)
THEOREM GuidanceIsKept == Spec => GuidanceKept
<1>1. ApplicationInv /\ [Next]_vars =>
        [\A piece \in Guidance \cup Notes :
           Present(piece) /\ ~Present(piece)' =>
             \E p \in Processes :
               LET written == curator[p].proposal.text IN
               \/ At(p, "improve") /\ (piece \notin written.holds \/ written.broken)
               \/ At(p, "write") /\ Emptied(Combined(curator[p].proposal))]_vars
  BY GuidanceStep DEF ApplicationInv
<1>2. QED
  BY <1>1, ApplicationsInvariant, PTL DEF Spec, GuidanceKept


-----------------------------------------------------------------------------
(* The approvals table.                                                    *)

(* The rows of approvals about some proposals.                             *)
RowsAbout(requests) ==
  [request : requests, requester : {"operator"},
   status : {"pending", "approved", "rejected"}, consumed : BOOLEAN]

LEMMA StoreRows == Store!Row = RowsAbout(proposals)
BY DEF Store!Row, Store!Decisions, RowsAbout

LEMMA RowsStep == approvals \in Seq(RowsAbout(proposals)) /\ [Next]_vars
                    => approvals' \in Seq(RowsAbout(proposals'))
<1> SUFFICES ASSUME approvals \in Seq(RowsAbout(proposals)), [Next]_vars
             PROVE  approvals' \in Seq(RowsAbout(proposals'))
  OBVIOUS
<1>1. CASE UNCHANGED approvals
  <2>1. proposals \subseteq proposals'
    BY <1>1 DEF Next, Analyze, Apply, Improve, MakeDirectory, Read, Write, Move, Update, Crash,
         Authorize, Decide, Mark, Note, vars
  <2>2. RowsAbout(proposals) \subseteq RowsAbout(proposals')
    BY <2>1 DEF RowsAbout
  <2>3. QED
    BY <1>1, <2>2
<1>2. ASSUME NEW p \in Processes, NEW q \in proposals, Authorize(p, q)
      PROVE  approvals' \in Seq(RowsAbout(proposals'))
  <2>1. UNCHANGED proposals
    BY <1>2 DEF Authorize
  <2> DEFINE Rows == RowsAbout(proposals)
  <2>2. CASE \E k \in DOMAIN approvals : approvals' = Store!Consumed(approvals, k)
    <3>1. PICK k \in DOMAIN approvals : approvals' = [approvals EXCEPT ![k].consumed = TRUE]
      BY <2>2 DEF Store!Consumed
    <3>2. approvals[k] \in RowsAbout(proposals)
      BY <3>1
    <3>3. [approvals[k] EXCEPT !.consumed = TRUE] \in RowsAbout(proposals)
      BY <3>2 DEF RowsAbout
    <3> HIDE DEF Rows
    <3>4. QED
      BY <2>1, <3>1, <3>3
  <2>3. CASE approvals' = Store!WithPending(approvals, q, "operator")
    <3>1. [request |-> q, requester |-> "operator", status |-> "pending", consumed |-> FALSE]
            \in RowsAbout(proposals)
      BY DEF RowsAbout
    <3>2. QED
      BY <2>1, <2>3, <3>1, AppendProperties DEF Store!WithPending
  <2>4. QED
    BY <1>2, <2>2, <2>3 DEF Authorize
<1>3. ASSUME NEW k \in DOMAIN approvals, NEW decision \in {"approved", "rejected"},
             Decide(k, decision)
      PROVE  approvals' \in Seq(RowsAbout(proposals'))
  <2>1. approvals' = [approvals EXCEPT ![k].status = decision] /\ UNCHANGED proposals
    BY <1>3 DEF Decide, Store!Decided
  <2>2. approvals[k] \in RowsAbout(proposals)
    OBVIOUS
  <2>3. [approvals[k] EXCEPT !.status = decision] \in RowsAbout(proposals)
    BY <2>2 DEF RowsAbout
  <2>4. QED
    BY <2>1, <2>3
<1>4. QED
  <2>1. ASSUME Analyze PROVE UNCHANGED approvals
    BY <2>1 DEF Analyze
  <2>2. ASSUME NEW p \in Processes, Apply(p) \/ Crash(p) PROVE UNCHANGED approvals
    BY <2>2 DEF Apply, Improve, MakeDirectory, Read, Write, Move, Update, Crash
  <2>3. ASSUME NEW place \in Places, Mark(place) \/ \E note \in Notes : Note(place, note)
        PROVE  UNCHANGED approvals
    BY <2>3 DEF Mark, Note
  <2>4. ASSUME UNCHANGED vars PROVE UNCHANGED approvals
    BY <2>4 DEF vars
  <2>5. QED
    BY <1>1, <1>2, <1>3, <2>1, <2>2, <2>3, <2>4 DEF Next

(* Type correctness.                                                       *)
THEOREM TypeCorrect == Spec => []TypeOK
<1> DEFINE Typed == approvals \in Seq(RowsAbout(proposals))
<1>1. Init => Typed
  <2> SUFFICES ASSUME Init PROVE approvals \in Seq(RowsAbout(proposals))
    OBVIOUS
  <2>1. approvals = <<>>
    BY DEF Init
  <2>2. QED
    BY <2>1
<1>2. Typed /\ [Next]_vars => Typed'
  BY RowsStep
<1>3. ApplicationInv /\ Typed => TypeOK
  <2> SUFFICES ASSUME ApplicationInv, Typed PROVE TypeOK
    OBVIOUS
  <2>1. proposals \subseteq Proposals
    BY DEF ApplicationInv, Shapes, Sound
  <2>2. \A p \in Processes : At(p, "idle") \/ curator[p].proposal \in proposals
    BY DEF ApplicationInv, Shapes, Stage, At
  <2>3. approvals \in Seq(Store!Row)
    BY StoreRows
  <2>4. QED
    BY <2>1, <2>2, <2>3 DEF ApplicationInv, Shapes, TypeOK, Files, Curators, Steps
<1> HIDE DEF Typed
<1>4. QED
  BY <1>1, <1>2, <1>3, ApplicationsInvariant, PTL DEF Spec

-----------------------------------------------------------------------------
(* The context engine: messages, and the steps of the pipeline.            *)

Roles == {"user", "assistant", "tool"}

(* What the messages table holds, and what the pipeline makes of it.       *)
Said == [role : Roles, id : Nat, content : {"short", "long", "huge"}]

Shown == [role : Roles \cup {"system"}, id : Nat, content : Contents]

(* A system prompt and a conversation of some length.                      *)
Prompted(messages, n) ==
  /\ messages \in Seq(Shown) /\ Len(messages) = n + 1
  /\ messages[1].role = "system"
  /\ \A i \in 2..(n + 1) : messages[i].role \in Roles

(* The same messages in the same order, their contents apart.              *)
Alike(a, b) ==
  /\ a \in Seq(Shown) /\ Len(a) = Len(b)
  /\ \A i \in 1..Len(b) : a[i].role = b[i].role /\ a[i].id = b[i].id

LEMMA CleanedShape ==
  ASSUME NEW messages \in Seq(Shown)
  PROVE  /\ Alike(Cleaned(messages), messages)
         /\ \A i \in 1..Len(messages) :
              Cleaned(messages)[i].content \in {messages[i].content, "cleared"}
<1> DEFINE new(i) == IF /\ i + KeepRecent <= Len(messages)
                        /\ messages[i].role = "tool" /\ messages[i].content \in {"long", "huge"}
                     THEN [messages[i] EXCEPT !.content = "cleared"]
                     ELSE messages[i]
<1>1. \A i \in 1..Len(messages) : /\ new(i) \in Shown
                                  /\ new(i).role = messages[i].role /\ new(i).id = messages[i].id
                                  /\ new(i).content \in {messages[i].content, "cleared"}
  <2> SUFFICES ASSUME NEW i \in 1..Len(messages)
               PROVE  /\ new(i) \in Shown
                      /\ new(i).role = messages[i].role /\ new(i).id = messages[i].id
                      /\ new(i).content \in {messages[i].content, "cleared"}
    OBVIOUS
  <2>1. messages[i] \in Shown
    OBVIOUS
  <2>2. QED
    BY <2>1 DEF Shown, Contents
<1>2. Cleaned(messages) = [i \in 1..Len(messages) |-> new(i)]
  BY DEF Cleaned
<1> HIDE DEF new
<1>3. Cleaned(messages) \in Seq(Shown) /\ Len(Cleaned(messages)) = Len(messages)
  BY <1>1, <1>2
<1>4. QED
  BY <1>1, <1>2, <1>3 DEF Alike

LEMMA FoldedShape ==
  ASSUME NEW messages \in Seq(Shown)
  PROVE  /\ Alike(Folded(messages), messages)
         /\ \A i \in 1..Len(messages) :
              Folded(messages)[i].content \in {messages[i].content, "folded"}
<1> DEFINE new(i) == IF messages[i].content = "huge" THEN [messages[i] EXCEPT !.content = "folded"]
                     ELSE messages[i]
<1>1. \A i \in 1..Len(messages) : /\ new(i) \in Shown
                                  /\ new(i).role = messages[i].role /\ new(i).id = messages[i].id
                                  /\ new(i).content \in {messages[i].content, "folded"}
  <2> SUFFICES ASSUME NEW i \in 1..Len(messages)
               PROVE  /\ new(i) \in Shown
                      /\ new(i).role = messages[i].role /\ new(i).id = messages[i].id
                      /\ new(i).content \in {messages[i].content, "folded"}
    OBVIOUS
  <2>1. messages[i] \in Shown
    OBVIOUS
  <2>2. QED
    BY <2>1 DEF Shown, Contents
<1>2. Folded(messages) = [i \in 1..Len(messages) |-> new(i)]
  BY DEF Folded
<1> HIDE DEF new
<1>3. Folded(messages) \in Seq(Shown) /\ Len(Folded(messages)) = Len(messages)
  BY <1>1, <1>2
<1>4. QED
  BY <1>1, <1>2, <1>3 DEF Alike

(* The steps that ask no model keep every message.                         *)
LEMMA PreparedShape ==
  ASSUME NEW messages \in Seq(Shown)
  PROVE  Alike(Prepared(messages), messages)
<1>1. Alike(messages, messages)
  BY DEF Alike
<1>2. Alike(Cleaned(messages), messages)
  BY CleanedShape
<1>3. Alike(Folded(Cleaned(messages)), messages)
  <2>1. Cleaned(messages) \in Seq(Shown)
    BY <1>2 DEF Alike
  <2>2. Alike(Folded(Cleaned(messages)), Cleaned(messages))
    BY <2>1, FoldedShape
  <2>3. QED
    BY <1>2, <2>2 DEF Alike
<1>4. QED
  BY <1>1, <1>2, <1>3 DEF Prepared

LEMMA PreparedCases ==
  ASSUME NEW messages
  PROVE  /\ Fits(messages) => Prepared(messages) = messages
         /\ ~Fits(messages) /\ Fits(Cleaned(messages)) => Prepared(messages) = Cleaned(messages)
         /\ ~Fits(Prepared(messages)) =>
              /\ ~Fits(messages) /\ ~Fits(Cleaned(messages))
              /\ Prepared(messages) = Folded(Cleaned(messages))
         /\ ~Fits(messages) /\ ~Fits(Cleaned(messages)) =>
              Prepared(messages) = Folded(Cleaned(messages))
BY DEF Prepared

(* A stretch of a sequence, and that picking its positions gives it.       *)
Stretch(messages, first, n) == [k \in 1..n |-> messages[first + k - 1]]

LEMMA PickedInterval ==
  ASSUME NEW messages \in Seq(Shown), NEW first \in Nat \ {0}, NEW n \in Nat,
         NEW last \in Nat, last = first + n - 1, last <= Len(messages),
         NEW picked, picked = Picked(messages, first..last)
  PROVE  picked = Stretch(messages, first, n)
<1> DEFINE positions == first..last
           upTo(i) == {j \in positions : j <= i}
           kth(k) == CHOOSE i \in positions : Cardinality(upTo(i)) = k
<1>1. Cardinality(positions) = n
  <2>1. Cardinality(first..last) = IF first > last THEN 0 ELSE last - first + 1
    BY FS_Interval
  <2>2. QED
    BY <2>1
<1>2. ASSUME NEW i \in positions
      PROVE  Cardinality(upTo(i)) = i - first + 1
  <2>1. upTo(i) = first..i
    OBVIOUS
  <2>2. i \in Nat /\ first <= i
    OBVIOUS
  <2> HIDE DEF upTo
  <2>3. Cardinality(first..i) = i - first + 1
    BY <2>2, FS_Interval
  <2>4. QED
    BY <2>1, <2>3
<1>3. ASSUME NEW k \in 1..n
      PROVE  kth(k) = first + k - 1
  <2>1. first + k - 1 \in positions
    OBVIOUS
  <2> HIDE DEF positions, upTo
  <2>2. Cardinality(upTo(first + k - 1)) = k
    BY <1>2, <2>1
  <2>3. \A i \in positions : Cardinality(upTo(i)) = k => i = first + k - 1
    BY <1>2 DEF positions
  <2>4. QED
    BY <2>1, <2>2, <2>3
<1>4. Picked(messages, positions) = [k \in 1..Cardinality(positions) |-> messages[kth(k)]]
  BY DEF Picked
<1> HIDE DEF positions, kth
<1>5. Picked(messages, positions) = [k \in 1..n |-> messages[kth(k)]]
  BY <1>1, <1>4
<1>6. \A k \in 1..n : messages[kth(k)] = messages[first + k - 1] /\ messages[kth(k)] \in Shown
  BY <1>3
<1>7. positions = first..last
  BY DEF positions
<1>8. picked = [k \in 1..n |-> messages[kth(k)]]
  BY <1>5, <1>7
<1>9. QED
  BY <1>6, <1>8 DEF Stretch

LEMMA Parts ==
  ASSUME NEW n \in Nat, NEW messages, Prompted(messages, n)
  PROVE  /\ System(messages) = <<messages[1]>>
         /\ Conversation(messages) \in Seq(Shown) /\ Len(Conversation(messages)) = n
         /\ \A k \in 1..n : Conversation(messages)[k] = messages[k + 1]
<1>1. messages \in Seq(Shown) /\ Len(messages) = n + 1
  BY DEF Prompted
<1>2. {i \in DOMAIN messages : messages[i].role = "system"} = 1..1
  BY <1>1 DEF Prompted, Roles
<1>3. {i \in DOMAIN messages : messages[i].role # "system"} = 2..(n + 1)
  BY <1>1 DEF Prompted, Roles
<1>4. System(messages) = <<messages[1]>>
  <2>1. PICK picked : picked = Picked(messages, 1..1)
    OBVIOUS
  <2>2. PICK one \in Nat \ {0} : one = 1
    OBVIOUS
  <2>3. picked = Picked(messages, one..one) /\ one = one + one - 1 /\ one <= Len(messages)
    <3>1. picked = Picked(messages, one..one)
      BY <2>1, <2>2, Zenon
    <3>2. one = one + one - 1 /\ one <= Len(messages)
      BY <1>1, <2>2
    <3>3. QED
      BY <3>1, <3>2
  <2>4. picked = Stretch(messages, one, one)
    BY <1>1, <2>3, PickedInterval
  <2>5. picked = <<messages[1]>>
    BY <1>1, <2>2, <2>4 DEF Stretch
  <2>6. QED
    BY <1>2, <2>1, <2>5, Zenon DEF System
<1>5. PICK picked : picked = Picked(messages, 2..(n + 1))
  OBVIOUS
<1>6. /\ picked \in Seq(Shown) /\ Len(picked) = n
      /\ \A k \in 1..n : picked[k] = messages[2 + k - 1]
  <2>1. PICK two \in Nat \ {0} : two = 2
    OBVIOUS
  <2>2. PICK last \in Nat : last = n + 1
    OBVIOUS
  <2>3. picked = Picked(messages, two..last) /\ last = two + n - 1 /\ last <= Len(messages)
    BY <1>1, <1>5, <2>1, <2>2
  <2>4. picked = Stretch(messages, two, n)
    BY <1>1, <2>3, PickedInterval
  <2>5. \A k \in 1..n : messages[two + k - 1] \in Shown
    BY <1>1, <2>1
  <2>6. picked \in Seq(Shown) /\ Len(picked) = n
    BY <2>4, <2>5 DEF Stretch
  <2>7. \A k \in 1..n : picked[k] = messages[2 + k - 1]
    BY <2>1, <2>4, Zenon DEF Stretch
  <2>8. QED
    BY <2>6, <2>7
<1>7. \A k \in 1..n : picked[k] = messages[k + 1]
  BY <1>6
<1>8. Conversation(messages) = picked
  BY <1>3, <1>5, Zenon DEF Conversation
<1>9. QED
  BY <1>4, <1>6, <1>7, <1>8

(* A summary stands for all but the last four messages.                    *)
LEMMA ArchivedShape ==
  ASSUME NEW n \in Nat, n >= 4, NEW messages, Prompted(messages, n), NEW summary,
         NEW archived, archived = Archived(messages, summary)
  PROVE  /\ Len(archived) = 6 /\ DOMAIN archived = 1..6
         /\ archived[1] = messages[1]
         /\ archived[2] = Message("user", 0, summary)
         /\ \A k \in 1..4 : archived[k + 2] = messages[n - 3 + k]
<1> DEFINE All == Shown \cup {Message("user", 0, summary)}
<1>1. messages \in Seq(Shown) /\ Len(messages) = n + 1
  BY DEF Prompted
<1>2. PICK talk \in Seq(Shown) : /\ talk = Conversation(messages) /\ Len(talk) = n
                                 /\ \A k \in 1..n : talk[k] = messages[k + 1]
  BY Parts
<1>3. Archived(messages, summary)
        = <<messages[1]>> \o <<Message("user", 0, summary)>> \o SubSeq(talk, n - 3, n)
  BY <1>2, Parts, Zenon DEF Archived
<1> DEFINE recent == SubSeq(talk, n - 3, n)
<1>4. recent \in Seq(Shown) /\ Len(recent) = 4 /\ \A k \in 1..4 : recent[k] = talk[n - 4 + k]
  <2>1. n - 3 \in 1..(n + 1) /\ n \in (n - 3 - 1)..n /\ n - (n - 3) + 1 = 4
    OBVIOUS
  <2>2. /\ recent \in Seq(Shown) /\ Len(recent) = n - (n - 3) + 1
        /\ \A k \in 1..(n - (n - 3) + 1) : recent[k] = talk[n - 3 + k - 1]
    BY <1>2, <2>1, SubSeqProperties
  <2>3. \A k \in 1..4 : n - 3 + k - 1 = n - 4 + k
    OBVIOUS
  <2>4. QED
    BY <2>1, <2>2, <2>3
<1>5. \A k \in 1..4 : recent[k] = messages[n - 3 + k]
  BY <1>2, <1>4
<1>6. PICK a, b : a = messages[1] /\ b = Message("user", 0, summary)
  OBVIOUS
<1>7. a \in All /\ b \in All /\ recent \in Seq(All)
  <2>1. messages[1] \in Shown
    BY <1>1
  <2>2. recent \in Seq(All)
    BY <1>4
  <2>3. QED
    BY <1>6, <2>1, <2>2
<1>8. Archived(messages, summary) = <<a>> \o <<b>> \o recent
  BY <1>3, <1>6, Zenon
<1> HIDE DEF recent, All
<1>9. /\ <<a>> \o <<b>> \in Seq(All) /\ Len(<<a>> \o <<b>>) = 2
      /\ (<<a>> \o <<b>>)[1] = a /\ (<<a>> \o <<b>>)[2] = b
  BY <1>7
<1> DEFINE front == <<a>> \o <<b>>
<1>10. /\ front \o recent \in Seq(All) /\ Len(front \o recent) = 6
       /\ (front \o recent)[1] = a /\ (front \o recent)[2] = b
       /\ \A k \in 1..4 : (front \o recent)[k + 2] = recent[k]
  <2> HIDE DEF front
  <2>1. front \in Seq(All) /\ Len(front) = 2 /\ front[1] = a /\ front[2] = b
    BY <1>9 DEF front
  <2>2. front \o recent \in Seq(All) /\ Len(front \o recent) = Len(front) + Len(recent)
    BY <1>7, <2>1, ConcatProperties
  <2>3. \A i \in 1..(Len(front) + Len(recent)) :
          (front \o recent)[i] = IF i <= Len(front) THEN front[i] ELSE recent[i - Len(front)]
    BY <1>7, <2>1, ConcatProperties
  <2>4. \A k \in 1..4 : k + 2 \in 1..(2 + 4) /\ ~(k + 2 <= 2) /\ (k + 2) - 2 = k
    OBVIOUS
  <2>5. QED
    BY <1>4, <2>1, <2>2, <2>3, <2>4
<1>11. archived = front \o recent
  BY <1>8
<1> HIDE DEF front
<1>12. DOMAIN archived = 1..6 /\ Len(archived) = 6
  <2>1. archived \in Seq(All) /\ Len(archived) = 6
    BY <1>10, <1>11, Zenon
  <2>2. QED
    BY <2>1
<1>13. QED
  BY <1>5, <1>6, <1>10, <1>11, <1>12

-----------------------------------------------------------------------------
(* The conversation, the cached context, and the runs.                     *)

Recorded ==
  /\ db \in Seq(Said)
  /\ \A i \in 1..Len(db) : db[i].id = i

Stages == {"idle", "turn", "summary", "call", "model", "tool", "noting"}

(* A context that the pipeline makes of the conversation as it stands.     *)
Made(messages) ==
  /\ ~Fits(Full)
  /\ \/ messages = Prepared(Full)
     \/ /\ ~Fits(Prepared(Full)) /\ Len(db) >= 6
        /\ \E summary \in Lengths : messages = Archived(Prepared(Full), summary)

(* assemble gives out the cached context.                                  *)
Cached == cache # NoCache /\ cache.count = Len(db)

CacheGood ==
  /\ cache.count \in Nat /\ cache.count <= Len(db)
  /\ Cached => Made(cache.messages)

RunGood(r) ==
  /\ run[r].seen <= Len(db)
  /\ Stands(r, "summary") =>
       run[r].held = Prepared(Full) /\ ~Fits(Prepared(Full)) /\ Len(db) >= 6
  /\ Stands(r, "call") /\ run[r].seen = Len(db) => Fits(Full) \/ Cached

EngineInv ==
  /\ Recorded
  /\ run \in [Runs -> [pc : Stages, tries : Nat, held : Seq(Shown), seen : Nat]]
  /\ CacheGood
  /\ \A r \in Runs : RunGood(r)

LEMMA FullShape ==
  ASSUME Recorded
  PROVE  /\ Prompted(Full, Len(db))
         /\ Full[1] = Message("system", 0, "short")
         /\ \A i \in 1..Len(db) : Full[i + 1] = db[i]
         /\ \A i \in 1..Len(Full) : Full[i].content \in {"short", "long", "huge"}
<1> DEFINE prompt == Message("system", 0, "short")
<1>1. prompt \in Shown /\ prompt.role = "system" /\ prompt.content = "short"
  BY DEF Message, Shown, Contents
<1>2. db \in Seq(Shown) /\ \A i \in 1..Len(db) : db[i].role \in Roles /\ db[i] \in Said
  <2>1. Said \subseteq Shown
    BY DEF Said, Shown, Contents
  <2>2. db \in Seq(Said) /\ \A i \in 1..Len(db) : db[i] \in Said
    BY DEF Recorded
  <2>3. db \in Seq(Shown)
    BY <2>1, <2>2
  <2>4. \A m \in Said : m.role \in Roles
    BY DEF Said
  <2>5. QED
    BY <2>2, <2>3, <2>4
<1>3. Full = <<prompt>> \o db
  BY DEF Full
<1> HIDE DEF prompt
<1>4. /\ Full \in Seq(Shown) /\ Len(Full) = Len(db) + 1 /\ Full[1] = prompt
      /\ \A i \in 1..Len(db) : Full[i + 1] = db[i]
  <2>1. <<prompt>> \in Seq(Shown) /\ Len(<<prompt>>) = 1 /\ <<prompt>>[1] = prompt
    BY <1>1
  <2>2. Full \in Seq(Shown) /\ Len(Full) = 1 + Len(db)
    BY <1>2, <1>3, <2>1, ConcatProperties
  <2>3. \A i \in 1..(1 + Len(db)) : Full[i] = IF i <= 1 THEN prompt ELSE db[i - 1]
    BY <1>2, <1>3, <2>1, ConcatProperties
  <2>4. \A i \in 1..Len(db) : i + 1 \in 1..(1 + Len(db)) /\ ~(i + 1 <= 1) /\ (i + 1) - 1 = i
    BY <1>2
  <2>5. 1 \in 1..(1 + Len(db)) /\ Len(db) + 1 = 1 + Len(db)
    BY <1>2
  <2>6. QED
    BY <2>2, <2>3, <2>4, <2>5
<1>5. \A j \in 2..(Len(db) + 1) : j - 1 \in 1..Len(db) /\ (j - 1) + 1 = j
  BY <1>2
<1>6. \A j \in 2..(Len(db) + 1) : Full[j].role \in Roles /\ Full[j].content \in {"short", "long", "huge"}
  <2> SUFFICES ASSUME NEW j \in 2..(Len(db) + 1)
               PROVE  Full[j].role \in Roles /\ Full[j].content \in {"short", "long", "huge"}
    OBVIOUS
  <2>1. Full[j] = db[j - 1] /\ db[j - 1] \in Said
    BY <1>2, <1>4, <1>5
  <2>2. QED
    BY <2>1 DEF Said
<1>7. \A j \in 1..Len(Full) : j = 1 \/ j \in 2..(Len(db) + 1)
  BY <1>2, <1>4
<1>8. QED
  BY <1>1, <1>4, <1>6, <1>7 DEF Prompted, prompt

LEMMA PreparedFull ==
  ASSUME Recorded
  PROVE  /\ Prompted(Prepared(Full), Len(db))
         /\ Prepared(Full) \in Seq(Shown) /\ Len(Prepared(Full)) = Len(db) + 1
         /\ \A i \in 1..(Len(db) + 1) : Prepared(Full)[i].id = Full[i].id
         /\ Len(Conversation(Prepared(Full))) = Len(db)
<1>1. Prompted(Full, Len(db)) /\ Len(db) \in Nat
  BY FullShape DEF Recorded
<1>2. Alike(Prepared(Full), Full) /\ Len(Full) = Len(db) + 1
  BY <1>1, PreparedShape DEF Prompted
<1>3. Prompted(Prepared(Full), Len(db))
  BY <1>1, <1>2 DEF Prompted, Alike
<1>4. Len(Conversation(Prepared(Full))) = Len(db)
  BY <1>1, <1>3, Parts
<1>5. QED
  BY <1>2, <1>3, <1>4 DEF Alike

(* What is kept is good until something is added.                          *)
LEMMA KeptIsGood ==
  ASSUME Recorded, NEW messages, Made(messages), Keep(messages), UNCHANGED db
  PROVE  CacheGood' /\ Cached'
<1>1. messages # <<>>
  <2>1. Prepared(Full) # <<>>
    BY PreparedFull DEF Recorded
  <2>2. ASSUME NEW summary, Len(db) >= 6 PROVE Archived(Prepared(Full), summary) # <<>>
    <3>1. Len(Archived(Prepared(Full), summary)) = 6
      <4>1. PICK n \in Nat : n = Len(db)
        BY DEF Recorded
      <4>2. PICK ready : ready = Prepared(Full)
        OBVIOUS
      <4>3. n >= 4 /\ Prompted(ready, n)
        BY <2>2, <4>1, <4>2, PreparedFull
      <4>4. Len(Archived(ready, summary)) = 6
        BY <4>3, ArchivedShape
      <4>5. QED
        BY <4>2, <4>4
    <3>2. QED
      BY <3>1
  <2>3. QED
    BY <2>1, <2>2 DEF Made
<1>2. cache' = [messages |-> messages, count |-> Len(db)]
  BY DEF Keep
<1>3. cache'.messages = messages /\ cache'.count = Len(db) /\ cache' # NoCache
  BY <1>1, <1>2 DEF NoCache
<1>4. Made(messages)'
  BY DEF Made, Full
<1>5. QED
  BY <1>3, <1>4 DEF CacheGood, Cached, Recorded

LEMMA NoCacheIsGood ==
  ASSUME Recorded', cache' = NoCache
  PROVE  CacheGood' /\ ~Cached'
BY DEF NoCache, CacheGood, Cached, Recorded

LEMMA EngineInitInv == EngineInit => EngineInv
<1> SUFFICES ASSUME EngineInit PROVE EngineInv
  OBVIOUS
<1>1. Recorded /\ Len(db) = 0
  BY DEF EngineInit, Recorded
<1>2. CacheGood
  BY <1>1 DEF EngineInit, NoCache, CacheGood, Cached
<1>3. \A r \in Runs : run[r] = Resting
  BY DEF EngineInit
<1>4. run \in [Runs -> [pc : Stages, tries : Nat, held : Seq(Shown), seen : Nat]]
  BY DEF EngineInit, Resting, Stages
<1>5. \A r \in Runs : RunGood(r)
  BY <1>1, <1>3 DEF RunGood, Resting, Stands
<1>6. QED
  BY <1>1, <1>2, <1>4, <1>5 DEF EngineInv

(* A message is added.                                                     *)
LEMMA AddEffect ==
  ASSUME EngineInv, ~Racing, NEW role \in Roles, NEW content \in {"short", "long", "huge"},
         Add(role, content)
  PROVE  /\ Recorded' /\ Len(db') = Len(db) + 1
         /\ \A r \in Runs : ~Stands(r, "summary")
<1>1. db \in Seq(Said) /\ \A i \in 1..Len(db) : db[i].id = i
  BY DEF EngineInv, Recorded
<1> DEFINE message == Message(role, Len(db) + 1, content)
<1>2. message \in Said /\ message.id = Len(db) + 1
  BY <1>1 DEF Message, Said
<1>3. db' = Append(db, message)
  BY DEF Add
<1> HIDE DEF message
<1>4. /\ db' \in Seq(Said) /\ Len(db') = Len(db) + 1
      /\ \A i \in 1..Len(db) : db'[i] = db[i]
      /\ db'[Len(db) + 1] = message
  BY <1>1, <1>2, <1>3, AppendProperties
<1>5. QED
  BY <1>1, <1>2, <1>4 DEF Recorded, Add

LEMMA AddedKeeps ==
  ASSUME EngineInv, Recorded', Len(db') = Len(db) + 1,
         cache' = cache \/ cache' = NoCache
  PROVE  CacheGood' /\ ~Cached'
<1>1. CASE cache' = NoCache
  BY <1>1, NoCacheIsGood
<1>2. CASE cache' = cache
  BY <1>2 DEF EngineInv, CacheGood, Cached, Recorded
<1>3. QED
  BY <1>1, <1>2

(* One run moves on.                                                       *)
LEMMA OtherRuns ==
  ASSUME EngineInv, NEW r \in Runs, NEW new \in [pc : Stages, tries : Nat, held : Seq(Shown), seen : Nat],
         run' = [run EXCEPT ![r] = new]
  PROVE  /\ run' \in [Runs -> [pc : Stages, tries : Nat, held : Seq(Shown), seen : Nat]]
         /\ run'[r] = new /\ \A q \in Runs \ {r} : run'[q] = run[q]
BY DEF EngineInv

(* A run that only moves on.                                               *)
LEMMA MovesOn ==
  ASSUME EngineInv, NEW r \in Runs, Recorded', CacheGood',
         run' \in [Runs -> [pc : Stages, tries : Nat, held : Seq(Shown), seen : Nat]],
         \A q \in Runs \ {r} : run'[q] = run[q],
         RunGood(r)',
         \/ Len(db') = Len(db) + 1 /\ \A q \in Runs : ~Stands(q, "summary")
         \/ UNCHANGED db /\ (cache' = cache \/ Cached' \/ Fits(Full))
  PROVE  EngineInv'
<1> SUFFICES ASSUME NEW q \in Runs PROVE RunGood(q)'
  BY DEF EngineInv
<1>1. CASE q = r
  BY <1>1
<1>2. CASE q # r
  <2>0. run'[q] = run[q] /\ RunGood(q) /\ run[q].seen \in Nat /\ Len(db) \in Nat
    BY <1>2 DEF EngineInv, Recorded
  <2>1. CASE Len(db') = Len(db) + 1 /\ \A p \in Runs : ~Stands(p, "summary")
    BY <2>0, <2>1 DEF RunGood, Stands
  <2>2. CASE UNCHANGED db /\ (cache' = cache \/ Cached' \/ Fits(Full))
    <3>1. Full' = Full
      BY <2>2 DEF Full
    <3>2. cache' = cache => Cached' = Cached
      BY <2>2 DEF Cached
    <3>3. QED
      BY <2>0, <2>2, <3>1, <3>2 DEF RunGood, Stands
  <2>3. QED
    BY <2>1, <2>2
<1>3. QED
  BY <1>1, <1>2

(* The pipeline leaves a context made of the conversation, or waits for a  *)
(* summary of it.                                                          *)
LEMMA CompactEffect ==
  ASSUME EngineInv, NEW r \in Runs, NEW tries \in Nat, ~Fits(Full), Compact(r, tries), UNCHANGED db
  PROVE  EngineInv'
<1>0. Recorded /\ Recorded' /\ Full' = Full /\ Len(db) \in Nat
  BY DEF EngineInv, Recorded, Full
<1>1. CASE WantsSummary(Prepared(Full))
  <2> DEFINE new == [pc |-> "summary", tries |-> tries, held |-> Prepared(Full), seen |-> Len(db)]
  <2>1. run' = [run EXCEPT ![r] = new] /\ UNCHANGED cache
    BY <1>1 DEF Compact
  <2>2. new \in [pc : Stages, tries : Nat, held : Seq(Shown), seen : Nat]
    BY <1>0, PreparedFull DEF Stages
  <2>3. ~Fits(Prepared(Full)) /\ Len(db) >= 6
    BY <1>0, <1>1, PreparedFull DEF WantsSummary
  <2>4. new.pc = "summary" /\ new.held = Prepared(Full) /\ new.seen = Len(db)
    OBVIOUS
  <2> HIDE DEF new
  <2>5. /\ run' \in [Runs -> [pc : Stages, tries : Nat, held : Seq(Shown), seen : Nat]]
        /\ run'[r] = new /\ \A q \in Runs \ {r} : run'[q] = run[q]
    BY <2>1, <2>2, OtherRuns
  <2>6. RunGood(r)'
    BY <1>0, <2>3, <2>4, <2>5 DEF RunGood, Stands
  <2>7. CacheGood'
    <3>1. Made(cache.messages)' = Made(cache.messages)
      BY <1>0, <2>1 DEF Made
    <3>2. QED
      BY <2>1, <3>1 DEF EngineInv, CacheGood, Cached
  <2>8. QED
    BY <1>0, <2>1, <2>5, <2>6, <2>7, MovesOn
<1>2. CASE ~WantsSummary(Prepared(Full))
  <2> DEFINE new == ToCall(tries)
  <2>1. run' = [run EXCEPT ![r] = new] /\ Keep(Prepared(Full))
    BY <1>2 DEF Compact
  <2>2. /\ new \in [pc : Stages, tries : Nat, held : Seq(Shown), seen : Nat]
        /\ new.pc = "call" /\ new.seen = Len(db)
    BY <1>0 DEF Stages, ToCall
  <2> HIDE DEF new
  <2>3. /\ run' \in [Runs -> [pc : Stages, tries : Nat, held : Seq(Shown), seen : Nat]]
        /\ run'[r] = new /\ \A q \in Runs \ {r} : run'[q] = run[q]
    BY <2>1, <2>2, OtherRuns
  <2>4. CacheGood' /\ Cached'
    BY <1>0, <2>1, KeptIsGood DEF Made
  <2>5. RunGood(r)'
    BY <1>0, <2>2, <2>3, <2>4 DEF RunGood, Stands
  <2>6. QED
    BY <1>0, <2>3, <2>4, <2>5, MovesOn
<1>3. QED
  BY <1>1, <1>2

LEMMA SeenToFits ==
  ASSUME EngineInv, NEW r \in Runs, NEW tries \in Nat, Fits(Full), UNCHANGED db,
         run' = [run EXCEPT ![r] = ToCall(tries)], cache' = cache \/ cache' = NoCache
  PROVE  EngineInv'
<1>0. Recorded /\ Recorded' /\ Full' = Full /\ Len(db) \in Nat
  BY DEF EngineInv, Recorded, Full
<1> DEFINE new == ToCall(tries)
<1>1. /\ new \in [pc : Stages, tries : Nat, held : Seq(Shown), seen : Nat]
      /\ new.pc = "call" /\ new.seen = Len(db)
  BY <1>0 DEF Stages, ToCall
<1> HIDE DEF new
<1>2. /\ run' \in [Runs -> [pc : Stages, tries : Nat, held : Seq(Shown), seen : Nat]]
      /\ run'[r] = new /\ \A q \in Runs \ {r} : run'[q] = run[q]
  BY <1>1, OtherRuns DEF new
<1>3. CacheGood'
  <2>1. CASE cache' = NoCache
    BY <1>0, <2>1, NoCacheIsGood
  <2>2. CASE cache' = cache
    <3>1. Made(cache.messages)' = Made(cache.messages)
      BY <1>0, <2>2 DEF Made
    <3>2. QED
      BY <2>2, <3>1 DEF EngineInv, CacheGood, Cached
  <2>3. QED
    BY <2>1, <2>2
<1>4. RunGood(r)'
  BY <1>0, <1>1, <1>2 DEF RunGood, Stands
<1>5. QED
  BY <1>0, <1>2, <1>3, <1>4, MovesOn

(* A message comes, and its run moves on.                                  *)
LEMMA SpeaksUp ==
  ASSUME EngineInv, ~Racing, NEW r \in Runs, NEW role \in Roles,
         NEW content \in {"short", "long", "huge"}, Add(role, content),
         NEW new \in [pc : Stages, tries : Nat, held : Seq(Shown), seen : Nat],
         new.pc \notin {"summary", "call"}, new.seen <= Len(db),
         run' = [run EXCEPT ![r] = new], cache' = cache \/ cache' = NoCache
  PROVE  EngineInv'
<1>1. /\ Recorded' /\ Len(db') = Len(db) + 1 /\ Len(db) \in Nat
      /\ \A q \in Runs : ~Stands(q, "summary")
  BY AddEffect DEF EngineInv, Recorded
<1>2. CacheGood'
  BY <1>1, AddedKeeps
<1>3. /\ run' \in [Runs -> [pc : Stages, tries : Nat, held : Seq(Shown), seen : Nat]]
      /\ run'[r] = new /\ \A q \in Runs \ {r} : run'[q] = run[q]
  BY OtherRuns
<1>4. RunGood(r)'
  BY <1>1, <1>3 DEF RunGood, Stands
<1>5. QED
  BY <1>1, <1>2, <1>3, <1>4, MovesOn

(* A run goes on without a word.                                           *)
LEMMA Silent ==
  ASSUME EngineInv, NEW r \in Runs, UNCHANGED db, UNCHANGED cache,
         NEW new \in [pc : Stages, tries : Nat, held : Seq(Shown), seen : Nat],
         new.pc \notin {"summary", "call"}, new.seen <= Len(db),
         run' = [run EXCEPT ![r] = new]
  PROVE  EngineInv'
<1>0. Recorded' /\ Full' = Full
  BY DEF EngineInv, Recorded, Full
<1>1. /\ run' \in [Runs -> [pc : Stages, tries : Nat, held : Seq(Shown), seen : Nat]]
      /\ run'[r] = new /\ \A q \in Runs \ {r} : run'[q] = run[q]
  BY OtherRuns
<1>2. RunGood(r)'
  BY <1>1 DEF RunGood, Stands
<1>3. CacheGood'
  <2>1. Made(cache.messages)' = Made(cache.messages)
    BY <1>0 DEF Made
  <2>2. QED
    BY <2>1 DEF EngineInv, CacheGood, Cached
<1>4. QED
  BY <1>0, <1>1, <1>2, <1>3, MovesOn

LEMMA EngineStep ==
  ASSUME ~Racing, EngineInv, [EngineNext]_engineVars
  PROVE  EngineInv'
<1> DEFINE Run == [pc : Stages, tries : Nat, held : Seq(Shown), seen : Nat]
<1>0. /\ run \in [Runs -> Run] /\ Recorded /\ Len(db) \in Nat
      /\ \A r \in Runs : run[r] \in Run /\ RunGood(r)
      /\ Lengths \subseteq {"short", "long", "huge"}
  BY ContextAssumption DEF EngineInv, Recorded
<1>1. ASSUME NEW r \in Runs, StartRun(r)
      PROVE  EngineInv'
  <2>1. PICK content \in {"short", "long", "huge"} : Add("user", content)
    BY <1>0, <1>1 DEF StartRun
  <2> DEFINE new == [run[r] EXCEPT !.pc = "turn"]
  <2>2. run' = [run EXCEPT ![r] = new] /\ cache' = NoCache
    BY <1>1 DEF StartRun, GoesOn
  <2>3. new \in Run /\ new.pc = "turn" /\ new.seen = run[r].seen
    BY <1>0 DEF Stages
  <2> HIDE DEF new
  <2>4. QED
    BY <1>0, <2>1, <2>2, <2>3, SpeaksUp DEF RunGood, Roles
<1>2. ASSUME NEW r \in Runs, Maintain(r)
      PROVE  EngineInv'
  <2>1. run[r].tries \in Nat /\ UNCHANGED db
    BY <1>0, <1>2 DEF Maintain
  <2>2. CASE Fits(Full)
    BY <1>2, <2>1, <2>2, SeenToFits DEF Maintain
  <2>3. CASE ~Fits(Full)
    BY <1>2, <2>1, <2>3, CompactEffect DEF Maintain
  <2>4. QED
    BY <2>2, <2>3
<1>3. ASSUME NEW r \in Runs, Overflow(r)
      PROVE  EngineInv'
  <2>1. run[r].tries + 1 \in Nat /\ UNCHANGED db
    BY <1>0, <1>3 DEF Overflow, Recover
  <2>2. CASE Fits(Full)
    BY <1>3, <2>1, <2>2, SeenToFits DEF Overflow, Recover
  <2>3. CASE ~Fits(Full)
    BY <1>3, <2>1, <2>3, CompactEffect DEF Overflow, Recover
  <2>4. QED
    BY <2>2, <2>3
<1>4. ASSUME NEW r \in Runs, Summarized(r)
      PROVE  EngineInv'
  <2>1. /\ run[r].held = Prepared(Full) /\ ~Fits(Prepared(Full)) /\ Len(db) >= 6 /\ UNCHANGED db
    BY <1>0, <1>4 DEF Summarized, RunGood
  <2>2. PICK messages : Keep(messages) /\ Made(messages)
    <3>1. ~Fits(Full)
      BY <2>1, PreparedCases
    <3>2. QED
      BY <1>4, <2>1, <3>1 DEF Summarized, Made
  <2>3. CacheGood' /\ Cached'
    BY <1>0, <2>1, <2>2, KeptIsGood
  <2> DEFINE new == [run[r] EXCEPT !.pc = "call", !.held = <<>>]
  <2>4. run' = [run EXCEPT ![r] = new]
    BY <1>4 DEF Summarized
  <2>5. new \in Run /\ new.pc = "call" /\ new.seen = run[r].seen
    <3>1. <<>> \in Seq(Shown) /\ "call" \in Stages
      BY DEF Stages
    <3>2. run[r] \in Run
      BY <1>0
    <3>3. QED
      BY <3>1, <3>2
  <2> HIDE DEF new
  <2>6. /\ run' \in [Runs -> Run]
        /\ run'[r] = new /\ \A q \in Runs \ {r} : run'[q] = run[q]
    BY <2>4, <2>5, OtherRuns
  <2>7. RunGood(r)'
    BY <1>0, <2>1, <2>3, <2>5, <2>6 DEF RunGood, Stands
  <2>8. Recorded'
    BY <1>0, <2>1 DEF Recorded
  <2>9. QED
    BY <2>1, <2>3, <2>6, <2>7, <2>8, MovesOn
<1>5. ASSUME NEW r \in Runs, CallModel(r)
      PROVE  EngineInv'
  <2> DEFINE new == [run[r] EXCEPT !.pc = "model", !.seen = 0]
  <2>1. run' = [run EXCEPT ![r] = new] /\ UNCHANGED <<db, cache>>
    BY <1>5 DEF CallModel
  <2>2. new \in Run /\ new.pc = "model" /\ new.seen = 0
    BY <1>0 DEF Stages
  <2> HIDE DEF new
  <2>3. new.pc \notin {"summary", "call"} /\ new.seen <= Len(db)
    BY <1>0, <2>2
  <2>4. QED
    BY <2>1, <2>2, <2>3, Silent
<1>6. ASSUME NEW r \in Runs, CallTool(r)
      PROVE  EngineInv'
  <2> DEFINE new == [run[r] EXCEPT !.pc = "tool", !.tries = 0]
  <2>1. run' = [run EXCEPT ![r] = new] /\ UNCHANGED cache /\ Add("assistant", "short")
    BY <1>6 DEF CallTool
  <2>2. new \in Run /\ new.pc = "tool" /\ new.seen = run[r].seen
    BY <1>0 DEF Stages
  <2> HIDE DEF new
  <2>3. QED
    BY <1>0, <2>1, <2>2, SpeaksUp DEF RunGood, Roles
<1>7. ASSUME NEW r \in Runs, ToolReturns(r)
      PROVE  EngineInv'
  <2>1. PICK content \in {"short", "long", "huge"} : Add("tool", content)
    BY <1>0, <1>7 DEF ToolReturns
  <2> DEFINE new == [run[r] EXCEPT !.pc = "turn"]
  <2>2. run' = [run EXCEPT ![r] = new] /\ UNCHANGED cache
    BY <1>7 DEF ToolReturns, GoesOn
  <2>3. new \in Run /\ new.pc = "turn" /\ new.seen = run[r].seen
    BY <1>0 DEF Stages
  <2> HIDE DEF new
  <2>4. QED
    BY <1>0, <2>1, <2>2, <2>3, SpeaksUp DEF RunGood, Roles
<1>8. ASSUME NEW r \in Runs, Answer(r)
      PROVE  EngineInv'
  <2> DEFINE new == [run[r] EXCEPT !.pc = "noting", !.tries = 0]
  <2>1. run' = [run EXCEPT ![r] = new] /\ UNCHANGED cache /\ Add("assistant", "short")
    BY <1>8 DEF Answer
  <2>2. new \in Run /\ new.pc = "noting" /\ new.seen = run[r].seen
    BY <1>0 DEF Stages
  <2> HIDE DEF new
  <2>3. QED
    BY <1>0, <2>1, <2>2, SpeaksUp DEF RunGood, Roles
<1>9. ASSUME NEW r \in Runs, AfterTurn(r)
      PROVE  EngineInv'
  <2>1. run' = [run EXCEPT ![r] = Resting] /\ UNCHANGED <<db, cache>>
    BY <1>9 DEF AfterTurn
  <2>2. Resting \in Run /\ Resting.pc = "idle" /\ Resting.seen = 0
    BY DEF Resting, Stages
  <2> DEFINE new == Resting
  <2>3. new \in Run /\ new.pc \notin {"summary", "call"} /\ new.seen <= Len(db)
    BY <1>0, <2>2
  <2> HIDE DEF new
  <2>4. QED
    BY <2>1, <2>3, Silent DEF new
<1>10. CASE Restart
  <2>1. run' = [r \in Runs |-> Resting] /\ cache' = NoCache /\ UNCHANGED db
    BY <1>10 DEF Restart
  <2>2. Resting \in Run /\ Resting.pc = "idle" /\ Resting.seen = 0
    BY DEF Resting, Stages
  <2>3. Recorded' /\ CacheGood'
    BY <1>0, <2>1, NoCacheIsGood DEF Recorded
  <2>4. \A r \in Runs : RunGood(r)'
    BY <1>0, <2>1, <2>2 DEF RunGood, Stands
  <2>5. QED
    BY <2>1, <2>2, <2>3, <2>4 DEF EngineInv
<1>11. CASE UNCHANGED engineVars
  BY <1>11 DEF engineVars, EngineInv, Recorded, CacheGood, Cached, Made, Full, RunGood, Stands
<1>12. QED
  BY <1>1, <1>2, <1>3, <1>4, <1>5, <1>6, <1>7, <1>8, <1>9, <1>10, <1>11 DEF EngineNext


-----------------------------------------------------------------------------
(* What a context shows of the conversation.                               *)

LEMMA PreparedIds ==
  ASSUME Recorded
  PROVE  Ids(Prepared(Full)) = Ids(Full)
<1>1. Prepared(Full) \in Seq(Shown) /\ Len(Prepared(Full)) = Len(db) + 1
  BY PreparedFull
<1>2. Full \in Seq(Shown) /\ Len(Full) = Len(db) + 1
  BY FullShape DEF Prompted
<1>3. \A i \in 1..(Len(db) + 1) : Prepared(Full)[i].id = Full[i].id
  BY PreparedFull
<1>4. DOMAIN Prepared(Full) = 1..(Len(db) + 1) /\ DOMAIN Full = 1..(Len(db) + 1)
  BY <1>1, <1>2
<1>5. QED
  BY <1>3, <1>4 DEF Ids

LEMMA SummaryShape ==
  ASSUME Recorded, NEW n \in Nat, n = Len(db), n >= 4
  PROVE  /\ SummaryIds \in Seq(Nat) /\ Len(SummaryIds) = 6
         /\ SummaryIds[1] = 0 /\ SummaryIds[2] = 0
         /\ \A k \in 1..4 : SummaryIds[k + 2] = n - 4 + k
<1>1. db \in Seq(Said) /\ \A i \in 1..n : db[i].id = i
  BY DEF Recorded
<1> DEFINE recent == SubSeq(db, n - 3, n)
<1>2. recent \in Seq(Said) /\ Len(recent) = 4 /\ \A k \in 1..4 : recent[k] = db[n - 4 + k]
  <2>1. n - 3 \in 1..(n + 1) /\ n \in (n - 3 - 1)..n /\ n - (n - 3) + 1 = 4
    OBVIOUS
  <2>2. /\ recent \in Seq(Said) /\ Len(recent) = n - (n - 3) + 1
        /\ \A k \in 1..(n - (n - 3) + 1) : recent[k] = db[n - 3 + k - 1]
    BY <1>1, <2>1, SubSeqProperties
  <2>3. \A k \in 1..4 : n - 3 + k - 1 = n - 4 + k
    OBVIOUS
  <2>4. QED
    BY <2>1, <2>2, <2>3
<1> HIDE DEF recent
<1>3. \A k \in 1..4 : recent[k].id = n - 4 + k /\ n - 4 + k \in Nat
  <2>1. \A k \in 1..4 : n - 4 + k \in 1..n
    OBVIOUS
  <2>2. QED
    BY <1>1, <1>2, <2>1
<1>4. PICK ids : ids = Ids(recent)
  OBVIOUS
<1>5. ids = [i \in 1..4 |-> recent[i].id]
  <2>1. DOMAIN recent = 1..4
    BY <1>2
  <2>2. QED
    BY <1>4, <2>1 DEF Ids
<1>6. ids \in Seq(Nat) /\ Len(ids) = 4 /\ \A k \in 1..4 : ids[k] = n - 4 + k
  BY <1>3, <1>5
<1>7. PICK front : front = <<0, 0>>
  OBVIOUS
<1>8. front \in Seq(Nat) /\ Len(front) = 2 /\ front[1] = 0 /\ front[2] = 0
  BY <1>7
<1>9. ids \in Seq(Nat) /\ Len(ids) = 4
  BY <1>6
<1>10. SummaryIds = front \o ids
  BY <1>4, <1>7 DEF SummaryIds, recent
<1>11. front \o ids \in Seq(Nat) /\ Len(front \o ids) = Len(front) + Len(ids)
  BY <1>8, <1>9, ConcatProperties
<1>12. \A i \in 1..6 : (front \o ids)[i] = IF i <= 2 THEN front[i] ELSE ids[i - 2]
  <2> SUFFICES ASSUME NEW i \in 1..6
               PROVE  (front \o ids)[i] = IF i <= 2 THEN front[i] ELSE ids[i - 2]
    OBVIOUS
  <2>1. i \in 1..(Len(front) + Len(ids))
    BY <1>8, <1>9
  <2>2. (front \o ids)[i] = IF i <= Len(front) THEN front[i] ELSE ids[i - Len(front)]
    BY <1>8, <1>9, <2>1, ConcatProperties
  <2>3. QED
    BY <1>8, <1>9, <2>2
<1>13. \A k \in 1..4 : k + 2 \in 1..(2 + 4) /\ ~(k + 2 <= 2) /\ (k + 2) - 2 = k
  OBVIOUS
<1>14. PICK all : all = front \o ids
  OBVIOUS
<1>15. \A i \in 1..6 : all[i] = IF i <= 2 THEN front[i] ELSE ids[i - 2]
  BY <1>12, <1>14
<1>16. all \in Seq(Nat) /\ Len(all) = 6
  BY <1>8, <1>9, <1>11, <1>14
<1>17. \A k \in 1..4 : all[k + 2] = n - 4 + k
  <2> SUFFICES ASSUME NEW k \in 1..4 PROVE all[k + 2] = n - 4 + k
    OBVIOUS
  <2>1. all[k + 2] = ids[k]
    BY <1>13, <1>15
  <2>2. QED
    BY <1>6, <2>1
<1>18. all[1] = 0 /\ all[2] = 0
  <2>1. 1 \in 1..6 /\ 2 \in 1..6 /\ 1 <= 2 /\ 2 <= 2
    OBVIOUS
  <2>2. QED
    BY <1>8, <1>15, <2>1
<1>19. QED
  BY <1>10, <1>14, <1>16, <1>17, <1>18

LEMMA ArchivedIds ==
  ASSUME Recorded, Len(db) >= 6, NEW summary,
         NEW archived, archived = Archived(Prepared(Full), summary)
  PROVE  Ids(archived) = SummaryIds /\ Ids(archived) # Ids(Full)
<1>1. PICK n \in Nat : n = Len(db) /\ n >= 6
  BY DEF Recorded
<1>2. PICK ready : ready = Prepared(Full) /\ Prompted(ready, n) /\ n >= 4
  BY <1>1, PreparedFull
<1>3. /\ DOMAIN archived = 1..6
      /\ archived[1] = ready[1] /\ archived[2] = Message("user", 0, summary)
      /\ \A k \in 1..4 : archived[k + 2] = ready[n - 3 + k]
  <2>1. archived = Archived(ready, summary)
    BY <1>2
  <2>2. QED
    BY <1>2, <2>1, ArchivedShape
<1>4. archived[1].id = 0 /\ archived[2].id = 0
  <2>1. ready[1].id = Full[1].id
    BY <1>1, <1>2, PreparedFull
  <2>2. Full[1].id = 0
    BY FullShape DEF Message
  <2>3. archived[2].id = 0
    BY <1>3 DEF Message
  <2>4. QED
    BY <1>3, <2>1, <2>2, <2>3
<1>5. \A k \in 1..4 : archived[k + 2].id = n - 4 + k
  <2> SUFFICES ASSUME NEW k \in 1..4 PROVE archived[k + 2].id = n - 4 + k
    OBVIOUS
  <2>1. PICK i \in 1..n : i = n - 4 + k
    BY <1>1
  <2>2. i + 1 = n - 3 + k /\ i + 1 \in 1..(n + 1)
    BY <2>1
  <2>3. archived[k + 2] = ready[i + 1]
    BY <1>3, <2>2
  <2>4. ready[i + 1].id = Full[i + 1].id
    BY <1>1, <1>2, <2>2, PreparedFull
  <2>5. Full[i + 1] = db[i] /\ db[i].id = i
    BY <1>1, FullShape DEF Recorded
  <2>6. QED
    BY <2>1, <2>3, <2>4, <2>5
<1>6. PICK given \in Seq(Nat) : /\ given = SummaryIds /\ Len(given) = 6 /\ given[1] = 0 /\ given[2] = 0
                                /\ \A k \in 1..4 : given[k + 2] = n - 4 + k
  BY <1>1, <1>2, SummaryShape
<1>7. \A i \in 1..6 : archived[i].id = given[i]
  <2>1. \A i \in 1..6 : i = 1 \/ i = 2 \/ (i - 2 \in 1..4 /\ (i - 2) + 2 = i)
    OBVIOUS
  <2>2. \A i \in 3..6 : archived[i].id = given[i]
    <3> SUFFICES ASSUME NEW i \in 3..6 PROVE archived[i].id = given[i]
      OBVIOUS
    <3>1. PICK k \in 1..4 : i = k + 2
      OBVIOUS
    <3>2. archived[k + 2].id = n - 4 + k /\ given[k + 2] = n - 4 + k
      BY <1>5, <1>6
    <3>3. QED
      BY <3>1, <3>2
  <2>3. QED
    BY <1>4, <1>6, <2>2
<1>8. Ids(archived) = [i \in 1..6 |-> archived[i].id]
  BY <1>3 DEF Ids
<1>9. Ids(archived) = SummaryIds
  <2>1. given = [i \in 1..6 |-> given[i]]
    BY <1>6
  <2>2. QED
    BY <1>6, <1>7, <1>8, <2>1
<1>10. Ids(archived) # Ids(Full)
  <2>1. Full \in Seq(Shown) /\ Len(Full) = n + 1
    BY <1>1, FullShape DEF Prompted
  <2>2. DOMAIN Full = 1..(n + 1)
    BY <2>1
  <2>3. DOMAIN Ids(Full) = 1..(n + 1) /\ DOMAIN Ids(archived) = 1..6
    BY <1>8, <2>2 DEF Ids
  <2>4. 7 \in 1..(n + 1) /\ 7 \notin 1..6
    BY <1>1
  <2>5. QED
    BY <2>3, <2>4
<1>11. QED
  BY <1>9, <1>10

-----------------------------------------------------------------------------
(* While no message comes during a summary, the cached context and every   *)
(* summary awaited are made from the conversation as it stands.            *)
THEOREM EngineInvariant ==
  ASSUME ~Racing
  PROVE  EngineSpec => []EngineInv
<1>1. EngineInit => EngineInv
  BY EngineInitInv
<1>2. EngineInv /\ [EngineNext]_engineVars => EngineInv'
  BY EngineStep
<1>3. QED
  BY <1>1, <1>2, PTL DEF EngineSpec

(* assemble never shows the model an old context: what a call is given is  *)
(* the conversation as it stands, or a summary and its last four messages. *)
THEOREM SentIsCurrentAlways ==
  ASSUME ~Racing
  PROVE  EngineSpec => []SentIsCurrent
<1>1. EngineInv => SentIsCurrent
  <2> SUFFICES ASSUME EngineInv
               PROVE  Ids(Assembled) = Ids(Full) \/ (Len(db) >= 4 /\ Ids(Assembled) = SummaryIds)
    BY DEF SentIsCurrent
  <2>1. Recorded /\ CacheGood /\ Len(db) \in Nat
    BY DEF EngineInv, Recorded
  <2>2. CASE ~Cached
    <3>1. Assembled = Full
      BY <2>2 DEF Assembled, Cached
    <3>2. QED
      BY <3>1, Zenon
  <2>3. CASE Cached
    <3>1. Assembled = cache.messages /\ Made(Assembled)
      BY <2>1, <2>3 DEF Assembled, Cached, CacheGood
    <3>2. CASE Assembled = Prepared(Full)
      <4>1. Ids(Prepared(Full)) = Ids(Full)
        BY <2>1, PreparedIds
      <4>2. QED
        BY <3>2, <4>1, Zenon
    <3>3. CASE Len(db) >= 6 /\ \E summary \in Lengths : Assembled = Archived(Prepared(Full), summary)
      BY <2>1, <3>3, ArchivedIds
    <3>4. QED
      BY <3>1, <3>2, <3>3 DEF Made
  <2>4. QED
    BY <2>2, <2>3
<1>2. QED
  BY <1>1, EngineInvariant, PTL

(* The pipeline stops at the first step that is enough, and gives up only  *)
(* when it has tried all: a context over the budget is summarized, folded  *)
(* throughout, or was seen to before another run added to it.              *)
THEOREM AsMuchAsNeededAlways ==
  ASSUME ~Racing
  PROVE  EngineSpec => []AsMuchAsNeeded
<1>1. EngineInv => AsMuchAsNeeded
  <2> SUFFICES ASSUME EngineInv, NEW r \in Runs, Stands(r, "call")
               PROVE  LET marks == {Assembled[i].content : i \in DOMAIN Assembled}
                          summarized == Ids(Assembled) # Ids(Full) IN
                      /\ ~Fits(Assembled) =>
                           \/ summarized \/ Assembled = Folded(Cleaned(Full))
                           \/ run[r].seen < Len(db)
                      /\ "cleared" \in marks => ~Fits(Full)
                      /\ "folded" \in marks => ~Fits(Cleaned(Full))
                      /\ summarized => ~Fits(Folded(Cleaned(Full)))
    BY DEF AsMuchAsNeeded
  <2> DEFINE marks == {Assembled[i].content : i \in DOMAIN Assembled}
             summarized == Ids(Assembled) # Ids(Full)
  <2>1. Recorded /\ CacheGood /\ RunGood(r) /\ Len(db) \in Nat /\ run[r].seen \in Nat
    BY DEF EngineInv, Recorded
  <2>2. /\ Full \in Seq(Shown) /\ DOMAIN Full = 1..Len(Full)
        /\ \A i \in 1..Len(Full) : Full[i].content \in {"short", "long", "huge"}
    BY <2>1, FullShape DEF Prompted
  <2>3. CASE ~Cached
    <3>1. Assembled = Full
      BY <2>3 DEF Assembled, Cached
    <3>2. ~summarized /\ "cleared" \notin marks /\ "folded" \notin marks
      BY <2>2, <3>1
    <3>3. ~Fits(Full) => run[r].seen < Len(db)
      BY <2>1, <2>3 DEF RunGood
    <3>4. QED
      BY <3>1, <3>2, <3>3
  <2>4. CASE Cached
    <3>1. Assembled = cache.messages /\ Made(Assembled)
      BY <2>1, <2>4 DEF Assembled, Cached, CacheGood
    <3>2. CASE Assembled = Prepared(Full)
      <4>1. ~summarized
        BY <2>1, <3>2, PreparedIds
      <4>2. ~Fits(Full) /\ (~Fits(Assembled) => Assembled = Folded(Cleaned(Full)))
        BY <3>1, <3>2, PreparedCases DEF Made
      <4>3. Fits(Cleaned(Full)) => "folded" \notin marks
        <5> SUFFICES ASSUME Fits(Cleaned(Full)) PROVE "folded" \notin marks
          OBVIOUS
        <5>1. Assembled = Cleaned(Full)
          BY <3>2, <4>2, PreparedCases
        <5>2. /\ Cleaned(Full) \in Seq(Shown) /\ Len(Cleaned(Full)) = Len(Full)
              /\ \A i \in 1..Len(Full) : Cleaned(Full)[i].content \in {Full[i].content, "cleared"}
          BY <2>2, CleanedShape DEF Alike
        <5>3. DOMAIN Assembled = 1..Len(Full)
          BY <5>1, <5>2
        <5>4. \A i \in 1..Len(Full) : Assembled[i].content # "folded"
          BY <2>2, <5>1, <5>2
        <5>5. QED
          BY <5>3, <5>4
      <4>4. QED
        BY <4>1, <4>2, <4>3
    <3>3. CASE /\ ~Fits(Prepared(Full)) /\ Len(db) >= 6
               /\ \E summary \in Lengths : Assembled = Archived(Prepared(Full), summary)
      <4>1. ~Fits(Full) /\ ~Fits(Cleaned(Full)) /\ ~Fits(Folded(Cleaned(Full)))
        BY <3>3, PreparedCases
      <4>2. summarized
        BY <2>1, <3>3, ArchivedIds
      <4>3. QED
        BY <4>1, <4>2
    <3>4. QED
      BY <3>1, <3>2, <3>3 DEF Made
  <2>5. QED
    BY <2>3, <2>4
<1>2. QED
  BY <1>1, EngineInvariant, PTL
================================================================================
