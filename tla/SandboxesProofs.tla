--------------------------- MODULE SandboxesProofs ---------------------------
(***************************************************************************)
(* Theorems about the sandboxes and their snapshots, for any number of     *)
(* sessions, requests, tags and containers, and any faults.                *)
(***************************************************************************)
EXTENDS Sandboxes, SequenceTheorems, TLAPS

-----------------------------------------------------------------------------
(* The invariant.                                                            *)

\* What a request is about goes with where it is.
Shape(r) ==
  /\ r.at = "idle" => r.what = "none" /\ r.box = None
  /\ r.at = "copy" => r.what = "read"
  /\ r.at \in {"commit", "committed"} => r.what = "snapshot"
  /\ r.at = "commit" => r.files = Absent
  /\ r.what = "snapshot" => r.at \in {"commit", "committed", "done"} /\ r.ref \in References
  /\ r.at \in {"exec", "commit", "rm", "removed"} => r.box # None
  /\ r.at \in {"unimage", "unimaged"} => r.what = "delete"

Shapes == \A q \in Requests : Shape(request[q])

\* A container is made for a session, or for the calls that name none.
Named == \A c \in Containers : container[c].state # "none" => container[c].name \in Owners

\* The containers of the map and of the requests are there, or have been, and
\* have the name of their session.
MapNamed ==
  \A s \in Owners : mapped[s] # None =>
    container[mapped[s]].state # "none" /\ container[mapped[s]].name = s

Boxed(q) ==
  LET r == request[q] IN
  r.box # None =>
    /\ container[r.box].state # "none"
    /\ r.at \in {"ran", "rm", "removed"} => container[r.box].name = r.on

\* A container just created is known to no one but the request that did.
Newly(q) ==
  LET r == request[q] IN
  r.at = "ran" /\ r.box # None =>
    /\ container[r.box].state \in {"up", "created"}
    /\ \A s \in Owners : mapped[s] # r.box
    /\ \A p \in Requests \ {q} : request[p].box # r.box

Boxes == \A q \in Requests : Boxed(q) /\ Newly(q)

\* Docker gives a name to one container at a time.
OneName ==
  \A s \in Sessions : \A c, d \in Containers :
    /\ container[c].state \in {"up", "created"} /\ container[c].name = s
    /\ container[d].state \in {"up", "created"} /\ container[d].name = s
    => c = d

\* The container of s is in the map, or about to be.
InMap(s) ==
  \A c \in Containers : container[c].state \in {"up", "created"} /\ container[c].name = s =>
    \/ mapped[s] = c
    \/ \E q \in Requests : request[q].at = "ran" /\ request[q].on = s /\ request[q].box = c

Changes == {"run", "ran", "rm", "removed"}

\* Who removes the container of s removes the one in the map, and is alone.
Alone(s) ==
  \A q \in Requests : request[q].on = s /\ request[q].at \in {"rm", "removed"} =>
    /\ mapped[s] = request[q].box
    /\ request[q].at = "removed" => container[request[q].box].state = "gone"
    /\ \A p \in Requests \ {q} : ~(request[p].on = s /\ request[p].at \in Changes)

Reached == \A s \in Sessions \ astray : InMap(s) /\ Alone(s)

\* A restoration or deletion is about a row of the table.
AboutRow(q) ==
  LET r == request[q] IN
  r.at \notin {"idle", "done"} /\ r.what \in {"restore", "delete"} =>
    /\ r.row \in DOMAIN rows /\ rows[r.row].ref = r.ref
    /\ r.what = "restore" => rows[r.row].session = r.on

AboutRows == \A q \in Requests : AboutRow(q)

\* Each row is there because a request has chosen its reference.
Made == \A i \in DOMAIN rows : \E p \in Requests : request[p].at = "done" /\ Chose(p, rows[i].ref)

\* As long as one request has chosen it, a reference stands for what was saved
\* or for nothing, a container made of it has what was saved, and an image
\* that was removed stays away.
ImageKept(ref, files) == TwoChose(ref) \/ images[ref] \in {Absent, files}

RowsKept == \A i \in DOMAIN rows : ImageKept(rows[i].ref, rows[i].files)

Kept(q) ==
  LET r == request[q] IN
  /\ r.at = "committed" /\ r.files # Absent => ImageKept(r.ref, r.files)
  /\ r.at = "ran" /\ r.what = "restore" /\ r.box # None =>
       TwoChose(r.ref) \/ container[r.box].files = rows[r.row].files
  /\ r.at = "unimaged" => ImageKept(r.ref, Absent)

RequestsKept == \A q \in Requests : Kept(q)

IInv ==
  /\ TypeOK /\ Shapes /\ Named /\ MapNamed /\ Boxes /\ OneName /\ Reached
  /\ AboutRows /\ Made /\ RowsKept /\ RequestsKept /\ DeletedIsGone

-----------------------------------------------------------------------------
(* Rows of the requests.                                                     *)

Stages == {"idle", "copy", "exec", "run", "ran", "rm", "removed", "commit", "committed", "unimage",
           "unimaged", "done"}

WithStage(r, at) == [r EXCEPT !.at = at]

WithBox(r, at, box) == [r EXCEPT !.at = at, !.box = box]

WithFiles(r, at, files) == [r EXCEPT !.at = at, !.files = files]

LEMMA StageChanges ==
  ASSUME NEW r \in RequestState, NEW at \in Stages
  PROVE  LET to == WithStage(r, at) IN
         /\ to \in RequestState /\ to.at = at
         /\ to.what = r.what /\ to.on = r.on /\ to.box = r.box /\ to.ref = r.ref /\ to.row = r.row
         /\ to.files = r.files
BY DEF WithStage, RequestState, Stages

LEMMA BoxChanges ==
  ASSUME NEW r \in RequestState, NEW at \in Stages, NEW box \in Containers \cup {None}
  PROVE  LET to == WithBox(r, at, box) IN
         /\ to \in RequestState /\ to.at = at /\ to.box = box
         /\ to.what = r.what /\ to.on = r.on /\ to.ref = r.ref /\ to.row = r.row
         /\ to.files = r.files
<1> DEFINE to == WithBox(r, at, box)
<1>1. /\ to.at = at /\ to.box = box /\ to.what = r.what /\ to.on = r.on /\ to.ref = r.ref
      /\ to.row = r.row /\ to.files = r.files
  BY DEF WithBox, RequestState
<1>2. to \in RequestState
  BY DEF WithBox, RequestState, Stages
<1>3. QED
  BY <1>1, <1>2

LEMMA FilesChange ==
  ASSUME NEW r \in RequestState, NEW at \in Stages, NEW files \in Files
  PROVE  LET to == WithFiles(r, at, files) IN
         /\ to \in RequestState /\ to.at = at /\ to.files = files
         /\ to.what = r.what /\ to.on = r.on /\ to.box = r.box /\ to.ref = r.ref /\ to.row = r.row
BY DEF WithFiles, RequestState, Stages

\* What Goes says of the requests.
LEMMA Gone ==
  ASSUME request \in [Requests -> RequestState], NEW q \in Requests, NEW to \in RequestState,
         Goes(q, to)
  PROVE  /\ request' \in [Requests -> RequestState]
         /\ request'[q] = to /\ \A p \in Requests : p # q => request'[p] = request[p]
BY DEF Goes

\* A choice is never taken back.
ChoicesStay ==
  \A p \in Requests : request[p].what = "snapshot" =>
    request'[p].what = "snapshot" /\ request'[p].ref = request[p].ref

LEMMA TwoStay ==
  ASSUME ChoicesStay, NEW ref, TwoChose(ref)
  PROVE  TwoChose(ref)'
BY DEF ChoicesStay, TwoChose, Chose

-----------------------------------------------------------------------------
(* Steps that change nothing but their request.                              *)

LEMMA OnlyRequest ==
  ASSUME IInv, NEW q \in Requests, NEW to \in RequestState, request[q].at # "done", Goes(q, to),
         UNCHANGED <<mapped, container, images, rows>>,
         astray \subseteq astray', astray' \subseteq Owners,
         Shape(to), to.at # "idle",
         to.box \in {None, request[q].box} \cup {mapped[t] : t \in Owners},
         to.at = "ran" => to.box = None,
         to.at \in {"rm", "removed"} => container[to.box].name = to.on,
         request[q].at = "ran" => request[q].box = None,
         request[q].what = "snapshot" => to.what = "snapshot" /\ to.ref = request[q].ref,
         to.at # "done" /\ to.what \in {"restore", "delete"} =>
           /\ to.row \in DOMAIN rows /\ rows[to.row].ref = to.ref
           /\ to.what = "restore" => rows[to.row].session = to.on,
         to.at = "committed" => to.files = Absent,
         to.at # "unimaged",
         to.at \in Changes /\ to.on \in Sessions \ astray' =>
           \A p \in Requests \ {q} :
             ~(request[p].on = to.on /\ request[p].at \in {"rm", "removed"}),
         to.at \in {"rm", "removed"} /\ to.on \in Sessions \ astray' =>
           /\ mapped[to.on] = to.box
           /\ to.at = "removed" => container[to.box].state = "gone"
           /\ \A p \in Requests \ {q} : ~(request[p].on = to.on /\ request[p].at \in Changes)
  PROVE  IInv'
<1>1. /\ TypeOK /\ request \in [Requests -> RequestState]
      /\ mapped \in [Owners -> Containers \cup {None}]
  BY DEF IInv, TypeOK
<1>2. /\ request' \in [Requests -> RequestState]
      /\ request'[q] = to /\ \A p \in Requests : p # q => request'[p] = request[p]
  BY <1>1, Gone
<1>3. ChoicesStay
  BY <1>2 DEF ChoicesStay
<1>4. \A ref : TwoChose(ref) => TwoChose(ref)'
  BY <1>3, TwoStay
<1>5. TypeOK'
  BY <1>1, <1>2 DEF TypeOK
<1>6. Shapes'
  BY <1>2 DEF IInv, Shapes, Shape
<1>7. Named' /\ MapNamed' /\ OneName'
  BY DEF IInv, Named, MapNamed, OneName
<1>8. Boxes'
  <2>1. ASSUME NEW p \in Requests
        PROVE  Boxed(p)'
    BY <1>2 DEF IInv, Boxes, Boxed, MapNamed
  <2>2. ASSUME NEW p \in Requests
        PROVE  Newly(p)'
    BY <1>1, <1>2 DEF IInv, Boxes, Newly
  <2>3. QED
    BY <2>1, <2>2 DEF Boxes
<1>9. Reached'
  <2>1. SUFFICES ASSUME NEW s \in Sessions \ astray'
                 PROVE  InMap(s)' /\ Alone(s)'
    BY DEF Reached
  <2>2. InMap(s) /\ Alone(s)
    BY DEF IInv, Reached
  <2>3. InMap(s)'
    <3>1. SUFFICES ASSUME NEW c \in Containers, container[c].state \in {"up", "created"}, container[c].name = s,
                          mapped[s] # c
                   PROVE  \E p \in Requests :
                            request'[p].at = "ran" /\ request'[p].on = s /\ request'[p].box = c
      BY DEF InMap
    <3>2. PICK p \in Requests : request[p].at = "ran" /\ request[p].on = s /\ request[p].box = c
      BY <2>2, <3>1 DEF InMap
    <3>3. p # q
      BY <3>2 DEF None, Containers
    <3>4. QED
      BY <1>2, <3>2, <3>3
  <2>4. Alone(s)'
    BY <1>2, <2>2 DEF Alone, Changes
  <2>5. QED
    BY <2>3, <2>4
<1>10. AboutRows'
  BY <1>2 DEF IInv, AboutRows, AboutRow
<1>11. Made'
  BY <1>2, <1>3 DEF IInv, Made, Chose, ChoicesStay
<1>12. RowsKept' /\ DeletedIsGone'
  BY <1>4 DEF IInv, RowsKept, ImageKept, DeletedIsGone, Shared
<1>13. RequestsKept'
  BY <1>2, <1>4 DEF IInv, RequestsKept, Kept, ImageKept
<1>14. QED
  BY <1>5, <1>6, <1>7, <1>8, <1>9, <1>10, <1>11, <1>12, <1>13 DEF IInv

\* The row that every command starts from.
LEMMA FreshIs ==
  /\ Fresh \in RequestState /\ Fresh.at = "idle" /\ Fresh.what = "none" /\ Fresh.on = ""
  /\ Fresh.box = None /\ Fresh.ref = "none" /\ Fresh.row = 0 /\ Fresh.files = Absent
BY DEF Fresh, RequestState, Owners, Files, None, Absent

LEMMA Sent ==
  ASSUME IInv, NEW q \in Requests, NEW s \in Owners, NEW what \in {"exec", "read"},
         Send(q, s, what), request[q].at \in {"idle", "copy"},
         UNCHANGED <<mapped, container, images, rows, astray>>
  PROVE  IInv'
<1>1. TypeOK /\ request[q].what \in {"none", "read"}
  BY DEF IInv, Shapes, Shape
<1>2. CASE \E c \in Found(s) :
             Goes(q, [Fresh EXCEPT !.at = "exec", !.on = s, !.what = what, !.box = c])
  <2>1. PICK c \in Found(s) :
          Goes(q, [Fresh EXCEPT !.at = "exec", !.on = s, !.what = what, !.box = c])
    BY <1>2
  <2>2. c \in {mapped[t] : t \in Owners} /\ c # None
    <3>1. CASE mapped[s] # None
      BY <3>1 DEF Found
    <3>2. CASE mapped[s] = None
      BY <3>2 DEF Found
    <3>3. QED
      BY <3>1, <3>2
  <2>3. c \in Containers \cup {None}
    BY <1>1, <2>2 DEF TypeOK
  <2> DEFINE new == [Fresh EXCEPT !.at = "exec", !.on = s, !.what = what, !.box = c]
  <2>4a. /\ new \in RequestState
         /\ new.at = "exec" /\ new.what = what /\ new.box = c
    BY <2>3, FreshIs DEF RequestState
  <2>4. PICK to \in RequestState :
          /\ to = new
          /\ to.at = "exec" /\ to.what = what /\ to.box = c
    BY <2>4a
  <2>5. Goes(q, to)
    BY <2>1, <2>4
  <2>6. QED
    BY <1>1, <2>2, <2>4, <2>5, OnlyRequest DEF Shape, TypeOK, Changes
<1>3. CASE /\ Found(s) = {}
           /\ Goes(q, [Fresh EXCEPT !.at = "run", !.on = s, !.what = what, !.files = "base"])
  <2>1. "base" \in Files
    BY DEF Files
  <2> DEFINE new == [Fresh EXCEPT !.at = "run", !.on = s, !.what = what, !.files = "base"]
  <2>2a. /\ new \in RequestState
         /\ new.at = "run" /\ new.what = what /\ new.box = None /\ new.on = s
    BY <2>1, FreshIs DEF RequestState
  <2>2. PICK to \in RequestState :
          /\ to = new
          /\ to.at = "run" /\ to.what = what /\ to.box = None /\ to.on = s
    BY <2>2a
  <2>3. Goes(q, to)
    BY <1>3, <2>2
  <2>4. mapped[s] = None
    BY <1>3 DEF Found
  <2>5. s \in Sessions \ astray =>
          \A p \in Requests \ {q} : ~(request[p].on = s /\ request[p].at \in {"rm", "removed"})
    BY <2>4 DEF IInv, Reached, Alone, Shapes, Shape
  <2>6. QED
    BY <1>1, <2>2, <2>3, <2>5, OnlyRequest DEF Shape, TypeOK
<1>4. QED
  BY <1>2, <1>3 DEF Send

LEMMA InvExecute ==
  ASSUME IInv, NEW q \in Requests, NEW s \in Owners, Execute(q, s)
  PROVE  IInv'
BY Sent DEF Execute, At

LEMMA InvCopied ==
  ASSUME IInv, NEW q \in Requests, Copied(q)
  PROVE  IInv'
BY Sent DEF Copied, At, Owners

LEMMA InvReadFile ==
  ASSUME IInv, NEW q \in Requests, ReadFile(q)
  PROVE  IInv'
<1>1. /\ TypeOK /\ request[q].at = "idle" /\ request[q].what = "none" /\ "" \in Owners
      /\ UNCHANGED <<mapped, container, images, rows, astray>>
  BY DEF IInv, Shapes, Shape, ReadFile, At, Owners
<1>2. CASE Send(q, "", "read")
  BY <1>1, <1>2, Sent
<1>3. CASE Goes(q, [Fresh EXCEPT !.at = "copy", !.what = "read"])
  <2> DEFINE new == [Fresh EXCEPT !.at = "copy", !.what = "read"]
  <2>1a. /\ new \in RequestState
         /\ new.at = "copy" /\ new.what = "read" /\ new.box = None
    BY FreshIs DEF RequestState
  <2>1. PICK to \in RequestState :
          /\ to = new
          /\ to.at = "copy" /\ to.what = "read" /\ to.box = None
    BY <2>1a
  <2>2. Goes(q, to)
    BY <1>3, <2>1
  <2>3. QED
    BY <1>1, <2>1, <2>2, OnlyRequest DEF Shape, TypeOK, Changes
<1>4. QED
  BY <1>2, <1>3 DEF ReadFile

\* The removal of the container of a session begins, or there is none.
LEMMA RemovalStarts ==
  ASSUME IInv, NEW q \in Requests, NEW state \in RequestState, request[q].at = "idle",
         StartRemoval(q, state), state.at = "idle", state.box = None,
         state.what \in {"reset", "cleanup", "restore"},
         state.what = "restore" =>
           /\ state.row \in DOMAIN rows /\ rows[state.row].ref = state.ref
           /\ rows[state.row].session = state.on,
         UNCHANGED <<mapped, container, images, rows>>
  PROVE  IInv'
<1>1. /\ TypeOK /\ request[q].what = "none" /\ state.on \in Owners
      /\ mapped[state.on] \in Containers \cup {None}
  BY DEF IInv, Shapes, Shape, TypeOK, RequestState
<1>2. CASE mapped[state.on] = None
  <2>1. PICK at \in Stages : at = IF state.what = "cleanup" THEN "done" ELSE "run"
    BY DEF Stages
  <2>2. PICK to \in RequestState :
          /\ to = WithStage(state, at)
          /\ to.at = at /\ to.what = state.what /\ to.on = state.on /\ to.box = None
          /\ to.ref = state.ref /\ to.row = state.row
    BY StageChanges
  <2>3. Goes(q, to) /\ UNCHANGED astray
    BY <1>2, <2>1, <2>2 DEF StartRemoval, AfterRemoval, WithStage
  <2>4. state.on \in Sessions \ astray =>
          \A p \in Requests \ {q} : ~(request[p].on = state.on /\ request[p].at \in {"rm", "removed"})
    BY <1>2 DEF IInv, Reached, Alone, Shapes, Shape
  <2>5. QED
    BY <1>1, <2>1, <2>2, <2>3, <2>4, OnlyRequest DEF Shape, TypeOK
<1>3. CASE mapped[state.on] # None
  <2>1. PICK c \in Containers : c = mapped[state.on]
    BY <1>1, <1>3
  <2>2. PICK to \in RequestState :
          /\ to = WithBox(state, "rm", c)
          /\ to.at = "rm" /\ to.box = c /\ to.what = state.what /\ to.on = state.on
          /\ to.ref = state.ref /\ to.row = state.row
    <3>1. "rm" \in Stages
      BY DEF Stages
    <3>2. QED
      BY <3>1, BoxChanges
  <2>3. Goes(q, to) /\ astray' = astray \cup {t \in {state.on} : Changing(state.on)}
    BY <1>3, <2>1, <2>2 DEF StartRemoval, WithBox, Changing
  <2>4. container[c].name = state.on
    BY <1>1, <1>3, <2>1 DEF IInv, MapNamed
  <2>5. state.on \in Sessions \ astray' =>
          \A p \in Requests \ {q} : ~(request[p].on = state.on /\ request[p].at \in Changes)
    BY <2>3 DEF Changing, UnderWay, Changes
  <2>6. astray \subseteq astray' /\ astray' \subseteq Owners
    BY <1>1, <2>3 DEF TypeOK
  <2>7. QED
    BY <1>1, <1>3, <2>1, <2>2, <2>3, <2>4, <2>5, <2>6, OnlyRequest DEF Shape, Changes
<1>4. QED
  BY <1>2, <1>3

LEMMA InvReplace ==
  ASSUME IInv, NEW q \in Requests, NEW s \in Owners, NEW what \in {"reset", "cleanup"},
         Replace(q, s, what)
  PROVE  IInv'
<1>1. "base" \in Files
  BY DEF Files
<1> DEFINE new == [Fresh EXCEPT !.what = what, !.on = s, !.files = "base"]
<1>2a. /\ new \in RequestState
       /\ new.at = "idle" /\ new.what = what /\ new.box = None
  BY <1>1, FreshIs DEF RequestState
<1>2. PICK state \in RequestState :
        /\ state = new
        /\ state.at = "idle" /\ state.what = what /\ state.box = None
  BY <1>2a
<1>3. StartRemoval(q, state)
  BY <1>2 DEF Replace
<1>4. QED
  BY <1>2, <1>3, RemovalStarts DEF Replace, At

LEMMA InvRestore ==
  ASSUME IInv, NEW q \in Requests, NEW i \in DOMAIN rows, Restore(q, i)
  PROVE  IInv'
<1>1. rows[i] \in Row /\ i \in Nat
  BY ElementOfSeq, LenProperties DEF IInv, TypeOK
<1>2. rows[i].session \in Owners /\ rows[i].ref \in References
  BY <1>1 DEF Row
<1> DEFINE new == [Fresh EXCEPT !.what = "restore", !.on = rows[i].session,
                                !.ref = rows[i].ref, !.row = i]
<1>3a. /\ new \in RequestState
       /\ new.at = "idle" /\ new.what = "restore" /\ new.box = None
       /\ new.on = rows[i].session /\ new.ref = rows[i].ref /\ new.row = i
  BY <1>1, <1>2, FreshIs DEF RequestState
<1>3. PICK state \in RequestState :
        /\ state = new
        /\ state.at = "idle" /\ state.what = "restore" /\ state.box = None
        /\ state.on = rows[i].session /\ state.ref = rows[i].ref /\ state.row = i
  BY <1>3a
<1>4. StartRemoval(q, state)
  BY <1>3 DEF Restore
<1>5. QED
  BY <1>3, <1>4, RemovalStarts DEF Restore, At

LEMMA InvSnapshot ==
  ASSUME IInv, NEW q \in Requests, NEW s \in Owners, NEW ref \in References, Snapshot(q, s, ref)
  PROVE  IInv'
<1>1. /\ TypeOK /\ request[q].at = "idle" /\ request[q].what = "none"
      /\ mapped[s] \in Containers /\ mapped[s] # None /\ astray \subseteq Owners
      /\ UNCHANGED <<mapped, container, images, rows, astray>>
  BY DEF IInv, Shapes, Shape, Snapshot, At, TypeOK
<1> DEFINE new == [Fresh EXCEPT !.at = "commit", !.what = "snapshot", !.on = s,
                                !.box = mapped[s], !.ref = ref]
<1>2a. /\ new \in RequestState
       /\ new.at = "commit" /\ new.what = "snapshot" /\ new.box = mapped[s] /\ new.files = Absent
       /\ new.ref = ref
  BY <1>1, FreshIs DEF RequestState
<1>2. PICK to \in RequestState :
        /\ to = new
        /\ to.at = "commit" /\ to.what = "snapshot" /\ to.box = mapped[s] /\ to.files = Absent
        /\ to.ref = ref
  BY <1>2a
<1>3. Goes(q, to)
  BY <1>2 DEF Snapshot
<1>4. QED
  <2>1. Shape(to)
    BY <1>1, <1>2 DEF Shape
  <2>2. to.box \in {mapped[t] : t \in Owners} /\ to.at \notin Changes
    BY <1>2 DEF Changes
  <2>3. QED
    BY <1>1, <1>2, <1>3, <2>1, <2>2, OnlyRequest

LEMMA InvDelete ==
  ASSUME IInv, NEW q \in Requests, NEW i \in DOMAIN rows, Delete(q, i)
  PROVE  IInv'
<1>1. /\ TypeOK /\ request[q].at = "idle" /\ request[q].what = "none"
      /\ rows[i] \in Row /\ i \in Nat
  BY ElementOfSeq, LenProperties DEF IInv, Shapes, Shape, Delete, At, TypeOK
<1>2. rows[i].ref \in References
  BY <1>1 DEF Row
<1> DEFINE new == [Fresh EXCEPT !.at = "unimage", !.what = "delete", !.ref = rows[i].ref, !.row = i]
<1>3a. /\ new \in RequestState
       /\ new.at = "unimage" /\ new.what = "delete" /\ new.box = None
       /\ new.ref = rows[i].ref /\ new.row = i
  BY <1>1, <1>2, FreshIs DEF RequestState
<1>3. PICK to \in RequestState :
        /\ to = new
        /\ to.at = "unimage" /\ to.what = "delete" /\ to.box = None
        /\ to.ref = rows[i].ref /\ to.row = i
  BY <1>3a
<1>4. Goes(q, to)
  BY <1>3 DEF Delete
<1>5. QED
  BY <1>1, <1>3, <1>4, OnlyRequest DEF Delete, Shape, TypeOK, Changes

-----------------------------------------------------------------------------
(* Steps that change more than their request.                                *)

\* As long as no container appears, changes its name or goes, and the map
\* stays, a step outside of creations and removals keeps what is known of them.
LEMMA BoxesKept ==
  ASSUME IInv, NEW q \in Requests, UNCHANGED <<mapped, astray>>,
         \A c \in Containers : /\ container'[c].state = container[c].state
                               /\ container'[c].name = container[c].name,
         \A p \in Requests \ {q} : request'[p] = request[p],
         request'[q].on = request[q].on, request'[q].box = request[q].box,
         request'[q].at \in {"done", "committed", "unimaged"}, request[q].at \notin Changes
  PROVE  Named' /\ MapNamed' /\ Boxes' /\ OneName' /\ Reached'
<1>1. /\ mapped \in [Owners -> Containers \cup {None}]
      /\ \A p \in Requests : request[p].box \in Containers \cup {None}
  BY DEF IInv, TypeOK, RequestState
<1>2. Named' /\ OneName'
  BY DEF IInv, Named, OneName
<1>3. MapNamed'
  BY <1>1 DEF IInv, MapNamed
<1>4. Boxes'
  <2>1. ASSUME NEW p \in Requests
        PROVE  Boxed(p)'
    BY <1>1 DEF IInv, Boxes, Boxed
  <2>2. ASSUME NEW p \in Requests
        PROVE  Newly(p)'
    BY <1>1 DEF IInv, Boxes, Newly
  <2>3. QED
    BY <2>1, <2>2 DEF Boxes
<1>5. Reached'
  <2>1. SUFFICES ASSUME NEW s \in Sessions \ astray
                 PROVE  InMap(s)' /\ Alone(s)'
    BY DEF Reached
  <2>2. InMap(s) /\ Alone(s)
    BY DEF IInv, Reached
  <2>3. InMap(s)'
    BY <2>2 DEF InMap, Changes
  <2>4. Alone(s)'
    <3>1. SUFFICES ASSUME NEW p \in Requests, request'[p].on = s, request'[p].at \in {"rm", "removed"}
                   PROVE  /\ mapped[s] = request'[p].box
                          /\ request'[p].at = "removed" =>
                                 container'[request'[p].box].state = "gone"
                          /\ \A o \in Requests \ {p} : ~(request'[o].on = s /\ request'[o].at \in Changes)
      BY DEF Alone
    <3>2. p # q /\ request'[p] = request[p]
      BY <3>1
    <3>3. request[p].box \in Containers
      BY <1>1, <3>1, <3>2 DEF IInv, Shapes, Shape
    <3>4. QED
      BY <2>2, <3>1, <3>2, <3>3 DEF Alone, Changes
  <2>5. QED
    BY <2>3, <2>4
<1>6. QED
  BY <1>2, <1>3, <1>4, <1>5

\* As long as the images stay and the rows change in their status only, what
\* is known of them stays.
LEMMA ImagesKept ==
  ASSUME IInv, NEW q \in Requests, UNCHANGED images, Kept(q)', DOMAIN rows' = DOMAIN rows,
         \A i \in DOMAIN rows :
           /\ rows'[i].session = rows[i].session /\ rows'[i].ref = rows[i].ref
           /\ rows'[i].files = rows[i].files
           /\ rows'[i].status = "deleted" =>
                rows[i].status = "deleted" \/ ImageKept(rows[i].ref, Absent),
         \A p \in Requests \ {q} :
           /\ request'[p] = request[p]
           /\ request[p].at = "ran" /\ request[p].box # None =>
                container'[request[p].box].files = container[request[p].box].files,
         request'[q].what = request[q].what, request'[q].on = request[q].on,
         request'[q].ref = request[q].ref, request'[q].row = request[q].row,
         request[q].at \notin {"idle", "done"}
  PROVE  AboutRows' /\ Made' /\ RowsKept' /\ RequestsKept' /\ DeletedIsGone'
<1>1. ChoicesStay
  BY DEF ChoicesStay
<1>2. \A ref : TwoChose(ref) => TwoChose(ref)'
  BY <1>1, TwoStay
<1>3. AboutRows'
  <2>1. ASSUME NEW p \in Requests
        PROVE  AboutRow(p)'
    BY DEF IInv, AboutRows, AboutRow
  <2>2. QED
    BY <2>1 DEF AboutRows
<1>4. Made'
  BY <1>1 DEF IInv, Made, Chose, ChoicesStay
<1>5. RowsKept'
  BY <1>2 DEF IInv, RowsKept, ImageKept
<1>6. DeletedIsGone'
  BY <1>2 DEF IInv, DeletedIsGone, Shared, ImageKept
<1>7. RequestsKept'
  <2>1. ASSUME NEW p \in Requests \ {q}
        PROVE  Kept(p)'
    <3>1. Kept(p) /\ AboutRow(p)
      BY DEF IInv, RequestsKept, AboutRows
    <3>2. request'[p] = request[p]
      OBVIOUS
    <3>3. CASE request[p].at # "ran"
      BY <1>2, <3>1, <3>2, <3>3 DEF Kept, ImageKept
    <3>4. CASE request[p].at = "ran"
      BY <1>2, <3>1, <3>2, <3>4 DEF Kept, AboutRow
    <3>5. QED
      BY <3>3, <3>4
  <2>2. QED
    BY <2>1 DEF RequestsKept
<1>8. QED
  BY <1>3, <1>4, <1>5, <1>6, <1>7

LEMMA InvDockerExec ==
  ASSUME IInv, NEW q \in Requests, DockerExec(q)
  PROVE  IInv'
<1> DEFINE box == request[q].box
<1>1. /\ TypeOK /\ Shape(request[q]) /\ request[q] \in RequestState /\ request[q].at = "exec"
      /\ request \in [Requests -> RequestState]
  BY DEF IInv, Shapes, TypeOK, DockerExec, At
<1>2. box \in Containers
  BY <1>1 DEF Shape, RequestState
<1>3. "done" \in Stages
  BY DEF Stages
<1>4. PICK to \in RequestState :
        /\ to = WithStage(request[q], "done")
        /\ to.at = "done" /\ to.what = request[q].what /\ to.on = request[q].on /\ to.box = box
        /\ to.ref = request[q].ref /\ to.row = request[q].row
  BY <1>1, <1>3, StageChanges
<1>5. Goes(q, to)
  BY <1>4 DEF DockerExec, Ends, WithStage
<1>6. CASE UNCHANGED container
  BY <1>1, <1>4, <1>5, <1>6, OnlyRequest DEF DockerExec, Shape, TypeOK, Changes
<1>7. CASE container' = [container EXCEPT ![box].files = q]
  <2>1. /\ request' \in [Requests -> RequestState]
        /\ request'[q] = to /\ \A p \in Requests : p # q => request'[p] = request[p]
    BY <1>1, <1>5, Gone
  <2>2. container \in [Containers -> [state : {"none", "created", "up", "gone"},
                                      name : Owners \cup {"none"}, files : Files]]
    BY <1>1 DEF TypeOK
  <2>3. q \in Files
    BY DEF Files
  <2>4. /\ container' \in [Containers -> [state : {"none", "created", "up", "gone"},
                                          name : Owners \cup {"none"}, files : Files]]
        /\ \A c \in Containers : /\ container'[c].state = container[c].state
                                 /\ container'[c].name = container[c].name
        /\ \A c \in Containers \ {box} : container'[c] = container[c]
    BY <1>2, <1>7, <2>2, <2>3
  <2>5. TypeOK'
    BY <1>1, <2>1, <2>4 DEF TypeOK, DockerExec
  <2>6. Shapes'
    BY <1>1, <1>4, <2>1 DEF IInv, Shapes, Shape
  <2>7. Named' /\ MapNamed' /\ Boxes' /\ OneName' /\ Reached'
    BY <1>1, <1>4, <2>1, <2>4, BoxesKept DEF DockerExec, Changes
  <2>8. ASSUME NEW p \in Requests \ {q}, request[p].at = "ran", request[p].box # None
        PROVE  container'[request[p].box].files = container[request[p].box].files
    BY <1>1, <2>4, <2>8 DEF IInv, Boxes, Newly, RequestState
  <2>9. AboutRows' /\ Made' /\ RowsKept' /\ RequestsKept' /\ DeletedIsGone'
    <3>1. Kept(q)'
      BY <1>4, <2>1 DEF Kept
    <3>2. QED
      BY <1>1, <1>4, <2>1, <2>8, <3>1, ImagesKept DEF DockerExec
  <2>10. QED
    BY <2>5, <2>6, <2>7, <2>9 DEF IInv
<1>8. QED
  BY <1>6, <1>7 DEF DockerExec

LEMMA InvDockerRemove ==
  ASSUME IInv, NEW q \in Requests, DockerRemove(q)
  PROVE  IInv'
<1> DEFINE box == request[q].box
<1>1. /\ TypeOK /\ Shape(request[q]) /\ request[q] \in RequestState /\ request[q].at = "rm"
      /\ request \in [Requests -> RequestState]
      /\ UNCHANGED <<mapped, images, rows>>
  BY DEF IInv, Shapes, TypeOK, DockerRemove, At
<1>2. box \in Containers /\ request[q].on \in Owners
  BY <1>1 DEF Shape, RequestState
<1>3. "removed" \in Stages
  BY DEF Stages
<1>4. PICK to \in RequestState :
        /\ to = WithStage(request[q], "removed")
        /\ to.at = "removed" /\ to.what = request[q].what /\ to.on = request[q].on /\ to.box = box
        /\ to.ref = request[q].ref /\ to.row = request[q].row
  BY <1>1, <1>3, StageChanges
<1>5. Goes(q, to)
  BY <1>4 DEF DockerRemove, WithStage
<1>6. container[box].state # "none" /\ container[box].name = request[q].on
  BY <1>1, <1>2 DEF IInv, Boxes, Boxed, None, Containers
<1>7. AboutRow(q)
  BY DEF IInv, AboutRows
<1>8. CASE astray' = astray \cup {request[q].on} /\ UNCHANGED container
  <2>1. astray \subseteq astray' /\ astray' \subseteq Owners /\ to.on \notin Sessions \ astray'
    BY <1>1, <1>2, <1>4, <1>8 DEF TypeOK
  <2>2. QED
    BY <1>1, <1>2, <1>4, <1>5, <1>6, <1>7, <1>8, <2>1, OnlyRequest DEF Shape, AboutRow
<1>9. CASE container' = [container EXCEPT ![box].state = "gone"] /\ UNCHANGED astray
  <2>1. /\ request' \in [Requests -> RequestState]
        /\ request'[q] = to /\ \A p \in Requests : p # q => request'[p] = request[p]
    BY <1>1, <1>5, Gone
  <2>2. container \in [Containers -> [state : {"none", "created", "up", "gone"},
                                      name : Owners \cup {"none"}, files : Files]]
    BY <1>1 DEF TypeOK
  <2>3. /\ container' \in [Containers -> [state : {"none", "created", "up", "gone"},
                                          name : Owners \cup {"none"}, files : Files]]
        /\ container'[box].state = "gone"
        /\ \A c \in Containers : /\ container'[c].name = container[c].name
                                 /\ container'[c].files = container[c].files
                                 /\ c # box => container'[c].state = container[c].state
    BY <1>2, <1>9, <2>2
  <2>4. TypeOK'
    BY <1>1, <1>9, <2>1, <2>3 DEF TypeOK
  <2>5. Shapes'
    BY <1>1, <1>4, <2>1 DEF IInv, Shapes, Shape
  <2>6. mapped \in [Owners -> Containers \cup {None}]
    BY <1>1 DEF TypeOK
  <2>7. \A p \in Requests : request[p].box \in Containers \cup {None}
    BY <1>1 DEF RequestState
  <2>8. Named' /\ OneName'
    BY <1>6, <2>3 DEF IInv, Named, OneName
  <2>9. MapNamed'
    BY <1>1, <2>3, <2>6 DEF IInv, MapNamed
  <2>10. Boxes'
    <3>1. ASSUME NEW p \in Requests
          PROVE  Boxed(p)'
      BY <1>1, <1>4, <2>1, <2>3, <2>7 DEF IInv, Boxes, Boxed
    <3>2. ASSUME NEW p \in Requests
          PROVE  Newly(p)'
      BY <1>1, <1>4, <2>1, <2>3, <2>7 DEF IInv, Boxes, Newly
    <3>3. QED
      BY <3>1, <3>2 DEF Boxes
  <2>11. Reached'
    <3>1. SUFFICES ASSUME NEW s \in Sessions \ astray
                   PROVE  InMap(s)' /\ Alone(s)'
      BY <1>9 DEF Reached
    <3>2. InMap(s) /\ Alone(s)
      BY DEF IInv, Reached
    <3>3. InMap(s)'
      <4>1. SUFFICES ASSUME NEW c \in Containers, container'[c].state \in {"up", "created"},
                            container'[c].name = s
                     PROVE  (mapped[s] = c \/ \E p \in Requests : request[p].at = "ran"
                               /\ request[p].on = s /\ request[p].box = c)'
        BY DEF InMap
      <4>2. container[c].state \in {"up", "created"} /\ container[c].name = s
        BY <2>3, <4>1
      <4>3. CASE mapped[s] = c
        BY <1>1, <4>3
      <4>4. ASSUME NEW p \in Requests, request[p].at = "ran", request[p].on = s, request[p].box = c
            PROVE  p # q /\ request'[p] = request[p]
        BY <1>1, <2>1, <4>4
      <4>5. QED
        BY <3>2, <4>2, <4>3, <4>4 DEF InMap
    <3>4. Alone(s)'
      <4>1. SUFFICES ASSUME NEW p \in Requests, request'[p].on = s,
                            request'[p].at \in {"rm", "removed"}
                     PROVE  /\ mapped[s] = request'[p].box
                            /\ request'[p].at = "removed" =>
                                 container'[request'[p].box].state = "gone"
                            /\ \A o \in Requests \ {p} :
                                 ~(request'[o].on = s /\ request'[o].at \in Changes)
        BY <1>1 DEF Alone
      <4>2. CASE p = q
        BY <1>1, <1>4, <2>1, <2>3, <3>2, <4>1, <4>2 DEF Alone
      <4>3. CASE p # q
        <5>1. request'[p] = request[p] /\ request[p].box \in Containers
          BY <2>1, <2>7, <4>1, <4>3 DEF IInv, Shapes, Shape
        <5>2. request[q].on # s
          BY <1>1, <3>2, <4>1, <4>3, <5>1 DEF Alone, Changes
        <5>3. QED
          BY <1>4, <2>1, <2>3, <3>2, <4>1, <4>3, <5>1, <5>2 DEF Alone
      <4>4. QED
        BY <4>2, <4>3
    <3>5. QED
      BY <3>3, <3>4
  <2>12. AboutRows' /\ Made' /\ RowsKept' /\ RequestsKept' /\ DeletedIsGone'
    <3>1. Kept(q)'
      BY <1>4, <2>1 DEF Kept
    <3>2. QED
      BY <1>1, <1>4, <2>1, <2>3, <2>7, <3>1, ImagesKept
  <2>13. QED
    BY <2>4, <2>5, <2>8, <2>9, <2>10, <2>11, <2>12 DEF IInv
<1>10. QED
  BY <1>8, <1>9 DEF DockerRemove

LEMMA InvRemoved ==
  ASSUME IInv, NEW q \in Requests, Removed(q)
  PROVE  IInv'
<1> DEFINE on == request[q].on
<1>1. /\ TypeOK /\ Shape(request[q]) /\ request[q] \in RequestState /\ request[q].at = "removed"
      /\ request \in [Requests -> RequestState]
      /\ UNCHANGED <<container, images, rows, astray>>
  BY DEF IInv, Shapes, TypeOK, Removed, At
<1>2. on \in Owners /\ mapped \in [Owners -> Containers \cup {None}]
  BY <1>1 DEF RequestState, TypeOK
<1>3. PICK at \in Stages : at = IF request[q].what = "cleanup" THEN "done" ELSE "run"
  BY DEF Stages
<1>4. PICK to \in RequestState :
        /\ to = WithStage(request[q], at)
        /\ to.at = at /\ to.what = request[q].what /\ to.on = on /\ to.box = request[q].box
        /\ to.ref = request[q].ref /\ to.row = request[q].row
  BY <1>1, StageChanges
<1>5. Goes(q, to)
  BY <1>3, <1>4 DEF Removed, AfterRemoval, WithStage
<1>6. /\ request' \in [Requests -> RequestState]
      /\ request'[q] = to /\ \A p \in Requests : p # q => request'[p] = request[p]
  BY <1>1, <1>5, Gone
<1>7. /\ mapped' \in [Owners -> Containers \cup {None}] /\ mapped'[on] = None
      /\ \A s \in Owners : s # on => mapped'[s] = mapped[s]
  BY <1>2 DEF Removed
<1>8. TypeOK'
  BY <1>1, <1>6, <1>7 DEF TypeOK
<1>9. Shapes'
  BY <1>1, <1>3, <1>4, <1>6 DEF IInv, Shapes, Shape
<1>10. Named' /\ OneName' /\ MapNamed'
  BY <1>1, <1>7 DEF IInv, Named, OneName, MapNamed
<1>11. Boxes'
  <2>1. ASSUME NEW p \in Requests
        PROVE  Boxed(p)'
    BY <1>1, <1>3, <1>4, <1>6 DEF IInv, Boxes, Boxed
  <2>2. ASSUME NEW p \in Requests
        PROVE  Newly(p)'
    <3>1. \A s \in Owners : mapped'[s] \in {mapped[s], None}
      BY <1>7
    <3>2. \A o \in Requests : request'[o].box = request[o].box
      BY <1>4, <1>6
    <3>3. request'[p].at = "ran" => request[p].at = "ran"
      BY <1>3, <1>4, <1>6
    <3>4. QED
      BY <1>1, <3>1, <3>2, <3>3 DEF IInv, Boxes, Newly
  <2>3. QED
    BY <2>1, <2>2 DEF Boxes
<1>12. Reached'
  <2>1. SUFFICES ASSUME NEW s \in Sessions \ astray
                 PROVE  InMap(s)' /\ Alone(s)'
    BY <1>1 DEF Reached
  <2>2. InMap(s) /\ Alone(s) /\ s \in Owners
    BY DEF IInv, Reached, Owners
  <2>3. CASE s = on
    <3>1. /\ mapped[s] = request[q].box /\ container[mapped[s]].state = "gone"
          /\ \A p \in Requests \ {q} : ~(request[p].on = s /\ request[p].at \in Changes)
      BY <1>1, <2>2, <2>3 DEF Alone
    <3>2. \A c \in Containers : ~(container[c].state \in {"up", "created"} /\ container[c].name = s)
      BY <1>1, <2>2, <3>1 DEF InMap, Changes
    <3>3. InMap(s)'
      BY <1>1, <3>2 DEF InMap
    <3>4. \A p \in Requests : ~(request'[p].on = s /\ request'[p].at \in {"rm", "removed"})
      BY <1>3, <1>4, <1>6, <3>1 DEF Changes
    <3>5. Alone(s)'
      BY <3>4 DEF Alone
    <3>6. QED
      BY <3>3, <3>5
  <2>4. CASE s # on
    <3>1. InMap(s)'
      BY <1>1, <1>6, <1>7, <2>2, <2>4 DEF InMap
    <3>2. Alone(s)'
      BY <1>1, <1>4, <1>6, <1>7, <2>2, <2>4 DEF Alone
    <3>3. QED
      BY <3>1, <3>2
  <2>5. QED
    BY <2>3, <2>4
<1>13. AboutRows' /\ Made' /\ RowsKept' /\ RequestsKept' /\ DeletedIsGone'
  <2>1. Kept(q)'
    BY <1>3, <1>4, <1>6 DEF Kept
  <2>2. QED
    BY <1>1, <1>4, <1>6, <2>1, ImagesKept
<1>14. QED
  BY <1>8, <1>9, <1>10, <1>11, <1>12, <1>13 DEF IInv

LEMMA InvDockerRun ==
  ASSUME IInv, NEW q \in Requests, DockerRun(q)
  PROVE  IInv'
<1> DEFINE s == request[q].on
           files == ImageOf(q)
<1>1. /\ TypeOK /\ Shape(request[q]) /\ request[q] \in RequestState /\ request[q].at = "run"
      /\ request \in [Requests -> RequestState]
      /\ UNCHANGED <<mapped, images, rows, astray>>
  BY DEF IInv, Shapes, TypeOK, DockerRun, At
<1>2. s \in Owners /\ "ran" \in Stages /\ None \in Containers \cup {None} /\ AboutRow(q)
  BY <1>1 DEF RequestState, Stages, IInv, AboutRows
<1>3. CASE Goes(q, [request[q] EXCEPT !.at = "ran", !.box = None]) /\ UNCHANGED container
  <2>1. PICK to \in RequestState :
          /\ to = WithBox(request[q], "ran", None)
          /\ to.at = "ran" /\ to.box = None /\ to.what = request[q].what /\ to.on = s
          /\ to.ref = request[q].ref /\ to.row = request[q].row
    BY <1>1, <1>2, BoxChanges
  <2>2. Goes(q, to)
    BY <1>3, <2>1 DEF WithBox
  <2>3. s \in Sessions \ astray =>
          \A p \in Requests \ {q} : ~(request[p].on = s /\ request[p].at \in {"rm", "removed"})
    BY <1>1 DEF IInv, Reached, Alone, Changes
  <2>4. QED
    BY <1>1, <1>2, <1>3, <2>1, <2>2, <2>3, OnlyRequest DEF Shape, AboutRow, TypeOK
<1>4. ASSUME NEW c \in Unused, NEW state \in {"up", "created"}, ~NameTaken(s), files # Absent,
             container' = [container EXCEPT ![c] = [state |-> state, name |-> s, files |-> files]],
             Goes(q, [request[q] EXCEPT !.at = "ran", !.box = c])
      PROVE  IInv'
  <2>1. c \in Containers /\ container[c].state = "none"
    BY DEF Unused
  <2>2. files \in Files
    <3>1. CASE request[q].what = "restore"
      <4>1. request[q].row \in DOMAIN rows /\ rows[request[q].row].ref = request[q].ref
        BY <1>1, <1>2, <3>1 DEF AboutRow
      <4>2. rows[request[q].row] \in Row
        BY <1>1, <4>1, ElementOfSeq, LenProperties DEF TypeOK
      <4>3. request[q].ref \in References
        BY <4>1, <4>2 DEF Row
      <4>4. QED
        BY <1>1, <3>1, <4>3 DEF ImageOf, TypeOK
    <3>2. CASE request[q].what # "restore"
      BY <3>2 DEF ImageOf, Files
    <3>3. QED
      BY <3>1, <3>2
  <2>3. PICK to \in RequestState :
          /\ to = WithBox(request[q], "ran", c)
          /\ to.at = "ran" /\ to.box = c /\ to.what = request[q].what /\ to.on = s
          /\ to.ref = request[q].ref /\ to.row = request[q].row
    BY <1>1, <1>2, <2>1, BoxChanges
  <2>4. Goes(q, to)
    BY <1>4, <2>3 DEF WithBox
  <2>5. /\ request' \in [Requests -> RequestState]
        /\ request'[q] = to /\ \A p \in Requests : p # q => request'[p] = request[p]
    BY <1>1, <2>4, Gone
  <2>6. container \in [Containers -> [state : {"none", "created", "up", "gone"},
                                      name : Owners \cup {"none"}, files : Files]]
    BY <1>1 DEF TypeOK
  <2> DEFINE made == [state |-> state, name |-> s, files |-> files]
  <2>7a. /\ made \in [state : {"none", "created", "up", "gone"}, name : Owners \cup {"none"}, files : Files]
         /\ made.state = state /\ made.name = s /\ made.files = files
    BY <1>2, <2>2
  <2>7. PICK new \in [state : {"none", "created", "up", "gone"}, name : Owners \cup {"none"}, files : Files] :
          new = made /\ new.state = state /\ new.name = s /\ new.files = files
    BY <2>7a
  <2>8. /\ container' \in [Containers -> [state : {"none", "created", "up", "gone"},
                                          name : Owners \cup {"none"}, files : Files]]
        /\ container'[c] = new
        /\ \A d \in Containers : d # c => container'[d] = container[d]
    BY <1>4, <2>1, <2>6, <2>7
  <2>9. /\ mapped \in [Owners -> Containers \cup {None}]
        /\ \A p \in Requests : request[p].box \in Containers \cup {None}
    BY <1>1 DEF RequestState, TypeOK
  <2>10. /\ \A t \in Owners : mapped[t] # c
         /\ \A p \in Requests : request[p].box # c
    BY <2>1 DEF IInv, MapNamed, Boxes, Boxed, None, Containers
  <2>11. TypeOK'
    BY <1>1, <2>5, <2>8 DEF TypeOK
  <2>12. Shapes'
    BY <1>1, <2>3, <2>5 DEF IInv, Shapes, Shape
  <2>13. Named'
    BY <1>2, <2>7, <2>8 DEF IInv, Named
  <2>14. MapNamed'
    BY <1>1, <2>8, <2>9, <2>10 DEF IInv, MapNamed
  <2>15. OneName'
    <3>1. SUFFICES ASSUME NEW t \in Sessions, NEW d \in Containers, NEW e \in Containers, d # e,
                          container'[d].state \in {"up", "created"}, container'[d].name = t,
                          container'[e].state \in {"up", "created"}, container'[e].name = t
                   PROVE  FALSE
      BY DEF OneName
    <3>2. t # ""
      BY SandboxAssumption
    <3>3. d = c \/ e = c
      BY <2>8, <3>1 DEF IInv, OneName
    <3>4. t = s
      BY <2>7, <2>8, <3>1, <3>3
    <3>5. PICK o \in Containers : o # c /\ container'[o].state \in {"up", "created"} /\ container'[o].name = s
      BY <3>1, <3>3, <3>4
    <3>6. container[o].state \in {"up", "created"} /\ container[o].name = s
      BY <2>8, <3>5
    <3>7. QED
      BY <1>4, <3>2, <3>4, <3>6 DEF NameTaken, There
  <2>16. Boxes'
    <3>1. ASSUME NEW p \in Requests
          PROVE  Boxed(p)'
      BY <1>1, <2>3, <2>5, <2>7, <2>8, <2>9, <2>10 DEF IInv, Boxes, Boxed
    <3>2. ASSUME NEW p \in Requests
          PROVE  Newly(p)'
      <4>1. CASE p = q
        BY <1>1, <2>3, <2>5, <2>7, <2>8, <2>10, <4>1 DEF Newly
      <4>2. CASE p # q
        <5>1. request'[p] = request[p] /\ request[p].box # c
          BY <2>5, <2>10, <4>2
        <5>2. \A o \in Requests \ {p} :
                request[o].box # request[p].box => request'[o].box # request[p].box
          BY <2>3, <2>5, <5>1
        <5>3. QED
          BY <1>1, <2>8, <2>9, <5>1, <5>2 DEF IInv, Boxes, Newly
      <4>3. QED
        BY <4>1, <4>2
    <3>3. QED
      BY <3>1, <3>2 DEF Boxes
  <2>17. Reached'
    <3>1. SUFFICES ASSUME NEW t \in Sessions \ astray
                   PROVE  InMap(t)' /\ Alone(t)'
      BY <1>1 DEF Reached
    <3>2. InMap(t) /\ Alone(t)
      BY DEF IInv, Reached
    <3>3. InMap(t)'
      <4>1. SUFFICES ASSUME NEW d \in Containers, container'[d].state \in {"up", "created"},
                            container'[d].name = t, mapped[t] # d
                     PROVE  \E p \in Requests : /\ request'[p].at = "ran" /\ request'[p].on = t
                                                /\ request'[p].box = d
        BY <1>1 DEF InMap
      <4>2. CASE d = c
        BY <2>3, <2>5, <2>7, <2>8, <4>1, <4>2
      <4>3. CASE d # c
        <5>1. PICK p \in Requests : request[p].at = "ran" /\ request[p].on = t /\ request[p].box = d
          BY <2>8, <3>2, <4>1, <4>3 DEF InMap
        <5>2. p # q
          BY <1>1, <5>1
        <5>3. QED
          BY <2>5, <5>1, <5>2
      <4>4. QED
        BY <4>2, <4>3
    <3>4. Alone(t)'
      <4>1. SUFFICES ASSUME NEW p \in Requests, request'[p].on = t,
                            request'[p].at \in {"rm", "removed"}
                     PROVE  /\ mapped[t] = request'[p].box
                            /\ request'[p].at = "removed" =>
                                 container'[request'[p].box].state = "gone"
                            /\ \A o \in Requests \ {p} :
                                 ~(request'[o].on = t /\ request'[o].at \in Changes)
        BY <1>1 DEF Alone
      <4>2. p # q /\ request'[p] = request[p] /\ request[p].box \in Containers \ {c}
        BY <2>3, <2>5, <2>9, <2>10, <4>1 DEF IInv, Shapes, Shape
      <4>3. request[q].on # t
        BY <1>1, <3>2, <4>1, <4>2 DEF Alone, Changes
      <4>4. QED
        BY <2>3, <2>5, <2>8, <3>2, <4>1, <4>2, <4>3 DEF Alone
    <3>5. QED
      BY <3>3, <3>4
  <2>18. AboutRows' /\ Made' /\ RowsKept' /\ RequestsKept' /\ DeletedIsGone'
    <3>1. \A ref : TwoChose(ref) => TwoChose(ref)'
      BY <2>3, <2>5, TwoStay DEF ChoicesStay
    <3>2. Kept(q)'
      <4>1. CASE request[q].what = "restore"
        <5>1. request[q].row \in DOMAIN rows /\ rows[request[q].row].ref = request[q].ref
          BY <1>1, <1>2, <4>1 DEF AboutRow
        <5>2. ImageKept(request[q].ref, rows[request[q].row].files)
          BY <5>1 DEF IInv, RowsKept
        <5>3. TwoChose(request[q].ref) \/ files = rows[request[q].row].files
          BY <1>4, <4>1, <5>2 DEF ImageKept, ImageOf
        <5>4. QED
          BY <1>1, <2>3, <2>5, <2>7, <2>8, <3>1, <5>3 DEF Kept
      <4>2. CASE request[q].what # "restore"
        BY <2>3, <2>5, <4>2 DEF Kept
      <4>3. QED
        BY <4>1, <4>2
    <3>3. QED
      BY <1>1, <2>3, <2>5, <2>8, <2>9, <2>10, <3>2, ImagesKept
  <2>19. QED
    BY <2>11, <2>12, <2>13, <2>14, <2>15, <2>16, <2>17, <2>18 DEF IInv
<1>5. QED
  BY <1>3, <1>4 DEF DockerRun

\* A row whose status changes.
LEMMA StatusChanges ==
  ASSUME NEW i \in DOMAIN rows, rows \in Seq(Row),
         NEW status \in {"available", "restored", "deleted"},
         rows' = [rows EXCEPT ![i].status = status]
  PROVE  /\ rows' \in Seq(Row) /\ DOMAIN rows' = DOMAIN rows
         /\ rows'[i].status = status
         /\ \A j \in DOMAIN rows :
              /\ rows'[j].session = rows[j].session /\ rows'[j].ref = rows[j].ref
              /\ rows'[j].files = rows[j].files
              /\ j # i => rows'[j] = rows[j]
<1>1. /\ Len(rows) \in Nat /\ DOMAIN rows = 1..Len(rows)
      /\ rows \in [1..Len(rows) -> Row]
  BY LenProperties, ElementOfSeq
<1>2. /\ rows' \in [1..Len(rows) -> Row] /\ rows'[i].status = status
      /\ \A j \in DOMAIN rows :
           /\ rows'[j].session = rows[j].session /\ rows'[j].ref = rows[j].ref
           /\ rows'[j].files = rows[j].files
           /\ j # i => rows'[j] = rows[j]
  BY <1>1 DEF Row
<1>3. rows' \in Seq(Row)
  BY <1>1, <1>2, SeqDef
<1>4. QED
  BY <1>1, <1>2, <1>3

LEMMA InvRan ==
  ASSUME IInv, NEW q \in Requests, Ran(q)
  PROVE  IInv'
<1> DEFINE s == request[q].on
           c == request[q].box
<1>1. /\ TypeOK /\ Shape(request[q]) /\ request[q] \in RequestState /\ request[q].at = "ran"
      /\ request \in [Requests -> RequestState] /\ rows \in Seq(Row)
      /\ UNCHANGED <<container, images, astray>>
  BY DEF IInv, Shapes, TypeOK, Ran, At
<1>2. s \in Owners /\ c \in Containers \cup {None} /\ AboutRow(q) /\ Newly(q) /\ Boxed(q)
  BY <1>1 DEF RequestState, IInv, AboutRows, Boxes
<1>3. PICK at \in Stages :
        at = IF c # None /\ request[q].what \in {"exec", "read"} THEN "exec" ELSE "done"
  BY DEF Stages
<1>4. PICK to \in RequestState :
        /\ to = WithStage(request[q], at)
        /\ to.at = at /\ to.what = request[q].what /\ to.on = s /\ to.box = c
        /\ to.ref = request[q].ref /\ to.row = request[q].row
  BY <1>1, StageChanges
<1>5. Goes(q, to)
  BY <1>3, <1>4 DEF Ran, Ends, WithStage
<1>6. CASE c = None
  <2>1. UNCHANGED <<mapped, rows>> /\ at = "done"
    BY <1>3, <1>6 DEF Ran
  <2>2. QED
    BY <1>1, <1>4, <1>5, <1>6, <2>1, OnlyRequest DEF Shape, TypeOK, Changes
<1>7. CASE c # None
  <2>1. /\ request' \in [Requests -> RequestState]
        /\ request'[q] = to /\ \A p \in Requests : p # q => request'[p] = request[p]
    BY <1>1, <1>5, Gone
  <2>2. /\ mapped \in [Owners -> Containers \cup {None}]
        /\ \A p \in Requests : request[p].box \in Containers \cup {None}
    BY <1>1 DEF TypeOK, RequestState
  <2>3. /\ mapped' \in [Owners -> Containers \cup {None}] /\ mapped'[s] = c
        /\ \A t \in Owners : t # s => mapped'[t] = mapped[t]
    BY <1>2, <1>7, <2>2 DEF Ran
  <2>4. /\ rows' \in Seq(Row) /\ DOMAIN rows' = DOMAIN rows
        /\ \A i \in DOMAIN rows :
             /\ rows'[i].session = rows[i].session /\ rows'[i].ref = rows[i].ref
             /\ rows'[i].files = rows[i].files
             /\ rows'[i].status = "deleted" => rows[i].status = "deleted"
    <3>1. CASE request[q].what = "restore"
      <4>1. request[q].row \in DOMAIN rows
        BY <1>1, <1>2, <3>1 DEF AboutRow
      <4>2. rows' = [rows EXCEPT ![request[q].row].status = "restored"]
        BY <1>7, <3>1 DEF Ran
      <4>3. QED
        BY <1>1, <4>1, <4>2, StatusChanges
    <3>2. CASE request[q].what # "restore"
      BY <1>1, <1>7, <3>2 DEF Ran
    <3>3. QED
      BY <3>1, <3>2
  <2>5. /\ c \in Containers /\ container[c].state \in {"up", "created"} /\ container[c].name = s
        /\ \A t \in Owners : mapped[t] # c
        /\ \A p \in Requests \ {q} : request[p].box # c
    BY <1>1, <1>2, <1>7 DEF Newly, Boxed
  <2>6. TypeOK'
    BY <1>1, <2>1, <2>3, <2>4 DEF TypeOK
  <2>7. Shapes'
    BY <1>1, <1>3, <1>4, <1>7, <2>1 DEF IInv, Shapes, Shape
  <2>8. Named' /\ OneName'
    BY <1>1 DEF IInv, Named, OneName
  <2>9. MapNamed'
    BY <1>1, <2>3, <2>5 DEF IInv, MapNamed
  <2>10. Boxes'
    <3>1. ASSUME NEW p \in Requests
          PROVE  Boxed(p)'
      BY <1>1, <1>3, <1>4, <2>1 DEF IInv, Boxes, Boxed
    <3>2. ASSUME NEW p \in Requests
          PROVE  Newly(p)'
      <4>1. CASE p = q
        BY <1>3, <1>4, <2>1, <4>1 DEF Newly
      <4>2. CASE p # q
        <5>1. request'[p] = request[p] /\ \A o \in Requests : request'[o].box = request[o].box
          BY <1>4, <2>1, <4>2
        <5>2. \A t \in Owners : mapped'[t] \in {mapped[t], c}
          BY <2>3
        <5>3. request[p].box # c
          BY <2>5, <4>2
        <5>4. QED
          BY <1>1, <5>1, <5>2, <5>3 DEF IInv, Boxes, Newly
      <4>3. QED
        BY <4>1, <4>2
    <3>3. QED
      BY <3>1, <3>2 DEF Boxes
  <2>11. Reached'
    <3>1. SUFFICES ASSUME NEW t \in Sessions \ astray
                   PROVE  InMap(t)' /\ Alone(t)'
      BY <1>1 DEF Reached
    <3>2. InMap(t) /\ Alone(t) /\ t \in Owners
      BY DEF IInv, Reached, Owners
    <3>3. InMap(t)'
      <4>1. SUFFICES ASSUME NEW d \in Containers, container[d].state \in {"up", "created"},
                            container[d].name = t, mapped'[t] # d
                     PROVE  \E p \in Requests : /\ request'[p].at = "ran" /\ request'[p].on = t
                                                /\ request'[p].box = d
        BY <1>1 DEF InMap
      <4>2. t # s
        BY <2>3, <2>5, <4>1 DEF IInv, OneName
      <4>3. PICK p \in Requests : request[p].at = "ran" /\ request[p].on = t /\ request[p].box = d
        BY <2>3, <3>2, <4>1, <4>2 DEF InMap
      <4>4. p # q
        BY <4>2, <4>3
      <4>5. QED
        BY <2>1, <4>3, <4>4
    <3>4. Alone(t)'
      <4>1. SUFFICES ASSUME NEW p \in Requests, request'[p].on = t,
                            request'[p].at \in {"rm", "removed"}
                     PROVE  /\ mapped'[t] = request'[p].box
                            /\ request'[p].at = "removed" => container[request'[p].box].state = "gone"
                            /\ \A o \in Requests \ {p} :
                                 ~(request'[o].on = t /\ request'[o].at \in Changes)
        BY <1>1 DEF Alone
      <4>2. p # q /\ request'[p] = request[p]
        BY <1>3, <1>4, <2>1, <4>1
      <4>3. s # t
        BY <1>1, <3>2, <4>1, <4>2 DEF Alone, Changes
      <4>4. QED
        BY <1>4, <2>1, <2>3, <3>2, <4>1, <4>2, <4>3 DEF Alone
    <3>5. QED
      BY <3>3, <3>4
  <2>12. AboutRows' /\ Made' /\ RowsKept' /\ RequestsKept' /\ DeletedIsGone'
    <3>1. Kept(q)'
      BY <1>3, <1>4, <2>1 DEF Kept
    <3>2. QED
      BY <1>1, <1>4, <2>1, <2>4, <3>1, ImagesKept
  <2>13. QED
    BY <2>6, <2>7, <2>8, <2>9, <2>10, <2>11, <2>12 DEF IInv
<1>8. QED
  BY <1>6, <1>7

LEMMA InvDockerCommit ==
  ASSUME IInv, NEW q \in Requests, DockerCommit(q)
  PROVE  IInv'
<1> DEFINE r == request[q]
           files == container[r.box].files
<1>1. /\ TypeOK /\ Shape(r) /\ r \in RequestState /\ r.at = "commit"
      /\ request \in [Requests -> RequestState] /\ images \in [References -> Files]
      /\ UNCHANGED <<mapped, container, rows, astray>>
  BY DEF IInv, Shapes, TypeOK, DockerCommit, At
<1>2. r.box \in Containers /\ files \in Files /\ "committed" \in Stages
  BY <1>1 DEF Shape, RequestState, TypeOK, Stages
<1>3. CASE Goes(q, [r EXCEPT !.at = "committed"]) /\ UNCHANGED images
  <2>1. PICK to \in RequestState :
          /\ to = WithStage(r, "committed")
          /\ to.at = "committed" /\ to.what = r.what /\ to.on = r.on /\ to.box = r.box
          /\ to.ref = r.ref /\ to.row = r.row /\ to.files = r.files
    BY <1>1, <1>2, StageChanges
  <2>2. Goes(q, to)
    BY <1>3, <2>1 DEF WithStage
  <2>3. QED
    BY <1>1, <1>2, <1>3, <2>1, <2>2, OnlyRequest DEF Shape, TypeOK, Changes
<1>4. CASE /\ images' = [images EXCEPT ![r.ref] = files]
           /\ Goes(q, [r EXCEPT !.at = "committed", !.files = files])
  <2>1. PICK to \in RequestState :
          /\ to = WithFiles(r, "committed", files)
          /\ to.at = "committed" /\ to.files = files /\ to.what = r.what /\ to.on = r.on
          /\ to.box = r.box /\ to.ref = r.ref /\ to.row = r.row
    BY <1>1, <1>2, FilesChange
  <2>2. Goes(q, to)
    BY <1>4, <2>1 DEF WithFiles
  <2>3. /\ request' \in [Requests -> RequestState]
        /\ request'[q] = to /\ \A p \in Requests : p # q => request'[p] = request[p]
    BY <1>1, <2>2, Gone
  <2>4. /\ images' \in [References -> Files]
        /\ r.ref \in References => images'[r.ref] = files
        /\ \A ref \in References : ref # r.ref => images'[ref] = images[ref]
    BY <1>1, <1>2, <1>4
  <2>5. \A ref : TwoChose(ref) => TwoChose(ref)'
    BY <2>1, <2>3, TwoStay DEF ChoicesStay
  <2>6. r.what = "snapshot"
    BY <1>1 DEF Shape
  <2>7. \A i \in DOMAIN rows : rows[i].ref \in References
    <3>1. \A i \in DOMAIN rows : rows[i] \in Row
      BY <1>1, ElementOfSeq, LenProperties DEF TypeOK
    <3>2. QED
      BY <3>1 DEF Row
  <2>8. \A i \in DOMAIN rows : rows[i].ref = r.ref => TwoChose(rows[i].ref)
    BY <1>1, <2>6 DEF IInv, Made, TwoChose, Chose
  <2>9. TypeOK'
    BY <1>1, <2>3, <2>4 DEF TypeOK
  <2>10. Shapes'
    BY <1>1, <2>1, <2>3 DEF IInv, Shapes, Shape
  <2>11. Named' /\ MapNamed' /\ Boxes' /\ OneName' /\ Reached'
    BY <1>1, <2>1, <2>3, BoxesKept DEF Changes
  <2>12. AboutRows'
    BY <1>1, <2>1, <2>3, <2>6 DEF IInv, AboutRows, AboutRow
  <2>13. Made'
    BY <1>1, <2>3 DEF IInv, Made, Chose
  <2>14. RowsKept'
    BY <1>1, <2>4, <2>5, <2>7, <2>8 DEF IInv, RowsKept, ImageKept
  <2>15. RequestsKept'
    <3>1. ASSUME NEW p \in Requests
          PROVE  Kept(p)'
      <4>1. CASE p = q
        BY <1>1, <2>1, <2>3, <2>4, <2>6, <4>1 DEF Kept, ImageKept, Shape
      <4>2. CASE p # q
        <5>1. Kept(p) /\ AboutRow(p) /\ Shape(request[p]) /\ request'[p] = request[p]
          BY <2>3, <4>2 DEF IInv, RequestsKept, AboutRows, Shapes
        <5>2. request[p].at = "committed" =>
                request[p].ref \in References /\ (request[p].ref = r.ref => TwoChose(r.ref))
          BY <2>6, <4>2, <5>1 DEF Shape, TwoChose, Chose
        <5>3. request[p].at = "unimaged" =>
                request[p].ref \in References /\ (request[p].ref = r.ref => TwoChose(r.ref))
          BY <2>7, <2>8, <5>1 DEF AboutRow, Shape
        <5>4. CASE request[p].at \in {"committed", "unimaged"}
          BY <2>4, <2>5, <5>1, <5>2, <5>3, <5>4 DEF Kept, ImageKept
        <5>5. CASE request[p].at \notin {"committed", "unimaged"}
          BY <1>1, <2>5, <5>1, <5>5 DEF Kept
        <5>6. QED
          BY <5>4, <5>5
      <4>3. QED
        BY <4>1, <4>2
    <3>2. QED
      BY <3>1 DEF RequestsKept
  <2>16. DeletedIsGone'
    BY <1>1, <2>4, <2>5, <2>7, <2>8 DEF IInv, DeletedIsGone, Shared
  <2>17. QED
    BY <2>9, <2>10, <2>11, <2>12, <2>13, <2>14, <2>15, <2>16 DEF IInv
<1>5. QED
  BY <1>3, <1>4 DEF DockerCommit

LEMMA InvCommitted ==
  ASSUME IInv, NEW q \in Requests, Committed(q)
  PROVE  IInv'
<1> DEFINE r == request[q]
           row == [session |-> r.on, ref |-> r.ref, files |-> r.files, status |-> "available"]
<1>1. /\ TypeOK /\ Shape(r) /\ r \in RequestState /\ r.at = "committed" /\ r.what = "snapshot"
      /\ request \in [Requests -> RequestState] /\ rows \in Seq(Row)
      /\ UNCHANGED <<mapped, container, images, astray>> /\ "done" \in Stages
  BY DEF IInv, Shapes, Shape, TypeOK, Committed, At, Stages
<1>2. PICK to \in RequestState :
        /\ to = WithStage(r, "done")
        /\ to.at = "done" /\ to.what = r.what /\ to.on = r.on /\ to.box = r.box
        /\ to.ref = r.ref /\ to.row = r.row /\ to.files = r.files
  BY <1>1, StageChanges
<1>3. Goes(q, to)
  BY <1>2 DEF Committed, Ends, WithStage
<1>4. CASE UNCHANGED rows
  BY <1>1, <1>2, <1>3, <1>4, OnlyRequest DEF Shape, TypeOK, Changes
<1>5. CASE r.files # Absent /\ rows' = Append(rows, row)
  <2>1. /\ request' \in [Requests -> RequestState]
        /\ request'[q] = to /\ \A p \in Requests : p # q => request'[p] = request[p]
    BY <1>1, <1>3, Gone
  <2>2. /\ row \in Row /\ row.session = r.on /\ row.ref = r.ref /\ row.files = r.files
        /\ row.status = "available"
    BY <1>1, <1>5 DEF RequestState, Row, Shape
  <2>3. PICK new \in Row :
          /\ new = row /\ new.ref = r.ref /\ new.files = r.files /\ new.status = "available"
    BY <2>2
  <2>4. /\ rows' \in Seq(Row) /\ Len(rows) \in Nat /\ Len(rows') = Len(rows) + 1
        /\ \A i \in 1..Len(rows) : rows'[i] = rows[i]
        /\ rows'[Len(rows) + 1] = new
    BY <1>1, <1>5, <2>3, AppendProperties
  <2>5. /\ \A i \in DOMAIN rows : i \in DOMAIN rows' /\ rows'[i] = rows[i]
        /\ \A i \in DOMAIN rows' : i \in DOMAIN rows \/ rows'[i] = new
    BY <1>1, <2>4, LenProperties
  <2>6. \A ref : TwoChose(ref) => TwoChose(ref)'
    BY <1>2, <2>1, TwoStay DEF ChoicesStay
  <2>7. TypeOK'
    BY <1>1, <2>1, <2>4 DEF TypeOK
  <2>8. Shapes'
    BY <1>1, <1>2, <2>1 DEF IInv, Shapes, Shape
  <2>9. Named' /\ MapNamed' /\ Boxes' /\ OneName' /\ Reached'
    BY <1>1, <1>2, <2>1, BoxesKept DEF Changes
  <2>10. AboutRows'
    BY <1>2, <2>1, <2>5 DEF IInv, AboutRows, AboutRow
  <2>11. Made'
    <3>1. request'[q].at = "done" /\ Chose(q, new.ref)'
      BY <1>1, <1>2, <2>1, <2>3 DEF Chose
    <3>2. ASSUME NEW i \in DOMAIN rows
          PROVE  \E p \in Requests : /\ request'[p].at = "done" /\ request'[p].what = "snapshot"
                                     /\ request'[p].ref = rows[i].ref
      BY <1>1, <2>1 DEF IInv, Made, Chose
    <3>3. QED
      BY <2>5, <3>1, <3>2 DEF Made, Chose
  <2>12. RowsKept'
    <3>1. ImageKept(new.ref, new.files)
      BY <1>1, <1>5, <2>3 DEF IInv, RequestsKept, Kept
    <3>2. QED
      BY <1>1, <2>5, <2>6, <3>1 DEF IInv, RowsKept, ImageKept
  <2>13. RequestsKept'
    <3>1. Kept(q)'
      BY <1>2, <2>1 DEF Kept
    <3>2. ASSUME NEW p \in Requests \ {q}
          PROVE  Kept(p)'
      <4>1. Kept(p) /\ AboutRow(p) /\ request'[p] = request[p]
        BY <2>1 DEF IInv, RequestsKept, AboutRows
      <4>2. CASE request[p].at # "ran"
        BY <1>1, <2>6, <4>1, <4>2 DEF Kept, ImageKept
      <4>3. CASE request[p].at = "ran"
        BY <1>1, <2>5, <2>6, <4>1, <4>3 DEF Kept, AboutRow
      <4>4. QED
        BY <4>2, <4>3
    <3>3. QED
      BY <3>1, <3>2 DEF RequestsKept
  <2>14. DeletedIsGone'
    BY <1>1, <2>3, <2>5, <2>6 DEF IInv, DeletedIsGone, Shared
  <2>15. QED
    BY <2>7, <2>8, <2>9, <2>10, <2>11, <2>12, <2>13, <2>14 DEF IInv
<1>6. QED
  BY <1>4, <1>5 DEF Committed

LEMMA InvDockerRemoveImage ==
  ASSUME IInv, NEW q \in Requests, DockerRemoveImage(q)
  PROVE  IInv'
<1> DEFINE r == request[q]
<1>1. /\ TypeOK /\ Shape(r) /\ r \in RequestState /\ r.at = "unimage" /\ r.what = "delete"
      /\ request \in [Requests -> RequestState] /\ images \in [References -> Files]
      /\ UNCHANGED <<mapped, container, rows, astray>>
  BY DEF IInv, Shapes, Shape, TypeOK, DockerRemoveImage, At
<1>2. "done" \in Stages /\ "unimaged" \in Stages /\ Absent \in Files
  BY DEF Stages, Absent, Files
<1>3. CASE Ends(q) /\ UNCHANGED images
  <2>1. PICK to \in RequestState :
          /\ to = WithStage(r, "done")
          /\ to.at = "done" /\ to.what = r.what /\ to.on = r.on /\ to.box = r.box
          /\ to.ref = r.ref /\ to.row = r.row /\ to.files = r.files
    BY <1>1, <1>2, StageChanges
  <2>2. Goes(q, to)
    BY <1>3, <2>1 DEF Ends, WithStage
  <2>3. QED
    BY <1>1, <1>3, <2>1, <2>2, OnlyRequest DEF Shape, TypeOK, Changes
<1>4. CASE /\ images' = [images EXCEPT ![r.ref] = Absent]
           /\ Goes(q, [r EXCEPT !.at = "unimaged"])
  <2>1. PICK to \in RequestState :
          /\ to = WithStage(r, "unimaged")
          /\ to.at = "unimaged" /\ to.what = r.what /\ to.on = r.on /\ to.box = r.box
          /\ to.ref = r.ref /\ to.row = r.row
    BY <1>1, <1>2, StageChanges
  <2>2. Goes(q, to)
    BY <1>4, <2>1 DEF WithStage
  <2>3. /\ request' \in [Requests -> RequestState]
        /\ request'[q] = to /\ \A p \in Requests : p # q => request'[p] = request[p]
    BY <1>1, <2>2, Gone
  <2>4. /\ images' \in [References -> Files]
        /\ \A ref \in References : images'[ref] = IF ref = r.ref THEN Absent ELSE images[ref]
    BY <1>1, <1>2, <1>4
  <2>5. \A ref : TwoChose(ref) => TwoChose(ref)'
    BY <2>1, <2>3, TwoStay DEF ChoicesStay
  <2>6. \A i \in DOMAIN rows : rows[i].ref \in References
    <3>1. \A i \in DOMAIN rows : rows[i] \in Row
      BY <1>1, ElementOfSeq, LenProperties DEF TypeOK
    <3>2. QED
      BY <3>1 DEF Row
  <2>7. TypeOK'
    BY <1>1, <2>3, <2>4 DEF TypeOK
  <2>8. Shapes'
    BY <1>1, <2>1, <2>3 DEF IInv, Shapes, Shape
  <2>9. Named' /\ MapNamed' /\ Boxes' /\ OneName' /\ Reached'
    BY <1>1, <2>1, <2>3, BoxesKept DEF Changes
  <2>10. AboutRows'
    BY <1>1, <2>1, <2>3 DEF IInv, AboutRows, AboutRow
  <2>11. Made'
    BY <1>1, <2>3 DEF IInv, Made, Chose
  <2>12. RowsKept'
    BY <1>1, <2>4, <2>5, <2>6 DEF IInv, RowsKept, ImageKept
  <2>13. RequestsKept'
    <3>1. Kept(q)'
      <4>1. r.ref \in References
        BY <1>1, <2>6 DEF IInv, AboutRows, AboutRow
      <4>2. QED
        BY <2>1, <2>3, <2>4, <4>1 DEF Kept, ImageKept
    <3>2. ASSUME NEW p \in Requests \ {q}
          PROVE  Kept(p)'
      <4>1. Kept(p) /\ AboutRow(p) /\ Shape(request[p]) /\ request'[p] = request[p]
        BY <2>3 DEF IInv, RequestsKept, AboutRows, Shapes
      <4>2. CASE request[p].at \in {"committed", "unimaged"}
        <5>1. request[p].ref \in References
          BY <2>6, <4>1, <4>2 DEF AboutRow, Shape
        <5>2. QED
          BY <2>4, <2>5, <4>1, <4>2, <5>1 DEF Kept, ImageKept
      <4>3. CASE request[p].at \notin {"committed", "unimaged"}
        BY <1>1, <2>5, <4>1, <4>3 DEF Kept
      <4>4. QED
        BY <4>2, <4>3
    <3>3. QED
      BY <3>1, <3>2 DEF RequestsKept
  <2>14. DeletedIsGone'
    BY <1>1, <2>4, <2>5, <2>6 DEF IInv, DeletedIsGone, Shared
  <2>15. QED
    BY <2>7, <2>8, <2>9, <2>10, <2>11, <2>12, <2>13, <2>14 DEF IInv
<1>5. QED
  BY <1>3, <1>4 DEF DockerRemoveImage

LEMMA InvUnimaged ==
  ASSUME IInv, NEW q \in Requests, Unimaged(q)
  PROVE  IInv'
<1> DEFINE r == request[q]
<1>1. /\ TypeOK /\ Shape(r) /\ r \in RequestState /\ r.at = "unimaged" /\ r.what = "delete"
      /\ request \in [Requests -> RequestState] /\ rows \in Seq(Row)
      /\ UNCHANGED <<mapped, container, images, astray>> /\ "done" \in Stages
  BY DEF IInv, Shapes, Shape, TypeOK, Unimaged, At, Stages
<1>2. PICK to \in RequestState :
        /\ to = WithStage(r, "done")
        /\ to.at = "done" /\ to.what = r.what /\ to.on = r.on /\ to.box = r.box
        /\ to.ref = r.ref /\ to.row = r.row /\ to.files = r.files
  BY <1>1, StageChanges
<1>3. Goes(q, to)
  BY <1>2 DEF Unimaged, Ends, WithStage
<1>4. /\ request' \in [Requests -> RequestState]
      /\ request'[q] = to /\ \A p \in Requests : p # q => request'[p] = request[p]
  BY <1>1, <1>3, Gone
<1>5. r.row \in DOMAIN rows /\ rows[r.row].ref = r.ref /\ ImageKept(r.ref, Absent)
  BY <1>1 DEF IInv, AboutRows, AboutRow, RequestsKept, Kept
<1>6. /\ rows' \in Seq(Row) /\ DOMAIN rows' = DOMAIN rows
      /\ \A j \in DOMAIN rows :
           /\ rows'[j].session = rows[j].session /\ rows'[j].ref = rows[j].ref
           /\ rows'[j].files = rows[j].files
           /\ j # r.row => rows'[j] = rows[j]
  BY <1>1, <1>5, StatusChanges DEF Unimaged
<1>7. TypeOK'
  BY <1>1, <1>4, <1>6 DEF TypeOK
<1>8. Shapes'
  BY <1>1, <1>2, <1>4 DEF IInv, Shapes, Shape
<1>9. Named' /\ MapNamed' /\ Boxes' /\ OneName' /\ Reached'
  BY <1>1, <1>2, <1>4, BoxesKept DEF Changes
<1>10. AboutRows' /\ Made' /\ RowsKept' /\ RequestsKept' /\ DeletedIsGone'
  <2>1. Kept(q)'
    BY <1>2, <1>4 DEF Kept
  <2>2. QED
    BY <1>1, <1>2, <1>4, <1>5, <1>6, <2>1, ImagesKept
<1>11. QED
  BY <1>7, <1>8, <1>9, <1>10 DEF IInv

LEMMA InvRestart ==
  ASSUME IInv, Restart
  PROVE  IInv'
<1>1. /\ TypeOK /\ request \in [Requests -> RequestState]
      /\ UNCHANGED <<container, images, rows>> /\ "done" \in Stages
  BY DEF IInv, TypeOK, Restart, Stages
<1>2. ASSUME NEW q \in Requests
      PROVE  /\ request'[q] \in RequestState
             /\ request'[q].at = IF request[q].at = "idle" THEN "idle" ELSE "done"
             /\ request'[q].what = request[q].what /\ request'[q].on = request[q].on
             /\ request'[q].box = request[q].box /\ request'[q].ref = request[q].ref
  <2>1. request[q] \in RequestState /\ WithStage(request[q], "done") \in RequestState
    BY <1>1, StageChanges
  <2>2. request'[q] = IF request[q].at \in {"idle", "done"} THEN request[q]
                      ELSE WithStage(request[q], "done")
    BY DEF Restart, UnderWay, WithStage
  <2>3. QED
    BY <1>1, <2>1, <2>2, StageChanges
<1>3. request' \in [Requests -> RequestState]
  BY <1>2 DEF Restart
<1>4. /\ mapped' \in [Owners -> Containers \cup {None}]
      /\ \A s \in Owners : mapped'[s] = None
  BY DEF Restart
<1>5. astray' \subseteq Owners
  BY DEF IInv, TypeOK, Named, Restart, There
<1>6. TypeOK'
  BY <1>1, <1>3, <1>4, <1>5 DEF TypeOK
<1>7. Shapes'
  BY <1>2 DEF IInv, Shapes, Shape
<1>8. Named' /\ OneName'
  BY <1>1 DEF IInv, Named, OneName
<1>9. MapNamed'
  BY <1>4 DEF MapNamed
<1>10. Boxes'
  BY <1>1, <1>2 DEF IInv, Boxes, Boxed, Newly
<1>11. Reached'
  <2>1. SUFFICES ASSUME NEW s \in Sessions \ astray'
                 PROVE  InMap(s)' /\ Alone(s)'
    BY DEF Reached
  <2>2. \A c \in Containers : ~(container[c].state \in {"up", "created"} /\ container[c].name = s)
    BY DEF Restart, There
  <2>3. InMap(s)'
    BY <1>1, <2>2 DEF InMap
  <2>4. Alone(s)'
    BY <1>2 DEF Alone
  <2>5. QED
    BY <2>3, <2>4
<1>12. \A ref : TwoChose(ref) => TwoChose(ref)'
  BY <1>2, TwoStay DEF ChoicesStay
<1>13. AboutRows' /\ RequestsKept'
  BY <1>2 DEF AboutRows, AboutRow, RequestsKept, Kept
<1>14. Made'
  BY <1>1, <1>2 DEF IInv, Made, Chose
<1>15. RowsKept' /\ DeletedIsGone'
  BY <1>1, <1>12 DEF IInv, RowsKept, ImageKept, DeletedIsGone, Shared
<1>16. QED
  BY <1>6, <1>7, <1>8, <1>9, <1>10, <1>11, <1>13, <1>14, <1>15 DEF IInv

-----------------------------------------------------------------------------
(* The theorems.                                                             *)

\* The invariant holds at the start, and every step keeps it.
LEMMA InvInit == Init => IInv
<1>1. SUFFICES ASSUME Init
               PROVE  IInv
  OBVIOUS
<1>2. DOMAIN rows = {} /\ rows \in Seq(Row)
  BY <1>1, EmptySeq, LenProperties DEF Init
<1> DEFINE free == [state |-> "none", name |-> "none", files |-> "base"]
<1>3. /\ free \in [state : {"none", "created", "up", "gone"}, name : Owners \cup {"none"}, files : Files]
      /\ free.state = "none"
  BY DEF Files
<1>4. /\ container \in [Containers -> [state : {"none", "created", "up", "gone"},
                                       name : Owners \cup {"none"}, files : Files]]
      /\ \A c \in Containers : container[c].state = "none"
  BY <1>1, <1>3 DEF Init
<1>5. /\ request \in [Requests -> RequestState]
      /\ \A q \in Requests : request[q] = Fresh
  BY <1>1, FreshIs DEF Init
<1>6. TypeOK
  BY <1>1, <1>2, <1>4, <1>5 DEF TypeOK, Init, Absent, Files
<1>7. Shapes /\ Boxes /\ AboutRows /\ RequestsKept
  BY <1>5, FreshIs DEF Shapes, Shape, Boxes, Boxed, Newly, AboutRows, AboutRow, RequestsKept, Kept
<1>8. Named /\ OneName
  BY <1>4 DEF Named, OneName
<1>9. MapNamed
  BY <1>1 DEF Init, MapNamed
<1>10. Reached
  BY <1>4, <1>5, FreshIs DEF Reached, InMap, Alone
<1>11. Made /\ RowsKept /\ DeletedIsGone
  BY <1>2 DEF Made, RowsKept, DeletedIsGone
<1>12. QED
  BY <1>6, <1>7, <1>8, <1>9, <1>10, <1>11 DEF IInv

LEMMA InvNext ==
  ASSUME IInv, [Next]_vars
  PROVE  IInv'
<1>1. CASE UNCHANGED vars
  <2>1. \A ref : TwoChose(ref)' <=> TwoChose(ref)
    BY <1>1 DEF vars, TwoChose, Chose
  <2>2. TypeOK' /\ Shapes' /\ Named' /\ MapNamed' /\ Boxes' /\ OneName' /\ Reached'
    BY <1>1 DEF IInv, vars, TypeOK, Shapes, Shape, Named, MapNamed, Boxes, Boxed, Newly, OneName,
                Reached, InMap, Alone
  <2>3. AboutRows' /\ Made' /\ RowsKept' /\ RequestsKept' /\ DeletedIsGone'
    BY <1>1, <2>1 DEF IInv, vars, AboutRows, AboutRow, Made, Chose, RowsKept, ImageKept,
                      RequestsKept, Kept, DeletedIsGone, Shared
  <2>4. QED
    BY <2>2, <2>3 DEF IInv
<1>2. CASE Restart
  BY <1>2, InvRestart
<1>3. ASSUME NEW q \in Requests, Asked(q)
      PROVE  IInv'
  <2>1. "" \in Owners
    BY DEF Owners
  <2>2. CASE ChangeFile(q)
    BY <2>1, <2>2, InvExecute DEF ChangeFile
  <2>3. CASE ReadFile(q)
    BY <2>3, InvReadFile
  <2>4. ASSUME NEW s \in Owners, Execute(q, s)
        PROVE  IInv'
    BY <2>4, InvExecute
  <2>5. ASSUME NEW s \in Owners, NEW ref \in References, Snapshot(q, s, ref)
        PROVE  IInv'
    BY <2>5, InvSnapshot
  <2>6. ASSUME NEW s \in Owners, NEW what \in {"reset", "cleanup"}, Replace(q, s, what)
        PROVE  IInv'
    BY <2>6, InvReplace
  <2>7. ASSUME NEW i \in DOMAIN rows, Restore(q, i) \/ Delete(q, i)
        PROVE  IInv'
    BY <2>7, InvRestore, InvDelete
  <2>8. QED
    BY <1>3, <2>2, <2>3, <2>4, <2>5, <2>6, <2>7 DEF Asked
<1>4. ASSUME NEW q \in Requests, Step(q)
      PROVE  IInv'
  BY <1>4, InvCopied, InvDockerExec, InvDockerRun, InvRan, InvDockerRemove, InvRemoved,
     InvDockerCommit, InvCommitted, InvDockerRemoveImage, InvUnimaged DEF Step
<1>5. QED
  BY <1>1, <1>2, <1>3, <1>4 DEF Next

\* What is known of the map, the containers, the images and the table at all
\* times, from which the other theorems follow.
THEOREM Invariance == Spec => []IInv
<1>1. Init => IInv
  BY InvInit
<1>2. IInv /\ [Next]_vars => IInv'
  BY InvNext
<1>3. QED
  BY <1>1, <1>2, PTL DEF Spec

\* The map, the daemon, the table and the requests are well-formed.
THEOREM TypeCorrect == Spec => []TypeOK
<1>1. IInv => TypeOK
  BY DEF IInv
<1>2. QED
  BY <1>1, Invariance, PTL

\* A snapshot that is marked as deleted has no image any more, unless two
\* creations chose its tag.
THEOREM DeletedAlwaysGone == Spec => []DeletedIsGone
<1>1. IInv => DeletedIsGone
  BY DEF IInv
<1>2. QED
  BY <1>1, Invariance, PTL

\* When nothing is under way on a session, the container of its name, running
\* or not, is the one of the map, unless the session is astray.
THEOREM AlwaysReachable == Spec => []SandboxReachable
<1>1. IInv => SandboxReachable
  BY DEF IInv, Reached, InMap, SandboxReachable, There, Quiet, UnderWay
<1>2. QED
  BY <1>1, Invariance, PTL

\* What RestoredIsSaved says of one step.
RestoresSaved ==
  \A i \in DOMAIN rows :
    LET c == mapped'[rows[i].session] IN
    rows'[i].status = "restored" /\ rows'[i] # rows[i] /\ ~Shared(i)
      => c # None /\ There(c) /\ container[c].files = rows[i].files

\* A snapshot is marked as restored when the container of its session is
\* there with the files that were saved, unless two creations chose its tag.
THEOREM RestoredAlwaysSaved == Spec => RestoredIsSaved
<1>1. ASSUME IInv, [Next]_vars
      PROVE  RestoresSaved \/ UNCHANGED vars
  <2>1. SUFFICES ASSUME NEW i \in DOMAIN rows, rows'[i].status = "restored", rows'[i] # rows[i],
                        ~Shared(i)
                 PROVE  /\ mapped'[rows[i].session] # None
                        /\ container[mapped'[rows[i].session]].state \in {"up", "created"}
                        /\ container[mapped'[rows[i].session]].files = rows[i].files
    BY DEF RestoresSaved, There
  <2>2. TypeOK /\ rows \in Seq(Row) /\ rows[i] \in Row /\ i \in 1..Len(rows)
    BY <1>1, ElementOfSeq, LenProperties DEF IInv, TypeOK
  <2>3. PICK q \in Requests : Ran(q) \/ Committed(q) \/ Unimaged(q)
    <3>1. rows' # rows
      BY <2>1
    <3>2. QED
      BY <1>1, <3>1 DEF Next, vars, Restart, Asked, Step, ChangeFile, ReadFile, Execute, Snapshot,
                        Replace, Restore, Delete, Copied, DockerExec, DockerRun, DockerRemove,
                        Removed, DockerCommit, DockerRemoveImage
  <2>4. CASE Ran(q)
    <3>1. /\ request[q].at = "ran" /\ request[q].box # None /\ request[q].what = "restore"
          /\ mapped' = [mapped EXCEPT ![request[q].on] = request[q].box]
          /\ rows' = [rows EXCEPT ![request[q].row].status = "restored"]
      BY <2>1, <2>4 DEF Ran, At
    <3>2. /\ request[q].row \in DOMAIN rows
          /\ rows[request[q].row].session = request[q].on /\ rows[request[q].row].ref = request[q].ref
      BY <1>1, <3>1 DEF IInv, AboutRows, AboutRow
    <3>3. i = request[q].row
      BY <2>1, <2>2, <3>1, <3>2, StatusChanges
    <3>4. container[request[q].box].state \in {"up", "created"}
      BY <1>1, <3>1 DEF IInv, Boxes, Newly
    <3>5. container[request[q].box].files = rows[i].files
      BY <1>1, <2>1, <3>1, <3>2, <3>3 DEF IInv, RequestsKept, Kept, Shared
    <3>6. mapped'[rows[i].session] = request[q].box
      BY <2>2, <3>1, <3>2, <3>3 DEF TypeOK, Row
    <3>7. QED
      BY <3>1, <3>4, <3>5, <3>6
  <2>5. CASE Committed(q)
    <3>1. rows'[i] = rows[i]
      BY <2>2, <2>5 DEF Committed
    <3>2. QED
      BY <2>1, <3>1
  <2>6. CASE Unimaged(q)
    <3>1. request[q].row \in DOMAIN rows
      BY <1>1, <2>6 DEF Unimaged, At, IInv, Shapes, Shape, AboutRows, AboutRow
    <3>2. rows' = [rows EXCEPT ![request[q].row].status = "deleted"]
      BY <2>6 DEF Unimaged
    <3>3. i = request[q].row
      BY <2>1, <2>2, <3>1, <3>2, StatusChanges
    <3>4. QED
      BY <2>1, <2>2, <3>1, <3>2, <3>3, StatusChanges
  <2>7. QED
    BY <2>3, <2>4, <2>5, <2>6
<1>2. QED
  BY <1>1, Invariance, PTL DEF Spec, RestoredIsSaved, RestoresSaved

=============================================================================
