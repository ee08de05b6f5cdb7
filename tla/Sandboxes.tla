------------------------------ MODULE Sandboxes ------------------------------
(***************************************************************************)
(* The Docker sandboxes of the sessions and their snapshots:               *)
(* sandbox/docker.py, sandbox/snapshots.py, sandbox/registry.py.           *)
(*                                                                         *)
(* Each docker command is a process that is awaited: what the daemon does  *)
(* and what the coroutine does with the answer are two steps, and other    *)
(* requests go on between them.  The daemon is external: a command fails   *)
(* when it must (the name is taken, the image is missing) or when the      *)
(* daemon does, which may be after it has created the container.           *)
(***************************************************************************)
EXTENDS Naturals, Sequences

CONSTANTS
  Sessions,       \* sessions that are named in the requests
  Requests,       \* tool calls and API requests, each made once
  Tags,           \* snapshot tags that clients choose; several may choose one
  Mode,           \* sandbox.mode: "never", "non-main" or "always"
  DefaultBackend, \* sandbox.default_backend: "local" or "docker"
  Faults,         \* may the daemon fail?  May the process be restarted?
  MaxContainers   \* bound on the containers ever created, for model checking

ASSUME SandboxAssumption ==
  /\ Mode \in {"never", "non-main", "always"}
  /\ DefaultBackend \in {"local", "docker"}
  /\ Faults \subseteq {"daemon", "restart"}
  /\ MaxContainers \in Nat /\ Sessions \cap {"", "none"} = {}

VARIABLES
  mapped,     \* DockerBackend._containers; None when the session has no entry
  container,  \* container[c]: what the daemon knows of container c
  images,     \* the snapshot images: what each reference stands for, or Absent
  rows,       \* the table sandbox_snapshots, in the order of insertion
  request,    \* request[q]: where request q is
  astray      \* history: the sessions whose container the map may have lost

vars == <<mapped, container, images, rows, request, astray>>

None == 0
Containers == 1..MaxContainers

\* BashTool gives no session: its containers belong to "".
Owners == Sessions \cup {""}

\* The reference of a snapshot: the tag of the client, or one of its own,
\* which is as good as the request's name.
References == Tags \cup Requests

\* The files of a container or an image, by the command that wrote last.
Files == Requests \cup {"base", "absent"}

Absent == "absent"

Fresh == [at |-> "idle", what |-> "none", on |-> "", box |-> None, ref |-> "none",
          row |-> 0, files |-> "absent"]

Init ==
  /\ mapped = [s \in Owners |-> None]
  /\ container = [c \in Containers |-> [state |-> "none", name |-> "none", files |-> "base"]]
  /\ images = [ref \in References |-> Absent]
  /\ rows = <<>>
  /\ request = [q \in Requests |-> Fresh]
  /\ astray = {}

\* A container that was created and not removed, whether it runs or not.
There(c) == container[c].state \in {"up", "created"}

At(q, at) == request[q].at = at

Goes(q, to) == request' = [request EXCEPT ![q] = to]

Ends(q) == Goes(q, [request[q] EXCEPT !.at = "done"])

UnderWay == {q \in Requests : request[q].at \notin {"idle", "done"}}

\* get_backend
Backend(main) ==
  IF Mode = "always" \/ (Mode = "non-main" /\ ~main) THEN DefaultBackend ELSE "local"

-----------------------------------------------------------------------------
(* Commands: DockerBackend.execute.                                          *)

\* The container of the session, or any one when the call names no session.
Found(s) ==
  IF mapped[s] # None THEN {mapped[s]}
  ELSE IF s = "" THEN {mapped[t] : t \in Owners} \ {None} ELSE {}

\* The command is sent to the container, or one is created for it.
Send(q, s, what) ==
  \/ \E c \in Found(s) : Goes(q, [Fresh EXCEPT !.at = "exec", !.on = s, !.what = what, !.box = c])
  \/ Found(s) = {} /\ Goes(q, [Fresh EXCEPT !.at = "run", !.on = s, !.what = what,
                                            !.files = "base"])

\* The tools take the backend of the main session.  On the local backend
\* nothing of this module is concerned.
Execute(q, s) ==
  /\ At(q, "idle") /\ Backend(s = "") = "docker"
  /\ Send(q, s, "exec")
  /\ UNCHANGED <<mapped, container, images, rows, astray>>

\* write, rename, delete, list_dir and makedirs of DockerFsBridge are commands
\* that name no session.
ChangeFile(q) == Execute(q, "")

\* stat and read look for any container first, and without one say that there
\* is no file; read then waits for a docker cp whose output it does not use.
ReadFile(q) ==
  /\ At(q, "idle") /\ Backend(TRUE) = "docker" /\ Found("") # {}
  /\ \/ Send(q, "", "read")
     \/ Goes(q, [Fresh EXCEPT !.at = "copy", !.what = "read"])
  /\ UNCHANGED <<mapped, container, images, rows, astray>>

\* The container of the command is looked for anew.
Copied(q) ==
  /\ At(q, "copy")
  /\ Send(q, "", "read")
  /\ UNCHANGED <<mapped, container, images, rows, astray>>

\* The command runs in the container it was sent to, if that is still there.
DockerExec(q) ==
  /\ At(q, "exec")
  /\ IF container[request[q].box].state = "up" /\ request[q].what # "read"
     THEN container' = [container EXCEPT ![request[q].box].files = q]
     ELSE UNCHANGED container
  /\ Ends(q)
  /\ UNCHANGED <<mapped, images, rows, astray>>

-----------------------------------------------------------------------------
(* Creation and removal of a session's container.                            *)

\* docker run --name: a name is taken as long as its container is there.
\* Without a session the name is random.
NameTaken(s) == s # "" /\ \E c \in Containers : There(c) /\ container[c].name = s

Unused == {c \in Containers : container[c].state = "none"}

\* "image" of docker run: the configured one, or that of a snapshot.
ImageOf(q) == IF request[q].what = "restore" THEN images[request[q].ref] ELSE "base"

\* docker run -d prints the id of the container once it is created, and then
\* starts it.  Nobody looks at the exit code: an id is taken for a success.
DockerRun(q) ==
  LET s == request[q].on IN
  /\ At(q, "run")
  /\ \/ /\ ~NameTaken(s) /\ ImageOf(q) # Absent
        /\ \E c \in Unused, state \in {"up"} \cup {n \in {"created"} : "daemon" \in Faults} :
             /\ \A d \in Unused : c <= d
             /\ container' = [container EXCEPT ![c] = [state |-> state, name |-> s,
                                                       files |-> ImageOf(q)]]
             /\ Goes(q, [request[q] EXCEPT !.at = "ran", !.box = c])
     \/ /\ NameTaken(s) \/ ImageOf(q) = Absent \/ "daemon" \in Faults
        /\ Goes(q, [request[q] EXCEPT !.at = "ran", !.box = None])
        /\ UNCHANGED container
  /\ UNCHANGED <<mapped, images, rows, astray>>

\* Mutant: the row is marked before the answer of docker run is looked at.
Ran_RowFirst(q) ==
  LET c == request[q].box  s == request[q].on IN
  /\ At(q, "ran")
  /\ IF c = None THEN UNCHANGED mapped ELSE mapped' = [mapped EXCEPT ![s] = c]
  /\ rows' = IF request[q].what = "restore"
             THEN [rows EXCEPT ![request[q].row].status = "restored"] ELSE rows
  /\ IF request[q].what \in {"exec", "read"} /\ c # None
     THEN Goes(q, [request[q] EXCEPT !.at = "exec"]) ELSE Ends(q)
  /\ UNCHANGED <<container, images, astray>>

\* Mutant: the container that restores a snapshot is not put into the map.
Ran_NotStored(q) ==
  LET c == request[q].box  s == request[q].on IN
  /\ At(q, "ran")
  /\ IF c = None
     THEN Ends(q) /\ UNCHANGED <<mapped, rows>>
     ELSE /\ mapped' = IF request[q].what = "restore" THEN mapped ELSE [mapped EXCEPT ![s] = c]
          /\ rows' = IF request[q].what = "restore"
                     THEN [rows EXCEPT ![request[q].row].status = "restored"] ELSE rows
          /\ IF request[q].what \in {"exec", "read"}
             THEN Goes(q, [request[q] EXCEPT !.at = "exec"]) ELSE Ends(q)
  /\ UNCHANGED <<container, images, astray>>

\* The end of _create_container, and what its caller goes on with: execute
\* sends the command, SnapshotManager.restore marks the row.  When docker run
\* printed nothing, execute answers with an error and restore raises.
Ran(q) ==
  LET c == request[q].box  s == request[q].on IN
  /\ At(q, "ran")
  /\ IF c = None
     THEN Ends(q) /\ UNCHANGED <<mapped, rows>>
     ELSE /\ mapped' = [mapped EXCEPT ![s] = c]
          /\ rows' = IF request[q].what = "restore"
                     THEN [rows EXCEPT ![request[q].row].status = "restored"] ELSE rows
          /\ IF request[q].what \in {"exec", "read"}
             THEN Goes(q, [request[q] EXCEPT !.at = "exec"]) ELSE Ends(q)
  /\ UNCHANGED <<container, images, astray>>

\* What follows _remove_container: restore_snapshot and hard_reset create a
\* new container, cleanup does not.
AfterRemoval(state) ==
  [state EXCEPT !.at = IF state.what = "cleanup" THEN "done" ELSE "run"]

\* The container of s is being created or removed by another request.
Changing(s) ==
  \E p \in UnderWay : request[p].on = s /\ request[p].at \in {"run", "ran", "rm", "removed"}

\* _remove_container looks the container up.
StartRemoval(q, state) ==
  LET s == state.on  c == mapped[s] IN
  IF c = None
  THEN Goes(q, AfterRemoval(state)) /\ UNCHANGED astray
  ELSE /\ Goes(q, [state EXCEPT !.at = "rm", !.box = c])
       /\ astray' = astray \cup {t \in {s} : Changing(s)}

\* hard_reset and cleanup
Replace(q, s, what) ==
  /\ At(q, "idle")
  /\ StartRemoval(q, [Fresh EXCEPT !.what = what, !.on = s, !.files = "base"])
  /\ UNCHANGED <<mapped, container, images, rows>>

\* docker rm -f; nobody looks at its exit code.
DockerRemove(q) ==
  /\ At(q, "rm")
  /\ \/ container' = [container EXCEPT ![request[q].box].state = "gone"] /\ UNCHANGED astray
     \/ /\ "daemon" \in Faults
        /\ astray' = astray \cup {request[q].on}
        /\ UNCHANGED container
  /\ Goes(q, [request[q] EXCEPT !.at = "removed"])
  /\ UNCHANGED <<mapped, images, rows>>

\* The entry is dropped, whatever it holds by now.
Removed(q) ==
  /\ At(q, "removed")
  /\ mapped' = [mapped EXCEPT ![request[q].on] = None]
  /\ Goes(q, AfterRemoval(request[q]))
  /\ UNCHANGED <<container, images, rows, astray>>

-----------------------------------------------------------------------------
(* Snapshots.                                                                *)

\* create: the container is committed under the tag asked for, or a new one.
\* Without a container it raises.
Snapshot(q, s, ref) ==
  /\ At(q, "idle") /\ Backend(FALSE) = "docker"
  /\ mapped[s] # None /\ ref \in Tags \cup {q}
  /\ Goes(q, [Fresh EXCEPT !.at = "commit", !.what = "snapshot", !.on = s,
                           !.box = mapped[s], !.ref = ref])
  /\ UNCHANGED <<mapped, container, images, rows, astray>>

\* docker commit does not need the container to run.
DockerCommit(q) ==
  LET c == container[request[q].box] IN
  /\ At(q, "commit")
  /\ \/ /\ There(request[q].box)
        /\ images' = [images EXCEPT ![request[q].ref] = c.files]
        /\ Goes(q, [request[q] EXCEPT !.at = "committed", !.files = c.files])
     \/ /\ ~There(request[q].box) \/ "daemon" \in Faults
        /\ Goes(q, [request[q] EXCEPT !.at = "committed"])
        /\ UNCHANGED images
  /\ UNCHANGED <<mapped, container, rows, astray>>

Committed(q) ==
  LET done == request[q] IN
  /\ At(q, "committed")
  /\ rows' = IF done.files = Absent THEN rows
             ELSE Append(rows, [session |-> done.on, ref |-> done.ref, files |-> done.files,
                                status |-> "available"])
  /\ Ends(q)
  /\ UNCHANGED <<mapped, container, images, astray>>

Restore(q, i) ==
  /\ At(q, "idle") /\ Backend(FALSE) = "docker"
  /\ rows[i].status # "deleted"
  /\ StartRemoval(q, [Fresh EXCEPT !.what = "restore", !.on = rows[i].session,
                                   !.ref = rows[i].ref, !.row = i])
  /\ UNCHANGED <<mapped, container, images, rows>>

\* Mutant: the row is marked before the image is removed.
Delete_RowFirst(q, i) ==
  /\ At(q, "idle") /\ Backend(FALSE) = "docker"
  /\ Goes(q, [Fresh EXCEPT !.at = "unimage", !.what = "delete", !.ref = rows[i].ref, !.row = i])
  /\ rows' = [rows EXCEPT ![i].status = "deleted"]
  /\ UNCHANGED <<mapped, container, images, astray>>

Delete(q, i) ==
  /\ At(q, "idle") /\ Backend(FALSE) = "docker"
  /\ Goes(q, [Fresh EXCEPT !.at = "unimage", !.what = "delete", !.ref = rows[i].ref, !.row = i])
  /\ UNCHANGED <<mapped, container, images, rows, astray>>

\* docker image rm -f, which does not mind an image that is gone already.
DockerRemoveImage(q) ==
  /\ At(q, "unimage")
  /\ \/ /\ images' = [images EXCEPT ![request[q].ref] = Absent]
        /\ Goes(q, [request[q] EXCEPT !.at = "unimaged"])
     \/ "daemon" \in Faults /\ Ends(q) /\ UNCHANGED images
  /\ UNCHANGED <<mapped, container, rows, astray>>

Unimaged(q) ==
  /\ At(q, "unimaged")
  /\ rows' = [rows EXCEPT ![request[q].row].status = "deleted"]
  /\ Ends(q)
  /\ UNCHANGED <<mapped, container, images, astray>>

\* The map is in memory, the containers are not: nothing finds them again.
Restart ==
  /\ "restart" \in Faults
  /\ mapped' = [s \in Owners |-> None]
  /\ request' = [q \in Requests |-> IF q \in UnderWay
                                    THEN [request[q] EXCEPT !.at = "done"] ELSE request[q]]
  /\ astray' = astray \cup {container[c].name : c \in {d \in Containers : There(d)}}
  /\ UNCHANGED <<container, images, rows>>

-----------------------------------------------------------------------------
Step(q) ==
  \/ Copied(q) \/ DockerExec(q) \/ DockerRun(q) \/ Ran(q) \/ DockerRemove(q) \/ Removed(q)
  \/ DockerCommit(q) \/ Committed(q) \/ DockerRemoveImage(q) \/ Unimaged(q)

Asked(q) ==
  \/ ChangeFile(q) \/ ReadFile(q)
  \/ \E s \in Owners : Execute(q, s) \/ \E ref \in References : Snapshot(q, s, ref)
  \/ \E s \in Owners, what \in {"reset", "cleanup"} : Replace(q, s, what)
  \/ \E i \in DOMAIN rows : Restore(q, i) \/ Delete(q, i)

Next == (\E q \in Requests : Asked(q) \/ Step(q)) \/ Restart

Spec == Init /\ [][Next]_vars

-----------------------------------------------------------------------------
(* Properties.                                                               *)

Row == [session : Owners, ref : References, files : Files \ {Absent},
        status : {"available", "restored", "deleted"}]

RequestState ==
  [at : {"idle", "copy", "exec", "run", "ran", "rm", "removed", "commit", "committed", "unimage",
         "unimaged", "done"},
   what : {"none", "exec", "read", "reset", "cleanup", "snapshot", "restore", "delete"},
   on : Owners, box : Containers \cup {None}, ref : References \cup {"none"}, row : Nat,
   files : Files]

\* The map, the daemon, the table and the requests are well-formed.
TypeOK ==
  /\ mapped \in [Owners -> Containers \cup {None}]
  /\ container \in [Containers -> [state : {"none", "created", "up", "gone"},
                                   name : Owners \cup {"none"}, files : Files]]
  /\ images \in [References -> Files]
  /\ rows \in Seq(Row)
  /\ request \in [Requests -> RequestState]
  /\ astray \subseteq Owners

\* Nothing is under way on the container of s.
Quiet(s) ==
  \A p \in UnderWay : request[p].on # s \/ request[p].at \in {"exec", "commit", "committed"}

\* The comment of _remove_container: it waits for the removal so that the
\* container of the same name can be created again.  When nothing is under
\* way on a session, its container is the one in the map: none is left behind
\* under its name, running or not, which would make every later docker run
\* fail.  Only a removal that the daemon refuses, one that overlaps a creation
\* or another removal, and a restart can lead elsewhere, or a request that is
\* cancelled while docker runs, which is not modelled.
SandboxReachable ==
  \A s \in Sessions \ astray : Quiet(s) =>
    \A c \in Containers : There(c) /\ container[c].name = s => mapped[s] = c

Chose(q, ref) == request[q].what = "snapshot" /\ request[q].ref = ref

\* Two creations have chosen the tag; docker gives it to the latest.
TwoChose(ref) == \E p, q \in Requests : p # q /\ Chose(p, ref) /\ Chose(q, ref)

Shared(i) == TwoChose(rows[i].ref)

\* A snapshot that is marked as restored has become the container of its
\* session: the one the map now holds is there and has the files that were
\* saved, whatever other commands, resets, restorations and deletions went on
\* meanwhile.  It may not run: a start that failed is not noticed.
RestoredIsSaved ==
  [][\A i \in DOMAIN rows :
       LET c == mapped'[rows[i].session] IN
       rows'[i].status = "restored" /\ rows'[i] # rows[i] /\ ~Shared(i)
         => c # None /\ There(c) /\ container[c].files = rows[i].files]_vars

\* A snapshot is marked as deleted only when its image is gone.
DeletedIsGone ==
  \A i \in DOMAIN rows : rows[i].status = "deleted" /\ ~Shared(i) => images[rows[i].ref] = Absent

=============================================================================
