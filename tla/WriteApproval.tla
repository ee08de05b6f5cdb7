---------------------------- MODULE WriteApproval ----------------------------
(***************************************************************************)
(* The write-approval store: api/approvals.py, class WriteApprovalStore.   *)
(*                                                                         *)
(* The table lives in the SQLite file that every API process of one        *)
(* installation opens.  A method of the store is synchronous, so inside    *)
(* one process it never interleaves with another; between two processes    *)
(* it interleaves at every SQL statement, because each statement is        *)
(* committed on its own.  An action below is one SQL statement together    *)
(* with the Python between it and the next one.                            *)
(***************************************************************************)
EXTENDS ApprovalTable

CONSTANTS
  Instances,     \* processes that have the database open
  MaxRecords     \* bound on the rows ever inserted

ASSUME MaxRecordsAssumption == MaxRecords \in Nat

VARIABLES
  records, \* the table
  call,    \* call[i]: the store method instance i is inside of
  grants   \* history: what authorize_or_request answered True for

storeVars == <<records, call, grants>>

(* The statement a method reaches next and what it holds in local          *)
(* variables.                                                              *)
Idle == [at |-> "idle"]

About(at, c) == [at |-> at, request |-> c.request, requester |-> c.requester]

Calls ==
  {Idle}
    \cup [at : {"consume", "answer"}, request : Requests, requester : Requesters,
          found : Nat]
    \cup [at : {"find_pending", "insert"}, request : Requests, requester : Requesters]

StoreInit ==
  /\ records = <<>>
  /\ call = [i \in Instances |-> Idle]
  /\ grants = <<>>

(* authorize_or_request, up to its first SELECT: is there an approved      *)
(* request that has not been used?                                         *)
AuthorizeOrRequest(i, request, requester) ==
  /\ call[i] = Idle
  /\ \/ /\ Reusable(records, request, "approved") = {}
        /\ call' = [call EXCEPT ![i] =
             [at |-> "find_pending", request |-> request, requester |-> requester]]
     \/ \E k \in DOMAIN records :
          /\ IsNewestReusable(records, request, "approved", k)
          /\ call' = [call EXCEPT ![i] =
               [at |-> "consume", request |-> request, requester |-> requester,
                found |-> k]]
  /\ UNCHANGED <<records, grants>>

(* create called on its own, by POST /approvals.                           *)
CreateRequest(i, request, requester) ==
  /\ call[i] = Idle
  /\ call' = [call EXCEPT ![i] =
       [at |-> "find_pending", request |-> request, requester |-> requester]]
  /\ UNCHANGED <<records, grants>>

(* The UPDATE of consume changed one row.                                  *)
Consume(i) ==
  /\ call[i].at = "consume"
  /\ Consumable(records, call[i].found)
  /\ records' = Consumed(records, call[i].found)
  /\ call' = [call EXCEPT ![i].at = "answer"]
  /\ UNCHANGED grants

(* authorize_or_request reads the record back and answers True.            *)
Answer(i) ==
  /\ call[i].at = "answer"
  /\ grants' = Append(grants, [approval |-> call[i].found,
                               request  |-> call[i].request])
  /\ call' = [call EXCEPT ![i] = Idle]
  /\ UNCHANGED records

(* Mutant: rowcount is not looked at.                                      *)
LoseConsume_Ignored(i) ==
  /\ call[i].at = "consume"
  /\ ~Consumable(records, call[i].found)
  /\ call' = [call EXCEPT ![i].at = "answer"]
  /\ UNCHANGED <<records, grants>>

(* The UPDATE of consume changed none, another process was faster: the     *)
(* caller goes on to create.                                               *)
LoseConsume(i) ==
  /\ call[i].at = "consume"
  /\ ~Consumable(records, call[i].found)
  /\ call' = [call EXCEPT ![i] = About("find_pending", call[i])]
  /\ UNCHANGED <<records, grants>>

(* create: the SELECT for a pending record of the same request, which is   *)
(* returned to the caller when there is one.                               *)
FindPending(i) ==
  /\ call[i].at = "find_pending"
  /\ call' = [call EXCEPT ![i] =
       IF Reusable(records, call[i].request, "pending") = {}
       THEN About("insert", call[i])
       ELSE Idle]
  /\ UNCHANGED <<records, grants>>

(* create: the INSERT of the new pending record.                           *)
InsertPending(i) ==
  /\ call[i].at = "insert"
  /\ Len(records) < MaxRecords
  /\ records' = WithPending(records, call[i].request, call[i].requester)
  /\ call' = [call EXCEPT ![i] = Idle]
  /\ UNCHANGED grants

(* decide: the conditional UPDATE.  A record that is no longer pending is  *)
(* left as it is, and so is an unknown one.                                *)
Decide(i, k, decision) ==
  /\ call[i] = Idle
  /\ Decidable(records, k)
  /\ records' = Decided(records, k, decision)
  /\ UNCHANGED <<call, grants>>

(* The process dies, or SQLite reports a locked database: the method is    *)
(* abandoned between two statements.  What was committed stays: abandoned  *)
(* before Answer, the approval is used up and nobody was authorized.       *)
Abandon(i) ==
  /\ call[i] # Idle
  /\ call' = [call EXCEPT ![i] = Idle]
  /\ UNCHANGED <<records, grants>>

StoreNext ==
  \E i \in Instances :
    \/ \E request \in Requests, requester \in Requesters :
         \/ AuthorizeOrRequest(i, request, requester)
         \/ CreateRequest(i, request, requester)
    \/ Consume(i)
    \/ Answer(i)
    \/ LoseConsume(i)
    \/ FindPending(i)
    \/ InsertPending(i)
    \/ \E k \in DOMAIN records, decision \in Decisions : Decide(i, k, decision)
    \/ Abandon(i)

StoreSpec == StoreInit /\ [][StoreNext]_storeVars

-----------------------------------------------------------------------------
(* Every variable has its type, and a method is about a row that exists.   *)
StoreTypeOK ==
  /\ records \in Seq(Row)
  /\ Len(records) <= MaxRecords
  /\ call \in [Instances -> Calls]
  /\ \A i \in Instances :
       call[i].at \in {"consume", "answer"} => call[i].found \in DOMAIN records
  /\ grants \in Seq([approval : Nat, request : Requests])

(* One approval is good for one execution: authorize_or_request never      *)
(* answers True twice on the strength of the same record, whatever         *)
(* processes race for it.  ("A request is consumed once after approval",   *)
(* docstring of WriteApprovalStore; consume, lines 183-190.)               *)
OneShot ==
  \A m, n \in DOMAIN grants :
    grants[m].approval = grants[n].approval => m = n

Granted(k) == \E n \in DOMAIN grants : grants[n].approval = k

(* A process between two statements of authorize_or_request holds an       *)
(* approved record of its own request.                                     *)
HoldsItsOwn(i) ==
  call[i].at \in {"consume", "answer"} =>
    /\ records[call[i].found].status = "approved"
    /\ records[call[i].found].request = call[i].request

(* After the UPDATE of consume it holds it alone: used up, answered to     *)
(* nobody and about to be answered to nobody else.                         *)
HoldsItAlone(i) ==
  call[i].at = "answer" =>
    /\ records[call[i].found].consumed
    /\ ~Granted(call[i].found)
    /\ \A j \in Instances :
         call[j].at = "answer" /\ call[j].found = call[i].found => j = i

(* The approval a process has in hand between the UPDATE of consume and    *)
(* its answer cannot be taken by another process, although nothing locks   *)
(* the table (authorize_or_request and consume, lines 157-190).            *)
HeldApproval == \A i \in Instances : HoldsItsOwn(i) /\ HoldsItAlone(i)

(* A caller is only ever authorized for the exact request a reviewer       *)
(* approved, never for another one, for a pending one or for a rejected    *)
(* one, and the record it rests on is used up (authorize_or_request,       *)
(* lines 157-181).                                                         *)
ExactRequest ==
  \A n \in DOMAIN grants :
    /\ grants[n].approval \in DOMAIN records
    /\ records[grants[n].approval].status = "approved"
    /\ records[grants[n].approval].consumed
    /\ records[grants[n].approval].request = grants[n].request

(* What a reviewer has decided, and what an execution has used up, is      *)
(* never taken back or changed (decide, lines 146-155).                    *)
DecisionsAreFinal ==
  [][\A k \in DOMAIN records :
       /\ k \in DOMAIN records'
       /\ records'[k].request = records[k].request
       /\ records[k].status # "pending" => records'[k].status = records[k].status
       /\ records[k].consumed => records'[k].consumed]_storeVars

-----------------------------------------------------------------------------
(* The store implements one-time permits: an approved record nobody was    *)
(* authorized for yet is an open permit, and the answers of                *)
(* authorize_or_request are the permits spent.                             *)
OpenPermits ==
  {[approval |-> k, request |-> records[k].request] :
     k \in {row \in DOMAIN records :
             records[row].status = "approved" /\ ~Granted(row)}}

Permits == INSTANCE OneTimePermits
             WITH Tokens <- 1..MaxRecords, open <- OpenPermits, log <- grants

(* Every step of the store issues a permit, spends one, or is invisible to *)
(* the holders of permits (WriteApprovalStore as a whole).                 *)
ImplementsPermits == Permits!Spec
=============================================================================
