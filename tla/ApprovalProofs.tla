---------------------------- MODULE ApprovalProofs ----------------------------
(***************************************************************************)
(* Proofs about approvals: the table and its statements (ApprovalTable),   *)
(* the store that several processes share (WriteApproval), and the tool    *)
(* calls of a session that rest on it (ToolGate); for any number of        *)
(* processes, runs, reviewers, requests and tools, any configuration of    *)
(* the policies and any bounds.                                            *)
(*                                                                         *)
(* The log of a session only grows and the table only changes as its       *)
(* statements say, so what an entry of the log rests on stays what it was: *)
(* each entry brings its evidence (EntryJustified), the rows keep theirs   *)
(* (RowsKept).                                                             *)
(***************************************************************************)
EXTENDS WriteApproval, ToolGate, SequenceTheorems, TLAPS

-----------------------------------------------------------------------------
(* The table.                                                              *)

(* Replacing one row gives a table of the same length, the other rows      *)
(* untouched.                                                              *)
LEMMA ReplaceRow ==
  ASSUME NEW table \in Seq(Row), NEW k \in DOMAIN table, NEW row \in Row
  PROVE  /\ [table EXCEPT ![k] = row] \in Seq(Row)
         /\ Len([table EXCEPT ![k] = row]) = Len(table)
         /\ DOMAIN [table EXCEPT ![k] = row] = DOMAIN table
         /\ [table EXCEPT ![k] = row][k] = row
         /\ \A j \in DOMAIN table : j # k => [table EXCEPT ![k] = row][j] = table[j]
<1>1. k \in 1..Len(table)
  BY LenProperties
<1> HIDE DEF Row
<1>2. QED
  BY <1>1, ExceptSeq

(* The UPDATE of consume touches the consumed mark of one row.             *)
LEMMA ConsumedRow ==
  ASSUME NEW table \in Seq(Row), NEW k \in DOMAIN table
  PROVE  /\ Consumed(table, k) \in Seq(Row)
         /\ Len(Consumed(table, k)) = Len(table)
         /\ DOMAIN Consumed(table, k) = DOMAIN table
         /\ Consumed(table, k)[k].consumed
         /\ \A j \in DOMAIN table :
              /\ Consumed(table, k)[j].request = table[j].request
              /\ Consumed(table, k)[j].requester = table[j].requester
              /\ j # k => Consumed(table, k)[j] = table[j]
              /\ Consumed(table, k)[j].status = table[j].status
              /\ table[j].consumed => Consumed(table, k)[j].consumed
<1> DEFINE row == [table[k] EXCEPT !.consumed = TRUE]
<1>1. table[k] \in Row
  BY ElementOfSeq, LenProperties
<1>2. /\ row \in Row /\ row.request = table[k].request
      /\ row.requester = table[k].requester
      /\ row.status = table[k].status /\ row.consumed
  BY <1>1 DEF Row
<1>3. Consumed(table, k) = [table EXCEPT ![k] = row]
  BY DEF Consumed
<1> HIDE DEF row
<1>4. QED
  BY <1>2, <1>3, ReplaceRow

(* The UPDATE of decide touches the status of one row.                     *)
LEMMA DecidedRow ==
  ASSUME NEW table \in Seq(Row), NEW k \in DOMAIN table, NEW decision \in Decisions
  PROVE  /\ Decided(table, k, decision) \in Seq(Row)
         /\ Len(Decided(table, k, decision)) = Len(table)
         /\ DOMAIN Decided(table, k, decision) = DOMAIN table
         /\ Decided(table, k, decision)[k].status = decision
         /\ \A j \in DOMAIN table :
              /\ Decided(table, k, decision)[j].request = table[j].request
              /\ Decided(table, k, decision)[j].requester = table[j].requester
              /\ j # k => Decided(table, k, decision)[j] = table[j]
              /\ Decided(table, k, decision)[j].consumed = table[j].consumed
<1> DEFINE row == [table[k] EXCEPT !.status = decision]
<1>1. table[k] \in Row
  BY ElementOfSeq, LenProperties
<1>2. /\ row \in Row /\ row.request = table[k].request
      /\ row.requester = table[k].requester
      /\ row.status = decision /\ row.consumed = table[k].consumed
  BY <1>1 DEF Row
<1>3. Decided(table, k, decision) = [table EXCEPT ![k] = row]
  BY DEF Decided
<1> HIDE DEF row
<1>4. QED
  BY <1>2, <1>3, ReplaceRow

(* The INSERT adds one pending row at the end of the table.                *)
LEMMA InsertRow ==
  ASSUME NEW table \in Seq(Row), NEW request \in Requests, NEW requester \in Requesters
  PROVE  /\ WithPending(table, request, requester) \in Seq(Row)
         /\ Len(WithPending(table, request, requester)) = Len(table) + 1
         /\ DOMAIN table \subseteq DOMAIN WithPending(table, request, requester)
         /\ \A j \in DOMAIN table : WithPending(table, request, requester)[j] = table[j]
         /\ \A j \in DOMAIN WithPending(table, request, requester) :
              j \notin DOMAIN table =>
                /\ j = Len(table) + 1
                /\ WithPending(table, request, requester)[j].request = request
                /\ WithPending(table, request, requester)[j].requester = requester
                /\ WithPending(table, request, requester)[j].status = "pending"
                /\ ~WithPending(table, request, requester)[j].consumed
<1> DEFINE row == [request |-> request, requester |-> requester,
                   status |-> "pending", consumed |-> FALSE]
<1>1. row \in Row
  BY DEF Row
<1>2. WithPending(table, request, requester) = Append(table, row)
  BY DEF WithPending
<1>3. row.request = request /\ row.requester = requester
      /\ row.status = "pending" /\ ~row.consumed
  OBVIOUS
<1> HIDE DEF row, Row, WithPending
<1>4. /\ Append(table, row) \in Seq(Row)
      /\ Len(Append(table, row)) = Len(table) + 1
      /\ \A j \in 1..Len(table) : Append(table, row)[j] = table[j]
      /\ Append(table, row)[Len(table) + 1] = row
  BY <1>1, AppendProperties
<1>5. DOMAIN table = 1..Len(table) /\ DOMAIN Append(table, row) = 1..(Len(table) + 1)
      /\ Len(table) \in Nat
  BY <1>4, LenProperties
<1>6. QED
  BY <1>2, <1>3, <1>4, <1>5

\* The same of the table that comes of it.
LEMMA InsertedTable ==
  ASSUME NEW table \in Seq(Row), NEW request \in Requests, NEW requester \in Requesters,
         NEW u, u = WithPending(table, request, requester)
  PROVE  /\ u \in Seq(Row) /\ Len(u) = Len(table) + 1
         /\ DOMAIN table \subseteq DOMAIN u
         /\ \A j \in DOMAIN table : u[j] = table[j]
         /\ \A j \in DOMAIN u : j \notin DOMAIN table =>
              u[j].request = request /\ u[j].requester = requester /\ u[j].status = "pending"
<1>1. /\ WithPending(table, request, requester) \in Seq(Row)
      /\ Len(WithPending(table, request, requester)) = Len(table) + 1
      /\ DOMAIN table \subseteq DOMAIN WithPending(table, request, requester)
      /\ \A j \in DOMAIN table : WithPending(table, request, requester)[j] = table[j]
      /\ \A j \in DOMAIN WithPending(table, request, requester) :
           j \notin DOMAIN table =>
             /\ j = Len(table) + 1
             /\ WithPending(table, request, requester)[j].request = request
             /\ WithPending(table, request, requester)[j].requester = requester
             /\ WithPending(table, request, requester)[j].status = "pending"
             /\ ~WithPending(table, request, requester)[j].consumed
  BY InsertRow
<1>2. QED
  BY <1>1

-----------------------------------------------------------------------------
(***************************************************************************)
(* The write-approval store.                                               *)
(***************************************************************************)

USE MaxRecordsAssumption

-----------------------------------------------------------------------------
(* Type correctness.                                                       *)

LEMMA StoreTypeInit == StoreInit => StoreTypeOK
<1>1. <<>> \in Seq(Row) /\ Len(<<>>) = 0 /\ <<>> \in Seq([approval : Nat, request : Requests])
  BY EmptySeq
<1>2. Idle \in Calls /\ Idle.at = "idle"
  BY DEF Calls, Idle
<1>3. QED
  BY <1>1, <1>2 DEF StoreInit, StoreTypeOK

(* The call records the actions build are of the type of calls.            *)
LEMMA CallTypes ==
  ASSUME NEW request \in Requests, NEW requester \in Requesters
  PROVE  /\ Idle \in Calls
         /\ \A at \in {"find_pending", "insert"} :
              [at |-> at, request |-> request, requester |-> requester] \in Calls
         /\ \A at \in {"consume", "answer"}, k \in Nat :
              [at |-> at, request |-> request, requester |-> requester, found |-> k]
                \in Calls
BY DEF Calls

(* A call that is not idle carries its request, and the record it found.   *)
LEMMA CallFields ==
  ASSUME NEW c \in Calls
  PROVE  /\ c # Idle => c.request \in Requests /\ c.requester \in Requesters
         /\ c.at \in {"consume", "answer"} =>
              c # Idle /\ c.found \in Nat /\ [c EXCEPT !.at = "answer"] \in Calls
         /\ c.at \in {"find_pending", "insert"} => c # Idle
BY DEF Calls, Idle

(* The variables keep their types in every step.                           *)
LEMMA StoreTypeStep == StoreTypeOK /\ [StoreNext]_storeVars => StoreTypeOK'
<1> SUFFICES ASSUME StoreTypeOK, [StoreNext]_storeVars
             PROVE  StoreTypeOK'
  OBVIOUS
<1> USE DEF StoreTypeOK
<1>0. DOMAIN records = 1..Len(records) /\ Len(records) \in Nat
  BY LenProperties
<1> HIDE DEF Calls
<1>1. ASSUME NEW i \in Instances, NEW request \in Requests, NEW requester \in Requesters,
             AuthorizeOrRequest(i, request, requester)
      PROVE  StoreTypeOK'
  <2>1. CASE call' = [call EXCEPT ![i] =
               [at |-> "find_pending", request |-> request, requester |-> requester]]
    <3>1. [at |-> "find_pending", request |-> request, requester |-> requester] \in Calls
      BY CallTypes
    <3>2. QED
      BY <1>1, <2>1, <3>1 DEF AuthorizeOrRequest
  <2>2. ASSUME NEW k \in DOMAIN records,
               call' = [call EXCEPT ![i] =
                 [at |-> "consume", request |-> request, requester |-> requester,
                  found |-> k]]
        PROVE  StoreTypeOK'
    <3>1. [at |-> "consume", request |-> request, requester |-> requester,
           found |-> k] \in Calls
      BY <1>0, k \in Nat, CallTypes
    <3>2. QED
      BY <1>1, <2>2, <3>1 DEF AuthorizeOrRequest
  <2>3. QED
    BY <1>1, <2>1, <2>2 DEF AuthorizeOrRequest
<1>2. ASSUME NEW i \in Instances, NEW request \in Requests, NEW requester \in Requesters,
             CreateRequest(i, request, requester)
      PROVE  StoreTypeOK'
  BY <1>2, CallTypes DEF CreateRequest
<1>3. ASSUME NEW i \in Instances, Abandon(i)
      PROVE  StoreTypeOK'
  BY <1>3, CallFields, CallTypes DEF Abandon, Idle
<1>4. ASSUME NEW i \in Instances, FindPending(i)
      PROVE  StoreTypeOK'
  <2>1. call'[i] \in Calls /\ call'[i].at \notin {"consume", "answer"}
    BY <1>4, CallFields, CallTypes DEF FindPending, About, Idle
  <2>2. QED
    BY <1>4, <2>1 DEF FindPending
<1>5. ASSUME NEW i \in Instances, LoseConsume(i)
      PROVE  StoreTypeOK'
  <2>1. call'[i] \in Calls /\ call'[i].at \notin {"consume", "answer"}
    BY <1>5, CallFields, CallTypes DEF LoseConsume, About, Idle
  <2>2. QED
    BY <1>5, <2>1 DEF LoseConsume
<1>6. ASSUME NEW i \in Instances, Consume(i)
      PROVE  StoreTypeOK'
  <2>1. call[i].found \in DOMAIN records
    BY <1>6 DEF Consume
  <2>2. [call[i] EXCEPT !.at = "answer"] \in Calls
    BY <1>6, CallFields DEF Consume
  <2>3. /\ records' \in Seq(Row)
        /\ Len(records') = Len(records)
        /\ DOMAIN records' = DOMAIN records
    BY <1>6, <2>1, ConsumedRow DEF Consume
  <2>4. QED
    BY <1>6, <2>1, <2>2, <2>3 DEF Consume
<1>7. ASSUME NEW i \in Instances, Answer(i)
      PROVE  StoreTypeOK'
  <2>1. [approval |-> call[i].found, request |-> call[i].request]
          \in [approval : Nat, request : Requests]
    BY <1>7, CallFields DEF Answer
  <2>2. grants' \in Seq([approval : Nat, request : Requests])
    BY <1>7, <2>1, AppendProperties DEF Answer
  <2>3. Idle \in Calls /\ Idle.at = "idle"
    BY DEF Calls, Idle
  <2>4. QED
    BY <1>7, <2>2, <2>3 DEF Answer
<1>8. ASSUME NEW i \in Instances, InsertPending(i)
      PROVE  StoreTypeOK'
  <2>1. /\ call[i].request \in Requests /\ call[i].requester \in Requesters
        /\ Idle \in Calls /\ Idle.at = "idle"
    BY <1>8, CallFields DEF InsertPending, Calls, Idle
  <2>2. /\ records' \in Seq(Row)
        /\ Len(records') = Len(records) + 1
        /\ DOMAIN records \subseteq DOMAIN records'
    BY <1>8, <2>1, InsertRow DEF InsertPending
  <2>3. QED
    BY <1>0, <1>8, <2>1, <2>2 DEF InsertPending
<1>9. ASSUME NEW i \in Instances, NEW k \in DOMAIN records, NEW decision \in Decisions,
             Decide(i, k, decision)
      PROVE  StoreTypeOK'
  BY <1>9, DecidedRow DEF Decide
<1>10. CASE UNCHANGED storeVars
  BY <1>10 DEF storeVars
<1>11. QED
  BY <1>1, <1>2, <1>3, <1>4, <1>5, <1>6, <1>7, <1>8, <1>9, <1>10 DEF StoreNext

(* The tables, the calls under way and the answers given are always        *)
(* well-formed.                                                            *)
THEOREM StoreTypeCorrect == StoreSpec => []StoreTypeOK
BY StoreTypeInit, StoreTypeStep, PTL DEF StoreSpec

-----------------------------------------------------------------------------
(* What a step may do to the table.                                        *)

TableGrows ==
  \A k \in DOMAIN records :
    /\ k \in DOMAIN records'
    /\ records'[k].request = records[k].request
    /\ records[k].status # "pending" => records'[k].status = records[k].status
    /\ records[k].consumed => records'[k].consumed

(* Rows are never removed or rewritten: a decision stays, a consumed mark  *)
(* stays, the fingerprint stays.                                           *)
LEMMA TableStep == StoreTypeOK /\ [StoreNext]_storeVars => TableGrows
<1> SUFFICES ASSUME StoreTypeOK, [StoreNext]_storeVars
             PROVE  TableGrows
  OBVIOUS
<1>0. records \in Seq(Row) /\ \A k \in DOMAIN records : records[k] \in Row
  BY ElementOfSeq, LenProperties DEF StoreTypeOK
<1>1. ASSUME UNCHANGED records
      PROVE  TableGrows
  BY <1>1 DEF TableGrows
<1>2. ASSUME NEW i \in Instances, Consume(i)
      PROVE  TableGrows
  <2>1. call[i].found \in DOMAIN records
    BY <1>2 DEF Consume, StoreTypeOK
  <2>2. DOMAIN records' = DOMAIN records
        /\ \A j \in DOMAIN records :
             /\ records'[j].request = records[j].request
             /\ records'[j].status = records[j].status
             /\ records[j].consumed => records'[j].consumed
    BY <1>0, <1>2, <2>1, ConsumedRow DEF Consume
  <2>3. QED
    BY <2>2 DEF TableGrows
<1>3. ASSUME NEW i \in Instances, InsertPending(i)
      PROVE  TableGrows
  <2>1. call[i].request \in Requests /\ call[i].requester \in Requesters
    BY <1>3, CallFields DEF InsertPending, StoreTypeOK
  <2>2. QED
    BY <1>0, <1>3, <2>1, InsertRow DEF InsertPending, TableGrows
<1>4. ASSUME NEW i \in Instances, NEW k \in DOMAIN records, NEW decision \in Decisions,
             Decide(i, k, decision)
      PROVE  TableGrows
  <2>1. DOMAIN records' = DOMAIN records
        /\ \A j \in DOMAIN records :
             /\ records'[j].request = records[j].request
             /\ j # k => records'[j].status = records[j].status
             /\ records[j].consumed => records'[j].consumed
    BY <1>0, <1>4, DecidedRow DEF Decide
  <2>2. records[k].status = "pending"
    BY <1>4 DEF Decide, Decidable
  <2>3. QED
    BY <2>1, <2>2 DEF TableGrows
<1>5. QED
  BY <1>1, <1>2, <1>3, <1>4
     DEF StoreNext, storeVars, AuthorizeOrRequest, CreateRequest, LoseConsume, Answer,
         FindPending, Abandon

(* Decisions of reviewers and used-up approvals are final, however many    *)
(* processes share the table.                                              *)
THEOREM DecisionsFinal == StoreSpec => DecisionsAreFinal
<1>1. StoreTypeOK /\ [StoreNext]_storeVars => [TableGrows]_storeVars
  BY TableStep
<1>2. QED
  BY <1>1, StoreTypeCorrect, PTL DEF StoreSpec, DecisionsAreFinal, TableGrows

-----------------------------------------------------------------------------
(* The inductive invariant.  That no approval is answered twice rests on   *)
(* what a process holds between two statements: HeldApproval.              *)

StoreSafety == OneShot /\ HeldApproval /\ ExactRequest

StoreInv == StoreTypeOK /\ StoreSafety

LEMMA StoreSafetyInit == StoreInit => StoreSafety
BY DEF StoreInit, StoreSafety, OneShot, HeldApproval, HoldsItsOwn, HoldsItAlone, ExactRequest, Idle

(* A step that answers nobody, and after which no process holds an         *)
(* approval it did not hold before, preserves the invariant.               *)
LEMMA QuietStoreStep ==
  ASSUME StoreInv, TableGrows, UNCHANGED grants,
         \A j \in Instances :
           call'[j] = call[j] \/ call'[j].at \notin {"consume", "answer"}
  PROVE  StoreSafety'
<1>1. OneShot'
  BY DEF StoreInv, StoreSafety, OneShot
<1>2. ExactRequest'
  BY DEF StoreInv, StoreSafety, ExactRequest, TableGrows
<1>3. ASSUME NEW i \in Instances
      PROVE  HoldsItsOwn(i)'
  <2>1. HoldsItsOwn(i) /\ (call[i].at \in {"consume", "answer"} => call[i].found \in DOMAIN records)
    BY DEF StoreInv, StoreTypeOK, StoreSafety, HeldApproval
  <2>2. CASE call'[i] = call[i]
    BY <2>1, <2>2 DEF HoldsItsOwn, TableGrows
  <2>3. CASE call'[i].at \notin {"consume", "answer"}
    BY <2>3 DEF HoldsItsOwn
  <2>4. QED
    BY <2>2, <2>3
<1>4. ASSUME NEW i \in Instances
      PROVE  HoldsItAlone(i)'
  BY DEF StoreInv, StoreTypeOK, StoreSafety, HeldApproval, HoldsItAlone, TableGrows, Granted
<1>5. QED
  BY <1>1, <1>2, <1>3, <1>4 DEF StoreSafety, HeldApproval

LEMMA StoreSafetyStep == StoreInv /\ [StoreNext]_storeVars => StoreSafety'
<1> SUFFICES ASSUME StoreInv, [StoreNext]_storeVars
             PROVE  StoreSafety'
  OBVIOUS
<1>0. StoreTypeOK /\ StoreTypeOK' /\ TableGrows /\ StoreSafety
  BY StoreTypeStep, TableStep DEF StoreInv
<1>1. ASSUME NEW i \in Instances, NEW request \in Requests, NEW requester \in Requesters,
             AuthorizeOrRequest(i, request, requester)
      PROVE  StoreSafety'
  <2>1. CASE call' = [call EXCEPT ![i] =
               [at |-> "find_pending", request |-> request, requester |-> requester]]
    BY <1>0, <1>1, <2>1, QuietStoreStep DEF AuthorizeOrRequest, StoreTypeOK
  <2>2. ASSUME NEW k \in DOMAIN records,
               IsNewestReusable(records, request, "approved", k),
               call' = [call EXCEPT ![i] =
                 [at |-> "consume", request |-> request, requester |-> requester,
                  found |-> k]]
        PROVE  StoreSafety'
    <3>1. records[k].status = "approved" /\ records[k].request = request
      BY <2>2 DEF IsNewestReusable, Reusable
    <3>2. UNCHANGED <<records, grants>>
      BY <1>1 DEF AuthorizeOrRequest
    <3>3. OneShot' /\ ExactRequest'
      BY <1>0, <3>2 DEF StoreSafety, OneShot, ExactRequest
    <3>4. HeldApproval'
      BY <1>0, <2>2, <3>1, <3>2
         DEF StoreTypeOK, StoreSafety, HeldApproval, HoldsItsOwn, HoldsItAlone, Granted
    <3>5. QED
      BY <3>3, <3>4 DEF StoreSafety
  <2>3. QED
    BY <1>1, <2>1, <2>2 DEF AuthorizeOrRequest
<1>2. ASSUME NEW i \in Instances, Consume(i)
      PROVE  StoreSafety'
  <2>0. PICK k : k = call[i].found
    OBVIOUS
  <2>1. /\ k \in DOMAIN records
        /\ records[k].status = "approved"
        /\ ~records[k].consumed
        /\ records[k].request = call[i].request
    BY <1>0, <2>0, <1>2 DEF Consume, Consumable, StoreTypeOK, StoreSafety, HeldApproval, HoldsItsOwn
  <2>2. UNCHANGED grants
    BY <1>2 DEF Consume
  <2>3. OneShot' /\ ExactRequest'
    BY <1>0, <2>2 DEF StoreSafety, OneShot, ExactRequest, TableGrows
  <2>4. records'[k].consumed
    BY <1>0, <2>0, <1>2, <2>1, ConsumedRow DEF Consume, StoreTypeOK
  <2>5. ~Granted(k)
    BY <1>0, <2>1 DEF StoreSafety, ExactRequest, Granted
  <2>6. \A j \in Instances : call[j].at = "answer" => call[j].found # k
    BY <1>0, <2>1 DEF StoreSafety, HeldApproval, HoldsItAlone
  <2>7. /\ call'[i].at = "answer" /\ call'[i].found = k
        /\ call'[i].request = call[i].request
        /\ \A j \in Instances : j # i => call'[j] = call[j]
    BY <1>0, <2>0, <1>2, CallFields DEF Consume, StoreTypeOK, Calls
  <2>8. \A m \in DOMAIN records : ~Granted(m) => ~Granted(m)'
    BY <2>2 DEF Granted
  <2>9. \A j \in Instances :
           call'[j].at = "answer" /\ call'[j].found = k => j = i
    BY <2>6, <2>7
  <2>10. \A j \in Instances : call[j].at \in {"consume", "answer"} =>
           call[j].found \in DOMAIN records
    BY <1>0 DEF StoreTypeOK
  <2>11. ASSUME NEW j \in Instances
        PROVE  HoldsItsOwn(j)'
    <3>1. CASE j = i
      <4>1. call'[j].found = k /\ call'[j].request = call[i].request
        BY <2>7, <3>1
      <4>2. records'[k].status = "approved" /\ records'[k].request = call[i].request
        BY <1>0, <2>1 DEF TableGrows
      <4>3. QED
        BY <4>1, <4>2 DEF HoldsItsOwn
    <3>2. CASE j # i
      <4>1. call'[j] = call[j]
        BY <2>7, <3>2
      <4>2. HoldsItsOwn(j)
        BY <1>0 DEF StoreSafety, HeldApproval
      <4>3. QED
        BY <1>0, <2>10, <4>1, <4>2 DEF HoldsItsOwn, TableGrows
    <3>3. QED
      BY <3>1, <3>2
  <2>12. ASSUME NEW j \in Instances
        PROVE  HoldsItAlone(j)'
    <3>1. CASE j = i
      <4>1. call'[j].found = k /\ ~Granted(k)'
        BY <2>1, <2>5, <2>7, <2>8, <3>1
      <4>2. QED
        BY <2>4, <2>9, <3>1, <4>1 DEF HoldsItAlone
    <3>2. CASE j # i
      <4>1. call'[j] = call[j]
        BY <2>7, <3>2
      <4>2. HoldsItAlone(j)
        BY <1>0 DEF StoreSafety, HeldApproval
      <4>3. SUFFICES ASSUME call[j].at = "answer"
                     PROVE  /\ records'[call[j].found].consumed
                            /\ ~Granted(call[j].found)'
                            /\ \A m \in Instances :
                                 call'[m].at = "answer" /\ call'[m].found = call[j].found
                                   => m = j
        BY <4>1 DEF HoldsItAlone
      <4>4. call[j].found \in DOMAIN records /\ call[j].found # k
        BY <2>6, <2>10, <4>3
      <4>5. records'[call[j].found].consumed /\ ~Granted(call[j].found)'
        BY <1>0, <2>8, <4>1, <4>2, <4>3, <4>4 DEF HoldsItAlone, TableGrows
      <4>6. QED
        BY <2>7, <4>2, <4>3, <4>4, <4>5 DEF HoldsItAlone
    <3>3. QED
      BY <3>1, <3>2
  <2>13. QED
    BY <2>3, <2>11, <2>12 DEF StoreSafety, HeldApproval
<1>3. ASSUME NEW i \in Instances, Answer(i)
      PROVE  StoreSafety'
  <2>0. PICK k : k = call[i].found
    OBVIOUS
  <2> DEFINE grant == [approval |-> k, request |-> call[i].request]
  <2>1. /\ k \in DOMAIN records
        /\ records[k].status = "approved"
        /\ records[k].consumed
        /\ records[k].request = call[i].request
        /\ ~Granted(k)
        /\ \A j \in Instances : call[j].at = "answer" /\ call[j].found = k => j = i
    BY <1>0, <2>0, <1>3
       DEF Answer, StoreTypeOK, StoreSafety, HeldApproval, HoldsItsOwn, HoldsItAlone
  <2>2. grant \in [approval : Nat, request : Requests]
    BY <1>0, <2>0, <1>3, CallFields DEF Answer, StoreTypeOK
  <2>3. /\ DOMAIN grants = 1..Len(grants)
        /\ DOMAIN grants' = 1..(Len(grants) + 1)
        /\ Len(grants) \in Nat
        /\ \A n \in DOMAIN grants : grants'[n] = grants[n]
        /\ grants'[Len(grants) + 1].approval = k
        /\ grants'[Len(grants) + 1].request = call[i].request
    BY <1>0, <2>0, <1>3, <2>2, AppendProperties, LenProperties DEF Answer, StoreTypeOK
  <2>4. UNCHANGED records
    BY <1>3 DEF Answer
  <2>5. OneShot'
    BY <1>0, <2>1, <2>3 DEF StoreSafety, OneShot, Granted
  <2>6. ExactRequest'
    BY <1>0, <2>1, <2>3, <2>4 DEF StoreSafety, ExactRequest
  <2>7. /\ call'[i].at = "idle"
        /\ \A j \in Instances : j # i => call'[j] = call[j]
    BY <1>0, <2>0, <1>3 DEF Answer, StoreTypeOK, Idle
  <2>8. \A m \in DOMAIN records : Granted(m)' => Granted(m) \/ m = k
    BY <2>3 DEF Granted
  <2>9. ASSUME NEW j \in Instances
        PROVE  HoldsItsOwn(j)'
    BY <1>0, <2>4, <2>7 DEF StoreSafety, HeldApproval, HoldsItsOwn
  <2>10. ASSUME NEW j \in Instances
         PROVE  HoldsItAlone(j)'
    <3>1. CASE j = i
      BY <2>7, <3>1 DEF HoldsItAlone
    <3>2. CASE j # i
      <4>1. call'[j] = call[j] /\ HoldsItAlone(j)
        BY <1>0, <2>7, <3>2 DEF StoreSafety, HeldApproval
      <4>2. SUFFICES ASSUME call[j].at = "answer"
                     PROVE  /\ records'[call[j].found].consumed
                            /\ ~Granted(call[j].found)'
                            /\ \A m \in Instances :
                                 call'[m].at = "answer" /\ call'[m].found = call[j].found
                                   => m = j
        BY <4>1 DEF HoldsItAlone
      <4>3. call[j].found \in DOMAIN records /\ call[j].found # k
        BY <1>0, <2>1, <3>2, <4>2 DEF StoreTypeOK
      <4>4. records'[call[j].found].consumed
        BY <2>4, <4>1, <4>2 DEF HoldsItAlone
      <4>5. ~Granted(call[j].found)'
        <5>1. ~Granted(call[j].found)
          BY <4>1, <4>2 DEF HoldsItAlone
        <5>2. QED
          BY <2>8, <4>1, <4>3, <5>1
      <4>6. QED
        BY <2>7, <4>1, <4>2, <4>4, <4>5 DEF HoldsItAlone
    <3>3. QED
      BY <3>1, <3>2
  <2>11. QED
    BY <2>5, <2>6, <2>9, <2>10 DEF StoreSafety, HeldApproval
<1>4. ASSUME NEW i \in Instances, NEW request \in Requests, NEW requester \in Requesters,
             CreateRequest(i, request, requester)
      PROVE  StoreSafety'
  BY <1>0, <1>4, QuietStoreStep DEF CreateRequest, StoreTypeOK
<1>5. ASSUME NEW i \in Instances,
             LoseConsume(i) \/ FindPending(i) \/ InsertPending(i) \/ Abandon(i)
      PROVE  StoreSafety'
  <2>1. UNCHANGED grants
    BY <1>5 DEF LoseConsume, FindPending, InsertPending, Abandon
  <2>2. call'[i].at \notin {"consume", "answer"} /\ \A j \in Instances : j # i => call'[j] = call[j]
    BY <1>0, <1>5 DEF LoseConsume, FindPending, InsertPending, Abandon, StoreTypeOK, About, Idle
  <2>3. QED
    BY <1>0, <2>1, <2>2, QuietStoreStep
<1>6. ASSUME NEW i \in Instances, NEW k \in DOMAIN records, NEW decision \in Decisions,
             Decide(i, k, decision)
      PROVE  StoreSafety'
  BY <1>0, <1>6, QuietStoreStep DEF Decide
<1>7. CASE UNCHANGED storeVars
  BY <1>0, <1>7, QuietStoreStep DEF storeVars
<1>8. QED
  BY <1>1, <1>2, <1>3, <1>4, <1>5, <1>6, <1>7 DEF StoreNext

(* The inductive invariant holds in every reachable state.                 *)
THEOREM StoreInvariance == StoreSpec => []StoreInv
<1>1. StoreInit => StoreInv
  BY StoreTypeInit, StoreSafetyInit DEF StoreInv
<1>2. StoreInv /\ [StoreNext]_storeVars => StoreInv'
  BY StoreTypeStep, StoreSafetyStep DEF StoreInv
<1>3. QED
  BY <1>1, <1>2, PTL DEF StoreSpec

(* One approval authorizes at most one execution, whatever processes race  *)
(* for it.                                                                 *)
THEOREM OneShotHolds == StoreSpec => []OneShot
BY StoreInvariance, PTL DEF StoreInv, StoreSafety

(* Every authorization rests on an approved record of the very request.    *)
THEOREM ExactRequestHolds == StoreSpec => []ExactRequest
BY StoreInvariance, PTL DEF StoreInv, StoreSafety

-----------------------------------------------------------------------------
(* Refinement: the store implements one-time permits.                      *)

(* A step that answers nobody and approves nothing leaves the open permits *)
(* as they are.                                                            *)
LEMMA PermitsUnchanged ==
  ASSUME StoreTypeOK, UNCHANGED grants, TableGrows,
         \A k \in DOMAIN records' :
           records'[k].status = "approved" =>
             k \in DOMAIN records /\ records[k].status = "approved"
  PROVE  UNCHANGED OpenPermits
<1>1. \A k : Granted(k)' <=> Granted(k)
  BY DEF Granted
<1>2. \A k \in DOMAIN records' :
        records'[k].status = "approved" <=>
          k \in DOMAIN records /\ records[k].status = "approved"
  BY DEF TableGrows
<1>3. \A k \in DOMAIN records :
        k \in DOMAIN records' /\ records'[k].request = records[k].request
  BY DEF TableGrows
<1>4. QED
  BY <1>1, <1>2, <1>3 DEF OpenPermits

(* Approving a record issues its permit.                                   *)
LEMMA DecideIssues ==
  ASSUME StoreInv, TableGrows,
         NEW i \in Instances, NEW k \in DOMAIN records, Decide(i, k, "approved")
  PROVE  \E permit \in Permits!Permit : Permits!Issue(permit)
<1> DEFINE permit == [approval |-> k, request |-> records[k].request]
<1>0. /\ records \in Seq(Row) /\ Len(records) \in Nat /\ Len(records) <= MaxRecords
      /\ k \in 1..Len(records) /\ records[k] \in Row
  BY ElementOfSeq, LenProperties DEF StoreInv, StoreTypeOK
<1>1. permit \in Permits!Permit
  BY <1>0 DEF Permits!Permit, Row
<1>2. records[k].status = "pending" /\ UNCHANGED grants
  BY DEF Decide, Decidable
<1>3. ~Granted(k)
  BY <1>2 DEF StoreInv, StoreSafety, ExactRequest, Granted
<1>4. permit \notin OpenPermits
  BY <1>2 DEF OpenPermits
<1>5. ~Permits!Spent(permit)
  BY <1>3 DEF Permits!Spent, Granted
<1>6. /\ DOMAIN records' = DOMAIN records
      /\ records'[k].status = "approved"
      /\ \A j \in DOMAIN records :
           /\ records'[j].request = records[j].request
           /\ j # k => records'[j].status = records[j].status
  <2>1. "approved" \in Decisions /\ records' = Decided(records, k, "approved")
    BY DEF Decide, Decisions
  <2>2. QED
    BY <1>0, <2>1, DecidedRow
<1>7. \A j : Granted(j)' <=> Granted(j)
  BY <1>2 DEF Granted
<1>8. OpenPermits' = OpenPermits \cup {permit}
  BY <1>2, <1>3, <1>6, <1>7 DEF OpenPermits
<1>9. QED
  BY <1>1, <1>2, <1>4, <1>5, <1>8 DEF Permits!Issue

(* Answering True spends the permit of the record that was consumed.       *)
LEMMA AnswerSpends ==
  ASSUME StoreInv, NEW i \in Instances, Answer(i)
  PROVE  \E permit \in Permits!Permit : Permits!Spend(permit)
<1>0. PICK k : k = call[i].found
  OBVIOUS
<1> DEFINE permit == [approval |-> k, request |-> call[i].request]
<1>1. /\ k \in DOMAIN records
      /\ records[k].status = "approved"
      /\ records[k].request = call[i].request
      /\ ~Granted(k)
  BY <1>0 DEF Answer, StoreInv, StoreTypeOK, StoreSafety, HeldApproval, HoldsItsOwn, HoldsItAlone
<1>2. /\ DOMAIN records = 1..Len(records) /\ Len(records) \in Nat
      /\ Len(records) <= MaxRecords /\ call[i].request \in Requests
  BY CallFields, LenProperties DEF Answer, StoreInv, StoreTypeOK
<1>3. permit \in Permits!Permit /\ permit \in [approval : Nat, request : Requests]
  BY <1>1, <1>2 DEF Permits!Permit
<1>4. permit \in OpenPermits
  BY <1>1 DEF OpenPermits
<1>5. grants' = Append(grants, permit) /\ UNCHANGED records
  BY <1>0 DEF Answer
<1>6. /\ DOMAIN grants = 1..Len(grants) /\ Len(grants) \in Nat
      /\ DOMAIN grants' = 1..(Len(grants) + 1)
      /\ \A n \in DOMAIN grants : grants'[n] = grants[n]
      /\ grants'[Len(grants) + 1] = permit
  BY <1>3, <1>5, AppendProperties, LenProperties DEF StoreInv, StoreTypeOK
<1>7. permit.approval = k
  OBVIOUS
<1>8. \A j : Granted(j)' <=> Granted(j) \/ j = k
  <2> HIDE DEF permit
  <2>1. QED
    BY <1>6, <1>7 DEF Granted
<1>9. OpenPermits' = OpenPermits \ {permit}
  BY <1>1, <1>5, <1>8 DEF OpenPermits
<1>10. QED
  BY <1>3, <1>4, <1>5, <1>9 DEF Permits!Spend

(* Every step of the store is a step of the permits, or invisible.         *)
LEMMA RefinementStep ==
  StoreInv /\ [StoreNext]_storeVars => [Permits!Next]_<<OpenPermits, grants>>
<1> SUFFICES ASSUME StoreInv, [StoreNext]_storeVars
             PROVE  [Permits!Next]_<<OpenPermits, grants>>
  OBVIOUS
<1>0. StoreTypeOK /\ TableGrows
  BY TableStep DEF StoreInv
<1>1. ASSUME UNCHANGED <<records, grants>>
      PROVE  UNCHANGED <<OpenPermits, grants>>
  BY <1>1 DEF OpenPermits, Granted
<1>2. ASSUME NEW i \in Instances, Consume(i)
      PROVE  UNCHANGED <<OpenPermits, grants>>
  <2>1. call[i].found \in DOMAIN records
    BY <1>0, <1>2 DEF Consume, StoreTypeOK
  <2>2. UNCHANGED grants /\ \A k \in DOMAIN records' :
          k \in DOMAIN records /\ records'[k].status = records[k].status
    BY <1>0, <1>2, <2>1, ConsumedRow DEF Consume, StoreTypeOK
  <2>3. QED
    BY <1>0, <2>2, PermitsUnchanged
<1>3. ASSUME NEW i \in Instances, InsertPending(i)
      PROVE  UNCHANGED <<OpenPermits, grants>>
  <2>1. call[i].request \in Requests /\ call[i].requester \in Requesters
    BY <1>0, <1>3, CallFields DEF InsertPending, StoreTypeOK
  <2>2. UNCHANGED grants /\ \A k \in DOMAIN records' :
          records'[k].status = "approved" =>
            k \in DOMAIN records /\ records[k].status = "approved"
    BY <1>0, <1>3, <2>1, InsertRow DEF InsertPending, StoreTypeOK
  <2>3. QED
    BY <1>0, <2>2, PermitsUnchanged
<1>4. ASSUME NEW i \in Instances, NEW k \in DOMAIN records, Decide(i, k, "rejected")
      PROVE  UNCHANGED <<OpenPermits, grants>>
  <2>1. UNCHANGED grants /\ \A j \in DOMAIN records' :
          records'[j].status = "approved" =>
            j \in DOMAIN records /\ records[j].status = "approved"
    <3>1. "rejected" \in Decisions
      BY DEF Decisions
    <3>2. records' = Decided(records, k, "rejected") /\ UNCHANGED grants
      BY <1>4 DEF Decide
    <3>3. /\ DOMAIN records' = DOMAIN records
          /\ records'[k].status = "rejected"
          /\ \A j \in DOMAIN records :
               j # k => records'[j].status = records[j].status
      BY <1>0, <3>1, <3>2, DecidedRow DEF StoreTypeOK
    <3>4. QED
      BY <3>2, <3>3
  <2>2. QED
    BY <1>0, <2>1, PermitsUnchanged
<1>5. ASSUME NEW i \in Instances, NEW k \in DOMAIN records, Decide(i, k, "approved")
      PROVE  Permits!Next
  BY <1>0, <1>5, DecideIssues DEF Permits!Next
<1>6. ASSUME NEW i \in Instances, Answer(i)
      PROVE  Permits!Next
  BY <1>6, AnswerSpends DEF Permits!Next
<1>7. QED
  BY <1>1, <1>2, <1>3, <1>4, <1>5, <1>6
     DEF StoreNext, storeVars, AuthorizeOrRequest, CreateRequest, LoseConsume, FindPending,
         Abandon, Decisions

(* The store implements one-time permits: approvals issue them,            *)
(* authorizations spend them, and nothing else in the table shows.         *)
THEOREM PermitsImplemented == StoreSpec => ImplementsPermits
<1>1. StoreInit => Permits!Init
  BY DEF StoreInit, Permits!Init, OpenPermits
<1>2. QED
  BY <1>1, StoreInvariance, RefinementStep, PTL DEF StoreSpec, ImplementsPermits, Permits!Spec

-----------------------------------------------------------------------------
(***************************************************************************)
(* The tool calls of a session.                                            *)
(***************************************************************************)

USE GateAssumption

Entry == [by : Runs \cup Reviews, request : Requests, as : Identities,
          approval : Nat, resumed : Nat]

\* What the policies say of an entry of the log.
VerdictOf(e) == Verdict(Tool[e.request], e.as.role, e.as.sender)

\* An entry without an approval needed none; the approval of an entry is a
\* used-up one of its request, and of no other entry.
EntryJustified(n) ==
  /\ log[n].approval = 0 => VerdictOf(log[n]) = "allow"
  /\ log[n].approval # 0 =>
       /\ log[n].approval \in DOMAIN approvals
       /\ approvals[log[n].approval].status = "approved"
       /\ approvals[log[n].approval].consumed
       /\ approvals[log[n].approval].request = log[n].request
       /\ \A m \in DOMAIN log : log[m].approval = log[n].approval => m = n

LogJustified == \A n \in DOMAIN log : EntryJustified(n)

\* The identity of the session can be stored, and so can be asked with.
IdentityStorable == identity # NoIdentity => StoredOf(identity) \in Requesters

\* A resumption under way is of a row of the table.
ReviewsOfRows == \A v \in Reviews : review[v] # 0 => review[v] \in DOMAIN approvals

IInv == /\ TypeOK /\ log \in Seq(Entry) /\ IdentityStorable /\ ReviewsOfRows /\ LogJustified

-----------------------------------------------------------------------------
(* The table and what a step may do to it.                                 *)

\* From table t to table u: rows stay, with their requests and requesters; a
\* used-up approved row stays one.
RowsKept(t, u) ==
  \A k \in DOMAIN t :
    /\ k \in DOMAIN u
    /\ u[k].request = t[k].request /\ u[k].requester = t[k].requester
    /\ t[k].status # "pending" => u[k].status = t[k].status
    /\ t[k].consumed => u[k].consumed

\* What may be appended to the log by a call that finds the table t.
Admissible(t, u, e) ==
  \/ e.approval = 0 /\ VerdictOf(e) = "allow" /\ u = t
  \/ /\ VerdictOf(e) = "require_approval"
     /\ e.approval \in DOMAIN t
     /\ t[e.approval].status = "approved" /\ ~t[e.approval].consumed
     /\ t[e.approval].request = e.request
     /\ u = Consumed(t, e.approval)

\* The policies say one of three things.
LEMMA VerdictInVerdicts ==
  ASSUME NEW tool, NEW role, NEW sender
  PROVE  Verdict(tool, role, sender) \in Verdicts
BY DEF Verdict, Verdicts

\* The table after a decision, and the rows it keeps.
LEMMA AfterDecisionTable ==
  ASSUME TypeOK, NEW k \in DOMAIN approvals, NEW decision \in Decisions
  PROVE  /\ AfterDecision(k, decision) \in Seq(Row)
         /\ Len(AfterDecision(k, decision)) = Len(approvals)
         /\ DOMAIN AfterDecision(k, decision) = DOMAIN approvals
         /\ RowsKept(approvals, AfterDecision(k, decision))
         /\ \A j \in DOMAIN approvals :
              /\ AfterDecision(k, decision)[j].consumed = approvals[j].consumed
              /\ j # k => AfterDecision(k, decision)[j] = approvals[j]
<1>1. CASE Decidable(approvals, k)
  <2>1. AfterDecision(k, decision) = Decided(approvals, k, decision)
    BY <1>1 DEF AfterDecision
  <2>2. approvals \in Seq(Row)
    BY DEF TypeOK
  <2>3. PICK u : u = Decided(approvals, k, decision)
    OBVIOUS
  <2>4. /\ u \in Seq(Row) /\ Len(u) = Len(approvals) /\ DOMAIN u = DOMAIN approvals
        /\ \A j \in DOMAIN approvals :
             /\ u[j].request = approvals[j].request
             /\ u[j].requester = approvals[j].requester
             /\ j # k => u[j] = approvals[j]
             /\ u[j].consumed = approvals[j].consumed
    BY <2>2, <2>3, DecidedRow
  <2>5. RowsKept(approvals, u)
    BY <1>1, <2>4 DEF RowsKept, Decidable
  <2>6. QED
    BY <2>1, <2>3, <2>4, <2>5
<1>2. CASE ~Decidable(approvals, k)
  BY <1>2 DEF AfterDecision, RowsKept, TypeOK
<1>3. QED
  BY <1>1, <1>2

\* execute_tool_call: the rows stay, a new one is that of the caller, who
\* needs an approval; either the log is left alone, or one admissible entry is
\* added and the budget loses one call.
AttemptOutcome(t, by, request, as, resumed) ==
  /\ approvals' \in Seq(Row) /\ Len(approvals') <= MaxApprovals
  /\ RowsKept(t, approvals')
  /\ \A k \in DOMAIN approvals' \ DOMAIN t :
       /\ approvals'[k].request = request /\ approvals'[k].requester = StoredOf(as)
       /\ approvals'[k].status = "pending"
       /\ Verdict(Tool[request], as.role, as.sender) = "require_approval"
  /\ \/ log' = log /\ left' = left
     \/ /\ left' = left - 1 /\ left > 0
        /\ \E e \in Entry :
             /\ e.by = by /\ e.request = request /\ e.as = as /\ e.resumed = resumed
             /\ log' = Append(log, e)
             /\ Admissible(t, approvals', e)

LEMMA AttemptCases ==
  ASSUME NEW t \in Seq(Row), Len(t) <= MaxApprovals,
         NEW by \in Runs \cup Reviews, NEW request \in Requests, NEW as \in Identities,
         StoredOf(as) \in Requesters,
         NEW resumed \in Nat,
         Attempt(t, by, request, as, resumed)
  PROVE  AttemptOutcome(t, by, request, as, resumed)
<1> DEFINE verdict == Verdict(Tool[request], as.role, as.sender)
           e(a) == [by |-> by, request |-> request, as |-> as,
                    approval |-> a, resumed |-> resumed]
<1>0. \A a \in Nat : e(a) \in Entry /\ VerdictOf(e(a)) = verdict
                     /\ e(a).by = by /\ e(a).request = request /\ e(a).as = as
                     /\ e(a).approval = a /\ e(a).resumed = resumed
  BY DEF Entry, VerdictOf
<1>1. DOMAIN t = 1..Len(t) /\ Len(t) \in Nat
  BY LenProperties
<1>2. RowsKept(t, t)
  BY DEF RowsKept
<1> HIDE DEF verdict, e
<1>3. CASE verdict = "deny" /\ approvals' = t /\ UNCHANGED <<left, log>>
  BY <1>2, <1>3 DEF AttemptOutcome
<1>4. CASE verdict = "allow" /\ approvals' = t /\ Spend(by, request, as, 0, resumed)
  <2>1. Admissible(t, approvals', e(0))
    BY <1>0, <1>4 DEF Admissible
  <2>2. \/ log' = log /\ left' = left
        \/ log' = Append(log, e(0)) /\ left' = left - 1 /\ left > 0
    BY <1>4 DEF Spend, e
  <2>3. QED
    BY <1>0, <1>2, <1>4, <2>1, <2>2 DEF AttemptOutcome
<1>5. CASE /\ verdict = "require_approval"
           /\ \E k \in DOMAIN t : Take(t, request, k) /\ Spend(by, request, as, k, resumed)
  <2>1. PICK k \in DOMAIN t : Take(t, request, k) /\ Spend(by, request, as, k, resumed)
    BY <1>5
  <2>2. /\ t[k].status = "approved" /\ ~t[k].consumed /\ t[k].request = request
        /\ approvals' = Consumed(t, k)
    BY <2>1 DEF Take, IsNewestReusable, Reusable
  <2>3. /\ approvals' \in Seq(Row) /\ Len(approvals') = Len(t) /\ DOMAIN approvals' = DOMAIN t
        /\ RowsKept(t, approvals')
    BY <2>2, ConsumedRow DEF RowsKept
  <2>4. k \in Nat
    BY <1>1
  <2>5. Admissible(t, approvals', e(k))
    BY <1>0, <1>5, <2>2, <2>4 DEF Admissible
  <2>6. \/ log' = log /\ left' = left
        \/ log' = Append(log, e(k)) /\ left' = left - 1 /\ left > 0
    BY <2>1 DEF Spend, e
  <2>7. QED
    BY <1>0, <2>3, <2>4, <2>5, <2>6 DEF AttemptOutcome
<1>6. CASE /\ verdict = "require_approval"
           /\ Ask(t, request, StoredOf(as)) /\ UNCHANGED <<left, log>>
  <2>1. CASE approvals' = t
    BY <1>2, <1>6, <2>1 DEF AttemptOutcome
  <2>2. CASE Len(t) < MaxApprovals /\ approvals' = WithPending(t, request, StoredOf(as))
    <3>0. PICK q \in Requesters : q = StoredOf(as)
      OBVIOUS
    <3>1. /\ approvals' \in Seq(Row) /\ Len(approvals') = Len(t) + 1
          /\ DOMAIN t \subseteq DOMAIN approvals'
          /\ \A j \in DOMAIN t : approvals'[j] = t[j]
          /\ \A j \in DOMAIN approvals' : j \notin DOMAIN t =>
               /\ approvals'[j].request = request /\ approvals'[j].requester = StoredOf(as)
               /\ approvals'[j].status = "pending"
      <4> HIDE GateAssumption
      <4>1. PICK u : u = WithPending(t, request, q)
        OBVIOUS
      <4>2. /\ u \in Seq(Row) /\ Len(u) = Len(t) + 1 /\ DOMAIN t \subseteq DOMAIN u
            /\ \A j \in DOMAIN t : u[j] = t[j]
            /\ \A j \in DOMAIN u : j \notin DOMAIN t =>
                 u[j].request = request /\ u[j].requester = q /\ u[j].status = "pending"
        BY <4>1, InsertedTable
      <4>3. QED
        BY <2>2, <3>0, <4>1, <4>2
    <3>2. RowsKept(t, approvals')
      BY <3>1 DEF RowsKept
    <3>3. Len(approvals') <= MaxApprovals
      BY <1>1, <2>2, <3>1
    <3>4. \A k \in DOMAIN approvals' \ DOMAIN t :
            /\ approvals'[k].request = request /\ approvals'[k].requester = StoredOf(as)
            /\ approvals'[k].status = "pending"
            /\ Verdict(Tool[request], as.role, as.sender) = "require_approval"
      BY <1>6, <3>1 DEF verdict
    <3>5. QED
      BY <1>6, <3>1, <3>2, <3>3, <3>4 DEF AttemptOutcome
  <2>3. QED
    BY <1>6, <2>1, <2>2 DEF Ask
<1>7. QED
  BY <1>3, <1>4, <1>5, <1>6 DEF Attempt, verdict

-----------------------------------------------------------------------------
(* The invariant.                                                          *)

\* What a step leaves behind of the table, the log and the budget.
TableAndLog ==
  /\ approvals' \in Seq(Row) /\ Len(approvals') <= MaxApprovals
  /\ RowsKept(approvals, approvals')
  /\ log' \in Seq(Entry)
  /\ left' \in 0..MaxExecutions /\ left' + Len(log') = MaxExecutions
  /\ LogJustified'

\* Entries keep their evidence when rows are kept.
LEMMA OldEntries ==
  ASSUME IInv, RowsKept(approvals, approvals'), UNCHANGED log
  PROVE  LogJustified'
<1> SUFFICES ASSUME NEW n \in DOMAIN log
             PROVE  EntryJustified(n)'
  BY DEF LogJustified
<1>1. EntryJustified(n)
  BY DEF IInv, LogJustified
<1>2. QED
  BY <1>1 DEF EntryJustified, RowsKept, VerdictOf

\* An admissible entry brings its evidence, and takes none from the others.
LEMMA LogStep ==
  ASSUME IInv,
         NEW t \in Seq(Row), DOMAIN t = DOMAIN approvals,
         RowsKept(approvals, t), RowsKept(t, approvals'),
         \A k \in DOMAIN t : t[k].consumed = approvals[k].consumed,
         approvals' \in Seq(Row), Len(approvals') <= MaxApprovals,
         \/ log' = log /\ left' = left
         \/ /\ left' = left - 1 /\ left > 0
            /\ \E e \in Entry : log' = Append(log, e) /\ Admissible(t, approvals', e)
  PROVE  TableAndLog
<1>1. RowsKept(approvals, approvals')
  BY DEF RowsKept
<1>2. CASE log' = log /\ left' = left
  BY <1>1, <1>2, OldEntries DEF TableAndLog, IInv, TypeOK
<1>3. CASE /\ left' = left - 1 /\ left > 0
           /\ \E e \in Entry : log' = Append(log, e) /\ Admissible(t, approvals', e)
  <2>1. PICK e \in Entry : log' = Append(log, e) /\ Admissible(t, approvals', e)
    BY <1>3
  <2>2. /\ log \in Seq(Entry) /\ Len(log) \in Nat /\ DOMAIN log = 1..Len(log)
        /\ left \in 0..MaxExecutions /\ left + Len(log) = MaxExecutions
    <3>1. log \in Seq(Entry) /\ left \in 0..MaxExecutions /\ left + Len(log) = MaxExecutions
      BY DEF IInv, TypeOK
    <3>2. QED
      BY <3>1, LenProperties
  <2>3. /\ log' \in Seq(Entry) /\ Len(log') = Len(log) + 1
        /\ DOMAIN log' = 1..(Len(log) + 1)
        /\ \A n \in DOMAIN log : log'[n] = log[n]
        /\ log'[Len(log) + 1] = e
    <3>1. /\ Append(log, e) \in Seq(Entry) /\ Len(Append(log, e)) = Len(log) + 1
          /\ \A n \in 1..Len(log) : Append(log, e)[n] = log[n]
          /\ Append(log, e)[Len(log) + 1] = e
      BY <2>2, AppendProperties
    <3>2. DOMAIN Append(log, e) = 1..(Len(log) + 1)
      BY <3>1, LenProperties
    <3>3. QED
      BY <2>1, <2>2, <3>1, <3>2
  <2>4. left' \in 0..MaxExecutions /\ left' + Len(log') = MaxExecutions
    <3>1. left' = left - 1 /\ left > 0
      BY <1>3
    <3>2. \A m \in Nat, l \in 0..MaxExecutions :
            l > 0 /\ l + m = MaxExecutions
              => l - 1 \in 0..MaxExecutions /\ (l - 1) + (m + 1) = MaxExecutions
      OBVIOUS
    <3>3. left - 1 \in 0..MaxExecutions /\ (left - 1) + (Len(log) + 1) = MaxExecutions
      BY <2>2, <3>1, <3>2
    <3>4. QED
      BY <2>3, <3>1, <3>3
  <2>5. \A n \in DOMAIN log : EntryJustified(n)
    BY DEF IInv, LogJustified
  <2>6. \A n \in DOMAIN log : log[n].approval # 0 => log[n].approval # e.approval
    BY <2>1, <2>5 DEF EntryJustified, Admissible
  <2>7. ASSUME NEW n \in DOMAIN log
        PROVE  EntryJustified(n)'
    <3>1. log'[n] = log[n] /\ n \in DOMAIN log'
      BY <2>2, <2>3
    <3>2. \A m \in DOMAIN log' :
            log[n].approval # 0 /\ log'[m].approval = log[n].approval => m \in DOMAIN log
      BY <2>2, <2>3, <2>6
    <3>3. EntryJustified(n) /\ VerdictOf(log[n])' = VerdictOf(log[n])
      BY <2>5, <3>1 DEF VerdictOf
    <3>4. \A m \in DOMAIN log' : log[n].approval # 0 /\ log'[m].approval = log[n].approval
                                   => m = n
      BY <2>3, <3>2, <3>3 DEF EntryJustified
    <3>5. QED
      BY <1>1, <3>1, <3>3, <3>4, SMTT(20) DEF EntryJustified, RowsKept
  <2>8. ASSUME NEW n, n = Len(log) + 1
        PROVE  EntryJustified(n)'
    <3>1. log'[n] = e /\ n \in DOMAIN log'
      BY <2>2, <2>3, <2>8
    <3>2. \A m \in DOMAIN log' : e.approval # 0 /\ log'[m].approval = e.approval => m = n
      <4>1. \A m \in DOMAIN log' : m # n => m \in DOMAIN log /\ log'[m] = log[m]
        BY <2>2, <2>3, <2>8
      <4>2. QED
        BY <2>6, <4>1
    <3>3. e.approval = 0 => VerdictOf(e) = "allow"
      <4>1. DOMAIN t = 1..Len(t) /\ Len(t) \in Nat
        BY LenProperties
      <4>2. QED
        BY <2>1, <4>1 DEF Admissible
    <3>4. e.approval # 0 => /\ e.approval \in DOMAIN approvals'
                            /\ approvals'[e.approval].status = "approved"
                            /\ approvals'[e.approval].consumed
                            /\ approvals'[e.approval].request = e.request
      <4>1. SUFFICES ASSUME e.approval # 0
                     PROVE  /\ e.approval \in DOMAIN approvals'
                            /\ approvals'[e.approval].status = "approved"
                            /\ approvals'[e.approval].consumed
                            /\ approvals'[e.approval].request = e.request
        OBVIOUS
      <4>2. PICK k \in DOMAIN t : k = e.approval
        BY <2>1, <4>1 DEF Admissible
      <4>3. t[k].status = "approved" /\ t[k].request = e.request /\ approvals' = Consumed(t, k)
        BY <2>1, <4>1, <4>2 DEF Admissible
      <4>4. QED
        BY <4>2, <4>3, ConsumedRow
    <3>5. VerdictOf(e)' = VerdictOf(e)
      BY DEF VerdictOf
    <3>6. QED
      BY <3>1, <3>2, <3>3, <3>4, <3>5 DEF EntryJustified, VerdictOf
  <2>9. LogJustified'
    BY <2>2, <2>3, <2>7, <2>8 DEF LogJustified
  <2>10. QED
    BY <1>1, <2>3, <2>4, <2>9 DEF TableAndLog
<1>4. QED
  BY <1>2, <1>3

-----------------------------------------------------------------------------
(* The identities.                                                         *)

\* What the calls of runs are checked under can be stored.
LEMMA CheckedAsStorable ==
  ASSUME TypeOK, IdentityStorable
  PROVE  CheckedAs \in Identities /\ StoredOf(CheckedAs) \in Requesters
BY DEF CheckedAs, TypeOK, IdentityStorable, Identities, Senders, StoredOf

\* What resume_approval makes of a requester is stored as that requester.
LEMMA ResumedAsStorable ==
  ASSUME NEW requester \in Requesters
  PROVE  /\ ResumedAs(requester) \in Identities
         /\ StoredOf(ResumedAs(requester)) = requester
<1>1. requester \in [principal : STRING, role : STRING]
  OBVIOUS
<1>2. requester = [principal |-> requester.principal, role |-> requester.role]
  BY <1>1
<1>3. QED
  BY <1>1, <1>2 DEF ResumedAs, StoredOf, Identities, Senders

\* The rows of the table are rows.
LEMMA RowOfTable ==
  ASSUME TypeOK, NEW k \in DOMAIN approvals
  PROVE  /\ approvals[k].request \in Requests /\ approvals[k].requester \in Requesters
         /\ k \in 1..MaxApprovals
<1>1. approvals \in Seq(Row) /\ Len(approvals) <= MaxApprovals
  BY DEF TypeOK
<1>2. approvals[k] \in Row /\ k \in 1..Len(approvals) /\ Len(approvals) \in Nat
  BY <1>1, LenProperties, ElementOfSeq
<1>3. QED
  BY <1>1, <1>2 DEF Row

-----------------------------------------------------------------------------
(* The invariant is one.                                                   *)

LEMMA InvInit == Init => IInv
<1> SUFFICES ASSUME Init
             PROVE  IInv
  OBVIOUS
<1>1. approvals \in Seq(Row) /\ Len(approvals) = 0 /\ log \in Seq(Entry) /\ Len(log) = 0
  BY EmptySeq DEF Init
<1>2. TypeOK
  BY <1>1 DEF TypeOK, Init
<1>3. DOMAIN log = {}
  BY DEF Init
<1>4. QED
  BY <1>1, <1>2, <1>3 DEF IInv, Init, IdentityStorable, ReviewsOfRows, LogJustified

\* A call of a run.
LEMMA CallKeepsInv ==
  ASSUME IInv, NEW r \in Runs, NEW request \in Requests, Call(r, request)
  PROVE  TableAndLog
<1>1. Attempt(approvals, r, request, CheckedAs, 0)
  BY DEF Call
<1>2. CheckedAs \in Identities /\ StoredOf(CheckedAs) \in Requesters
  BY CheckedAsStorable DEF IInv
<1>3. PICK as \in Identities : as = CheckedAs
  BY <1>2
<1>4. /\ approvals' \in Seq(Row) /\ Len(approvals') <= MaxApprovals
      /\ RowsKept(approvals, approvals')
      /\ \/ log' = log /\ left' = left
         \/ /\ left' = left - 1 /\ left > 0
            /\ \E e \in Entry : log' = Append(log, e) /\ Admissible(approvals, approvals', e)
  <2>1. Attempt(approvals, r, request, as, 0)
    BY <1>1, <1>3
  <2>2. approvals \in Seq(Row) /\ Len(approvals) <= MaxApprovals
    BY DEF IInv, TypeOK
  <2>3. QED
    <3>1. StoredOf(as) \in Requesters /\ r \in Runs \cup Reviews /\ 0 \in Nat
      BY <1>2, <1>3
    <3>2. TypeOK /\ log \in Seq(Entry)
      BY DEF IInv
    <3>3. AttemptOutcome(approvals, r, request, as, 0)
      BY <2>1, <2>2, <3>1, <3>2, AttemptCases
    <3>4. QED
      BY <3>3 DEF AttemptOutcome
<1>5. RowsKept(approvals, approvals) /\ approvals \in Seq(Row)
  BY DEF RowsKept, IInv, TypeOK
<1>6. QED
  BY <1>4, <1>5, LogStep

\* The table a resumption works on, and whom it works for.
LEMMA ResumptionStarts ==
  ASSUME TypeOK, NEW v \in Reviews, NEW k \in DOMAIN approvals, NEW decision \in Decisions,
         Approve(v, k, decision)
  PROVE  \E t \in Seq(Row), as \in Identities :
           /\ t = AfterDecision(k, decision) /\ as = ResumedAs(approvals[k].requester)
           /\ Len(t) <= MaxApprovals /\ DOMAIN t = DOMAIN approvals
           /\ RowsKept(approvals, t)
           /\ \A j \in DOMAIN t :
                t[j].consumed = approvals[j].consumed /\ (j # k => t[j] = approvals[j])
           /\ StoredOf(as) = approvals[k].requester /\ StoredOf(as) \in Requesters
           /\ Attempt(t, v, approvals[k].request, as, k)
<1>1. approvals[k].requester \in Requesters
  BY RowOfTable
<1>2. PICK as \in Identities : as = ResumedAs(approvals[k].requester)
                               /\ StoredOf(as) = approvals[k].requester
  BY <1>1, ResumedAsStorable
<1>3. PICK t \in Seq(Row) : t = AfterDecision(k, decision)
  BY AfterDecisionTable
<1>4. Attempt(t, v, approvals[k].request, as, k)
  BY <1>2, <1>3 DEF Approve
<1>5. Len(t) <= MaxApprovals
  BY <1>3, AfterDecisionTable DEF TypeOK
<1>6. QED
  BY <1>1, <1>2, <1>3, <1>4, <1>5, AfterDecisionTable

\* The resumption of an approval.
LEMMA ApproveKeepsInv ==
  ASSUME IInv, NEW v \in Reviews, NEW k \in DOMAIN approvals, NEW decision \in Decisions,
         Approve(v, k, decision)
  PROVE  TableAndLog
<1>1. TypeOK /\ log \in Seq(Entry)
  BY DEF IInv
<1>2. PICK t \in Seq(Row), as \in Identities :
        /\ Len(t) <= MaxApprovals /\ DOMAIN t = DOMAIN approvals
        /\ RowsKept(approvals, t)
        /\ \A j \in DOMAIN t : t[j].consumed = approvals[j].consumed
        /\ StoredOf(as) \in Requesters
        /\ Attempt(t, v, approvals[k].request, as, k)
  BY <1>1, ResumptionStarts
<1>3. approvals[k].request \in Requests /\ k \in Nat
  BY <1>1, RowOfTable
<1>4. PICK request \in Requests : request = approvals[k].request
  BY <1>3
<1>5. Attempt(t, v, request, as, k)
  BY <1>2, <1>4
<1>6. /\ approvals' \in Seq(Row) /\ Len(approvals') <= MaxApprovals
      /\ RowsKept(t, approvals')
      /\ \/ log' = log /\ left' = left
         \/ /\ left' = left - 1 /\ left > 0
            /\ \E e \in Entry : log' = Append(log, e) /\ Admissible(t, approvals', e)
  <2>1. AttemptOutcome(t, v, request, as, k)
    BY <1>1, <1>2, <1>3, <1>5, AttemptCases
  <2>2. QED
    BY <2>1 DEF AttemptOutcome
<1>7. QED
  BY <1>2, <1>6, LogStep

\* A step that leaves the log alone and keeps the rows.
LEMMA QuietStep ==
  ASSUME IInv, UNCHANGED <<left, log>>,
         approvals' \in Seq(Row), Len(approvals') <= MaxApprovals,
         RowsKept(approvals, approvals')
  PROVE  TableAndLog
<1>1. approvals \in Seq(Row) /\ RowsKept(approvals, approvals)
  BY DEF IInv, TypeOK, RowsKept
<1>2. QED
  BY <1>1, LogStep

\* A record made by hand: the rows stay, one is added that has no arguments.
LEMMA InsertByHand ==
  ASSUME approvals \in Seq(Row), Len(approvals) <= MaxApprovals,
         NEW request \in Requests, CreateByHand(request)
  PROVE  /\ approvals' \in Seq(Row) /\ Len(approvals') <= MaxApprovals
         /\ RowsKept(approvals, approvals')
         /\ \A j \in DOMAIN approvals : approvals'[j] = approvals[j]
         /\ \A j \in DOMAIN approvals' \ DOMAIN approvals :
              approvals'[j].request = request /\ approvals'[j].requester = ByHand
<1>1. PICK q \in Requesters : q = ByHand
  OBVIOUS
<1> HIDE GateAssumption
<1>2. PICK u : u = WithPending(approvals, request, q)
  OBVIOUS
<1>3. approvals' = u /\ Len(approvals) < MaxApprovals
  BY <1>1, <1>2 DEF CreateByHand
<1>4. /\ u \in Seq(Row) /\ Len(u) = Len(approvals) + 1 /\ DOMAIN approvals \subseteq DOMAIN u
      /\ \A j \in DOMAIN approvals : u[j] = approvals[j]
      /\ \A j \in DOMAIN u : j \notin DOMAIN approvals =>
           u[j].request = request /\ u[j].requester = q /\ u[j].status = "pending"
  BY <1>2, InsertedTable
<1>5. /\ approvals' \in Seq(Row) /\ Len(approvals') = Len(approvals) + 1
      /\ DOMAIN approvals \subseteq DOMAIN approvals'
      /\ \A j \in DOMAIN approvals : approvals'[j] = approvals[j]
      /\ \A j \in DOMAIN approvals' : j \notin DOMAIN approvals =>
           approvals'[j].request = request /\ approvals'[j].requester = q
  BY <1>3, <1>4
<1>6. Len(approvals') <= MaxApprovals
  <2>1. Len(approvals) \in Nat /\ MaxApprovals \in Nat
    BY LenProperties, GateAssumption
  <2>2. QED
    BY <1>3, <1>5, <2>1
<1>7. QED
  BY <1>1, <1>5, <1>6 DEF RowsKept

LEMMA InvNext == IInv /\ [Next]_vars => IInv'
<1> SUFFICES ASSUME IInv, [Next]_vars
             PROVE  IInv'
  OBVIOUS
<1> USE DEF IInv
<1>1. approvals \in Seq(Row) /\ Len(approvals) <= MaxApprovals /\ RowsKept(approvals, approvals)
  BY DEF TypeOK, RowsKept
<1>2. ASSUME TableAndLog, ReviewsOfRows', IdentityStorable', identity' \in Identities \cup {NoIdentity},
             run' \in [Runs -> {"idle", "running", "executing"}],
             review' \in [Reviews -> 0..MaxApprovals], UNCHANGED overlapping
      PROVE  IInv'
  BY <1>2 DEF TableAndLog, TypeOK
<1>3. ASSUME UNCHANGED review, RowsKept(approvals, approvals')
      PROVE  ReviewsOfRows' /\ review' \in [Reviews -> 0..MaxApprovals]
  BY <1>3 DEF ReviewsOfRows, RowsKept, TypeOK
<1>4. ASSUME NEW r \in Runs, NEW state \in {"idle", "running", "executing"}
      PROVE  [run EXCEPT ![r] = state] \in [Runs -> {"idle", "running", "executing"}]
  BY <1>4 DEF TypeOK
<1>5. UNCHANGED identity => IdentityStorable' /\ identity' \in Identities \cup {NoIdentity}
  BY DEF IdentityStorable, TypeOK
<1>6. identity' = NoIdentity => IdentityStorable' /\ identity' \in Identities \cup {NoIdentity}
  BY DEF IdentityStorable
<1>7. UNCHANGED run => run' \in [Runs -> {"idle", "running", "executing"}]
  BY DEF TypeOK
<1>8. CASE UNCHANGED vars
  <2>1. TableAndLog
    BY <1>1, <1>8, QuietStep DEF vars
  <2>2. QED
    BY <1>1, <1>2, <1>3, <1>5, <1>7, <1>8, <2>1 DEF vars
<1>9. ASSUME NEW r \in Runs, Begin(r), UNCHANGED overlapping
      PROVE  IInv'
  <2>1. TableAndLog /\ RowsKept(approvals, approvals')
    BY <1>1, <1>9, QuietStep DEF Begin
  <2>2. identity' \in Identities \cup {NoIdentity} /\ IdentityStorable'
    BY <1>9 DEF Begin, IdentityStorable, StoredOf
  <2>3. QED
    BY <1>2, <1>3, <1>4, <1>9, <2>1, <2>2 DEF Begin
<1>10. ASSUME NEW r \in Runs, NEW request \in Requests, Call(r, request), UNCHANGED overlapping
       PROVE  IInv'
  <2>1. TableAndLog
    BY <1>10, CallKeepsInv
  <2>2. RowsKept(approvals, approvals')
    BY <2>1 DEF TableAndLog
  <2>3. run' \in [Runs -> {"idle", "running", "executing"}]
    BY <1>4, <1>10 DEF Call
  <2>4. QED
    BY <1>2, <1>3, <1>5, <1>10, <2>1, <2>2, <2>3 DEF Call
<1>11. ASSUME NEW r \in Runs, ToolReturns(r), UNCHANGED overlapping
       PROVE  IInv'
  <2>1. TableAndLog /\ RowsKept(approvals, approvals')
    BY <1>1, <1>11, QuietStep DEF ToolReturns
  <2>2. QED
    BY <1>2, <1>3, <1>4, <1>5, <1>11, <2>1 DEF ToolReturns
<1>12. ASSUME NEW r \in Runs, End(r), UNCHANGED overlapping
       PROVE  IInv'
  <2>1. TableAndLog /\ RowsKept(approvals, approvals')
    BY <1>1, <1>12, QuietStep DEF End
  <2>2. QED
    BY <1>2, <1>3, <1>4, <1>6, <1>12, <2>1 DEF End
<1>13. ASSUME NEW k \in DOMAIN approvals, NEW decision \in Decisions, DecideOnly(k, decision),
              UNCHANGED overlapping
       PROVE  IInv'
  <2>1. /\ approvals' \in Seq(Row) /\ Len(approvals') <= MaxApprovals
        /\ RowsKept(approvals, approvals')
    BY <1>1, <1>13, AfterDecisionTable DEF DecideOnly
  <2>2. TableAndLog
    BY <1>13, <2>1, QuietStep DEF DecideOnly
  <2>3. QED
    BY <1>2, <1>3, <1>5, <1>7, <1>13, <2>1, <2>2 DEF DecideOnly
<1>14. ASSUME NEW v \in Reviews, NEW k \in DOMAIN approvals, NEW decision \in Decisions,
              Approve(v, k, decision), UNCHANGED overlapping
       PROVE  IInv'
  <2>1. TableAndLog
    BY <1>14, ApproveKeepsInv
  <2>2. RowsKept(approvals, approvals')
    BY <2>1 DEF TableAndLog
  <2>3. k \in 1..MaxApprovals /\ k \in DOMAIN approvals'
    BY <2>2, RowOfTable DEF RowsKept
  <2>4. ReviewsOfRows' /\ review' \in [Reviews -> 0..MaxApprovals]
    BY <1>14, <2>2, <2>3 DEF Approve, ReviewsOfRows, RowsKept, TypeOK
  <2>5. identity' \in Identities \cup {NoIdentity} /\ IdentityStorable'
    BY <1>14, RowOfTable, ResumedAsStorable DEF Approve, IdentityStorable
  <2>6. QED
    BY <1>2, <1>7, <1>14, <2>1, <2>4, <2>5 DEF Approve
<1>15. ASSUME NEW v \in Reviews, Resumed(v), UNCHANGED overlapping
       PROVE  IInv'
  <2>1. TableAndLog /\ RowsKept(approvals, approvals')
    BY <1>1, <1>15, QuietStep DEF Resumed
  <2>2. ReviewsOfRows' /\ review' \in [Reviews -> 0..MaxApprovals]
    BY <1>15 DEF Resumed, ReviewsOfRows, TypeOK
  <2>3. QED
    BY <1>2, <1>6, <1>7, <1>15, <2>1, <2>2 DEF Resumed
<1>16. ASSUME NEW request \in Requests, CreateByHand(request), UNCHANGED overlapping
       PROVE  IInv'
  <2>1. /\ approvals' \in Seq(Row) /\ Len(approvals') <= MaxApprovals
        /\ RowsKept(approvals, approvals')
    BY <1>1, <1>16, InsertByHand
  <2>2. TableAndLog
    BY <1>16, <2>1, QuietStep DEF CreateByHand
  <2>3. QED
    BY <1>2, <1>3, <1>5, <1>7, <1>16, <2>1, <2>2 DEF CreateByHand
<1>17. QED
  BY <1>8, <1>9, <1>10, <1>11, <1>12, <1>13, <1>14, <1>15, <1>16 DEF Next, Step

\* The invariant holds of every behaviour.
THEOREM InvAlways == Spec => []IInv
BY InvInit, InvNext, PTL DEF Spec

\* Every variable keeps its type.
THEOREM TypeCorrect == Spec => []TypeOK
<1>1. IInv => TypeOK
  BY DEF IInv
<1>2. QED
  BY <1>1, InvAlways, PTL

\* A call that the policies want approved is only executed on a used-up
\* approval of exactly its request, one execution per approval.
THEOREM ApprovalComesFirst == Spec => []ApprovedFirst
<1>1. IInv => ApprovedFirst
  BY DEF IInv, LogJustified, EntryJustified, ApprovedFirst, VerdictOf
<1>2. QED
  BY <1>1, InvAlways, PTL

\* With the governance enabled, the policies never just allow the write of a
\* memory or skill file.
LEMMA ProtectedNeverAllowed ==
  ASSUME Governed, NEW tool, NEW role, NEW sender,
         tool.kind = "file", tool.writes, tool.protected
  PROVE  Verdict(tool, role, sender) # "allow"
<1>1. GovernanceVerdict(tool, role, sender) \in {"deny", "require_approval"}
  BY DEF GovernanceVerdict
<1>2. Governance(tool, role, sender) \in {"deny", "require_approval"}
  BY <1>1 DEF Governance
<1>3. QED
  BY <1>2 DEF Verdict

\* With the governance enabled, a memory or skill file is never written without
\* an approval, whoever asks, whatever the lists of ToolPolicy, the approval
\* level and the roles.
THEOREM ProtectedFilesStayApproved == Spec => []ProtectedFilesApproved
<1>1. IInv => ProtectedFilesApproved
  <2>1. SUFFICES ASSUME IInv, Governed, NEW n \in DOMAIN log,
                        LET tool == Tool[log[n].request] IN
                          tool.kind = "file" /\ tool.writes /\ tool.protected
                 PROVE  log[n].approval # 0
    BY DEF ProtectedFilesApproved
  <2>2. VerdictOf(log[n]) # "allow"
    BY <2>1, ProtectedNeverAllowed DEF VerdictOf
  <2>3. QED
    BY <2>1, <2>2 DEF IInv, LogJustified, EntryJustified
<1>2. QED
  BY <1>1, InvAlways, PTL

-----------------------------------------------------------------------------
(* Whose calls they are: as long as runs and resumptions do not overlap,   *)
(* whoever is under way is alone, and the identity of the session is its   *)
(* own.                                                                    *)

OnlyRun(r) ==
  /\ identity = Who[r]
  /\ \A other \in Runs : run[other] # "idle" => other = r
  /\ \A v \in Reviews : review[v] = 0

OnlyReview(v) ==
  /\ identity = ResumedAs(approvals[review[v]].requester)
  /\ \A other \in Reviews : review[other] # 0 => other = v
  /\ \A r \in Runs : run[r] = "idle"

Owned ==
  ~overlapping => /\ \A r \in Runs : run[r] # "idle" => OnlyRun(r)
                  /\ \A v \in Reviews : review[v] # 0 => OnlyReview(v)

\* The runs under way have a role; those who asked for an approval, and whoever
\* the session's identity is, have a name or a role.
Known(who) == who.principal # "" \/ who.role # ""

RunsMayRun == \A r \in Runs : run[r] # "idle" => Who[r].role # ""

AskersKnown == \A k \in DOMAIN approvals : Known(approvals[k].requester)

IdentityKnown == identity # NoIdentity => Known(identity)

\* The entries act as those they are made for.
Behaved ==
  \A n \in DOMAIN log :
    /\ log[n].resumed # 0 => log[n].resumed \in DOMAIN approvals
    /\ overlapping \/ log[n].as = OnBehalfOf(log[n])

OInv == IInv /\ Owned /\ RunsMayRun /\ AskersKnown /\ IdentityKnown /\ Behaved

\* Without a role no run begins.
LEMMA NoRoleNoRun == ~Authorized("", "run.create")
BY DEF Authorized, RolePermissions

\* Who asks for an approval is known.
LEMMA AskerIsKnown ==
  ASSUME NEW t, NEW by, NEW request, NEW as, NEW resumed, Known(as),
         AttemptOutcome(t, by, request, as, resumed)
  PROVE  /\ RowsKept(t, approvals')
         /\ \A k \in DOMAIN approvals' \ DOMAIN t : Known(approvals'[k].requester)
<1>1. Known(StoredOf(as))
  BY DEF Known, StoredOf
<1>2. QED
  BY <1>1 DEF AttemptOutcome

\* Rows keep their requesters, new ones have a known one: all stay known, and
\* what the old entries were made for stays what it was.
LEMMA RowsKeptOwners ==
  ASSUME OInv, RowsKept(approvals, approvals'),
         \A k \in DOMAIN approvals' \ DOMAIN approvals : Known(approvals'[k].requester)
  PROVE  /\ AskersKnown'
         /\ UNCHANGED <<log, overlapping>> => Behaved'
         /\ \A k \in DOMAIN approvals :
              k \in DOMAIN approvals' /\ approvals'[k].requester = approvals[k].requester
<1>1. \A k \in DOMAIN approvals :
        k \in DOMAIN approvals' /\ approvals'[k].requester = approvals[k].requester
  BY DEF RowsKept
<1>2. AskersKnown'
  BY <1>1 DEF OInv, AskersKnown
<1>3. UNCHANGED <<log, overlapping>> => Behaved'
  <2>1. SUFFICES ASSUME UNCHANGED <<log, overlapping>>
                 PROVE  Behaved'
    OBVIOUS
  <2>2. ASSUME NEW n \in DOMAIN log
        PROVE  /\ log[n].resumed # 0 => log[n].resumed \in DOMAIN approvals'
               /\ overlapping \/ log[n].as = OnBehalfOf(log[n])'
    <3>1. /\ log[n].resumed # 0 => log[n].resumed \in DOMAIN approvals
          /\ overlapping \/ log[n].as = OnBehalfOf(log[n])
      BY DEF OInv, Behaved
    <3>2. log[n]' = log[n]
      BY <2>1
    <3>3. OnBehalfOf(log[n])' = OnBehalfOf(log[n])
      BY <1>1, <3>1, <3>2 DEF OnBehalfOf
    <3>4. QED
      BY <1>1, <3>1, <3>3
  <2>3. QED
    BY <2>1, <2>2 DEF Behaved, OnBehalfOf
<1>4. QED
  BY <1>1, <1>2, <1>3

\* One more entry, that acts as it should.
LEMMA BehavedAppend ==
  ASSUME OInv, NEW e \in Entry, log' = Append(log, e), UNCHANGED overlapping,
         \A k \in DOMAIN approvals :
           k \in DOMAIN approvals' /\ approvals'[k].requester = approvals[k].requester,
         e.resumed # 0 => e.resumed \in DOMAIN approvals,
         overlapping \/ e.as = OnBehalfOf(e)
  PROVE  Behaved'
<1>1. log \in Seq(Entry) /\ Len(log) \in Nat /\ DOMAIN log = 1..Len(log)
  <2>1. log \in Seq(Entry)
    BY DEF OInv, IInv
  <2>2. QED
    BY <2>1, LenProperties
<1>2. /\ log' \in Seq(Entry) /\ Len(log') = Len(log) + 1
      /\ \A n \in 1..Len(log) : log'[n] = log[n]
      /\ log'[Len(log) + 1] = e
  BY <1>1, AppendProperties
<1>3. DOMAIN log' = 1..(Len(log) + 1)
  BY <1>2, LenProperties
<1>4. ASSUME NEW n \in DOMAIN log'
      PROVE  (n \in DOMAIN log /\ log'[n] = log[n]) \/ log'[n] = e
  BY <1>1, <1>2, <1>3
<1>5. \A n \in DOMAIN log :
        /\ log[n].resumed # 0 => log[n].resumed \in DOMAIN approvals
        /\ overlapping \/ log[n].as = OnBehalfOf(log[n])
  BY DEF OInv, Behaved
<1>6. QED
  BY <1>4, <1>5 DEF Behaved, OnBehalfOf

LEMMA NoIdentityIsUnknown == NoIdentity.role = "" /\ ~Known(NoIdentity)
BY DEF NoIdentity, Known

LEMMA OwnedInit == Init => OInv
<1> SUFFICES ASSUME Init
             PROVE  OInv
  OBVIOUS
<1>1. IInv
  BY InvInit
<1>2. DOMAIN log = {} /\ DOMAIN approvals = {}
  BY DEF Init
<1>3. QED
  BY <1>1, <1>2 DEF Init, OInv, Owned, RunsMayRun, AskersKnown, IdentityKnown, Behaved

\* When nobody may overlap and no identity is registered, nobody is under way.
LEMMA QuietIsIdle ==
  ASSUME OInv, ~overlapping, Quiet
  PROVE  /\ \A r \in Runs : run[r] = "idle"
         /\ \A v \in Reviews : review[v] = 0
<1>1. ASSUME NEW r \in Runs, run[r] # "idle"
      PROVE  FALSE
  <2>1. identity = Who[r] /\ Who[r].role # ""
    BY <1>1 DEF OInv, Owned, OnlyRun, RunsMayRun
  <2>2. QED
    BY <2>1, NoIdentityIsUnknown DEF Quiet
<1>2. ASSUME NEW v \in Reviews, review[v] # 0
      PROVE  FALSE
  <2>1. identity = ResumedAs(approvals[review[v]].requester)
    BY <1>2 DEF OInv, Owned, OnlyReview
  <2>2. Known(approvals[review[v]].requester)
    BY <1>2 DEF OInv, IInv, ReviewsOfRows, AskersKnown
  <2>3. Known(identity)
    BY <2>1, <2>2 DEF Known, ResumedAs
  <2>4. QED
    BY <2>3, NoIdentityIsUnknown DEF Quiet
<1>3. QED
  BY <1>1, <1>2

\* A run calls as itself.
LEMMA RunCallsAsItself ==
  ASSUME OInv, NEW r \in Runs, run[r] = "running", ~overlapping
  PROVE  CheckedAs = Who[r]
<1>1. identity = Who[r] /\ Who[r].role # ""
  BY DEF OInv, Owned, OnlyRun, RunsMayRun
<1>2. QED
  BY <1>1, NoIdentityIsUnknown DEF CheckedAs

LEMMA CallKeepsOwned ==
  ASSUME OInv, NEW r \in Runs, NEW request \in Requests, Call(r, request), UNCHANGED overlapping
  PROVE  OInv'
<1>1. IInv'
  BY InvNext DEF OInv, Next, Step
<1>2. TypeOK /\ log \in Seq(Entry) /\ approvals \in Seq(Row) /\ Len(approvals) <= MaxApprovals
  BY DEF OInv, IInv, TypeOK
<1>3. PICK as \in Identities : as = CheckedAs /\ StoredOf(as) \in Requesters
  BY CheckedAsStorable DEF OInv, IInv
<1>4. Attempt(approvals, r, request, as, 0)
  BY <1>3 DEF Call
<1>5. AttemptOutcome(approvals, r, request, as, 0)
  <2>1. r \in Runs \cup Reviews /\ 0 \in Nat
    OBVIOUS
  <2>2. QED
    BY <1>2, <1>3, <1>4, <2>1, AttemptCases
<1>6. /\ RowsKept(approvals, approvals')
      /\ \A k \in DOMAIN approvals' \ DOMAIN approvals : Known(approvals'[k].requester)
  <2>1. Known(as)
    BY <1>3 DEF CheckedAs, Known, OInv, IdentityKnown
  <2>2. QED
    BY <1>5, <2>1, AskerIsKnown
<1>7. /\ AskersKnown'
      /\ UNCHANGED <<log, overlapping>> => Behaved'
      /\ \A k \in DOMAIN approvals :
           k \in DOMAIN approvals' /\ approvals'[k].requester = approvals[k].requester
  BY <1>6, RowsKeptOwners
<1>8. overlapping \/ as = Who[r]
  BY <1>3, RunCallsAsItself DEF Call
<1>9. Behaved'
  <2>1. CASE log' = log
    BY <1>7, <2>1
  <2>2. ASSUME NEW e \in Entry, log' = Append(log, e),
               e.by = r, e.as = as, e.resumed = 0
        PROVE  Behaved'
    <3>1. e.resumed = 0 /\ (overlapping \/ e.as = OnBehalfOf(e))
      BY <1>8, <2>2 DEF OnBehalfOf
    <3>2. QED
      BY <1>7, <2>2, <3>1, BehavedAppend
  <2>3. QED
    BY <1>5, <2>1, <2>2 DEF AttemptOutcome
<1>10. \A other \in Runs : run'[other] # "idle" => run[other] # "idle"
  BY DEF Call, OInv, IInv, TypeOK
<1>11. Owned'
  BY <1>7, <1>10 DEF OInv, IInv, ReviewsOfRows, Owned, OnlyRun, OnlyReview, Call
<1>12. RunsMayRun'
  BY <1>10 DEF OInv, RunsMayRun
<1>13. IdentityKnown'
  BY DEF Call, OInv, IdentityKnown
<1>14. QED
  BY <1>1, <1>7, <1>9, <1>11, <1>12, <1>13 DEF OInv

LEMMA ApproveKeepsOwned ==
  ASSUME OInv, NEW v \in Reviews, NEW k \in DOMAIN approvals, NEW decision \in Decisions,
         Approve(v, k, decision), UNCHANGED overlapping
  PROVE  OInv'
<1>1. IInv'
  BY InvNext DEF OInv, Next, Step
<1>2. TypeOK /\ log \in Seq(Entry)
  BY DEF OInv, IInv
<1>3. PICK t \in Seq(Row), as \in Identities :
        /\ as = ResumedAs(approvals[k].requester)
        /\ Len(t) <= MaxApprovals /\ DOMAIN t = DOMAIN approvals
        /\ RowsKept(approvals, t)
        /\ StoredOf(as) \in Requesters
        /\ Attempt(t, v, approvals[k].request, as, k)
  BY <1>2, ResumptionStarts
<1>4. approvals[k].request \in Requests /\ k \in Nat /\ k # 0
  BY <1>2, RowOfTable
<1>5. PICK request \in Requests : request = approvals[k].request
  BY <1>4
<1>6. Attempt(t, v, request, as, k)
  BY <1>3, <1>5
<1>7. AttemptOutcome(t, v, request, as, k)
  BY <1>2, <1>3, <1>4, <1>6, AttemptCases
<1>8. /\ RowsKept(t, approvals')
      /\ \A j \in DOMAIN approvals' \ DOMAIN approvals : Known(approvals'[j].requester)
  <2>1. Known(as)
    BY <1>3 DEF OInv, AskersKnown, Known, ResumedAs
  <2>2. QED
    BY <1>3, <1>7, <2>1, AskerIsKnown
<1>9. RowsKept(approvals, approvals')
  BY <1>3, <1>8 DEF RowsKept
<1>10. /\ AskersKnown'
       /\ UNCHANGED <<log, overlapping>> => Behaved'
       /\ \A j \in DOMAIN approvals :
            j \in DOMAIN approvals' /\ approvals'[j].requester = approvals[j].requester
  BY <1>8, <1>9, RowsKeptOwners
<1>11. Behaved'
  <2>1. CASE log' = log
    BY <1>10, <2>1
  <2>2. ASSUME NEW e \in Entry, log' = Append(log, e),
               e.by = v, e.as = as, e.resumed = k
        PROVE  Behaved'
    <3>1. e.resumed = k /\ e.as = OnBehalfOf(e)
      BY <1>3, <1>4, <2>2 DEF OnBehalfOf
    <3>2. QED
      BY <1>10, <2>2, <3>1, BehavedAppend
  <2>3. QED
    BY <1>7, <2>1, <2>2 DEF AttemptOutcome
<1>12. /\ review' = [review EXCEPT ![v] = k] /\ UNCHANGED run
       /\ identity' = ResumedAs(approvals[k].requester)
  BY DEF Approve
<1>13. Owned'
  <2>1. SUFFICES ASSUME ~overlapping
                 PROVE  Owned'
    BY DEF Owned
  <2>2. /\ \A r \in Runs : run[r] = "idle"
        /\ \A other \in Reviews : review[other] = 0
    BY <2>1, QuietIsIdle DEF Approve
  <2>3. \A other \in Reviews : review'[other] # 0 => other = v
    BY <1>12, <2>2 DEF OInv, IInv, TypeOK
  <2>4. review'[v] = k
    BY <1>2, <1>12 DEF TypeOK
  <2>5. OnlyReview(v)'
    BY <1>10, <1>12, <2>2, <2>3, <2>4 DEF OnlyReview
  <2>6. QED
    BY <1>12, <2>2, <2>3, <2>5 DEF Owned
<1>14. RunsMayRun'
  BY <1>12 DEF OInv, RunsMayRun
<1>15. IdentityKnown'
  BY <1>12 DEF OInv, AskersKnown, IdentityKnown, Known, ResumedAs
<1>16. QED
  BY <1>1, <1>10, <1>11, <1>13, <1>14, <1>15 DEF OInv

\* The steps that leave the approvals and the log alone.
LEMMA OthersKeepOwned ==
  ASSUME OInv, UNCHANGED <<approvals, log, overlapping>>, Owned', RunsMayRun', IdentityKnown',
         IInv'
  PROVE  OInv'
BY DEF OInv, AskersKnown, Behaved, OnBehalfOf

LEMMA OwnedNext == OInv /\ [Next]_vars => OInv'
<1> SUFFICES ASSUME OInv, [Next]_vars
             PROVE  OInv'
  OBVIOUS
<1>1. IInv' /\ TypeOK /\ ReviewsOfRows
  BY InvNext DEF OInv, IInv
<1>2. Owned /\ RunsMayRun /\ IdentityKnown
  BY DEF OInv
<1>3. CASE UNCHANGED vars
  BY <1>1, <1>3 DEF vars, OInv, Owned, OnlyRun, OnlyReview, RunsMayRun, AskersKnown,
                    IdentityKnown, Behaved, OnBehalfOf
<1>4. ASSUME NEW r \in Runs, Begin(r), UNCHANGED overlapping
      PROVE  OInv'
  <2>1. \A other \in Runs : run'[other] # "idle" => other = r \/ run[other] # "idle"
    BY <1>1, <1>4 DEF Begin, TypeOK
  <2>2. RunsMayRun'
    BY <1>2, <1>4, <2>1, NoRoleNoRun DEF Begin, RunsMayRun
  <2>3. ~overlapping => /\ \A other \in Runs : run[other] = "idle"
                        /\ \A v \in Reviews : review[v] = 0
    BY <1>4, QuietIsIdle DEF Begin
  <2>4. Owned'
    BY <1>4, <2>1, <2>3 DEF Begin, Owned, OnlyRun
  <2>5. IdentityKnown'
    BY <1>4, NoRoleNoRun DEF Begin, IdentityKnown, Known
  <2>6. QED
    BY <1>1, <1>4, <2>2, <2>4, <2>5, OthersKeepOwned DEF Begin
<1>5. ASSUME NEW r \in Runs, ToolReturns(r), UNCHANGED overlapping
      PROVE  OInv'
  <2>1. \A other \in Runs : run'[other] # "idle" => run[other] # "idle"
    BY <1>1, <1>5 DEF ToolReturns, TypeOK
  <2>2. Owned' /\ RunsMayRun'
    BY <1>2, <1>5, <2>1 DEF ToolReturns, Owned, OnlyRun, OnlyReview, RunsMayRun
  <2>3. IdentityKnown'
    BY <1>2, <1>5 DEF ToolReturns, IdentityKnown
  <2>4. QED
    BY <1>1, <1>5, <2>2, <2>3, OthersKeepOwned DEF ToolReturns
<1>6. ASSUME NEW r \in Runs, End(r), UNCHANGED overlapping
      PROVE  OInv'
  <2>1. \A other \in Runs : run'[other] # "idle" => other # r /\ run[other] # "idle"
    BY <1>1, <1>6 DEF End, TypeOK
  <2>2. RunsMayRun'
    BY <1>2, <2>1 DEF RunsMayRun
  <2>3. ~overlapping => \A other \in Runs : run'[other] = "idle"
    BY <1>2, <1>6, <2>1 DEF Owned, OnlyRun, End
  <2>4. ~overlapping => \A v \in Reviews : review[v] = 0
    BY <1>2, <1>6 DEF Owned, OnlyRun, End
  <2>5. Owned'
    BY <1>6, <2>3, <2>4 DEF Owned, End
  <2>6. IdentityKnown'
    BY <1>6 DEF End, IdentityKnown
  <2>7. QED
    BY <1>1, <1>6, <2>2, <2>5, <2>6, OthersKeepOwned DEF End
<1>7. ASSUME NEW k \in DOMAIN approvals, NEW decision \in Decisions, DecideOnly(k, decision),
             UNCHANGED overlapping
      PROVE  OInv'
  <2>1. /\ RowsKept(approvals, approvals') /\ DOMAIN approvals' = DOMAIN approvals
    BY <1>1, <1>7, AfterDecisionTable DEF DecideOnly
  <2>2. /\ AskersKnown' /\ Behaved'
        /\ \A j \in DOMAIN approvals :
             j \in DOMAIN approvals' /\ approvals'[j].requester = approvals[j].requester
    BY <1>7, <2>1, RowsKeptOwners DEF DecideOnly
  <2>3. Owned' /\ RunsMayRun'
    BY <1>1, <1>2, <1>7, <2>2 DEF DecideOnly, ReviewsOfRows, Owned, OnlyRun, OnlyReview, RunsMayRun
  <2>4. IdentityKnown'
    BY <1>2, <1>7 DEF DecideOnly, IdentityKnown
  <2>5. QED
    BY <1>1, <2>2, <2>3, <2>4 DEF OInv
<1>8. ASSUME NEW v \in Reviews, Resumed(v), UNCHANGED overlapping
      PROVE  OInv'
  <2>1. \A other \in Reviews : review'[other] # 0 => other # v /\ review[other] # 0
    BY <1>1, <1>8 DEF Resumed, TypeOK
  <2>2. RunsMayRun'
    BY <1>2, <1>8 DEF RunsMayRun, Resumed
  <2>3. ~overlapping => \A other \in Reviews : review'[other] = 0
    BY <1>2, <1>8, <2>1 DEF Owned, OnlyReview, Resumed
  <2>4. ~overlapping => \A r \in Runs : run[r] = "idle"
    BY <1>2, <1>8 DEF Owned, OnlyReview, Resumed
  <2>5. Owned'
    BY <1>8, <2>3, <2>4 DEF Owned, Resumed
  <2>6. IdentityKnown'
    BY <1>8 DEF Resumed, IdentityKnown
  <2>7. QED
    BY <1>1, <1>8, <2>2, <2>5, <2>6, OthersKeepOwned DEF Resumed
<1>9. ASSUME NEW request \in Requests, CreateByHand(request), UNCHANGED overlapping
      PROVE  OInv'
  <2>1. /\ RowsKept(approvals, approvals')
        /\ \A k \in DOMAIN approvals' \ DOMAIN approvals : Known(approvals'[k].requester)
    <3>1. Known(ByHand)
      BY DEF Known, ByHand
    <3>2. approvals \in Seq(Row) /\ Len(approvals) <= MaxApprovals
      BY <1>1 DEF TypeOK, OInv, IInv
    <3>3. QED
      BY <1>9, <3>1, <3>2, InsertByHand
  <2>2. /\ AskersKnown' /\ Behaved'
        /\ \A j \in DOMAIN approvals :
             j \in DOMAIN approvals' /\ approvals'[j].requester = approvals[j].requester
    BY <1>9, <2>1, RowsKeptOwners DEF CreateByHand
  <2>3. Owned' /\ RunsMayRun'
    BY <1>1, <1>2, <1>9, <2>2
       DEF CreateByHand, ReviewsOfRows, Owned, OnlyRun, OnlyReview, RunsMayRun
  <2>4. IdentityKnown'
    BY <1>2, <1>9 DEF CreateByHand, IdentityKnown
  <2>5. QED
    BY <1>1, <2>2, <2>3, <2>4 DEF OInv
<1>10. QED
  BY <1>3, <1>4, <1>5, <1>6, <1>7, <1>8, <1>9, CallKeepsOwned, ApproveKeepsOwned DEF Next, Step

\* A call is checked under the identity of the run that makes it, or of the
\* run that asked for the approval, as long as runs and resumptions of the
\* session do not overlap.
THEOREM ActsAsItselfHolds == Spec => []ActsAsItself
<1>1. OInv => ActsAsItself
  BY DEF OInv, Behaved, ActsAsItself
<1>2. QED
  BY <1>1, OwnedInit, OwnedNext, PTL DEF Spec

-----------------------------------------------------------------------------
(* Approvals of the callers whose calls are checked as those of "main":    *)
(* whoever asked needs an approval when the call is resumed too, so the    *)
(* resumption takes the approval in the step that decides it, and none is  *)
(* left for a later call.                                                  *)

\* Every run is one of "main": POST /runs, no subagents and no schedules.
AllMain == \A r \in Runs : Who[r].sender = "main"

\* A request that can be resumed at all can be whenever it is decided: with
\* arguments, no MCP tool is called.
ToolsStay == \A request \in Requests : Resumable(request) => AlwaysResumable(request)

NeedsApproval(row) ==
  Resumable(row.request) =>
    Verdict(Tool[row.request], row.requester.role, "main") = "require_approval"

\* A row of a table that has not been left with a spare approval; one that
\* cannot be resumed is left for the retry.
NoSpare(row) == Resumable(row.request) /\ row.status = "approved" => row.consumed

\* An entry that belongs to a resumption rests on the approval resumed.
RestsOnIts(e) == e.resumed # 0 => e.approval = e.resumed

MInv ==
  /\ IInv
  /\ identity.sender = "main"
  /\ \A k \in DOMAIN approvals : NeedsApproval(approvals[k]) /\ NoSpare(approvals[k])
  /\ \A n \in DOMAIN log : RestsOnIts(log[n])

\* No approval is spare afterwards, and an entry that is added for the
\* resumption of an approval of t rests on k.
TakesOnly(t, k, resumed) ==
  /\ \A j \in DOMAIN approvals' : NeedsApproval(approvals'[j]) /\ NoSpare(approvals'[j])
  /\ \/ log' = log
     \/ \E e \in Entry : /\ e.resumed = resumed /\ log' = Append(log, e)
                         /\ k \in DOMAIN t => e.approval = k

\* What an attempt under a main identity does to a table whose only spare
\* approval, if any, is k: the approval used is k, and none is left.
LEMMA AttemptTakes ==
  ASSUME NEW t \in Seq(Row), Len(t) <= MaxApprovals,
         NEW by \in Runs \cup Reviews, NEW request \in Requests, NEW as \in Identities,
         StoredOf(as) \in Requesters, as.sender = "main", NEW resumed \in Nat,
         Attempt(t, by, request, as, resumed),
         NEW k, \A j \in DOMAIN t : NeedsApproval(t[j]) /\ (j # k => NoSpare(t[j])),
         k \in DOMAIN t => /\ t[k].request = request /\ t[k].requester = StoredOf(as)
                           /\ Resumable(request)
  PROVE  TakesOnly(t, k, resumed)
<1>1. AttemptOutcome(t, by, request, as, resumed)
  BY AttemptCases
<1>2. /\ \A j \in DOMAIN t : /\ j \in DOMAIN approvals'
                             /\ approvals'[j].request = t[j].request
                             /\ approvals'[j].requester = t[j].requester
      /\ \A j \in DOMAIN approvals' \ DOMAIN t :
           /\ approvals'[j].request = request /\ approvals'[j].requester = StoredOf(as)
           /\ approvals'[j].status = "pending"
           /\ Verdict(Tool[request], as.role, as.sender) = "require_approval"
  BY <1>1 DEF AttemptOutcome, RowsKept
<1>3. StoredOf(as).role = as.role
  BY DEF StoredOf
<1>4. \A j \in DOMAIN approvals' : NeedsApproval(approvals'[j])
  BY <1>2, <1>3 DEF NeedsApproval
<1>5. k \in DOMAIN t => Verdict(Tool[request], as.role, as.sender) = "require_approval"
  BY <1>3 DEF NeedsApproval
<1>6. \A j \in DOMAIN approvals' \ DOMAIN t : NoSpare(approvals'[j])
  BY <1>2 DEF NoSpare
<1>7. Resumable(request) => \A j \in DOMAIN t : j \in Reusable(t, request, "approved") => j = k
  BY DEF Reusable, NoSpare
<1>8. CASE \E j \in DOMAIN t : Take(t, request, j) /\ Spend(by, request, as, j, resumed)
  <2>1. PICK j \in DOMAIN t : Take(t, request, j) /\ Spend(by, request, as, j, resumed)
    BY <1>8
  <2>2. /\ approvals' = Consumed(t, j) /\ t[j].request = request
        /\ Resumable(request) => j = k
    BY <1>7, <2>1 DEF Take, IsNewestReusable, Reusable
  <2>3. /\ DOMAIN approvals' = DOMAIN t /\ approvals'[j].consumed
        /\ \A i \in DOMAIN t : i # j => approvals'[i] = t[i]
    BY <2>2, ConsumedRow
  <2>4. ASSUME NEW i \in DOMAIN approvals'
        PROVE  NoSpare(approvals'[i])
    <3>1. CASE i = j
      BY <2>3, <3>1 DEF NoSpare
    <3>2. CASE i # j /\ i # k
      BY <2>3, <3>2
    <3>3. CASE i # j /\ i = k
      BY <2>2, <2>3, <3>3
    <3>4. QED
      BY <3>1, <3>2, <3>3
  <2>5. \/ log' = log
        \/ log' = Append(log, [by |-> by, request |-> request, as |-> as,
                               approval |-> j, resumed |-> resumed])
    BY <2>1 DEF Spend
  <2>6. j \in Nat /\ (k \in DOMAIN t => j = k)
    <3>1. j \in 1..Len(t) /\ Len(t) \in Nat
      BY LenProperties
    <3>2. k \in DOMAIN t => Resumable(request)
      OBVIOUS
    <3>3. k \in DOMAIN t => j = k
      BY <2>2, <3>2
    <3>4. j \in Nat
      BY <3>1
    <3>5. QED
      BY <3>3, <3>4
  <2>7. [by |-> by, request |-> request, as |-> as, approval |-> j, resumed |-> resumed] \in Entry
    BY <2>6 DEF Entry
  <2>8. QED
    BY <1>4, <2>4, <2>5, <2>6, <2>7 DEF TakesOnly
<1>9. CASE Ask(t, request, StoredOf(as)) /\ UNCHANGED <<left, log>>
  <2>1. \A j \in DOMAIN t : NoSpare(t[j])
    <3>1. Reusable(t, request, "approved") = {}
      BY <1>9 DEF Ask
    <3>2. k \in DOMAIN t => NoSpare(t[k])
      BY <3>1 DEF Reusable, NoSpare
    <3>3. QED
      BY <3>2
  <2>2. \A j \in DOMAIN t : approvals'[j] = t[j]
    <3>1. CASE approvals' = t
      BY <3>1
    <3>2. CASE approvals' = WithPending(t, request, StoredOf(as))
      <4>1. PICK q \in Requesters : q = StoredOf(as)
        OBVIOUS
      <4>2. approvals' = WithPending(t, request, q)
        BY <3>2, <4>1
      <4>3. QED
        BY <4>2, InsertRow
    <3>3. QED
      BY <1>9, <3>1, <3>2 DEF Ask
  <2>3. QED
    BY <1>4, <1>6, <1>9, <2>1, <2>2 DEF TakesOnly
<1>10. CASE /\ Verdict(Tool[request], as.role, as.sender) # "require_approval"
            /\ approvals' = t
  <2>1. k \notin DOMAIN t
    BY <1>5, <1>10
  <2>2. \A j \in DOMAIN approvals' : NoSpare(approvals'[j])
    BY <1>10, <2>1
  <2>3. \/ log' = log
        \/ Spend(by, request, as, 0, resumed)
    BY <1>10 DEF Attempt
  <2>4. [by |-> by, request |-> request, as |-> as, approval |-> 0, resumed |-> resumed] \in Entry
    BY DEF Entry
  <2>5. QED
    BY <1>4, <2>1, <2>2, <2>3, <2>4 DEF Spend, TakesOnly
<1>11. QED
  BY <1>8, <1>9, <1>10 DEF Attempt

\* One more entry that rests on the approval it should.
LEMMA RestsAppend ==
  ASSUME MInv, NEW e \in Entry, log' = Append(log, e), RestsOnIts(e)
  PROVE  \A n \in DOMAIN log' : RestsOnIts(log'[n])
<1>1. log \in Seq(Entry) /\ Len(log) \in Nat /\ DOMAIN log = 1..Len(log)
  <2>1. log \in Seq(Entry)
    BY DEF MInv, IInv
  <2>2. QED
    BY <2>1, LenProperties
<1>2. /\ log' \in Seq(Entry) /\ Len(log') = Len(log) + 1
      /\ \A n \in 1..Len(log) : log'[n] = log[n]
      /\ log'[Len(log) + 1] = e
  BY <1>1, AppendProperties
<1>3. DOMAIN log' = 1..(Len(log) + 1)
  BY <1>2, LenProperties
<1>4. ASSUME NEW n \in DOMAIN log'
      PROVE  (n \in DOMAIN log /\ log'[n] = log[n]) \/ log'[n] = e
  BY <1>1, <1>2, <1>3
<1>5. QED
  BY <1>4 DEF MInv

LEMMA MainInit == Init => MInv
<1> SUFFICES ASSUME Init
             PROVE  MInv
  OBVIOUS
<1>1. IInv
  BY InvInit
<1>2. DOMAIN log = {} /\ DOMAIN approvals = {}
  BY DEF Init
<1>3. identity.sender = "main"
  BY DEF Init, NoIdentity
<1>4. QED
  BY <1>1, <1>2, <1>3 DEF MInv

LEMMA MainNext == AllMain /\ ToolsStay /\ MInv /\ [Next]_vars => MInv'
<1> SUFFICES ASSUME AllMain, ToolsStay, MInv, [Next]_vars
             PROVE  MInv'
  OBVIOUS
<1>1. IInv' /\ IInv /\ TypeOK /\ approvals \in Seq(Row) /\ Len(approvals) <= MaxApprovals
  BY InvNext DEF MInv, IInv, TypeOK
<1>2. ASSUME UNCHANGED <<approvals, log>>, identity'.sender = "main"
      PROVE  MInv'
  BY <1>1, <1>2 DEF MInv
<1>3. NoIdentity.sender = "main"
  BY DEF NoIdentity
<1>4. CASE UNCHANGED vars
  BY <1>2, <1>4 DEF vars, MInv
<1>5. ASSUME NEW r \in Runs, Begin(r)
      PROVE  MInv'
  BY <1>2, <1>5 DEF Begin, AllMain
<1>6. ASSUME NEW r \in Runs, ToolReturns(r)
      PROVE  MInv'
  BY <1>2, <1>6 DEF ToolReturns, MInv
<1>7. ASSUME NEW r \in Runs, End(r)
      PROVE  MInv'
  BY <1>2, <1>3, <1>7 DEF End
<1>8. ASSUME NEW v \in Reviews, Resumed(v)
      PROVE  MInv'
  BY <1>2, <1>3, <1>8 DEF Resumed
<1>9. ASSUME NEW k \in DOMAIN approvals, NEW decision \in Decisions, DecideOnly(k, decision)
      PROVE  MInv'
  <2>1. /\ DOMAIN approvals' = DOMAIN approvals
        /\ RowsKept(approvals, approvals')
        /\ \A j \in DOMAIN approvals : j # k => approvals'[j] = approvals[j]
        /\ \/ approvals'[k].status # "approved"
           \/ ~Resumable(approvals'[k].request)
    <3>1. approvals[k].request \in Requests
      BY <1>1, RowOfTable
    <3>2. approvals' = AfterDecision(k, decision)
      BY <1>9 DEF DecideOnly
    <3>3. RowsKept(approvals, approvals')
      BY <1>1, <3>2, AfterDecisionTable
    <3>4. approvals'[k].request = approvals[k].request
      BY <3>3 DEF RowsKept
    <3>5. QED
      BY <1>1, <1>9, <3>1, <3>2, <3>4, AfterDecisionTable DEF DecideOnly, ToolsStay
  <2>2. \A j \in DOMAIN approvals' : NeedsApproval(approvals'[j]) /\ NoSpare(approvals'[j])
    BY <2>1 DEF MInv, NeedsApproval, NoSpare, RowsKept
  <2>3. UNCHANGED <<identity, log>>
    BY <1>9 DEF DecideOnly
  <2>4. QED
    BY <1>1, <2>2, <2>3 DEF MInv
<1>10. ASSUME NEW r \in Runs, NEW request \in Requests, Call(r, request)
       PROVE  MInv'
  <2>1. PICK as \in Identities :
          /\ StoredOf(as) \in Requesters /\ as.sender = "main"
          /\ Attempt(approvals, r, request, as, 0)
    <3>1. CheckedAs \in Identities /\ StoredOf(CheckedAs) \in Requesters
      BY <1>1, CheckedAsStorable DEF IInv
    <3>2. CheckedAs.sender = "main"
      BY DEF CheckedAs, MInv
    <3>3. QED
      BY <1>10, <3>1, <3>2 DEF Call
  <2>2. /\ \A j \in DOMAIN approvals : NeedsApproval(approvals[j]) /\ NoSpare(approvals[j])
        /\ 0 \notin DOMAIN approvals
    BY <1>1, RowOfTable DEF MInv
  <2>3. /\ \A j \in DOMAIN approvals' : NeedsApproval(approvals'[j]) /\ NoSpare(approvals'[j])
        /\ \/ log' = log
           \/ \E e \in Entry : e.resumed = 0 /\ log' = Append(log, e)
    <3>1. r \in Runs \cup Reviews /\ 0 \in Nat
      OBVIOUS
    <3>2. \A j \in DOMAIN approvals :
            NeedsApproval(approvals[j]) /\ (j # 0 => NoSpare(approvals[j]))
      BY <2>2
    <3>3. 0 \in DOMAIN approvals => /\ approvals[0].request = request
                                   /\ approvals[0].requester = StoredOf(as)
                                   /\ Resumable(request)
      BY <2>2
    <3>4. TakesOnly(approvals, 0, 0)
      BY <1>1, <2>1, <3>1, <3>2, <3>3, AttemptTakes
    <3>5. QED
      BY <3>4 DEF TakesOnly
  <2>4. \A n \in DOMAIN log' : RestsOnIts(log'[n])
    BY <2>3, RestsAppend DEF MInv, RestsOnIts
  <2>5. UNCHANGED identity
    BY <1>10 DEF Call
  <2>6. QED
    BY <1>1, <2>3, <2>4, <2>5 DEF MInv
<1>11. ASSUME NEW v \in Reviews, NEW k \in DOMAIN approvals, NEW decision \in Decisions,
              Approve(v, k, decision)
       PROVE  MInv'
  <2>1. PICK t \in Seq(Row), as \in Identities :
          /\ t = AfterDecision(k, decision) /\ as = ResumedAs(approvals[k].requester)
          /\ Len(t) <= MaxApprovals /\ DOMAIN t = DOMAIN approvals
          /\ RowsKept(approvals, t)
          /\ \A j \in DOMAIN t : j # k => t[j] = approvals[j]
          /\ StoredOf(as) = approvals[k].requester /\ StoredOf(as) \in Requesters
          /\ Attempt(t, v, approvals[k].request, as, k)
    BY <1>1, <1>11, ResumptionStarts
  <2>2. approvals[k].request \in Requests /\ k \in Nat /\ k # 0
    BY <1>1, RowOfTable
  <2>3. PICK request \in Requests : request = approvals[k].request
    BY <2>2
  <2>4. as.sender = "main"
    BY <2>1 DEF ResumedAs
  <2>5. \A j \in DOMAIN t : NeedsApproval(t[j]) /\ (j # k => NoSpare(t[j]))
    BY <2>1 DEF MInv, NeedsApproval, RowsKept
  <2>6. /\ t[k].request = request /\ t[k].requester = StoredOf(as) /\ k \in DOMAIN t
        /\ Resumable(request)
    BY <1>11, <2>1, <2>3 DEF RowsKept, Approve
  <2>7. Attempt(t, v, request, as, k)
    BY <2>1, <2>3
  <2>8. TakesOnly(t, k, k)
    BY <2>1, <2>2, <2>4, <2>5, <2>6, <2>7, AttemptTakes
  <2>9. \A n \in DOMAIN log' : RestsOnIts(log'[n])
    BY <2>6, <2>8, RestsAppend DEF MInv, RestsOnIts, TakesOnly
  <2>10. identity'.sender = "main"
    BY <1>11 DEF Approve, ResumedAs
  <2>11. QED
    BY <1>1, <2>8, <2>9, <2>10 DEF MInv, TakesOnly
<1>12. ASSUME NEW request \in Requests, CreateByHand(request)
       PROVE  MInv'
  <2>1. /\ \A j \in DOMAIN approvals : approvals'[j] = approvals[j]
        /\ \A j \in DOMAIN approvals' \ DOMAIN approvals : approvals'[j].request = request
    BY <1>1, <1>12, InsertByHand
  <2>2. ~Resumable(request)
    BY <1>12 DEF CreateByHand, Resumable
  <2>3. \A j \in DOMAIN approvals' : NeedsApproval(approvals'[j]) /\ NoSpare(approvals'[j])
    BY <2>1, <2>2 DEF MInv, NeedsApproval, NoSpare
  <2>4. UNCHANGED <<identity, log>>
    BY <1>12 DEF CreateByHand
  <2>5. QED
    BY <1>1, <2>3, <2>4 DEF MInv
<1>13. QED
  BY <1>4, <1>5, <1>6, <1>7, <1>8, <1>9, <1>10, <1>11, <1>12 DEF Next, Step

\* As long as no subagent asks, and no tool that may be unregistered is called
\* with arguments, an approval is good for one execution of its request.  (Run
\* gate_subagent shows what becomes of it when a subagent asks.)
THEOREM OneExecutionWithoutSubagents ==
  ASSUME AllMain, ToolsStay
  PROVE  Spec => []OneExecutionPerApproval
<1>1. MInv => OneExecutionPerApproval
  <2>1. SUFFICES ASSUME MInv, NEW k \in DOMAIN approvals,
                        NEW m \in RestingOn(k), NEW n \in RestingOn(k)
                 PROVE  m = n
    BY DEF OneExecutionPerApproval
  <2>2. k # 0
    <3>1. TypeOK
      BY <2>1 DEF MInv, IInv
    <3>2. k \in 1..MaxApprovals
      BY <3>1, RowOfTable
    <3>3. QED
      BY <3>2
  <2>3. log[m].approval = k /\ log[n].approval = k /\ m \in DOMAIN log /\ n \in DOMAIN log
    BY <2>1, <2>2 DEF RestingOn, MInv, RestsOnIts
  <2>4. EntryJustified(m)
    BY <2>1, <2>3 DEF MInv, IInv, LogJustified
  <2>5. QED
    BY <2>2, <2>3, <2>4 DEF EntryJustified
<1>2. MInv /\ [Next]_vars => MInv'
  BY MainNext
<1>3. QED
  BY <1>1, <1>2, MainInit, PTL DEF Spec
=============================================================================
