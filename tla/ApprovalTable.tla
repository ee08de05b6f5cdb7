---------------------------- MODULE ApprovalTable ----------------------------
(***************************************************************************)
(* The approvals table of api/approvals.py and what the SQL statements of  *)
(* WriteApprovalStore compute on it.  A table is a sequence of rows in     *)
(* created_at order; a row is named by its position (approval_id).         *)
(***************************************************************************)
EXTENDS Naturals, Sequences

CONSTANTS
  Requests,    \* fingerprints: SHA-256 of session, operation and payload
  Requesters   \* what is stored of the caller: its (principal, role)

Decisions == {"approved", "rejected"}

Row == [request   : Requests,
        requester : Requesters,
        status    : {"pending"} \cup Decisions,
        consumed  : BOOLEAN]

(* Mutant: the lookup forgets the fingerprint.                             *)
Reusable_AnyRequest(table, request, status) ==
  {k \in DOMAIN table : table[k].status = status /\ ~table[k].consumed}

(* The rows the SELECT of _find_reusable matches, and its ORDER BY         *)
(* created_at DESC LIMIT 1.                                                *)
Reusable(table, request, status) ==
  {k \in DOMAIN table : /\ table[k].request = request
                        /\ table[k].status = status
                        /\ ~table[k].consumed}

IsNewestReusable(table, request, status, k) ==
  /\ k \in Reusable(table, request, status)
  /\ \A other \in Reusable(table, request, status) : other <= k

(* Mutant: consume without "AND consumed_at IS NULL".                      *)
Consumable_Again(table, k) == table[k].status = "approved"

(* The WHERE clause of the UPDATE in consume, and its effect.              *)
Consumable(table, k) == table[k].status = "approved" /\ ~table[k].consumed

Consumed(table, k) == [table EXCEPT ![k].consumed = TRUE]

(* Mutant: decide without "AND status = 'pending'".                        *)
Decidable_Any(table, k) == TRUE

(* The WHERE clause of the UPDATE in decide, and its effect.               *)
Decidable(table, k) == table[k].status = "pending"

Decided(table, k, decision) == [table EXCEPT ![k].status = decision]

(* The INSERT at the end of create.                                        *)
WithPending(table, request, requester) ==
  Append(table, [request |-> request, requester |-> requester,
                 status |-> "pending", consumed |-> FALSE])
=============================================================================
