----------------------------- MODULE Approvals -----------------------------
(***************************************************************************)
(* The exception workflow (http.rs, db/approvals.rs): requests, their      *)
(* approval by a second person, rejection and revocation, with the role    *)
(* checks of auth.rs and the audit entry each handler appends.  A handler  *)
(* changes the approval with one UPDATE and appends afterwards; nothing    *)
(* ties the two together.  Handlers are the writers of AuditChain.         *)
(*                                                                         *)
(* Time is left to ResolveEngine: an approval that expired keeps its row   *)
(* and its status.                                                         *)
(***************************************************************************)
EXTENDS AuditChain

CONSTANTS
  Users,       \* principals (user_uuid of the token's subject)
  Ids,         \* ids of exception requests
  Nobody,      \* the NULL of approver_id
  GrpcRevokes, \* whether the gRPC admin service is called too
  RoleChanges  \* whether the identity provider changes roles

ASSUME NobodyAssumption == Nobody \notin Users
ASSUME SwitchesAssumption == GrpcRevokes \in BOOLEAN /\ RoleChanges \in BOOLEAN

VARIABLES
  approvals,   \* the approvals table
  role         \* the role a token of this user carries now

vars == <<log, writer, approvals, role>>

Role == {"viewer", "responder", "admin"}

Status == {"none", "pending", "active", "rejected", "revoked"}

Approval == [status : Status, requester : Users \cup {Nobody}, approver : Users \cup {Nobody}]

Action == {"requested", "granted", "rejected", "revoked"}

Entry == [action : Action, id : Ids, actor : Users]

ASSUME EntryAssumption == Entries = Entry

(* Every variable has its type.                                            *)
TypeOK ==
  /\ AuditTypeOK
  /\ approvals \in [Ids -> Approval]
  /\ role \in [Users -> Role]

Init ==
  /\ AuditInit
  /\ approvals = [a \in Ids |-> [status |-> "none", requester |-> Nobody, approver |-> Nobody]]
  /\ role \in [Users -> Role]

-----------------------------------------------------------------------------
\* Role::can, for the two permissions of the workflow.
can(u, permission) ==
  \/ role[u] = "admin"
  \/ role[u] = "responder" /\ permission = "WriteApprovals"

Record(w, action, a, u) == Start(w, [action |-> action, id |-> a, actor |-> u])

create_approval(w, a, u) ==
  /\ can(u, "WriteApprovals")
  /\ approvals[a].status = "none"
  /\ approvals' = [approvals EXCEPT ![a].status = "pending", ![a].requester = u]
  /\ Record(w, "requested", a, u)
  /\ UNCHANGED role

\* Mutated: any admin may approve, the requester too.
approve_approval_AnyAdmin(w, a, u) ==
  /\ can(u, "ApproveExceptions")
  /\ approvals[a].status = "pending"
  /\ approvals' = [approvals EXCEPT ![a].status = "active", ![a].approver = u]
  /\ Record(w, "granted", a, u)
  /\ UNCHANGED role

\* Mutated: the UPDATE does not ask for a pending request.
approve_approval_AnyStatus(w, a, u) ==
  /\ can(u, "ApproveExceptions")
  /\ approvals[a].status # "none" /\ approvals[a].requester # u
  /\ approvals' = [approvals EXCEPT ![a].status = "active", ![a].approver = u]
  /\ Record(w, "granted", a, u)
  /\ UNCHANGED role

\* One UPDATE checks and changes; a request it does not match is a 409.
approve_approval(w, a, u) ==
  /\ can(u, "ApproveExceptions")
  /\ approvals[a].status = "pending" /\ approvals[a].requester # u
  /\ approvals' = [approvals EXCEPT ![a].status = "active", ![a].approver = u]
  /\ Record(w, "granted", a, u)
  /\ UNCHANGED role

reject_approval(w, a, u) ==
  /\ can(u, "ApproveExceptions")
  /\ approvals[a].status = "pending"
  /\ approvals' = [approvals EXCEPT ![a].status = "rejected", ![a].approver = u]
  /\ Record(w, "rejected", a, u)
  /\ UNCHANGED role

\* An UPDATE that matches nothing is no error here: the entry is appended all the same.
revoke_approval(w, a, u) ==
  /\ can(u, "WriteApprovals")
  /\ approvals' = IF approvals[a].status = "active"
                  THEN [approvals EXCEPT ![a].status = "revoked"] ELSE approvals
  /\ Record(w, "revoked", a, u)
  /\ UNCHANGED role

\* The gRPC admin service: no principal, and no audit entry.
revoke_approval_grpc(a) ==
  /\ GrpcRevokes
  /\ approvals[a].status = "active"
  /\ approvals' = [approvals EXCEPT ![a].status = "revoked"]
  /\ UNCHANGED <<log, writer, role>>

AppendEntry(w) == Progress(w) /\ UNCHANGED <<approvals, role>>

AppendFails(w) == WriteFails(w) /\ UNCHANGED <<approvals, role>>

ChangeRole(u) ==
  /\ RoleChanges
  /\ \E r \in Role \ {role[u]} : role' = [role EXCEPT ![u] = r]
  /\ UNCHANGED <<log, writer, approvals>>

Handle(w) ==
  \E a \in Ids, u \in Users :
    \/ create_approval(w, a, u) \/ approve_approval(w, a, u)
    \/ reject_approval(w, a, u) \/ revoke_approval(w, a, u)

Next ==
  \/ \E w \in Writers : Handle(w) \/ AppendEntry(w) \/ AppendFails(w)
  \/ \E a \in Ids : revoke_approval_grpc(a)
  \/ \E u \in Users : ChangeRole(u)

Spec == Init /\ [][Next]_vars

-----------------------------------------------------------------------------
\* Every committed entry, and every one on its way.
Recorded == {log[i].entry : i \in Committed}

Claimed == Recorded \cup ({writer[w].entry : w \in Writers} \ {NoEntry})

(* Separation of duties: whoever released or declined a request, nobody    *)
(* ever released their own, whatever their roles were meanwhile            *)
(* (db/approvals.rs: approve).                                             *)
SeparationOfDuties ==
  \A a \in Ids : approvals[a].status \in {"active", "revoked"} =>
    /\ approvals[a].requester \in Users /\ approvals[a].approver \in Users
    /\ approvals[a].approver # approvals[a].requester

(* What the log says of a decision is what the table says: whoever granted *)
(* or rejected a request is the approver of its row, nobody granted their  *)
(* own, and no request was decided twice, although handlers race, roles    *)
(* change and the entry comes after the UPDATE (db/approvals.rs: approve). *)
LogAgreesWithTable ==
  \A e \in Claimed :
    LET r == approvals[e.id]
    IN  /\ e.action = "requested" => r.requester = e.actor
        /\ e.action = "granted" =>
             r.status \in {"active", "revoked"} /\ r.approver = e.actor /\ r.requester # e.actor
        /\ e.action = "rejected" => r.status = "rejected" /\ r.approver = e.actor

(* A decision stands: a request that was released, rejected or revoked is  *)
(* never pending again, a rejected or revoked one never releases, and      *)
(* neither of the two people in its row changes.                           *)
DecisionsStand ==
  [][\A a \in Ids :
       /\ approvals[a].status \in {"rejected", "revoked"} => approvals'[a] = approvals[a]
       /\ approvals[a].status = "active" =>
            /\ approvals'[a].status \in {"active", "revoked"}
            /\ approvals'[a].approver = approvals[a].approver
            /\ approvals'[a].requester = approvals[a].requester]_vars
=============================================================================
