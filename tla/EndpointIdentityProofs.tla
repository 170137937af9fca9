----------------------- MODULE EndpointIdentityProofs -----------------------
(***************************************************************************)
(* Proofs about EndpointIdentity, for any number of tenants, tokens,       *)
(* endpoints and concurrent request handlers.                              *)
(***************************************************************************)
EXTENDS EndpointIdentity, FiniteSetTheorems, TLAPS

\* The provers a leaf is given when it names none, with time for a busy machine.
USE SMTT(30), ZenonT(30)

LEMMA InitType == Init => TypeOK
  BY IdentityAssumption
  DEF Init, TypeOK, TokenRow, EndpointRow, HandlerState, Idle, Generations

\* What a handler holds in its locals depends on where it is.
LEMMA HandlerLocals ==
  ASSUME NEW h \in HandlerState
  PROVE  /\ h.at = "credential" => h.secret \in Secrets
         /\ h.at = "issue_insert" => h.tenant \in Tenants /\ h.max_use \in Nat
         /\ h.at = "issue_audit" => h.token \in Tokens
         /\ h.at = "enroll_insert" => h.token \in Tokens /\ h.row \in TokenRow
         /\ h.at = "register_update" => h.secret \in Secrets
         /\ h.at = "rotate_update" => h.endpoint \in Endpoints
         /\ h.at = "rotate_audit" => h.secret \in Secrets
<1>1. CASE h \in {Idle, Rejected, Accepted}
  BY <1>1 DEF Idle, Rejected, Accepted
<1>2. CASE h \in [at : {"credential"}, secret : Secrets]
  BY <1>2
<1>3. CASE h \in [at : {"issue_insert"}, tenant : Tenants, max_use : MaxUses]
  BY <1>3, IdentityAssumption, ZenonT(30)
<1>4. CASE h \in [at : {"issue_audit"}, token : Tokens]
  BY <1>4
<1>5. CASE h \in [at : {"enroll_insert"}, token : Tokens, row : TokenRow]
  BY <1>5
<1>6. CASE h \in [at : {"register_update"}, secret : Secrets]
  BY <1>6
<1>7. CASE h \in [at : {"rotate_update"}, endpoint : Endpoints]
  BY <1>7
<1>8. CASE h \in [at : {"rotate_audit"}, secret : Secrets]
  BY <1>8
<1> QED
  BY <1>1, <1>2, <1>3, <1>4, <1>5, <1>6, <1>7, <1>8 DEF HandlerState

\* Every handler state the actions move to is in HandlerState.
LEMMA HandlerStates ==
  /\ Idle \in HandlerState /\ Rejected \in HandlerState /\ Accepted \in HandlerState
  /\ \A s \in Secrets : Credential(s) \in HandlerState
  /\ \A x \in Tenants, m \in MaxUses :
        [at |-> "issue_insert", tenant |-> x, max_use |-> m] \in HandlerState
  /\ \A t \in Tokens : [at |-> "issue_audit", token |-> t] \in HandlerState
  /\ \A t \in Tokens, row \in TokenRow :
        [at |-> "enroll_insert", token |-> t, row |-> row] \in HandlerState
  /\ \A s \in Secrets : [at |-> "register_update", secret |-> s] \in HandlerState
  /\ \A e \in Endpoints : [at |-> "rotate_update", endpoint |-> e] \in HandlerState
  /\ \A s \in Secrets : [at |-> "rotate_audit", secret |-> s] \in HandlerState
  BY DEF HandlerState, Credential

LEMMA StepType ==
  ASSUME TypeOK, NEW r \in Requests, NEW h \in HandlerState, Step(r, h)
  PROVE  handler' \in [Requests -> HandlerState]
  BY DEF TypeOK, Step

LEMMA NextType == TypeOK /\ [Next]_vars => TypeOK'
<1> SUFFICES ASSUME TypeOK, [Next]_vars
             PROVE  TypeOK'
  OBVIOUS
<1> USE IdentityAssumption
<1>1. ASSUME NEW r \in Requests, NEW x \in Tenants, NEW m \in MaxUses,
             IssueTenant(r, x, m)
      PROVE  TypeOK'
  BY <1>1, HandlerStates, StepType DEF TypeOK, IssueTenant
<1>1a. ASSUME NEW r \in Requests, NEW x \in Tenants, ProvisionTenant(r, x)
       PROVE  TypeOK'
  BY <1>1a, HandlerStates, StepType DEF TypeOK, ProvisionTenant
<1>2. ASSUME NEW r \in Requests, NEW t \in Tokens, IssueInsert(r, t)
      PROVE  TypeOK'
  <2>1. handler[r].tenant \in Tenants /\ handler[r].max_use \in Nat
    BY <1>2, HandlerLocals DEF TypeOK, IssueInsert
  <2>2. enrollment_tokens' \in [Tokens -> TokenRow]
    BY <1>2, <2>1 DEF TypeOK, IssueInsert, TokenRow
  <2> QED
    BY <1>2, <2>2, HandlerStates, StepType DEF TypeOK, IssueInsert
<1>3. ASSUME NEW r \in Requests, IssueAudit(r)
      PROVE  TypeOK'
  <2>1. handler[r].token \in Tokens
    BY <1>3, HandlerLocals DEF TypeOK, IssueAudit
  <2>2. audit_logs' \subseteq AuditRow
    BY <1>3, <2>1 DEF TypeOK, IssueAudit, AuditRow
  <2> QED
    BY <1>3, <2>2, HandlerStates, StepType DEF TypeOK, IssueAudit
<1>4. ASSUME NEW t \in Tokens, Expire(t)
      PROVE  TypeOK'
  BY <1>4 DEF TypeOK, Expire, TokenRow
<1>5. ASSUME NEW r \in Requests, NEW t \in Tokens, EnrollRead(r, t)
      PROVE  TypeOK'
  <2>1. enrollment_tokens[t] \in TokenRow /\ enrollment_tokens[t].tenant \in Tenants
    BY DEF TypeOK, TokenRow
  <2>2. handler' \in [Requests -> HandlerState]
    BY <1>5, <2>1, HandlerStates, StepType DEF EnrollRead
  <2> QED
    BY <1>5, <2>1, <2>2 DEF TypeOK, EnrollRead
<1>6. ASSUME NEW r \in Requests, NEW e \in Endpoints, EnrollInsert(r, e)
      PROVE  TypeOK'
  <2>1. /\ handler[r].token \in Tokens
        /\ handler[r].row.tenant \in Tenants
    BY <1>6, HandlerLocals DEF TypeOK, EnrollInsert, TokenRow
  <2>2. endpoint_inventory' \in [Endpoints -> EndpointRow]
    BY <1>6, <2>1 DEF TypeOK, EnrollInsert, EndpointRow, NewRow, Generations
  <2>3. enrollment_tokens' \in [Tokens -> TokenRow]
    BY <1>6, <2>1 DEF TypeOK, EnrollInsert, SpendToken, TokenRow
  <2>4. <<e, 0>> \in Secrets
    BY DEF Secrets, Generations
  <2> QED
    BY <1>6, <2>2, <2>3, <2>4, HandlerStates, StepType DEF TypeOK, EnrollInsert
<1>7. ASSUME NEW r \in Requests, NEW s \in known, NEW x \in Tenants \cup {NoHeader},
             RegisterAuth(r, s, x)
      PROVE  TypeOK'
  <2>1. s \in Secrets
    BY DEF TypeOK
  <2>2. handler' \in [Requests -> HandlerState]
    BY <1>7, <2>1, HandlerStates, StepType DEF RegisterAuth
  <2> QED
    BY <1>7, <2>2 DEF TypeOK, RegisterAuth
<1>8. ASSUME NEW r \in Requests, RegisterUpdate(r)
      PROVE  TypeOK'
  <2>1. handler[r].secret \in Secrets
    BY <1>8, HandlerLocals DEF TypeOK, RegisterUpdate
  <2>2. endpoint_inventory' \in [Endpoints -> EndpointRow]
    BY <1>8, <2>1 DEF TypeOK, RegisterUpdate, EndpointRow, Secrets
  <2> QED
    BY <1>8, <2>2, HandlerStates, StepType DEF TypeOK, RegisterUpdate
<1>9. ASSUME NEW r \in Requests, NEW e \in Endpoints, RotateRead(r, e)
      PROVE  TypeOK'
  <2>1. handler' \in [Requests -> HandlerState]
    BY <1>9, HandlerStates, StepType DEF RotateRead
  <2> QED
    BY <1>9, <2>1 DEF TypeOK, RotateRead
<1>10. ASSUME NEW r \in Requests, RotateUpdate(r)
       PROVE  TypeOK'
  <2>1. PICK e \in Endpoints : e = handler[r].endpoint
    BY <1>10, HandlerLocals DEF TypeOK, RotateUpdate
  <2>2. endpoint_inventory[e].gen + 1 \in Generations
    BY <1>10, <2>1 DEF TypeOK, RotateUpdate, EndpointRow, Generations
  <2>3. endpoint_inventory' \in [Endpoints -> EndpointRow]
    BY <1>10, <2>1, <2>2, ZenonT(30) DEF TypeOK, RotateUpdate, RotatedRow, EndpointRow
  <2>4. handler' \in [Requests -> HandlerState]
    BY <1>10, <2>1, <2>2, HandlerStates, StepType DEF RotateUpdate, Secrets
  <2> QED
    BY <1>10, <2>3, <2>4 DEF TypeOK, RotateUpdate
<1>11. ASSUME NEW r \in Requests, RotateAudit(r)
       PROVE  TypeOK'
  <2>1. handler[r].secret \in Secrets
    BY <1>11, HandlerLocals DEF TypeOK, RotateAudit
  <2>2. audit_logs' \subseteq AuditRow
    BY <1>11, <2>1 DEF TypeOK, RotateAudit, AuditRow
  <2> QED
    BY <1>11, <2>2, HandlerStates, StepType DEF TypeOK, RotateAudit
<1>12. ASSUME NEW r \in Requests, Deliver(r)
       PROVE  TypeOK'
  <2>1. handler[r].at = "credential" => handler[r].secret \in Secrets
    BY HandlerLocals DEF TypeOK
  <2> QED
    BY <1>12, <2>1, HandlerStates, StepType DEF TypeOK, Deliver
<1>13. ASSUME NEW r \in Requests, HandlerDies(r)
       PROVE  TypeOK'
  BY <1>13, HandlerStates, StepType DEF TypeOK, HandlerDies
<1>14. CASE UNCHANGED vars
  BY <1>14 DEF TypeOK, vars
<1> QED
  BY <1>1, <1>1a, <1>2, <1>3, <1>4, <1>5, <1>6, <1>7, <1>8, <1>9, <1>10, <1>11,
     <1>12, <1>13, <1>14 DEF Next

\* Type correctness: every row, every handler local and every audit row stays
\* in the vocabulary the handlers share.
THEOREM TypeCorrect == Spec => []TypeOK
<1>1. Init => TypeOK
  BY InitType
<1>2. TypeOK /\ [Next]_vars => TypeOK'
  BY NextType
<1> QED
  BY <1>1, <1>2, PTL DEF Spec

-----------------------------------------------------------------------------
(* The inductive invariant.                                                  *)

\* Rows are never removed, the tenant of a token never changes, and the
\* generation of an endpoint never decreases.
Monotone ==
  /\ tenant_registry \subseteq tenant_registry'
  /\ \A t \in Tokens : Issued(t) =>
        /\ enrollment_tokens'[t].status # "absent"
        /\ enrollment_tokens'[t].tenant = enrollment_tokens[t].tenant
  /\ \A e \in Endpoints : Exists(e) =>
        /\ endpoint_inventory'[e].status # "absent"
        /\ endpoint_inventory'[e].gen >= endpoint_inventory[e].gen

\* When rows only grow, the other handlers can still rely on what they hold.
LEMMA HandlerFrame ==
  ASSUME TypeOK, TypeOK', HandlerInv, Monotone, NEW r \in Requests, NEW h, Step(r, h),
         h.at = "issue_insert" => h.tenant \in tenant_registry',
         h.at = "issue_audit" => enrollment_tokens'[h.token].status # "absent",
         h.at = "enroll_insert" =>
             /\ enrollment_tokens'[h.token].status # "absent"
             /\ h.row.tenant = enrollment_tokens'[h.token].tenant,
         h.at = "credential" =>
             endpoint_inventory'[h.secret[1]].status # "absent" /\ h.secret[2] = 0,
         h.at = "register_update" =>
             endpoint_inventory'[h.secret[1]].status # "absent",
         h.at = "rotate_update" => endpoint_inventory'[h.endpoint].status # "absent",
         h.at = "rotate_audit" =>
             /\ endpoint_inventory'[h.secret[1]].status # "absent"
             /\ endpoint_inventory'[h.secret[1]].gen >= h.secret[2]
  PROVE  HandlerInv'
<1>1. handler'[r] = h
  BY DEF TypeOK, Step
<1> SUFFICES ASSUME NEW q \in Requests, q # r
             PROVE  /\ handler'[q].at = "issue_insert" =>
                          handler'[q].tenant \in tenant_registry'
                    /\ handler'[q].at = "issue_audit" => Issued(handler[q].token)'
                    /\ handler'[q].at = "enroll_insert" =>
                          /\ Issued(handler[q].token)'
                          /\ handler'[q].row.tenant
                               = enrollment_tokens'[handler'[q].token].tenant
                    /\ handler'[q].at = "credential" =>
                          Exists(handler[q].secret[1])' /\ handler'[q].secret[2] = 0
                    /\ handler'[q].at = "register_update" =>
                          Exists(handler[q].secret[1])'
                    /\ handler'[q].at = "rotate_update" =>
                          Exists(handler[q].endpoint)'
                    /\ handler'[q].at = "rotate_audit" =>
                          /\ Exists(handler[q].secret[1])'
                          /\ endpoint_inventory'[handler'[q].secret[1]].gen
                               >= handler'[q].secret[2]
  BY <1>1 DEF HandlerInv, Exists, Issued
<1>2. handler'[q] = handler[q]
  BY DEF TypeOK, Step
<1>3. handler[q] \in HandlerState
  BY DEF TypeOK
<1>4. CASE handler[q].at \in {"issue_insert", "issue_audit", "enroll_insert"}
  BY <1>2, <1>3, <1>4, HandlerLocals DEF HandlerInv, Monotone, Issued
<1>5. CASE handler[q].at \in {"credential", "register_update", "rotate_update"}
  BY <1>2, <1>3, <1>5, HandlerLocals DEF HandlerInv, Monotone, Exists, Secrets
<1>6. CASE handler[q].at = "rotate_audit"
  <2>1. PICK e \in Endpoints, g \in Generations : handler[q].secret = <<e, g>>
    BY <1>3, <1>6, HandlerLocals DEF Secrets
  <2>2. endpoint_inventory[e].gen \in Nat /\ endpoint_inventory'[e].gen \in Nat /\ g \in Nat
    BY IdentityAssumption DEF TypeOK, EndpointRow, Generations
  <2>3. handler[q].secret[1] = e /\ handler[q].secret[2] = g
    BY <2>1
  <2>4. Exists(e) /\ endpoint_inventory[e].gen >= g
    BY <1>6, <2>3 DEF HandlerInv
  <2>5. Exists(e)' /\ endpoint_inventory'[e].gen >= endpoint_inventory[e].gen
    BY <2>4 DEF Monotone, Exists
  <2>6. endpoint_inventory'[e].gen >= g
    BY <2>2, <2>4, <2>5
  <2> QED
    BY <1>2, <1>6, <2>3, <2>5, <2>6 DEF Exists
<1> QED
  BY <1>2, <1>4, <1>5, <1>6

\* The same for what clients hold and what the audit log says.
LEMMA RecordsFrame ==
  ASSUME TypeOK, TypeOK', Monotone
  PROVE  /\ KnownInv /\ known' = known => KnownInv'
         /\ AuditInv /\ audit_logs' = audit_logs => AuditInv'
<1>1. KnownInv /\ known' = known => KnownInv'
  BY DEF KnownInv, Monotone, Exists, TypeOK, Secrets
<1>2. ASSUME AuditInv, audit_logs' = audit_logs
      PROVE  AuditInv'
  <2> SUFFICES ASSUME NEW a \in audit_logs
               PROVE  \/ a.action = "enrollment_token_issued" /\ Issued(a.token)'
                      \/ /\ a.action = "endpoint_secret_rotated"
                         /\ Exists(a.secret[1])'
                         /\ endpoint_inventory'[a.secret[1]].gen >= a.secret[2]
    BY <1>2 DEF AuditInv, Issued, Exists
  <2>1. a \in AuditRow
    BY DEF TypeOK
  <2>2. CASE a \in [action : {"enrollment_token_issued"}, token : Tokens]
    BY <1>2, <2>2 DEF AuditInv, Monotone, Issued
  <2>3. CASE a \in [action : {"endpoint_secret_rotated"}, secret : Secrets]
    <3>1. PICK e \in Endpoints, g \in Generations : a.secret = <<e, g>>
      BY <2>3 DEF Secrets
    <3>2. endpoint_inventory[e].gen \in Nat /\ endpoint_inventory'[e].gen \in Nat /\ g \in Nat
      BY IdentityAssumption DEF TypeOK, EndpointRow, Generations
    <3> QED
      BY <1>2, <2>3, <3>1, <3>2 DEF AuditInv, Monotone, Exists
  <2> QED
    BY <2>1, <2>2, <2>3 DEF AuditRow
<1> QED
  BY <1>1, <1>2

LEMMA InitInv == Init => IInv
<1> SUFFICES ASSUME Init PROVE IInv
  OBVIOUS
<1>1. TypeOK
  BY InitType
<1>2. HandlerInv
  BY DEF Init, HandlerInv, Idle
<1>3. KnownInv /\ AuditInv /\ TenantConsistent
  BY DEF Init, KnownInv, AuditInv, TenantConsistent, Exists, Issued
<1> QED
  BY <1>1, <1>2, <1>3 DEF IInv

\* Steps that touch neither endpoints nor tokens keep TenantConsistent.
LEMMA TenantFrame ==
  ASSUME TypeOK, TenantConsistent, tenant_registry \subseteq tenant_registry',
         UNCHANGED <<enrollment_tokens, endpoint_inventory>>
  PROVE  Monotone /\ TenantConsistent'
<1>1. \A e \in Endpoints : endpoint_inventory[e].gen \in Nat
  BY IdentityAssumption DEF TypeOK, EndpointRow, Generations
<1> QED
  BY <1>1 DEF TenantConsistent, Monotone, Issued, Exists

LEMMA NextInv == IInv /\ [Next]_vars => IInv'
<1> SUFFICES ASSUME IInv, [Next]_vars
             PROVE  IInv'
  OBVIOUS
<1> USE IdentityAssumption
<1>0. TypeOK /\ TypeOK' /\ HandlerInv /\ KnownInv /\ AuditInv /\ TenantConsistent
  BY NextType DEF IInv
<1>gen. \A e \in Endpoints : endpoint_inventory[e].gen \in Nat
  BY <1>0 DEF TypeOK, EndpointRow, Generations
<1>1. ASSUME NEW r \in Requests, NEW x \in Tenants, NEW m \in MaxUses,
             IssueTenant(r, x, m)
      PROVE  IInv'
  <2>1. Monotone /\ TenantConsistent'
    BY <1>0, <1>1, TenantFrame DEF IssueTenant
  <2>2. HandlerInv'
    BY <1>0, <1>1, <2>1, HandlerFrame DEF IssueTenant
  <2> QED
    BY <1>0, <1>1, <2>1, <2>2, RecordsFrame DEF IInv, IssueTenant
<1>1a. ASSUME NEW r \in Requests, NEW x \in Tenants, ProvisionTenant(r, x)
       PROVE  IInv'
  <2>1. Monotone /\ TenantConsistent'
    BY <1>0, <1>1a, TenantFrame DEF ProvisionTenant
  <2>2. HandlerInv'
    BY <1>0, <1>1a, <2>1, HandlerFrame DEF ProvisionTenant, Accepted
  <2> QED
    BY <1>0, <1>1a, <2>1, <2>2, RecordsFrame DEF IInv, ProvisionTenant
<1>2. ASSUME NEW r \in Requests, NEW t \in Tokens, IssueInsert(r, t)
      PROVE  IInv'
  <2>1. handler[r].tenant \in tenant_registry
    BY <1>0, <1>2 DEF HandlerInv, IssueInsert
  <2>2. Monotone
    BY <1>0, <1>gen, <1>2 DEF Monotone, IssueInsert, Issued, Exists, TypeOK
  <2>3. TenantConsistent'
    BY <1>0, <1>2, <2>1 DEF TenantConsistent, IssueInsert, TypeOK, EndpointRow
  <2>4. enrollment_tokens'[t].status # "absent"
    BY <1>0, <1>2 DEF IssueInsert, TypeOK
  <2>5. HandlerInv'
    BY <1>0, <1>2, <2>2, <2>4, HandlerFrame DEF IssueInsert
  <2> QED
    BY <1>0, <1>2, <2>2, <2>3, <2>5, RecordsFrame DEF IInv, IssueInsert
<1>3. ASSUME NEW r \in Requests, IssueAudit(r)
      PROVE  IInv'
  <2>1. Monotone /\ TenantConsistent'
    BY <1>0, <1>3, TenantFrame DEF IssueAudit
  <2>2. HandlerInv'
    BY <1>0, <1>3, <2>1, HandlerFrame DEF IssueAudit, Accepted
  <2>3. AuditInv'
    BY <1>0, <1>3 DEF AuditInv, HandlerInv, IssueAudit, Issued, Exists
  <2> QED
    BY <1>0, <1>3, <2>1, <2>2, <2>3, RecordsFrame DEF IInv, IssueAudit
<1>4. ASSUME NEW t \in Tokens, Expire(t)
      PROVE  IInv'
  <2>1. \A u \in Tokens :
          /\ enrollment_tokens'[u].tenant = enrollment_tokens[u].tenant
          /\ (enrollment_tokens'[u].status # "absent") = (enrollment_tokens[u].status # "absent")
    BY <1>0, <1>4 DEF Expire, TypeOK, TokenRow
  <2>2. /\ tenant_registry' = tenant_registry /\ endpoint_inventory' = endpoint_inventory
        /\ audit_logs' = audit_logs /\ handler' = handler /\ known' = known
    BY <1>4 DEF Expire
  <2>3. Monotone
    BY <1>gen, <2>1, <2>2 DEF Monotone, Issued, Exists
  <2>4. TenantConsistent'
    <3>1. \A d \in Endpoints : endpoint_inventory[d].token \in Tokens
      BY <1>0 DEF TypeOK, EndpointRow
    <3> QED
      BY <1>0, <2>1, <2>2, <3>1 DEF TenantConsistent
  <2>5. HandlerInv'
    <3> SUFFICES ASSUME NEW q \in Requests
                 PROVE  /\ handler[q].at = "issue_audit" => Issued(handler[q].token)'
                        /\ handler[q].at = "enroll_insert" =>
                             /\ Issued(handler[q].token)'
                             /\ handler[q].row.tenant
                                  = enrollment_tokens'[handler[q].token].tenant
      BY <1>0, <2>2 DEF HandlerInv, Issued, Exists
    <3>1. handler[q] \in HandlerState
      BY <1>0 DEF TypeOK
    <3>2. handler[q].at \in {"issue_audit", "enroll_insert"} => handler[q].token \in Tokens
      BY <3>1, HandlerLocals
    <3> QED
      BY <1>0, <2>1, <2>2, <3>2 DEF HandlerInv, Issued
  <2> QED
    BY <1>0, <2>2, <2>3, <2>4, <2>5, RecordsFrame DEF IInv
<1>5. ASSUME NEW r \in Requests, NEW t \in Tokens, EnrollRead(r, t)
      PROVE  IInv'
  <2>1. Monotone /\ TenantConsistent'
    BY <1>0, <1>5, TenantFrame DEF EnrollRead
  <2>2. HandlerInv'
    BY <1>0, <1>5, <2>1, HandlerFrame DEF EnrollRead, Redeemable, Rejected
  <2> QED
    BY <1>0, <1>5, <2>1, <2>2, RecordsFrame DEF IInv, EnrollRead
<1>6. ASSUME NEW r \in Requests, NEW e \in Endpoints, EnrollInsert(r, e)
      PROVE  IInv'
  <2> DEFINE t == handler[r].token
  <2>1. /\ t \in Tokens
        /\ enrollment_tokens[t].status # "absent"
        /\ handler[r].row.tenant = enrollment_tokens[t].tenant
    BY <1>0, <1>6, HandlerLocals DEF HandlerInv, EnrollInsert, TypeOK, Issued
  <2>2. \A u \in Tokens : /\ enrollment_tokens'[u].tenant = enrollment_tokens[u].tenant
                          /\ enrollment_tokens'[u].status = enrollment_tokens[u].status
    BY <1>0, <1>6, <2>1 DEF EnrollInsert, TypeOK, TokenRow
  <2>3. /\ endpoint_inventory'[e] = NewRow(handler[r])
        /\ \A d \in Endpoints \ {e} : endpoint_inventory'[d] = endpoint_inventory[d]
    BY <1>0, <1>6 DEF EnrollInsert, TypeOK
  <2>4. Monotone
    BY <1>gen, <1>6, <2>2, <2>3 DEF EnrollInsert, Monotone, Issued, Exists
  <2>5. TenantConsistent'
    <3>1. \A u \in Tokens : enrollment_tokens'[u].status # "absent" =>
             enrollment_tokens'[u].tenant \in tenant_registry'
      BY <1>0, <1>6, <2>2 DEF TenantConsistent, EnrollInsert
    <3>2. \A d \in Endpoints \ {e} : endpoint_inventory[d].token \in Tokens
      BY <1>0 DEF TypeOK, EndpointRow
    <3> QED
      BY <1>0, <2>1, <2>2, <2>3, <3>1, <3>2 DEF TenantConsistent, NewRow
  <2>6. HandlerInv'
    BY <1>0, <1>6, <2>3, <2>4, HandlerFrame DEF EnrollInsert, Credential, NewRow
  <2> QED
    BY <1>0, <1>6, <2>4, <2>5, <2>6, RecordsFrame DEF IInv, EnrollInsert
<1>7. ASSUME NEW r \in Requests, NEW s \in known, NEW x \in Tenants \cup {NoHeader},
             RegisterAuth(r, s, x)
      PROVE  IInv'
  <2>1. Monotone /\ TenantConsistent'
    BY <1>0, <1>7, TenantFrame DEF RegisterAuth
  <2>2. HandlerInv'
    BY <1>0, <1>7, <2>1, HandlerFrame DEF RegisterAuth, KnownInv, Exists, Rejected
  <2> QED
    BY <1>0, <1>7, <2>1, <2>2, RecordsFrame DEF IInv, RegisterAuth
<1>8. ASSUME NEW r \in Requests, RegisterUpdate(r)
      PROVE  IInv'
  <2>1. PICK e \in Endpoints, g \in Generations : handler[r].secret = <<e, g>>
    BY <1>0, <1>8, HandlerLocals DEF RegisterUpdate, TypeOK, Secrets
  <2>2. Exists(e)
    BY <1>0, <1>8, <2>1 DEF RegisterUpdate, HandlerInv
  <2>3. \A d \in Endpoints :
          /\ (endpoint_inventory'[d].status # "absent") = (endpoint_inventory[d].status # "absent")
          /\ endpoint_inventory'[d].tenant = endpoint_inventory[d].tenant
          /\ endpoint_inventory'[d].token = endpoint_inventory[d].token
          /\ endpoint_inventory'[d].gen = endpoint_inventory[d].gen
    BY <1>0, <1>8, <2>1, <2>2 DEF RegisterUpdate, TypeOK, EndpointRow, Exists
  <2>4. Monotone /\ TenantConsistent'
    <3>1. tenant_registry' = tenant_registry /\ enrollment_tokens' = enrollment_tokens
      BY <1>8 DEF RegisterUpdate
    <3>2. Monotone
      BY <1>gen, <2>3, <3>1 DEF Monotone, Exists, Issued
    <3>3. TenantConsistent'
      BY <1>0, <2>3, <3>1 DEF TenantConsistent, Exists
    <3> QED
      BY <3>2, <3>3
  <2>5. HandlerInv'
    BY <1>0, <1>8, <2>4, HandlerFrame, ZenonT(30) DEF RegisterUpdate, Accepted
  <2> QED
    BY <1>0, <1>8, <2>4, <2>5, RecordsFrame DEF IInv, RegisterUpdate
<1>9. ASSUME NEW r \in Requests, NEW e \in Endpoints, RotateRead(r, e)
      PROVE  IInv'
  <2>1. Monotone /\ TenantConsistent'
    BY <1>0, <1>9, TenantFrame DEF RotateRead
  <2>2. HandlerInv'
    BY <1>0, <1>9, <2>1, HandlerFrame DEF RotateRead, Rejected
  <2> QED
    BY <1>0, <1>9, <2>1, <2>2, RecordsFrame DEF IInv, RotateRead
<1>10. ASSUME NEW r \in Requests, RotateUpdate(r)
       PROVE  IInv'
  <2>1. PICK e \in Endpoints : e = handler[r].endpoint
    BY <1>0, <1>10, HandlerLocals DEF TypeOK, RotateUpdate
  <2>2. Exists(e)
    BY <1>0, <1>10, <2>1 DEF RotateUpdate, HandlerInv
  <2>3. \A d \in Endpoints :
          /\ (endpoint_inventory'[d].status # "absent") = (endpoint_inventory[d].status # "absent")
          /\ endpoint_inventory'[d].tenant = endpoint_inventory[d].tenant
          /\ endpoint_inventory'[d].token = endpoint_inventory[d].token
          /\ endpoint_inventory'[d].gen
               = IF d = e THEN endpoint_inventory[d].gen + 1 ELSE endpoint_inventory[d].gen
    BY <1>0, <1>10, <2>1, <2>2 DEF RotateUpdate, RotatedRow, TypeOK, EndpointRow, Exists
  <2>4. Monotone /\ TenantConsistent'
    <3>1. tenant_registry' = tenant_registry /\ enrollment_tokens' = enrollment_tokens
      BY <1>10 DEF RotateUpdate
    <3>2. Monotone
      BY <1>gen, <2>3, <3>1 DEF Monotone, Exists, Issued
    <3>3. TenantConsistent'
      BY <1>0, <2>3, <3>1 DEF TenantConsistent, Exists
    <3> QED
      BY <3>2, <3>3
  <2>5. HandlerInv'
    <3>1. /\ Step(r, [at |-> "rotate_audit", secret |-> <<e, endpoint_inventory[e].gen + 1>>])
          /\ endpoint_inventory'[e].gen = endpoint_inventory[e].gen + 1
          /\ endpoint_inventory'[e].status # "absent"
          /\ endpoint_inventory[e].gen \in Nat
      BY <1>gen, <1>10, <2>1, <2>2, <2>3 DEF RotateUpdate, Exists
    <3> QED
      BY <1>0, <2>4, <3>1, HandlerFrame
  <2> QED
    BY <1>0, <1>10, <2>4, <2>5, RecordsFrame DEF IInv, RotateUpdate
<1>11. ASSUME NEW r \in Requests, RotateAudit(r)
       PROVE  IInv'
  <2>1. Monotone /\ TenantConsistent'
    BY <1>0, <1>11, TenantFrame DEF RotateAudit
  <2>2. HandlerInv'
    BY <1>0, <1>11, <2>1, HandlerFrame DEF RotateAudit, Accepted
  <2>3. AuditInv'
    BY <1>0, <1>11 DEF AuditInv, HandlerInv, RotateAudit, Issued, Exists
  <2> QED
    BY <1>0, <1>11, <2>1, <2>2, <2>3, RecordsFrame DEF IInv, RotateAudit
<1>12. ASSUME NEW r \in Requests, Deliver(r)
       PROVE  IInv'
  <2>1. Monotone /\ TenantConsistent'
    BY <1>0, <1>12, TenantFrame DEF Deliver
  <2>2. HandlerInv'
    BY <1>0, <1>12, <2>1, HandlerFrame DEF Deliver, Idle
  <2>3. KnownInv'
    BY <1>0, <1>12 DEF KnownInv, HandlerInv, Deliver, Exists
  <2> QED
    BY <1>0, <1>12, <2>1, <2>2, <2>3, RecordsFrame DEF IInv, Deliver
<1>13. ASSUME NEW r \in Requests, HandlerDies(r)
       PROVE  IInv'
  <2>1. Monotone /\ TenantConsistent'
    BY <1>0, <1>13, TenantFrame DEF HandlerDies
  <2>2. HandlerInv'
    BY <1>0, <1>13, <2>1, HandlerFrame DEF HandlerDies, Idle
  <2> QED
    BY <1>0, <1>13, <2>1, <2>2, RecordsFrame DEF IInv, HandlerDies
<1>14. CASE UNCHANGED vars
  BY <1>0, <1>14, ZenonT(30) DEF IInv, HandlerInv, KnownInv, AuditInv, TenantConsistent, Exists, Issued, vars
<1> QED
  BY <1>1, <1>1a, <1>2, <1>3, <1>4, <1>5, <1>6, <1>7, <1>8, <1>9, <1>10, <1>11,
     <1>12, <1>13, <1>14 DEF Next

\* The inductive invariant holds in every reachable state.
THEOREM Invariant == Spec => []IInv
<1>1. Init => IInv
  BY InitInv
<1>2. IInv /\ [Next]_vars => IInv'
  BY NextInv
<1> QED
  BY <1>1, <1>2, PTL DEF Spec

-----------------------------------------------------------------------------
(* What follows from it.                                                     *)

\* Endpoints belong to the tenant of the token they were enrolled with, and
\* that tenant is provisioned before core-ingest is asked about it.
THEOREM TenantsConsistent == Spec => []TenantConsistent
<1>1. IInv => TenantConsistent
  BY DEF IInv
<1> QED
  BY <1>1, Invariant, PTL

\* No audit row is about a change that was not committed.
THEOREM AuditTruthful == Spec => []AuditIsTruthful
<1>1. IInv => AuditIsTruthful
  BY DEF IInv, AuditInv, AuditIsTruthful, Issued
<1> QED
  BY <1>1, Invariant, PTL

\* After a rotation no secret a client holds or is being sent authenticates,
\* because clients only ever receive generation 0.
THEOREM RotationRevokes == Spec => []RevokedForGood
<1>1. ASSUME IInv
      PROVE  RevokedForGood
  <2> SUFFICES ASSUME NEW s \in known \cup {handler[r].secret :
                            r \in {q \in Requests : handler[q].at = "credential"}},
                      endpoint_inventory[s[1]].gen > 0
               PROVE  ~Authenticates(s)
    BY DEF RevokedForGood
  <2>1. s[2] = 0
    BY <1>1 DEF IInv, KnownInv, HandlerInv
  <2>2. ASSUME NEW e \in Endpoints, HoldsSecret(e, s)
        PROVE  FALSE
    BY <2>1, <2>2 DEF HoldsSecret
  <2> QED
    BY <2>2 DEF Authenticates
<1> QED
  BY <1>1, Invariant, PTL

\* A row that was never inserted has had no secret.
THEOREM RowsFresh == Spec => []FreshRows
<1>1. Init => FreshRows
  BY DEF Init, FreshRows
<1>2. ASSUME IInv, FreshRows, [Next]_vars
      PROVE  FreshRows'
  <2>0. TypeOK /\ HandlerInv
    BY <1>2 DEF IInv
  <2>1. CASE endpoint_inventory' = endpoint_inventory
    BY <1>2, <2>1 DEF FreshRows, Exists
  <2>2. ASSUME NEW r \in Requests, NEW d \in Endpoints, EnrollInsert(r, d)
        PROVE  FreshRows'
    BY <1>2, <2>0, <2>2 DEF EnrollInsert, NewRow, TypeOK, FreshRows, Exists
  <2>3. ASSUME NEW r \in Requests, RegisterUpdate(r)
        PROVE  FreshRows'
    <3>1. PICK d \in Endpoints, g \in Generations : handler[r].secret = <<d, g>>
      BY <2>0, <2>3, HandlerLocals DEF RegisterUpdate, TypeOK, Secrets
    <3>2. \A c \in Endpoints :
            /\ endpoint_inventory'[c].gen = endpoint_inventory[c].gen
            /\ endpoint_inventory'[c].status = "absent" => endpoint_inventory[c].status = "absent"
      BY <2>0, <2>3, <3>1 DEF RegisterUpdate, TypeOK, EndpointRow
    <3> QED
      BY <1>2, <3>2 DEF FreshRows, Exists
  <2>4. ASSUME NEW r \in Requests, RotateUpdate(r)
        PROVE  FreshRows'
    <3>1. PICK d \in Endpoints : d = handler[r].endpoint
      BY <2>0, <2>4, HandlerLocals DEF TypeOK, RotateUpdate
    <3>2. \A c \in Endpoints : endpoint_inventory'[c].status = "absent" =>
            endpoint_inventory'[c] = endpoint_inventory[c]
      BY <2>0, <2>4, <3>1 DEF RotateUpdate, RotatedRow, TypeOK, EndpointRow
    <3> QED
      BY <1>2, <3>2 DEF FreshRows, Exists
  <2> QED
    BY <1>2, <2>1, <2>2, <2>3, <2>4, ZenonT(30)
    DEF Next, vars, ProvisionTenant, IssueTenant, IssueInsert, IssueAudit, Expire, EnrollRead,
        RegisterAuth, RotateRead, RotateAudit, Deliver, HandlerDies
<1> QED
  BY <1>1, <1>2, Invariant, PTL DEF Spec

LifecycleStep(e) ==
  LET row == endpoint_inventory[e]
      new == endpoint_inventory'[e]
  IN /\ row.status = "absent" => new.status \in {"absent", "pending_register"}
     /\ row.status # "absent" => new.status # "absent"
     /\ row.status = "active" => \/ new.status = "active" /\ new.gen = row.gen
                                 \/ new.gen = row.gen + 1
     /\ new.gen >= row.gen

\* The endpoint life cycle of the documentation, step by step.
THEOREM Lifecycle == Spec => LifecycleSteps
<1>1. ASSUME IInv, FreshRows, [Next]_vars, NEW e \in Endpoints
      PROVE  LifecycleStep(e)
  <2>0. TypeOK /\ HandlerInv
    BY <1>1 DEF IInv
  <2>1. endpoint_inventory[e] \in EndpointRow /\ endpoint_inventory[e].gen \in Nat
    BY <2>0, IdentityAssumption DEF TypeOK, EndpointRow, Generations
  <2>2. CASE endpoint_inventory' = endpoint_inventory
    BY <2>1, <2>2 DEF LifecycleStep
  <2>3. ASSUME NEW r \in Requests, NEW d \in Endpoints, EnrollInsert(r, d)
        PROVE  LifecycleStep(e)
    <3>1. /\ endpoint_inventory'[d] = NewRow(handler[r])
          /\ endpoint_inventory[d].status = "absent"
          /\ \A c \in Endpoints \ {d} : endpoint_inventory'[c] = endpoint_inventory[c]
      BY <2>0, <2>3 DEF EnrollInsert, TypeOK
    <3>2. endpoint_inventory[d].gen = 0
      BY <1>1, <3>1 DEF FreshRows, Exists
    <3> QED
      BY <2>1, <3>1, <3>2 DEF NewRow, LifecycleStep
  <2>4. ASSUME NEW r \in Requests, RegisterUpdate(r)
        PROVE  LifecycleStep(e)
    <3>1. PICK d \in Endpoints, g \in Generations : handler[r].secret = <<d, g>>
      BY <2>0, <2>4, HandlerLocals DEF RegisterUpdate, TypeOK, Secrets
    <3>2. endpoint_inventory[d].status # "absent"
      BY <2>0, <2>4, <3>1 DEF RegisterUpdate, HandlerInv, Exists
    <3> QED
      BY <2>0, <2>1, <2>4, <3>1, <3>2 DEF RegisterUpdate, TypeOK, EndpointRow, LifecycleStep
  <2>5. ASSUME NEW r \in Requests, RotateUpdate(r)
        PROVE  LifecycleStep(e)
    <3>1. PICK d \in Endpoints : d = handler[r].endpoint
      BY <2>0, <2>5, HandlerLocals DEF TypeOK, RotateUpdate
    <3>2. endpoint_inventory[d].status # "absent"
      BY <2>0, <2>5, <3>1 DEF RotateUpdate, HandlerInv, Exists
    <3> QED
      BY <2>0, <2>1, <2>5, <3>1, <3>2
      DEF RotateUpdate, RotatedRow, TypeOK, EndpointRow, LifecycleStep
  <2> QED
    BY <1>1, <2>2, <2>3, <2>4, <2>5, ZenonT(30)
    DEF Next, vars, ProvisionTenant, IssueTenant, IssueInsert, IssueAudit, Expire, EnrollRead,
        RegisterAuth, RotateRead, RotateAudit, Deliver, HandlerDies
<1>2. IInv /\ FreshRows /\ [Next]_vars =>
        [\A e \in Endpoints :
           LET row == endpoint_inventory[e]
               new == endpoint_inventory'[e]
           IN /\ row.status = "absent" => new.status \in {"absent", "pending_register"}
              /\ row.status # "absent" => new.status # "absent"
              /\ row.status = "active" => \/ new.status = "active" /\ new.gen = row.gen
                                          \/ new.gen = row.gen + 1
              /\ new.gen >= row.gen]_vars
  BY <1>1 DEF LifecycleStep
<1> QED
  BY <1>2, Invariant, RowsFresh, PTL DEF Spec, LifecycleSteps

-----------------------------------------------------------------------------
(* Counting.                                                                 *)

LEMMA EnrollingFinite ==
  ASSUME NEW t \in Tokens
  PROVE  /\ IsFiniteSet(EnrollingWith(t))
         /\ Cardinality(EnrollingWith(t)) \in Nat
         /\ Cardinality(EnrollingWith(t)) <= Cardinality(Requests)
         /\ Cardinality(Requests) \in Nat
<1>1. EnrollingWith(t) \subseteq Requests /\ IsFiniteSet(Requests)
  BY IdentityAssumption DEF EnrollingWith
<1> QED
  BY <1>1, FS_Subset, FS_CardinalityType

\* A handler that moves anywhere but to its insert joins no token's enrolments.
LEMMA NoNewEnrolling ==
  ASSUME TypeOK, NEW r \in Requests, NEW h, Step(r, h), h.at # "enroll_insert",
         NEW t \in Tokens
  PROVE  /\ EnrollingWith(t)' \subseteq EnrollingWith(t) \ {r}
         /\ Cardinality(EnrollingWith(t)') \in Nat
         /\ Cardinality(EnrollingWith(t)') <= Cardinality(EnrollingWith(t))
<1>1. EnrollingWith(t)' \subseteq EnrollingWith(t) \ {r}
  BY DEF TypeOK, Step, EnrollingWith
<1>2. EnrollingWith(t)' \subseteq EnrollingWith(t) /\ IsFiniteSet(EnrollingWith(t))
  BY <1>1, EnrollingFinite
<1> QED
  BY <1>1, <1>2, FS_Subset, FS_CardinalityType

\* The bound of one token, over the state before and after a step.
Bound(t) ==
  enrollment_tokens[t].uses + Cardinality(EnrollingWith(t)) + 1
      <= enrollment_tokens[t].max_use + Cardinality(Requests)

LEMMA BoundFrame ==
  ASSUME TypeOK, TypeOK', NEW t \in Tokens, Bound(t),
         enrollment_tokens'[t].uses = enrollment_tokens[t].uses,
         enrollment_tokens'[t].max_use = enrollment_tokens[t].max_use,
         Cardinality(EnrollingWith(t)') \in Nat,
         Cardinality(EnrollingWith(t)') <= Cardinality(EnrollingWith(t))
  PROVE  Bound(t)'
<1>1. /\ enrollment_tokens[t].uses \in Nat /\ enrollment_tokens[t].max_use \in Nat
      /\ Cardinality(EnrollingWith(t)) \in Nat /\ Cardinality(Requests) \in Nat
  BY EnrollingFinite DEF TypeOK, TokenRow
<1>2. enrollment_tokens'[t].uses + Cardinality(EnrollingWith(t)') + 1
          <= enrollment_tokens'[t].max_use + Cardinality(Requests)
  BY <1>1 DEF Bound
<1> QED
  BY <1>2 DEF Bound

\* The one-step bound on the overshoot of a token's uses.
LEMMA NextOvershoot ==
  ASSUME IInv, IInv', OvershootBounded, [Next]_vars, NEW t \in Tokens
  PROVE  Bound(t)'
<1> USE IdentityAssumption
<1>0. TypeOK /\ TypeOK' /\ HandlerInv /\ Bound(t)
  BY DEF IInv, OvershootBounded, Bound
<1>typ. /\ enrollment_tokens[t].uses \in Nat /\ enrollment_tokens[t].max_use \in Nat
        /\ Cardinality(EnrollingWith(t)) \in Nat /\ Cardinality(Requests) \in Nat
        /\ IsFiniteSet(EnrollingWith(t))
  BY <1>0, EnrollingFinite DEF TypeOK, TokenRow
<1>1. ASSUME NEW r \in Requests, NEW h, Step(r, h), h.at # "enroll_insert",
             enrollment_tokens' = enrollment_tokens
      PROVE  Bound(t)'
  BY <1>0, <1>1, NoNewEnrolling, BoundFrame
<1>2. ASSUME NEW r \in Requests, NEW u \in Tokens, IssueInsert(r, u)
      PROVE  Bound(t)'
  <2>1. /\ EnrollingWith(t)' \subseteq EnrollingWith(t) \ {r}
        /\ Cardinality(EnrollingWith(t)') \in Nat
        /\ Cardinality(EnrollingWith(t)') <= Cardinality(EnrollingWith(t))
    BY <1>0, <1>2, NoNewEnrolling DEF IssueInsert
  <2>2. CASE u # t
    BY <1>0, <1>2, <2>1, <2>2, BoundFrame DEF IssueInsert, TypeOK
  <2>3. CASE u = t
    <3>1. EnrollingWith(t)' \subseteq Requests \ {r}
      BY <2>1 DEF EnrollingWith
    <3>2. Cardinality(EnrollingWith(t)') <= Cardinality(Requests) - 1
      <4>1. IsFiniteSet(Requests \ {r}) /\ Cardinality(Requests \ {r}) = Cardinality(Requests) - 1
        BY FS_RemoveElement
      <4>2. Cardinality(EnrollingWith(t)') <= Cardinality(Requests \ {r})
        BY <3>1, <4>1, FS_Subset
      <4> QED
        BY <4>1, <4>2
    <3>3. enrollment_tokens'[t].uses = 0 /\ enrollment_tokens'[t].max_use \in Nat
      BY <1>0, <1>2, <2>3 DEF IssueInsert, TypeOK, TokenRow
    <3>4. enrollment_tokens'[t].uses + Cardinality(EnrollingWith(t)') + 1
              <= enrollment_tokens'[t].max_use + Cardinality(Requests)
      BY <1>typ, <2>1, <3>2, <3>3
    <3> QED
      BY <3>4 DEF Bound
  <2> QED
    BY <2>2, <2>3
<1>3. ASSUME NEW u \in Tokens, Expire(u)
      PROVE  Bound(t)'
  <2>1. EnrollingWith(t)' = EnrollingWith(t)
    BY <1>3 DEF Expire, EnrollingWith
  <2>2. /\ enrollment_tokens'[t].uses = enrollment_tokens[t].uses
        /\ enrollment_tokens'[t].max_use = enrollment_tokens[t].max_use
    BY <1>0, <1>3 DEF Expire, TypeOK, TokenRow
  <2> QED
    BY <1>0, <1>typ, <2>1, <2>2, BoundFrame
<1>4. ASSUME NEW r \in Requests, NEW u \in Tokens, EnrollRead(r, u)
      PROVE  Bound(t)'
  <2>1. CASE ~Redeemable(enrollment_tokens[u])
    BY <1>1, <1>4, <2>1 DEF EnrollRead, Rejected
  <2>2. CASE Redeemable(enrollment_tokens[u]) /\ u # t
    <3>1. EnrollingWith(t)' \subseteq EnrollingWith(t)
      BY <1>0, <1>4, <2>2 DEF EnrollRead, Step, TypeOK, EnrollingWith
    <3>2. /\ Cardinality(EnrollingWith(t)') \in Nat
          /\ Cardinality(EnrollingWith(t)') <= Cardinality(EnrollingWith(t))
      BY <1>typ, <3>1, FS_Subset, FS_CardinalityType
    <3> QED
      BY <1>0, <1>4, <3>2, BoundFrame DEF EnrollRead
  <2>3. CASE Redeemable(enrollment_tokens[u]) /\ u = t
    <3>1. EnrollingWith(t)' \subseteq Requests /\ IsFiniteSet(Requests)
      BY DEF EnrollingWith
    <3>2. /\ Cardinality(EnrollingWith(t)') \in Nat
          /\ Cardinality(EnrollingWith(t)') <= Cardinality(Requests)
      BY <3>1, FS_Subset, FS_CardinalityType
    <3>3. /\ enrollment_tokens[t].uses < enrollment_tokens[t].max_use
          /\ enrollment_tokens' = enrollment_tokens
      BY <1>4, <2>3 DEF EnrollRead, Redeemable
    <3>4. enrollment_tokens'[t].uses + Cardinality(EnrollingWith(t)') + 1
              <= enrollment_tokens'[t].max_use + Cardinality(Requests)
      BY <1>typ, <3>2, <3>3
    <3> QED
      BY <3>4 DEF Bound
  <2> QED
    BY <2>1, <2>2, <2>3
<1>5. ASSUME NEW r \in Requests, NEW e \in Endpoints, EnrollInsert(r, e)
      PROVE  Bound(t)'
  <2>1. /\ EnrollingWith(t)' \subseteq EnrollingWith(t) \ {r}
        /\ Cardinality(EnrollingWith(t)') \in Nat
        /\ Cardinality(EnrollingWith(t)') <= Cardinality(EnrollingWith(t))
    BY <1>0, <1>5, NoNewEnrolling DEF EnrollInsert, Credential
  <2>2. handler[r].token \in Tokens
    BY <1>0, <1>5, HandlerLocals DEF TypeOK, EnrollInsert
  <2>3. CASE handler[r].token # t
    BY <1>0, <1>5, <2>1, <2>2, <2>3, BoundFrame DEF EnrollInsert, TypeOK
  <2>4. CASE handler[r].token = t
    <3>1. r \in EnrollingWith(t)
      BY <1>5, <2>4 DEF EnrollInsert, EnrollingWith
    <3>2. Cardinality(EnrollingWith(t)') <= Cardinality(EnrollingWith(t)) - 1
      <4>1. /\ IsFiniteSet(EnrollingWith(t) \ {r})
            /\ Cardinality(EnrollingWith(t) \ {r}) = Cardinality(EnrollingWith(t)) - 1
        BY <1>typ, <3>1, FS_RemoveElement
      <4>2. Cardinality(EnrollingWith(t)') <= Cardinality(EnrollingWith(t) \ {r})
        BY <2>1, <4>1, FS_Subset
      <4> QED
        BY <4>1, <4>2
    <3>3. /\ enrollment_tokens'[t].uses = enrollment_tokens[t].uses + 1
          /\ enrollment_tokens'[t].max_use = enrollment_tokens[t].max_use
      BY <1>0, <1>5, <2>4 DEF EnrollInsert, SpendToken, TypeOK, TokenRow
    <3>4. enrollment_tokens'[t].uses + Cardinality(EnrollingWith(t)') + 1
              <= enrollment_tokens'[t].max_use + Cardinality(Requests)
      BY <1>0, <1>typ, <2>1, <3>2, <3>3 DEF Bound
    <3> QED
      BY <3>4 DEF Bound
  <2> QED
    BY <2>3, <2>4
<1>6. CASE UNCHANGED vars
  <2>1. EnrollingWith(t)' = EnrollingWith(t)
    BY <1>6 DEF EnrollingWith, vars
  <2> QED
    BY <1>0, <1>6, <1>typ, <2>1, BoundFrame DEF vars
<1>7. ASSUME NEW r \in Requests,
             \/ \E x \in Tenants : ProvisionTenant(r, x)
             \/ \E x \in Tenants, m \in MaxUses : IssueTenant(r, x, m)
             \/ \E e \in Endpoints : RotateRead(r, e)
             \/ \E s \in known, x \in Tenants \cup {NoHeader} : RegisterAuth(r, s, x)
             \/ IssueAudit(r) \/ RegisterUpdate(r) \/ RotateUpdate(r)
             \/ RotateAudit(r) \/ Deliver(r) \/ HandlerDies(r)
      PROVE  Bound(t)'
  <2>1. \E h : Step(r, h) /\ h.at # "enroll_insert" /\ enrollment_tokens' = enrollment_tokens
    BY <1>7, ZenonT(30) DEF ProvisionTenant, IssueTenant, RotateRead, RegisterAuth, IssueAudit, RegisterUpdate,
                RotateUpdate, RotateAudit, Deliver, HandlerDies, Idle, Rejected, Accepted
  <2> QED
    BY <1>1, <2>1
<1> QED
  BY <1>2, <1>3, <1>4, <1>5, <1>6, <1>7 DEF Next

\* However many handlers pass the check of enroll_endpoint together, a token
\* enrols fewer than max_use + |Requests| endpoints.
THEOREM Overshoot == Spec => []OvershootBounded
<1>1. Init => OvershootBounded
  <2> SUFFICES ASSUME Init, NEW t \in Tokens
               PROVE  Bound(t)
    BY DEF OvershootBounded, Bound
  <2>1. EnrollingWith(t) = {}
    BY DEF Init, EnrollingWith, Idle
  <2>2. Cardinality(Requests) \in Nat /\ Cardinality(Requests) # 0
    BY IdentityAssumption, FS_CardinalityType, FS_EmptySet
  <2>3. enrollment_tokens[t].uses = 0 /\ enrollment_tokens[t].max_use = 0
    BY DEF Init
  <2> QED
    BY <2>1, <2>2, <2>3, FS_EmptySet DEF Bound
<1>2. IInv /\ IInv' /\ OvershootBounded /\ [Next]_vars => OvershootBounded'
  BY NextOvershoot DEF OvershootBounded, Bound
<1> QED
  BY <1>1, <1>2, Invariant, PTL DEF Spec

\* Exactly the endpoints inserted with a token count as its uses.
THEOREM UsesCounted == Spec => []UsesCountEnrollments
<1> DEFINE Counted(t) == enrollment_tokens[t].uses = Cardinality(EnrolledWith(t))
<1>1. Init => UsesCountEnrollments
  <2> SUFFICES ASSUME Init, NEW t \in Tokens
               PROVE  Counted(t)
    BY DEF UsesCountEnrollments
  <2>1. EnrolledWith(t) = {}
    BY DEF Init, EnrolledWith
  <2> QED
    BY <2>1, FS_EmptySet DEF Init
<1>2. ASSUME IInv, UsesCountEnrollments, [Next]_vars, NEW t \in Tokens
      PROVE  enrollment_tokens'[t].uses = Cardinality(EnrolledWith(t)')
  <2> USE IdentityAssumption
  <2>0. TypeOK /\ HandlerInv /\ TenantConsistent /\ Counted(t)
    BY <1>2 DEF IInv, UsesCountEnrollments
  <2>1. CASE UNCHANGED <<enrollment_tokens, endpoint_inventory>>
    BY <2>0, <2>1 DEF EnrolledWith
  <2>2. ASSUME NEW r \in Requests, NEW u \in Tokens, IssueInsert(r, u)
        PROVE  enrollment_tokens'[t].uses = Cardinality(EnrolledWith(t)')
    <3>1. EnrolledWith(t)' = EnrolledWith(t)
      BY <2>2 DEF IssueInsert, EnrolledWith
    <3>2. CASE u # t
      BY <2>0, <2>2, <3>1, <3>2 DEF IssueInsert, TypeOK
    <3>3. CASE u = t
      <4>1. EnrolledWith(t) = {}
        BY <2>0, <2>2, <3>3 DEF IssueInsert, TenantConsistent, EnrolledWith
      <4> QED
        BY <2>0, <2>2, <3>1, <3>3, <4>1, FS_EmptySet DEF IssueInsert, TypeOK
    <3> QED
      BY <3>2, <3>3
  <2>3. ASSUME NEW u \in Tokens, Expire(u)
        PROVE  enrollment_tokens'[t].uses = Cardinality(EnrolledWith(t)')
    <3>1. EnrolledWith(t)' = EnrolledWith(t)
      BY <2>3 DEF Expire, EnrolledWith
    <3> QED
      BY <2>0, <2>3, <3>1 DEF Expire, TypeOK, TokenRow
  <2>4. ASSUME NEW r \in Requests, NEW e \in Endpoints, EnrollInsert(r, e)
        PROVE  enrollment_tokens'[t].uses = Cardinality(EnrolledWith(t)')
    <3>0. handler[r].token \in Tokens
      BY <2>0, <2>4, HandlerLocals DEF TypeOK, EnrollInsert
    <3>1. /\ endpoint_inventory'[e].status # "absent"
          /\ endpoint_inventory'[e].token = handler[r].token
          /\ endpoint_inventory[e].status = "absent"
          /\ \A d \in Endpoints \ {e} : endpoint_inventory'[d] = endpoint_inventory[d]
      BY <2>0, <2>4 DEF EnrollInsert, NewRow, TypeOK
    <3>2. CASE handler[r].token # t
      <4>1. EnrolledWith(t)' = EnrolledWith(t)
        BY <3>1, <3>2 DEF EnrolledWith
      <4> QED
        BY <2>0, <2>4, <3>0, <3>2, <4>1 DEF EnrollInsert, TypeOK
    <3>3. CASE handler[r].token = t
      <4>1. EnrolledWith(t)' = EnrolledWith(t) \cup {e} /\ e \notin EnrolledWith(t)
        BY <3>1, <3>3 DEF EnrolledWith
      <4>2. IsFiniteSet(EnrolledWith(t))
        BY FS_Subset DEF EnrolledWith
      <4>3. Cardinality(EnrolledWith(t)') = Cardinality(EnrolledWith(t)) + 1
        BY <4>1, <4>2, FS_AddElement
      <4>4. enrollment_tokens'[t].uses = enrollment_tokens[t].uses + 1
        BY <2>0, <2>4, <3>3 DEF EnrollInsert, SpendToken, TypeOK, TokenRow
      <4> QED
        BY <2>0, <4>3, <4>4
    <3> QED
      BY <3>2, <3>3
  <2>5. ASSUME NEW r \in Requests, RegisterUpdate(r) \/ RotateUpdate(r)
        PROVE  enrollment_tokens'[t].uses = Cardinality(EnrolledWith(t)')
    <3>1. \A d \in Endpoints :
            /\ (endpoint_inventory'[d].status # "absent") = (endpoint_inventory[d].status # "absent")
            /\ endpoint_inventory'[d].token = endpoint_inventory[d].token
      <4>1. CASE RegisterUpdate(r)
        <5>1. PICK d \in Endpoints, g \in Generations : handler[r].secret = <<d, g>>
          BY <2>0, <4>1, HandlerLocals DEF RegisterUpdate, TypeOK, Secrets
        <5>2. endpoint_inventory[d].status # "absent"
          BY <2>0, <4>1, <5>1 DEF RegisterUpdate, HandlerInv, Exists
        <5> QED
          BY <2>0, <4>1, <5>1, <5>2 DEF RegisterUpdate, TypeOK, EndpointRow
      <4>2. CASE RotateUpdate(r)
        <5>1. PICK d \in Endpoints : d = handler[r].endpoint
          BY <2>0, <4>2, HandlerLocals DEF TypeOK, RotateUpdate
        <5>2. endpoint_inventory[d].status # "absent"
          BY <2>0, <4>2, <5>1, ZenonT(30) DEF RotateUpdate, HandlerInv, Exists
        <5> QED
          BY <2>0, <4>2, <5>1, <5>2 DEF RotateUpdate, RotatedRow, TypeOK, EndpointRow
      <4> QED
        BY <2>5, <4>1, <4>2
    <3>2. EnrolledWith(t)' = EnrolledWith(t)
      BY <3>1 DEF EnrolledWith
    <3> QED
      BY <2>0, <2>5, <3>2 DEF RegisterUpdate, RotateUpdate
  <2> QED
    BY <1>2, <2>1, <2>2, <2>3, <2>4, <2>5, ZenonT(30)
    DEF Next, vars, ProvisionTenant, IssueTenant, IssueAudit, EnrollRead,
        RegisterAuth, RotateRead, RotateAudit, Deliver, HandlerDies
<1>3. IInv /\ UsesCountEnrollments /\ [Next]_vars => UsesCountEnrollments'
  BY <1>2 DEF UsesCountEnrollments
<1> QED
  BY <1>1, <1>3, Invariant, PTL DEF Spec
=============================================================================
