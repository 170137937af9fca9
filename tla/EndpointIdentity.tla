-------------------------- MODULE EndpointIdentity --------------------------
(***************************************************************************)
(* The identity tables of the agent fabric and the FastAPI handlers that   *)
(* read and write them (soc-backend/interfaces/agent_routes.py):           *)
(* provision_tenant, create_enrollment_token, enroll_endpoint,             *)
(* register_endpoint and rotate_endpoint_credential.                       *)
(*                                                                         *)
(* A handler is a coroutine: every `await db...` is a point where another  *)
(* request (of this worker or of another replica) may run.  Each request   *)
(* slot r walks through its handler one database statement at a time; what *)
(* the handler keeps in locals between two statements is in handler[r].    *)
(*                                                                         *)
(* A fresh random secret is <<endpoint, generation>>: enrolment issues     *)
(* generation 0 and every rotation the next one.                           *)
(***************************************************************************)
EXTENDS Naturals, FiniteSets

CONSTANTS
    Tenants,        \* tenant ids an administrator may name
    Tokens,         \* enrollment token values the hub can mint
    Endpoints,      \* endpoint UUIDs the hub can mint
    Requests,       \* request slots: the most handlers that run at once
    MaxUses,        \* values of max_use an administrator asks for
    MaxGeneration,  \* bound: rotations of one endpoint
    NoHeader        \* the X-Tenant-ID header is absent

ASSUME IdentityAssumption ==
    /\ IsFiniteSet(Requests) /\ Requests # {}
    /\ IsFiniteSet(Endpoints)
    /\ Tenants # {} /\ Tokens # {}
    /\ MaxUses \subseteq Nat
    /\ MaxGeneration \in Nat
    /\ NoHeader \notin Tenants

VARIABLES
    tenant_registry,    \* tenants that have a row
    enrollment_tokens,  \* token -> row
    endpoint_inventory, \* endpoint -> row
    audit_logs,         \* audit rows, each naming the event it records
    handler,            \* request slot -> where its handler is, and its locals
    known               \* secrets that reached a client

vars == <<tenant_registry, enrollment_tokens, endpoint_inventory,
          audit_logs, handler, known>>

-----------------------------------------------------------------------------
Generations == 0 .. MaxGeneration

Secrets == Endpoints \X Generations

\* status "absent" is a row that does not exist yet.
TokenRow == [status : {"absent", "valid", "expired"}, tenant : Tenants,
             max_use : Nat, uses : Nat]

\* token and activated are history: the token spent on the row, and the
\* generation of the secret whose registration last made the row active.
EndpointRow == [status : {"absent", "pending_register", "active"},
                tenant : Tenants, gen : Generations,
                token : Tokens, activated : Generations]

AuditRow == [action : {"enrollment_token_issued"}, token : Tokens]
            \cup [action : {"endpoint_secret_rotated"}, secret : Secrets]

Idle == [at |-> "idle"]

Rejected == [at |-> "replied", ok |-> FALSE]

\* A reply that carries nothing the client keeps, and an EnrollmentResponse.
Accepted == [at |-> "replied", ok |-> TRUE]

Credential(s) == [at |-> "credential", secret |-> s]

HandlerState ==
    {Idle, Rejected, Accepted}
    \cup [at : {"credential"}, secret : Secrets]
    \cup [at : {"issue_insert"}, tenant : Tenants, max_use : MaxUses]
    \cup [at : {"issue_audit"}, token : Tokens]
    \cup [at : {"enroll_insert"}, token : Tokens, row : TokenRow]
    \cup [at : {"register_update"}, secret : Secrets]
    \cup [at : {"rotate_update"}, endpoint : Endpoints]
    \cup [at : {"rotate_audit"}, secret : Secrets]

TypeOK ==
    /\ tenant_registry \subseteq Tenants
    /\ enrollment_tokens \in [Tokens -> TokenRow]
    /\ endpoint_inventory \in [Endpoints -> EndpointRow]
    /\ audit_logs \subseteq AuditRow
    /\ handler \in [Requests -> HandlerState]
    /\ known \subseteq Secrets

Init ==
    /\ tenant_registry = {}
    /\ enrollment_tokens =
         [t \in Tokens |-> [status |-> "absent", max_use |-> 0, uses |-> 0,
                            tenant |-> CHOOSE x \in Tenants : TRUE]]
    /\ endpoint_inventory =
         [e \in Endpoints |-> [status |-> "absent", gen |-> 0, activated |-> 0,
                               tenant |-> CHOOSE x \in Tenants : TRUE,
                               token |-> CHOOSE t \in Tokens : TRUE]]
    /\ audit_logs = {}
    /\ handler = [r \in Requests |-> Idle]
    /\ known = {}

Step(r, state) == handler' = [handler EXCEPT ![r] = state]

-----------------------------------------------------------------------------
(* provision_tenant: one INSERT .. ON CONFLICT DO NOTHING.                   *)

ProvisionTenant(r, x) ==
    /\ handler[r] = Idle
    /\ tenant_registry' = tenant_registry \cup {x}
    /\ Step(r, Accepted)
    /\ UNCHANGED <<enrollment_tokens, endpoint_inventory, audit_logs, known>>

-----------------------------------------------------------------------------
(* create_enrollment_token.  The tenant lookup and the INSERT .. ON CONFLICT *)
(* DO NOTHING are one step: tenants are never removed, so nothing can tell   *)
(* them apart.                                                               *)

IssueTenant(r, x, m) ==
    /\ handler[r] = Idle
    /\ tenant_registry' = tenant_registry \cup {x}
    /\ Step(r, [at |-> "issue_insert", tenant |-> x, max_use |-> m])
    /\ UNCHANGED <<enrollment_tokens, endpoint_inventory, audit_logs, known>>

IssueInsert(r, t) ==
    /\ handler[r].at = "issue_insert"
    /\ enrollment_tokens[t].status = "absent"
    /\ enrollment_tokens' = [enrollment_tokens EXCEPT ![t] =
            [status |-> "valid", tenant |-> handler[r].tenant,
             max_use |-> handler[r].max_use, uses |-> 0]]
    /\ Step(r, [at |-> "issue_audit", token |-> t])
    /\ UNCHANGED <<tenant_registry, endpoint_inventory, audit_logs, known>>

IssueAudit(r) ==
    /\ handler[r].at = "issue_audit"
    /\ audit_logs' = audit_logs \cup
            {[action |-> "enrollment_token_issued", token |-> handler[r].token]}
    /\ Step(r, Accepted)
    /\ UNCHANGED <<tenant_registry, enrollment_tokens, endpoint_inventory, known>>

\* now() passes expires_at.
Expire(t) ==
    /\ enrollment_tokens[t].status = "valid"
    /\ enrollment_tokens' = [enrollment_tokens EXCEPT ![t].status = "expired"]
    /\ UNCHANGED <<tenant_registry, endpoint_inventory, audit_logs, handler, known>>

-----------------------------------------------------------------------------
(* enroll_endpoint.  The token row is read once; the transaction that spends *)
(* it runs later and trusts what was read.                                   *)

\* Mutant: the limit itself is accepted.
RedeemableOffByOne(row) == row.status = "valid" /\ row.uses <= row.max_use

Redeemable(row) == row.status = "valid" /\ row.uses < row.max_use

EnrollRead(r, t) ==
    /\ handler[r] = Idle
    /\ IF Redeemable(enrollment_tokens[t])
       THEN /\ tenant_registry' = tenant_registry \cup {enrollment_tokens[t].tenant}
            /\ Step(r, [at |-> "enroll_insert", token |-> t,
                        row |-> enrollment_tokens[t]])
       ELSE /\ Step(r, Rejected)
            /\ UNCHANGED tenant_registry
    /\ UNCHANGED <<enrollment_tokens, endpoint_inventory, audit_logs, known>>

\* Mutant: the new count is computed from the row read before the checks.
SpendTokenFromRead(t, seen) == seen.uses + 1

\* UPDATE enrollment_tokens SET uses = uses + 1.
SpendToken(t, seen) == enrollment_tokens[t].uses + 1

NewRow(h) ==
    [status |-> "pending_register", tenant |-> h.row.tenant, gen |-> 0,
     token |-> h.token, activated |-> 0]

EnrollInsert(r, e) ==
    /\ handler[r].at = "enroll_insert"
    /\ endpoint_inventory[e].status = "absent"
    /\ endpoint_inventory' = [endpoint_inventory EXCEPT ![e] = NewRow(handler[r])]
    /\ enrollment_tokens' = [enrollment_tokens EXCEPT ![handler[r].token].uses =
            SpendToken(handler[r].token, handler[r].row)]
    /\ Step(r, Credential(<<e, 0>>))
    /\ UNCHANGED <<tenant_registry, audit_logs, known>>

-----------------------------------------------------------------------------
(* register_endpoint.  The dependency looks the endpoint up by its secret;   *)
(* the handler's UPDATE selects the row by endpoint_id only.                 *)

\* Mutant: the row is found by the endpoint the secret belongs to.
HoldsSecretByEndpoint(e, s) ==
    endpoint_inventory[e].status # "absent" /\ s[1] = e

\* get_base_endpoint_context: the row whose endpoint_secret is s.
HoldsSecret(e, s) ==
    /\ endpoint_inventory[e].status # "absent"
    /\ s = <<e, endpoint_inventory[e].gen>>

\* verify_endpoint_secret: what every telemetry and task route requires.
Authenticates(s) ==
    \E e \in Endpoints : HoldsSecret(e, s) /\ endpoint_inventory[e].status = "active"

\* verify_endpoint_secret_for_registration accepts both statuses of a row.
RegisterAuth(r, s, header) ==
    /\ handler[r] = Idle
    /\ IF \E e \in Endpoints : /\ HoldsSecret(e, s)
                               /\ header \in {NoHeader, endpoint_inventory[e].tenant}
       THEN Step(r, [at |-> "register_update", secret |-> s])
       ELSE Step(r, Rejected)
    /\ UNCHANGED <<tenant_registry, enrollment_tokens, endpoint_inventory,
                   audit_logs, known>>

RegisterUpdate(r) ==
    /\ handler[r].at = "register_update"
    /\ LET s == handler[r].secret
       IN endpoint_inventory' = [endpoint_inventory EXCEPT
              ![s[1]].status = "active", ![s[1]].activated = s[2]]
    /\ Step(r, Accepted)
    /\ UNCHANGED <<tenant_registry, enrollment_tokens, audit_logs, known>>

-----------------------------------------------------------------------------
(* rotate_endpoint_credential.  The new secret is stored and not returned.   *)

RotateRead(r, e) ==
    /\ handler[r] = Idle
    /\ IF endpoint_inventory[e].status # "absent"
       THEN Step(r, [at |-> "rotate_update", endpoint |-> e])
       ELSE Step(r, Rejected)
    /\ UNCHANGED <<tenant_registry, enrollment_tokens, endpoint_inventory,
                   audit_logs, known>>

RotatedRow(row) == [row EXCEPT !.gen = @ + 1, !.status = "pending_register"]

RotateUpdate(r) ==
    /\ handler[r].at = "rotate_update"
    /\ LET e == handler[r].endpoint
       IN /\ endpoint_inventory[e].gen < MaxGeneration
          /\ endpoint_inventory' = [endpoint_inventory EXCEPT
                 ![e] = RotatedRow(endpoint_inventory[e])]
          /\ Step(r, [at |-> "rotate_audit",
                      secret |-> <<e, endpoint_inventory[e].gen + 1>>])
    /\ UNCHANGED <<tenant_registry, enrollment_tokens, audit_logs, known>>

RotateAudit(r) ==
    /\ handler[r].at = "rotate_audit"
    /\ audit_logs' = audit_logs \cup
            {[action |-> "endpoint_secret_rotated", secret |-> handler[r].secret]}
    /\ Step(r, Accepted)
    /\ UNCHANGED <<tenant_registry, enrollment_tokens, endpoint_inventory, known>>

-----------------------------------------------------------------------------
(* The response reaches the client, or is lost; and a handler may stop       *)
(* between two statements because its worker is killed or the statement      *)
(* raises.  Statements already executed stay committed.                      *)

Deliver(r) ==
    /\ handler[r].at \in {"replied", "credential"}
    /\ known' = IF handler[r].at = "credential"
                THEN known \cup {handler[r].secret} ELSE known
    /\ Step(r, Idle)
    /\ UNCHANGED <<tenant_registry, enrollment_tokens, endpoint_inventory, audit_logs>>

HandlerDies(r) ==
    /\ handler[r] # Idle
    /\ Step(r, Idle)
    /\ UNCHANGED <<tenant_registry, enrollment_tokens, endpoint_inventory,
                   audit_logs, known>>

\* Clients present the secrets they hold.
Next ==
    \/ \E r \in Requests :
         \/ \E x \in Tenants : ProvisionTenant(r, x)
         \/ \E x \in Tenants, m \in MaxUses : IssueTenant(r, x, m)
         \/ \E t \in Tokens : IssueInsert(r, t) \/ EnrollRead(r, t)
         \/ \E e \in Endpoints : EnrollInsert(r, e) \/ RotateRead(r, e)
         \/ \E s \in known, x \in Tenants \cup {NoHeader} : RegisterAuth(r, s, x)
         \/ IssueAudit(r) \/ RegisterUpdate(r)
         \/ RotateUpdate(r) \/ RotateAudit(r)
         \/ Deliver(r) \/ HandlerDies(r)
    \/ \E t \in Tokens : Expire(t)

Spec == Init /\ [][Next]_vars

-----------------------------------------------------------------------------
(* Safety.                                                                   *)

EnrolledWith(t) ==
    {e \in Endpoints : /\ endpoint_inventory[e].status # "absent"
                       /\ endpoint_inventory[e].token = t}

\* A token's use count is the number of endpoints enrolled with it, whatever
\* handlers run at once or die: the insert and the increment are one
\* transaction, and the increment is relative to the row, not to the read.
UsesCountEnrollments ==
    \A t \in Tokens : enrollment_tokens[t].uses = Cardinality(EnrolledWith(t))

EnrollingWith(t) ==
    {r \in Requests : /\ handler[r].at = "enroll_insert"
                      /\ handler[r].token = t}

\* enroll_endpoint checks uses < max_use and spends the token later, so
\* handlers that passed the check together all enrol.  The overshoot is
\* bounded by the concurrency: a token enrols at most max_use - 1 endpoints
\* more than there are request slots, counting the handlers that have passed
\* the check.
OvershootBounded ==
    \A t \in Tokens :
        enrollment_tokens[t].uses + Cardinality(EnrollingWith(t)) + 1
            <= enrollment_tokens[t].max_use + Cardinality(Requests)

\* rotate_endpoint_credential revokes for good: no secret that a client holds,
\* or is being sent, for an endpoint that was ever rotated passes
\* verify_endpoint_secret, even when a registration that authenticated before
\* the rotation completes after it.
RevokedForGood ==
    \A s \in known \cup {handler[r].secret :
                            r \in {q \in Requests : handler[q].at = "credential"}} :
        endpoint_inventory[s[1]].gen > 0 => ~Authenticates(s)

\* Every endpoint belongs to the tenant of the token it was enrolled with, and
\* the tenants that tokens and endpoints name are provisioned in
\* tenant_registry (core-ingest refuses the telemetry of any other tenant).
TenantConsistent ==
    /\ \A t \in Tokens : enrollment_tokens[t].status # "absent" =>
            enrollment_tokens[t].tenant \in tenant_registry
    /\ \A e \in Endpoints : endpoint_inventory[e].status # "absent" =>
            LET t == endpoint_inventory[e].token
            IN /\ enrollment_tokens[t].status # "absent"
               /\ endpoint_inventory[e].tenant = enrollment_tokens[t].tenant

\* An audit row records something that happened: the token it names was
\* issued, the rotation it names was committed.  The handlers write the audit
\* row after the change, so a handler that dies in between never leaves a row
\* about a change that was not made.
AuditIsTruthful ==
    \A a \in audit_logs :
        \/ /\ a.action = "enrollment_token_issued"
           /\ enrollment_tokens[a.token].status # "absent"
        \/ /\ a.action = "endpoint_secret_rotated"
           /\ endpoint_inventory[a.secret[1]].gen >= a.secret[2]

\* The life cycle the documentation draws: a row is created pending_register,
\* becomes active only from an existing row, leaves active only together with
\* its secret, and its secret never goes back.
LifecycleSteps ==
    [][\A e \in Endpoints :
         LET row == endpoint_inventory[e]
             new == endpoint_inventory'[e]
         IN /\ row.status = "absent" => new.status \in {"absent", "pending_register"}
            /\ row.status # "absent" => new.status # "absent"
            /\ row.status = "active" => \/ new.status = "active" /\ new.gen = row.gen
                                        \/ new.gen = row.gen + 1
            /\ new.gen >= row.gen]_vars

-----------------------------------------------------------------------------
(* The inductive strengthening the proofs need: what a handler between two   *)
(* statements may still rely on.                                             *)

Exists(e) == endpoint_inventory[e].status # "absent"

Issued(t) == enrollment_tokens[t].status # "absent"

HandlerInv ==
    \A r \in Requests :
        /\ handler[r].at = "issue_insert" => handler[r].tenant \in tenant_registry
        /\ handler[r].at = "issue_audit" => Issued(handler[r].token)
        /\ handler[r].at = "enroll_insert" =>
               /\ Issued(handler[r].token)
               /\ handler[r].row.tenant = enrollment_tokens[handler[r].token].tenant
        /\ handler[r].at = "credential" =>
               Exists(handler[r].secret[1]) /\ handler[r].secret[2] = 0
        /\ handler[r].at = "register_update" => Exists(handler[r].secret[1])
        /\ handler[r].at = "rotate_update" => Exists(handler[r].endpoint)
        /\ handler[r].at = "rotate_audit" =>
               /\ Exists(handler[r].secret[1])
               /\ endpoint_inventory[handler[r].secret[1]].gen >= handler[r].secret[2]

KnownInv == \A s \in known : Exists(s[1]) /\ s[2] = 0

AuditInv ==
    \A a \in audit_logs :
        \/ a.action = "enrollment_token_issued" /\ Issued(a.token)
        \/ /\ a.action = "endpoint_secret_rotated"
           /\ Exists(a.secret[1])
           /\ endpoint_inventory[a.secret[1]].gen >= a.secret[2]

FreshRows == \A e \in Endpoints : ~Exists(e) => endpoint_inventory[e].gen = 0

IInv == TypeOK /\ HandlerInv /\ KnownInv /\ AuditInv /\ TenantConsistent

-----------------------------------------------------------------------------
(* What the documentation says and the handlers do not keep.                 *)

\* "Tokens are consumed immediately. Re-use returns 401."
SingleUseEnforced ==
    \A t \in Tokens : enrollment_tokens[t].uses <= enrollment_tokens[t].max_use

\* "Revokes the current endpoint_secret and sets status to pending_register":
\* an active endpoint was made active with the secret it has now.
ActiveWithCurrentSecret ==
    \A e \in Endpoints : endpoint_inventory[e].status = "active" =>
        endpoint_inventory[e].activated = endpoint_inventory[e].gen
=============================================================================
