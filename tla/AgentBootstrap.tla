--------------------------- MODULE AgentBootstrap ---------------------------
(***************************************************************************)
(* How an agent obtains and keeps its identity: main, enroll_and_register, *)
(* load_stored_credentials, save_credentials and register_with_hub of      *)
(* hybrid-siem-agent/agent_poller.py against the hub's enroll, register    *)
(* and rotate handlers (module EndpointIdentity, here one step each).      *)
(*                                                                         *)
(* A call to the hub is answered, refused, or fails after the hub did or   *)
(* did not do its part; the process may die at any step and be started     *)
(* again.  A credential is named by its endpoint; a rotated endpoint's     *)
(* credential is worthless, since the new secret is sent to no one.        *)
(***************************************************************************)
EXTENDS Integers, FiniteSets

CONSTANTS
    Endpoints,    \* endpoint ids the hub can mint
    None,         \* no credential
    Presets,      \* what may be configured ahead of .agent_credentials.json: a
                  \* credential (environment, CREDENTIALS_FILE), or None
    TokenUses,    \* uses left on TENANT_ENROLLMENT_TOKEN, when it is set
    MintUses,     \* max_use of a token the agent asks for itself (10 in the code)
    MaxFaults,    \* bound: calls and writes that fail, rotations
    MaxCrashes    \* bound: deaths of the process

ASSUME BootstrapAssumption ==
    /\ IsFiniteSet(Endpoints) /\ None \notin Endpoints
    /\ Presets \subseteq Endpoints \cup {None}
    /\ TokenUses \in Nat /\ MintUses \in Nat /\ MaxFaults \in Nat /\ MaxCrashes \in Nat

VARIABLES
    at,       \* where the process is
    preset,   \* the configured credential, or None
    hasToken, \* TENANT_ENROLLMENT_TOKEN is set
    mem,      \* ENDPOINT_ID and ENDPOINT_SECRET of the process
    disk,     \* .agent_credentials.json
    rows,     \* hub: endpoint -> status in endpoint_inventory
    rotated,  \* hub: endpoints whose secret was rotated
    left,     \* hub: uses left on the token the agent has
    faults, crashes

config == <<preset, hasToken>>
vars == <<at, config, mem, disk, rows, rotated, left, faults, crashes>>
hub == <<rows, rotated, left>>

-----------------------------------------------------------------------------
TypeOK ==
    /\ at \in {"down", "load", "register_stored", "token", "enroll", "save",
               "register_new", "polling"}
    /\ preset \in Presets /\ hasToken \in BOOLEAN
    /\ mem \in Endpoints \cup {None}
    /\ disk \in Endpoints \cup {None}
    /\ rows \in [Endpoints -> {"absent", "pending_register", "active"}]
    /\ rotated \subseteq Endpoints
    /\ left \in Nat
    /\ faults \in 0 .. MaxFaults /\ crashes \in 0 .. MaxCrashes

Init ==
    /\ preset \in Presets /\ hasToken \in BOOLEAN
    /\ at = "down" /\ mem = None /\ disk = None
    /\ rows = [e \in Endpoints |-> IF e = preset THEN "active" ELSE "absent"]
    /\ rotated = {}
    /\ left = IF hasToken THEN TokenUses ELSE 0
    /\ faults = 0 /\ crashes = 0

Fault == faults < MaxFaults /\ faults' = faults + 1

Start ==
    /\ at = "down"
    /\ at' = "load"
    /\ mem' = None
    /\ UNCHANGED <<config, disk, hub, faults, crashes>>

Stored == IF preset # None THEN preset ELSE disk

\* Mutant: the identity on disk is not looked for.
LoadIgnoresDisk ==
    /\ at = "load"
    /\ mem' = preset
    /\ at' = IF preset # None THEN "register_stored" ELSE "token"
    /\ UNCHANGED <<config, disk, hub, faults, crashes>>

\* load_stored_credentials.
Load ==
    /\ at = "load"
    /\ mem' = Stored
    /\ at' = IF Stored # None THEN "register_stored" ELSE "token"
    /\ UNCHANGED <<config, disk, hub, faults, crashes>>

-----------------------------------------------------------------------------
(* register_with_hub: any exception is False.  After stored credentials a    *)
(* False leads to enrolment, after new ones to the end of the process.       *)

\* Mutant: the stored identity is the only one that is tried.
AfterFailureGivesUp == "down"

AfterFailure == IF at = "register_stored" THEN "token" ELSE "down"

Registering == at \in {"register_stored", "register_new"}

Valid(e) == rows[e] # "absent" /\ e \notin rotated

RegisterOk ==
    /\ Registering /\ Valid(mem)
    /\ rows' = [rows EXCEPT ![mem] = "active"]
    /\ at' = "polling"
    /\ UNCHANGED <<config, mem, disk, rotated, left, faults, crashes>>

RegisterRejected ==
    /\ Registering /\ ~Valid(mem)
    /\ at' = AfterFailure
    /\ UNCHANGED <<config, mem, disk, hub, faults, crashes>>

\* Timeout or connection error, before or after the hub's UPDATE.
RegisterFails ==
    /\ Registering /\ Fault
    /\ \/ Valid(mem) /\ rows' = [rows EXCEPT ![mem] = "active"]
       \/ UNCHANGED rows
    /\ at' = AfterFailure
    /\ UNCHANGED <<config, mem, disk, rotated, left, crashes>>

-----------------------------------------------------------------------------
(* enroll_and_register, from the token on.                                   *)

\* Without a configured token the agent asks the hub for one, which may refuse.
Token ==
    /\ at = "token"
    /\ \/ /\ hasToken
          /\ at' = "enroll" /\ UNCHANGED left
       \/ /\ ~hasToken
          /\ left' = MintUses /\ at' = "enroll"
       \/ /\ ~hasToken
          /\ at' = "down" /\ UNCHANGED left
    /\ UNCHANGED <<config, mem, disk, rows, rotated, faults, crashes>>

\* Mutant: the hub does not compare uses with max_use.
EnrollOkUnchecked(e) ==
    /\ at = "enroll" /\ rows[e] = "absent"
    /\ rows' = [rows EXCEPT ![e] = "pending_register"]
    /\ left' = left - 1
    /\ mem' = e
    /\ at' = "save"
    /\ UNCHANGED <<config, disk, rotated, faults, crashes>>

EnrollOk(e) ==
    /\ at = "enroll" /\ left > 0 /\ rows[e] = "absent"
    /\ rows' = [rows EXCEPT ![e] = "pending_register"]
    /\ left' = left - 1
    /\ mem' = e
    /\ at' = "save"
    /\ UNCHANGED <<config, disk, rotated, faults, crashes>>

EnrollRejected ==
    /\ at = "enroll" /\ left = 0
    /\ at' = "down"
    /\ UNCHANGED <<config, mem, disk, hub, faults, crashes>>

\* Timeout or connection error, after or before the hub's transaction.
EnrollFails ==
    /\ at = "enroll" /\ Fault
    /\ \/ /\ left > 0
          /\ \E e \in Endpoints : rows[e] = "absent" /\
                 rows' = [rows EXCEPT ![e] = "pending_register"]
          /\ left' = left - 1
       \/ UNCHANGED <<rows, left>>
    /\ at' = "down"
    /\ UNCHANGED <<config, mem, disk, rotated, crashes>>

\* save_credentials logs a failure and goes on.
Save ==
    /\ at = "save"
    /\ \/ disk' = mem /\ UNCHANGED faults
       \/ Fault /\ UNCHANGED disk
    /\ at' = "register_new"
    /\ UNCHANGED <<config, mem, hub, crashes>>

-----------------------------------------------------------------------------
(* The process dies; an administrator rotates a credential.                  *)

\* A death before the new credentials are on disk is a fault.
Crash ==
    /\ at # "down" /\ crashes < MaxCrashes
    /\ crashes' = crashes + 1
    /\ IF at = "save" THEN Fault ELSE UNCHANGED faults
    /\ at' = "down"
    /\ UNCHANGED <<config, mem, disk, hub>>

Rotate(e) ==
    /\ Valid(e) /\ Fault
    /\ rotated' = rotated \cup {e}
    /\ rows' = [rows EXCEPT ![e] = "pending_register"]
    /\ UNCHANGED <<config, at, mem, disk, left, crashes>>

\* poll_for_tasks: a 401 is slept on, nothing else changes.
Poll ==
    /\ at = "polling"
    /\ UNCHANGED vars

Agent ==
    \/ Start \/ Load
    \/ RegisterOk \/ RegisterRejected \/ RegisterFails
    \/ Token \/ EnrollRejected \/ EnrollFails \/ Save
    \/ \E e \in Endpoints : EnrollOk(e)

Next == Agent \/ Poll \/ Crash \/ \E e \in Endpoints : Rotate(e)

-----------------------------------------------------------------------------
(* Properties.                                                               *)

\* A polling agent holds an identity the hub has made active, unless that
\* identity was rotated since: a failed registration never reaches the loop.
PollingIdentityActive ==
    at = "polling" => mem \in rotated \/ (mem # None /\ rows[mem] = "active")

Enrolled == {e \in Endpoints \ {preset} : rows[e] # "absent"}

\* Every enrolment after the first is explained by a fault (an answer or a
\* write that was lost, a rotation); reboots alone cost nothing.
ExtraEnrollmentsExplained ==
    preset = None => Cardinality(Enrolled) <= 1 + faults

\* An agent with a token that is started reaches the polling loop, through as
\* many reboots as it takes, unless its token has no use left.
BootstrapCompletes == (hasToken /\ at = "load") ~> (at = "polling" \/ left = 0)
=============================================================================
