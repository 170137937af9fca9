----------------------------- MODULE Connectors -----------------------------
(***************************************************************************)
(* The connector programs that the console hands out: one per language in  *)
(* the enrolment dialog (HostManagementPage.tsx) and one on the            *)
(* documentation page (DocumentationPage.tsx).  Each exchanges a           *)
(* single-use token for credentials, registers, and pushes events; they    *)
(* differ in where credentials are kept, which answers are checked and     *)
(* what a rejected push does.                                              *)
(*                                                                         *)
(* One installation of one of the programs runs again and again against    *)
(* the hub, while processes die, connections break, tokens expire and an   *)
(* administrator rotates credentials.                                      *)
(***************************************************************************)
EXTENDS Naturals

CONSTANTS Identities,    \* identities; one that nothing refers to is used again
          MaxConnFaults, \* bound on crashes, lost answers and expired tokens
          MaxRotations   \* bound on rotations

(***************************************************************************)
(* A program: whether its run is one push (a script) or the application    *)
(* calls its two operations (a library); whether credentials are kept in a *)
(* file; after which answer they are written; whether an error answer to   *)
(* enroll and to register ends the run, and a connection that breaks       *)
(* there; whether 401 and 403 remove the file.                             *)
(***************************************************************************)
HostCurl ==
    [library |-> FALSE, file |-> TRUE, saved |-> "enrolled",
     enrollChecked |-> FALSE, registerChecked |-> FALSE,
     enrollThrows |-> FALSE, registerThrows |-> FALSE, purges |-> TRUE]

HostPython ==
    [library |-> FALSE, file |-> TRUE, saved |-> "registered",
     enrollChecked |-> TRUE, registerChecked |-> TRUE,
     enrollThrows |-> TRUE, registerThrows |-> TRUE, purges |-> TRUE]

HostCsharp ==
    [library |-> FALSE, file |-> FALSE, saved |-> "never",
     enrollChecked |-> TRUE, registerChecked |-> TRUE,
     enrollThrows |-> TRUE, registerThrows |-> TRUE, purges |-> FALSE]

HostGo ==
    [library |-> FALSE, file |-> FALSE, saved |-> "never",
     enrollChecked |-> FALSE, registerChecked |-> FALSE,
     enrollThrows |-> TRUE, registerThrows |-> FALSE, purges |-> FALSE]

HostTypescript ==
    [library |-> FALSE, file |-> TRUE, saved |-> "registered",
     enrollChecked |-> FALSE, registerChecked |-> FALSE,
     enrollThrows |-> TRUE, registerThrows |-> TRUE, purges |-> FALSE]

\* An error answer has no "endpoint_secret" to split at: the index fails.
HostJava ==
    [library |-> FALSE, file |-> FALSE, saved |-> "never",
     enrollChecked |-> TRUE, registerChecked |-> FALSE,
     enrollThrows |-> TRUE, registerThrows |-> TRUE, purges |-> FALSE]

DocPython ==
    [library |-> FALSE, file |-> TRUE, saved |-> "registered",
     enrollChecked |-> TRUE, registerChecked |-> TRUE,
     enrollThrows |-> TRUE, registerThrows |-> TRUE, purges |-> TRUE]

DocCsharp ==
    [library |-> TRUE, file |-> FALSE, saved |-> "never",
     enrollChecked |-> TRUE, registerChecked |-> TRUE,
     enrollThrows |-> TRUE, registerThrows |-> TRUE, purges |-> FALSE]

DocGo ==
    [library |-> TRUE, file |-> FALSE, saved |-> "never",
     enrollChecked |-> FALSE, registerChecked |-> FALSE,
     enrollThrows |-> TRUE, registerThrows |-> FALSE, purges |-> FALSE]

DocTypescript ==
    [library |-> TRUE, file |-> TRUE, saved |-> "registered",
     enrollChecked |-> FALSE, registerChecked |-> FALSE,
     enrollThrows |-> TRUE, registerThrows |-> TRUE, purges |-> TRUE]

DocJava ==
    [library |-> FALSE, file |-> FALSE, saved |-> "never",
     enrollChecked |-> TRUE, registerChecked |-> FALSE,
     enrollThrows |-> TRUE, registerThrows |-> TRUE, purges |-> FALSE]

DocBash ==
    [library |-> FALSE, file |-> TRUE, saved |-> "enrolled",
     enrollChecked |-> FALSE, registerChecked |-> FALSE,
     enrollThrows |-> FALSE, registerThrows |-> FALSE, purges |-> TRUE]

Snippets ==
    {HostCurl, HostPython, HostCsharp, HostGo, HostTypescript, HostJava,
     DocPython, DocCsharp, DocGo, DocTypescript, DocJava, DocBash}

Credentials == {"none", "bad"} \cup Identities

\* There is an identity besides the one in the file and the one in the process.
ASSUME ConnectorsAssumption ==
    /\ \A a, b \in Credentials : \E e \in Identities : e # a /\ e # b
    /\ MaxConnFaults \in Nat /\ MaxRotations \in Nat

VARIABLES
    prog,       \* the program installed
    pc,         \* "idle", or the request it is about to send
    file,       \* the credential file: "none", an error body ("bad"), or an identity
    connMem,        \* the credentials in the process
    outcome,    \* how its last push or its last attempt to reach it ended
    token,      \* the enrolment token the program is given
    status,     \* the hub's identities
    connFaults, rotations

connVars == <<prog, pc, file, connMem, outcome, token, status, connFaults, rotations>>

ConnTypeOK ==
    /\ prog \in Snippets
    /\ pc \in {"idle", "enroll", "register", "push"}
    /\ file \in Credentials /\ (~prog.file => file = "none")
    /\ connMem \in Credentials
    /\ outcome \in {"none", "accepted", "rejected", "broken"}
    /\ token \in {"fresh", "spent"}
    /\ status \in [Identities -> {"unknown", "pending_register", "active", "revoked"}]
    /\ connFaults \in 0..MaxConnFaults
    /\ rotations \in 0..MaxRotations

ConnInit ==
    /\ prog \in Snippets
    /\ pc = "idle"
    /\ file = "none"
    /\ connMem = "none"
    /\ outcome = "none"
    /\ token = "fresh"
    /\ status = [e \in Identities |-> "unknown"]
    /\ connFaults = 0
    /\ rotations = 0

-----------------------------------------------------------------------------
ConnFault == connFaults < MaxConnFaults /\ connFaults' = connFaults + 1

\* The run is over; the process of a script ends, a library stays loaded.
Ended(creds, how) ==
    /\ pc' = "idle"
    /\ connMem' = IF prog.library THEN creds ELSE "none"
    /\ outcome' = how

Saved(step, creds) == IF prog.saved = step THEN creds ELSE file

\* What a new run finds: the file, or what the process still holds.
ConnStored == IF prog.file THEN file ELSE connMem

\* The script is started, or the application calls the library: it enrols when
\* there are no credentials or the last push said they were revoked.
ConnStart ==
    /\ pc = "idle"
    /\ IF ConnStored = "none" \/ (prog.library /\ outcome = "rejected")
         THEN pc' = "enroll" /\ connMem' = "none"
         ELSE pc' = "push" /\ connMem' = ConnStored
    /\ UNCHANGED <<prog, file, outcome, token, status, connFaults, rotations>>

(* POST /api/endpoints/enroll.                                             *)
FreshId == CHOOSE e \in Identities : e # file /\ e # connMem

\* enroll_endpoint: the token is spent and a pending identity is issued.
HubEnrolls ==
    /\ token = "fresh"
    /\ token' = "spent"
    /\ status' = [status EXCEPT ![FreshId] = "pending_register"]

EnrollAccepted ==
    /\ pc = "enroll"
    /\ HubEnrolls
    /\ connMem' = FreshId
    /\ file' = Saved("enrolled", FreshId)
    /\ pc' = "register"
    /\ UNCHANGED <<prog, outcome, connFaults, rotations>>

\* 401: the program ends, or takes the error body for credentials.
ConnEnrollRejected ==
    /\ pc = "enroll"
    /\ token = "spent"
    /\ IF prog.enrollChecked
         THEN Ended("none", "rejected") /\ UNCHANGED file
         ELSE /\ connMem' = "bad"
              /\ file' = Saved("enrolled", "bad")
              /\ pc' = "register"
              /\ UNCHANGED outcome
    /\ UNCHANGED <<prog, token, status, connFaults, rotations>>

\* The connection breaks before or after the hub has done its part.
EnrollBroken ==
    /\ pc = "enroll"
    /\ ConnFault
    /\ HubEnrolls \/ UNCHANGED <<token, status>>
    /\ IF prog.enrollThrows
         THEN Ended("none", "broken")
         ELSE connMem' = "bad" /\ pc' = "register" /\ UNCHANGED outcome
    /\ UNCHANGED <<prog, file, rotations>>

(* POST /api/endpoints/register.                                           *)
\* A script goes on to push; an application decides itself when to push.
Registered ==
    IF prog.library THEN Ended(connMem, "none")
                    ELSE pc' = "push" /\ UNCHANGED <<connMem, outcome>>

HubKnows == connMem \in Identities /\ status[connMem] \in {"pending_register", "active"}

HubRegisters == HubKnows /\ status' = [status EXCEPT ![connMem] = "active"]

RegisterAccepted ==
    /\ pc = "register"
    /\ HubRegisters
    /\ file' = Saved("registered", connMem)
    /\ Registered
    /\ UNCHANGED <<prog, token, connFaults, rotations>>

ConnRegisterRejected ==
    /\ pc = "register"
    /\ ~HubKnows
    /\ IF prog.registerChecked
         THEN Ended(connMem, "rejected") /\ UNCHANGED file
         ELSE file' = Saved("registered", connMem) /\ Registered
    /\ UNCHANGED <<prog, token, status, connFaults, rotations>>

RegisterBroken ==
    /\ pc = "register"
    /\ ConnFault
    /\ HubRegisters \/ UNCHANGED status
    /\ IF prog.registerThrows THEN Ended(connMem, "broken") ELSE Registered
    /\ UNCHANGED <<prog, file, token, rotations>>

(* POST /api/v1/agent/push.                                                *)
HubAccepts == connMem \in Identities /\ status[connMem] = "active"

PushAccepted ==
    /\ pc = "push"
    /\ HubAccepts
    /\ Ended(connMem, "accepted")
    /\ UNCHANGED <<prog, file, token, status, connFaults, rotations>>

\* Mutant: a rejected push leaves the file.
PushRejectedKeepsFile ==
    /\ pc = "push"
    /\ ~HubAccepts
    /\ Ended(connMem, "rejected")
    /\ UNCHANGED <<prog, file, token, status, connFaults, rotations>>

\* 401 or 403: the programs that keep a file remove it, except one.
PushRejected ==
    /\ pc = "push"
    /\ ~HubAccepts
    /\ Ended(connMem, "rejected")
    /\ file' = IF prog.purges THEN "none" ELSE file
    /\ UNCHANGED <<prog, token, status, connFaults, rotations>>

PushBroken ==
    /\ pc = "push"
    /\ ConnFault
    /\ Ended(connMem, "broken")
    /\ UNCHANGED <<prog, file, token, status, rotations>>

(* The surroundings.                                                       *)
ConnCrash ==
    /\ pc # "idle" \/ connMem # "none"
    /\ ConnFault
    /\ pc' = "idle" /\ connMem' = "none" /\ outcome' = "broken"
    /\ UNCHANGED <<prog, file, token, status, rotations>>

TokenExpires ==
    /\ token = "fresh"
    /\ ConnFault
    /\ token' = "spent"
    /\ UNCHANGED <<prog, pc, file, connMem, outcome, status, rotations>>

\* The operator generates a token in the console and gives it to the program.
NewToken ==
    /\ pc = "idle" /\ token = "spent"
    /\ token' = "fresh"
    /\ UNCHANGED <<prog, pc, file, connMem, outcome, status, connFaults, rotations>>

\* The administrator rotates the credential of an endpoint.
ConnRotate(e) ==
    /\ rotations < MaxRotations
    /\ status[e] \in {"pending_register", "active"}
    /\ status' = [status EXCEPT ![e] = "revoked"]
    /\ rotations' = rotations + 1
    /\ UNCHANGED <<prog, pc, file, connMem, outcome, token, connFaults>>

Run ==
    \/ ConnStart
    \/ EnrollAccepted \/ ConnEnrollRejected
    \/ RegisterAccepted \/ ConnRegisterRejected
    \/ PushAccepted \/ PushRejected

ConnNext ==
    \/ Run
    \/ EnrollBroken
    \/ RegisterBroken
    \/ PushBroken
    \/ ConnCrash
    \/ TokenExpires
    \/ NewToken
    \/ \E e \in Identities : ConnRotate(e)

-----------------------------------------------------------------------------
(* Properties.                                                             *)

\* Every program streams again after the faults: half-written, pending and
\* revoked credentials are all left behind.  The TypeScript program of the
\* dialog is the exception, since it keeps its file for ever.
StreamsAgain == (prog.file => prog.purges) => []<>(outcome = "accepted")
=============================================================================
