---------------------------- MODULE EnrollModal ----------------------------
(***************************************************************************)
(* The enrolment dialog of pages/endpoints/HostManagementPage.tsx: a form  *)
(* asks the hub for an enrolment token, and the answer replaces the form   *)
(* by the token and the commands to launch an agent with it.               *)
(*                                                                         *)
(* The fields stay editable, and the dialog can be closed and opened again *)
(* while the request is under way.  A form is the tenant with one value    *)
(* for the expiry, the number of uses and the architecture together.       *)
(* While the table reloads, its skeleton hides the dialog without changing *)
(* its state: the steps of the user just come later.                       *)
(***************************************************************************)
EXTENDS Naturals, FiniteSets, Sequences

CONSTANTS Tenants,
          Choices,   \* values of the other fields
          MaxTokens  \* bound on the tokens the hub issues

Blank == "blank"     \* a tenant field with nothing but spaces

VARIABLES
    modalOpen,       \* isEnrollModalOpen
    form,            \* the enroll... fields
    generating,      \* isGeneratingToken
    tokenDetails,    \* generatedTokenDetails
    tokenRequests,   \* requests under way, each with the form of its closure
    issued,          \* the hub: the request each token was issued for
    clipboard        \* the token in the last text copied, or 0

enrollVars == <<modalOpen, form, generating, tokenDetails, tokenRequests,
                issued, clipboard>>

Forms == [tenant : Tenants \cup {Blank}, choice : Choices]
NoDetails == [token |-> 0]

EnrollTypeOK ==
    /\ modalOpen \in BOOLEAN
    /\ form \in Forms
    /\ generating \in BOOLEAN
    /\ tokenDetails \in {NoDetails} \cup [token : 1..MaxTokens, form : Forms]
    /\ \A r \in tokenRequests :
          r \in [token : 0..MaxTokens, form : Forms] /\ r.form.tenant # Blank
    /\ issued \in Seq(Forms) /\ Len(issued) <= MaxTokens
    /\ clipboard \in 0..Len(issued)

EnrollInit ==
    /\ modalOpen = FALSE
    /\ form = CHOOSE f \in Forms : f.tenant # Blank
    /\ generating = FALSE
    /\ tokenDetails = NoDetails
    /\ tokenRequests = {}
    /\ issued = <<>>
    /\ clipboard = 0

FormShown == modalOpen /\ tokenDetails = NoDetails
DetailsShown == modalOpen /\ tokenDetails # NoDetails

\* The button of the page's header, which the keyboard also reaches while the
\* dialog is open.
Open ==
    /\ modalOpen' = TRUE
    /\ tokenDetails' = NoDetails
    /\ UNCHANGED <<form, generating, tokenRequests, issued, clipboard>>

\* The cross, Cancel and Done.
Close ==
    /\ modalOpen
    /\ modalOpen' = FALSE
    /\ UNCHANGED <<form, generating, tokenDetails, tokenRequests, issued, clipboard>>

SetTenant(t) ==
    /\ FormShown
    /\ form' = [form EXCEPT !.tenant = t]
    /\ UNCHANGED <<modalOpen, generating, tokenDetails, tokenRequests, issued, clipboard>>

SetChoice(c) ==
    /\ FormShown
    /\ form' = [form EXCEPT !.choice = c]
    /\ UNCHANGED <<modalOpen, generating, tokenDetails, tokenRequests, issued, clipboard>>

\* Mutant: a blank tenant is sent to the hub.
GenerateForBlank ==
    /\ FormShown /\ ~generating
    /\ generating' = TRUE
    /\ tokenRequests' = tokenRequests \cup {[token |-> 0, form |-> form]}
    /\ UNCHANGED <<modalOpen, form, tokenDetails, issued, clipboard>>

\* The submit button is disabled while a request is under way, and a blank
\* tenant ends the handler.
HandleGenerateEnrollmentToken ==
    /\ FormShown /\ ~generating
    /\ form.tenant # Blank
    /\ generating' = TRUE
    /\ tokenRequests' = tokenRequests \cup {[token |-> 0, form |-> form]}
    /\ UNCHANGED <<modalOpen, form, tokenDetails, issued, clipboard>>

\* POST /admin/enrollment-tokens stores a new token for the request's fields.
CreateEnrollmentToken(r) ==
    /\ r.token = 0
    /\ Len(issued) < MaxTokens
    /\ issued' = Append(issued, r.form)
    /\ tokenRequests' = (tokenRequests \ {r}) \cup
                           {[r EXCEPT !.token = Len(issued) + 1]}
    /\ UNCHANGED <<modalOpen, form, generating, tokenDetails, clipboard>>

\* Mutant: the details are filled in from the fields as they are by now.
DetailsFromFields(r) == [token |-> r.token, form |-> form]

\* The details are the fields of the render that sent the request.
Details(r) == [token |-> r.token, form |-> r.form]

\* The handler after its await; the dialog may have been closed or reopened.
TokenArrives(r) ==
    /\ r.token # 0
    /\ tokenRequests' = tokenRequests \ {r}
    /\ tokenDetails' = Details(r)
    /\ generating' = FALSE
    /\ UNCHANGED <<modalOpen, form, issued, clipboard>>

\* The hub refuses, or the answer is lost after the token was stored.
RequestFails(r) ==
    /\ tokenRequests' = tokenRequests \ {r}
    /\ generating' = FALSE
    /\ UNCHANGED <<modalOpen, form, tokenDetails, issued, clipboard>>

\* The token, or one of the launch commands around it, is copied.
HandleCopyCommand ==
    /\ DetailsShown
    /\ clipboard' = tokenDetails.token
    /\ UNCHANGED <<modalOpen, form, generating, tokenDetails, tokenRequests, issued>>

\* "Generate Another Token".
GenerateAnother ==
    /\ DetailsShown
    /\ tokenDetails' = NoDetails
    /\ UNCHANGED <<modalOpen, form, generating, tokenRequests, issued, clipboard>>

RequestEnds == \E r \in tokenRequests : TokenArrives(r) \/ RequestFails(r)

EnrollNext ==
    \/ Open \/ Close
    \/ \E t \in Tenants \cup {Blank} : SetTenant(t)
    \/ \E c \in Choices : SetChoice(c)
    \/ HandleGenerateEnrollmentToken
    \/ \E r \in tokenRequests : CreateEnrollmentToken(r)
    \/ RequestEnds
    \/ HandleCopyCommand
    \/ GenerateAnother

EnrollSpec == EnrollInit /\ [][EnrollNext]_enrollVars

-----------------------------------------------------------------------------
\* The tenant and the limits shown beside a token are the ones the hub issued
\* it for, although the fields stay editable during the request.
TokenDetailsMatch ==
    tokenDetails # NoDetails => issued[tokenDetails.token] = tokenDetails.form
=============================================================================
