----------------------------- MODULE AlertRules -----------------------------
(***************************************************************************)
(* pages/detection/AlertRulesPage.tsx with the confirmation dialog of      *)
(* shared/ui/TwoKeyModal: detection rules are switched on and off, one at  *)
(* a time by an optimistic update that is rolled back when the PATCH       *)
(* fails, or in bulk, which changes the page only.                         *)
(*                                                                         *)
(* A rule stands for its name; the data of the page maps every rule to its *)
(* enabled flag.  The hub answers a PATCH with the rule it was asked for   *)
(* and lists every rule as enabled.  Simulation, history and creation of   *)
(* rules open windows that share no state with this and are left out.      *)
(***************************************************************************)
EXTENDS AsyncState, FiniteSets, Naturals

CONSTANTS Rules,
          AutoResponse, \* the rules with isAutoResponse
          PatchIds      \* slots for PATCH requests: the bound on concurrent ones

VARIABLES
    ruleStore,     \* the hub: the flag last acknowledged for every rule
    rulesPage,     \* the useAsyncState record of the page
    ruleSelection, \* selectedIds
    ruleDialog,    \* pendingAction
    ruleInput,     \* twoKeyInput
    patches,       \* PATCH requests under way, each with its closure
    atRest         \* history: every switch so far was used with no PATCH under way,
                   \* none in bulk, and no answer was lost

ruleVars == <<ruleStore, rulesPage, ruleSelection, ruleDialog, ruleInput,
              patches, atRest>>

Switches == [Rules -> BOOLEAN]
NoDialog == [type |-> "none"]
BulkTarget == "n rules"
NoPatch == [st |-> "none"]

\* A page can fetch, and no list of rules is the null of a hook without data.
ASSUME RulesAssumption == FetchIds # {} /\ NoData \notin Switches

RuleTexts == Rules \cup {"", BulkTarget}

RulesTypeOK ==
    /\ ruleStore \in Switches
    /\ rulesPage \in HookType(Switches)
    /\ ruleSelection \subseteq Rules
    /\ ruleDialog \in {NoDialog} \cup [type : {"bulk-disable"}]
          \cup [type : {"toggle"}, rule : AutoResponse, enabled : {TRUE}]
    /\ ruleInput \in RuleTexts
    /\ \A p \in PatchIds : patches[p] \in {NoPatch} \cup
          [st : {"sent", "done"}, rule : Rules, body : BOOLEAN,
           original : Switches]
    /\ atRest \in BOOLEAN

-----------------------------------------------------------------------------
RulesInit ==
    /\ ruleStore = [r \in Rules |-> TRUE]
    /\ rulesPage = Execute(Mounted)
    /\ ruleSelection = {}
    /\ ruleDialog = NoDialog
    /\ ruleInput = ""
    /\ patches = [p \in PatchIds |-> NoPatch]
    /\ atRest = TRUE

UnderWay == {p \in PatchIds : patches[p] # NoPatch}

\* GET /detection/rules.
HubListsRules(f) ==
    /\ rulesPage.calls[f].st = "sent"
    /\ rulesPage' = Served(rulesPage, f, ruleStore)
    /\ UNCHANGED <<ruleStore, ruleSelection, ruleDialog, ruleInput, patches, atRest>>

RulesFetchEnds(f) ==
    /\ \/ f \in Answered(rulesPage) /\ rulesPage' = Resolve(rulesPage, f)
       \/ f \in InFlight(rulesPage) /\ rulesPage' = Reject(rulesPage, f)
    /\ UNCHANGED <<ruleStore, ruleSelection, ruleDialog, ruleInput, patches, atRest>>

RetryRules ==
    /\ ~rulesPage.loading /\ rulesPage.error /\ rulesPage.data = NoData
    /\ rulesPage' = Execute(rulesPage)
    /\ UNCHANGED <<ruleStore, ruleSelection, ruleDialog, ruleInput, patches, atRest>>

\* The table answers clicks; the dialog covers it and traps the focus.
TableReachable == ~rulesPage.loading /\ rulesPage.data # NoData /\ ruleDialog = NoDialog

-----------------------------------------------------------------------------
(* One rule.                                                               *)

\* performToggle up to its await: the row is flipped from what is shown, the
\* request carries the opposite of the flag the caller's rule object holds.
PerformToggle(p, r, enabled) ==
    /\ patches[p] = NoPatch
    /\ rulesPage' = SetData(rulesPage, [rulesPage.data EXCEPT ![r] = ~@])
    /\ patches' = [patches EXCEPT ![p] =
          [st |-> "sent", rule |-> r, body |-> ~enabled,
           original |-> rulesPage.data]]

\* Switching off an automatic response needs the second key.
NeedsTwoKey(r) == rulesPage.data[r] /\ r \in AutoResponse

ToggleRule(p, r) ==
    /\ TableReachable
    /\ IF NeedsTwoKey(r)
         THEN /\ ruleDialog' = [type |-> "toggle", rule |-> r,
                                enabled |-> rulesPage.data[r]]
              /\ UNCHANGED <<rulesPage, patches>>
         ELSE /\ PerformToggle(p, r, rulesPage.data[r])
              /\ UNCHANGED ruleDialog
    /\ atRest' = (atRest /\ UnderWay = {})
    /\ UNCHANGED <<ruleStore, ruleSelection, ruleInput>>

\* The hub applies a PATCH.
HubPatches(p) ==
    /\ patches[p].st = "sent"
    /\ ruleStore' = [ruleStore EXCEPT ![patches[p].rule] = patches[p].body]
    /\ patches' = [patches EXCEPT ![p].st = "done"]
    /\ UNCHANGED <<rulesPage, ruleSelection, ruleDialog, ruleInput, atRest>>

\* performToggle after its await: whichever dialog is open is closed.
PatchSucceeds(p) ==
    /\ patches[p].st = "done"
    /\ patches' = [patches EXCEPT ![p] = NoPatch]
    /\ ruleDialog' = NoDialog
    /\ ruleInput' = ""
    /\ UNCHANGED <<ruleStore, rulesPage, ruleSelection, atRest>>

\* Mutant: a refused toggle is reported but not rolled back.
FailsWithoutRollback(p) ==
    /\ patches[p] # NoPatch
    /\ patches' = [patches EXCEPT ![p] = NoPatch]
    /\ atRest' = (atRest /\ patches[p].st = "sent")
    /\ UNCHANGED <<ruleStore, rulesPage, ruleSelection, ruleDialog, ruleInput>>

\* The request was refused, or its answer was lost: all rules are shown as
\* they were when the toggle started, and the dialog stays open.
PatchFails(p) ==
    /\ patches[p] # NoPatch
    /\ patches' = [patches EXCEPT ![p] = NoPatch]
    /\ rulesPage' = SetData(rulesPage, patches[p].original)
    /\ atRest' = (atRest /\ patches[p].st = "sent")
    /\ UNCHANGED <<ruleStore, ruleSelection, ruleDialog, ruleInput>>

-----------------------------------------------------------------------------
(* The selection and the bulk operations.                                  *)
ToggleSelectRule(r) ==
    /\ TableReachable
    /\ ruleSelection' = IF r \in ruleSelection THEN ruleSelection \ {r}
                                               ELSE ruleSelection \cup {r}
    /\ UNCHANGED <<ruleStore, rulesPage, ruleDialog, ruleInput, patches, atRest>>

ToggleSelectAllRules ==
    /\ TableReachable
    /\ ruleSelection' = IF ruleSelection = Rules THEN {} ELSE Rules
    /\ UNCHANGED <<ruleStore, rulesPage, ruleDialog, ruleInput, patches, atRest>>

\* The data with the selected rules switched.
Switched(on) ==
    [r \in Rules |-> IF r \in ruleSelection THEN on ELSE rulesPage.data[r]]

PerformBulkDisable ==
    /\ rulesPage' = SetData(rulesPage, Switched(FALSE))
    /\ ruleDialog' = NoDialog
    /\ ruleInput' = ""
    /\ ruleSelection' = {}

HandleBulkDisable ==
    /\ TableReachable /\ ruleSelection # {}
    /\ IF \E r \in ruleSelection : NeedsTwoKey(r)
         THEN /\ ruleDialog' = [type |-> "bulk-disable"]
              /\ UNCHANGED <<rulesPage, ruleInput, ruleSelection>>
         ELSE PerformBulkDisable
    /\ atRest' = FALSE
    /\ UNCHANGED <<ruleStore, patches>>

HandleBulkEnable ==
    /\ TableReachable /\ ruleSelection # {}
    /\ rulesPage' = SetData(rulesPage, Switched(TRUE))
    /\ ruleSelection' = {}
    /\ atRest' = FALSE
    /\ UNCHANGED <<ruleStore, ruleDialog, ruleInput, patches>>

-----------------------------------------------------------------------------
(* The dialog.                                                             *)
Target == IF ruleDialog.type = "toggle" THEN ruleDialog.rule ELSE BulkTarget

SetInput(t) ==
    /\ ruleDialog # NoDialog
    /\ ruleInput' = t
    /\ UNCHANGED <<ruleStore, rulesPage, ruleSelection, ruleDialog, patches, atRest>>

\* The Cancel button, Escape and a click beside the dialog.
OnCancel ==
    /\ ruleDialog # NoDialog
    /\ ruleDialog' = NoDialog
    /\ ruleInput' = ""
    /\ UNCHANGED <<ruleStore, rulesPage, ruleSelection, patches, atRest>>

\* EXECUTE is offered while the text matches.  The page's handler returns
\* nothing to wait for, so the button is back before the PATCH has answered.
OnConfirm(p) ==
    /\ ruleDialog # NoDialog
    /\ ruleInput = Target
    /\ IF ruleDialog.type = "toggle"
         THEN /\ PerformToggle(p, ruleDialog.rule, ruleDialog.enabled)
              /\ UNCHANGED <<ruleSelection, ruleDialog, ruleInput>>
         ELSE PerformBulkDisable /\ UNCHANGED patches
    /\ atRest' = (atRest /\ UnderWay = {})
    /\ UNCHANGED ruleStore

RulesNext ==
    \/ \E f \in FetchIds : HubListsRules(f) \/ RulesFetchEnds(f)
    \/ RetryRules
    \/ \E p \in PatchIds : \/ \E r \in Rules : ToggleRule(p, r)
                           \/ HubPatches(p) \/ PatchSucceeds(p) \/ PatchFails(p)
                           \/ OnConfirm(p)
    \/ \E r \in Rules : ToggleSelectRule(r)
    \/ ToggleSelectAllRules
    \/ HandleBulkDisable
    \/ HandleBulkEnable
    \/ \E t \in RuleTexts : SetInput(t)
    \/ OnCancel

RulesSpec == RulesInit /\ [][RulesNext]_ruleVars

-----------------------------------------------------------------------------
\* When every switch was used with no PATCH under way, the page and the hub
\* agree once the last one has answered, refused ones included.
SettledShowsStore ==
    atRest /\ UnderWay = {} /\ rulesPage.data # NoData
        => rulesPage.data = ruleStore
=============================================================================
