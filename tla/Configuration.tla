--------------------------- MODULE Configuration ---------------------------
(***************************************************************************)
(* The configuration under use: administrators who edit and import it      *)
(* while users open the forms of its templates and start runs with them.   *)
(***************************************************************************)
EXTENDS ConfigImport, TemplateForm

vars == <<configVars, formVars>>

Init == ConfigInit /\ FormInit

\* The template a form names stays as it is until it is deleted: a declarative
\* template has no update, and ids are uuid4s, of which none comes back.
GoneForGood == form # None =>
                  templates'[form.template] \in {templates[form.template], None}

Next == \/ /\ AdministratorNext \/ ImportNext
           /\ GoneForGood
           /\ form' = form /\ outcome' = NoRun
        \/ FormNext

Spec == Init /\ [][Next]_vars

-----------------------------------------------------------------------------

TypeOK == /\ ConfigTypeOK
          /\ import.step # "none" => import.doc \in Documents
          /\ import.step \in {"insert", "update"} => import.todo # <<>>

\* The profile that templates, forms and schedules fall back on is there
\* whatever is imported, replaced or deleted: a form without a profile
\* field and a simple template can always start a run.
DefaultProfileStays == DEFAULT_PROFILE_ID \in profiles

\* The profiles and the template of a file are applied together or not at
\* all: an import that failed at whatever step leaves the configuration as
\* it was, or emptied by replace, or complete on top of either.
Emptied  == [profiles  |-> import.was.profiles \intersect {DEFAULT_PROFILE_ID},
             templates |-> [t \in TemplateIds |-> None]]

Completes(base) ==
    /\ profiles = base.profiles \union import.doc.profiles
    /\ \/ import.doc.template = None /\ templates = base.templates
       \/ \E t \in TemplateIds :
             templates = [base.templates EXCEPT ![t] = import.doc.template]

NoHalfConfiguration ==
    import.step = "done" /\ import.clean =>
        \E base \in {import.was} \union (IF import.mode = "replace" THEN {Emptied} ELSE {}) :
            \/ profiles = base.profiles /\ templates = base.templates
            \/ Completes(base)

\* "replace mode deletes all schedules together with their stored secrets"
\* (docs/pde_operator.md): once nothing is under way, a stored input belongs
\* to a schedule, unless something failed, or a schedule request overlapped
\* the import (one created between the select and the delete loses its row).
NoSecretLeft ==
    ~Running /\ editor = None /\ faults = 0 /\ ~overlapped =>
        \A s \in ScheduleIds : inputs[s] # None => schedules[s] # None

\* "editing with an unchanged [MASKED] value keeps the stored secret": what
\* a schedule shows as masked is really stored, and what is stored is shown
\* as masked, through any sequence of imports of files that carry it.  (That
\* the placeholder itself is never stored is part of TypeOK.)
SecretsAreReal ==
    ~Running /\ editor = None /\ faults = 0 /\ ~overlapped =>
        \A s \in ScheduleIds :
            schedules[s] # None => schedules[s].masked = (inputs[s] \in Secrets)

\* Merging takes nothing away: no step of such an import removes a profile,
\* a template, a schedule or a stored input, not even when it fails.  (The
\* steps of other requests spend served or change editor.)
MergeRemovesNothing ==
    [][import.mode = "merge" /\ Running /\ <<editor, served>>' = <<editor, served>>
       => /\ profiles \subseteq profiles'
          /\ \A t \in TemplateIds : templates[t] # None => templates'[t] = templates[t]
          /\ \A s \in ScheduleIds : /\ schedules[s] # None => schedules'[s] # None
                                    /\ inputs[s] # None => inputs'[s] # None]_vars

\* The page evaluates the form in TypeScript, over the values it holds, and
\* the operator in Python, over the values that are posted: the same fields
\* are visible and required for both.  What the page holds back as incomplete
\* would have been refused as such, or for a condition that the page takes
\* for false and the operator cannot evaluate (RsqlUtils.evaluate raises on
\* an expression outside its subset, evaluateRsql does not); and what the page
\* lets through is never refused as incomplete.
FormAgreesWithEngine ==
    form # None =>
        LET resolved == Resolved(form.fields, form.values)
            shown    == Evaluated
            reasons  == Refusals(form.fields, form.values)
        IN  /\ \A f \in FieldsOf(form.fields) :
                  ~Unsupported(f, resolved) =>
                      /\ UiVisible(f, shown) <=> Visible(f, resolved)
                      /\ UiRequired(f, shown) <=> Required(f, resolved)
            /\ HasMissingRequired => reasons \intersect {"missing", "expression"} # {}
            /\ "missing" \in reasons => HasMissingRequired

\* A run made from a form carries every value of the form where the field
\* is bound to, hidden fields included ("Value still submitted"), a secure
\* pipeline variable among the secure ones only, and the profile that was
\* picked or none: it is not replaced behind the user's back.  (Of several
\* fields bound to the profile, or to the pipeline data, only one can win.)
RunMatchesForm ==
    outcome.run # None /\ outcome.fields # None =>
        \A f \in FieldsOf(outcome.fields) :
            LET value == outcome.values[f.name]
                entry == <<f.name, AsPipelineText(value)>>
            IN  f.name \in DOMAIN outcome.values /\ ~IsEmpty(value) =>
                  CASE f.bind_to = "pipeline_var" ->
                         IF f.secure THEN /\ entry \in outcome.run.pipeline_vars_secure
                                          /\ entry \notin outcome.run.pipeline_vars
                         ELSE entry \in outcome.run.pipeline_vars
                    [] f.bind_to = "env_var" -> <<f.name, value>> \in outcome.run.env_vars
                    [] f.bind_to = "profile" -> outcome.run.profile_id = Str(value)
                    [] f.bind_to = "pipeline_data" -> outcome.run.pipeline_data = Str(value)
                    [] OTHER -> TRUE

\* "readonly: Rendered but not editable" and "hidden": the user cannot change
\* such a field, so it is submitted as the form was opened with it.  Only
\* the answer to its one fetch of options can change it, when it is not among
\* them, and then to one of them, or to nothing when there are none.
AsOpened(f) == IF HasInitial(f)
               THEN f.name \in DOMAIN form.values /\ form.values[f.name] = Initial(f)
               ELSE f.name \notin DOMAIN form.values

ByOptions(f) ==
    LET options == form.options[f.name] IN
    /\ UsesDynamicSelect(f) /\ f.name \notin form.loading
    /\ f.name \in DOMAIN form.values
    /\ HasInitial(f) => Initial(f) \notin options
    /\ form.values[f.name] \in IF options = NoOptions THEN {""} ELSE options

FixedFieldsStay ==
    form # None => \A f \in FieldsOf(form.fields) :
                      f.hidden \/ f.readonly => AsOpened(f) \/ ByOptions(f)
=============================================================================
