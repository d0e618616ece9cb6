---------------------------- MODULE TemplateForm ----------------------------
(***************************************************************************)
(* A run made from a template.  The page shows the form of a declarative   *)
(* template (DeclarativeRunTemplateFormView), evaluates the conditions in  *)
(* TypeScript, fetches the options of its dynamic selects and posts the    *)
(* values; the operator evaluates them again in Python and creates a run,  *)
(* from the tables as they are by then.                                    *)
(***************************************************************************)
EXTENDS ConfigStore, DeclarativeForms

CONSTANTS Inputs      \* bound: what a user types or picks

\* The variables of a document are the keys of a mapping; its options and
\* the literals of its conditions are text.
ASSUME TemplateAssumption ==
    \A row \in TemplateRows :
        /\ DOMAIN row.declarative_spec \subseteq Nat
        /\ \A i \in DOMAIN row.declarative_spec :
              LET v == row.declarative_spec[i]
              IN  /\ v.secure \in BOOLEAN
                  /\ \A option \in v.options : IsText(option)
                  /\ \A c \in {v.hide_condition, v.required_condition} :
                        c.isField \/ IsText(c.right)
        /\ \A i, j \in DOMAIN row.declarative_spec :
              row.declarative_spec[i].name = row.declarative_spec[j].name => i = j

VARIABLES form,       \* the page's state while a form is open, or None
          outcome     \* history: the run just made, with the form it was made of

formVars == <<form, outcome>>

NoRun == [run |-> None, values |-> None, fields |-> None]

\* Neither the page nor a request for a run changes the configuration.
ConfigStays == /\ Forget
               /\ UNCHANGED <<profiles, templates, schedules, inputs, editor,
                              served, faults, overlapped>>

-----------------------------------------------------------------------------
(* The page.  The values of its form are a JavaScript object: a field that *)
(* has no value is not among its keys.                                     *)

UsesDynamicSelect(f) == f.field_type = "select" /\ f.interface \in KNOWN_INTERFACES

\* Mutant of RsqlValue: a boolean is compared as it is.
RsqlValueStrictly(values, name) ==
    IF name \notin DOMAIN values THEN ""
    ELSE IF values[name] = Null THEN "" ELSE values[name]

\* normalizeRsqlValue(values[name])
RsqlValue(values, name) ==
    IF name \notin DOMAIN values THEN ""
    ELSE IF values[name] = Null THEN ""
    ELSE IF values[name] \in {True, False}
         THEN IF values[name] = True THEN "true" ELSE "false"
    ELSE values[name]

\* Blank expressions, and those outside the subset, are false.
EvaluateRsql(c, values) ==
    /\ c.op \in {"==", "!="}
    /\ LET left  == RsqlValue(values, c.left)
           right == IF c.isField THEN RsqlValue(values, c.right) ELSE c.right
       IN  IF c.op = "==" THEN left = right ELSE left # right

ResolveValues(fields, user) ==
    [name \in {f.name : f \in FieldsOf(fields)} |->
        IF name \in DOMAIN user THEN user[name]
        ELSE (CHOOSE f \in FieldsOf(fields) : f.name = name).value]

\* evaluateFormState, over the resolved values
Evaluated == ResolveValues(form.fields, form.values)

UiVisible(f, values) == ~(f.hidden \/ EvaluateRsql(f.hide_condition, values))

UiRequired(f, values) == /\ UiVisible(f, values)
                         /\ f.required \/ EvaluateRsql(f.required_condition, values)

IsEmptyValue(name) == \/ name \notin DOMAIN form.values
                      \/ form.values[name] \in {Null, "", " "}

HasMissingRequired ==
    LET values == Evaluated
    IN  \E f \in FieldsOf(form.fields) : IsEmptyValue(f.name) /\ UiRequired(f, values)

Field(name) == CHOOSE f \in FieldsOf(form.fields) : f.name = name

\* setFieldValue: the values with one of them set.
Put(name, value) ==
    [n \in DOMAIN form.values \union {name} |->
        IF n = name THEN value ELSE form.values[n]]

\* initialFormValues: the default, the first option of a select whose
\* default is null, or no value.
HasInitial(f) == \/ f.value # Null
                 \/ f.field_type = "select" /\ f.options # NoOptions
Initial(f)    == IF f.value # Null THEN f.value ELSE First(f.options)

\* GET /run-templates/{id}; every dynamic select fetches its options, once.
OpenForm(t) ==
    /\ form = None
    /\ templates[t] # None
    /\ templates[t].kind = "declarative"
    /\ LET fields  == FromDocument(templates[t].declarative_spec)
           field(n) == CHOOSE f \in FieldsOf(fields) : f.name = n
           dynamic == {f.name : f \in {g \in FieldsOf(fields) : UsesDynamicSelect(g)}}
       IN form' = [template |-> t, fields |-> fields,
                   values   |-> [n \in {f.name : f \in {g \in FieldsOf(fields) : HasInitial(g)}}
                                    |-> Initial(field(n))],
                   loading  |-> dynamic,
                   options  |-> [n \in dynamic |-> NoOptions]]
    /\ outcome' = NoRun
    /\ ConfigStays

CloseForm ==
    /\ form # None
    /\ form' = None
    /\ outcome' = NoRun
    /\ ConfigStays

\* What the page makes of the options that came for a field: a value that
\* is not among them is replaced by the first, or by nothing.
Cleared(name) == IF IsEmptyValue(name) THEN form.values ELSE Put(name, "")

\* Mutant of WithOptions: the first option is taken whatever the value was.
WithOptionsFirst(name, options) ==
    IF options = NoOptions THEN {Cleared(name)} ELSE {Put(name, first) : first \in options}

WithOptions(name, options) ==
    IF name \in DOMAIN form.values /\ form.values[name] \in options THEN {form.values}
    ELSE IF options = NoOptions THEN {Cleared(name)}
    ELSE {Put(name, first) : first \in options}

\* get_enum_options, for the Profiles interface.
OptionsArrive(name) ==
    /\ form # None
    /\ name \in form.loading
    /\ templates[form.template] # None
    /\ \E values \in WithOptions(name, profiles) :
          form' = [form EXCEPT !.values = values, !.loading = @ \ {name},
                               !.options[name] = profiles]
    /\ outcome' = NoRun
    /\ ConfigStays

\* The request fails, or the template is gone: no options, and no value.
OptionsFail(name) ==
    /\ form # None
    /\ name \in form.loading
    /\ form' = [form EXCEPT !.values = Cleared(name), !.loading = @ \ {name},
                            !.options[name] = NoOptions]
    /\ IF templates[form.template] = None THEN UNCHANGED faults ELSE Fault
    /\ outcome' = NoRun
    /\ Forget
    /\ UNCHANGED <<profiles, templates, schedules, inputs, editor, served, overlapped>>

\* What the control of a field lets the user enter: a box is toggled, and a
\* select shows its first option while its value is not among them, and
\* only another one can be picked.
Checked(name) == name \in DOMAIN form.values /\ form.values[name] \in {True, "true"}

Shown(name, options) ==
    IF name \in DOMAIN form.values /\ form.values[name] \in options
    THEN form.values[name] ELSE First(options)

Options(f) == IF UsesDynamicSelect(f) THEN form.options[f.name] ELSE f.options

Choices(f) ==
    CASE f.interface \notin {""} \union KNOWN_INTERFACES -> Inputs
      [] f.field_type = "checkbox" -> {IF Checked(f.name) THEN False ELSE True}
      [] f.field_type = "select"   ->
            {option \in Options(f) : option # Shown(f.name, Options(f))}
      [] OTHER                     -> Inputs

Editable(f) == UiVisible(f, Evaluated) /\ ~f.readonly /\ f.name \notin form.loading

EditField(name, value) ==
    /\ form # None
    /\ \E f \in FieldsOf(form.fields) : f.name = name
    /\ Editable(Field(name))
    /\ value \in Choices(Field(name))
    /\ form' = [form EXCEPT !.values = Put(name, value)]
    /\ outcome' = NoRun
    /\ ConfigStays

-----------------------------------------------------------------------------
(* RunService.create_run_from_declarative_template and _simple_template.   *)
(* How the run is stored and started is RunStorage's and RunService's.     *)

\* The template's contract is read again; the profile is looked up as it
\* was submitted.
AnswerDeclarative(t, values) ==
    IF templates[t] = None THEN NoRun
    ELSE LET fields == FromDocument(templates[t].declarative_spec)
             run    == Assemble(fields, values)
         IN  IF Refusals(fields, values) # {} THEN NoRun
             ELSE IF run.profile_id \notin profiles THEN NoRun
             ELSE [run |-> run, values |-> values, fields |-> fields]

\* submitCreate: the page is left once the run is there, else it stays.
SubmitForm ==
    /\ form # None
    /\ ~HasMissingRequired
    /\ LET answer == AnswerDeclarative(form.template, form.values)
       IN  /\ outcome' = answer
           /\ form' = IF answer.run = None THEN form ELSE None
    /\ ConfigStays

\* A profile that is missing is replaced by the default one.
RunFromSimpleTemplate(t, override) ==
    /\ templates[t] # None
    /\ templates[t].kind = "simple"
    /\ LET wanted == IF override = "" THEN templates[t].profile_id ELSE override
           picked == IF wanted \in profiles THEN wanted ELSE DEFAULT_PROFILE_ID
       IN  outcome' = IF picked \in profiles
                      THEN [NoRun EXCEPT !.run = [profile_id |-> picked]]
                      ELSE NoRun
    /\ ConfigStays
    /\ form' = form

FormInit == form = None /\ outcome = NoRun

FormNext ==
    \/ \E t \in TemplateIds :
          \/ OpenForm(t)
          \/ \E p \in ProfileIds \union {""} : RunFromSimpleTemplate(t, p)
    \/ form # None /\ \E f \in FieldsOf(form.fields) :
          \/ OptionsArrive(f.name) \/ OptionsFail(f.name)
          \/ \E value \in Choices(f) : EditField(f.name, value)
    \/ SubmitForm \/ CloseForm
=============================================================================
