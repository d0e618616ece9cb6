-------------------------- MODULE DeclarativeForms --------------------------
(***************************************************************************)
(* Declarative run templates as the operator reads them: the parser that   *)
(* makes fields of a document's variables, the form state (which fields    *)
(* are visible and which are required), the checks, and the run that is    *)
(* made of the values.  A value is null, a boolean, or a text; numbers and *)
(* lists, which only the expanded form of a variable can have, are left    *)
(* out.  " " stands for every text of blanks.  The fields keep their order *)
(* and their options do not: which one is first is left to First.          *)
(***************************************************************************)
EXTENDS Naturals, Sequences

Null  == "<null>"
True  == "<true>"
False == "<false>"

IsText(value) == value \notin {Null, True, False}

First(options) == CHOOSE option \in options : TRUE

KNOWN_INTERFACES == {"Profiles", "ClusterNamespaces", "GitFiles"}

-----------------------------------------------------------------------------
(* RsqlUtils                                                               *)

\* left op 'literal', or left op right when right is a field.  "other" is
\* an expression outside the subset, "" none at all.
NoCondition == [op |-> "", left |-> "", right |-> "", isField |-> FALSE]

Normalize(value) == CASE value = Null  -> ""
                      [] value = True  -> "true"
                      [] value = False -> "false"
                      [] OTHER         -> value

\* dict.get
Get(values, name) == IF name \in DOMAIN values THEN values[name] ELSE Null

RsqlHolds(c, values) ==
    LET right == IF c.isField THEN Get(values, c.right) ELSE c.right
        equal == Normalize(Get(values, c.left)) = Normalize(right)
    IN  \/ c.op = "==" /\ equal
        \/ c.op = "!=" /\ ~equal

-----------------------------------------------------------------------------
(* DeclarativeTemplateParser                                               *)

NoOptions == {}

InferFieldType(v) ==
    IF v.value \in {True, False} \/ v.options = {"true", "false"} THEN "checkbox"
    ELSE IF v.options # NoOptions \/ v.interface # "" THEN "select"
    ELSE "string"

\* A variable of the document with its settings; all flags default to FALSE.
Variable(name, value) ==
    [name |-> name, value |-> value, options |-> NoOptions, interface |-> "",
     bind_to |-> "pipeline_var",
     required |-> FALSE, required_condition |-> NoCondition,
     hidden |-> FALSE, hide_condition |-> NoCondition,
     readonly |-> FALSE, secure |-> FALSE,
     rejected |-> {}]   \* the values its patterns do not match

BuildField(v) ==
    [name |-> v.name, value |-> v.value, field_type |-> InferFieldType(v),
     options |-> v.options, interface |-> v.interface, bind_to |-> v.bind_to,
     required |-> v.required, required_condition |-> v.required_condition,
     hidden |-> v.hidden, hide_condition |-> v.hide_condition,
     readonly |-> v.readonly, secure |-> v.secure, rejected |-> v.rejected]

FromDocument(variables) == [i \in DOMAIN variables |-> BuildField(variables[i])]

FieldsOf(contract) == {contract[i] : i \in DOMAIN contract}

-----------------------------------------------------------------------------
(* DeclarativeFormStateUtils                                               *)

IsEmpty(value) == value \in {Null, "", " "}

\* What a caller names counts, be it empty; the rest has its default.
Resolved(contract, user) ==
    [name \in {f.name : f \in FieldsOf(contract)} |->
        IF name \in DOMAIN user THEN user[name]
        ELSE (CHOOSE f \in FieldsOf(contract) : f.name = name).value]

Visible(f, values) == ~f.hidden /\ ~RsqlHolds(f.hide_condition, values)

Required(f, values) ==
    Visible(f, values) /\ (f.required \/ RsqlHolds(f.required_condition, values))

\* An expression outside the subset raises where it is reached.
Unsupported(f, values) ==
    \/ ~f.hidden /\ f.hide_condition.op = "other"
    \/ /\ Visible(f, values) /\ ~f.required
       /\ f.required_condition.op = "other"

-----------------------------------------------------------------------------
(* FieldValidator                                                          *)

Validates(f, value) ==
    CASE f.field_type = "string"   -> IsText(value) /\ value \notin f.rejected
      [] f.field_type = "checkbox" -> value \in {True, False, "true", "false"}
      [] f.field_type = "select"   ->
            /\ IsText(value) /\ value \notin f.rejected
            /\ f.options = NoOptions \/ value \in f.options

-----------------------------------------------------------------------------
(* DeclarativeEngine                                                       *)

\* Mutant of Submits: hidden fields are left out.
SubmitsVisible(f, values) == ~IsEmpty(values[f.name]) /\ Visible(f, values)

Submits(f, values) == ~IsEmpty(values[f.name])

\* The first field bound to bind_to that has a value; one that was left
\* empty still gives its default.
GetSingleton(contract, values, bind_to, default) ==
    LET bound == {i \in DOMAIN contract :
                     /\ contract[i].bind_to = bind_to
                     /\ \/ Submits(contract[i], values)
                        \/ ~IsEmpty(contract[i].value)}
        first == CHOOSE i \in bound : \A j \in bound : i <= j
    IN  IF bound = {} THEN default
        ELSE IF Submits(contract[first], values) THEN values[contract[first].name]
        ELSE contract[first].value

\* Why build_run_payload raises: {} if it does not.  Which of several causes
\* is reported is left open, except that an expression is met before all.
Refusals(contract, user) ==
    LET values == Resolved(contract, user)
        fields == FieldsOf(contract)
    IN  IF \E f \in fields : Unsupported(f, values) THEN {"expression"}
        ELSE {reason \in {"missing", "invalid", "pipeline_data"} :
              CASE reason = "missing" ->
                      \E f \in fields : IsEmpty(values[f.name]) /\ Required(f, values)
                [] reason = "invalid" ->
                      \E f \in fields : /\ ~IsEmpty(values[f.name])
                                        /\ Visible(f, values)
                                        /\ ~Validates(f, values[f.name])
                [] reason = "pipeline_data" ->
                      GetSingleton(contract, values, "pipeline_data", Null) = Null}

AsPipelineText(value) == CASE value = True -> "true" [] value = False -> "false"
                           [] OTHER -> value

\* str: Python writes its booleans with a capital.
Str(value) == CASE value = True -> "True" [] value = False -> "False"
                [] OTHER -> value

BoundTo(contract, values, bind_to) ==
    {f \in FieldsOf(contract) : f.bind_to = bind_to /\ Submits(f, values)}

PipelineVars(contract, values, secure) ==
    {<<f.name, AsPipelineText(values[f.name])>> :
        f \in {g \in BoundTo(contract, values, "pipeline_var") : g.secure = secure}}

Assemble(contract, user) ==
    LET values == Resolved(contract, user)
        One(bind_to, default) == GetSingleton(contract, values, bind_to, default)
    IN  [profile_id           |-> Str(One("profile", "default")),
         pipeline_data        |-> Str(One("pipeline_data", Null)),
         log_level            |-> Str(One("log_level", "INFO")),
         is_dry_run           |-> One("is_dry_run", False) \in {True, "true"},
         pipeline_vars        |-> PipelineVars(contract, values, FALSE),
         pipeline_vars_secure |-> PipelineVars(contract, values, TRUE),
         env_vars             |-> {<<f.name, values[f.name]>> :
                                      f \in BoundTo(contract, values, "env_var")}]
=============================================================================
