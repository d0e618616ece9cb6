-------------------------- MODULE MCConfiguration --------------------------
(***************************************************************************)
(* A small instance of Configuration: one declarative template with every  *)
(* kind of field, a simple one, and files that fail at different places.   *)
(***************************************************************************)
EXTENDS Configuration, TLC

\* Templates are told apart by their rows only.
AnyTemplate == Permutations(TemplateIds)

Is(op, left, literal) == [op |-> op, left |-> left, right |-> literal, isField |-> FALSE]
IsField(op, left, name) == [Is(op, left, name) EXCEPT !.isField = TRUE]
OtherCondition == [NoCondition EXCEPT !.op = "other"]

MCVariables ==
  << [Variable("URL", "u") EXCEPT !.bind_to = "pipeline_data", !.required = TRUE,
                                   !.readonly = TRUE],
     \* among the profiles or not, when the options arrive
     [Variable("PROFILE", "team") EXCEPT !.bind_to = "profile", !.interface = "Profiles",
                                         !.required = TRUE, !.readonly = TRUE],
     [Variable("ENV", Null) EXCEPT !.options = {"dev", "prod"}],
     [Variable("WET", False) EXCEPT !.bind_to = "env_var"],
     [Variable("TOKEN", "") EXCEPT !.secure = TRUE, !.rejected = {"bad"},
          !.hide_condition = Is("!=", "WET", "true"),
          !.required_condition = Is("==", "WET", "true")],
     \* a condition that nobody can evaluate, met once ENV is prod
     [Variable("NOTE", " ") EXCEPT !.readonly = TRUE,
          !.hide_condition = Is("!=", "ENV", "prod"),
          !.required_condition = OtherCondition],
     \* hidden because it has no value, and a field that is not there has none
     [Variable("REGION", Null) EXCEPT !.required = TRUE,
          !.hide_condition = IsField("==", "REGION", "NOSUCH")] >>

MCSpec   == Template("declarative", "default", MCVariables)
MCSimple == Template("simple", "team", <<>>)
MCRows   == {MCSpec, MCSimple}

Entry1(secure, valid) == [id |-> "s1", profile |-> "team", secure |-> secure,
                          cronIsValid |-> valid]
File(profs, row, entries) == [profiles |-> profs, template |-> row,
                              schedules |-> entries, wellFormed |-> TRUE]

MCDocuments ==
  { File({"team"}, MCSpec, <<>>),
    File({"team"}, None, <<Entry1("k1", TRUE), Entry1(MASKED_VALUE, TRUE)>>),
    File({"team"}, MCSimple, <<Entry1(MASKED_VALUE, TRUE), Entry1("k1", FALSE)>>),
    [File({"team"}, MCSimple, <<>>) EXCEPT !.wellFormed = FALSE] }
=============================================================================
