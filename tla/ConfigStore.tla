---------------------------- MODULE ConfigStore ----------------------------
(***************************************************************************)
(* What an administrator configures: profiles, run templates and schedules *)
(* with their stored inputs.  The requests that write one row are here;    *)
(* the session of an import (ConfigImport) lies over the same tables.      *)
(***************************************************************************)
EXTENDS Naturals, Sequences

CONSTANTS ProfileIds,    \* profile ids, "default" among them
          TemplateIds,   \* run template ids
          TemplateRows,  \* the templates that are created or imported
          ScheduleIds,   \* schedule ids
          Secrets,       \* secure values
          Documents,     \* the files that are imported
          None,          \* no row, no object, no request
          MaxRequests,   \* bound: requests that write the configuration
          MaxFaults      \* bound: failures of the database or the store

ASSUME ConfigAssumption ==
    /\ "default" \in ProfileIds
    /\ MaxRequests \in Nat /\ MaxFaults \in Nat

VARIABLES profiles,   \* the ids in the profiles table
          templates,  \* the run templates: a row, or None
          schedules,  \* the scheduled runs: a row, or None
          inputs,     \* the secure value in a schedule's stored input, or None
          import,     \* the import under way, or the one that just ended
          editor,     \* the schedule request under way, or None
          served,     \* requests accepted, at most MaxRequests
          faults,     \* faults spent, at most MaxFaults
          overlapped  \* history: an import and a schedule request overlapped

configVars == <<profiles, templates, schedules, inputs, import, editor,
                served, faults, overlapped>>

-----------------------------------------------------------------------------

DEFAULT_PROFILE_ID == "default"
MASKED_VALUE       == "[MASKED]"
NoSecret           == ""    \* an input without secure variables

\* The column that decides anything here: pipeline_vars_secure, which shows
\* "[MASKED]" for every secret.
ScheduleRow(secret) == [masked |-> secret # NoSecret]

\* The columns of a template row that decide anything here.
Template(kind, profile, spec) ==
    [kind |-> kind, profile_id |-> profile, declarative_spec |-> spec]

Fault   == faults < MaxFaults /\ faults' = faults + 1
Serve   == served < MaxRequests /\ served' = served + 1
Running == import.step \notin {"none", "done"}

\* What the tables, a file and the session of an import hold.
ScheduleRows == [masked : BOOLEAN]

Entries == [id : ScheduleIds, profile : ProfileIds, cronIsValid : BOOLEAN,
            secure : Secrets \union {NoSecret, MASKED_VALUE}]

Document == [profiles : SUBSET ProfileIds, template : TemplateRows \union {None},
             schedules : Seq(Entries), wellFormed : BOOLEAN]

Templates == [TemplateIds -> TemplateRows \union {None}]

Session == [gone : SUBSET ProfileIds, put : SUBSET ProfileIds,
            dropped : SUBSET TemplateIds, added : Templates]

ImportState == [step : {"none", "select", "wipe", "erase", "upsert", "schedules",
                        "insert", "update", "done"},
                mode : {"merge", "replace"}, doc : Documents \union {None},
                ids : SUBSET ScheduleIds, todo : Seq(Entries),
                kept : Secrets \union {NoSecret, None}, pending : Session,
                clean : BOOLEAN,
                was : [profiles : SUBSET ProfileIds, templates : Templates]]

EditorState == [step : {"store", "erase", "insert", "delete"}, s : ScheduleIds,
                secret : Secrets \union {NoSecret}]

ASSUME DocumentAssumption == Documents \subseteq Document
ASSUME SecretAssumption == {MASKED_VALUE, NoSecret} \intersect Secrets = {}
ASSUME NoneAssumption ==
    /\ None \notin Secrets \union {NoSecret, MASKED_VALUE}
    /\ None \notin TemplateRows /\ None \notin ScheduleRows /\ None \notin EditorState

ConfigTypeOK ==
    /\ profiles \subseteq ProfileIds
    /\ templates \in Templates
    /\ schedules \in [ScheduleIds -> ScheduleRows \union {None}]
    /\ inputs \in [ScheduleIds -> Secrets \union {NoSecret, None}]
    /\ import \in ImportState
    /\ editor \in EditorState \union {None}
    /\ served \in 0..MaxRequests /\ faults \in 0..MaxFaults
    /\ overlapped \in BOOLEAN

\* What the session has not committed: profiles deleted and put, templates
\* deleted and added.  Nobody else can write the rows it has touched.
NoChanges == [gone |-> {}, put |-> {}, dropped |-> {},
              added |-> [t \in TemplateIds |-> None]]

NoImport == [step |-> "none", mode |-> "merge", doc |-> None, ids |-> {},
             todo |-> <<>>, kept |-> None, pending |-> NoChanges, clean |-> TRUE,
             was |-> [profiles |-> {}, templates |-> [t \in TemplateIds |-> None]]]

Seen == (profiles \ import.pending.gone) \union import.pending.put

SeenTemplates ==
    [t \in TemplateIds |->
        IF import.pending.added[t] # None THEN import.pending.added[t]
        ELSE IF t \in import.pending.dropped THEN None ELSE templates[t]]

TouchedProfile(p)  == p \in import.pending.gone \union import.pending.put
TouchedTemplate(t) == t \in import.pending.dropped \/ import.pending.added[t] # None

Commit == profiles' = Seen /\ templates' = SeenTemplates

Goto(step)    == import' = [import EXCEPT !.step = step]
\* The session ends and with it what it did not commit.
RollBack      == import' = [import EXCEPT !.step = "done", !.pending = NoChanges]
Disturb       == import' = IF Running THEN [import EXCEPT !.clean = FALSE] ELSE NoImport
\* An import that has ended is remembered until something else happens.
Forget        == import' = IF Running THEN import ELSE NoImport

-----------------------------------------------------------------------------
(* merge_masked_secure, for a request with one secure variable.            *)

\* Mutant of MergeMaskedSecure: the placeholder is taken for a secret.
MergeMaskedSecureKeeps(submitted, stored) == submitted

\* None if the placeholder stands for nothing that is stored.
MergeMaskedSecure(submitted, stored) ==
    IF submitted # MASKED_VALUE THEN submitted
    ELSE IF stored \in Secrets THEN stored ELSE None

-----------------------------------------------------------------------------
(* ProfileService and RunTemplateService: one row, one commit.  An update  *)
(* changes no id and is left out.                                          *)

othersOfProfiles == <<schedules, inputs, editor, faults, overlapped>>

CreateProfile(p) ==
    /\ p \notin profiles
    /\ ~TouchedProfile(p)
    /\ Serve
    /\ profiles' = profiles \union {p}
    /\ Disturb
    /\ UNCHANGED <<templates, othersOfProfiles>>

DeleteProfile(p) ==
    /\ p \in profiles \ {DEFAULT_PROFILE_ID}
    /\ ~TouchedProfile(p)
    /\ Serve
    /\ profiles' = profiles \ {p}
    /\ Disturb
    /\ UNCHANGED <<templates, othersOfProfiles>>

\* A simple template, or the upload of a declarative one.
CreateTemplate(t, row) ==
    /\ templates[t] = None
    /\ ~TouchedTemplate(t)
    /\ Serve
    /\ templates' = [templates EXCEPT ![t] = row]
    /\ Disturb
    /\ UNCHANGED <<profiles, othersOfProfiles>>

DeleteTemplate(t) ==
    /\ templates[t] # None
    /\ ~TouchedTemplate(t)
    /\ Serve
    /\ templates' = [templates EXCEPT ![t] = None]
    /\ Disturb
    /\ UNCHANGED <<profiles, othersOfProfiles>>

-----------------------------------------------------------------------------
(* ScheduleService's create and delete, as far as an import meets them     *)
(* (ScheduleService.tla has all of its requests).                          *)

EditorBegin(step, s, secret) ==
    /\ editor = None
    /\ Serve
    /\ editor' = [step |-> step, s |-> s, secret |-> secret]
    /\ overlapped' = (overlapped \/ Running)
    /\ Forget
    /\ UNCHANGED <<profiles, templates, schedules, inputs, faults>>

\* A new uuid4: no file names it yet.  Its profile is one that is there.
ScheduleCreate(s, secret) ==
    /\ schedules[s] = None /\ inputs[s] = None
    /\ \A i \in DOMAIN import.todo : import.todo[i].id # s
    /\ EditorBegin("store", s, secret)

ScheduleDelete(s) ==
    /\ schedules[s] # None
    /\ EditorBegin("erase", s, NoSecret)

EditorAt(step) == editor # None /\ editor.step = step

EditorObject ==
    /\ EditorAt("store") \/ EditorAt("erase")
    /\ inputs' = [inputs EXCEPT ![editor.s] =
                     IF editor.step = "store" THEN editor.secret ELSE None]
    /\ editor' = [editor EXCEPT !.step = IF @ = "store" THEN "insert" ELSE "delete"]
    /\ UNCHANGED <<profiles, templates, schedules, import, served, faults, overlapped>>

\* A row that somebody else has deleted is deleted once more.
EditorCommit ==
    /\ EditorAt("insert") \/ EditorAt("delete")
    /\ schedules' = [schedules EXCEPT ![editor.s] =
                        IF editor.step = "insert"
                        THEN ScheduleRow(editor.secret) ELSE None]
    /\ editor' = None
    /\ UNCHANGED <<profiles, templates, inputs, import, served, faults, overlapped>>

EditorLost ==
    /\ editor # None
    /\ Fault
    /\ editor' = None
    /\ UNCHANGED <<profiles, templates, schedules, inputs, import, served, overlapped>>

-----------------------------------------------------------------------------

\* init_db has seeded the default profile.
ConfigInit ==
    /\ profiles = {DEFAULT_PROFILE_ID}
    /\ templates = [t \in TemplateIds |-> None]
    /\ schedules = [s \in ScheduleIds |-> None]
    /\ inputs = [s \in ScheduleIds |-> None]
    /\ import = NoImport
    /\ editor = None
    /\ served = 0
    /\ faults = 0
    /\ overlapped = FALSE

AdministratorNext ==
    \/ \E p \in ProfileIds : CreateProfile(p) \/ DeleteProfile(p)
    \/ \E t \in TemplateIds : \/ DeleteTemplate(t)
                              \/ \E row \in TemplateRows : CreateTemplate(t, row)
    \/ \E s \in ScheduleIds :
          \/ ScheduleDelete(s)
          \/ \E secret \in Secrets \union {NoSecret} : ScheduleCreate(s, secret)
    \/ EditorObject \/ EditorCommit \/ EditorLost
=============================================================================
