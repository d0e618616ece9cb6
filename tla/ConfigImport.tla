---------------------------- MODULE ConfigImport ----------------------------
(***************************************************************************)
(* ConfigImportService, which applies a YAML file to the whole             *)
(* configuration in one session but not in one transaction: replace        *)
(* commits when it deletes the schedules, and so does every schedule.      *)
(***************************************************************************)
EXTENDS ConfigStore

-----------------------------------------------------------------------------
(* import_config_from_yaml                                                 *)

\* Mutant of ImportBegin: merge deletes what is there, too.
ImportBeginReplaces(doc, mode) ==
    /\ ~Running
    /\ Serve
    /\ import' = [NoImport EXCEPT
                     !.step = "select", !.mode = mode, !.doc = doc,
                     !.todo = doc.schedules,
                     !.was = [profiles |-> profiles, templates |-> templates]]
    /\ overlapped' = (overlapped \/ editor # None)
    /\ UNCHANGED <<profiles, templates, schedules, inputs, editor, faults>>

\* The file is read and every document of it validated before the first
\* statement; a file that is refused here is left out.
ImportBegin(doc, mode) ==
    /\ ~Running
    /\ Serve
    /\ import' = [NoImport EXCEPT
                     !.step = IF mode = "replace" THEN "select" ELSE "upsert",
                     !.mode = mode, !.doc = doc, !.todo = doc.schedules,
                     !.was = [profiles |-> profiles, templates |-> templates]]
    /\ overlapped' = (overlapped \/ editor # None)
    /\ UNCHANGED <<profiles, templates, schedules, inputs, editor, faults>>

Scheduled == {s \in ScheduleIds : schedules[s] # None}

\* Mutant of Replaced: every profile goes.
ReplacedAll == profiles

Replaced == profiles \ {DEFAULT_PROFILE_ID}

\* The two deletes, and the ids that delete_all_schedules selects.
SelectSchedules ==
    /\ import.step = "select"
    /\ import' = [import EXCEPT
                     !.pending.gone = Replaced,
                     !.pending.dropped = {t \in TemplateIds : templates[t] # None},
                     !.ids = Scheduled,
                     !.step = IF Scheduled = {} THEN "upsert" ELSE "wipe"]
    /\ UNCHANGED <<profiles, templates, schedules, inputs, editor, served,
                   faults, overlapped>>

\* All rows that are there by then, and the first commit.
WipeSchedules ==
    /\ import.step = "wipe"
    /\ Commit
    /\ schedules' = [s \in ScheduleIds |-> None]
    /\ import' = [import EXCEPT !.step = "erase", !.pending = NoChanges]
    /\ UNCHANGED <<inputs, editor, served, faults, overlapped>>

\* Mutant of EraseInput: a failure ends the erasing, and nothing is erased.
EraseInputNot(s) ==
    /\ import.step = "erase"
    /\ s \in import.ids
    /\ import' = [import EXCEPT !.ids = @ \ {s}]
    /\ UNCHANGED <<inputs, faults>>
    /\ UNCHANGED <<profiles, templates, schedules, editor, served, overlapped>>

\* A failure of the store is logged and leaves the input where it is.
EraseInput(s) ==
    /\ import.step = "erase"
    /\ s \in import.ids
    /\ import' = [import EXCEPT !.ids = @ \ {s}]
    /\ \/ inputs' = [inputs EXCEPT ![s] = None] /\ UNCHANGED faults
       \/ Fault /\ UNCHANGED inputs
    /\ UNCHANGED <<profiles, templates, schedules, editor, served, overlapped>>

AllErased ==
    /\ import.step = "erase"
    /\ import.ids = {}
    /\ Goto("upsert")
    /\ UNCHANGED <<profiles, templates, schedules, inputs, editor, served,
                   faults, overlapped>>

FreeIds == {t \in TemplateIds : templates[t] = None}

\* Mutant of UpsertProfiles: every profile is committed before the templates
\* are looked at.
UpsertProfilesOneByOne ==
    /\ import.step = "upsert"
    /\ profiles' = Seen \union import.doc.profiles
    /\ IF ~import.doc.wellFormed THEN RollBack
       ELSE \E t \in FreeIds :
               import' = [import EXCEPT !.pending.added[t] = import.doc.template,
                                        !.step = "schedules"]
    /\ UNCHANGED <<templates, schedules, inputs, editor, served, faults, overlapped>>

\* Profiles are put by id; a template is always a new row, so that merging
\* a file twice adds it twice.  An id that is not well formed ends it all.
UpsertProfiles ==
    /\ import.step = "upsert"
    /\ IF ~import.doc.wellFormed THEN RollBack
       ELSE \E t \in FreeIds :
               import' = [import EXCEPT
                  !.pending.put = import.doc.profiles,
                  !.pending.gone = @ \ import.doc.profiles,
                  !.pending.added[t] = import.doc.template,
                  !.step = "schedules"]
    /\ UNCHANGED <<profiles, templates, schedules, inputs, editor, served,
                   faults, overlapped>>

Entry == Head(import.todo)

\* update_schedule for an id that is there, create_schedule for any other.
IsUpdate == schedules[Entry.id] # None
Stored   == IF IsUpdate THEN inputs[Entry.id] ELSE None

\* Mutant of Acceptable: a placeholder that stands for nothing is taken.
AcceptableUnresolved ==
    /\ Entry.cronIsValid
    /\ Entry.profile \in Seen
    /\ IsUpdate => inputs[Entry.id] # None

Acceptable ==
    /\ Entry.cronIsValid
    /\ Entry.profile \in Seen
    /\ IsUpdate => inputs[Entry.id] # None
    /\ MergeMaskedSecure(Entry.secure, Stored) # None

\* A schedule that is refused (400) ends the import where it is.
RefuseSchedule ==
    /\ import.step = "schedules"
    /\ import.todo # <<>>
    /\ ~Acceptable
    /\ RollBack
    /\ UNCHANGED <<profiles, templates, schedules, inputs, editor, served,
                   faults, overlapped>>

StoreSchedule ==
    /\ import.step = "schedules"
    /\ import.todo # <<>>
    /\ Acceptable
    /\ inputs' = [inputs EXCEPT ![Entry.id] = MergeMaskedSecure(Entry.secure, Stored)]
    /\ import' = [import EXCEPT !.step = IF IsUpdate THEN "update" ELSE "insert",
                                !.kept = Stored]
    /\ UNCHANGED <<profiles, templates, schedules, editor, served, faults, overlapped>>

\* The commit inside the upsert takes the profiles and templates with it.
\* The update of a row that was deleted meanwhile fails, and all with it.
CommitSchedule ==
    /\ import.step \in {"insert", "update"}
    /\ IF import.step = "update" /\ ~IsUpdate
       THEN RollBack /\ UNCHANGED <<profiles, templates, schedules>>
       ELSE /\ Commit
            /\ schedules' = [schedules EXCEPT ![Entry.id] =
                  ScheduleRow(MergeMaskedSecure(Entry.secure, import.kept))]
            /\ import' = [import EXCEPT !.step = "schedules", !.todo = Tail(@),
                                        !.pending = NoChanges]
    /\ UNCHANGED <<inputs, editor, served, faults, overlapped>>

FinishImport ==
    /\ import.step = "schedules"
    /\ import.todo = <<>>
    /\ Commit
    /\ import' = [import EXCEPT !.step = "done", !.pending = NoChanges]
    /\ UNCHANGED <<schedules, inputs, editor, served, faults, overlapped>>

\* The database or the store fails, or the process ends.
ImportLost ==
    /\ Running
    /\ Fault
    /\ RollBack
    /\ UNCHANGED <<profiles, templates, schedules, inputs, editor, served, overlapped>>

ImportNext ==
    \/ \E doc \in Documents, mode \in {"merge", "replace"} : ImportBegin(doc, mode)
    \/ SelectSchedules \/ WipeSchedules \/ AllErased
    \/ \E s \in ScheduleIds : EraseInput(s)
    \/ UpsertProfiles \/ RefuseSchedule \/ StoreSchedule \/ CommitSchedule
    \/ FinishImport \/ ImportLost
=============================================================================
