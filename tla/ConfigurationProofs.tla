------------------------- MODULE ConfigurationProofs -------------------------
(***************************************************************************)
(* Imports among other requests, for any files, ids and secrets and any    *)
(* number of requests and faults.                                          *)
(***************************************************************************)
EXTENDS Configuration, SequenceTheorems, TLAPS

-----------------------------------------------------------------------------
(* Types.                                                                  *)

AdministratorStep == AdministratorNext \/ ImportNext

\* What a user does with a form leaves the configuration alone.
FormStays ==
    /\ UNCHANGED <<profiles, templates, schedules, inputs, editor, served, overlapped>>
    /\ Forget
    /\ faults' = faults \/ Fault

LEMMA Sides ==
    ASSUME [Next]_vars
    PROVE  AdministratorStep \/ FormStays \/ UNCHANGED configVars
<1>1. CASE FormNext
  BY <1>1 DEF FormNext, OpenForm, RunFromSimpleTemplate, OptionsArrive, OptionsFail,
              EditField, SubmitForm, CloseForm, ConfigStays, FormStays
<1> QED BY <1>1 DEF Next, AdministratorStep, vars

LEMMA NoImportTyped == NoImport \in ImportState /\ NoChanges \in Session
BY DEF NoImport, NoChanges, ImportState, Session, Templates

LEMMA SessionTyped ==
    ASSUME ConfigTypeOK
    PROVE  Seen \subseteq ProfileIds /\ SeenTemplates \in Templates
BY DEF ConfigTypeOK, ImportState, Session, Templates, Seen, SeenTemplates

LEMMA MergeTyped ==
    ASSUME NEW submitted \in Secrets \union {NoSecret, MASKED_VALUE}, NEW stored
    PROVE  MergeMaskedSecure(submitted, stored) \in Secrets \union {NoSecret, None}
BY DEF MergeMaskedSecure

LEMMA EntryTyped ==
    ASSUME ConfigTypeOK, import.todo # <<>>
    PROVE  Entry \in Entries /\ Tail(import.todo) \in Seq(Entries)
BY HeadTailProperties DEF ConfigTypeOK, ImportState, Entry

\* A request that writes a row disturbs an import under way.
LEMMA DisturbTyped ==
    ASSUME TypeOK, Disturb \/ Forget
    PROVE  /\ import' \in ImportState
           /\ import'.step # "none" => import'.doc \in Documents
           /\ import'.step \in {"insert", "update"} => import'.todo # <<>>
<1>1. CASE import' \in {import, NoImport}
  <2>1. NoImport.step = "none"
    BY DEF NoImport
  <2> QED BY <1>1, <2>1, NoImportTyped DEF TypeOK, ConfigTypeOK
<1>2. CASE import' = [import EXCEPT !.clean = FALSE]
  BY <1>2 DEF TypeOK, ConfigTypeOK, ImportState
<1> QED BY <1>1, <1>2 DEF Disturb, Forget

LEMMA AdministratorTyped ==
    ASSUME TypeOK, AdministratorNext
    PROVE  TypeOK'
<1> USE DEF TypeOK, ConfigTypeOK
<1>1. ASSUME Serve PROVE served' \in 0..MaxRequests
  BY <1>1, ConfigAssumption DEF Serve
<1>2. CASE \E p \in ProfileIds : CreateProfile(p) \/ DeleteProfile(p)
  BY <1>1, <1>2, DisturbTyped DEF CreateProfile, DeleteProfile, othersOfProfiles
<1>3. CASE \E t \in TemplateIds : \/ DeleteTemplate(t)
                                  \/ \E row \in TemplateRows : CreateTemplate(t, row)
  <2>1. templates' \in Templates
    BY <1>3 DEF CreateTemplate, DeleteTemplate, Templates
  <2> QED BY <1>1, <1>3, <2>1, DisturbTyped DEF CreateTemplate, DeleteTemplate, othersOfProfiles
<1>4. ASSUME NEW step \in {"store", "erase"}, NEW s \in ScheduleIds,
             NEW secret \in Secrets \union {NoSecret}, EditorBegin(step, s, secret)
      PROVE  TypeOK'
  <2>1. editor' \in EditorState
    BY <1>4 DEF EditorBegin, EditorState
  <2>2. overlapped' \in BOOLEAN
    BY <1>4 DEF EditorBegin, Running
  <2> QED BY <1>1, <1>4, <2>1, <2>2, DisturbTyped DEF EditorBegin
<1>5. CASE \E s \in ScheduleIds :
              \/ ScheduleDelete(s)
              \/ \E secret \in Secrets \union {NoSecret} : ScheduleCreate(s, secret)
  BY <1>4, <1>5 DEF ScheduleCreate, ScheduleDelete
<1>6. CASE EditorObject
  <2>1. editor \in EditorState
    BY <1>6 DEF EditorObject, EditorAt
  <2>2. editor' \in EditorState
    BY <1>6, <2>1 DEF EditorObject, EditorState
  <2>3. inputs' \in [ScheduleIds -> Secrets \union {NoSecret, None}]
    BY <1>6, <2>1 DEF EditorObject, EditorState
  <2> QED BY <1>6, <2>2, <2>3 DEF EditorObject
<1>7. CASE EditorCommit
  BY <1>7 DEF EditorCommit, ScheduleRow, ScheduleRows
<1>8. CASE EditorLost
  BY <1>8, ConfigAssumption DEF EditorLost, Fault
<1> QED BY <1>2, <1>3, <1>5, <1>6, <1>7, <1>8 DEF AdministratorNext

LEMMA ImportTyped ==
    ASSUME TypeOK, ImportNext
    PROVE  TypeOK'
<1> USE DEF TypeOK, ConfigTypeOK
<1>1. import \in ImportState /\ import.pending \in Session
  BY DEF ImportState
<1>2. ASSUME RollBack \/ Goto("upsert")
      PROVE  /\ import' \in ImportState /\ import'.step \in {"done", "upsert"}
             /\ import'.doc = import.doc
  BY <1>1, <1>2, NoImportTyped DEF RollBack, Goto, ImportState
<1>3. ASSUME Commit PROVE profiles' \subseteq ProfileIds /\ templates' \in Templates
  BY <1>3, SessionTyped DEF Commit
<1>4. ASSUME Fault PROVE faults' \in 0..MaxFaults
  BY <1>4, ConfigAssumption DEF Fault
<1>5. ASSUME NEW doc \in Documents, NEW mode \in {"merge", "replace"}, ImportBegin(doc, mode)
      PROVE  TypeOK'
  <2>1. doc.schedules \in Seq(Entries)
    BY DocumentAssumption DEF Document
  <2>2. import' \in ImportState /\ import'.step \in {"select", "upsert"} /\ import'.doc = doc
    BY <1>5, <2>1, NoImportTyped DEF ImportBegin, NoImport, NoChanges, ImportState, Session
  <2>3. served' \in 0..MaxRequests
    BY <1>5, ConfigAssumption DEF ImportBegin, Serve
  <2>4. overlapped' \in BOOLEAN
    BY <1>5 DEF ImportBegin
  <2> QED BY <1>5, <2>2, <2>3, <2>4 DEF ImportBegin
<1>6. CASE SelectSchedules
  <2>1. Replaced \subseteq ProfileIds /\ Scheduled \subseteq ScheduleIds
    BY DEF Replaced, Scheduled
  <2>2. import' \in ImportState /\ import'.step \in {"upsert", "wipe"} /\ import'.doc = import.doc
    BY <1>1, <1>6, <2>1 DEF SelectSchedules, ImportState, Session
  <2> QED BY <1>6, <2>2 DEF SelectSchedules
<1>7. CASE WipeSchedules
  <2>1. import' \in ImportState /\ import'.step = "erase" /\ import'.doc = import.doc
    BY <1>1, <1>7, NoImportTyped DEF WipeSchedules, ImportState
  <2> QED BY <1>3, <1>7, <2>1 DEF WipeSchedules
<1>8. ASSUME NEW s \in ScheduleIds, EraseInput(s) PROVE TypeOK'
  <2>1. import' = [import EXCEPT !.ids = @ \ {s}] /\ import.step = "erase"
    BY <1>8 DEF EraseInput
  <2>2. import' \in ImportState /\ import'.step = "erase" /\ import'.doc = import.doc
    BY <1>1, <2>1 DEF ImportState
  <2>3. inputs' \in [ScheduleIds -> Secrets \union {NoSecret, None}] /\ faults' \in 0..MaxFaults
    BY <1>4, <1>8 DEF EraseInput
  <2> QED BY <1>8, <2>1, <2>2, <2>3 DEF EraseInput
<1>9. CASE AllErased
  BY <1>2, <1>9 DEF AllErased
<1>10. CASE UpsertProfiles
  <2>1. CASE RollBack
    BY <1>2, <1>10, <2>1 DEF UpsertProfiles
  <2>2. CASE ~RollBack
    <3>1. PICK t \in FreeIds :
             import' = [import EXCEPT
                !.pending.put = import.doc.profiles,
                !.pending.gone = @ \ import.doc.profiles,
                !.pending.added[t] = import.doc.template,
                !.step = "schedules"]
      BY <1>10, <2>2 DEF UpsertProfiles
    <3>2. /\ import.doc.profiles \subseteq ProfileIds
          /\ import.doc.template \in TemplateRows \union {None}
      BY <1>10, DocumentAssumption DEF UpsertProfiles, Document
    <3>3. import' \in ImportState /\ import'.step = "schedules" /\ import'.doc = import.doc
      BY <1>1, <3>1, <3>2 DEF ImportState, Session, Templates, FreeIds
    <3> QED BY <1>10, <3>3 DEF UpsertProfiles
  <2> QED BY <2>1, <2>2
<1>11. CASE RefuseSchedule
  BY <1>2, <1>11 DEF RefuseSchedule
<1>12. CASE StoreSchedule
  <2>1. Entry \in Entries
    BY <1>12, EntryTyped DEF StoreSchedule
  <2>2. Stored \in Secrets \union {NoSecret, None}
    BY <2>1 DEF Stored, Entries
  <2>3. import' \in ImportState /\ import'.todo = import.todo /\ import'.doc = import.doc
    BY <1>1, <1>12, <2>2 DEF StoreSchedule, ImportState
  <2>4. inputs' \in [ScheduleIds -> Secrets \union {NoSecret, None}]
    BY <1>12, <2>1, MergeTyped DEF StoreSchedule, Entries
  <2> QED BY <1>12, <2>3, <2>4 DEF StoreSchedule
<1>13. CASE CommitSchedule
  <2>1. CASE import.step = "update" /\ ~IsUpdate
    BY <1>2, <1>13, <2>1 DEF CommitSchedule
  <2>2. CASE ~(import.step = "update" /\ ~IsUpdate)
    <3>1. import' = [import EXCEPT !.step = "schedules", !.todo = Tail(@),
                                   !.pending = NoChanges]
      BY <1>13, <2>2 DEF CommitSchedule
    <3>2. import' \in ImportState /\ import'.step = "schedules" /\ import'.doc = import.doc
      BY <1>1, <1>13, <3>1, EntryTyped, NoImportTyped DEF CommitSchedule, ImportState
    <3>3. schedules' \in [ScheduleIds -> ScheduleRows \union {None}]
      <4>1. \A secret : ScheduleRow(secret) \in ScheduleRows
        BY DEF ScheduleRow, ScheduleRows
      <4> QED BY <1>13, <2>2, <4>1 DEF CommitSchedule
    <3> QED BY <1>3, <1>13, <2>2, <3>2, <3>3 DEF CommitSchedule
  <2> QED BY <2>1, <2>2
<1>14. CASE FinishImport
  <2>1. import' \in ImportState /\ import'.step = "done" /\ import'.doc = import.doc
    BY <1>1, <1>14, NoImportTyped DEF FinishImport, ImportState
  <2> QED BY <1>3, <1>14, <2>1 DEF FinishImport
<1>15. CASE ImportLost
  BY <1>2, <1>4, <1>15 DEF ImportLost, Running
<1> QED BY <1>5, <1>6, <1>7, <1>8, <1>9, <1>10, <1>11, <1>12, <1>13, <1>14, <1>15 DEF ImportNext

LEMMA TypeStep ==
    ASSUME TypeOK, [Next]_vars
    PROVE  TypeOK'
<1>1. CASE UNCHANGED configVars
  BY <1>1 DEF configVars, TypeOK, ConfigTypeOK
<1>2. CASE FormStays
  BY <1>2, DisturbTyped, ConfigAssumption DEF FormStays, Fault, TypeOK, ConfigTypeOK
<1> QED BY <1>1, <1>2, Sides, AdministratorTyped, ImportTyped DEF AdministratorStep

\* Tables, sessions and requests stay in their types, whatever is imported.
THEOREM TypeCorrect == Spec => []TypeOK
<1>1. Init => TypeOK
  <2> SUFFICES ASSUME Init PROVE TypeOK
    OBVIOUS
  <2>1. import \in ImportState /\ import.step = "none"
    BY NoImportTyped DEF Init, ConfigInit, NoImport
  <2>2. served \in 0..MaxRequests /\ faults \in 0..MaxFaults
    BY ConfigAssumption DEF Init, ConfigInit
  <2> QED BY <2>1, <2>2, ConfigAssumption
       DEF Init, ConfigInit, TypeOK, ConfigTypeOK, Templates, DEFAULT_PROFILE_ID
<1> QED BY <1>1, TypeStep, PTL DEF Spec

-----------------------------------------------------------------------------
(* What a session holds back.  An import changes its pending changes and   *)
(* the tables in four ways only.                                           *)

ImportMoves ==
    \/ /\ UNCHANGED <<profiles, templates>>
       /\ import'.pending \in {import.pending, NoChanges}
    \/ SelectSchedules
    \/ UpsertProfiles /\ import.doc.wellFormed
    \/ Commit /\ import'.pending = NoChanges

LEMMA ImportsMove ==
    ASSUME TypeOK, ImportNext
    PROVE  ImportMoves
<1>1. import \in ImportState
  BY DEF TypeOK, ConfigTypeOK
<1>2. ASSUME RollBack \/ Goto("upsert")
      PROVE  import'.pending \in {import.pending, NoChanges}
  BY <1>1, <1>2 DEF RollBack, Goto, ImportState
<1>3. CASE \E doc \in Documents, mode \in {"merge", "replace"} : ImportBegin(doc, mode)
  BY <1>3 DEF ImportBegin, NoImport, ImportMoves
<1>4. CASE WipeSchedules \/ FinishImport
  BY <1>1, <1>4 DEF WipeSchedules, FinishImport, ImportMoves, ImportState
<1>5. CASE \E s \in ScheduleIds : EraseInput(s)
  BY <1>1, <1>5 DEF EraseInput, ImportMoves, ImportState
<1>6. CASE AllErased \/ RefuseSchedule \/ ImportLost
  BY <1>2, <1>6 DEF AllErased, RefuseSchedule, ImportLost, ImportMoves
<1>7. CASE UpsertProfiles
  BY <1>2, <1>7 DEF UpsertProfiles, ImportMoves
<1>8. CASE StoreSchedule
  BY <1>1, <1>8 DEF StoreSchedule, ImportMoves, ImportState
<1>9. CASE CommitSchedule
  BY <1>1, <1>2, <1>9 DEF CommitSchedule, ImportMoves, ImportState
<1>10. CASE SelectSchedules
  BY <1>10 DEF ImportMoves
<1> QED BY <1>3, <1>4, <1>5, <1>6, <1>7, <1>8, <1>9, <1>10 DEF ImportNext

LEMMA UpsertMoves ==
    ASSUME TypeOK, UpsertProfiles, import.doc.wellFormed
    PROVE  \E t \in FreeIds :
              /\ import'.mode = import.mode /\ import'.step = "schedules"
              /\ import'.doc = import.doc /\ import'.was = import.was
              /\ import'.clean = import.clean
              /\ import'.pending.put = import.doc.profiles
              /\ import'.pending.gone = import.pending.gone \ import.doc.profiles
              /\ import'.pending.dropped = import.pending.dropped
              /\ import'.pending.added = [import.pending.added EXCEPT ![t] = import.doc.template]
              /\ UNCHANGED <<profiles, templates, schedules, inputs>>
<1>1. import \in ImportState /\ import.pending \in Session
  BY DEF TypeOK, ConfigTypeOK, ImportState
<1>2. PICK t \in FreeIds :
         import' = [import EXCEPT
            !.pending.put = import.doc.profiles,
            !.pending.gone = @ \ import.doc.profiles,
            !.pending.added[t] = import.doc.template,
            !.step = "schedules"]
  BY DEF UpsertProfiles
<1>3. /\ import'.mode = import.mode /\ import'.step = "schedules"
      /\ import'.doc = import.doc /\ import'.was = import.was
      /\ import'.clean = import.clean
      /\ import'.pending.put = import.doc.profiles
      /\ import'.pending.gone = import.pending.gone \ import.doc.profiles
      /\ import'.pending.dropped = import.pending.dropped
      /\ import'.pending.added = [import.pending.added EXCEPT ![t] = import.doc.template]
  BY <1>1, <1>2 DEF ImportState, Session
<1> QED BY <1>3 DEF UpsertProfiles

\* What everybody else does to the pending changes.
LEMMA PendingStays ==
    ASSUME TypeOK, AdministratorNext \/ FormStays \/ UNCHANGED configVars
    PROVE  import'.pending \in {import.pending, NoChanges}
<1>1. ASSUME Disturb \/ Forget PROVE import'.pending \in {import.pending, NoChanges}
  BY <1>1 DEF Disturb, Forget, NoImport, TypeOK, ConfigTypeOK, ImportState
<1> QED BY <1>1 DEF AdministratorNext, CreateProfile, DeleteProfile, CreateTemplate,
           DeleteTemplate, ScheduleCreate, ScheduleDelete, EditorBegin, EditorObject,
           EditorCommit, EditorLost, FormStays, configVars

\* No session ever holds the deletion of the default profile.
DefaultInv == DefaultProfileStays /\ DEFAULT_PROFILE_ID \notin import.pending.gone

LEMMA DefaultStep ==
    ASSUME TypeOK, DefaultInv, [Next]_vars
    PROVE  DefaultInv'
<1> USE DEF DefaultInv, DefaultProfileStays
<1>1. DEFAULT_PROFILE_ID \notin NoChanges.gone
  BY DEF NoChanges
<1>2. CASE AdministratorNext \/ FormStays \/ UNCHANGED configVars
  <2>1. DEFAULT_PROFILE_ID \in profiles'
    BY <1>2 DEF AdministratorNext, CreateProfile, DeleteProfile, CreateTemplate,
       DeleteTemplate, ScheduleCreate, ScheduleDelete, EditorBegin, EditorObject,
       EditorCommit, EditorLost, FormStays, configVars
  <2> QED BY <1>1, <1>2, <2>1, PendingStays
<1>3. CASE ImportNext
  <2>1. CASE SelectSchedules
    <3>1. import'.pending.gone = Replaced
      BY <2>1 DEF SelectSchedules, TypeOK, ConfigTypeOK, ImportState, Session
    <3> QED BY <2>1, <3>1 DEF SelectSchedules, Replaced
  <2>2. CASE UpsertProfiles /\ import.doc.wellFormed
    <3>1. import'.pending.gone \subseteq import.pending.gone
      BY <2>2, UpsertMoves
    <3> QED BY <2>2, <3>1 DEF UpsertProfiles
  <2>3. CASE Commit /\ import'.pending = NoChanges
    BY <1>1, <2>3 DEF Commit, Seen
  <2> QED BY <1>1, <1>3, <2>1, <2>2, <2>3, ImportsMove DEF ImportMoves
<1> QED BY <1>2, <1>3, Sides DEF AdministratorStep

\* Whatever is imported, replaced or deleted, the profile that templates,
\* forms and schedules fall back on is there.
THEOREM DefaultProfileIsThere == Spec => []DefaultProfileStays
<1>1. Init => DefaultInv
  BY DEF Init, ConfigInit, NoImport, NoChanges, DefaultInv, DefaultProfileStays
<1>2. DefaultInv => DefaultProfileStays
  BY DEF DefaultInv
<1> QED BY <1>1, <1>2, DefaultStep, TypeCorrect, PTL DEF Spec

-----------------------------------------------------------------------------
(* Merging.                                                                *)

\* A merge deletes nothing, and adds templates under ids that are free.
MergeInv ==
    import.mode = "merge" /\ Running =>
        /\ import.step \in {"upsert", "schedules", "insert", "update"}
        /\ import.pending.gone = {} /\ import.pending.dropped = {}
        /\ \A t \in TemplateIds : import.pending.added[t] # None => templates[t] = None

LEMMA MergeStep ==
    ASSUME TypeOK, MergeInv, [Next]_vars
    PROVE  MergeInv'
<1> USE DEF MergeInv
<1>1. import \in ImportState /\ import.pending \in Session
  BY DEF TypeOK, ConfigTypeOK, ImportState
<1>2. /\ NoChanges.gone = {} /\ NoChanges.dropped = {}
      /\ \A t \in TemplateIds : NoChanges.added[t] = None
      /\ NoImport.step = "none"
  BY DEF NoChanges, NoImport
<1>3. ASSUME UNCHANGED templates,
             import' = import \/ import' = [import EXCEPT !.clean = FALSE] \/ import' = NoImport
      PROVE  MergeInv'
  BY <1>1, <1>2, <1>3 DEF Running, ImportState
<1>4. CASE FormStays \/ UNCHANGED configVars
  BY <1>3, <1>4 DEF FormStays, Forget, configVars
<1>5. CASE AdministratorNext
  <2>1. CASE UNCHANGED templates
    BY <1>3, <1>5, <2>1 DEF AdministratorNext, CreateProfile, DeleteProfile, CreateTemplate,
       DeleteTemplate, ScheduleCreate, ScheduleDelete, EditorBegin, EditorObject,
       EditorCommit, EditorLost, Disturb, Forget
  <2>2. ASSUME NEW t \in TemplateIds, NEW row, ~TouchedTemplate(t), Disturb,
               templates' = [templates EXCEPT ![t] = row]
        PROVE  MergeInv'
    <3>1. \A q \in TemplateIds : import.pending.added[q] # None => templates'[q] = templates[q]
      BY <2>2 DEF TouchedTemplate, TypeOK, ConfigTypeOK, Templates
    <3>2. CASE Running
      BY <1>1, <2>2, <3>1, <3>2 DEF Disturb, Running, ImportState
    <3>3. CASE ~Running
      BY <1>2, <2>2, <3>3 DEF Disturb, Running
    <3> QED BY <3>2, <3>3
  <2> QED BY <1>5, <2>1, <2>2 DEF AdministratorNext, CreateProfile, DeleteProfile,
             CreateTemplate, DeleteTemplate, ScheduleCreate, ScheduleDelete, EditorBegin,
             EditorObject, EditorCommit, EditorLost, othersOfProfiles
<1>6. CASE ImportNext
  <2>1. CASE \E doc \in Documents, mode \in {"merge", "replace"} : ImportBegin(doc, mode)
    <3>1. PICK doc \in Documents, mode \in {"merge", "replace"} : ImportBegin(doc, mode)
      BY <2>1
    <3>2. /\ import'.mode = "merge" => import'.step = "upsert"
          /\ import'.pending = NoChanges
      BY <3>1 DEF ImportBegin, NoImport
    <3> QED BY <1>2, <3>2
  <2>2. CASE SelectSchedules \/ WipeSchedules \/ AllErased \/ \E s \in ScheduleIds : EraseInput(s)
    <3>1. /\ import.mode # "merge"
      BY <2>2 DEF SelectSchedules, WipeSchedules, AllErased, EraseInput, Running
    <3>2. import'.mode = import.mode
      BY <1>1, <2>2 DEF SelectSchedules, WipeSchedules, AllErased, EraseInput, Goto, ImportState
    <3> QED BY <3>1, <3>2
  <2>3. CASE UpsertProfiles /\ import.doc.wellFormed
    <3>1. PICK t \in FreeIds :
             /\ import'.mode = import.mode /\ import'.step = "schedules"
             /\ import'.pending.gone = import.pending.gone \ import.doc.profiles
             /\ import'.pending.dropped = import.pending.dropped
             /\ import'.pending.added = [import.pending.added EXCEPT ![t] = import.doc.template]
      BY <2>3, UpsertMoves
    <3>2. UNCHANGED templates /\ templates[t] = None /\ Running
      BY <2>3 DEF UpsertProfiles, FreeIds, Running
    <3>3. \A q \in TemplateIds : import'.pending.added[q] # None =>
             q = t \/ import.pending.added[q] # None
      BY <1>1, <3>1 DEF Session, Templates
    <3> QED BY <3>1, <3>2, <3>3
  <2>4. CASE \/ RefuseSchedule \/ ImportLost \/ FinishImport
             \/ UpsertProfiles /\ ~import.doc.wellFormed
    <3>1. import'.step = "done"
      BY <1>1, <2>4 DEF RefuseSchedule, ImportLost, FinishImport, UpsertProfiles, RollBack,
                        ImportState
    <3> QED BY <3>1 DEF Running
  <2>5. CASE StoreSchedule
    BY <1>1, <2>5 DEF StoreSchedule, Running, ImportState
  <2>6. CASE CommitSchedule
    <3>1. CASE RollBack
      BY <1>1, <3>1 DEF RollBack, Running, ImportState
    <3>2. CASE ~RollBack
      <4>1. import' = [import EXCEPT !.step = "schedules", !.todo = Tail(@),
                                     !.pending = NoChanges]
        BY <2>6, <3>2 DEF CommitSchedule
      <4>2. import'.step = "schedules" /\ import'.pending = NoChanges
        BY <1>1, <4>1 DEF ImportState
      <4> QED BY <1>2, <4>2
    <3> QED BY <3>1, <3>2
  <2> QED BY <1>6, <2>1, <2>2, <2>3, <2>4, <2>5, <2>6 DEF ImportNext
<1> QED BY <1>4, <1>5, <1>6, Sides DEF AdministratorStep

LEMMA MergeInvariant == Spec => []MergeInv
<1>1. Init => MergeInv
  BY DEF Init, ConfigInit, NoImport, MergeInv, Running
<1> QED BY <1>1, MergeStep, TypeCorrect, PTL DEF Spec

Kept ==
    /\ profiles \subseteq profiles'
    /\ \A t \in TemplateIds : templates[t] # None => templates'[t] = templates[t]
    /\ \A s \in ScheduleIds : /\ schedules[s] # None => schedules'[s] # None
                              /\ inputs[s] # None => inputs'[s] # None

LEMMA MergeKeeps ==
    ASSUME TypeOK, MergeInv, [Next]_vars,
           import.mode = "merge", Running, <<editor, served>>' = <<editor, served>>
    PROVE  Kept
<1>1. CASE UNCHANGED <<profiles, templates, schedules, inputs>>
  BY <1>1 DEF Kept
<1>2. ASSUME Commit PROVE /\ profiles \subseteq profiles'
                          /\ \A t \in TemplateIds : templates[t] # None => templates'[t] = templates[t]
  BY <1>2 DEF Commit, Seen, SeenTemplates, MergeInv
<1>3. CASE FormStays \/ UNCHANGED configVars
  BY <1>1, <1>3 DEF FormStays, configVars
<1>4. CASE AdministratorNext
  <2>1. ~Serve
    BY DEF Serve, TypeOK, ConfigTypeOK
  <2>2. ~(EditorObject \/ EditorCommit \/ EditorLost)
    <3>1. CASE EditorObject
      <4>1. editor'.step # editor.step
        BY <3>1 DEF EditorObject, EditorAt, EditorState, TypeOK, ConfigTypeOK
      <4> QED BY <4>1
    <3>2. CASE EditorCommit \/ EditorLost
      BY <3>2 DEF EditorCommit, EditorLost, EditorAt
    <3> QED BY <3>1, <3>2
  <2> QED BY <1>4, <2>1, <2>2 DEF AdministratorNext, CreateProfile, DeleteProfile,
             CreateTemplate, DeleteTemplate, ScheduleCreate, ScheduleDelete, EditorBegin
<1>5. CASE ImportNext
  <2>1. CASE SelectSchedules \/ WipeSchedules \/ AllErased \/ \E s \in ScheduleIds : EraseInput(s)
    BY <2>1 DEF SelectSchedules, WipeSchedules, AllErased, EraseInput, MergeInv
  <2>2. CASE StoreSchedule
    <3>1. MergeMaskedSecure(Entry.secure, Stored) # None
      BY <2>2 DEF StoreSchedule, Acceptable
    <3> QED BY <2>2, <3>1 DEF StoreSchedule, Kept, TypeOK, ConfigTypeOK
  <2>3. CASE CommitSchedule
    <3>1. CASE import.step = "update" /\ ~IsUpdate
      BY <1>1, <2>3, <3>1 DEF CommitSchedule
    <3>2. CASE ~(import.step = "update" /\ ~IsUpdate)
      <4>1. \A secret : ScheduleRow(secret) # None
        <5>1. \A secret : ScheduleRow(secret) \in ScheduleRows
          BY DEF ScheduleRow, ScheduleRows
        <5> QED BY <5>1, NoneAssumption
      <4> QED BY <1>2, <2>3, <3>2, <4>1 DEF CommitSchedule, Kept, TypeOK, ConfigTypeOK
    <3> QED BY <3>1, <3>2
  <2>4. CASE FinishImport
    BY <1>2, <2>4 DEF FinishImport, Kept
  <2>5. CASE UpsertProfiles \/ RefuseSchedule \/ ImportLost
    BY <1>1, <2>5 DEF UpsertProfiles, RefuseSchedule, ImportLost
  <2>6. CASE \E doc \in Documents, mode \in {"merge", "replace"} : ImportBegin(doc, mode)
    BY <2>6 DEF ImportBegin
  <2> QED BY <1>5, <2>1, <2>2, <2>3, <2>4, <2>5, <2>6 DEF ImportNext
<1> QED BY <1>3, <1>4, <1>5, Sides DEF AdministratorStep

\* Merging takes nothing away, at whatever step it fails.
THEOREM MergingTakesNothing == Spec => MergeRemovesNothing
<1>1. TypeOK /\ MergeInv /\ [Next]_vars =>
         [import.mode = "merge" /\ Running /\ <<editor, served>>' = <<editor, served>> => Kept]_vars
  BY MergeKeeps
<1>2. ASSUME TypeOK, MergeInv, [Next]_vars
      PROVE  [import.mode = "merge" /\ Running /\ <<editor, served>>' = <<editor, served>>
       => /\ profiles \subseteq profiles'
          /\ \A t \in TemplateIds : templates[t] # None => templates'[t] = templates[t]
          /\ \A s \in ScheduleIds : /\ schedules[s] # None => schedules'[s] # None
                                    /\ inputs[s] # None => inputs'[s] # None]_vars
  BY <1>1, <1>2 DEF Kept
<1> QED BY <1>2, MergeInvariant, TypeCorrect, PTL DEF Spec, MergeRemovesNothing

-----------------------------------------------------------------------------
(* All or nothing.  What is committed, and what the session would commit,  *)
(* is one of four things: what was there, what replace leaves of it, and   *)
(* either with the file on top.                                            *)

Base(session, p, t) ==
    \/ p = session.was.profiles /\ t = session.was.templates
    \/ /\ session.mode = "replace"
       /\ p = session.was.profiles \intersect {DEFAULT_PROFILE_ID}
       /\ t = [q \in TemplateIds |-> None]

OnTop(doc, p, t, p0, t0) ==
    /\ p = p0 \union doc.profiles
    /\ \/ doc.template = None /\ t = t0
       \/ \E q \in TemplateIds : t = [t0 EXCEPT ![q] = doc.template]

Complete(session, p, t) ==
    \E p0, t0 : Base(session, p0, t0) /\ OnTop(session.doc, p, t, p0, t0)

Applying   == import.step \in {"schedules", "insert", "update"}
Preparing  == import.step \in {"select", "wipe", "erase", "upsert"}
IsWhole    == \/ Base(import, profiles, templates)
              \/ Complete(import, profiles, templates)

HalfInv ==
    import.clean =>
        /\ Preparing =>
              /\ Base(import, profiles, templates) /\ Base(import, Seen, SeenTemplates)
              /\ import.pending.put = {}
              /\ \A t \in TemplateIds : import.pending.added[t] = None
        /\ import.step \in {"select", "wipe", "erase"} => import.mode = "replace"
        /\ import.step = "select" =>
              profiles = import.was.profiles /\ templates = import.was.templates
        /\ import.step = "erase" => import.pending = NoChanges
        /\ Applying => IsWhole /\ Complete(import, Seen, SeenTemplates)
        /\ import.step = "done" => IsWhole

\* A session without changes sees what is committed.
LEMMA NothingPending ==
    ASSUME TypeOK, import.pending = NoChanges
    PROVE  Seen = profiles /\ SeenTemplates = templates
BY DEF Seen, SeenTemplates, NoChanges, TypeOK, ConfigTypeOK, Templates

\* The same session before and after a step.
SameSession == /\ import'.was = import.was /\ import'.mode = import.mode
               /\ import'.doc = import.doc

LEMMA SameBase ==
    ASSUME SameSession
    PROVE  \A p, t : /\ Base(import, p, t) <=> Base(import', p, t)
                     /\ Complete(import, p, t) <=> Complete(import', p, t)
BY DEF SameSession, Base, Complete

\* The steps of an import that change neither the tables nor what is pending.
LEMMA HalfStays ==
    ASSUME TypeOK, TypeOK', HalfInv, SameSession, import'.clean => import.clean,
           UNCHANGED <<profiles, templates>>, import'.pending = import.pending,
           \/ Preparing /\ Preparing' /\ import'.step \notin {"select", "wipe", "erase"}
           \/ import'.step = import.step
           \/ Applying /\ Applying'
    PROVE  HalfInv'
<1>1. Seen' = Seen /\ SeenTemplates' = SeenTemplates
  BY DEF Seen, SeenTemplates
<1>2. /\ Base(import, profiles, templates) => Base(import', profiles', templates')
      /\ Base(import, Seen, SeenTemplates) => Base(import', Seen', SeenTemplates')
      /\ IsWhole => IsWhole'
      /\ Complete(import, Seen, SeenTemplates) => Complete(import', Seen', SeenTemplates')
  BY <1>1, SameBase DEF IsWhole
<1>3. CASE /\ Preparing /\ Preparing' /\ import'.step \notin {"select", "wipe", "erase"}
  BY <1>2, <1>3 DEF HalfInv, Applying, Preparing, SameSession
<1>4. CASE import'.step = import.step
  BY <1>2, <1>4 DEF HalfInv, Applying, Preparing, SameSession
<1>5. CASE Applying /\ Applying'
  BY <1>2, <1>5 DEF HalfInv, Applying, Preparing, SameSession
<1> QED BY <1>3, <1>4, <1>5

LEMMA RolledBackIsWhole ==
    ASSUME TypeOK, HalfInv, RollBack, Running, UNCHANGED <<profiles, templates>>
    PROVE  HalfInv'
<1>1. import'.step = "done" /\ SameSession /\ import'.clean = import.clean
  BY DEF RollBack, TypeOK, ConfigTypeOK, ImportState, SameSession
<1>2. import.clean => IsWhole
  BY DEF HalfInv, IsWhole, Running, Preparing, Applying, TypeOK, ConfigTypeOK, ImportState
<1>3. IsWhole => IsWhole'
  BY <1>1, SameBase DEF IsWhole
<1> QED BY <1>1, <1>2, <1>3 DEF HalfInv, Preparing, Applying

LEMMA HalfStep ==
    ASSUME TypeOK, TypeOK', HalfInv, [Next]_vars
    PROVE  HalfInv'
<1>1. import \in ImportState /\ import.pending \in Session
  BY DEF TypeOK, ConfigTypeOK, ImportState
<1>2. ASSUME import' = NoImport PROVE HalfInv'
  BY <1>2 DEF NoImport, HalfInv, Preparing, Applying
<1>3. CASE FormStays \/ UNCHANGED configVars
  BY <1>2, <1>3, HalfStays DEF FormStays, Forget, configVars, SameSession
<1>4. CASE AdministratorNext
  <2>1. CASE Disturb
    <3>1. CASE Running
      BY <1>1, <2>1, <3>1 DEF Disturb, HalfInv, ImportState
    <3>2. CASE ~Running
      BY <1>2, <2>1, <3>2 DEF Disturb
    <3> QED BY <3>1, <3>2
  <2>2. CASE UNCHANGED <<profiles, templates>> /\ (import' = import \/ Forget)
    BY <1>2, <2>2, HalfStays DEF Forget, SameSession
  <2> QED BY <1>4, <2>1, <2>2 DEF AdministratorNext, CreateProfile, DeleteProfile,
             CreateTemplate, DeleteTemplate, ScheduleCreate, ScheduleDelete, EditorBegin,
             EditorObject, EditorCommit, EditorLost
<1>5. CASE ImportNext
  <2>1. ASSUME NEW doc \in Documents, NEW mode \in {"merge", "replace"}, ImportBegin(doc, mode)
        PROVE  HalfInv'
    <3>1. /\ import'.step = IF mode = "replace" THEN "select" ELSE "upsert"
          /\ import'.mode = mode /\ import'.pending = NoChanges
          /\ import'.was = [profiles |-> profiles, templates |-> templates]
          /\ UNCHANGED <<profiles, templates>>
      BY <2>1 DEF ImportBegin, NoImport
    <3>2. import'.was.profiles = profiles' /\ import'.was.templates = templates'
      BY <3>1
    <3>3. Base(import', profiles', templates')
      BY <3>2 DEF Base
    <3>4. (Seen = profiles /\ SeenTemplates = templates)'
      BY <3>1 DEF Seen, SeenTemplates, NoChanges, TypeOK, ConfigTypeOK, Templates
    <3>5. Base(import', Seen', SeenTemplates')
      BY <3>3, <3>4
    <3>6. /\ import'.pending.put = {}
          /\ \A t \in TemplateIds : import'.pending.added[t] = None
      BY <3>1 DEF NoChanges
    <3> QED BY <3>1, <3>2, <3>3, <3>5, <3>6 DEF HalfInv, Preparing, Applying
  <2>2. CASE SelectSchedules
    <3>1. /\ SameSession /\ import'.clean = import.clean /\ UNCHANGED <<profiles, templates>>
          /\ import'.step \in {"upsert", "wipe"}
          /\ import'.pending.put = import.pending.put
          /\ import'.pending.added = import.pending.added
          /\ import'.pending.gone = Replaced
          /\ import'.pending.dropped = {t \in TemplateIds : templates[t] # None}
      BY <1>1, <2>2 DEF SelectSchedules, SameSession, ImportState, Session
    <3>2. SUFFICES ASSUME import.clean PROVE HalfInv'
      BY <3>1 DEF HalfInv
    <3>3. /\ import.mode = "replace" /\ profiles = import.was.profiles
          /\ Base(import, profiles, templates)
          /\ import.pending.put = {}
          /\ \A t \in TemplateIds : import.pending.added[t] = None
      BY <2>2, <3>2 DEF SelectSchedules, HalfInv, Preparing
    <3>4. Seen' = import.was.profiles \intersect {DEFAULT_PROFILE_ID}
      BY <3>1, <3>3 DEF Seen, Replaced
    <3>5. SeenTemplates' = [q \in TemplateIds |-> None]
      BY <3>1, <3>3 DEF SeenTemplates
    <3>6. Base(import, Seen', SeenTemplates')
      BY <3>3, <3>4, <3>5 DEF Base
    <3>7. Base(import', profiles', templates') /\ Base(import', Seen', SeenTemplates')
      BY <3>1, <3>3, <3>6, SameBase
    <3> QED BY <3>1, <3>3, <3>7 DEF HalfInv, Preparing, Applying, SameSession
  <2>3. CASE WipeSchedules
    <3>1. /\ SameSession /\ import'.clean = import.clean /\ Commit
          /\ import'.step = "erase" /\ import'.pending = NoChanges
      BY <1>1, <2>3 DEF WipeSchedules, SameSession, ImportState
    <3>2. SUFFICES ASSUME import.clean PROVE HalfInv'
      BY <3>1 DEF HalfInv
    <3>3. import.mode = "replace" /\ Base(import, Seen, SeenTemplates)
      BY <2>3, <3>2 DEF WipeSchedules, HalfInv, Preparing
    <3>4. Base(import', profiles', templates')
      BY <3>1, <3>3, SameBase DEF Commit
    <3>5. (Seen = profiles /\ SeenTemplates = templates)'
      BY <3>1 DEF Seen, SeenTemplates, NoChanges, TypeOK, ConfigTypeOK, Templates
    <3>6. Base(import', Seen', SeenTemplates')
      BY <3>4, <3>5
    <3>7. /\ import'.pending.put = {}
          /\ \A t \in TemplateIds : import'.pending.added[t] = None
      BY <3>1 DEF NoChanges
    <3> QED BY <3>1, <3>3, <3>4, <3>6, <3>7 DEF HalfInv, Preparing, Applying, SameSession
  <2>4. ASSUME NEW s \in ScheduleIds, EraseInput(s) PROVE HalfInv'
    <3>1. /\ SameSession /\ import'.clean = import.clean
          /\ UNCHANGED <<profiles, templates>>
          /\ import'.step = import.step /\ import'.pending = import.pending
      BY <1>1, <2>4 DEF EraseInput, SameSession, ImportState
    <3> QED BY <3>1, HalfStays
  <2>5. CASE AllErased
    <3>1. /\ SameSession /\ import'.clean = import.clean
          /\ UNCHANGED <<profiles, templates>>
          /\ import.step = "erase" /\ import'.step = "upsert"
          /\ import'.pending = import.pending
      BY <1>1, <2>5 DEF AllErased, Goto, SameSession, ImportState
    <3> QED BY <3>1, HalfStays DEF Preparing
  <2>6. CASE UpsertProfiles /\ import.doc.wellFormed
    <3>1. PICK t \in FreeIds :
             /\ import'.mode = import.mode /\ import'.step = "schedules"
             /\ import'.doc = import.doc /\ import'.was = import.was
             /\ import'.clean = import.clean
             /\ import'.pending.put = import.doc.profiles
             /\ import'.pending.gone = import.pending.gone \ import.doc.profiles
             /\ import'.pending.dropped = import.pending.dropped
             /\ import'.pending.added = [import.pending.added EXCEPT ![t] = import.doc.template]
             /\ UNCHANGED <<profiles, templates, schedules, inputs>>
      BY <2>6, UpsertMoves
    <3>2. SUFFICES ASSUME import.clean PROVE HalfInv'
      BY <3>1 DEF HalfInv
    <3>3. /\ Base(import, profiles, templates) /\ Base(import, Seen, SeenTemplates)
          /\ import.pending.put = {}
          /\ \A q \in TemplateIds : import.pending.added[q] = None
      BY <2>6, <3>2 DEF UpsertProfiles, HalfInv, Preparing
    <3>4. Seen' = Seen \union import.doc.profiles
      BY <3>1, <3>3 DEF Seen
    <3>5. /\ SeenTemplates \in Templates /\ t \in TemplateIds
          /\ \A q \in TemplateIds : SeenTemplates'[q] =
                IF q = t /\ import.doc.template # None THEN import.doc.template
                ELSE SeenTemplates[q]
      <4>1. t \in TemplateIds
        BY DEF FreeIds
      <4>2. \A q \in TemplateIds : import'.pending.added[q] =
               IF q = t THEN import.doc.template ELSE None
        BY <1>1, <3>1, <3>3, <4>1 DEF Session, Templates
      <4> QED BY <3>1, <3>3, <4>1, <4>2, SessionTyped DEF SeenTemplates, TypeOK
    <3>6. OnTop(import.doc, Seen', SeenTemplates', Seen, SeenTemplates)
      <4>1. CASE import.doc.template = None
        <5>1. SeenTemplates' = SeenTemplates
          BY <3>5, <4>1 DEF SeenTemplates
        <5> QED BY <3>4, <4>1, <5>1 DEF OnTop
      <4>2. CASE import.doc.template # None
        <5>1. SeenTemplates' = [SeenTemplates EXCEPT ![t] = import.doc.template]
          BY <3>5, <4>2 DEF SeenTemplates
        <5> QED BY <3>4, <3>5, <5>1 DEF OnTop
      <4> QED BY <4>1, <4>2
    <3>7. Complete(import, Seen', SeenTemplates')
      BY <3>3, <3>6 DEF Complete
    <3>8. SameSession
      BY <3>1 DEF SameSession
    <3>9. Complete(import', Seen', SeenTemplates') /\ Base(import', profiles', templates')
      BY <3>1, <3>3, <3>7, <3>8, SameBase
    <3> QED BY <3>1, <3>9 DEF HalfInv, Preparing, Applying, IsWhole
  <2>7. ASSUME RollBack, Running, UNCHANGED <<profiles, templates>>
        PROVE  HalfInv'
    BY <2>7, RolledBackIsWhole
  <2>8. CASE StoreSchedule
    <3>1. /\ SameSession /\ import'.clean = import.clean
          /\ UNCHANGED <<profiles, templates>>
          /\ Applying /\ Applying' /\ import'.pending = import.pending
      BY <1>1, <2>8 DEF StoreSchedule, SameSession, ImportState, Applying
    <3> QED BY <3>1, HalfStays
  <2>9. ASSUME Commit, Applying, SameSession, import'.clean = import.clean,
               import'.pending = NoChanges, import'.step \in {"schedules", "done"}
        PROVE  HalfInv'
    <3>1. SUFFICES ASSUME import.clean PROVE HalfInv'
      BY <2>9 DEF HalfInv
    <3>2. Complete(import, profiles', templates')
      BY <2>9, <3>1 DEF HalfInv, Commit
    <3>3. (Seen = profiles /\ SeenTemplates = templates)'
      BY <2>9 DEF Seen, SeenTemplates, NoChanges, TypeOK, ConfigTypeOK, Templates
    <3>4. Complete(import', profiles', templates') /\ Complete(import', Seen', SeenTemplates')
      BY <2>9, <3>2, <3>3, SameBase
    <3> QED BY <2>9, <3>4 DEF HalfInv, Preparing, Applying, IsWhole
  <2>10. CASE FinishImport
    BY <1>1, <2>9, <2>10 DEF FinishImport, Applying, SameSession, ImportState
  <2>11. CASE CommitSchedule /\ ~(import.step = "update" /\ ~IsUpdate)
    <3>1. import' = [import EXCEPT !.step = "schedules", !.todo = Tail(@),
                                   !.pending = NoChanges]
      BY <2>11 DEF CommitSchedule
    <3> QED BY <1>1, <2>9, <2>11, <3>1 DEF CommitSchedule, Applying, SameSession, ImportState
  <2>12. CASE CommitSchedule /\ import.step = "update" /\ ~IsUpdate
    BY <2>7, <2>12 DEF CommitSchedule, Running
  <2>13. CASE CommitSchedule
    BY <2>11, <2>12, <2>13
  <2>14. CASE RefuseSchedule
    BY <2>7, <2>14 DEF RefuseSchedule, Running
  <2>15. CASE ImportLost
    BY <2>7, <2>15 DEF ImportLost
  <2>16. CASE UpsertProfiles /\ ~import.doc.wellFormed
    BY <2>7, <2>16 DEF UpsertProfiles, Running
  <2>17. CASE UpsertProfiles
    BY <2>6, <2>16, <2>17
  <2> QED BY <1>5, <2>1, <2>2, <2>3, <2>4, <2>5, <2>8, <2>10, <2>13, <2>14, <2>15, <2>17
       DEF ImportNext
<1> QED BY <1>3, <1>4, <1>5, Sides DEF AdministratorStep

\* An import that failed at whatever step leaves the configuration as it
\* was, emptied by replace, or complete on top of either.
THEOREM ImportsAreWhole == Spec => []NoHalfConfiguration
<1>1. Init => HalfInv
  BY DEF Init, ConfigInit, NoImport, HalfInv, Preparing, Applying
<1>2. TypeOK /\ HalfInv => NoHalfConfiguration
  <2> SUFFICES ASSUME HalfInv, import.step = "done", import.clean, IsWhole
               PROVE  \E base \in {import.was}
                            \union (IF import.mode = "replace" THEN {Emptied} ELSE {}) :
                         \/ profiles = base.profiles /\ templates = base.templates
                         \/ Completes(base)
    BY DEF HalfInv, NoHalfConfiguration
  <2>1. ASSUME NEW p, NEW t, Base(import, p, t)
        PROVE  \E base \in {import.was}
                     \union (IF import.mode = "replace" THEN {Emptied} ELSE {}) :
                  p = base.profiles /\ t = base.templates
    <3>1. CASE p = import.was.profiles /\ t = import.was.templates
      BY <3>1
    <3>2. CASE import.mode = "replace" /\ p = Emptied.profiles /\ t = Emptied.templates
      BY <3>2
    <3> QED BY <2>1, <3>1, <3>2 DEF Base, Emptied
  <2>2. CASE Base(import, profiles, templates)
    BY <2>1, <2>2
  <2>3. ASSUME NEW p0, NEW t0, Base(import, p0, t0),
               OnTop(import.doc, profiles, templates, p0, t0)
        PROVE  \E base \in {import.was}
                     \union (IF import.mode = "replace" THEN {Emptied} ELSE {}) : Completes(base)
    BY <2>1, <2>3 DEF OnTop, Completes
  <2> QED BY <2>2, <2>3 DEF IsWhole, Complete
<1> QED BY <1>1, <1>2, HalfStep, TypeCorrect, PTL DEF Spec

-----------------------------------------------------------------------------
(* Secrets, as long as nothing failed and no schedule request overlapped   *)
(* an import: a schedule that nobody is working on has its stored input,   *)
(* and shows as masked what is stored.                                     *)

Quiet == faults = 0 /\ ~overlapped

Matches(s) == /\ schedules[s] # None <=> inputs[s] # None
              /\ schedules[s] # None => schedules[s].masked = (inputs[s] \in Secrets)

AtRow == import.step \in {"insert", "update"}

\* Its input is being stored or erased, the row comes next or went before.
BeingWritten(s) ==
    \/ editor # None /\ editor.s = s
    \/ import.step = "erase" /\ s \in import.ids
    \/ AtRow /\ s = Entry.id

SecretInv ==
    Quiet =>
        /\ Running => editor = None
        /\ \A s \in ScheduleIds : BeingWritten(s) \/ Matches(s)
        /\ EditorAt("insert") => inputs[editor.s] = editor.secret
        /\ EditorAt("delete") => inputs[editor.s] = None
        /\ import.step = "wipe" => import.ids = Scheduled
        /\ import.step = "erase" => Scheduled = {}
        /\ AtRow => /\ inputs[Entry.id] # None
                    /\ inputs[Entry.id] = MergeMaskedSecure(Entry.secure, import.kept)
        /\ import.step = "update" => IsUpdate

\* Steps that write no schedule and leave none half written.
LEMMA SecretsStay ==
    ASSUME TypeOK, SecretInv, Quiet, UNCHANGED <<schedules, inputs, editor>>,
           ~AtRow, import.step = "erase" => import.ids = {},
           import'.step \in {"none", "done", "select", "upsert", "schedules"},
           Running' => editor = None
    PROVE  SecretInv'
<1>1. \A s \in ScheduleIds : BeingWritten(s) => editor # None /\ editor.s = s
  BY DEF BeingWritten
<1>2. \A s \in ScheduleIds : BeingWritten(s)' \/ Matches(s)'
  BY <1>1 DEF SecretInv, BeingWritten, Matches
<1> QED BY <1>2 DEF SecretInv, EditorAt, AtRow

\* The same step of the import before and after.
LEMMA SecretsKept ==
    ASSUME TypeOK, SecretInv, Quiet, UNCHANGED <<schedules, inputs, editor>>,
           import'.step = import.step, import'.ids = import.ids,
           import'.todo = import.todo, import'.kept = import.kept
    PROVE  SecretInv'
<1>1. /\ AtRow' <=> AtRow
      /\ Running' <=> Running
      /\ Entry' = Entry /\ Scheduled' = Scheduled /\ (IsUpdate' <=> IsUpdate)
  BY DEF AtRow, Running, Entry, Scheduled, IsUpdate
<1>2. \A s \in ScheduleIds : BeingWritten(s)' \/ Matches(s)'
  BY <1>1 DEF SecretInv, BeingWritten, Matches
<1> QED BY <1>1, <1>2 DEF SecretInv, EditorAt

LEMMA RowIsThere ==
    ASSUME NEW secret \in Secrets \union {NoSecret}
    PROVE  /\ ScheduleRow(secret) # None
           /\ ScheduleRow(secret).masked = (secret \in Secrets)
<1>1. ScheduleRow(secret) \in ScheduleRows
  BY DEF ScheduleRow, ScheduleRows
<1> QED BY <1>1, NoneAssumption, SecretAssumption DEF ScheduleRow

LEMMA AdministratorsKeepSecrets ==
    ASSUME TypeOK, SecretInv, Quiet, Quiet', AdministratorNext
    PROVE  SecretInv'
<1>1. import \in ImportState /\ editor \in EditorState \union {None}
  BY DEF TypeOK, ConfigTypeOK
<1>2. ASSUME Disturb, UNCHANGED <<schedules, inputs, editor>> PROVE SecretInv'
  <2>1. CASE Running
    BY <1>1, <1>2, <2>1, SecretsKept DEF Disturb, ImportState
  <2>2. CASE ~Running
    BY <1>2, <2>2, SecretsStay DEF Disturb, NoImport, Running, AtRow
  <2> QED BY <2>1, <2>2
<1>3. ASSUME NEW step \in {"store", "erase"}, NEW s \in ScheduleIds, NEW secret,
             EditorBegin(step, s, secret)
      PROVE  SecretInv'
  <2>1. ~Running /\ import' = NoImport
    BY <1>3 DEF EditorBegin, Forget, Quiet
  <2>2. editor = None /\ editor' = [step |-> step, s |-> s, secret |-> secret]
        /\ UNCHANGED <<schedules, inputs>>
    BY <1>3 DEF EditorBegin
  <2>3. import'.step = "none" /\ import.step \in {"none", "done"}
    BY <2>1 DEF NoImport, Running
  <2>4. \A q \in ScheduleIds : ~BeingWritten(q)
    BY <2>2, <2>3 DEF BeingWritten, AtRow
  <2>5. \A q \in ScheduleIds : Matches(q)'
    BY <2>2, <2>4 DEF SecretInv, Matches
  <2> QED BY <2>2, <2>3, <2>5 DEF SecretInv, EditorAt, AtRow, Running
<1>4. ASSUME editor # None, import' = import
      PROVE  /\ import'.step \in {"none", "done"} /\ import.step \in {"none", "done"}
             /\ \A s \in ScheduleIds : editor.s # s => Matches(s)
  BY <1>4 DEF SecretInv, Running, BeingWritten, AtRow
<1>5. CASE EditorObject
  <2>1. editor # None /\ editor \in EditorState /\ import' = import
    BY <1>1, <1>5 DEF EditorObject, EditorAt
  <2>2. /\ editor' # None
        /\ editor'.s = editor.s /\ editor'.secret = editor.secret
        /\ editor'.step = IF editor.step = "store" THEN "insert" ELSE "delete"
    <3>1. editor' = [editor EXCEPT !.step = IF @ = "store" THEN "insert" ELSE "delete"]
      BY <1>5 DEF EditorObject
    <3>2. editor' \in EditorState
      BY <2>1, <3>1 DEF EditorState
    <3> QED BY <2>1, <3>1, <3>2, NoneAssumption DEF EditorState
  <2>3. /\ inputs'[editor.s] = IF editor.step = "store" THEN editor.secret ELSE None
        /\ \A s \in ScheduleIds : editor.s # s => inputs'[s] = inputs[s]
        /\ schedules' = schedules
    BY <1>5, <2>1 DEF EditorObject, EditorState, TypeOK, ConfigTypeOK
  <2>4. \A s \in ScheduleIds : BeingWritten(s)' \/ Matches(s)'
    BY <1>4, <2>1, <2>2, <2>3 DEF BeingWritten, Matches
  <2> QED BY <1>4, <2>1, <2>2, <2>3, <2>4 DEF SecretInv, EditorAt, AtRow, Running
<1>6. CASE EditorCommit
  <2>1. editor # None /\ editor \in EditorState /\ import' = import /\ editor' = None
        /\ inputs' = inputs
    BY <1>1, <1>6 DEF EditorCommit, EditorAt
  <2>2. PICK e \in ScheduleIds : e = editor.s
    BY <2>1 DEF EditorState
  <2>3. \A s \in ScheduleIds : e # s => Matches(s)'
    BY <1>4, <1>6, <2>1, <2>2 DEF EditorCommit, Matches
  <2>4. Matches(e)'
    <3>1. CASE EditorAt("insert")
      <4>1. inputs[e] = editor.secret /\ schedules'[e] = ScheduleRow(editor.secret)
        BY <1>6, <2>2, <3>1 DEF EditorCommit, EditorAt, SecretInv, TypeOK, ConfigTypeOK
      <4>2. editor.secret \in Secrets \union {NoSecret}
        BY <2>1 DEF EditorState
      <4> QED BY <2>1, <4>1, <4>2, RowIsThere, NoneAssumption DEF Matches
    <3>2. CASE EditorAt("delete")
      <4>1. inputs[e] = None /\ schedules'[e] = None
        BY <1>6, <2>2, <3>2 DEF EditorCommit, EditorAt, SecretInv, TypeOK, ConfigTypeOK
      <4> QED BY <2>1, <4>1 DEF Matches
    <3> QED BY <1>6, <3>1, <3>2 DEF EditorCommit
  <2>5. \A s \in ScheduleIds : Matches(s)'
    BY <2>3, <2>4
  <2> QED BY <1>4, <2>1, <2>5 DEF SecretInv, EditorAt, AtRow, Running
<1>7. CASE EditorLost
  BY <1>7, ConfigAssumption DEF EditorLost, Fault, Quiet, TypeOK, ConfigTypeOK
<1> QED BY <1>2, <1>3, <1>5, <1>6, <1>7 DEF AdministratorNext, CreateProfile, DeleteProfile,
           CreateTemplate, DeleteTemplate, othersOfProfiles, ScheduleCreate, ScheduleDelete

LEMMA ImportsKeepSecrets ==
    ASSUME TypeOK, TypeOK', SecretInv, Quiet, Quiet', ImportNext
    PROVE  SecretInv'
<1>1. import \in ImportState
  BY DEF TypeOK, ConfigTypeOK
<1>2. ASSUME RollBack \/ Goto("upsert") PROVE import'.step \in {"done", "upsert"}
  BY <1>1, <1>2 DEF RollBack, Goto, ImportState
<1>3. ASSUME Running PROVE editor = None
  BY <1>3 DEF SecretInv
<1>4. CASE \E doc \in Documents, mode \in {"merge", "replace"} : ImportBegin(doc, mode)
  <2>1. ~Running /\ UNCHANGED <<schedules, inputs, editor>> /\ editor = None
        /\ import'.step \in {"select", "upsert"}
    BY <1>4 DEF ImportBegin, NoImport, Quiet
  <2> QED BY <2>1, SecretsStay DEF Running, AtRow
<1>5. CASE SelectSchedules
  <2>1. /\ import.step = "select" /\ UNCHANGED <<schedules, inputs, editor>> /\ editor = None
        /\ import'.step \in {"upsert", "wipe"}
        /\ import'.ids = Scheduled
    BY <1>1, <1>3, <1>5 DEF SelectSchedules, Running, ImportState
  <2>2. CASE import'.step = "upsert"
    BY <2>1, <2>2, SecretsStay DEF AtRow
  <2>3. CASE import'.step = "wipe"
    <3>1. \A s \in ScheduleIds : Matches(s)'
      BY <2>1 DEF SecretInv, BeingWritten, AtRow, Matches
    <3>2. Scheduled' = Scheduled
      BY <2>1 DEF Scheduled
    <3> QED BY <2>1, <2>3, <3>1, <3>2 DEF SecretInv, EditorAt, AtRow
  <2> QED BY <2>1, <2>2, <2>3
<1>6. CASE WipeSchedules
  <2>1. /\ import.step = "wipe" /\ UNCHANGED <<inputs, editor>> /\ editor = None
        /\ import'.step = "erase" /\ import'.ids = import.ids
        /\ \A s \in ScheduleIds : schedules'[s] = None
    BY <1>1, <1>3, <1>6 DEF WipeSchedules, Running, ImportState
  <2>2. import.ids = Scheduled /\ \A s \in ScheduleIds : Matches(s)
    BY <2>1 DEF SecretInv, BeingWritten, AtRow
  <2>3. \A s \in ScheduleIds : BeingWritten(s)' \/ Matches(s)'
    BY <2>1, <2>2 DEF BeingWritten, Matches, Scheduled
  <2>4. Scheduled' = {}
    BY <2>1 DEF Scheduled
  <2> QED BY <2>1, <2>3, <2>4 DEF SecretInv, EditorAt, AtRow
<1>7. ASSUME NEW s \in ScheduleIds, EraseInput(s) PROVE SecretInv'
  <2>1. /\ import.step = "erase" /\ UNCHANGED <<schedules, editor>> /\ editor = None
        /\ import'.step = "erase" /\ import'.ids = import.ids \ {s}
    BY <1>1, <1>3, <1>7 DEF EraseInput, Running, ImportState
  <2>2. inputs' = [inputs EXCEPT ![s] = None]
    BY <1>7 DEF EraseInput, Fault, Quiet, TypeOK, ConfigTypeOK
  <2>3. Scheduled = {} /\ Scheduled' = {}
    BY <2>1 DEF SecretInv, Scheduled
  <2>4. \A q \in ScheduleIds : BeingWritten(q)' \/ Matches(q)'
    <3>1. Matches(s)'
      BY <2>1, <2>2, <2>3 DEF Matches, Scheduled, TypeOK, ConfigTypeOK
    <3>2. ASSUME NEW q \in ScheduleIds, q # s PROVE BeingWritten(q)' \/ Matches(q)'
      <4>1. inputs'[q] = inputs[q]
        BY <2>2, <3>2 DEF TypeOK, ConfigTypeOK
      <4>2. BeingWritten(q) \/ Matches(q)
        BY DEF SecretInv
      <4> QED BY <2>1, <3>2, <4>1, <4>2 DEF BeingWritten, Matches, AtRow
    <3> QED BY <3>1, <3>2
  <2> QED BY <2>1, <2>3, <2>4 DEF SecretInv, EditorAt, AtRow
<1>8. CASE AllErased
  BY <1>2, <1>3, <1>8, SecretsStay DEF AllErased, AtRow, Running
<1>9. CASE UpsertProfiles
  <2>1. import'.step \in {"done", "schedules"}
    BY <1>1, <1>9 DEF UpsertProfiles, RollBack, ImportState, Session
  <2> QED BY <1>3, <1>9, <2>1, SecretsStay DEF UpsertProfiles, AtRow, Running
<1>10. CASE RefuseSchedule
  BY <1>2, <1>3, <1>10, SecretsStay DEF RefuseSchedule, AtRow, Running
<1>11. CASE StoreSchedule
  <2>1. /\ import.step = "schedules" /\ UNCHANGED <<schedules, editor>> /\ editor = None
        /\ import'.step = (IF IsUpdate THEN "update" ELSE "insert")
        /\ import'.todo = import.todo /\ import'.kept = Stored
    BY <1>1, <1>3, <1>11 DEF StoreSchedule, Running, ImportState
  <2>2. Entry \in Entries /\ Entry' = Entry /\ (IsUpdate' <=> IsUpdate)
    BY <1>11, <2>1, EntryTyped DEF StoreSchedule, Entry, IsUpdate, TypeOK
  <2>3. /\ inputs'[Entry.id] = MergeMaskedSecure(Entry.secure, Stored)
        /\ MergeMaskedSecure(Entry.secure, Stored) # None
        /\ \A s \in ScheduleIds : s # Entry.id => inputs'[s] = inputs[s]
    BY <1>11, <2>2 DEF StoreSchedule, Acceptable, Entries, TypeOK, ConfigTypeOK
  <2>4. \A s \in ScheduleIds : BeingWritten(s)' \/ Matches(s)'
    BY <2>1, <2>2, <2>3 DEF SecretInv, BeingWritten, Matches, AtRow
  <2>5. MergeMaskedSecure(Entry, import.kept)' = MergeMaskedSecure(Entry', import'.kept)
    BY DEF MergeMaskedSecure
  <2> QED BY <2>1, <2>2, <2>3, <2>4, <2>5 DEF SecretInv, EditorAt, AtRow, MergeMaskedSecure
<1>12. CASE CommitSchedule
  <2>1. AtRow /\ editor = None
    BY <1>3, <1>12 DEF CommitSchedule, AtRow, Running
  <2>2. /\ inputs[Entry.id] # None
        /\ inputs[Entry.id] = MergeMaskedSecure(Entry.secure, import.kept)
        /\ import.step = "update" => IsUpdate
    BY <2>1 DEF SecretInv
  <2>3. /\ import' = [import EXCEPT !.step = "schedules", !.todo = Tail(@),
                                    !.pending = NoChanges]
        /\ schedules' = [schedules EXCEPT ![Entry.id] = ScheduleRow(inputs[Entry.id])]
        /\ UNCHANGED <<inputs, editor>>
    BY <1>12, <2>2 DEF CommitSchedule
  <2>4. PICK e \in ScheduleIds : e = Entry.id
    BY <2>1, EntryTyped DEF TypeOK, AtRow, Entries
  <2>5. import'.step = "schedules"
    BY <1>1, <2>3 DEF ImportState
  <2>6. Matches(e)'
    <3>1. schedules'[e] = ScheduleRow(inputs[e])
      BY <2>3, <2>4 DEF TypeOK, ConfigTypeOK
    <3>2. inputs[e] \in Secrets \union {NoSecret}
      BY <2>2, <2>4 DEF TypeOK, ConfigTypeOK
    <3> QED BY <2>2, <2>3, <2>4, <3>1, <3>2, RowIsThere DEF Matches
  <2>7. ASSUME NEW s \in ScheduleIds, s # e PROVE Matches(s)'
    <3>1. Matches(s)
      BY <2>1, <2>4, <2>7 DEF SecretInv, BeingWritten, AtRow
    <3> QED BY <2>3, <2>4, <2>7, <3>1 DEF Matches, TypeOK, ConfigTypeOK
  <2>8. \A s \in ScheduleIds : Matches(s)'
    BY <2>6, <2>7
  <2> QED BY <2>1, <2>3, <2>5, <2>8 DEF SecretInv, EditorAt, AtRow
<1>13. CASE FinishImport
  <2>1. import'.step = "done"
    BY <1>1, <1>13 DEF FinishImport, ImportState
  <2> QED BY <1>3, <1>13, <2>1, SecretsStay DEF FinishImport, AtRow, Running
<1>14. CASE ImportLost
  BY <1>14, ConfigAssumption DEF ImportLost, Fault, Quiet, TypeOK, ConfigTypeOK
<1> QED BY <1>4, <1>5, <1>6, <1>7, <1>8, <1>9, <1>10, <1>11, <1>12, <1>13, <1>14 DEF ImportNext

\* What is not quiet stays so.
LEMMA QuietBefore ==
    ASSUME TypeOK, [Next]_vars, Quiet'
    PROVE  Quiet
<1> USE ConfigAssumption DEF Fault, Quiet, TypeOK, ConfigTypeOK
<1>1. CASE AdministratorNext
  BY <1>1 DEF AdministratorNext, CreateProfile, DeleteProfile, CreateTemplate,
     DeleteTemplate, othersOfProfiles, ScheduleCreate, ScheduleDelete, EditorBegin,
     EditorObject, EditorCommit, EditorLost
<1>2. CASE ImportNext
  <2>1. CASE \E doc \in Documents, mode \in {"merge", "replace"} : ImportBegin(doc, mode)
    BY <2>1 DEF ImportBegin
  <2>2. CASE \E s \in ScheduleIds : EraseInput(s)
    BY <2>2 DEF EraseInput
  <2>3. CASE SelectSchedules \/ WipeSchedules \/ AllErased
    BY <2>3 DEF SelectSchedules, WipeSchedules, AllErased
  <2>4. CASE UpsertProfiles \/ RefuseSchedule \/ StoreSchedule
    BY <2>4 DEF UpsertProfiles, RefuseSchedule, StoreSchedule
  <2>5. CASE CommitSchedule \/ FinishImport \/ ImportLost
    BY <2>5 DEF CommitSchedule, FinishImport, ImportLost
  <2> QED BY <1>2, <2>1, <2>2, <2>3, <2>4, <2>5 DEF ImportNext
<1>3. CASE FormStays \/ UNCHANGED configVars
  BY <1>3 DEF FormStays, configVars
<1> QED BY <1>1, <1>2, <1>3, Sides DEF AdministratorStep

LEMMA SecretStep ==
    ASSUME TypeOK, TypeOK', SecretInv, [Next]_vars
    PROVE  SecretInv'
<1> SUFFICES ASSUME Quiet', Quiet PROVE SecretInv'
  BY QuietBefore DEF SecretInv
<1>1. CASE FormStays \/ UNCHANGED configVars
  <2>1. UNCHANGED <<schedules, inputs, editor>> /\ import' \in {import, NoImport}
    BY <1>1 DEF FormStays, Forget, configVars
  <2>2. CASE import' = import
    BY <2>1, <2>2, SecretsKept
  <2>3. CASE import' = NoImport /\ ~Running
    BY <2>1, <2>3, SecretsStay DEF NoImport, Running, AtRow
  <2> QED BY <1>1, <2>2, <2>3 DEF FormStays, Forget, configVars
<1> QED BY <1>1, Sides, AdministratorsKeepSecrets, ImportsKeepSecrets DEF AdministratorStep

LEMMA SecretInvariant == Spec => []SecretInv
<1>1. Init => SecretInv
  BY DEF Init, ConfigInit, NoImport, SecretInv, Running, EditorAt, AtRow, BeingWritten, Matches
<1> QED BY <1>1, SecretStep, TypeCorrect, PTL DEF Spec

\* What a schedule shows as masked is stored, and the placeholder is never
\* stored in place of a secret, through any sequence of imports and edits.
THEOREM MaskedIsStored == Spec => []SecretsAreReal
<1>1. SecretInv => SecretsAreReal
  BY DEF SecretsAreReal, SecretInv, Quiet, BeingWritten, Matches, Running, AtRow
<1> QED BY <1>1, SecretInvariant, PTL

\* No stored input outlives its schedule when an import replaces it.
THEOREM NothingIsLeftBehind == Spec => []NoSecretLeft
<1>1. SecretInv => NoSecretLeft
  BY DEF NoSecretLeft, SecretInv, Quiet, BeingWritten, Matches, Running, AtRow
<1> QED BY <1>1, SecretInvariant, PTL

-----------------------------------------------------------------------------
(* Forms, for any templates and any input.                                 *)

NamesOf(contract) == {f.name : f \in FieldsOf(contract)}
Fixed(f) == f.hidden \/ f.readonly

\* An open form has the fields of a template that is still the same if it is
\* there at all, values of those fields only, where a field without a value
\* has no default either, and its fixed fields as FixedFieldsStay says.
FormInv ==
    form # None =>
        /\ form = [template |-> form.template, fields |-> form.fields,
                   values |-> form.values, loading |-> form.loading,
                   options |-> form.options]
        /\ \E row \in TemplateRows : form.fields = FromDocument(row.declarative_spec)
        /\ \/ templates[form.template] = None
           \/ FromDocument(templates[form.template].declarative_spec) = form.fields
        /\ DOMAIN form.values \subseteq NamesOf(form.fields)
        /\ \A f \in FieldsOf(form.fields) :
              f.name \notin DOMAIN form.values => f.value = Null
        /\ \A n \in form.loading :
              /\ n \in DOMAIN form.options /\ form.options[n] = NoOptions
              /\ \E f \in FieldsOf(form.fields) : f.name = n /\ UsesDynamicSelect(f)
        /\ \A f \in FieldsOf(form.fields) : Fixed(f) => AsOpened(f) \/ ByOptions(f)

\* A name of a contract means one field.
LEMMA NamesAreUnique ==
    ASSUME NEW row \in TemplateRows,
           NEW f \in FieldsOf(FromDocument(row.declarative_spec)),
           NEW g \in FieldsOf(FromDocument(row.declarative_spec)), f.name = g.name
    PROVE  f = g
<1> DEFINE spec == row.declarative_spec
<1>1. PICK i \in DOMAIN spec : f = BuildField(spec[i])
  BY DEF FieldsOf, FromDocument
<1>2. PICK j \in DOMAIN spec : g = BuildField(spec[j])
  BY DEF FieldsOf, FromDocument
<1>3. spec[i].name = spec[j].name
  BY <1>1, <1>2 DEF BuildField
<1>4. i = j
  BY <1>3, TemplateAssumption
<1> QED BY <1>1, <1>2, <1>4

\* A step that leaves all fields but one alone keeps the invariant if it is
\* right about that one.
LEMMA OneFieldChanges ==
    ASSUME FormInv, form # None, NEW name,
           form' = [template |-> form.template, fields |-> form.fields,
                    values |-> form'.values, loading |-> form'.loading,
                    options |-> form'.options],
           templates' = templates,
           name \in NamesOf(form.fields),
           DOMAIN form.values \subseteq DOMAIN form'.values,
           DOMAIN form'.values \subseteq DOMAIN form.values \union {name},
           \A n \in DOMAIN form.values \ {name} : form'.values[n] = form.values[n],
           form'.loading \subseteq form.loading,
           form.loading \subseteq form'.loading \union {name},
           DOMAIN form'.options = DOMAIN form.options,
           \A n : n # name \/ n \in form'.loading => form'.options[n] = form.options[n],
           \A f \in FieldsOf(form.fields) :
              f.name = name /\ Fixed(f) => AsOpened(f)' \/ ByOptions(f)'
    PROVE  FormInv'
<1>1. form'.template = form.template /\ form'.fields = form.fields
  OBVIOUS
<1>2. \A f \in FieldsOf(form.fields) : f.name # name /\ Fixed(f) => AsOpened(f)' \/ ByOptions(f)'
  <2> SUFFICES ASSUME NEW f \in FieldsOf(form.fields), f.name # name, Fixed(f)
               PROVE  AsOpened(f)' \/ ByOptions(f)'
    OBVIOUS
  <2>1. (f.name \in DOMAIN form'.values) <=> (f.name \in DOMAIN form.values)
    OBVIOUS
  <2>2. f.name \in DOMAIN form.values => form'.values[f.name] = form.values[f.name]
    OBVIOUS
  <2>3. form'.options[f.name] = form.options[f.name]
    OBVIOUS
  <2>4. (f.name \in form'.loading) <=> (f.name \in form.loading)
    OBVIOUS
  <2>5. CASE AsOpened(f)
    BY <2>1, <2>2, <2>5 DEF AsOpened
  <2>6. CASE ByOptions(f)
    BY <2>1, <2>2, <2>3, <2>4, <2>6 DEF ByOptions
  <2> QED BY <2>5, <2>6 DEF FormInv
<1>3. \A f \in FieldsOf(form.fields) : Fixed(f) => AsOpened(f)' \/ ByOptions(f)'
  BY <1>2
<1>4. DOMAIN form'.values \subseteq NamesOf(form.fields)
  BY DEF FormInv
<1>5. \A f \in FieldsOf(form.fields) : f.name \notin DOMAIN form'.values => f.value = Null
  BY DEF FormInv
<1>6. \A n \in form'.loading :
         /\ n \in DOMAIN form'.options /\ form'.options[n] = NoOptions
         /\ \E f \in FieldsOf(form.fields) : f.name = n /\ UsesDynamicSelect(f)
  BY DEF FormInv
<1> QED BY <1>1, <1>3, <1>4, <1>5, <1>6 DEF FormInv

\* The answer to a fetch: the values and options it leaves are those of a
\* field whose value was among the options, or was replaced by one of them.
LEMMA OptionsStep ==
    ASSUME FormInv, form # None, NEW name \in form.loading, NEW options,
           NEW values \in WithOptions(name, options),
           form' = [template |-> form.template, fields |-> form.fields, values |-> values,
                    loading |-> form.loading \ {name},
                    options |-> [form.options EXCEPT ![name] = options]],
           templates' = templates
    PROVE  FormInv'
<1>1. /\ form'.values = values /\ form'.loading = form.loading \ {name}
      /\ form'.options = [form.options EXCEPT ![name] = options]
      /\ form'.fields = form.fields
  OBVIOUS
<1>2. /\ name \in DOMAIN form.options
      /\ \E g \in FieldsOf(form.fields) : g.name = name /\ UsesDynamicSelect(g)
  BY DEF FormInv
<1>3. PICK row \in TemplateRows : form.fields = FromDocument(row.declarative_spec)
  BY DEF FormInv
<1>4. \/ values = form.values /\ name \in DOMAIN form.values /\ form.values[name] \in options
      \/ values = form.values /\ IsEmptyValue(name) /\ options = NoOptions
      \/ \E value : /\ values = Put(name, value)
                    /\ name \in DOMAIN form.values => form.values[name] \notin options
                    /\ value \in IF options = NoOptions THEN {""} ELSE options
  BY DEF WithOptions, Cleared, NoOptions
<1>5. /\ DOMAIN form.values \subseteq DOMAIN values
      /\ DOMAIN values \subseteq DOMAIN form.values \union {name}
      /\ \A n \in DOMAIN form.values \ {name} : values[n] = form.values[n]
  <2>1. CASE values = form.values
    BY <2>1
  <2>2. CASE \E value : values = Put(name, value)
    <3>1. PICK value : values = Put(name, value)
      BY <2>2
    <3> QED BY <3>1 DEF Put
  <2> QED BY <1>4, <2>1, <2>2
<1>6. ASSUME NEW f \in FieldsOf(form.fields), f.name = name, Fixed(f)
      PROVE  AsOpened(f)' \/ ByOptions(f)'
  <2>1. UsesDynamicSelect(f)
    BY <1>2, <1>3, <1>6, NamesAreUnique
  <2>2. AsOpened(f)
    BY <1>6 DEF FormInv, ByOptions
  <2>3. CASE values = form.values
    BY <1>1, <2>2, <2>3 DEF AsOpened
  <2>4. ASSUME NEW value, values = Put(name, value),
               name \in DOMAIN form.values => form.values[name] \notin options,
               value \in IF options = NoOptions THEN {""} ELSE options
        PROVE  ByOptions(f)'
    <3>1. name \in DOMAIN values /\ values[name] = value
      BY <2>4 DEF Put
    <3>2. form'.options[name] = options /\ name \notin form'.loading
      BY <1>1, <1>2
    <3>3. HasInitial(f) => Initial(f) \notin options
      BY <1>6, <2>2, <2>4 DEF AsOpened
    <3> QED BY <1>1, <1>6, <2>1, <2>4, <3>1, <3>2, <3>3 DEF ByOptions
  <2>5. CASE \E value : /\ values = Put(name, value)
                        /\ name \in DOMAIN form.values => form.values[name] \notin options
                        /\ value \in IF options = NoOptions THEN {""} ELSE options
    <3>1. PICK value : /\ values = Put(name, value)
                       /\ name \in DOMAIN form.values => form.values[name] \notin options
                       /\ value \in IF options = NoOptions THEN {""} ELSE options
      BY <2>5
    <3> QED BY <2>4, <3>1
  <2> QED BY <1>4, <2>3, <2>5
<1>7. name \in NamesOf(form.fields)
  BY <1>2 DEF NamesOf
<1>8. DOMAIN form'.options = DOMAIN form.options
  BY <1>1
<1>9. \A n : n # name \/ n \in form'.loading => form'.options[n] = form.options[n]
  BY <1>1
<1> HIDE DEF NamesOf
<1> QED BY <1>1, <1>5, <1>6, <1>7, <1>8, <1>9, OneFieldChanges

LEMMA FormStep ==
    ASSUME TypeOK, FormInv, [Next]_vars
    PROVE  FormInv'
<1>1. ASSUME form' = form, GoneForGood \/ templates' = templates PROVE FormInv'
  <2>1. form # None => templates'[form.template] \in {templates[form.template], None}
    BY <1>1 DEF GoneForGood
  <2> QED BY <1>1, <2>1 DEF FormInv, AsOpened, ByOptions
<1>2. ASSUME form' = None PROVE FormInv'
  BY <1>2 DEF FormInv
<1>3. ASSUME NEW t \in TemplateIds, OpenForm(t) PROVE FormInv'
  <2> DEFINE fields == FromDocument(templates[t].declarative_spec)
             field(n) == CHOOSE f \in FieldsOf(fields) : f.name = n
             valued == {f.name : f \in {g \in FieldsOf(fields) : HasInitial(g)}}
             dynamic == {f.name : f \in {g \in FieldsOf(fields) : UsesDynamicSelect(g)}}
  <2>1. /\ form'.template = t /\ form'.fields = fields
        /\ form'.values = [n \in valued |-> Initial(field(n))]
        /\ form'.loading = dynamic
        /\ form'.options = [n \in dynamic |-> NoOptions]
        /\ form' = [template |-> form'.template, fields |-> form'.fields,
                    values |-> form'.values, loading |-> form'.loading,
                    options |-> form'.options]
    BY <1>3 DEF OpenForm
  <2>2. templates[t] \in TemplateRows /\ templates' = templates
    BY <1>3 DEF OpenForm, ConfigStays, TypeOK, ConfigTypeOK, Templates
  <2>3. \A f \in FieldsOf(fields) : field(f.name) = f
    BY <2>2, NamesAreUnique
  <2>4. \A f \in FieldsOf(fields) : f.name \in valued <=> HasInitial(f)
    BY <2>2, NamesAreUnique
  <2>5. \A n \in dynamic :
           /\ n \in DOMAIN form'.options /\ form'.options[n] = NoOptions
           /\ \E f \in FieldsOf(fields) : f.name = n /\ UsesDynamicSelect(f)
    BY <2>1
  <2>6. valued \subseteq NamesOf(fields)
    BY DEF NamesOf
  <2>7. \E row \in TemplateRows : fields = FromDocument(row.declarative_spec)
    BY <2>2
  <2>8. FromDocument(templates'[form'.template].declarative_spec) = form'.fields
    BY <2>1, <2>2
  <2> HIDE DEF fields, field, valued, dynamic
  <2>9. DOMAIN form'.values = valued
    BY <2>1
  <2>10. \A f \in FieldsOf(fields) : f.name \notin valued => f.value = Null
    BY <2>4 DEF HasInitial
  <2>11. \A f \in FieldsOf(fields) : AsOpened(f)'
    BY <2>1, <2>3, <2>4, <2>9 DEF AsOpened
  <2> QED BY <2>1, <2>5, <2>6, <2>7, <2>8, <2>9, <2>10, <2>11 DEF FormInv
<1>4. ASSUME NEW name, OptionsArrive(name) \/ OptionsFail(name) PROVE FormInv'
  <2>1. form # None /\ name \in form.loading /\ templates' = templates
    BY <1>4 DEF OptionsArrive, OptionsFail, ConfigStays
  <2>2. form = [template |-> form.template, fields |-> form.fields,
                values |-> form.values, loading |-> form.loading, options |-> form.options]
    BY <2>1 DEF FormInv
  <2>3. CASE OptionsArrive(name)
    <3>1. PICK values \in WithOptions(name, profiles) :
             form' = [form EXCEPT !.values = values, !.loading = @ \ {name},
                                  !.options[name] = profiles]
      BY <2>3 DEF OptionsArrive
    <3>2. form' = [template |-> form.template, fields |-> form.fields, values |-> values,
                   loading |-> form.loading \ {name},
                   options |-> [form.options EXCEPT ![name] = profiles]]
      BY <2>2, <3>1
    <3> QED BY <2>1, <3>2, OptionsStep
  <2>4. CASE OptionsFail(name)
    <3>1. form' = [template |-> form.template, fields |-> form.fields,
                   values |-> Cleared(name), loading |-> form.loading \ {name},
                   options |-> [form.options EXCEPT ![name] = NoOptions]]
      BY <2>2, <2>4 DEF OptionsFail
    <3>2. Cleared(name) \in WithOptions(name, NoOptions)
      BY DEF WithOptions, NoOptions
    <3> QED BY <2>1, <3>1, <3>2, OptionsStep
  <2> QED BY <1>4, <2>3, <2>4
<1>5. ASSUME NEW name, NEW value, EditField(name, value) PROVE FormInv'
  <2>1. form # None /\ name \in NamesOf(form.fields) /\ templates' = templates
    BY <1>5 DEF EditField, ConfigStays, NamesOf
  <2>2. Field(name) \in FieldsOf(form.fields) /\ Field(name).name = name
    BY <2>1 DEF Field, NamesOf
  <2>3. ~Fixed(Field(name))
    BY <1>5 DEF EditField, Editable, UiVisible, Fixed
  <2>4. PICK row \in TemplateRows : form.fields = FromDocument(row.declarative_spec)
    BY <2>1 DEF FormInv
  <2>5. \A f \in FieldsOf(form.fields) : Fixed(f) => f.name # name
    BY <2>2, <2>3, <2>4, NamesAreUnique
  <2>6. form' = [template |-> form.template, fields |-> form.fields,
                 values |-> Put(name, value),
                 loading |-> form.loading, options |-> form.options]
    BY <1>5, <2>1 DEF EditField, FormInv
  <2>7. /\ form'.values = Put(name, value)
        /\ form'.loading = form.loading /\ form'.options = form.options
    BY <2>6
  <2>8. /\ DOMAIN form'.values = DOMAIN form.values \union {name}
        /\ \A n \in DOMAIN form.values \ {name} : form'.values[n] = form.values[n]
    BY <2>7 DEF Put
  <2>9. form' = [template |-> form.template, fields |-> form.fields, values |-> form'.values,
                 loading |-> form'.loading, options |-> form'.options]
    BY <2>6, <2>7
  <2> QED BY <2>1, <2>5, <2>7, <2>8, <2>9, OneFieldChanges
<1>6. CASE SubmitForm
  BY <1>1, <1>2, <1>6 DEF SubmitForm, ConfigStays
<1>7. CASE CloseForm
  BY <1>2, <1>7 DEF CloseForm
<1>8. ASSUME NEW t, NEW p, RunFromSimpleTemplate(t, p) PROVE FormInv'
  BY <1>1, <1>8 DEF RunFromSimpleTemplate, ConfigStays
<1>9. CASE FormNext
  BY <1>3, <1>4, <1>5, <1>6, <1>7, <1>8, <1>9 DEF FormNext
<1>10. CASE UNCHANGED vars
  BY <1>1, <1>10 DEF vars, configVars, formVars
<1> QED BY <1>1, <1>9, <1>10 DEF Next

LEMMA FormInvariant == Spec => []FormInv
<1>1. Init => FormInv
  BY DEF Init, FormInit, FormInv
<1> QED BY <1>1, FormStep, TypeCorrect, PTL DEF Spec

\* Whatever the template and the user, a hidden or readonly field is as it
\* was when it was opened, or, if it is a dynamic select whose value is not
\* among the options that arrived, one of those options.
THEOREM FixedFieldsAreFixed == Spec => []FixedFieldsStay
<1>1. FormInv => FixedFieldsStay
  BY DEF FormInv, FixedFieldsStay, Fixed
<1> QED BY <1>1, FormInvariant, PTL

\* What a field of an open form has, for the page and for the operator.
LEMMA FormIsResolved ==
    ASSUME FormInv, form # None, NEW f \in FieldsOf(form.fields)
    PROVE  /\ f.name \in DOMAIN form.values =>
                 Resolved(form.fields, form.values)[f.name] = form.values[f.name]
           /\ f.name \notin DOMAIN form.values =>
                 Resolved(form.fields, form.values)[f.name] = Null
<1>1. PICK row \in TemplateRows : form.fields = FromDocument(row.declarative_spec)
  BY DEF FormInv
<1>2. (CHOOSE g \in FieldsOf(form.fields) : g.name = f.name) = f
  BY <1>1, NamesAreUnique
<1>3. f.name \notin DOMAIN form.values => f.value = Null
  BY DEF FormInv
<1> QED BY <1>2, <1>3 DEF Resolved

\* The two conversions of a value that is compared, and the two evaluators.
LEMMA TextsAgree ==
    ASSUME NEW values, NEW name
    PROVE  RsqlValue(values, name) = Normalize(Get(values, name))
<1>1. CASE name \notin DOMAIN values
  BY <1>1 DEF RsqlValue, Normalize, Get, Null, True, False
<1>2. CASE name \in DOMAIN values
  BY <1>2 DEF RsqlValue, Normalize, Get, Null, True, False
<1> QED BY <1>1, <1>2

LEMMA ConditionsAgree ==
    ASSUME NEW c, c.isField \/ IsText(c.right), NEW values
    PROVE  EvaluateRsql(c, values) <=> RsqlHolds(c, values)
<1> DEFINE right == IF c.isField THEN Get(values, c.right) ELSE c.right
           uiRight == IF c.isField THEN RsqlValue(values, c.right) ELSE c.right
<1>1. uiRight = Normalize(right)
  <2>1. CASE c.isField
    BY <2>1, TextsAgree
  <2>2. CASE ~c.isField
    BY <2>2 DEF IsText, Normalize
  <2> QED BY <2>1, <2>2
<1>2. RsqlValue(values, c.left) = Normalize(Get(values, c.left))
  BY TextsAgree
<1>3. RsqlHolds(c, values) <=>
         \/ c.op = "==" /\ Normalize(Get(values, c.left)) = Normalize(right)
         \/ c.op = "!=" /\ Normalize(Get(values, c.left)) # Normalize(right)
  BY DEF RsqlHolds
<1>4. EvaluateRsql(c, values) <=>
         /\ c.op \in {"==", "!="}
         /\ IF c.op = "==" THEN RsqlValue(values, c.left) = uiRight
                           ELSE RsqlValue(values, c.left) # uiRight
  BY DEF EvaluateRsql
<1> HIDE DEF right, uiRight
<1> QED BY <1>1, <1>2, <1>3, <1>4

\* evaluateFormState and DeclarativeFormStateUtils.evaluate.
LEMMA StatesAgree ==
    ASSUME FormInv, form # None, NEW f \in FieldsOf(form.fields), NEW values
    PROVE  /\ UiVisible(f, values) <=> Visible(f, values)
           /\ UiRequired(f, values) <=> Required(f, values)
<1>1. PICK row \in TemplateRows : form.fields = FromDocument(row.declarative_spec)
  BY DEF FormInv
<1>2. PICK i \in DOMAIN row.declarative_spec : f = BuildField(row.declarative_spec[i])
  BY <1>1 DEF FieldsOf, FromDocument
<1>3. \A c \in {f.hide_condition, f.required_condition} : c.isField \/ IsText(c.right)
  BY <1>2, TemplateAssumption DEF BuildField
<1>4. /\ EvaluateRsql(f.hide_condition, values) <=> RsqlHolds(f.hide_condition, values)
      /\ EvaluateRsql(f.required_condition, values) <=> RsqlHolds(f.required_condition, values)
  BY <1>3, ConditionsAgree
<1> QED BY <1>4 DEF UiVisible, UiRequired, Visible, Required

\* The two evaluators, as they are written on either side, agree on every
\* form of every template: which fields are visible, which are required, and
\* whether something is missing.
THEOREM PageAndEngineAgree == Spec => []FormAgreesWithEngine
<1>1. FormInv => FormAgreesWithEngine
  <2> SUFFICES ASSUME FormInv, form # None PROVE FormAgreesWithEngine
    BY DEF FormAgreesWithEngine
  <2> DEFINE fields == FieldsOf(form.fields)
             values == Resolved(form.fields, form.values)
             reasons == Refusals(form.fields, form.values)
  <2>1. Evaluated = values
    BY DEF Evaluated, ResolveValues, Resolved
  <2>2. \A f \in fields : IsEmptyValue(f.name) <=> IsEmpty(values[f.name])
    BY FormIsResolved DEF IsEmptyValue, IsEmpty
  <2>3. \A f \in fields : /\ UiVisible(f, values) <=> Visible(f, values)
                          /\ UiRequired(f, values) <=> Required(f, values)
    BY StatesAgree
  <2>4. HasMissingRequired <=>
           \E f \in fields : IsEmpty(values[f.name]) /\ Required(f, values)
    <3>1. HasMissingRequired <=>
             \E f \in FieldsOf(form.fields) : IsEmptyValue(f.name) /\ UiRequired(f, Evaluated)
      BY DEF HasMissingRequired
    <3> HIDE DEF values
    <3>2. \A f \in fields : (IsEmptyValue(f.name) /\ UiRequired(f, values))
                               <=> (IsEmpty(values[f.name]) /\ Required(f, values))
      BY <2>2, <2>3
    <3> QED BY <2>1, <3>1, <3>2
  <2>5. /\ (\E f \in fields : Unsupported(f, values)) => reasons = {"expression"}
        /\ (~\E f \in fields : Unsupported(f, values)) =>
              ("missing" \in reasons <=>
                  \E f \in fields : IsEmpty(values[f.name]) /\ Required(f, values))
    BY DEF Refusals
  <2>6. FormAgreesWithEngine <=>
           /\ \A f \in fields : ~Unsupported(f, values) =>
                 /\ UiVisible(f, Evaluated) <=> Visible(f, values)
                 /\ UiRequired(f, Evaluated) <=> Required(f, values)
           /\ HasMissingRequired => reasons \intersect {"missing", "expression"} # {}
           /\ "missing" \in reasons => HasMissingRequired
    BY DEF FormAgreesWithEngine
  <2> HIDE DEF fields, values, reasons
  <2>7. /\ HasMissingRequired => reasons \intersect {"missing", "expression"} # {}
        /\ "missing" \in reasons => HasMissingRequired
    <3>1. CASE \E f \in fields : Unsupported(f, values)
      BY <2>5, <3>1
    <3>2. CASE ~\E f \in fields : Unsupported(f, values)
      BY <2>4, <2>5, <3>2
    <3> QED BY <3>1, <3>2
  <2> QED BY <2>1, <2>3, <2>6, <2>7
<1> QED BY <1>1, FormInvariant, PTL

\* Nothing but the profile and the pipeline data is bound to once.
OneFieldEach ==
    \A row \in TemplateRows : \A i, j \in DOMAIN row.declarative_spec :
        /\ row.declarative_spec[i].bind_to = row.declarative_spec[j].bind_to
        /\ row.declarative_spec[i].bind_to \in {"profile", "pipeline_data"}
        => i = j

LEMMA AtMostItself == \A n \in Nat : n <= n
OBVIOUS

LEMMA SingletonIsThere ==
    ASSUME OneFieldEach, NEW row \in TemplateRows,
           NEW f \in FieldsOf(FromDocument(row.declarative_spec)),
           f.bind_to \in {"profile", "pipeline_data"},
           NEW values, ~IsEmpty(values[f.name]), NEW default
    PROVE  GetSingleton(FromDocument(row.declarative_spec), values, f.bind_to, default)
              = values[f.name]
<1> DEFINE contract == FromDocument(row.declarative_spec)
           bound == {i \in DOMAIN contract :
                        /\ contract[i].bind_to = f.bind_to
                        /\ \/ Submits(contract[i], values)
                           \/ ~IsEmpty(contract[i].value)}
           first == CHOOSE i \in bound : \A j \in bound : i <= j
<1>1. PICK k \in DOMAIN contract : contract[k] = f
  BY DEF FieldsOf
<1>2. DOMAIN contract = DOMAIN row.declarative_spec
      /\ \A i \in DOMAIN contract : contract[i].bind_to = row.declarative_spec[i].bind_to
  BY DEF FromDocument, BuildField
<1>3. Submits(f, values)
  BY DEF Submits
<1>4. bound = {k}
  BY <1>1, <1>2, <1>3 DEF OneFieldEach
<1>5. k <= k
  <2>1. k \in DOMAIN row.declarative_spec
    BY <1>1, <1>2
  <2>2. k \in Nat
    BY <2>1, TemplateAssumption
  <2> HIDE DEF bound, contract, first
  <2> QED BY <2>2, AtMostItself
<1> HIDE DEF bound, contract
<1>6. first = k
  BY <1>4, <1>5
<1> HIDE DEF first
<1>7. GetSingleton(contract, values, f.bind_to, default) =
         IF bound = {} THEN default
         ELSE IF Submits(contract[first], values) THEN values[contract[first].name]
         ELSE contract[first].value
  BY DEF GetSingleton, bound, first
<1> QED BY <1>1, <1>3, <1>4, <1>6, <1>7 DEF contract

LEMMA RunStep ==
    ASSUME OneFieldEach, TypeOK, FormInv, RunMatchesForm, [Next]_vars
    PROVE  RunMatchesForm'
<1>1. ASSUME outcome' = outcome PROVE RunMatchesForm'
  BY <1>1 DEF RunMatchesForm
<1>2. ASSUME outcome'.run = None \/ outcome'.fields = None PROVE RunMatchesForm'
  BY <1>2 DEF RunMatchesForm
<1>3. CASE SubmitForm
  <2>1. form # None /\ outcome' = AnswerDeclarative(form.template, form.values)
    BY <1>3 DEF SubmitForm
  <2>2. SUFFICES ASSUME outcome'.run # None PROVE RunMatchesForm'
    BY <1>2
  <2> DEFINE c == form.fields
             v == form.values
             r == Resolved(c, v)
  <2>3. outcome' = [run |-> Assemble(c, v), values |-> v, fields |-> c]
    BY <2>1, <2>2 DEF AnswerDeclarative, NoRun, FormInv
  <2>4. PICK row \in TemplateRows : c = FromDocument(row.declarative_spec)
    BY <2>1 DEF FormInv
  <2>5. \A f \in FieldsOf(c) : f.name \in DOMAIN v => r[f.name] = v[f.name]
    BY <2>1, FormIsResolved
  <2>6. /\ outcome'.run.pipeline_vars = PipelineVars(c, r, FALSE)
        /\ outcome'.run.pipeline_vars_secure = PipelineVars(c, r, TRUE)
        /\ outcome'.run.env_vars = {<<g.name, r[g.name]>> : g \in BoundTo(c, r, "env_var")}
        /\ outcome'.run.profile_id = Str(GetSingleton(c, r, "profile", "default"))
        /\ outcome'.run.pipeline_data = Str(GetSingleton(c, r, "pipeline_data", Null))
    BY <2>3 DEF Assemble
  <2>7. outcome'.fields = c /\ outcome'.values = v
    BY <2>3
  <2> HIDE DEF c, v, r
  <2>8. ASSUME NEW f \in FieldsOf(c), ~IsEmpty(r[f.name])
        PROVE  /\ f.bind_to = "pipeline_var" =>
                     /\ <<f.name, AsPipelineText(r[f.name])>> \in PipelineVars(c, r, f.secure)
                     /\ f.secure => <<f.name, AsPipelineText(r[f.name])>>
                                        \notin PipelineVars(c, r, FALSE)
               /\ f.bind_to = "env_var" =>
                     <<f.name, r[f.name]>> \in {<<g.name, r[g.name]>> : g \in BoundTo(c, r, "env_var")}
               /\ f.secure = TRUE \/ f.secure = FALSE
    <3>1. Submits(f, r)
      BY <2>8 DEF Submits
    <3>2. \A g \in FieldsOf(c) : g.name = f.name => g = f
      BY <2>4, NamesAreUnique
    <3>3. f.secure \in BOOLEAN
      BY <2>4, TemplateAssumption DEF FieldsOf, FromDocument, BuildField
    <3>4. f.bind_to = "env_var" => f \in BoundTo(c, r, "env_var")
      BY <3>1 DEF BoundTo
    <3>5. f.bind_to = "pipeline_var" => f \in BoundTo(c, r, "pipeline_var")
      BY <3>1 DEF BoundTo
    <3>6. f.bind_to = "pipeline_var" =>
             <<f.name, AsPipelineText(r[f.name])>> \in PipelineVars(c, r, f.secure)
      BY <3>5 DEF PipelineVars
    <3>7. f.secure => <<f.name, AsPipelineText(r[f.name])>> \notin PipelineVars(c, r, FALSE)
      BY <3>2, <3>3 DEF PipelineVars, BoundTo
    <3> QED BY <3>3, <3>4, <3>6, <3>7
  <2>9. ASSUME NEW f \in FieldsOf(c), ~IsEmpty(r[f.name])
        PROVE  /\ f.bind_to = "profile" => GetSingleton(c, r, "profile", "default") = r[f.name]
               /\ f.bind_to = "pipeline_data" =>
                     GetSingleton(c, r, "pipeline_data", Null) = r[f.name]
    BY <2>4, <2>9, SingletonIsThere
  <2> SUFFICES ASSUME NEW f \in FieldsOf(c), f.name \in DOMAIN v, ~IsEmpty(v[f.name])
               PROVE  LET entry == <<f.name, AsPipelineText(v[f.name])>> IN
                      CASE f.bind_to = "pipeline_var" ->
                             IF f.secure THEN /\ entry \in outcome'.run.pipeline_vars_secure
                                              /\ entry \notin outcome'.run.pipeline_vars
                             ELSE entry \in outcome'.run.pipeline_vars
                        [] f.bind_to = "env_var" ->
                             <<f.name, v[f.name]>> \in outcome'.run.env_vars
                        [] f.bind_to = "profile" -> outcome'.run.profile_id = Str(v[f.name])
                        [] f.bind_to = "pipeline_data" ->
                             outcome'.run.pipeline_data = Str(v[f.name])
                        [] OTHER -> TRUE
    BY <2>7 DEF RunMatchesForm
  <2>10. r[f.name] = v[f.name]
    BY <2>5
  <2>11. CASE f.bind_to = "pipeline_var"
    <3>1. CASE f.secure = TRUE
      BY <2>6, <2>8, <2>10, <2>11, <3>1
    <3>2. CASE f.secure = FALSE
      BY <2>6, <2>8, <2>10, <2>11, <3>2
    <3> QED BY <2>8, <2>10, <3>1, <3>2
  <2>12. CASE f.bind_to = "env_var"
    BY <2>6, <2>8, <2>10, <2>12
  <2>13. CASE f.bind_to \in {"profile", "pipeline_data"}
    BY <2>6, <2>9, <2>10, <2>13
  <2>14. CASE f.bind_to \notin {"pipeline_var", "env_var", "profile", "pipeline_data"}
    BY <2>14
  <2> QED BY <2>11, <2>12, <2>13, <2>14
<1>4. ASSUME outcome' = NoRun PROVE RunMatchesForm'
  BY <1>2, <1>4 DEF NoRun
<1>5. ASSUME NEW t, NEW p, RunFromSimpleTemplate(t, p) PROVE RunMatchesForm'
  BY <1>2, <1>5 DEF RunFromSimpleTemplate, NoRun
<1>6. CASE FormNext
  BY <1>3, <1>4, <1>5, <1>6 DEF FormNext, OpenForm, CloseForm, OptionsArrive, OptionsFail, EditField
<1>7. CASE UNCHANGED vars
  BY <1>1, <1>7 DEF vars, formVars
<1> QED BY <1>4, <1>6, <1>7 DEF Next

\* Every value of a form reaches the run where its field is bound, for any
\* template that binds one field at most to the profile and to the data.
THEOREM RunsMatchTheirForms == ASSUME OneFieldEach PROVE Spec => []RunMatchesForm
<1>1. Init => RunMatchesForm
  <2>1. Init => outcome.run = None
    BY DEF Init, FormInit, NoRun
  <2>2. outcome.run = None => RunMatchesForm
    BY DEF RunMatchesForm
  <2> QED BY <2>1, <2>2
<1> QED BY <1>1, RunStep, FormInvariant, TypeCorrect, PTL DEF Spec
=============================================================================
