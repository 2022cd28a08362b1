------------------------- MODULE RecordStoreProofs -------------------------
(***************************************************************************)
(* Proofs about RecordStore, for any rules, drafts, bodies and rows.       *)
(***************************************************************************)
EXTENDS RecordStore, FiniteSetTheorems, SequenceTheorems, TLAPS

-----------------------------------------------------------------------------
(* Rules of a row. *)

\* Whether a column breaks a rule is up to its value alone.
LEMMA BrokenByColumn ==
    ASSUME NEW t \in Tables, NEW before, NEW data,
           NEW b \in BrokenIn(t, data), before[b[1]] = data[b[1]]
    PROVE  b \in BrokenIn(t, before) /\ b = <<b[1], b[2]>>
<1>1. ASSUME NEW longest, NEW mandatory, b \in Broken(data, longest, mandatory)
      PROVE  b \in Broken(before, longest, mandatory) /\ b = <<b[1], b[2]>>
  <2>1. CASE \E c \in DOMAIN longest : /\ data[c] # Null /\ data[c].chars > longest[c]
                                       /\ b = <<c, "max_length">>
    <3>1. PICK c \in DOMAIN longest : /\ data[c] # Null /\ data[c].chars > longest[c]
                                      /\ b = <<c, "max_length">>
      BY <2>1
    <3>2. b[1] = c
      BY <3>1
    <3>. QED BY <3>1, <3>2 DEF Broken
  <2>2. CASE \E c \in mandatory : /\ data[c] = Null \/ Blank(data[c])
                                  /\ b = <<c, "required">>
    <3>1. PICK c \in mandatory : /\ data[c] = Null \/ Blank(data[c])
                                 /\ b = <<c, "required">>
      BY <2>2
    <3>2. b[1] = c
      BY <3>1
    <3>. QED BY <3>1, <3>2 DEF Broken
  <2>. QED BY <1>1, <2>1, <2>2 DEF Broken
<1>2. CASE t = "rules"
  BY <1>1, <1>2 DEF BrokenIn, RuleBroken
<1>3. CASE t = "runs"
  BY <1>1, <1>3 DEF BrokenIn, RunBroken
<1>4. CASE t = "postures"
  BY <1>1, <1>4 DEF BrokenIn, PostureBroken
<1>. QED BY <1>2, <1>3, <1>4 DEF Tables

\* Rows that agree on the columns there are rules about fit the same CHECKs.
LEMMA FitsAlike ==
    ASSUME NEW t \in Tables, NEW before, NEW data, Fits(t, before),
           \A b \in BrokenIn(t, data) : before[b[1]] = data[b[1]]
    PROVE  Fits(t, data)
<1>. SUFFICES ASSUME NEW b \in BrokenIn(t, data)
              PROVE  <<t, b[1], b[2]>> \notin checks
  BY DEF Fits
<1>1. b \in BrokenIn(t, before)
  BY BrokenByColumn
<1>. QED BY <1>1 DEF Fits

\* The columns there are rules about.
LEMMA RuledColumns ==
    ASSUME NEW data, NEW b \in BrokenIn("rules", data)
    PROVE  b[1] \in {"name", "description", "model", "trigger_pattern", "time_field",
                     "created_by_source"}
<1>1. \/ \E c \in DOMAIN RuleLongest : b = <<c, "max_length">>
      \/ \E c \in {"name", "model"} : b = <<c, "required">>
  BY DEF BrokenIn, RuleBroken, Broken
<1>2. DOMAIN RuleLongest = {"name", "description", "model", "trigger_pattern", "time_field",
                            "created_by_source"}
  BY DEF RuleLongest
<1>. QED BY <1>1, <1>2

\* What a create or an update is let through with breaks no CHECK in force.
LEMMA JudgedFits ==
    ASSUME NEW t \in Tables, NEW before, NEW data, Fits(t, before),
           Judged({before}, data, BrokenIn(t, data)) = {}
    PROVE  Fits(t, data)
<1>1. \A b \in BrokenIn(t, data) : before[b[1]] = data[b[1]]
  BY DEF Judged
<1>. QED BY <1>1, FitsAlike

-----------------------------------------------------------------------------
(* The inductive invariant. *)

\* Every stored row satisfies every CHECK in force.
ChecksHold == \A t \in Tables : \A id \in DOMAIN db[t] : Fits(t, db[t][id].data)

\* The unique index holds.
OneSingleton ==
    \A p, q \in DOMAIN db.postures :
        p # q => db.postures[p].data.singleton # db.postures[q].data.singleton

IInv == TypeOK /\ ChecksHold /\ OneSingleton /\ RulesAreWhole

-----------------------------------------------------------------------------
(* Whoever writes, a step saves one row, removes rows, or leaves the rows   *)
(* alone.                                                                  *)

Whole(id, data) == \E d \in Drafts[id] : Validate(d) /\ data = RuleData(d, data.active)

Saves(t, id, data, deleted) ==
    /\ db' = [db EXCEPT ![t] = With(@, id, [data |-> data, deleted |-> deleted])]
    /\ Typed(t, data) /\ Storable(t, id, data)
    /\ t = "rules" /\ id \notin Generic =>
          /\ Whole(id, data)
          /\ Stored(t, id) => ~db[t][id].deleted
    /\ UNCHANGED <<checks, keyed>> /\ firing' \subseteq RuleIds

Removes(t, ids) ==
    /\ db' = [db EXCEPT ![t] = Only(@, ids)]
    /\ t = "rules" /\ keyed =>
          \A r \in DOMAIN db.rules \ ids : \A x \in DOMAIN db.runs :
              db.runs[x].data.automation_id # r
    /\ UNCHANGED <<checks, keyed, firing>>

Governs ==
    /\ db' = db /\ firing' \subseteq RuleIds
    /\ \/ UNCHANGED <<checks, keyed>>
       \/ keyed' = TRUE /\ UNCHANGED checks
       \/ AddChecks

\* A table after rows are removed from it.
LEMMA AfterRemoval ==
    ASSUME DOMAIN db = Tables, NEW t \in Tables, NEW ids \in SUBSET DOMAIN db[t],
           db' = [db EXCEPT ![t] = Only(@, ids)]
    PROVE  /\ DOMAIN db' = Tables
           /\ \A u \in Tables : u # t => db'[u] = db[u]
           /\ DOMAIN db'[t] = ids
           /\ \A i \in ids : db'[t][i] = db[t][i]
<1>1. db'[t] = Only(db[t], ids)
  OBVIOUS
<1>. QED BY <1>1 DEF Only

\* What a stored row holds may be stored again.
LEMMA StorableAgain ==
    ASSUME IInv, NEW t \in Tables, NEW id \in DOMAIN db[t]
    PROVE  Typed(t, db[t][id].data) /\ Storable(t, id, db[t][id].data)
<1>1. Typed(t, db[t][id].data) /\ Fits(t, db[t][id].data)
  BY DEF IInv, TypeOK, ChecksHold
<1>2. Unique(t, id, db[t][id].data)
  BY DEF IInv, OneSingleton, Unique, Stored
<1>3. Referenced(t, id, db[t][id].data)
  BY DEF Referenced, KeyHolds, Stored
<1>. QED BY <1>1, <1>2, <1>3 DEF Storable

\* A step of a host that flips the mark of deletion.
LEMMA FlipSaves ==
    ASSUME IInv, NEW t \in Tables, NEW id \in DOMAIN db[t], NEW deleted \in BOOLEAN,
           Write(t, id, [db[t][id] EXCEPT !.deleted = deleted]),
           t = "rules" /\ id \notin Generic => ~db[t][id].deleted
    PROVE  Saves(t, id, db[t][id].data, deleted)
<1>1. [db[t][id] EXCEPT !.deleted = deleted] = [data |-> db[t][id].data, deleted |-> deleted]
  BY DEF IInv, TypeOK
<1>2. t = "rules" /\ id \notin Generic => Whole(id, db[t][id].data)
  BY DEF IInv, TypeOK, RulesAreWhole, Whole, Stored, Ids
<1>3. firing' \subseteq RuleIds
  BY DEF Write, IInv, TypeOK
<1>. QED BY <1>1, <1>2, <1>3, StorableAgain DEF Saves, Write

\* A step that stores new data under the mark there is.
LEMMA WriteSaves ==
    ASSUME IInv, NEW t \in Tables, NEW id \in DOMAIN db[t], NEW data,
           Write(t, id, [db[t][id] EXCEPT !.data = data]),
           Typed(t, data), Storable(t, id, data),
           t = "rules" /\ id \notin Generic => Whole(id, data) /\ ~db[t][id].deleted
    PROVE  Saves(t, id, data, db[t][id].deleted)
<1>1. [db[t][id] EXCEPT !.data = data] = [data |-> data, deleted |-> db[t][id].deleted]
  BY DEF IInv, TypeOK
<1>2. firing' \subseteq RuleIds
  BY DEF Write, IInv, TypeOK
<1>. QED BY <1>1, <1>2 DEF Saves, Write

-----------------------------------------------------------------------------
(* What is stored is typed, whatever was sent. *)

LEMMA CreatedTyped ==
    ASSUME NEW t \in Tables, NEW body, CreateReads(t, body)
    PROVE  Typed(t, Created(t, body))
<1>1. CASE t = "rules"
  BY <1>1, NullAssumption
     DEF CreateReads, Created, RuleCreateReads, RuleCreated, Reads, Decodes, Given, Typed,
         Fields, Optional, RuleFields, RuleOptional, RuleJson, RunJson
<1>2. CASE t = "runs"
  BY <1>2, NullAssumption
     DEF CreateReads, Created, RunCreateReads, RunCreated, Reads, Decodes, Given, Typed,
         Fields, Optional, RunFields, RunOptional, RuleJson, RunJson
<1>3. CASE t = "postures"
  BY <1>3, NullAssumption
     DEF CreateReads, Created, PostureCreateReads, PostureCreated, Reads, Decodes, Given, Typed,
         Fields, Optional, PostureFields, PostureOptional, RuleJson, RunJson
<1>. QED BY <1>1, <1>2, <1>3 DEF Tables

LEMMA UpdatedTyped ==
    ASSUME NEW t \in Tables, NEW data, NEW body, Typed(t, data), UpdateReads(t, body)
    PROVE  Typed(t, Updated(t, data, body))
<1>1. CASE t = "rules"
  BY <1>1, NullAssumption
     DEF UpdateReads, Updated, RuleUpdateReads, RuleUpdated, Reads, Decodes, Given, Typed,
         Fields, Optional, RuleFields, RuleOptional, RuleJson, RunJson
<1>2. CASE t = "runs"
  BY <1>2, NullAssumption
     DEF UpdateReads, Updated, RunUpdateReads, RunUpdated, Reads, Decodes, Given, Typed,
         Fields, Optional, RunFields, RunOptional, RuleJson, RunJson
<1>3. CASE t = "postures"
  BY <1>3, NullAssumption
     DEF UpdateReads, Updated, PostureUpdateReads, PostureUpdated, Reads, Decodes, Given, Typed,
         Fields, Optional, PostureFields, PostureOptional, RuleJson, RunJson
<1>. QED BY <1>1, <1>2, <1>3 DEF Tables

LEMMA PatchTyped ==
    ASSUME NEW t \in Tables, NEW data, NEW patch, Typed(t, data)
    PROVE  Typed(t, EntityPatched(t, data, patch))
<1>1. CASE t = "rules"
  BY <1>1 DEF EntityPatched, RulePatched, Patched, Decodes, Typed, Fields, Optional,
              RuleFields, RuleOptional, RuleJson, RunJson
<1>2. CASE t = "runs"
  BY <1>2 DEF EntityPatched, RunPatched, Patched, Decodes, Typed, Fields, Optional,
              RunFields, RunOptional, RuleJson, RunJson
<1>3. CASE t = "postures"
  BY <1>3 DEF EntityPatched, PosturePatched, Patched, Decodes, Typed, Fields, Optional,
              PostureFields, PostureOptional, RuleJson, RunJson
<1>. QED BY <1>1, <1>2, <1>3 DEF Tables

\* The rule service keeps the active mark a row has.
LEMMA RuleDataTyped ==
    ASSUME NEW r \in RuleIds, NEW d \in Drafts[r], NEW active,
           active # Null, active # Garbled
    PROVE  Typed("rules", RuleData(d, active)) /\ RuleData(d, active).active = active
<1>1. Typed("rules", RuleData(d, TRUE))
  BY TypedAssumption
<1>2. \A c \in RuleFields : c # "active" => RuleData(d, active)[c] = RuleData(d, TRUE)[c]
  BY DEF RuleData
<1>3. RuleData(d, active).active = active /\ DOMAIN RuleData(d, active) = RuleFields
  BY DEF RuleData, RuleFields
<1>4. Fields("rules") = RuleFields
  BY DEF Fields
<1>5. RuleData(d, active) = [c \in RuleFields |-> RuleData(d, active)[c]]
  BY DEF RuleData
<1>. QED BY <1>1, <1>2, <1>3, <1>4, <1>5 DEF Typed

-----------------------------------------------------------------------------
(* The steps. *)

LEMMA CreateSaves ==
    ASSUME IInv, NEW r \in RuleIds, NEW d \in Drafts[r], CreateRule(r, d)
    PROVE  Saves("rules", r, RuleData(d, TRUE), FALSE)
<1>1. Typed("rules", RuleData(d, TRUE)) /\ RuleData(d, TRUE).active = TRUE
  BY RuleDataTyped, NullAssumption
<1>2. Whole(r, RuleData(d, TRUE))
  BY <1>1 DEF Whole, CreateRule
<1>. QED BY <1>1, <1>2 DEF Saves, CreateRule, Write, IInv, TypeOK

LEMMA ReplaceSaves ==
    ASSUME IInv, NEW r \in RuleIds, NEW d \in Drafts[r], ReplaceRule(r, d)
    PROVE  Saves("rules", r, RuleData(d, db.rules[r].data.active), db.rules[r].deleted)
<1>1. "rules" \in Tables /\ r \in DOMAIN db["rules"] /\ ~db.rules[r].deleted
  BY DEF ReplaceRule, Live, Stored, Tables
<1>2. "active" \in Fields("rules") \ (RuleJson \cup RunJson)
  BY DEF Fields, RuleFields, RuleJson, RunJson
<1>3. "active" \notin Optional("rules")
  BY DEF Optional, RuleOptional
<1>4. db.rules[r].data.active # Null /\ db.rules[r].data.active # Garbled
  BY <1>1, <1>2, <1>3 DEF IInv, TypeOK, Typed
<1>5. /\ Typed("rules", RuleData(d, db.rules[r].data.active))
      /\ RuleData(d, db.rules[r].data.active).active = db.rules[r].data.active
  BY <1>4, RuleDataTyped
<1>6. Whole(r, RuleData(d, db.rules[r].data.active))
  BY <1>5 DEF Whole, ReplaceRule
<1>7. Storable("rules", r, RuleData(d, db.rules[r].data.active))
  BY DEF ReplaceRule
<1>8. Write("rules", r, [db.rules[r] EXCEPT !.data = RuleData(d, db.rules[r].data.active)])
  BY DEF ReplaceRule
<1>. QED BY <1>1, <1>5, <1>6, <1>7, <1>8, WriteSaves

LEMMA ActivationSaves ==
    ASSUME IInv, NEW r \in RuleIds, NEW active \in BOOLEAN, SetActive(r, active)
    PROVE  Saves("rules", r, [db.rules[r].data EXCEPT !.active = active], db.rules[r].deleted)
<1>. DEFINE before == db.rules[r].data
            data == [before EXCEPT !.active = active]
<1>1. "rules" \in Tables /\ r \in DOMAIN db["rules"] /\ ~db.rules[r].deleted
  BY DEF SetActive, Live, Stored, Tables
<1>2. Typed("rules", before)
  BY <1>1 DEF IInv, TypeOK
<1>3. Typed("rules", data)
  BY <1>2, NullAssumption DEF Typed
<1>4. Fits("rules", data)
  <2>1. Fits("rules", before)
    BY <1>1 DEF IInv, ChecksHold
  <2>2. \A c \in RuleFields \ {"active"} : before[c] = data[c]
    BY <1>2 DEF Typed, Fields
  <2>3. \A b \in BrokenIn("rules", data) : b[1] \in RuleFields \ {"active"}
    BY RuledColumns DEF RuleFields
  <2>. QED BY <1>1, <2>1, <2>2, <2>3, FitsAlike
<1>5. Storable("rules", r, data)
  BY <1>4 DEF Storable, Unique, Referenced
<1>6. r \notin Generic => Whole(r, data)
  <2>. SUFFICES ASSUME r \notin Generic PROVE Whole(r, data)
    OBVIOUS
  <2>1. PICK d \in Drafts[r] : Validate(d) /\ before = RuleData(d, before.active)
    BY <1>1 DEF IInv, RulesAreWhole, Stored
  <2>2. data = RuleData(d, active) /\ data.active = active
    BY <2>1 DEF RuleData, RuleFields
  <2>. QED BY <2>1, <2>2 DEF Whole
<1>7. Write("rules", r, [db.rules[r] EXCEPT !.data = data])
  BY DEF SetActive
<1>. QED BY <1>1, <1>3, <1>5, <1>6, <1>7, WriteSaves

\* The engines' inserts.
LEMMA RunSaves ==
    ASSUME IInv, NEW r \in RuleIds, NEW x \in RunIds, NEW data \in RunData[r],
           RecordRun(x, r, data)
    PROVE  Saves("runs", x, data, FALSE)
BY TypedAssumption DEF RecordRun, Saves, IInv, TypeOK

\* The upsert: of two rows one is not the singleton, so none conflicts.
LEMMA PostureSaves ==
    ASSUME IInv, NEW o \in Observations, RecordPosture(o)
    PROVE  \E p \in PostureIds, deleted \in BOOLEAN :
               Saves("postures", p, PostureData(o), deleted)
<1>. DEFINE data == PostureData(o)
<1>1. Typed("postures", data) /\ Fits("postures", data)
  BY TypedAssumption DEF RecordPosture
<1>2. data.singleton = TRUE
  BY DEF PostureData, PostureFields
<1>3. \A p : Referenced("postures", p, data)
  BY DEF Referenced
<1>4. \A p : (\A q \in DOMAIN db.postures \ {p} : db.postures[q].data.singleton # TRUE)
             => Unique("postures", p, data)
  BY <1>2 DEF Unique, Stored
<1>5. CASE \E p \in PostureIds :
              /\ Conflicts(p, data)
              /\ Write("postures", p, [db.postures[p] EXCEPT !.data = data])
  <2>1. PICK p \in PostureIds :
              /\ Conflicts(p, data)
              /\ Write("postures", p, [db.postures[p] EXCEPT !.data = data])
    BY <1>5
  <2>2. /\ "postures" \in Tables /\ p \in DOMAIN db["postures"]
        /\ db.postures[p].deleted \in BOOLEAN /\ db.postures[p].data.singleton = TRUE
    BY <1>2, <2>1 DEF Conflicts, Stored, Tables, IInv, TypeOK
  <2>3. Unique("postures", p, data)
    BY <1>4, <2>2 DEF IInv, OneSingleton
  <2>4. Storable("postures", p, data)
    BY <1>1, <1>3, <2>3 DEF Storable
  <2>5. Saves("postures", p, data, db.postures[p].deleted)
    BY <1>1, <2>1, <2>2, <2>4, WriteSaves
  <2>. QED BY <2>2, <2>5
<1>6. CASE /\ \A p \in PostureIds : ~Conflicts(p, data)
           /\ \E p \in PostureIds :
                 /\ ~Stored("postures", p)
                 /\ Write("postures", p, [data |-> data, deleted |-> FALSE])
  <2>1. PICK p \in PostureIds : Write("postures", p, [data |-> data, deleted |-> FALSE])
    BY <1>6
  <2>2. Unique("postures", p, data)
    BY <1>6 DEF Conflicts, Unique
  <2>3. Storable("postures", p, data)
    BY <1>1, <1>3, <2>2 DEF Storable
  <2>4. Saves("postures", p, data, FALSE)
    BY <1>1, <2>1, <2>3 DEF Saves, Write, IInv, TypeOK
  <2>. QED BY <2>4
<1>. QED BY <1>5, <1>6 DEF RecordPosture

\* What hosts do past the guarded service, to the ids that are theirs.
LEMMA BypassSteps ==
    ASSUME IInv, NEW t \in Tables, NEW id \in Ids[t], id \in Generic, Bypass(t, id)
    PROVE  \/ \E data : \E deleted \in BOOLEAN : Saves(t, id, data, deleted)
           \/ \E ids \in SUBSET DOMAIN db[t] : Removes(t, ids)
<1>. DEFINE Goal == \E data : \E deleted \in BOOLEAN : Saves(t, id, data, deleted)
<1>1. ASSUME NEW data, Typed(t, data), Storable(t, id, data),
             Write(t, id, [data |-> data, deleted |-> FALSE])
      PROVE  Goal
  <2>1. Saves(t, id, data, FALSE)
    BY <1>1 DEF Saves, Write, IInv, TypeOK
  <2>. QED BY <2>1
<1>2. ASSUME NEW data, Typed(t, data), Update(t, id, data)
      PROVE  Goal
  <2>1. id \in DOMAIN db[t] /\ db[t][id].deleted \in BOOLEAN
    BY <1>2 DEF Update, Live, Stored, IInv, TypeOK
  <2>2. Saves(t, id, data, db[t][id].deleted)
    BY <1>2, <2>1, WriteSaves DEF Update
  <2>. QED BY <2>1, <2>2
<1>3. ASSUME NEW deleted \in BOOLEAN, id \in DOMAIN db[t],
             Write(t, id, [db[t][id] EXCEPT !.deleted = deleted])
      PROVE  Goal
  <2>1. Saves(t, id, db[t][id].data, deleted)
    BY <1>3, FlipSaves
  <2>. QED BY <2>1
<1>4. CASE \E given \in Settings[t] : SaveNew(t, id, given)
  <2>1. PICK given \in Settings[t] : SaveNew(t, id, given)
    BY <1>4
  <2>2. PICK data \in NewEntities(t, given) :
            Storable(t, id, data) /\ Write(t, id, [data |-> data, deleted |-> FALSE])
    BY <2>1 DEF SaveNew
  <2>3. Typed(t, data)
    BY TypedAssumption
  <2>. QED BY <1>1, <2>2, <2>3
<1>5. CASE \E body \in Posts[t] : Post(t, id, body)
  BY <1>1, <1>5, CreatedTyped DEF Post
<1>6. CASE \E body \in Puts[t] : Put(t, id, body)
  <2>1. PICK body \in Puts[t] : Put(t, id, body)
    BY <1>6
  <2>2. Typed(t, db[t][id].data)
    BY <2>1 DEF Put, Live, Stored, IInv, TypeOK
  <2>3. Typed(t, Updated(t, db[t][id].data, body))
    BY <2>1, <2>2, UpdatedTyped DEF Put
  <2>. QED BY <1>2, <2>1, <2>3 DEF Put
<1>7. CASE \E patch \in Patches[t] : Patch(t, id, patch)
  <2>1. PICK patch \in Patches[t] : Patch(t, id, patch)
    BY <1>7
  <2>2. Typed(t, db[t][id].data)
    BY <2>1 DEF Patch, Live, Stored, IInv, TypeOK
  <2>3. Typed(t, EntityPatched(t, db[t][id].data, Unprotected(t, patch)))
    BY <2>2, PatchTyped
  <2>. QED BY <1>2, <2>1, <2>3 DEF Patch
<1>8. CASE SoftDelete(t, id)
  BY <1>3, <1>8 DEF SoftDelete, Live, Stored
<1>9. CASE Restore(t, id)
  BY <1>3, <1>9 DEF Restore, Stored
<1>10. CASE Purge(t, id)
  <2>1. Removes(t, DOMAIN db[t] \ {id})
    <3>1. ASSUME t = "rules", keyed, NEW x \in DOMAIN db.runs
          PROVE  db.runs[x].data.automation_id # id
      <4>1. x \in RunIds
        BY <3>1 DEF IInv, TypeOK, Tables, Ids
      <4>. QED BY <1>10, <3>1, <4>1 DEF Purge, Removable, Refers, Stored
    <3>. QED BY <1>10, <3>1 DEF Purge, Removes
  <2>. QED BY <2>1
<1>. QED BY <1>4, <1>5, <1>6, <1>7, <1>8, <1>9, <1>10 DEF Bypass

LEMMA RollbackRemoves ==
    ASSUME IInv, NEW t \in Tables, Rollback(t)
    PROVE  Removes(t, {})
<1>1. ASSUME t = "rules", keyed, NEW r \in DOMAIN db.rules, NEW x \in DOMAIN db.runs
      PROVE  db.runs[x].data.automation_id # r
  <2>1. x \in RunIds
    BY <1>1 DEF IInv, TypeOK, Tables, Ids
  <2>. QED BY <1>1, <2>1 DEF Rollback, Removable, Refers, Stored
<1>. QED BY <1>1 DEF Rollback, Removes

\* Every step is one of the three, and on a rule the guarded service keeps
\* to itself a save leaves a whole draft.
LEMMA StepShape ==
    ASSUME IInv, [Next]_vars
    PROVE  \/ \E t \in Tables : \E id \in Ids[t] : \E data : \E deleted \in BOOLEAN :
                  Saves(t, id, data, deleted)
           \/ \E t \in Tables : \E ids \in SUBSET DOMAIN db[t] : Removes(t, ids)
           \/ Governs
<1>. DEFINE Saved == \E t \in Tables : \E id \in Ids[t] : \E data : \E deleted \in BOOLEAN :
                        Saves(t, id, data, deleted)
            Removed == \E t \in Tables : \E ids \in SUBSET DOMAIN db[t] : Removes(t, ids)
<1>1. /\ Ids["rules"] = RuleIds /\ Ids["runs"] = RunIds /\ Ids["postures"] = PostureIds
      /\ Tables = {"rules", "runs", "postures"}
  BY DEF Ids, Tables
<1>2. ASSUME NEW r \in RuleIds, Administer(r)
      PROVE  Saved
  <2>1. \A deleted : Live("rules", r) => db.rules[r].deleted = FALSE /\ r \in DOMAIN db["rules"]
    BY DEF Live, Stored, IInv, TypeOK, Tables
  <2>2. CASE \E d \in Drafts[r] : CreateRule(r, d)
    BY <1>1, <2>2, CreateSaves
  <2>3. CASE \E d \in Drafts[r] : ReplaceRule(r, d)
    <3>1. PICK d \in Drafts[r] : ReplaceRule(r, d)
      BY <2>3
    <3>2. db.rules[r].deleted \in BOOLEAN
      BY <2>1, <3>1 DEF ReplaceRule
    <3>. QED BY <1>1, <3>1, <3>2, ReplaceSaves
  <2>4. CASE \E active \in BOOLEAN : SetActive(r, active)
    <3>1. PICK active \in BOOLEAN : SetActive(r, active)
      BY <2>4
    <3>2. db.rules[r].deleted \in BOOLEAN
      BY <2>1, <3>1 DEF SetActive
    <3>. QED BY <1>1, <3>1, <3>2, ActivationSaves
  <2>5. CASE DeleteRule(r)
    <3>1. "rules" \in Tables /\ r \in DOMAIN db["rules"] /\ ~db["rules"][r].deleted
      BY <1>1, <2>1, <2>5 DEF DeleteRule
    <3>2. Saves("rules", r, db["rules"][r].data, TRUE)
      BY <2>5, <3>1, FlipSaves DEF DeleteRule
    <3>. QED BY <1>1, <3>2
  <2>. QED BY <1>2, <2>2, <2>3, <2>4, <2>5 DEF Administer
<1>3. ASSUME NEW r \in RuleIds, Engine(r)
      PROVE  Saved \/ Governs
  <2>1. CASE LoadRule(r)
    BY <2>1 DEF LoadRule, Governs, IInv, TypeOK
  <2>2. CASE \E x \in RunIds, data \in RunData[r] : RecordRun(x, r, data)
    BY <1>1, <2>2, RunSaves
  <2>3. CASE DropFire(r)
    BY <2>3 DEF DropFire, Governs, IInv, TypeOK
  <2>. QED BY <1>3, <2>1, <2>2, <2>3 DEF Engine
<1>4. ASSUME NEW o \in Observations, RecordPosture(o)
      PROVE  Saved
  BY <1>1, <1>4, PostureSaves
<1>5. ASSUME NEW t \in Tables, Rollback(t)
      PROVE  Removed
  <2>1. {} \in SUBSET DOMAIN db[t]
    OBVIOUS
  <2>. QED BY <1>5, <2>1, RollbackRemoves
<1>6. ASSUME NEW t \in Tables, NEW id \in Ids[t] \cap Generic, Bypass(t, id)
      PROVE  Saved \/ Removed
  BY <1>6, BypassSteps
<1>7. CASE AddForeignKeys
  BY <1>7 DEF AddForeignKeys, Governs, IInv, TypeOK
<1>8. CASE AddChecks
  BY <1>8 DEF AddChecks, Governs, IInv, TypeOK
<1>9. CASE UNCHANGED vars
  BY <1>9 DEF vars, Governs, IInv, TypeOK
<1>. QED BY <1>2, <1>3, <1>4, <1>5, <1>6, <1>7, <1>8, <1>9 DEF Next

-----------------------------------------------------------------------------
(* The invariant is inductive. *)

LEMMA InitIInv == Init => IInv
<1>. SUFFICES ASSUME Init PROVE IInv
  OBVIOUS
<1>1. DOMAIN db = Tables /\ \A t \in Tables : DOMAIN db[t] = {}
  BY DEF Init
<1>2. TypeOK
  BY <1>1 DEF Init, TypeOK
<1>3. ChecksHold /\ OneSingleton /\ RulesAreWhole
  BY <1>1 DEF ChecksHold, OneSingleton, RulesAreWhole, Stored, Tables
<1>. QED BY <1>2, <1>3 DEF IInv

\* A step that saves a row.
LEMMA SavePreserves ==
    ASSUME IInv, NEW t \in Tables, NEW id \in Ids[t], NEW data, NEW deleted \in BOOLEAN,
           Saves(t, id, data, deleted)
    PROVE  IInv'
<1>. DEFINE row == [data |-> data, deleted |-> deleted]
<1>1. /\ DOMAIN db' = Tables
      /\ \A u \in Tables : u # t => db'[u] = db[u]
      /\ DOMAIN db'[t] = DOMAIN db[t] \cup {id}
      /\ db'[t][id] = row
      /\ \A i \in DOMAIN db[t] : i # id => db'[t][i] = db[t][i]
  <2>1. DOMAIN db = Tables /\ db' = [db EXCEPT ![t] = With(@, id, row)]
    BY DEF Saves, IInv, TypeOK
  <2>2. /\ DOMAIN db' = Tables
        /\ \A u \in Tables : u # t => db'[u] = db[u]
        /\ db'[t] = With(db[t], id, row)
    BY <2>1
  <2>3. /\ DOMAIN With(db[t], id, row) = DOMAIN db[t] \cup {id}
        /\ With(db[t], id, row)[id] = row
        /\ \A i \in DOMAIN db[t] : i # id => With(db[t], id, row)[i] = db[t][i]
    BY DEF With
  <2>. HIDE DEF row
  <2>. QED BY <2>2, <2>3
<1>2. ASSUME NEW u \in Tables, NEW i \in DOMAIN db'[u], u # t \/ i # id
      PROVE  i \in DOMAIN db[u] /\ db'[u][i] = db[u][i]
  BY <1>1, <1>2
<1>3. Typed(t, data) /\ Storable(t, id, data) /\ UNCHANGED <<checks, keyed>>
      /\ firing' \subseteq RuleIds
  BY DEF Saves
<1>4. TypeOK'
  <2>1. ASSUME NEW u \in Tables
        PROVE  DOMAIN db'[u] \subseteq Ids[u]
    BY <1>1 DEF IInv, TypeOK
  <2>2. ASSUME NEW u \in Tables, NEW i \in DOMAIN db'[u]
        PROVE  /\ db'[u][i] = [data |-> db'[u][i].data, deleted |-> db'[u][i].deleted]
               /\ Typed(u, db'[u][i].data)
               /\ db'[u][i].deleted \in BOOLEAN
    <3>1. CASE u = t /\ i = id
      BY <1>1, <1>3, <3>1
    <3>2. CASE u # t \/ i # id
      BY <1>2, <3>2 DEF IInv, TypeOK
    <3>. QED BY <3>1, <3>2
  <2>. QED BY <1>1, <1>3, <2>1, <2>2 DEF IInv, TypeOK
<1>5. ChecksHold'
  <2>1. ASSUME NEW u \in Tables, NEW i \in DOMAIN db'[u]
        PROVE  Fits(u, db'[u][i].data)
    <3>1. CASE u = t /\ i = id
      BY <1>1, <1>3, <3>1 DEF Storable
    <3>2. CASE u # t \/ i # id
      BY <1>2, <3>2 DEF IInv, ChecksHold
    <3>. QED BY <3>1, <3>2
  <2>. QED BY <1>3, <2>1 DEF ChecksHold, Fits
<1>6. OneSingleton'
  <2>. SUFFICES ASSUME NEW p \in DOMAIN db'.postures, NEW q \in DOMAIN db'.postures, p # q
                PROVE  db'.postures[p].data.singleton # db'.postures[q].data.singleton
    BY DEF OneSingleton
  <2>1. "postures" \in Tables /\ Ids["postures"] = PostureIds
    BY DEF Tables, Ids
  <2>2. CASE t = "postures" /\ id \in {p, q}
    <3>1. \A x \in DOMAIN db.postures \ {id} : db.postures[x].data.singleton # data.singleton
      BY <1>3, <2>1, <2>2 DEF Storable, Unique, Stored, IInv, TypeOK
    <3>. QED BY <1>1, <2>1, <2>2, <3>1
  <2>3. CASE ~(t = "postures" /\ id \in {p, q})
    <3>1. /\ p \in DOMAIN db.postures /\ db'.postures[p] = db.postures[p]
          /\ q \in DOMAIN db.postures /\ db'.postures[q] = db.postures[q]
      BY <1>2, <2>1, <2>3
    <3>. QED BY <3>1 DEF IInv, OneSingleton
  <2>. QED BY <2>2, <2>3
<1>7. RulesAreWhole'
  <2>. SUFFICES ASSUME NEW r \in RuleIds \ Generic, r \in DOMAIN db'.rules
                PROVE  \E d \in Drafts[r] :
                           Validate(d) /\ db'.rules[r].data = RuleData(d, db'.rules[r].data.active)
    BY DEF RulesAreWhole, Stored
  <2>1. CASE t = "rules" /\ id = r
    BY <1>1, <2>1 DEF Saves, Whole
  <2>2. CASE ~(t = "rules" /\ id = r)
    <3>1. r \in DOMAIN db.rules /\ db'.rules[r] = db.rules[r]
      BY <1>2, <2>2 DEF Tables
    <3>. QED BY <3>1 DEF IInv, RulesAreWhole, Stored
  <2>. QED BY <2>1, <2>2
<1>. QED BY <1>4, <1>5, <1>6, <1>7 DEF IInv

\* A step that removes rows.
LEMMA RemovalPreserves ==
    ASSUME IInv, NEW t \in Tables, NEW ids \in SUBSET DOMAIN db[t], Removes(t, ids)
    PROVE  IInv'
<1>1. /\ DOMAIN db' = Tables
      /\ \A u \in Tables : u # t => db'[u] = db[u]
      /\ DOMAIN db'[t] = ids
      /\ \A i \in ids : db'[t][i] = db[t][i]
  BY AfterRemoval DEF Removes, IInv, TypeOK
<1>2. ASSUME NEW u \in Tables, NEW i \in DOMAIN db'[u]
      PROVE  i \in DOMAIN db[u] /\ db'[u][i] = db[u][i]
  BY <1>1
<1>3. UNCHANGED <<checks, keyed, firing>>
  BY DEF Removes
<1>4. TypeOK'
  <2>1. ASSUME NEW u \in Tables
        PROVE  DOMAIN db'[u] \subseteq Ids[u]
    BY <1>2 DEF IInv, TypeOK
  <2>2. ASSUME NEW u \in Tables, NEW i \in DOMAIN db'[u]
        PROVE  /\ db'[u][i] = [data |-> db'[u][i].data, deleted |-> db'[u][i].deleted]
               /\ Typed(u, db'[u][i].data)
               /\ db'[u][i].deleted \in BOOLEAN
    BY <1>2 DEF IInv, TypeOK
  <2>. QED BY <1>1, <1>3, <2>1, <2>2 DEF IInv, TypeOK
<1>5. ChecksHold'
  BY <1>2, <1>3 DEF IInv, ChecksHold, Fits
<1>6. OneSingleton'
  BY <1>2 DEF IInv, OneSingleton, Tables
<1>7. RulesAreWhole'
  BY <1>2 DEF IInv, RulesAreWhole, Stored, Tables
<1>. QED BY <1>4, <1>5, <1>6, <1>7 DEF IInv

\* A step that leaves the rows alone.
LEMMA GovernsPreserves ==
    ASSUME IInv, Governs
    PROVE  IInv'
<1>1. db' = db /\ firing' \subseteq RuleIds
  BY DEF Governs
<1>2. checks' \subseteq Declared /\ keyed' \in BOOLEAN
  BY DEF Governs, AddChecks, IInv, TypeOK
<1>3. TypeOK' /\ OneSingleton' /\ RulesAreWhole'
  BY <1>1, <1>2 DEF IInv, TypeOK, OneSingleton, RulesAreWhole, Stored
<1>4. ChecksHold'
  <2>1. CASE UNCHANGED checks
    BY <1>1, <2>1 DEF IInv, ChecksHold, Fits
  <2>2. CASE AddChecks
    <3>. SUFFICES ASSUME NEW t \in Tables, NEW id \in DOMAIN db[t],
                         NEW b \in BrokenIn(t, db[t][id].data)
                  PROVE  <<t, b[1], b[2]>> \notin checks'
      BY <1>1 DEF ChecksHold, Fits
    <3>1. <<t, b[1], b[2]>> \notin checks
      BY DEF IInv, ChecksHold, Fits
    <3>2. <<b[1], b[2]>> \in BrokenIn(t, db[t][id].data)
      BY BrokenByColumn
    <3>3. Breaks(<<t, b[1], b[2]>>)
      BY <3>2 DEF Breaks
    <3>. QED BY <2>2, <3>1, <3>3 DEF AddChecks
  <2>. QED BY <2>1, <2>2 DEF Governs
<1>. QED BY <1>3, <1>4 DEF IInv

LEMMA StepIInv == IInv /\ [Next]_vars => IInv'
BY StepShape, SavePreserves, RemovalPreserves, GovernsPreserves

LEMMA Inductive == Spec => []IInv
BY InitIInv, StepIInv, PTL DEF Spec

-----------------------------------------------------------------------------
(* What a reader should know of. *)

\* Every row keeps its columns and their types, whatever is sent to the
\* generated services and whoever writes in between.
THEOREM TypeCorrect == Spec => []TypeOK
BY Inductive, PTL DEF IInv

\* A rule only the guarded service writes is one accepted draft, whole.
THEOREM RulesAreDrafts == Spec => []RulesAreWhole
BY Inductive, PTL DEF IInv

LEMMA WholeNeedsNoBelt == RulesAreWhole => BeltNeverNeeded
<1>. SUFFICES ASSUME RulesAreWhole, NEW r \in RuleIds \ Generic, Stored("rules", r)
              PROVE  LET data == db.rules[r].data
                     IN /\ IF data.trigger_kind = "on_time"
                           THEN data.time_field # Null ELSE data.trigger_pattern # Null
                        /\ data.actions \notin {Null, Garbled} /\ ParseBody(data.actions)
                        /\ ValidateBodyForTrigger(data.trigger_kind = "on_deleted", data.actions)
  BY DEF BeltNeverNeeded
<1>. DEFINE data == db.rules[r].data
<1>1. PICK d \in Drafts[r] : Validate(d) /\ data = RuleData(d, data.active)
  BY DEF RulesAreWhole
<1>2. /\ data.trigger_kind = d.trigger_kind /\ data.time_field = d.time_field
      /\ data.trigger_pattern = d.trigger_pattern /\ data.actions = d.actions
  BY <1>1 DEF RuleData, RuleFields
<1>3. /\ IF d.trigger_kind = "on_time" THEN d.time_field # Null ELSE d.trigger_pattern # Null
      /\ d.actions \notin {Null, Garbled} /\ ParseBody(d.actions)
      /\ ValidateBodyForTrigger(d.trigger_kind = "on_deleted", d.actions)
  BY <1>1 DEF Validate
<1>. QED BY <1>2, <1>3

\* The check at fire time, parse_body and validate_body_for_trigger as the
\* engines call them, refuses nothing the guarded service stored.
THEOREM BeltIsSpare == Spec => []BeltNeverNeeded
BY RulesAreDrafts, WholeNeedsNoBelt, PTL

\* A request the row rules let through breaks no CHECK, however many were in
\* force when the row was stored and however many are now.
LEMMA ChecksNeedNoMore == IInv => RowRulesSuffice
<1>. SUFFICES ASSUME IInv, NEW t \in Tables
              PROVE  /\ \A body \in Posts[t] :
                           CreateReads(t, body) /\ BrokenIn(t, Created(t, body)) = {}
                               => Fits(t, Created(t, body))
                     /\ \A id \in Ids[t] : Live(t, id) =>
                           /\ Fits(t, db[t][id].data)
                           /\ \A data : Judged({db[t][id].data}, data, BrokenIn(t, data)) = {}
                                 => Fits(t, data)
  BY DEF RowRulesSuffice
<1>1. ASSUME NEW body \in Posts[t], BrokenIn(t, Created(t, body)) = {}
      PROVE  Fits(t, Created(t, body))
  BY <1>1 DEF Fits
<1>2. ASSUME NEW id \in Ids[t], Live(t, id)
      PROVE  Fits(t, db[t][id].data)
  BY <1>2 DEF IInv, ChecksHold, Live, Stored
<1>3. ASSUME NEW id \in Ids[t], Live(t, id), NEW data,
             Judged({db[t][id].data}, data, BrokenIn(t, data)) = {}
      PROVE  Fits(t, data)
  BY <1>2, <1>3, JudgedFits
<1>. QED BY <1>1, <1>2, <1>3

\* The row rules leave nothing for the CHECKs to refuse.
THEOREM RowRulesAreEnough == Spec => []RowRulesSuffice
BY Inductive, ChecksNeedNoMore, PTL

LEMMA ResponseReads ==
    ASSUME NEW t \in Tables, NEW data, Typed(t, data)
    PROVE  UpdateReads(t, Response(t, data)) /\ Updated(t, data, Response(t, data)) = data
<1>1. CASE t = "rules"
  BY <1>1 DEF UpdateReads, Updated, Response, RuleUpdateReads, RuleUpdated, RuleResponse, Reads,
              Decodes, Given, Typed, Fields, Optional, RuleFields, RuleOptional, RuleJson, RunJson
<1>2. CASE t = "runs"
  BY <1>2 DEF UpdateReads, Updated, Response, RunUpdateReads, RunUpdated, RunResponse, Reads,
              Decodes, Given, Typed, Fields, Optional, RunFields, RunOptional, RuleJson, RunJson
<1>3. CASE t = "postures"
  BY <1>3 DEF UpdateReads, Updated, Response, PostureUpdateReads, PostureUpdated,
              PostureResponse, Reads, Decodes, Given, Typed, Fields, Optional, PostureFields,
              PostureOptional, RuleJson, RunJson
<1>. QED BY <1>1, <1>2, <1>3 DEF Tables

\* A GET can be PUT back, whatever was stored before the rules and the keys.
LEMMA NothingIsAskedAgain == IInv => ResponsesRoundTrip
<1>. SUFFICES ASSUME IInv, NEW t \in Tables, NEW id \in Ids[t], Live(t, id)
              PROVE  LET data == db[t][id].data
                         again == Updated(t, data, Response(t, data))
                     IN /\ UpdateReads(t, Response(t, data))
                        /\ Judged({data}, again, BrokenIn(t, again)) = {}
                        /\ Storable(t, id, again)
                        /\ again = data
  BY DEF ResponsesRoundTrip
<1>. DEFINE data == db[t][id].data
<1>1. id \in DOMAIN db[t]
  BY DEF Live, Stored
<1>2. Typed(t, data) /\ Storable(t, id, data)
  BY <1>1, StorableAgain
<1>3. UpdateReads(t, Response(t, data)) /\ Updated(t, data, Response(t, data)) = data
  BY <1>2, ResponseReads
<1>4. Judged({data}, data, BrokenIn(t, data)) = {}
  BY DEF Judged
<1>. QED BY <1>2, <1>3, <1>4

\* What a response says can be sent back.
THEOREM RoundTrips == Spec => []ResponsesRoundTrip
BY Inductive, NothingIsAskedAgain, PTL

\* What a step may do to the runs while the keys are in force.
Kept ==
    \A x \in DOMAIN db'.runs :
        LET rule == db'.runs[x].data.automation_id
        IN \/ rule \in DOMAIN db'.rules
           \/ /\ x \in DOMAIN db.runs /\ db.runs[x].data.automation_id = rule
              /\ rule \notin DOMAIN db.rules

LEMMA StepKeeps ==
    ASSUME IInv, [Next]_vars, keyed
    PROVE  Kept
<1>. SUFFICES ASSUME NEW x \in DOMAIN db'.runs, NEW rule,
                     rule = db'.runs[x].data.automation_id, rule \notin DOMAIN db'.rules
              PROVE  /\ x \in DOMAIN db.runs /\ db.runs[x].data.automation_id = rule
                     /\ rule \notin DOMAIN db.rules
  BY DEF Kept
<1>. DEFINE Goal == /\ x \in DOMAIN db.runs /\ db.runs[x].data.automation_id = rule
                    /\ rule \notin DOMAIN db.rules
<1>1. DOMAIN db = Tables /\ "runs" \in Tables /\ "rules" \in Tables
  BY DEF IInv, TypeOK, Tables
<1>2. ASSUME NEW t \in Tables, NEW id \in Ids[t], NEW data, NEW deleted \in BOOLEAN,
             Saves(t, id, data, deleted)
      PROVE  Goal
  <2>1. /\ \A u \in Tables : u # t => db'[u] = db[u]
        /\ db'[t] = With(db[t], id, [data |-> data, deleted |-> deleted])
    BY <1>1, <1>2 DEF Saves
  <2>2. DOMAIN db.rules \subseteq DOMAIN db'.rules
    BY <1>1, <2>1 DEF With
  <2>3. CASE t = "runs" /\ x = id
    <3>1. db'.runs[x].data = data
      BY <2>1, <2>3 DEF With
    <3>2. Typed("runs", data) /\ Referenced("runs", id, data)
      BY <1>2, <2>3 DEF Saves, Storable
    <3>3. data.automation_id # Null
      BY <3>2 DEF Typed, Fields, Optional, RunFields, RunOptional, RuleJson, RunJson
    <3>4. KeyHolds(id, "automation_id", data, Stored("rules", data.automation_id))
      BY <3>2 DEF Referenced
    <3>. QED BY <2>2, <2>3, <3>1, <3>3, <3>4 DEF KeyHolds, Stored
  <2>4. CASE ~(t = "runs" /\ x = id)
    <3>1. x \in DOMAIN db.runs /\ db'.runs[x] = db.runs[x]
      BY <1>1, <2>1, <2>4 DEF With
    <3>. QED BY <2>2, <3>1
  <2>. QED BY <2>3, <2>4
<1>3. ASSUME NEW t \in Tables, NEW ids \in SUBSET DOMAIN db[t], Removes(t, ids)
      PROVE  Goal
  <2>1. /\ \A u \in Tables : u # t => db'[u] = db[u]
        /\ DOMAIN db'[t] = ids
        /\ \A i \in ids : db'[t][i] = db[t][i]
    BY <1>1, <1>3, AfterRemoval DEF Removes
  <2>2. x \in DOMAIN db.runs /\ db'.runs[x] = db.runs[x]
    BY <1>1, <2>1
  <2>3. CASE t = "rules"
    BY <1>1, <1>3, <2>1, <2>2, <2>3 DEF Removes
  <2>4. CASE t # "rules"
    BY <1>1, <2>1, <2>2, <2>4
  <2>. QED BY <2>2, <2>3, <2>4
<1>4. CASE Governs
  BY <1>4 DEF Governs
<1>. QED BY <1>2, <1>3, <1>4, StepShape

\* No run loses its rule and none is written without one, once keys are in
\* force, with purges and rollbacks racing deliveries that loaded the rule.
THEOREM KeysKeep == Spec => NoNewOrphans
<1>1. IInv /\ [Next]_vars => [keyed => Kept]_vars
  BY StepKeeps
<1>. QED BY <1>1, Inductive, PTL DEF Spec, NoNewOrphans, Kept

\* What a step may do to a retired rule.
Rests ==
    \A r \in RuleIds \ Generic :
        Stored("rules", r) /\ db.rules[r].deleted /\ r \in DOMAIN db'.rules
            => db'.rules[r] = db.rules[r]

LEMMA StepRests ==
    ASSUME IInv, [Next]_vars
    PROVE  Rests
<1>. SUFFICES ASSUME NEW r \in RuleIds \ Generic, r \in DOMAIN db.rules,
                     db.rules[r].deleted, r \in DOMAIN db'.rules
              PROVE  db'.rules[r] = db.rules[r]
  BY DEF Rests, Stored
<1>1. DOMAIN db = Tables /\ "rules" \in Tables
  BY DEF IInv, TypeOK, Tables
<1>2. ASSUME NEW t \in Tables, NEW id \in Ids[t], NEW data, NEW deleted \in BOOLEAN,
             Saves(t, id, data, deleted)
      PROVE  db'.rules[r] = db.rules[r]
  <2>1. /\ \A u \in Tables : u # t => db'[u] = db[u]
        /\ db'[t] = With(db[t], id, [data |-> data, deleted |-> deleted])
    BY <1>1, <1>2 DEF Saves
  <2>2. ~(t = "rules" /\ id = r)
    BY <1>2 DEF Saves, Stored
  <2>. QED BY <1>1, <2>1, <2>2 DEF With
<1>3. ASSUME NEW t \in Tables, NEW ids \in SUBSET DOMAIN db[t], Removes(t, ids)
      PROVE  db'.rules[r] = db.rules[r]
  BY <1>1, <1>3, AfterRemoval DEF Removes
<1>4. CASE Governs
  BY <1>4 DEF Governs
<1>. QED BY <1>2, <1>3, <1>4, StepShape

\* A retired rule is not revived or rewritten by the guarded service.
THEOREM RetiredStays == Spec => RetiredStaysRetired
<1>1. IInv /\ [Next]_vars => [Rests]_vars
  BY StepRests
<1>. QED BY <1>1, Inductive, PTL DEF Spec, RetiredStaysRetired, Rests

\* What a tick leaves for the next one to read.
Recorded ==
    \A o \in Observations :
        RecordPosture(o) =>
            /\ PostureRows(db'.postures) # {}
            /\ \A p \in PostureRows(db'.postures) :
                  \A c \in PostureFields \ {"singleton"} : db'.postures[p].data[c] = o[c]

\* The row the upsert wrote is the only singleton before and after.
LEMMA StepRecords ==
    ASSUME IInv
    PROVE  Recorded
<1>. SUFFICES ASSUME NEW o \in Observations, RecordPosture(o)
              PROVE  /\ PostureRows(db'.postures) # {}
                     /\ \A p \in PostureRows(db'.postures) :
                           \A c \in PostureFields \ {"singleton"} :
                               db'.postures[p].data[c] = o[c]
  BY DEF Recorded
<1>1. DOMAIN db = Tables /\ "postures" \in Tables
  BY DEF IInv, TypeOK, Tables
<1>2. PICK p \in PostureIds, deleted \in BOOLEAN :
          Saves("postures", p, PostureData(o), deleted)
  BY PostureSaves
<1>3. db'.postures = With(db.postures, p, [data |-> PostureData(o), deleted |-> deleted])
  BY <1>1, <1>2 DEF Saves
<1>4. /\ p \in DOMAIN db'.postures /\ db'.postures[p].data = PostureData(o)
      /\ \A q \in DOMAIN db'.postures \ {p} :
            q \in DOMAIN db.postures /\ db'.postures[q] = db.postures[q]
  BY <1>3 DEF With
<1>5. /\ PostureData(o).singleton = TRUE
      /\ \A c \in PostureFields \ {"singleton"} : PostureData(o)[c] = o[c]
  BY DEF PostureData, PostureFields
<1>6. \A q \in DOMAIN db'.postures \ {p} : db'.postures[q].data.singleton # TRUE
  <2>1. \A q \in DOMAIN db.postures \ {p} : db.postures[q].data.singleton # TRUE
    BY <1>2, <1>5 DEF Saves, Storable, Unique, Stored, IInv, TypeOK, Ids, Tables
  <2>. QED BY <1>4, <2>1
<1>. QED BY <1>4, <1>5, <1>6 DEF PostureRows

\* A recorded posture is the one read back.
THEOREM PostureReadsBack == Spec => ReadsBack
<1>1. IInv /\ [Next]_vars => [Recorded]_vars
  BY StepRecords
<1>. QED BY <1>1, Inductive, PTL DEF Spec, ReadsBack, Recorded

-----------------------------------------------------------------------------
(* How far a pattern reaches. *)

\* A path whose last segment another word takes.
LEMMA Turned ==
    ASSUME NEW path \in EventTypes, path # <<>>, NEW word \in Segments
    PROVE  LET turned == [path EXCEPT ![Len(path)] = word]
           IN /\ Len(turned) = Len(path) /\ DOMAIN turned = 1..Len(path)
              /\ \A i \in 1..(Len(path) - 1) : turned[i] = path[i]
              /\ turned[Len(path)] = word
<1>. DEFINE n == Len(path)
            turned == [path EXCEPT ![n] = word]
<1>1. n \in Nat \ {0} /\ path \in [1..n -> Segments]
  BY DEF EventTypes
<1>. HIDE DEF n
<1>2. turned \in [1..n -> Segments]
  BY <1>1
<1>3. /\ DOMAIN turned = 1..n /\ turned[n] = word
      /\ \A i \in 1..(n - 1) : turned[i] = path[i]
  BY <1>1
<1>. HIDE DEF turned
<1>4. Len(turned) = n
  BY <1>1, <1>2, LenProperties, SeqDef
<1>. QED BY <1>3, <1>4 DEF turned, n

\* What starts_with finds, segment by segment: the path, or one whose last
\* segment is a longer word.
LEMMA PrefixReach ==
    ASSUME NEW type \in EventTypes, NEW path \in EventTypes, path # <<>>
    PROVE  StartsWith(type, path) <=> Under(type, path) \/ Strays(type, path)
<1>. DEFINE n == Len(path)
            turned(word) == [path EXCEPT ![n] = word]
<1>1. /\ n \in Nat \ {0} /\ Len(type) \in Nat /\ DOMAIN path = 1..n
      /\ \A i \in 1..Len(type) : type[i] \in Segments
  BY DEF EventTypes
<1>2. ASSUME Under(type, path)
      PROVE  StartsWith(type, path)
  <2>1. n <= Len(type) /\ \A i \in 1..n : type[i] = path[i]
    BY <1>1, <1>2 DEF Under
  <2>2. path[n] = type[n] /\ type[n] \in Segments
    BY <1>1, <2>1
  <2>3. path[n] \in Begins[type[n]]
    BY <2>2, BeginsAssumption
  <2>. QED BY <1>1, <2>1, <2>3 DEF StartsWith
<1>3. ASSUME Strays(type, path)
      PROVE  StartsWith(type, path)
  <2>1. PICK word \in Segments : path[n] \in Begins[word] /\ Under(type, turned(word))
    BY <1>3 DEF Strays
  <2>2. n <= Len(type) /\ type[n] = word /\ \A i \in 1..(n - 1) : type[i] = path[i]
    BY <1>1, <2>1, Turned DEF Under
  <2>. QED BY <1>1, <2>1, <2>2 DEF StartsWith
<1>4. ASSUME StartsWith(type, path)
      PROVE  Under(type, path) \/ Strays(type, path)
  <2>1. /\ n <= Len(type) /\ \A i \in 1..(n - 1) : type[i] = path[i]
        /\ type[n] \in Segments /\ path[n] \in Begins[type[n]]
    BY <1>1, <1>4 DEF StartsWith
  <2>2. CASE type[n] = path[n]
    BY <1>1, <2>1, <2>2 DEF Under
  <2>3. CASE type[n] # path[n]
    <3>1. Under(type, turned(type[n]))
      BY <1>1, <2>1, Turned DEF Under
    <3>. QED BY <2>1, <2>3, <3>1 DEF Strays
  <2>. QED BY <2>2, <2>3
<1>. QED BY <1>2, <1>3, <1>4

LEMMA WholeWatches == RulesAreWhole => PatternsWatch
<1>. SUFFICES ASSUME RulesAreWhole, NEW r \in RuleIds \ Generic, NEW type \in Arriving,
                     Stored("rules", r), db.rules[r].data.trigger_pattern # Null
              PROVE  LET p == db.rules[r].data.trigger_pattern
                     IN IF p.form = "prefix"
                        THEN PatternMatches(p, type) <=>
                                Under(type, p.path) \/ Strays(type, p.path)
                        ELSE PatternMatches(p, type) <=> p.form = "any" \/ p.path = type
  BY DEF PatternsWatch
<1>. DEFINE p == db.rules[r].data.trigger_pattern
<1>1. PICK d \in Drafts[r] : Validate(d) /\ db.rules[r].data = RuleData(d, db.rules[r].data.active)
  BY DEF RulesAreWhole
<1>2. p = d.trigger_pattern
  BY <1>1 DEF RuleData, RuleFields
<1>3. p \in Pattern /\ ValidatePattern(p)
  BY <1>1, <1>2, PatternAssumption DEF Validate
<1>4. type \in EventTypes /\ p.path \in EventTypes
  BY <1>3, BoundAssumption DEF Pattern
<1>. HIDE DEF p
<1>5. CASE p.form = "prefix"
  <2>1. p.path # <<>>
    BY <1>3, <1>5 DEF ValidatePattern
  <2>2. PatternMatches(p, type) <=> StartsWith(type, p.path)
    BY <1>5 DEF PatternMatches
  <2>. QED BY <1>4, <1>5, <2>1, <2>2, PrefixReach DEF p
<1>6. CASE p.form # "prefix"
  BY <1>3, <1>6 DEF ValidatePattern, PatternMatches, p
<1>. QED BY <1>5, <1>6

\* A stored `path.*` matches the path, what is below it, and exactly those other
\* types that are under the path with a longer word for its last segment: no
\* sibling that begins otherwise, for paths and types of any length and every
\* alphabet of segments.
THEOREM PatternsReach == Spec => []PatternsWatch
BY RulesAreDrafts, WholeWatches, PTL

-----------------------------------------------------------------------------
(* What an accepted draft may break. *)

\* A text within so many bytes has no more characters once it is trimmed, and
\* what was not blank stays so.
LEMMA Trimmed ==
    ASSUME NEW t \in Text, ~Blank(t), NEW longest \in 0..120, t.bytes <= longest
    PROVE  Trim(t).chars \in 0..120 /\ ~Blank(Trim(t))
<1>1. /\ t.bytes \in Nat /\ t.chars \in Nat /\ t.pad \in Nat
      /\ t.pad <= t.chars /\ t.chars <= t.bytes
  BY DEF Text
<1>2. t.chars # t.pad
  BY DEF Blank
<1>3. Trim(t).chars = t.chars - t.pad /\ Trim(t).pad = 0
  BY DEF Trim
<1>. QED BY <1>1, <1>2, <1>3 DEF Blank

\* The one bound of the service that is wider than the database's is on
\* descriptions.
LEMMA OnlyDescription ==
    ASSUME NEW r \in RuleIds, NEW d \in Drafts[r], Validate(d), NEW active,
           active \in BOOLEAN, NEW b \in BrokenIn("rules", RuleData(d, active))
    PROVE  /\ b = <<"description", "max_length">>
           /\ d.description # Null /\ d.description.chars > 500
<1>. DEFINE data == RuleData(d, active)
<1>1. /\ data.name = Trim(d.name) /\ data.model = Trim(d.model)
      /\ data.description = d.description /\ data.trigger_pattern = d.trigger_pattern
      /\ data.time_field = d.time_field /\ data.created_by_source = d.created_by_source
  BY DEF RuleData, RuleFields
<1>. HIDE DEF data
<1>2. /\ d.name \in Text /\ d.model \in Text
      /\ d.time_field # Null => d.time_field \in Text
      /\ d.created_by_source # Null => d.created_by_source \in Text
      /\ d.trigger_pattern # Null => d.trigger_pattern \in Pattern
  BY TextAssumption, PatternAssumption
<1>3. /\ ~Blank(d.name) /\ d.name.bytes <= 120
      /\ ~Blank(d.model) /\ d.model.bytes <= 63
      /\ d.created_by_source # Null => d.created_by_source.bytes <= 63
      /\ d.time_field # Null => d.time_field.bytes <= 63
      /\ d.trigger_pattern # Null => d.trigger_pattern.bytes \in 1..160
  BY DEF Validate, Within, ValidatePattern, MaxName, MaxModel, MaxTimeField, MaxPattern
<1>4. /\ data.name.chars \in 0..120 /\ ~Blank(data.name)
      /\ data.model.chars \in 0..120 /\ ~Blank(data.model)
  BY <1>1, <1>2, <1>3, Trimmed
<1>5. /\ data.created_by_source # Null => data.created_by_source.chars \in 0..120
      /\ data.time_field # Null => data.time_field.chars \in 0..63
      /\ data.trigger_pattern # Null => data.trigger_pattern.chars \in 0..160
  BY <1>1, <1>2, <1>3 DEF Text, Pattern
<1>6. data.name # Null /\ data.model # Null
  <2>1. Typed("rules", data)
    BY TypedAssumption DEF data
  <2>. QED BY <2>1 DEF Typed, Fields, Optional, RuleFields, RuleOptional, RuleJson, RunJson
<1>7. b \in Broken(data, RuleLongest, {"name", "model"})
  BY DEF BrokenIn, RuleBroken, data
<1>8. ~\E c \in {"name", "model"} : data[c] = Null \/ Blank(data[c])
  BY <1>4, <1>6
<1>9. PICK c \in DOMAIN RuleLongest :
          data[c] # Null /\ data[c].chars > RuleLongest[c] /\ b = <<c, "max_length">>
  BY <1>7, <1>8 DEF Broken
<1>10. c = "description"
  <2>1. c \in {"name", "description", "model", "trigger_pattern", "time_field",
               "created_by_source"}
    BY DEF RuleLongest
  <2>2. /\ RuleLongest.name = 120 /\ RuleLongest.model = 120
        /\ RuleLongest.trigger_pattern = 160 /\ RuleLongest.time_field = 63
        /\ RuleLongest.created_by_source = 120
    BY DEF RuleLongest
  <2>3. c \notin {"name", "model"}
    BY <1>4, <1>9, <2>2
  <2>4. c \notin {"trigger_pattern", "time_field", "created_by_source"}
    BY <1>5, <1>9, <2>2
  <2>. QED BY <2>1, <2>3, <2>4
<1>. QED BY <1>1, <1>9, <1>10 DEF RuleLongest

\* Of all CHECKs that can ever be in force only the one on descriptions can
\* refuse a draft that RuleDraft::validate accepted, for texts of any size in
\* bytes and characters.
THEOREM AcceptedIsStorable == Spec => []AcceptedFits
<1>1. AcceptedFits
  BY OnlyDescription DEF AcceptedFits
<1>. QED BY <1>1, PTL

-----------------------------------------------------------------------------
(* How a list is cut into pages. *)

\* Products, for solvers that find them hard.
LEMMA Products ==
    ASSUME NEW a \in Nat, NEW b \in Nat, NEW c \in Nat
    PROVE  /\ a <= b => a * c <= b * c
           /\ a * c \in Nat /\ (a + 1) * c = a * c + c /\ 1 * c = c
OBVIOUS

\* What a division leaves over is less than the divisor.
LEMMA Quotient ==
    ASSUME NEW a \in Nat, NEW d \in Nat \ {0}
    PROVE  a \div d \in Nat /\ (a \div d) * d <= a /\ a < (a \div d) * d + d
OBVIOUS

\* The quotient rounded up counts the multiples of d under the total.
LEMMA CeilingCounts ==
    ASSUME NEW total \in Nat, NEW d \in Nat \ {0}
    PROVE  /\ Ceiling(total, d) \in 0..total
           /\ \A n \in Nat : n < Ceiling(total, d) <=> n * d < total
<1>. DEFINE q == Ceiling(total, d)
<1>1. q \in Nat /\ q * d <= total + d - 1 /\ total + d - 1 < q * d + d
  <2>1. total + d - 1 \in Nat
    OBVIOUS
  <2>. QED BY <2>1, Quotient DEF Ceiling
<1>. HIDE DEF q
<1>2. ASSUME NEW n \in Nat
      PROVE  n < q <=> n * d < total
  <2>1. CASE n < q
    <3>1. (n + 1) * d <= q * d /\ (n + 1) * d = n * d + d /\ n * d \in Nat
      BY <1>1, <2>1, Products
    <3>2. q * d \in Nat
      BY <1>1, Products
    <3>. QED BY <1>1, <2>1, <3>1, <3>2
  <2>2. CASE q <= n
    <3>1. q * d <= n * d /\ n * d \in Nat /\ q * d \in Nat
      BY <1>1, <2>2, Products
    <3>. QED BY <1>1, <2>2, <3>1
  <2>. QED BY <1>1, <2>1, <2>2
<1>3. q <= total
  <2>1. total * 1 <= total * d /\ total * 1 = total /\ total * d \in Nat
    OBVIOUS
  <2>. QED BY <1>1, <1>2, <2>1
<1>. QED BY <1>1, <1>2, <1>3 DEF q

\* A list of fewer than U rows is cut without a row left out or shown twice,
\* and no product wraps.
LEMMA PagesAreSlices ==
    ASSUME NEW total \in Nat, total < U, NEW per_page \in 1..(U - 1),
           NEW page \in 1..TotalPages(total, per_page)
    PROVE  /\ Offset(page, per_page) = (page - 1) * per_page
           /\ Offset(page, per_page) < total
           /\ HasNext(total, page, per_page) <=> page * per_page < total
<1>1. U \in Nat \ {0, 1} /\ per_page \in Nat \ {0}
  BY BoundAssumption
<1>2. /\ Ceiling(total, per_page) \in 0..total
      /\ \A n \in Nat : n < Ceiling(total, per_page) <=> n * per_page < total
  BY <1>1, CeilingCounts
<1>3. TotalPages(total, per_page) = Ceiling(total, per_page)
  BY <1>1, <1>2 DEF TotalPages
<1>4. page \in Nat \ {0} /\ page - 1 \in Nat /\ page - 1 < Ceiling(total, per_page)
  BY <1>2, <1>3
<1>5. (page - 1) * per_page \in Nat /\ (page - 1) * per_page < total
  BY <1>1, <1>2, <1>4, Products
<1>6. Offset(page, per_page) = (page - 1) * per_page
  <2>. DEFINE first == (page - 1) * per_page
  <2>1. Offset(page, per_page) = first % U
    BY <1>4 DEF Offset
  <2>2. first \in Nat /\ first < U
    BY <1>1, <1>5
  <2>. HIDE DEF first
  <2>3. first % U = first
    BY <1>1, <2>2
  <2>. QED BY <2>1, <2>3 DEF first
<1>7. HasNext(total, page, per_page) <=> page * per_page < total
  BY <1>2, <1>3, <1>4 DEF HasNext
<1>. QED BY <1>5, <1>6, <1>7

\* Whatever is stored, a list's pages hold each of its rows once and has_next
\* ends with the last, for every width of the integers: as long as there are
\* fewer rows than U, the case the property is about.
THEOREM PagesArePartition ==
    ASSUME \A t \in Tables : IsFiniteSet(Ids[t])
    PROVE  Spec => []PagesPartition
<1>1. PagesPartition
  <2>. SUFFICES ASSUME NEW t \in Tables, NEW more \in 0..(U - 1), NEW per_page \in 1..(U - 1),
                       NEW total,
                       total = more + Cardinality({id \in Ids[t] : Live(t, id)}), total < U,
                       NEW page \in 1..TotalPages(total, per_page)
                PROVE  /\ Offset(page, per_page) = (page - 1) * per_page
                       /\ Offset(page, per_page) < total
                       /\ HasNext(total, page, per_page) <=> page * per_page < total
    BY DEF PagesPartition
  <2>1. Cardinality({id \in Ids[t] : Live(t, id)}) \in Nat
    <3>1. {id \in Ids[t] : Live(t, id)} \in SUBSET Ids[t]
      OBVIOUS
    <3>. QED BY <3>1, FS_Subset, FS_CardinalityType
  <2>2. total \in Nat
    BY <2>1, BoundAssumption
  <2>. QED BY <2>2, PagesAreSlices
<1>. QED BY <1>1, PTL

=============================================================================
