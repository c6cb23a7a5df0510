------------------------ MODULE ContentPipelineProofs ------------------------
(***************************************************************************)
(* Proofs about the content pipeline, for any number of runs.              *)
(*                                                                         *)
(* NoStaleParts is not inductive: it speaks of what a run has taken from   *)
(* the fields, and what it will find there depends on who may have written *)
(* them since the run itself did.  The inductive invariant adds that any   *)
(* two active runs know of each other (Mutual), so that whoever overwrites *)
(* a field is a run that overlaps, and that a field which a run has passed *)
(* holds a part of that run or of one that overlaps with it (Fresh).  The  *)
(* rest says that a package is whole before it is stored (Packed), that a  *)
(* run that has not begun has taken nothing (Unused), and that a call of   *)
(* initialize() has been counted before it awaits (Counted).               *)
(***************************************************************************)
EXTENDS ContentPipeline, TLAPS

Rest == {"PUBLISHING_PACKAGE", "storing", "COMPLETED"}
FromComposition == {"COMPOSITION", "RENDERING", "QUALITY_ASSURANCE"} \cup Rest
FromVoice == {"MUSIC_GENERATION", "SFX_GENERATION"} \cup FromComposition
FromImages == {"VOICE_GENERATION", "producing audio"} \cup FromVoice
FromScenes == {"IMAGE_GENERATION", "resolving images"} \cup FromImages

\* s is a stage in which a run has left its part in the field f.
Past(s, f) ==
    \/ f = "narrative" /\ s \in {"SCENE_PLANNING"} \cup FromScenes
    \/ f = "plans" /\ s \in FromScenes
    \/ f = "manifest" /\ s \in FromImages
    \/ f = "audio" /\ s \in FromVoice
    \/ f = "task" /\ s \in {"starting", "STORYBOARD", "SCENE_PLANNING"} \cup FromScenes

Mutual == \A p, q \in Runs : Active(p) /\ Active(q) /\ p # q => q \in overlaps[p]
Fresh == \A r \in Runs, f \in Fields : Past(stage[r], f) => field[f] \in Sources(r)
Packed == \A r \in Runs, f \in Fields \ {"task"} :
              stage[r] \in {"storing", "COMPLETED"} => pack[r][f] # None

Unused == \A r \in Runs : stage[r] = "idle" =>
              /\ filed[r] = {} /\ r \notin reports
              /\ \A f \in Fields : timeline[r][f] = None /\ pack[r][f] = None
Counted == initializing <= calls

Others == NoStaleParts /\ Mutual /\ Fresh /\ Packed /\ Unused
Inv == TypeOK /\ Counted /\ Others

-----------------------------------------------------------------------------
LEMMA InitInv == Init => Inv
  <1> SUFFICES ASSUME Init PROVE Inv
    OBVIOUS
  <1>1. TypeOK
    BY CallsAssumption, RunsAssumption, SMTT(30) DEF Init, TypeOK, Ended, Part, Nothing
  <1>2. \A r \in Runs : stage[r] = "idle" /\ ~Active(r)
    BY DEF Init, Active, Ended
  <1>3. NoStaleParts
    BY DEF Init, NoStaleParts, Sources, Nothing
  <1>4. \A f \in Fields : ~Past("idle", f)
    BY DEF Fields, Past, FromScenes, FromImages, FromVoice, FromComposition, Rest
  <1>5. Unused /\ Counted
    BY CallsAssumption DEF Init, Unused, Counted, Nothing
  <1> QED BY <1>1, <1>2, <1>3, <1>4, <1>5 DEF Inv, Others, Mutual, Fresh, Packed

-----------------------------------------------------------------------------
\* A run that has left its part somewhere is active.
LEMMA PastIsActive == \A s, f : Past(s, f) => s \notin Ended
  BY DEF Past, Ended, FromScenes, FromImages, FromVoice, FromComposition, Rest

\* The only stages that lead past a field are those that write it.
LEMMA Writers ==
    \A f :
      /\ Past("SCENE_PLANNING", f) => Past("STORYBOARD", f) \/ f = "narrative"
      /\ Past("IMAGE_GENERATION", f) => Past("SCENE_PLANNING", f) \/ f = "plans"
      /\ Past("resolving images", f) => Past("IMAGE_GENERATION", f)
      /\ Past("VOICE_GENERATION", f) => Past("resolving images", f) \/ f = "manifest"
      /\ Past("producing audio", f) => Past("VOICE_GENERATION", f)
      /\ Past("MUSIC_GENERATION", f) => Past("producing audio", f) \/ f = "audio"
      /\ Past("SFX_GENERATION", f) => Past("MUSIC_GENERATION", f)
      /\ Past("COMPOSITION", f) => Past("SFX_GENERATION", f)
      /\ Past("RENDERING", f) => Past("COMPOSITION", f)
      /\ Past("QUALITY_ASSURANCE", f) => Past("RENDERING", f)
      /\ Past("PUBLISHING_PACKAGE", f) => Past("QUALITY_ASSURANCE", f)
      /\ Past("storing", f) => Past("PUBLISHING_PACKAGE", f)
      /\ Past("COMPLETED", f) => Past("storing", f)
  BY DEF Past, FromScenes, FromImages, FromVoice, FromComposition, Rest

\* A stage keeps the runs aware of each other and the fields fresh, if it leaves
\* its part where it should and touches no other field.
LEMMA Progress ==
    ASSUME TypeOK, Mutual, Fresh, overlaps' = overlaps,
           NEW r \in Runs, NEW from \in Stages, NEW to, Passes(r, from, to),
           NEW g \in Fields, field' = field \/ Leaves(r, g),
           \A f \in Fields : Past(to, f) => Past(from, f) \/ field'[f] = r
    PROVE  Mutual' /\ Fresh'
  <1>1. stage[r] = from /\ stage' = [stage EXCEPT ![r] = to] /\ DOMAIN stage = Runs
    BY DEF TypeOK, Passes
  <1>2. Active(r)
    BY <1>1 DEF Active, Stages, Ended
  <1>3. \A p \in Runs : Active(p)' => Active(p)
    BY <1>1, <1>2 DEF Active
  <1>4. Mutual'
    BY <1>3 DEF Mutual
  <1>5. ASSUME NEW p \in Runs, NEW f \in Fields, Past(stage'[p], f)
        PROVE  field'[f] \in Sources(p)
    <2>0. field'[f] = field[f] \/ field'[f] = r
      BY DEF Leaves, TypeOK
    <2>1. CASE p = r
      <3>1. Past(from, f) \/ field'[f] = r
        BY <1>1, <1>5, <2>1
      <3> QED BY <1>1, <2>0, <2>1, <3>1 DEF Fresh, Sources
    <2>2. CASE p # r
      <3>1. Past(stage[p], f) /\ Active(p)
        BY <1>1, <1>5, <2>2, PastIsActive DEF Active
      <3>2. r \in overlaps[p] /\ field[f] \in Sources(p)
        BY <1>2, <2>2, <3>1 DEF Mutual, Fresh
      <3> QED BY <2>0, <3>2 DEF Sources
    <2> QED BY <2>1, <2>2
  <1>6. Fresh'
    BY <1>5 DEF Fresh, Sources
  <1> QED BY <1>4, <1>6

\* The state, the lifecycle calls and the reports may change as they like: the rest
\* of what is proved depends on none of them.
LEMMA Elsewhere ==
    ASSUME Inv, UNCHANGED <<stage, field, filed, timeline, pack, reports, overlaps>>
    PROVE  Others'
  BY DEF Inv, Others, NoStaleParts, Mutual, Fresh, Packed, Unused, Sources, Active

\* A stage of a run's own, or one that only writes a field.
LEMMA Working ==
    ASSUME Inv, NEW r \in Runs, NEW from \in Stages, NEW to \in Stages, Passes(r, from, to),
           to \in {"storing", "COMPLETED"} => \A f \in Fields \ {"task"} : pack[r][f] # None,
           UNCHANGED <<overlaps, filed, timeline, pack, reports>>,
           NEW g \in Fields, field' = field \/ Leaves(r, g),
           \A f \in Fields : Past(to, f) => Past(from, f) \/ field'[f] = r
    PROVE  Others'
  <1>1. /\ stage'[r] = to /\ to # "idle"
        /\ \A p \in Runs \ {r} : stage'[p] = stage[p]
    BY DEF Inv, TypeOK, Passes, Stages
  <1>2. Mutual' /\ Fresh'
    BY Progress DEF Inv, Others
  <1>3. NoStaleParts'
    BY DEF Inv, Others, NoStaleParts, Sources
  <1>4. Packed' /\ Unused'
    BY <1>1 DEF Inv, Others, Packed, Unused
  <1> QED BY <1>2, <1>3, <1>4 DEF Others

\* A run that ends, or begins its first stage, takes nothing from the fields.
LEMMA Leaving ==
    ASSUME Inv, NEW r \in Runs, NEW s \in (Ended \ {"idle"}) \cup {"STORYBOARD"},
           s = "STORYBOARD" => stage[r] = "starting",
           stage' = [stage EXCEPT ![r] = s],
           UNCHANGED <<field, filed, timeline, pack, reports, overlaps>>
    PROVE  Others'
  <1>1. /\ stage'[r] = s /\ \A p \in Runs \ {r} : stage'[p] = stage[p]
        /\ s \notin {"storing", "COMPLETED", "idle"}
    BY DEF Inv, TypeOK, Ended
  <1>2. \A p \in Runs : Active(p)' => Active(p)
    BY <1>1 DEF Active, Ended
  <1>3. \A p \in Runs, f \in Fields : Past(stage'[p], f) => Past(stage[p], f)
    BY <1>1, PastIsActive
       DEF Past, FromScenes, FromImages, FromVoice, FromComposition, Rest
  <1>4. Mutual'
    BY <1>2 DEF Inv, Others, Mutual
  <1>5. Fresh'
    BY <1>3 DEF Inv, Others, Fresh, Sources
  <1>6. NoStaleParts' /\ Packed' /\ Unused'
    BY <1>1 DEF Inv, Others, NoStaleParts, Packed, Unused, Sources
  <1> QED BY <1>4, <1>5, <1>6 DEF Others

-----------------------------------------------------------------------------
\* That a file has a task to be filed under is what Fresh says of a run under way.
LEMMA TypeStep ==
    ASSUME TypeOK, Counted, Fresh, [Next]_vars
    PROVE  TypeOK' /\ Counted'
  <1> USE DEF TypeOK, Counted, Part, Fields
  <1>1. CASE UNCHANGED vars
    BY <1>1 DEF vars
  <1>2. CASE Initialize \/ Initialized \/ Start \/ Pause \/ Resume \/ Stop
    BY <1>2, CallsAssumption DEF Initialize, Initialized, Start, Pause, Resume, Stop, Moves, Call, runVars
  <1>3. ASSUME NEW r \in Runs,
               \/ Execute(r) \/ Starts(r) \/ Storyboard(r) \/ ScenePlanning(r)
               \/ CallsProducer(r) \/ ImageGeneration(r) \/ VoiceGeneration(r)
               \/ OwnStage(r) \/ Composition(r) \/ PublishingPackage(r)
               \/ Completes(r) \/ Delivers(r) \/ Fails(r)
        PROVE  TypeOK' /\ Counted'
    <2> DEFINE S == Ended \cup {"starting"} \cup Stages
    <2>1. \E x \in S : stage' = [stage EXCEPT ![r] = x]
      <3> USE DEF Passes, Stages, Ended
      <3>1. CASE Execute(r) \/ Starts(r) \/ Delivers(r) \/ Fails(r)
        BY <3>1 DEF Execute, Starts, Delivers, Fails
      <3>2. CASE Storyboard(r) \/ ScenePlanning(r) \/ ImageGeneration(r) \/ VoiceGeneration(r)
        BY <3>2 DEF Storyboard, ScenePlanning, ImageGeneration, VoiceGeneration
      <3>3. CASE CallsProducer(r) \/ OwnStage(r)
        BY <3>3 DEF CallsProducer, OwnStage
      <3>4. CASE Composition(r) \/ PublishingPackage(r) \/ Completes(r)
        BY <3>4 DEF Composition, PublishingPackage, Completes
      <3> QED BY <1>3, <3>1, <3>2, <3>3, <3>4
    <2>2. stage' \in [Runs -> S]
      BY <2>1
    <2> HIDE DEF S
    <2> USE <2>2 DEF Shared, Leaves
    <2>3. CASE Execute(r)
      <3>1. overlaps' \in [Runs -> SUBSET Runs]
        BY <2>3 DEF Execute
      <3> QED BY <2>3, <3>1 DEF Execute, S
    <2>4. CASE Starts(r) \/ Delivers(r) \/ Fails(r) \/ OwnStage(r) \/ Completes(r)
      BY <2>4 DEF Starts, Delivers, Fails, OwnStage, Completes, S
    <2>5. CASE Storyboard(r) \/ ScenePlanning(r) \/ ImageGeneration(r) \/ VoiceGeneration(r)
      BY <2>5 DEF Storyboard, ScenePlanning, ImageGeneration, VoiceGeneration, S
    <2>6. CASE CallsProducer(r)
      <3>1. Past(stage[r], "task")
        BY <2>6 DEF CallsProducer, Passes, Past, FromScenes, FromImages
      <3>2. field["task"] \in Runs
        BY <3>1 DEF Fresh, Sources
      <3> QED BY <2>6, <3>2 DEF CallsProducer, S
    <2>7. CASE Composition(r)
      BY <2>7 DEF Composition, S
    <2>8. CASE PublishingPackage(r)
      BY <2>8 DEF PublishingPackage, S
    <2> QED BY <1>3, <2>3, <2>4, <2>5, <2>6, <2>7, <2>8
  <1> QED BY <1>1, <1>2, <1>3 DEF Next

\* Every step keeps the invariant.
LEMMA StepInv == ASSUME Inv, [Next]_vars PROVE Inv'
  <1> USE DEF Inv, Others
  <1> SUFFICES Others'
    BY TypeStep
  <1>1. CASE UNCHANGED vars
    BY <1>1, Elsewhere DEF vars
  <1>2. CASE Initialize \/ Initialized \/ Start \/ Pause \/ Resume \/ Stop
    BY <1>2, Elsewhere DEF Initialize, Initialized, Start, Pause, Resume, Stop, Moves, runVars
  <1>3. ASSUME NEW r \in Runs, Execute(r) PROVE Others'
    <2>1. /\ stage' = [stage EXCEPT ![r] = "starting"]
          /\ field' = [field EXCEPT !["task"] = r]
          /\ UNCHANGED <<filed, timeline, pack, reports>>
          /\ stage[r] = "idle"
          /\ overlaps' = [q \in Runs |->
                IF q = r THEN {p \in Runs : Active(p)}
                ELSE IF Active(q) THEN overlaps[q] \cup {r} ELSE overlaps[q]]
      BY <1>3 DEF Execute
    <2>2. /\ ~Active(r) /\ stage'[r] = "starting"
          /\ \A p \in Runs \ {r} : stage'[p] = stage[p] /\ (Active(p)' <=> Active(p))
      BY <2>1 DEF TypeOK, Active, Ended
    <2>3. Mutual'
      BY <2>1, <2>2 DEF Mutual
    <2>4. \A p \in Runs \ {r} : overlaps[p] \subseteq overlaps'[p]
      BY <2>1
    <2>5. ASSUME NEW p \in Runs, NEW f \in Fields, Past(stage'[p], f)
          PROVE  field'[f] \in Sources(p)'
      <3>1. CASE p = r
        <4>1. f = "task"
          BY <2>2, <1>3, <3>1, <2>5 DEF Past, FromScenes, FromImages, FromVoice, FromComposition, Rest
        <4> QED BY <4>1, <3>1, <2>1 DEF TypeOK, Sources
      <3>2. CASE p # r
        <4>1. Active(p) /\ r \in overlaps'[p] /\ Past(stage[p], f)
          BY <2>1, <2>2, <2>5, <3>2, PastIsActive DEF Active
        <4>2. field[f] \in Sources(p)'
          BY <2>4, <3>2, <4>1 DEF Fresh, Sources
        <4> QED BY <2>1, <4>1, <4>2 DEF TypeOK, Sources
      <3> QED BY <3>1, <3>2
    <2>6. Fresh'
      BY <2>5 DEF Fresh
    <2>7. NoStaleParts' /\ Packed' /\ Unused'
      BY <2>1, <2>2, <2>4 DEF NoStaleParts, Packed, Unused, Sources
    <2> QED BY <2>3, <2>6, <2>7
  <1>4. ASSUME NEW r \in Runs, Starts(r) \/ Delivers(r) \/ Fails(r) PROVE Others'
    <2>1. /\ UNCHANGED <<field, filed, timeline, pack, reports, overlaps>>
          /\ \E s \in (Ended \ {"idle"}) \cup {"STORYBOARD"} :
                /\ s = "STORYBOARD" => stage[r] = "starting"
                /\ stage' = [stage EXCEPT ![r] = s]
      BY <1>4 DEF Starts, Delivers, Fails, Ended
    <2> QED BY <2>1, Leaving
  <1>5. ASSUME NEW r \in Runs, NEW g \in Fields, NEW from \in Stages, NEW to \in Stages,
               Passes(r, from, to), Leaves(r, g),
               \A f : Past(to, f) => Past(from, f) \/ f = g,
               to \notin {"storing", "COMPLETED"},
               UNCHANGED <<overlaps, filed, timeline, pack, reports>>
        PROVE  Others'
    <2>1. field'[g] = r
      BY <1>5 DEF Leaves, TypeOK
    <2> QED BY <1>5, <2>1, Working
  <1>6. ASSUME NEW r \in Runs,
               Storyboard(r) \/ ScenePlanning(r) \/ ImageGeneration(r) \/ VoiceGeneration(r)
        PROVE  Others'
    <2> USE DEF Shared
    <2>0. /\ {"narrative", "plans", "manifest", "audio"} \subseteq Fields
          /\ {"STORYBOARD", "SCENE_PLANNING", "IMAGE_GENERATION", "resolving images",
              "VOICE_GENERATION", "producing audio", "MUSIC_GENERATION"} \subseteq Stages
      BY DEF Fields, Stages
    <2>1. CASE Storyboard(r)
      BY <2>0, <2>1, <1>5, Writers DEF Storyboard
    <2>2. CASE ScenePlanning(r)
      BY <2>0, <2>2, <1>5, Writers DEF ScenePlanning
    <2>3. CASE ImageGeneration(r)
      BY <2>0, <2>3, <1>5, Writers DEF ImageGeneration
    <2>4. CASE VoiceGeneration(r)
      BY <2>0, <2>4, <1>5, Writers DEF VoiceGeneration
    <2> QED BY <1>6, <2>1, <2>2, <2>3, <2>4
  <1>7. ASSUME NEW r \in Runs, OwnStage(r) PROVE Others'
    <2>1. PICK from \in Stages, to \in Stages :
             /\ Passes(r, from, to) /\ to \notin {"storing", "COMPLETED"}
             /\ \A f : Past(to, f) => Past(from, f)
      <3>1. /\ {"MUSIC_GENERATION", "SFX_GENERATION", "COMPOSITION", "RENDERING",
                "QUALITY_ASSURANCE", "PUBLISHING_PACKAGE"} \subseteq Stages
        BY DEF Stages
      <3> QED BY <1>7, <3>1, Writers DEF OwnStage
    <2>2. UNCHANGED <<field, overlaps, filed, timeline, pack, reports>> /\ "task" \in Fields
      BY <1>7 DEF OwnStage, Shared, Fields
    <2> QED BY <2>1, <2>2, Working
  <1>8. ASSUME NEW r \in Runs, CallsProducer(r) PROVE Others'
    <2>1. PICK from \in Stages, to \in Stages :
             /\ Passes(r, from, to) /\ to \notin {"idle", "storing", "COMPLETED"}
             /\ \A f : Past(to, f) => Past(from, f)
             /\ Past(from, "task")
      <3>1. /\ {"IMAGE_GENERATION", "resolving images", "VOICE_GENERATION", "producing audio"} \subseteq Stages
            /\ Past("IMAGE_GENERATION", "task") /\ Past("VOICE_GENERATION", "task")
        BY DEF Stages, Past, FromScenes, FromImages
      <3> QED BY <1>8, <3>1, Writers DEF CallsProducer
    <2>2. /\ UNCHANGED <<field, overlaps, timeline, pack, reports>> /\ "task" \in Fields
          /\ filed' = [filed EXCEPT ![r] = @ \cup {field["task"]}]
      BY <1>8 DEF CallsProducer, Shared, Fields
    <2>3. /\ stage[r] = from /\ stage'[r] = to /\ to # "idle"
          /\ \A p \in Runs \ {r} : stage'[p] = stage[p]
      BY <2>1 DEF TypeOK, Passes
    <2>4. Mutual' /\ Fresh'
      BY <2>1, <2>2, Progress
    <2>5. NoStaleParts'
      <3>1. field["task"] \in Sources(r)
        BY <2>1, <2>2, <2>3 DEF Fresh
      <3>2. \A p \in Runs : filed'[p] \subseteq Sources(p)
        BY <2>2, <3>1 DEF NoStaleParts, TypeOK
      <3> QED BY <2>2, <3>2 DEF NoStaleParts, Sources
    <2>6. Packed' /\ Unused'
      BY <2>1, <2>2, <2>3 DEF Packed, Unused, TypeOK
    <2> QED BY <2>4, <2>5, <2>6
  <1>9. ASSUME NEW r \in Runs, Composition(r) PROVE Others'
    <2>1. /\ Passes(r, "COMPOSITION", "RENDERING") /\ "COMPOSITION" \in Stages /\ "task" \in Fields
          /\ UNCHANGED <<field, overlaps, filed, pack, reports>>
          /\ timeline' = [timeline EXCEPT
                ![r] = [f \in Fields |-> IF f \in {"audio", "plans"} THEN field[f] ELSE None]]
      BY <1>9 DEF Composition, Shared, Stages, Fields
    <2>2. /\ stage[r] = "COMPOSITION" /\ stage'[r] = "RENDERING"
          /\ \A p \in Runs \ {r} : stage'[p] = stage[p]
      BY <2>1 DEF TypeOK, Passes
    <2>3. Mutual' /\ Fresh'
      <3>1. \A f : Past("RENDERING", f) => Past("COMPOSITION", f)
        BY Writers
      <3> QED BY <2>1, <3>1, Progress
    <2>4. NoStaleParts'
      <3>1. Past("COMPOSITION", "audio") /\ Past("COMPOSITION", "plans")
        BY DEF Past, FromScenes, FromImages, FromVoice, FromComposition
      <3>2. field["audio"] \in Sources(r) /\ field["plans"] \in Sources(r)
        BY <2>2, <3>1 DEF Fresh, Fields
      <3>3. \A f \in Fields : timeline'[r][f] \in Sources(r) \cup {None}
        BY <2>1, <3>2 DEF TypeOK
      <3>4. \A p \in Runs \ {r} : timeline'[p] = timeline[p]
        BY <2>1 DEF TypeOK
      <3>5. \A p \in Runs : {timeline'[p][f] : f \in Fields} \subseteq Sources(p) \cup {None}
        BY <3>3, <3>4 DEF NoStaleParts
      <3> QED BY <2>1, <3>5 DEF NoStaleParts, Sources
    <2>5. Packed' /\ Unused'
      BY <2>1, <2>2 DEF Packed, Unused, TypeOK
    <2> QED BY <2>3, <2>4, <2>5
  <1>10. ASSUME NEW r \in Runs, PublishingPackage(r) PROVE Others'
    <2>1. /\ Passes(r, "PUBLISHING_PACKAGE", "storing") /\ "PUBLISHING_PACKAGE" \in Stages
          /\ "task" \in Fields
          /\ UNCHANGED <<field, overlaps, filed, timeline, reports>>
          /\ pack' = [pack EXCEPT ![r] = [field EXCEPT !["task"] = None]]
      BY <1>10 DEF PublishingPackage, Shared, Stages, Fields
    <2>2. /\ stage[r] = "PUBLISHING_PACKAGE" /\ stage'[r] = "storing"
          /\ \A p \in Runs \ {r} : stage'[p] = stage[p]
      BY <2>1 DEF TypeOK, Passes
    <2>3. Mutual' /\ Fresh'
      <3>1. \A f : Past("storing", f) => Past("PUBLISHING_PACKAGE", f)
        BY Writers
      <3> QED BY <2>1, <3>1, Progress
    <2>4. \A f \in Fields : Past("PUBLISHING_PACKAGE", f)
      BY DEF Fields, Past, FromScenes, FromImages, FromVoice, FromComposition, Rest
    <2>5. \A f \in Fields : field[f] \in Sources(r) /\ field[f] # None
      BY <2>2, <2>4, RunsAssumption DEF Fresh, Sources, TypeOK
    <2>6. /\ \A f \in Fields \ {"task"} : pack'[r][f] \in Sources(r) /\ pack'[r][f] # None
          /\ pack'[r]["task"] = None
          /\ \A p \in Runs \ {r} : pack'[p] = pack[p]
      BY <2>1, <2>5 DEF TypeOK
    <2>7. \A p \in Runs : {pack'[p][f] : f \in Fields} \subseteq Sources(p) \cup {None}
      BY <2>6 DEF NoStaleParts
    <2>8. \A p \in reports : \A f \in Fields \ {"task"} : pack'[p][f] # None
      BY <2>6 DEF NoStaleParts, TypeOK
    <2>9. NoStaleParts'
      BY <2>1, <2>7, <2>8 DEF NoStaleParts, Sources
    <2>10. Packed' /\ Unused'
      BY <2>1, <2>2, <2>6 DEF Packed, Unused, TypeOK
    <2> QED BY <2>3, <2>9, <2>10
  <1>11. ASSUME NEW r \in Runs, Completes(r) PROVE Others'
    <2>1. /\ Passes(r, "storing", "COMPLETED") /\ "storing" \in Stages /\ "task" \in Fields
          /\ UNCHANGED <<field, overlaps, filed, timeline, pack>>
          /\ reports' = reports \cup {r}
      BY <1>11 DEF Completes, Stages, Fields
    <2>2. /\ stage[r] = "storing" /\ stage'[r] = "COMPLETED"
          /\ \A p \in Runs \ {r} : stage'[p] = stage[p]
      BY <2>1 DEF TypeOK, Passes
    <2>3. Mutual' /\ Fresh'
      <3>1. \A f : Past("COMPLETED", f) => Past("storing", f)
        BY Writers
      <3> QED BY <2>1, <3>1, Progress
    <2>4. \A f \in Fields \ {"task"} : pack[r][f] # None
      BY <2>2 DEF Packed
    <2>5. NoStaleParts'
      BY <2>1, <2>4 DEF NoStaleParts, Sources
    <2>6. Packed' /\ Unused'
      BY <2>1, <2>2, <2>4 DEF Packed, Unused
    <2> QED BY <2>3, <2>5, <2>6
  <1> QED BY <1>1, <1>2, <1>3, <1>4, <1>6, <1>7, <1>8, <1>9, <1>10, <1>11 DEF Next

\* The variables have their types: the methods of ContentPipelineEngine, in any order
\* and overlapping, leave it in a state its own type admits.
THEOREM TypeCorrect == Spec => []TypeOK
  <1>1. Init => Inv
    BY InitInv
  <1>2. Inv /\ [Next]_vars => Inv'
    BY StepInv
  <1>3. Inv => TypeOK
    BY DEF Inv
  <1> QED BY <1>1, <1>2, <1>3, PTL DEF Spec

\* However many runs of execute() overlap, what a run files, shows and publishes comes
\* from itself or from a run it has overlapped with, and a report is never incomplete.
THEOREM PartsAreNotStale == Spec => []NoStaleParts
  <1>1. Init => Inv
    BY InitInv
  <1>2. Inv /\ [Next]_vars => Inv'
    BY StepInv
  <1>3. Inv => NoStaleParts
    BY DEF Inv, Others
  <1> QED BY <1>1, <1>2, <1>3, PTL DEF Spec
===============================================================================
