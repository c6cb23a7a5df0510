--------------------------- MODULE ContentPipeline ---------------------------
(***************************************************************************)
(* The content pipeline of packages/core/src/content-pipeline: its         *)
(* lifecycle and execute(), which turns a script into a published package. *)
(*                                                                         *)
(* A run passes its images, voice and video from stage to stage in local   *)
(* variables, but the narrative, the scene plans, the asset manifest, the  *)
(* audio timeline and the task id it leaves in fields of the engine and    *)
(* reads back later.  Every stage awaits, execute() is refused only by the *)
(* state, and the lifecycle methods do not touch a run that is under way:  *)
(* runs overlap, and each writes the state when it ends.                   *)
(*                                                                         *)
(* A part is named by the run that made it.  Progress, statistics and the  *)
(* contents of the parts are left out.  So are single images: a manifest   *)
(* is made by its run, but an image in it may be one that the AssetCache   *)
(* (which outlives runs and processes) or the character manager has kept   *)
(* from an earlier run, which is what they are for.                        *)
(***************************************************************************)
EXTENDS Naturals

CONSTANTS
    Runs,     \* calls of execute()
    MaxCalls, \* bound: calls of initialize, start, stop, pause and resume
    None

ASSUME RunsAssumption == None \notin Runs
ASSUME CallsAssumption == MaxCalls \in Nat

VARIABLES
    state,        \* ContentPipelineEngine._state
    initializing, \* calls of initialize() that await their first event
    stage,        \* the stage a run is in
    field,        \* the engine's fields _lastNarrativeResult,
                  \* _lastSceneCompositionPlans, _lastAssetManifest,
                  \* _lastAudioTimeline and _currentTaskId: whose they are
    filed,        \* of every run, the tasks its images and its voice are filed under
    timeline,     \* of every run, the parts its video is made with
    pack,         \* of every run, the parts its package names
    reports,      \* keys of _reports
    overlaps,     \* history: the runs a run has overlapped with
    calls         \* lifecycle calls so far

vars == <<state, initializing, stage, field, filed, timeline, pack, reports,
          overlaps, calls>>

Stages == {"STORYBOARD", "SCENE_PLANNING", "IMAGE_GENERATION", "resolving images",
            "VOICE_GENERATION", "producing audio", "MUSIC_GENERATION",
            "SFX_GENERATION", "COMPOSITION", "RENDERING", "QUALITY_ASSURANCE",
            "PUBLISHING_PACKAGE", "storing", "COMPLETED"}
Ended == {"idle", "refused", "done", "failed"}
Active(r) == stage[r] \notin Ended

Part == Runs \cup {None}
Fields == {"narrative", "plans", "manifest", "audio", "task"}
Nothing == [f \in Fields |-> None]

TypeOK ==
    /\ state \in {"CREATED", "INITIALIZING", "READY", "EXECUTING", "PAUSED",
                  "COMPLETED", "FAILED", "STOPPED"}
    /\ initializing \in 0..MaxCalls
    /\ stage \in [Runs -> Ended \cup {"starting"} \cup Stages]
    /\ field \in [Fields -> Part]
    /\ filed \in [Runs -> SUBSET Runs]
    /\ timeline \in [Runs -> [Fields -> Part]] /\ pack \in [Runs -> [Fields -> Part]]
    /\ reports \subseteq Runs
    /\ overlaps \in [Runs -> SUBSET Runs]
    /\ calls \in 0..MaxCalls

Init ==
    /\ state = "CREATED" /\ initializing = 0
    /\ stage = [r \in Runs |-> "idle"]
    /\ field = Nothing
    /\ filed = [r \in Runs |-> {}]
    /\ timeline = [r \in Runs |-> Nothing] /\ pack = [r \in Runs |-> Nothing]
    /\ reports = {}
    /\ overlaps = [r \in Runs |-> {}]
    /\ calls = 0

-----------------------------------------------------------------------------
(* The lifecycle.  A definition named X_Y is a mutation of X, a plausible   *)
(* bug; no action uses it.                                                  *)

runVars == <<stage, field, filed, timeline, pack, reports, overlaps>>

Call == calls < MaxCalls /\ calls' = calls + 1

\* initialize() has no guard: it may come while runs are under way.
Initialize ==
    /\ Call
    /\ state' = "INITIALIZING" /\ initializing' = initializing + 1
    /\ UNCHANGED runVars

\* A local handler that throws ends initialize() before it writes READY.
Initialized ==
    /\ initializing > 0 /\ initializing' = initializing - 1
    /\ state' \in {"READY", state}
    /\ UNCHANGED <<runVars, calls>>

\* A method that writes a state, where the present one is among those it admits.
Moves(from, to) ==
    /\ Call
    /\ state \in from /\ state' = to
    /\ UNCHANGED <<runVars, initializing>>

Start  == Moves({"READY", "STOPPED"}, "EXECUTING")
Pause  == Moves({"EXECUTING"}, "PAUSED")
Resume == Moves({"PAUSED"}, "EXECUTING")
Stop ==
    /\ Call
    /\ state' = "STOPPED"
    /\ UNCHANGED <<runVars, initializing>>

-----------------------------------------------------------------------------
(* A run: each action ends at an await, after which the next stage begins   *)

Execute_NoTask(r) ==
    /\ state = "EXECUTING" /\ stage[r] = "idle"
    /\ stage' = [stage EXCEPT ![r] = "starting"]
    /\ overlaps' = [q \in Runs |->
          IF q = r THEN {p \in Runs : Active(p)}
          ELSE IF Active(q) THEN overlaps[q] \cup {r} ELSE overlaps[q]]
    /\ UNCHANGED <<state, initializing, field, filed, timeline, pack, reports, calls>>

\* The run's task becomes the engine's current task.
Execute(r) ==
    /\ state = "EXECUTING" /\ stage[r] = "idle"
    /\ stage' = [stage EXCEPT ![r] = "starting"]
    /\ field' = [field EXCEPT !["task"] = r]
    /\ overlaps' = [q \in Runs |->
          IF q = r THEN {p \in Runs : Active(p)}
          ELSE IF Active(q) THEN overlaps[q] \cup {r} ELSE overlaps[q]]
    /\ UNCHANGED <<state, initializing, filed, timeline, pack, reports, calls>>

\* The event PIPELINE_STARTED is emitted outside the try: a local handler that
\* throws ends the run without a trace.
Starts(r) ==
    /\ stage[r] = "starting"
    /\ \E s \in {"STORYBOARD", "refused"} : stage' = [stage EXCEPT ![r] = s]
    /\ UNCHANGED <<state, initializing, field, filed, timeline, pack, reports,
                   overlaps, calls>>

Passes(r, from, to) == stage[r] = from /\ stage' = [stage EXCEPT ![r] = to]

Shared == <<state, initializing, reports, overlaps, calls>>

Leaves_First(r, f) ==
    field' = IF field[f] = None THEN [field EXCEPT ![f] = r] ELSE field

\* A stage leaves its result in a field of the engine.
Leaves(r, f) == field' = [field EXCEPT ![f] = r]

Storyboard(r) ==
    /\ Passes(r, "STORYBOARD", "SCENE_PLANNING") /\ Leaves(r, "narrative")
    /\ UNCHANGED <<Shared, filed, timeline, pack>>

ScenePlanning(r) ==
    /\ Passes(r, "SCENE_PLANNING", "IMAGE_GENERATION") /\ Leaves(r, "plans")
    /\ UNCHANGED <<Shared, filed, timeline, pack>>

\* The images and the voice are filed under the current task (there is one: the task
\* of some run), and awaited.
CallsProducer(r) ==
    /\ \/ Passes(r, "IMAGE_GENERATION", "resolving images")
       \/ Passes(r, "VOICE_GENERATION", "producing audio")
    /\ filed' = [filed EXCEPT ![r] = @ \cup {field["task"]}]
    /\ UNCHANGED <<Shared, field, timeline, pack>>

\* The manifest is the run's own, its images may have come from the AssetCache.
ImageGeneration(r) ==
    /\ Passes(r, "resolving images", "VOICE_GENERATION") /\ Leaves(r, "manifest")
    /\ UNCHANGED <<Shared, filed, timeline, pack>>

VoiceGeneration(r) ==
    /\ Passes(r, "producing audio", "MUSIC_GENERATION") /\ Leaves(r, "audio")
    /\ UNCHANGED <<Shared, filed, timeline, pack>>

\* Music, sound effects, rendering and review use the run's own variables.
OwnStage(r) ==
    /\ \/ Passes(r, "MUSIC_GENERATION", "SFX_GENERATION")
       \/ Passes(r, "SFX_GENERATION", "COMPOSITION")
       \/ Passes(r, "RENDERING", "QUALITY_ASSURANCE")
       \/ Passes(r, "QUALITY_ASSURANCE", "PUBLISHING_PACKAGE")
    /\ UNCHANGED <<Shared, field, filed, timeline, pack>>

Composition(r) ==
    /\ Passes(r, "COMPOSITION", "RENDERING")
    /\ timeline' = [timeline EXCEPT
          ![r] = [f \in Fields |-> IF f \in {"audio", "plans"} THEN field[f] ELSE None]]
    /\ UNCHANGED <<Shared, field, filed, pack>>

PublishingPackage(r) ==
    /\ Passes(r, "PUBLISHING_PACKAGE", "storing")
    /\ pack' = [pack EXCEPT ![r] = [field EXCEPT !["task"] = None]]
    /\ UNCHANGED <<Shared, field, filed, timeline>>

\* COMPLETED is written over whatever users and other runs have made of the state.
Completes(r) ==
    /\ Passes(r, "storing", "COMPLETED")
    /\ state' = "COMPLETED"
    /\ reports' = reports \cup {r}
    /\ UNCHANGED <<initializing, field, filed, timeline, pack, overlaps, calls>>

Delivers(r) ==
    /\ stage[r] = "COMPLETED"
    /\ stage' = [stage EXCEPT ![r] = "done"]
    /\ UNCHANGED <<state, initializing, field, filed, timeline, pack, reports,
                   overlaps, calls>>

\* A stage, a local handler, or after COMPLETED the memory store throws.
Fails(r) ==
    /\ Active(r) /\ stage[r] # "starting"
    /\ stage' = [stage EXCEPT ![r] = "failed"]
    /\ state' = "FAILED"
    /\ UNCHANGED <<initializing, field, filed, timeline, pack, reports, overlaps,
                   calls>>

-----------------------------------------------------------------------------
Next ==
    \/ Initialize \/ Initialized \/ Start \/ Pause \/ Resume \/ Stop
    \/ \E r \in Runs :
          \/ Execute(r) \/ Starts(r) \/ Storyboard(r) \/ ScenePlanning(r)
          \/ CallsProducer(r) \/ ImageGeneration(r) \/ VoiceGeneration(r)
          \/ OwnStage(r) \/ Composition(r) \/ PublishingPackage(r)
          \/ Completes(r) \/ Delivers(r) \/ Fails(r)

Spec == Init /\ [][Next]_vars

-----------------------------------------------------------------------------
(* Properties                                                               *)

\* Where the parts of a run may come from.
Sources(r) == {r} \cup overlaps[r]

\* A package names, a video is made with, and files are stored for the parts of
\* the run itself or of one that overlapped with it: never what an earlier run,
\* finished or failed, has left in the engine's fields.  So a run that no other
\* overlaps gets its own parts (the images of its manifest excepted, which the
\* AssetCache may have kept).  Runs that overlap do mix their parts.
NoStaleParts ==
    \A r \in Runs :
        /\ filed[r] \subseteq Sources(r)
        /\ {timeline[r][f] : f \in Fields} \subseteq Sources(r) \cup {None}
        /\ {pack[r][f] : f \in Fields} \subseteq Sources(r) \cup {None}
        /\ r \in reports => \A f \in Fields \ {"task"} : pack[r][f] # None
===============================================================================
