---- MODULE WorkspaceConfig ----
(***************************************************************************)
(* The configuration of a workspace: a suggestion made from go.work or     *)
(* go.mod, under three files, each of which overrides the ones before it.  *)
(* Tool calls read the files one after the other; init_workspace_config    *)
(* writes the middle one, and inspect_embeddings_settings keeps the user's *)
(* answer to the setup notice in a state file.  Calls of several servers   *)
(* and an editor work on the files at the same time.                       *)
(*                                                                         *)
(* A configuration is a function from settings to values; Unset stands for *)
(* Go's zero value, which no file can tell from a missing setting.         *)
(***************************************************************************)
EXTENDS Integers, SequencesExt

CONSTANTS
    Calls,          \* the tool calls
    Requests,       \* [tool, overwrite, dismiss, reopen, patterns, limit]
    Contents,       \* Contents[l]: what an editor may save as layer l
    Trees,          \* [work, mod, sound]: the module files of the root
    MaxEdits,       \* bound on the edits of the files
    Unset,
    Absent,         \* there is no such file
    Broken          \* the file is not YAML

Layers == <<"user", "repo", "project">>

EmbeddingSettings == {"provider", "endpoint", "dimension"}

Settings ==
    EmbeddingSettings \cup
    {"workspace", "modules", "patterns", "boundaries", "capacity", "limit", "summary", "debounce"}

Blank == [f \in Settings |-> Unset]

VARIABLES
    tree,           \* what the root directory holds
    file,           \* layer -> its file
    origin,         \* who created the repo config
    notice,         \* the state file: Absent, "torn", "open" or "dismissed"
    capacity,       \* the capacity of the program cache
    edits,
    request, at, merged, explicit, existed, answer,     \* of each call
    quiet           \* call -> nobody else changed a file since it began

files == <<tree, file, origin, notice, edits>>
cfvars == <<files, capacity, request, at, merged, explicit, existed, answer, quiet>>

-----------------------------------------------------------------------------
(* Package patterns.  A pattern is [dir, rest]: a directory, and whether    *)
(* everything below it is meant; a directory is a sequence of names.        *)

PackagePatterns == [dir : Seq(STRING), rest : {"...", "self"}]
ConfigModules == [root : Seq(STRING), patterns : Seq(PackagePatterns)]

Everything == [dir |-> <<>>, rest |-> "..."]

\* Only the first of equal values is kept.
cleanStringSlice(values) ==
    LET out[i \in 0..Len(values)] ==
            IF i = 0 THEN <<>>
            ELSE IF values[i] \in ToSet(out[i - 1]) THEN out[i - 1]
            ELSE Append(out[i - 1], values[i])
    IN  out[Len(values)]

joinModulePattern(root, pattern) == [pattern EXCEPT !.dir = root \o @]

OwnPatterns(module) ==
    IF module.patterns = <<>> THEN <<Everything>> ELSE cleanStringSlice(module.patterns)

modulePackagePatterns(modules) ==
    cleanStringSlice(FlattenSeq([i \in DOMAIN modules |->
        [j \in DOMAIN OwnPatterns(modules[i]) |->
            joinModulePattern(modules[i].root, OwnPatterns(modules[i])[j])]]))

-----------------------------------------------------------------------------
(* Layers.                                                                  *)

Defaults ==
    [provider |-> "local", dimension |-> 16, debounce |-> 2500]

\* What a file may hold; a list without elements is a missing setting.
IsConfig(config) ==
    /\ config = [f \in Settings |-> config[f]]
    /\ config.modules \in (Seq(ConfigModules) \ {<<>>}) \cup {Unset}
    /\ config.patterns \in (Seq(PackagePatterns) \ {<<>>}) \cup {Unset}
    /\ config.capacity \in (Nat \ {0}) \cup {Unset}

ASSUME ContentsAssumption ==
    \A l \in ToSet(Layers) : \A v \in Contents[l] : v \in {Absent, Broken} \/ IsConfig(v)
ASSUME TreesAssumption ==
    \A t \in Trees : t.work \in Seq(Seq(STRING)) \cup {Unset} /\ {t.mod, t.sound} \subseteq BOOLEAN
ASSUME UnsetAssumption ==
    /\ Unset \notin Seq(PackagePatterns) \cup Seq(ConfigModules) \cup (Nat \ {0})
    /\ \A f \in DOMAIN Defaults : Defaults[f] # Unset

normalizeWorkspaceConfig(config) ==
    LET modules  == IF config.modules = Unset THEN Unset
                    ELSE [i \in DOMAIN config.modules |->
                            [config.modules[i] EXCEPT !.patterns = OwnPatterns(config.modules[i])]]
        patterns == CASE config.patterns # Unset -> cleanStringSlice(config.patterns)
                      [] config.patterns = Unset /\ modules # Unset -> modulePackagePatterns(modules)
                      [] OTHER -> <<Everything>>
    IN  [f \in Settings |->
            CASE f = "modules" -> modules
              [] f = "patterns" -> IF patterns = <<>> THEN <<Everything>> ELSE patterns
              [] f \in DOMAIN Defaults /\ config[f] = Unset -> Defaults[f]
              [] OTHER -> config[f]]

\* A setting of the overlay counts if it is there; workspace, modules,
\* patterns and boundaries are replaced as a whole.
Overlay(base, overlay) ==
    [f \in Settings |-> IF overlay[f] # Unset THEN overlay[f] ELSE base[f]]

\* Mutant: each file is normalised before it is laid over the ones before.
mergeNormalized(base, overlay) ==
    normalizeWorkspaceConfig(Overlay(base, normalizeWorkspaceConfig(overlay)))

mergeWorkspaceConfig(base, overlay) == normalizeWorkspaceConfig(Overlay(base, overlay))

suggestGoWorkConfig(roots) ==
    LET modules == [i \in DOMAIN roots |-> [root |-> roots[i], patterns |-> <<Everything>>]]
    IN  [Blank EXCEPT !.workspace = "go_work",
                      !.modules = IF modules = <<>> THEN Unset ELSE modules,
                      !.patterns = modulePackagePatterns(modules)]

SuggestWorkspaceConfig(t) ==
    normalizeWorkspaceConfig(
        CASE t.work # Unset -> suggestGoWorkConfig(t.work)
          [] t.work = Unset /\ t.mod ->
                [Blank EXCEPT !.workspace = "go_mod", !.patterns = <<Everything>>,
                              !.modules = <<[root |-> <<>>, patterns |-> <<Everything>>]>>]
          [] OTHER -> [Blank EXCEPT !.workspace = "auto", !.patterns = <<Everything>>])

\* What a file holds once it is opened or written tells it from no file.
ASSUME AbsentAssumption ==
    /\ Absent # Broken /\ Blank \notin {Absent, Broken}
    /\ \A t \in Trees : normalizeWorkspaceConfig(SuggestWorkspaceConfig(t)) \notin {Absent, Broken}

hasExplicitEmbeddingsConfig(config) == \E f \in EmbeddingSettings : config[f] # Unset

-----------------------------------------------------------------------------
NoRequest == [tool |-> "none"]
NoAnswer == [required |-> FALSE, dismissed |-> FALSE, patterns |-> <<>>, limit |-> Unset]

ASSUME RequestsAssumption ==
    Requests \subseteq [tool : {"analysis", "inspect", "settings", "init"},
                       overwrite : BOOLEAN, dismiss : BOOLEAN, reopen : BOOLEAN,
                       patterns : Seq(PackagePatterns), limit : Nat \cup {Unset}]
ASSUME MaxEditsAssumption == MaxEdits \in Nat

InitConfig ==
    /\ tree \in Trees
    /\ file \in {f \in [ToSet(Layers) -> UNION {Contents[l] : l \in ToSet(Layers)}] :
                    \A l \in ToSet(Layers) : f[l] \in Contents[l]}
    /\ origin = "editor"
    /\ notice = Absent
    /\ capacity = 1
    /\ edits = 0
    /\ request = [c \in Calls |-> NoRequest]
    /\ at = [c \in Calls |-> "idle"]
    /\ merged = [c \in Calls |-> Blank]
    /\ explicit = [c \in Calls |-> FALSE]
    /\ existed = [c \in Calls |-> FALSE]
    /\ answer = [c \in Calls |-> NoAnswer]
    /\ quiet = [c \in Calls |-> FALSE]

Goes(c, label) == at' = [at EXCEPT ![c] = label]

\* Every other call that is under way has seen a file change.
Disturb(c) == quiet' = [d \in Calls |-> quiet[d] /\ d = c]

\* Each handler begins with the suggestion, which fails on an unsound go.work
\* or go.mod; InitWorkspaceConfig then looks whether the repo config exists.
Begin(c, r) ==
    /\ at[c] = "idle"
    /\ request' = [request EXCEPT ![c] = r]
    /\ Goes(c, IF ~tree.sound THEN "failed" ELSE IF r.tool = "init" THEN "open" ELSE "user")
    /\ merged' = [merged EXCEPT ![c] = IF tree.sound THEN SuggestWorkspaceConfig(tree) ELSE Blank]
    /\ existed' = [existed EXCEPT ![c] = r.tool = "init" /\ file["repo"] # Absent]
    /\ quiet' = [quiet EXCEPT ![c] = TRUE]
    /\ UNCHANGED <<files, capacity, explicit, answer>>

\* effectiveWorkspaceConfigWithSources, one file at a time.
loadOptionalWorkspaceConfigWithRaw(c) ==
    \E i \in DOMAIN Layers :
        LET l     == Layers[i]
            after == IF i < Len(Layers) THEN Layers[i + 1]
                     ELSE IF request[c].tool = "analysis" THEN "resolve" ELSE "inspect"
        IN  /\ at[c] = l
            /\ Goes(c, IF file[l] = Broken THEN "failed" ELSE after)
            /\ IF file[l] \in {Absent, Broken}
               THEN UNCHANGED <<merged, explicit>>
               ELSE /\ merged' = [merged EXCEPT ![c] = mergeWorkspaceConfig(@, file[l])]
                    /\ explicit' = [explicit EXCEPT ![c] = @ \/ hasExplicitEmbeddingsConfig(file[l])]
            /\ UNCHANGED <<files, capacity, request, existed, answer, quiet>>

mergePatternsWithDefault(given, defaults) == IF given # <<>> THEN given ELSE defaults

\* The end of resolveAnalysisDefaults, and the options of the tool.
resolveAnalysisDefaults(c) ==
    /\ at[c] = "resolve"
    /\ capacity' = IF merged[c].capacity # Unset THEN merged[c].capacity ELSE capacity
    /\ answer' = [answer EXCEPT
                    ![c].patterns = mergePatternsWithDefault(request[c].patterns, merged[c].patterns),
                    ![c].limit = IF request[c].limit # Unset THEN request[c].limit ELSE merged[c].limit]
    /\ Goes(c, "done")
    /\ UNCHANGED <<files, request, merged, explicit, existed, quiet>>

EmbeddingsSetupRequired(configured, dismissed) == ~configured /\ ~dismissed

\* Mutant: every tool goes on to load the state file for a change.
InspectThenLoad(c) ==
    /\ at[c] = "inspect"
    /\ Goes(c, IF notice = "torn" THEN "failed" ELSE "load")
    /\ answer' = IF notice = "torn" THEN answer
                 ELSE [answer EXCEPT
                        ![c].dismissed = notice = "dismissed",
                        ![c].required = EmbeddingsSetupRequired(explicit[c], notice = "dismissed")]
    /\ UNCHANGED <<files, capacity, request, merged, explicit, existed, quiet>>

\* InspectWorkspaceConfig and InspectEmbeddingsSettings load the state file
\* after the configuration.
Inspect(c) ==
    /\ at[c] = "inspect"
    /\ Goes(c, CASE notice = "torn" -> "failed"
                 [] notice # "torn" /\ request[c].tool = "settings" -> "load"
                 [] OTHER -> "done")
    /\ answer' = IF notice = "torn" THEN answer
                 ELSE [answer EXCEPT
                        ![c].dismissed = notice = "dismissed",
                        ![c].required = EmbeddingsSetupRequired(explicit[c], notice = "dismissed")]
    /\ UNCHANGED <<files, capacity, request, merged, explicit, existed, quiet>>

\* handleInspectEmbeddingsSettings loads the state once more, to change it.
LoadUserWorkspaceState(c) ==
    /\ at[c] = "load"
    /\ Goes(c, CASE notice = "torn" -> "failed"
                 [] notice # "torn" /\ request[c].dismiss -> "dismiss"
                 [] notice # "torn" /\ ~request[c].dismiss /\ request[c].reopen -> "reopen"
                 [] OTHER -> "done")
    /\ UNCHANGED <<files, capacity, request, merged, explicit, existed, answer, quiet>>

\* os.WriteFile empties the file and then fills it.
TruncateState(c) ==
    /\ at[c] \in {"dismiss", "reopen"}
    /\ notice' = "torn"
    /\ Goes(c, IF at[c] = "dismiss" THEN "dismissing" ELSE "reopening")
    /\ Disturb(c)
    /\ UNCHANGED <<tree, file, origin, edits, capacity, request, merged, explicit, existed, answer>>

SaveDismissed(c) ==
    /\ at[c] = "dismissing"
    /\ notice' = "dismissed"
    /\ answer' = [answer EXCEPT ![c].dismissed = TRUE, ![c].required = FALSE]
    /\ Goes(c, "reload")
    /\ Disturb(c)
    /\ UNCHANGED <<tree, file, origin, edits, capacity, request, merged, explicit, existed>>

\* Mutant: the requirement is not computed again.
SaveReopenedFlagOnly(c) ==
    /\ at[c] = "reopening"
    /\ notice' = "open"
    /\ answer' = [answer EXCEPT ![c].dismissed = FALSE]
    /\ Goes(c, "done")
    /\ Disturb(c)
    /\ UNCHANGED <<tree, file, origin, edits, capacity, request, merged, explicit, existed>>

SaveReopened(c) ==
    /\ at[c] = "reopening"
    /\ notice' = "open"
    /\ answer' = [answer EXCEPT ![c].dismissed = FALSE,
                                ![c].required = EmbeddingsSetupRequired(explicit[c], FALSE)]
    /\ Goes(c, "done")
    /\ Disturb(c)
    /\ UNCHANGED <<tree, file, origin, edits, capacity, request, merged, explicit, existed>>

\* The error of this load is dropped and leaves a nil state, on which a call
\* that also reopens panics.
ReloadState(c) ==
    /\ at[c] = "reload"
    /\ Goes(c, CASE ~request[c].reopen -> "done"
                 [] request[c].reopen /\ notice = "torn" -> "dead"
                 [] OTHER -> "reopen")
    /\ UNCHANGED <<files, capacity, request, merged, explicit, existed, answer, quiet>>

\* Mutant: the file is opened by what was seen before, without O_EXCL.
OpenUnlessExisted(c) ==
    /\ at[c] = "open"
    /\ IF existed[c] /\ ~request[c].overwrite
       THEN /\ Goes(c, "failed")
            /\ UNCHANGED <<file, origin, quiet>>
       ELSE /\ Goes(c, "write")
            /\ file' = [file EXCEPT !["repo"] = Blank]
            /\ origin' = IF file["repo"] = Absent THEN c ELSE origin
            /\ Disturb(c)
    /\ UNCHANGED <<tree, notice, edits, capacity, request, merged, explicit, existed, answer>>

\* O_TRUNC when overwriting, O_EXCL otherwise.
OpenRepoConfig(c) ==
    /\ at[c] = "open"
    /\ IF file["repo"] # Absent /\ ~request[c].overwrite
       THEN /\ Goes(c, "failed")
            /\ UNCHANGED <<file, origin, quiet>>
       ELSE /\ Goes(c, "write")
            /\ file' = [file EXCEPT !["repo"] = Blank]
            /\ origin' = IF file["repo"] = Absent THEN c ELSE origin
            /\ Disturb(c)
    /\ UNCHANGED <<tree, notice, edits, capacity, request, merged, explicit, existed, answer>>

\* MarshalWorkspaceConfig normalises: the defaults are written out too.
WriteRepoConfig(c) ==
    /\ at[c] = "write"
    /\ file' = [file EXCEPT !["repo"] = normalizeWorkspaceConfig(merged[c])]
    /\ Goes(c, "done")
    /\ Disturb(c)
    /\ UNCHANGED <<tree, origin, notice, edits, capacity, request, merged, explicit, existed, answer>>

\* The server of the call is killed, or its write fails half way.
Die(c) ==
    /\ at[c] \in {"dismissing", "reopening", "write"}
    /\ Goes(c, "dead")
    /\ UNCHANGED <<files, capacity, request, merged, explicit, existed, answer, quiet>>

\* An editor saves a file in one go.
EditFile(l) ==
    /\ edits < MaxEdits
    /\ edits' = edits + 1
    /\ \E v \in Contents[l] \ {Absent, file[l]} : file' = [file EXCEPT ![l] = v]
    /\ origin' = IF l = "repo" /\ file[l] = Absent THEN "editor" ELSE origin
    /\ quiet' = [c \in Calls |-> FALSE]
    /\ UNCHANGED <<tree, notice, capacity, request, at, merged, explicit, existed, answer>>

NextConfig ==
    \/ \E c \in Calls :
        \/ \E r \in Requests : Begin(c, r)
        \/ loadOptionalWorkspaceConfigWithRaw(c) \/ resolveAnalysisDefaults(c)
        \/ Inspect(c) \/ LoadUserWorkspaceState(c)
        \/ TruncateState(c) \/ SaveDismissed(c) \/ SaveReopened(c) \/ ReloadState(c)
        \/ OpenRepoConfig(c) \/ WriteRepoConfig(c)
        \/ Die(c)
    \/ \E l \in ToSet(Layers) : EditFile(l)

SpecConfig == InitConfig /\ [][NextConfig]_cfvars

-----------------------------------------------------------------------------
\* The variables keep their shape, and a call that works for a tool has the
\* program counter of that tool.
ConfigTypeOK ==
    /\ tree \in Trees
    /\ \A l \in ToSet(Layers) : file[l] \in {Absent, Broken} \/ DOMAIN file[l] = Settings
    /\ origin \in Calls \cup {"editor"}
    /\ notice \in {Absent, "torn", "open", "dismissed"}
    /\ capacity \in Nat \ {0}
    /\ edits \in 0..MaxEdits
    /\ \A c \in Calls :
        /\ at[c] = "idle" <=> request[c] = NoRequest
        /\ at[c] \in {"open", "write"} => request[c].tool = "init"
        /\ at[c] \in {"load", "dismiss", "dismissing", "reload", "reopen", "reopening"}
                => request[c].tool = "settings"
        /\ DOMAIN merged[c] = Settings
    /\ quiet \in [Calls -> BOOLEAN]

Reads(c) == request[c].tool \in {"analysis", "inspect", "settings"}

Resolved(c) == Reads(c) /\ at[c] \notin {"user", "repo", "project", "failed"}

\* docs/advanced-usage.md, "Configuration": the project file takes precedence
\* over the repo file, that over the user's, and the suggestion comes last.
\* EffectiveWorkspaceConfig normalises after each of its merges, and still
\* every setting has the value of the highest layer that has it: no default
\* filled in on the way overrides what a file says.
HighestLayerWins ==
    \A c \in Calls : Resolved(c) /\ quiet[c] =>
        LET Says(i, f) == file[Layers[i]] # Absent /\ file[Layers[i]][f] # Unset
            Highest(f) == CHOOSE i \in DOMAIN Layers :
                            Says(i, f) /\ \A j \in DOMAIN Layers : Says(j, f) => j <= i
        IN  merged[c] = normalizeWorkspaceConfig(
                [f \in Settings |-> IF \E i \in DOMAIN Layers : Says(i, f)
                                    THEN file[Layers[Highest(f)]][f]
                                    ELSE SuggestWorkspaceConfig(tree)[f]])

\* docs/tools-reference.md, init_workspace_config: "It does not overwrite an
\* existing file unless overwrite: true is passed", also when two calls and an
\* editor create the file at the same time: InitWorkspaceConfig without
\* overwrite only writes to a file it has created itself.
OnlyOwnFileIsWritten ==
    \A c \in Calls : at[c] = "write" /\ ~request[c].overwrite => origin = c

\* inspect_embeddings_settings and inspect_workspace_config: what the answer
\* says of the setup notice fits the files, whatever of dismissing and
\* reopening the call did on its way, provided nobody else was at work.
AnswerFitsDisk ==
    \A c \in Calls :
        /\ at[c] = "done" /\ quiet[c] /\ request[c].tool \in {"inspect", "settings"}
        => /\ answer[c].dismissed = (notice = "dismissed")
           /\ answer[c].required =
                (/\ notice # "dismissed"
                 /\ \A l \in ToSet(Layers) :
                        file[l] = Absent \/ \A f \in EmbeddingSettings : file[l][f] = Unset)
====
