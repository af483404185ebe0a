---------------------------- MODULE Configuration ----------------------------
(***************************************************************************)
(* How the layered configuration is read, merged, attributed and judged    *)
(* (internal/config; internal/cli/validate.go and doctor/configuration.go).*)
(*                                                                         *)
(* A workspace's configuration is defaults.yaml, overlaid by its workspace *)
(* file and its machine-local file.  The files are read one at a time and  *)
(* users edit them meanwhile, so a read returns any content.  While layers *)
(* are merged, each value's origin is kept beside it: a problem found      *)
(* afterwards names the file to edit.                                      *)
(*                                                                         *)
(* Values are what validation tells apart.  An origin is a file; the line  *)
(* in it, found in the document tree, is left out.                         *)
(***************************************************************************)
EXTENDS Integers, Sequences, SequencesExt, FiniteSets, FiniteSetsExt

CONSTANTS
  DefaultsLayers,   \* what defaults.yaml may hold
  OverlayLayers,    \* what a workspace's files may hold
  MaxSlugs,         \* how many workspaces may be configured
  NULL              \* an omitted key, no position, no layer

ASSUME ConfigurationAssumption == MaxSlugs \in Nat

VARIABLES
  command,    \* what is run: open's load, config --validate of all workspaces
              \* or of one, or doctor
  pc,         \* the next file to read or check to make
  slugs,      \* workspaces still to examine
  sources,    \* the layers read for the current workspace, defaults first
  merged,     \* their merge: the accumulated layer and its origins
  results,    \* the report: a status per subject
  effective   \* what the last Load returned

configVars == <<command, pc, slugs, sources, merged, results, effective>>

Files == <<"defaults", "workspace", "local">>

SchemaVersion == 1
\* The scalar keys; environment.K stands for a variable, environment.= for one
\* whose name cannot be exported.
Scalar == {"version", "autostart", "devcontainer.enabled",
           "devcontainer.start_timeout", "environment.K", "environment.="}
WindowScalar == {"cwd", "location", "focus"}

NoScalars == [f \in Scalar |-> NULL]
\* A missing file, an empty one, and one that holds only comments.
EmptyLayer == [roots |-> NULL, scalars |-> NoScalars, windows |-> <<>>]

\* How a window or pane runs: the trio that merges as a unit.
ModeKeys == {"agent", "command", "shell"}
NoMode == [k \in ModeKeys |-> NULL]
SetsMode(w) == w.mode # NoMode

Override(base, over) ==
  [f \in DOMAIN base |-> IF over[f] = NULL THEN base[f] ELSE over[f]]
Stated(f) == {k \in DOMAIN f : f[k] # NULL}

-----------------------------------------------------------------------------
\* mergeLayers.  A path is <<window or NULL, key>>; <<w, "">> is the window
\* itself, <<w, "mode">> its trio, <<w, "panes">> the list and all in it.

IndexOf(windows, name) ==
  LET I == {i \in 1..Len(windows) : windows[i].name = name}
  IN IF I = {} THEN 0 ELSE Max(I)

\* Mutant: the trio is merged key by key.
MergeWindowKeywise(base, over) ==
  [base EXCEPT !.mode = Override(base.mode, over.mode),
               !.scalars = Override(base.scalars, over.scalars),
               !.panes = IF over.panes = NULL THEN @ ELSE over.panes]

MergeWindow(base, over) ==
  [base EXCEPT !.mode = IF SetsMode(over) THEN over.mode ELSE @,
               !.scalars = Override(base.scalars, over.scalars),
               !.panes = IF over.panes = NULL THEN @ ELSE over.panes]

\* Mutant: the trio is credited only with the window's introduction.
CreditedModeOnce(w, introduced) ==
  (IF introduced THEN {<<w.name, "">>} ELSE {})
  \cup (IF introduced /\ SetsMode(w) THEN {<<w.name, "mode">>} ELSE {})
  \cup {<<w.name, f>> : f \in Stated(w.scalars)}
  \cup (IF w.panes # NULL THEN {<<w.name, "panes">>} ELSE {})

\* creditWindow: the paths a layer owns from here on.
Credited(w, introduced) ==
  (IF introduced THEN {<<w.name, "">>} ELSE {})
  \cup (IF SetsMode(w) THEN {<<w.name, "mode">>} ELSE {})
  \cup {<<w.name, f>> : f \in Stated(w.scalars)}
  \cup (IF w.panes # NULL THEN {<<w.name, "panes">>} ELSE {})

Credit(origins, paths, file) ==
  [p \in DOMAIN origins \cup paths |-> IF p \in paths THEN file ELSE origins[p]]

\* One window of a layer onto the windows so far: by name, new ones last.
MergeOne(m, w, file) ==
  LET i == IndexOf(m.layer.windows, w.name) IN
  [m EXCEPT !.layer.windows =
               IF i = 0 THEN Append(@, w) ELSE [@ EXCEPT ![i] = MergeWindow(@, w)],
            !.origins = Credit(@, Credited(w, i = 0), file)]

MergeLayers(m, source) ==
  LET over == source.layer
      keys == [m EXCEPT
        !.layer.roots = IF over.roots = NULL THEN @ ELSE over.roots,
        !.layer.scalars = Override(@, over.scalars),
        !.origins = Credit(@, {<<NULL, f>> : f \in Stated(over.scalars)}, source.file)]
  IN FoldLeft(LAMBDA n, w : MergeOne(n, w, source.file), keys, over.windows)

NothingMerged == [layer |-> EmptyLayer, origins |-> [p \in {} |-> NULL]]

-----------------------------------------------------------------------------
\* normalize: what omitted keys mean.

Or(v, default) == IF v = NULL THEN default ELSE v

ScalarDefault ==
  [f \in Scalar |->
     CASE f = "version" -> 0
       [] f = "autostart" -> FALSE
       [] f = "devcontainer.enabled" -> "auto"
       [] f = "devcontainer.start_timeout" -> "5m"
       [] OTHER -> NULL]

NormalMode(mode) == [mode EXCEPT !["shell"] = Or(@, FALSE)]
NormalPane(p) == [p EXCEPT !.mode = NormalMode(@), !.focus = Or(@, FALSE)]
DefaultPane == [name |-> "shell", focus |-> FALSE,
                mode |-> NormalMode([NoMode EXCEPT !["shell"] = TRUE])]

Normalize(layer) ==
  [scalars |-> [f \in Scalar |-> Or(layer.scalars[f], ScalarDefault[f])],
   windows |->
     [i \in 1..Len(layer.windows) |->
        LET w == layer.windows[i] IN
        [w EXCEPT !.mode = NormalMode(@),
                  !.scalars["focus"] = Or(@, FALSE),
                  !.panes = IF @ = NULL THEN <<DefaultPane>>
                            ELSE [j \in 1..Len(@) |-> NormalPane(@[j])]]]]

-----------------------------------------------------------------------------
\* problem and its fallback ladder: the path's origin, else the window's.

OriginFor(m, path) ==
  IF path \in DOMAIN m.origins THEN m.origins[path]
  ELSE IF <<path[1], "">> \in DOMAIN m.origins THEN m.origins[<<path[1], "">>]
  ELSE NULL

LayerIndex(file) == CHOOSE i \in DOMAIN Files : Files[i] = file

\* The primary position first, then the others in layer order.
Problem(m, rule, path, also) ==
  LET primary == IF path = <<>> THEN NULL ELSE OriginFor(m, path)
      others == {OriginFor(m, p) : p \in also} \ {primary, NULL}
      sorted == SetToSortSeq(others, LAMBDA a, b : LayerIndex(a) < LayerIndex(b))
  IN [rule |-> rule, path |-> path,
      origins |-> (IF primary = NULL THEN <<>> ELSE <<primary>>) \o sorted]

\* Mutant: shell: false counts as a mode.
ModesStated(mode) == {k \in ModeKeys : mode[k] # NULL}

ModesOf(mode) == {k \in {"agent", "command"} : mode[k] # NULL}
                 \cup {k \in {"shell"} : mode[k]}

EmptyModes(mode) == {k \in {"agent", "command"} : mode[k] = "empty"}
BadName(name) == name \in {"?", "3"}
Unportable(name) == name = "?"
Uncontained(path) == path \in {"empty", "/abs", "../up"}

RepeatedNames(items) ==
  {items[i].name : i \in {k \in 1..Len(items) :
                            \E j \in 1..(k - 1) : items[j].name = items[k].name}}

\* duplicateWindows: per layer, where a repetition is always a mistake.
DuplicateWindows(source) ==
  {[rule |-> "duplicate window", path |-> <<n, "">>, origins |-> <<source.file>>]
     : n \in RepeatedNames(source.layer.windows)}

PaneProblems(m, w) ==
  LET here == <<w.name, "panes">>
      Is(rule, holds) == IF holds THEN {Problem(m, rule, here, {})} ELSE {}
      Some(P(_)) == \E i \in 1..Len(w.panes) : P(w.panes[i])
  IN Is("pane name", Some(LAMBDA p : Unportable(p.name)))
     \cup Is("duplicate pane", RepeatedNames(w.panes) # {})
     \cup Is("pane mode", Some(LAMBDA p : Cardinality(ModesOf(p.mode)) # 1))
     \cup Is("empty pane mode", Some(LAMBDA p : EmptyModes(p.mode) # {}))
     \cup Is("pane focus",
             Cardinality({i \in 1..Len(w.panes) : w.panes[i].focus}) > 1)

WindowProblems(m, w, enabled) ==
  LET At(f) == <<w.name, f>>
      location == w.scalars["location"]
      Is(rule, f, holds, also) ==
        IF holds THEN {Problem(m, rule, At(f), also)} ELSE {}
  IN Is("window name", "", BadName(w.name), {})
     \cup Is("mode", "", Cardinality(ModesOf(w.mode)) # 1, {})
     \cup Is("empty mode", "mode", EmptyModes(w.mode) # {}, {})
     \cup Is("location", "location", location \notin {NULL, "host", "container"}, {})
     \cup Is("cwd", "cwd", Uncontained(w.scalars["cwd"]), {})
     \cup PaneProblems(m, w)
     \cup Is("container disabled", "location",
             enabled = "false" /\ location = "container",
             {<<NULL, "devcontainer.enabled">>})

Validate(m, cfg) ==
  LET Key(rule, f, holds) ==
        IF holds THEN {Problem(m, rule, <<NULL, f>>, {})} ELSE {}
      windows == {cfg.windows[i] : i \in 1..Len(cfg.windows)}
      focused == {w.name : w \in {x \in windows : x.scalars["focus"]}}
  IN Key("version", "version", cfg.scalars["version"] # SchemaVersion)
     \cup Key("start_timeout", "devcontainer.start_timeout",
              cfg.scalars["devcontainer.start_timeout"] = "0s")
     \cup Key("environment", "environment.=", cfg.scalars["environment.="] # NULL)
     \cup UNION {WindowProblems(m, w, cfg.scalars["devcontainer.enabled"]) : w \in windows}
     \cup (IF Cardinality(focused) > 1
           THEN {Problem(m, "focus", <<>>, {<<n, "focus">> : n \in focused})} ELSE {})

\* Load's verdict on the layers it read.
Problems(read, m) ==
  UNION {DuplicateWindows(read[i]) : i \in 1..Len(read)}
  \cup Validate(m, Normalize(m.layer))

\* Mutant: repetitions are found only where layers are merged.
DefaultsProblemsMerged(source) ==
  LET alone == MergeLayers(NothingMerged, source)
      m == [alone EXCEPT !.layer.scalars["version"] = Or(@, SchemaVersion)]
  IN Validate(m, Normalize(m.layer))

\* ValidateDefaults: one layer read alone, which may leave the version open.
DefaultsProblems(source) ==
  LET alone == MergeLayers(NothingMerged, source)
      m == [alone EXCEPT !.layer.scalars["version"] = Or(@, SchemaVersion)]
  IN DuplicateWindows(source) \cup Validate(m, Normalize(m.layer))

-----------------------------------------------------------------------------
\* The commands.

Report(subject, status) ==
  results' = Append(results, [subject |-> subject, status |-> status])

Init ==
  /\ command \in {"load", "validate", "validate one", "doctor"}
  /\ pc = "defaults"
  /\ slugs = 0
  /\ sources = <<>>
  /\ merged = NothingMerged
  /\ results = <<>>
  /\ effective = NULL

Source(file, layer) == [file |-> file, layer |-> layer]

\* Who examines all there is also reports on the defaults by themselves.
ExaminesAll == command \in {"validate", "doctor"}

\* LoadDefaults, before anything else; open knows its workspace by then.
ReadDefaults ==
  /\ pc = "defaults"
  /\ \E layer \in DefaultsLayers :
       LET source == Source("defaults", layer) IN
       /\ sources' = <<source>>
       /\ merged' = MergeLayers(NothingMerged, source)
       /\ IF ExaminesAll
          THEN Report("defaults", IF DefaultsProblems(source) = {} THEN "ok" ELSE "warn")
          ELSE UNCHANGED results
  /\ pc' = IF command = "load" THEN "overlay" ELSE "slugs"
  /\ slugs' = IF command = "load" THEN 1 ELSE 0
  /\ UNCHANGED <<command, effective>>

\* defaults.yaml does not decode: open fails, doctor has nothing to go on, and
\* config --validate goes on to list what it then cannot examine.
DefaultsUndecodable ==
  /\ pc = "defaults"
  /\ IF command = "validate one" THEN UNCHANGED results ELSE Report("defaults", "invalid")
  /\ pc' = IF command \in {"validate", "validate one"} THEN "slugs" ELSE "done"
  /\ UNCHANGED <<command, slugs, sources, merged, effective>>

\* Slugs reads the workspaces directory; an absent one holds none.
ListSlugs ==
  /\ pc = "slugs" /\ ExaminesAll
  /\ \E n \in 0..MaxSlugs :
       IF sources = <<>>
       THEN /\ results' = results \o [i \in 1..n |-> [subject |-> "slug", status |-> "unknown"]]
            /\ pc' = "done"
            /\ UNCHANGED slugs
       ELSE /\ slugs' = n
            /\ pc' = IF n = 0 THEN "done" ELSE "overlay"
            /\ UNCHANGED results
  /\ UNCHANGED <<command, sources, merged, effective>>

SlugsUnreadable ==
  /\ pc = "slugs"
  /\ IF ExaminesAll THEN Report("workspaces", "unknown") /\ pc' = "done"
     ELSE UNCHANGED results /\ pc' = "error"
  /\ UNCHANGED <<command, slugs, sources, merged, effective>>

\* The one workspace asked for is looked up before anything is said of it.
FindSlug ==
  /\ pc = "slugs" /\ command = "validate one"
  /\ \/ pc' = "usage" /\ UNCHANGED <<slugs, results>>
     \/ /\ sources = <<>>
        /\ Report("slug", "unknown")
        /\ pc' = "done"
        /\ UNCHANGED slugs
     \/ /\ sources # <<>>
        /\ slugs' = 1
        /\ pc' = "overlay"
        /\ UNCHANGED results
  /\ UNCHANGED <<command, sources, merged, effective>>

\* The next workspace starts from the defaults layer that was read once.
NextSlug ==
  /\ slugs' = slugs - 1
  /\ sources' = <<sources[1]>>
  /\ merged' = MergeLayers(NothingMerged, sources[1])
  /\ pc' = IF slugs > 1 THEN "overlay" ELSE "done"

\* loadLayer reads the workspace's next file and Load merges it at once.
ReadOverlay ==
  /\ pc = "overlay" /\ Len(sources) < Len(Files)
  /\ \E layer \in OverlayLayers :
       LET source == Source(Files[Len(sources) + 1], layer) IN
       /\ layer.roots = NULL
       /\ sources' = Append(sources, source)
       /\ merged' = MergeLayers(merged, source)
  /\ UNCHANGED <<command, pc, slugs, results, effective>>

\* The file cannot be read or decoded, or states repository_roots, which only
\* defaults.yaml may: the workspace is invalid, and nothing else is checked.
RejectOverlay ==
  /\ pc = "overlay" /\ Len(sources) < Len(Files)
  /\ effective' = NULL
  /\ Report("slug", "invalid")
  /\ NextSlug
  /\ UNCHANGED command

\* Every layer is read: check what they amount to.
CheckMerged ==
  /\ pc = "overlay" /\ Len(sources) = Len(Files)
  /\ LET clean == Problems(sources, merged) = {} IN
     /\ effective' = IF clean THEN Normalize(merged.layer) ELSE NULL
     /\ Report("slug", IF clean THEN "ok" ELSE "invalid")
  /\ NextSlug
  /\ UNCHANGED command

Next ==
  \/ ReadDefaults \/ DefaultsUndecodable \/ ListSlugs \/ SlugsUnreadable \/ FindSlug
  \/ ReadOverlay \/ RejectOverlay \/ CheckMerged

Spec == Init /\ [][Next]_configVars

-----------------------------------------------------------------------------
\* What the finished report says.

Statuses == {results[i].status : i \in 1..Len(results)}

\* Mutant: unexamined ground outranks a confirmed defect.
ExitCodeUnknownFirst(statuses) ==
  IF "unknown" \in statuses THEN 1 ELSE IF "invalid" \in statuses THEN 5 ELSE 0

\* validationOutcome.
ExitCode(statuses) ==
  IF "invalid" \in statuses THEN 5 ELSE IF "unknown" \in statuses THEN 1 ELSE 0

\* doctor's item for each status, and aggregate: the worst of them.
DoctorItem(status) == IF status = "invalid" THEN "fail" ELSE status
Severity == <<"ok", "warn", "unknown", "fail">>
Aggregate(items) ==
  Severity[Max({1} \cup {i \in DOMAIN Severity : Severity[i] \in items})]

-----------------------------------------------------------------------------
\* Usable: what the tmux and container code takes for granted of a window.
Usable(cfg) ==
  LET W == cfg.windows
      Runs(mode, k) == IF k = "shell" THEN mode[k] ELSE mode[k] # NULL
      OneMode(mode) == Cardinality({k \in ModeKeys : Runs(mode, k)}) = 1
  IN
  /\ \A i, j \in 1..Len(W) : W[i].name = W[j].name => i = j
  /\ \A i \in 1..Len(W) :
       /\ OneMode(W[i].mode)
       /\ \A j \in 1..Len(W[i].panes) : OneMode(W[i].panes[j].mode)
       /\ W[i].scalars["location"] = "container"
            => cfg.scalars["devcontainer.enabled"] # "false"
  /\ Cardinality({i \in 1..Len(W) : W[i].scalars["focus"]}) <= 1

(***************************************************************************)
(* The shape of the state; and what Load returns is what its callers take  *)
(* for granted: windows with names of their own and one way to run each,   *)
(* at most one focused, none in a container that is disabled.              *)
(***************************************************************************)
ConfigTypeOK ==
  /\ command \in {"load", "validate", "validate one", "doctor"}
  /\ pc \in {"defaults", "slugs", "overlay", "done", "usage", "error"}
  /\ slugs \in 0..(MaxSlugs + 1)
  /\ Len(sources) <= Len(Files)
  /\ \A i \in 1..Len(sources) : sources[i].file = Files[i]
  /\ Statuses \subseteq {"ok", "warn", "invalid", "unknown"}
  /\ effective = NULL \/ Usable(effective)

\* All windows the layers mention, in the order the files mention them.
Mentions == FlattenSeq([i \in 1..Len(sources) |-> sources[i].layer.windows])
FileOf(k) ==
  LET Before(i) == Len(FlattenSeq([j \in 1..i |-> sources[j].layer.windows]))
  IN sources[Min({i \in 1..Len(sources) : k <= Before(i)})].file

\* The last of the mentions, or of the layers, that states something.
LastMention(name, States(_)) ==
  Max({0} \cup {k \in 1..Len(Mentions) : Mentions[k].name = name /\ States(Mentions[k])})
LastSource(f) ==
  Max({0} \cup {i \in 1..Len(sources) : sources[i].layer.scalars[f] # NULL})
FirstMention(name) == Min({k \in 1..Len(Mentions) : Mentions[k].name = name})

(***************************************************************************)
(* Whoever states a key last decides it, and a key is all that is decided: *)
(* the trio of modes and the list of panes as wholes, every other key for  *)
(* itself, and a window keeps the place where it was first mentioned       *)
(* (merge.go:9-10 and 99-106, layer.go:62-66).  Repository roots are the   *)
(* defaults' alone.                                                        *)
(***************************************************************************)
LastWordDecides ==
  /\ sources # <<>> => merged.layer.roots = sources[1].layer.roots
  /\ \A f \in Scalar :
       LET i == LastSource(f) IN
       merged.layer.scalars[f] = IF i = 0 THEN NULL ELSE sources[i].layer.scalars[f]
  /\ LET W == merged.layer.windows IN
     /\ {W[i].name : i \in 1..Len(W)} = {Mentions[k].name : k \in 1..Len(Mentions)}
     /\ \A i, j \in 1..Len(W) : i < j => FirstMention(W[i].name) < FirstMention(W[j].name)
     /\ \A i \in 1..Len(W) :
          LET n == W[i].name
              mode == LastMention(n, SetsMode)
              panes == LastMention(n, LAMBDA w : w.panes # NULL)
          IN /\ W[i].mode = IF mode = 0 THEN NoMode ELSE Mentions[mode].mode
             /\ W[i].panes = IF panes = 0 THEN NULL ELSE Mentions[panes].panes
             /\ \A f \in WindowScalar :
                  LET k == LastMention(n, LAMBDA w : w.scalars[f] # NULL) IN
                  W[i].scalars[f] = IF k = 0 THEN NULL ELSE Mentions[k].scalars[f]

(***************************************************************************)
(* Every key that is stated has an origin, the file that decides it, "the  *)
(* file the reader has to edit" (origin.go:139-141), and the origin of a   *)
(* window is the file that introduced it; no other key has one:            *)
(* attribution has not drifted from the merge (merge.go:12-16).            *)
(***************************************************************************)
OriginDecides ==
  LET Decider(p) ==
        IF p[1] = NULL THEN LastSource(p[2])
        ELSE CASE p[2] = "" -> FirstMention(p[1])
               [] p[2] = "mode" -> LastMention(p[1], SetsMode)
               [] p[2] = "panes" -> LastMention(p[1], LAMBDA w : w.panes # NULL)
               [] OTHER -> LastMention(p[1], LAMBDA w : w.scalars[p[2]] # NULL)
      names == {Mentions[k].name : k \in 1..Len(Mentions)}
      keys == ({NULL} \X Scalar) \cup (names \X ({"", "mode", "panes"} \cup WindowScalar))
  IN merged.origins =
       [p \in {q \in keys : Decider(q) # 0} |->
          IF p[1] = NULL THEN sources[Decider(p)].file ELSE FileOf(Decider(p))]

(***************************************************************************)
(* defaults.yaml passes when read alone exactly when a workspace that adds *)
(* nothing but the version loads: nothing surfaces only once a workspace   *)
(* forces a merge (duplicate.go:5-10, validate.go:24-33).                  *)
(***************************************************************************)
DefaultsVerdictHolds ==
  sources # <<>> =>
    LET given == sources[1].layer.scalars["version"]
        bare == Source("workspace",
                  [EmptyLayer EXCEPT !.scalars["version"] = Or(given, SchemaVersion)])
        m == MergeLayers(MergeLayers(NothingMerged, sources[1]), bare)
    IN DefaultsProblems(sources[1]) = {} <=> Problems(<<sources[1], bare>>, m) = {}

(***************************************************************************)
(* config --validate and doctor agree on an installation: the former exits *)
(* 5 exactly when the latter's check fails, 1 when it is unknown, and 0    *)
(* otherwise, a warning included (docs/commands.md, Exit codes).  Asked    *)
(* about one workspace, it exits 0 exactly when an open of that workspace  *)
(* gets a configuration, and 5 only when the fault was looked for: where   *)
(* the defaults cannot be read, it has examined nothing.                   *)
(***************************************************************************)
CommandsAgree ==
  pc = "done" =>
    LET check == Aggregate({DoctorItem(s) : s \in Statuses})
        code == ExitCode(Statuses)
    IN /\ ExaminesAll =>
            code = CASE check = "fail" -> 5 [] check = "unknown" -> 1 [] OTHER -> 0
       /\ command = "validate one" =>
            /\ code = 0 <=> effective # NULL
            /\ code = 5 => sources # <<>>
=============================================================================
