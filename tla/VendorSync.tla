----------------------------- MODULE VendorSync -----------------------------
(***************************************************************************)
(* tools/update_vendor.py: the vendored trees, the manifest that pins      *)
(* them, the recorded local patches and the git index, and the commands    *)
(* that move them (sync, sync --ref, sync --update, capture-patch).        *)
(*                                                                         *)
(* A command runs alone and touches the disk step by step; any git, tar or *)
(* file operation of it may fail, and it may be killed between two steps.  *)
(* What a killed step leaves half done (a half exported or half removed    *)
(* tree, a half written file) is Partial.                                  *)
(*                                                                         *)
(* A tree is an upstream commit and the local change on top of it.  Line   *)
(* endings and the wording of messages are left out.                       *)
(***************************************************************************)
EXTENDS Naturals, Sequences

CONSTANTS Deps,
          Pinned,       \* the dependencies with "skip_update"
          Selections,   \* the sequences of dependencies a command may name
          MaxCommit,    \* the upstream histories end with this commit
          MaxCommands,  \* bound on the commands run
          Edits, NoEdit,
          Mixed,        \* the change left by a patch made against another commit, or
                        \* captured from a tree that was half removed
          Absent, Partial

ASSUME ConstantsAssumption ==
  /\ MaxCommit \in Nat /\ MaxCommands \in Nat
  /\ Pinned \subseteq Deps
  /\ Selections \subseteq Seq(Deps) \ {<<>>}
  /\ NoEdit \notin Edits /\ Mixed \notin Edits /\ NoEdit # Mixed

VARIABLES
  tip,       \* upstream's newest commit
  manifest,  \* the refs vendor_manifest.json pins, or Partial
  target,    \* the vendored trees
  staging,   \* the .vendor-staging directories
  patch,     \* vendor_patches/<name>/
  index,     \* the staged manifest and trees
  cmd, todo, \* the running command and the dependencies it has not finished
  raw,       \* raw_manifest, the command's copy of the manifest
  resolved,  \* the commit of Head(todo)
  pc,
  commands,  \* the commands started so far
  moved,     \* history: manifest refs written since their tree was staged
  settled    \* history: dependencies whose last replacement ran to its end, with no
             \* patch that was captured from one that did not

vars == <<tip, manifest, target, staging, patch, index, cmd, todo, raw, resolved, pc, commands, moved, settled>>

proc == <<cmd, todo, raw, resolved>>
Commits == 0..MaxCommit
Tree == [base : Commits, edit : Edits \union {NoEdit, Mixed}]
Patch == [from : Commits, to : Tree]
Raw(c) == [base |-> c, edit |-> NoEdit]
Commands == {"sync", "ref", "update", "capture"}

\* What marks a tree, a patch or a manifest that is not there, or not whole, is none.
ASSUME MarkersAssumption ==
  /\ Absent # Partial /\ Absent \notin Tree \union Patch /\ Partial \notin Tree \union Patch
  /\ Partial \notin [Deps -> Commits]

NoRaw == [d \in Deps |-> 0]

dep == Head(todo)
IsTree(t) == t \notin {Absent, Partial}

\* What git apply makes of commit c: the captured tree on the commit the
\* patch was made from; elsewhere, or with a truncated patch, it may fail.
Applied(p, c) ==
  CASE p = Absent -> {Raw(c)}
    [] p = Partial -> {Partial, [base |-> c, edit |-> Mixed]}
    [] OTHER -> IF c = p.from THEN {p.to}
                ELSE {Partial, [base |-> c, edit |-> IF p.to.base = p.from THEN p.to.edit ELSE Mixed]}

Init ==
  /\ tip = [d \in Deps |-> 0]
  /\ manifest = [d \in Deps |-> 0]
  /\ target = [d \in Deps |-> Raw(0)]
  /\ staging = [d \in Deps |-> Absent]
  /\ patch = [d \in Deps |-> Absent]
  /\ index = [manifest |-> manifest, tree |-> target]
  /\ cmd = "none" /\ todo = <<>>
  /\ raw = NoRaw /\ resolved = 0
  /\ pc = "idle" /\ commands = 0
  /\ moved = {} /\ settled = Deps

-----------------------------------------------------------------------------

UpstreamCommit(d) ==
  /\ tip[d] < MaxCommit
  /\ tip' = [tip EXCEPT ![d] = @ + 1]
  /\ UNCHANGED <<manifest, target, staging, patch, index, proc, pc, moved, settled, commands>>

\* A developer changes a vendored tree between two commands.
LocalEdit(d, e) ==
  /\ pc = "idle" /\ IsTree(target[d])
  /\ target' = [target EXCEPT ![d].edit = e]
  /\ UNCHANGED <<tip, manifest, staging, patch, index, proc, pc, moved, settled, commands>>

Ended == /\ cmd' = "none" /\ todo' = <<>> /\ pc' = "idle"
         /\ raw' = NoRaw /\ resolved' = 0

\* The command is done with its first dependency.
NextDep ==
  IF Tail(todo) = <<>> THEN Ended
  ELSE /\ todo' = Tail(todo) /\ pc' = "resolve"
       /\ UNCHANGED <<cmd, raw, resolved>>

\* main: load_manifest, which a half written manifest fails, the checks of
\* the arguments and the selection.
Start(c, selected) ==
  /\ pc = "idle" /\ manifest # Partial /\ commands < MaxCommands
  /\ c = "ref" => Len(selected) = 1
  /\ cmd' = c /\ todo' = selected /\ raw' = manifest
  /\ pc' = "resolve" /\ commands' = commands + 1
  /\ UNCHANGED <<tip, manifest, target, staging, patch, index, resolved, moved, settled>>

\* The fetch and rev-parse: the pinned ref, the one --ref names, or the tip.
Resolve(c) ==
  /\ pc = "resolve"
  /\ CASE cmd = "ref" -> c <= tip[dep]
       [] cmd = "update" /\ dep \notin Pinned -> c = tip[dep]
       [] OTHER -> c = raw[dep]
  /\ resolved' = c
  /\ pc' = IF cmd = "capture" THEN "diff" ELSE "clean"
  /\ UNCHANGED <<tip, manifest, target, staging, patch, index, cmd, todo, raw, moved, settled, commands>>

\* Staging directories that earlier commands left are removed.
RemoveStale ==
  /\ pc = "clean"
  /\ staging' = [staging EXCEPT ![dep] = Absent]
  /\ pc' = "export"
  /\ UNCHANGED <<tip, manifest, target, patch, index, proc, moved, settled, commands>>

BeginExport ==
  /\ pc = "export"
  /\ staging' = [staging EXCEPT ![dep] = Partial]
  /\ pc' = "extract"
  /\ UNCHANGED <<tip, manifest, target, patch, index, proc, moved, settled, commands>>

Export ==
  /\ pc = "extract"
  /\ staging' = [staging EXCEPT ![dep] = Raw(resolved)]
  /\ pc' = "patch"
  /\ UNCHANGED <<tip, manifest, target, patch, index, proc, moved, settled, commands>>

\* Mutant: a patch that does not apply is skipped.
IgnorePatchFailure ==
  /\ pc = "patch"
  /\ staging' = [staging EXCEPT ![dep] = IF patch[dep] = Absent \/ cmd = "update" THEN @ ELSE Partial]
  /\ pc' = "replace"
  /\ UNCHANGED <<tip, manifest, target, patch, index, proc, moved, settled, commands>>

\* apply_patches, not called by --update, and preserve_tracked_file_format.
\* A patch that does not apply fails the command.
ApplyPatches ==
  /\ pc = "patch"
  /\ \E t \in (IF cmd = "update" THEN {staging[dep]} ELSE Applied(patch[dep], resolved)) :
       /\ IsTree(t)
       /\ staging' = [staging EXCEPT ![dep] = t]
  /\ pc' = "replace"
  /\ UNCHANGED <<tip, manifest, target, patch, index, proc, moved, settled, commands>>

\* rmtree of the old tree, begun and completed.
BeginRemove ==
  /\ pc = "replace" /\ target[dep] # Absent
  /\ target' = [target EXCEPT ![dep] = Partial]
  /\ settled' = settled \ {dep}
  /\ pc' = "remove"
  /\ UNCHANGED <<tip, manifest, staging, patch, index, proc, moved, commands>>

EndRemove ==
  /\ pc = "remove"
  /\ target' = [target EXCEPT ![dep] = Absent]
  /\ pc' = "replace"
  /\ UNCHANGED <<tip, manifest, staging, patch, index, proc, moved, settled, commands>>

\* Mutant: --update does not write the commit it moved to.
WritesRefOnly == cmd = "ref"

WritesManifest == cmd = "ref" \/ (cmd = "update" /\ dep \notin Pinned)

Settles(d) == settled' = IF staging[d].base = resolved THEN settled \union {d} ELSE settled

Rename ==
  /\ pc = "replace" /\ target[dep] = Absent
  /\ target' = [target EXCEPT ![dep] = staging[dep]]
  /\ staging' = [staging EXCEPT ![dep] = Absent]
  /\ CASE WritesManifest -> pc' = "write" /\ UNCHANGED <<proc, settled>>
       [] ~WritesManifest /\ cmd = "update" ->
            pc' = "stage" /\ Settles(dep) /\ UNCHANGED proc
       [] OTHER -> NextDep /\ Settles(dep)
  /\ UNCHANGED <<tip, manifest, patch, index, moved, commands>>

\* update_manifest_ref, and write_manifest begun and completed.
BeginWrite ==
  /\ pc = "write"
  /\ raw' = [raw EXCEPT ![dep] = resolved]
  /\ manifest' = Partial
  /\ pc' = "flush"
  /\ UNCHANGED <<tip, target, staging, patch, index, cmd, todo, resolved, moved, settled, commands>>

WriteManifest ==
  /\ pc = "flush"
  /\ manifest' = raw
  /\ moved' = moved \union {dep}
  /\ settled' = IF target[dep].base = resolved THEN settled \union {dep} ELSE settled
  /\ IF cmd = "update" THEN pc' = "stage" /\ UNCHANGED proc ELSE NextDep
  /\ UNCHANGED <<tip, target, staging, patch, index, commands>>

\* git add of the manifest, with every ref in it, and of this one tree.
StageDependency ==
  /\ pc = "stage"
  /\ index' = [manifest |-> manifest, tree |-> [index.tree EXCEPT ![dep] = target[dep]]]
  /\ moved' = moved \ {dep}
  /\ NextDep
  /\ UNCHANGED <<tip, manifest, target, staging, patch, settled, commands>>

-----------------------------------------------------------------------------

\* capture_patch: the difference between the pinned commit and the tree is
\* taken first, then the recorded patches are deleted, then it is written.
\* That the directory exists is all that is asked of the tree.
TakeDiff ==
  /\ pc = "diff" /\ target[dep] # Absent
  /\ pc' = "unlink"
  /\ UNCHANGED <<tip, manifest, target, staging, patch, index, proc, moved, settled, commands>>

\* The exit status of git diff is not looked at: a diff that failed counts as
\* an empty one, and no patch is written.
UnlinkPatches ==
  /\ pc = "unlink"
  /\ patch' = [patch EXCEPT ![dep] = Absent]
  /\ \/ NextDep
     \/ /\ target[dep] # Raw(resolved)
        /\ pc' = "begin patch" /\ UNCHANGED proc
  /\ UNCHANGED <<tip, manifest, target, staging, index, moved, settled, commands>>

BeginWritePatch ==
  /\ pc = "begin patch"
  /\ patch' = [patch EXCEPT ![dep] = Partial]
  /\ pc' = "write patch"
  /\ UNCHANGED <<tip, manifest, target, staging, index, proc, moved, settled, commands>>

\* Of a half removed tree the patch deletes what was missing.
Captured == IF IsTree(target[dep]) THEN target[dep] ELSE [base |-> resolved, edit |-> Mixed]

WritePatch ==
  /\ pc = "write patch"
  /\ patch' = [patch EXCEPT ![dep] = [from |-> resolved, to |-> Captured]]
  /\ NextDep
  /\ UNCHANGED <<tip, manifest, target, staging, index, moved, settled, commands>>

\* The command ends where it is: killed, or one of its steps failed.
Stop ==
  /\ pc # "idle"
  /\ Ended
  /\ UNCHANGED <<tip, manifest, target, staging, patch, index, commands, moved, settled>>

Next ==
  \/ \E d \in Deps : UpstreamCommit(d) \/ \E e \in Edits : LocalEdit(d, e)
  \/ \E c \in Commands, s \in Selections : Start(c, s)
  \/ \E c \in Commits : Resolve(c)
  \/ RemoveStale \/ BeginExport \/ Export \/ ApplyPatches
  \/ BeginRemove \/ EndRemove \/ Rename
  \/ BeginWrite \/ WriteManifest \/ StageDependency
  \/ TakeDiff \/ UnlinkPatches \/ BeginWritePatch \/ WritePatch
  \/ Stop

Spec == Init /\ [][Next]_vars

-----------------------------------------------------------------------------

\* Every variable has its type.
TypeOK ==
  /\ tip \in [Deps -> Commits]
  /\ manifest \in [Deps -> Commits] \union {Partial}
  /\ target \in [Deps -> Tree \union {Absent, Partial}]
  /\ staging \in [Deps -> Tree \union {Absent, Partial}]
  /\ patch \in [Deps -> Patch \union {Absent, Partial}]
  /\ index.manifest \in [Deps -> Commits] /\ index.tree \in [Deps -> Tree]
  /\ cmd \in Commands \union {"none"} /\ todo \in Seq(Deps)
  /\ raw \in [Deps -> Commits] /\ resolved \in Commits
  /\ commands \in 0..MaxCommands
  /\ moved \subseteq Deps /\ settled \subseteq Deps
  /\ (pc = "idle") <=> (todo = <<>>)

\* A vendored tree is given up only for a replacement that is exported whole
\* and carries the recorded local patches unless --update left them out: a
\* failing export or patch never costs the tree that was there
\* (sync_dependency works in the staging directory until then).
OldTreeKept ==
  [][\A d \in Deps : IsTree(target[d]) /\ ~IsTree(target'[d]) =>
        /\ IsTree(staging[d])
        /\ cmd # "update" => staging[d] \in Applied(patch[d], resolved)]_vars

\* What is staged for a commit agrees with itself: the staged manifest names
\* the commit of every staged tree, but for the refs that were moved without
\* staging (--ref, or a command cut short before stage_dependency).
StagedAgree ==
  \A d \in Deps \ moved : index.manifest[d] = index.tree[d].base

\* Where the last replacement was not cut short, and no patch was captured
\* from a tree whose replacement was (it would record the difference between
\* the two commits as a local change), the tree is the one the
\* manifest names, whatever was synced, moved or interrupted elsewhere
\* (cmd_sync replaces the tree first and writes the manifest after it).  The same
\* holds of what is staged.
ManifestNamesTree ==
  /\ TypeOK
  /\ \A d \in settled : /\ IsTree(target[d])
                        /\ manifest # Partial => target[d].base = manifest[d]
  /\ StagedAgree

\* --update syncs a dependency with the existing local patches.
UpdateAppliesPatches ==
  cmd = "update" /\ pc = "stage" =>
     patch[dep] = Absent \/ target[dep] \in Applied(patch[dep], resolved)

=============================================================================
