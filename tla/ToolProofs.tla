----------------------------- MODULE ToolProofs -----------------------------
(***************************************************************************)
(* Proofs about the repository's own programs: its vendoring tool and its  *)
(* latency benchmark.                                                      *)
(*                                                                         *)
(* The first half shows what tools/update_vendor.py keeps, wherever it     *)
(* fails or is killed, for any dependencies, selections, histories and     *)
(* numbers of commands.  The second half shows what a run of the harness   *)
(* in benchmarks/call_site_latency measures and reports, for any list of   *)
(* thread counts, iterations, messages and latencies.                      *)
(***************************************************************************)
EXTENDS VendorSync, CallSiteLatency, FiniteSetTheorems, SequenceTheorems, WellFoundedInduction, TLAPS

-----------------------------------------------------------------------------
(***************************************************************************)
(* The parts of the invariant.                                             *)
(***************************************************************************)

Replacing == {"clean", "export", "extract", "patch", "replace", "remove", "write", "flush", "stage"}
Capturing == {"diff", "unlink", "begin patch", "write patch"}

\* Where a command can be.
PlacesRight ==
  /\ pc \in {"idle", "resolve"} \cup Replacing \cup Capturing
  /\ pc # "idle" => cmd \in Commands
  /\ pc \in Replacing => cmd # "capture"
  /\ pc \in {"write", "flush"} => WritesManifest
  /\ pc = "stage" => cmd = "update"

\* The command's copy of the manifest is the one on disk, or will be.
CopyRight ==
  /\ pc \notin {"idle", "flush"} => manifest = raw
  /\ pc \in Replacing /\ (~WritesManifest \/ pc \in {"flush", "stage"}) => raw[dep] = resolved

\* The tree that is about to replace the old one is whole and patched.
ReplacementReady ==
  /\ pc = "patch" => staging[dep] = Raw(resolved)
  /\ pc \in {"replace", "remove"} =>
       /\ IsTree(staging[dep])
       /\ IF cmd = "update" THEN staging[dep].base = resolved
                            ELSE staging[dep] \in Applied(patch[dep], resolved)
  /\ pc \in {"write", "flush", "stage"} =>
       IsTree(target[dep]) /\ (cmd = "update" => target[dep].base = resolved)
  /\ pc \in {"unlink", "begin patch", "write patch"} => target[dep] # Absent

\* A tree whose replacement has begun is not settled; the others have the
\* commits of the manifest, also of the copy that is being written.
SettledRight ==
  /\ pc \in {"remove", "write", "flush"} => dep \notin settled
  /\ \A d \in settled : /\ IsTree(target[d])
                        /\ manifest # Partial => target[d].base = manifest[d]
                        /\ pc = "flush" => target[d].base = raw[d]

\* A ref that was not moved is that of the staged tree.
StagedRight ==
  \A d \in Deps \ moved :
    /\ index.manifest[d] = index.tree[d].base
    /\ manifest # Partial => manifest[d] = index.tree[d].base
    /\ pc = "flush" /\ d # dep => raw[d] = index.tree[d].base

IInv == TypeOK /\ PlacesRight /\ CopyRight /\ ReplacementReady /\ SettledRight /\ StagedRight

-----------------------------------------------------------------------------
(***************************************************************************)
(* The dependency a command works on, and the end of its work.             *)
(***************************************************************************)

\* A running command has a dependency before it.
LEMMA DepTyped ==
  ASSUME TypeOK, pc # "idle"
  PROVE  todo \in Seq(Deps) /\ todo # <<>> /\ dep \in Deps
<1>1. todo \in Seq(Deps) /\ todo # <<>>
  BY DEF TypeOK
<1>2. Head(todo) \in Deps
  BY <1>1, HeadTailProperties
<1> QED BY <1>1, <1>2 DEF dep

\* Numbers and markers.
LEMMA ConstantsRight ==
  /\ 0 \in Commits /\ NoRaw \in [Deps -> Commits]
  /\ \A c \in Commits : Raw(c) \in Tree /\ Raw(c).base = c
  /\ \A t \in Tree : IsTree(t) /\ t.base \in Commits
  /\ \A t \in Tree \cup {Absent, Partial} : IsTree(t) => t \in Tree
<1>1. 0 \in Commits /\ NoRaw \in [Deps -> Commits]
  BY ConstantsAssumption DEF Commits, NoRaw
<1>2. \A c \in Commits : Raw(c) \in Tree /\ Raw(c).base = c
  BY DEF Tree, Raw
<1>3. \A t \in Tree : IsTree(t)
  BY MarkersAssumption DEF IsTree
<1>4. \A t \in Tree : t.base \in Commits
  BY DEF Tree
<1> QED BY <1>1, <1>2, <1>3, <1>4 DEF IsTree

\* A command that ends forgets what it had; one that goes on keeps it.
LEMMA EndedEffect ==
  ASSUME Ended
  PROVE  /\ pc' = "idle" /\ cmd' \in Commands \cup {"none"} /\ todo' \in Seq(Deps)
         /\ raw' \in [Deps -> Commits] /\ resolved' \in Commits /\ (pc' = "idle" <=> todo' = <<>>)
BY ConstantsRight DEF Ended

\* NextDep ends the command, or goes on with the next dependency and the same
\* copy of the manifest.
LEMMA NextDepEffect ==
  ASSUME TypeOK, pc # "idle", NextDep
  PROVE  /\ pc' \in {"idle", "resolve"} /\ cmd' \in Commands \cup {"none"} /\ todo' \in Seq(Deps)
         /\ raw' \in [Deps -> Commits] /\ resolved' \in Commits /\ (pc' = "idle" <=> todo' = <<>>)
         /\ pc' = "resolve" => cmd' = cmd /\ raw' = raw
<1>1. CASE Tail(todo) = <<>>
  BY <1>1, EndedEffect DEF NextDep
<1>2. CASE Tail(todo) # <<>>
  <2>1. Tail(todo) \in Seq(Deps)
    BY DepTyped, HeadTailProperties
  <2> QED BY <1>2, <2>1 DEF NextDep, TypeOK
<1> QED BY <1>1, <1>2

\* git apply makes a tree of a commit, or fails.
LEMMA AppliedTyped ==
  ASSUME NEW p \in Patch \cup {Absent, Partial}, NEW c \in Commits
  PROVE  Applied(p, c) \subseteq Tree \cup {Partial}
<1>1. [base |-> c, edit |-> Mixed] \in Tree
  BY DEF Tree
<1>2. CASE p = Absent
  <2>1. Applied(p, c) = {Raw(c)}
    BY <1>2, MarkersAssumption DEF Applied
  <2> QED BY <2>1, ConstantsRight
<1>3. CASE p # Absent /\ p = Partial
  BY <1>1, <1>3 DEF Applied
<1>4. CASE p \notin {Absent, Partial}
  <2>1. p \in Patch /\ p.from \in Commits /\ p.to \in Tree /\ p.to.edit \in Edits \cup {NoEdit, Mixed}
    BY <1>4 DEF Patch, Tree
  <2>2. [base |-> c, edit |-> p.to.edit] \in Tree
    BY <2>1 DEF Tree
  <2>3. Applied(p, c) = IF c = p.from THEN {p.to}
                        ELSE {Partial, [base |-> c, edit |-> IF p.to.base = p.from THEN p.to.edit ELSE Mixed]}
    BY <1>4 DEF Applied
  <2> QED BY <1>1, <2>1, <2>2, <2>3
<1> QED BY <1>2, <1>3, <1>4

-----------------------------------------------------------------------------
(***************************************************************************)
(* Every step keeps the types.                                             *)
(***************************************************************************)

\* One entry of a table of trees changes.
LEMMA TreesTyped ==
  ASSUME NEW f \in [Deps -> Tree \cup {Absent, Partial}],
         NEW d \in Deps, NEW t \in Tree \cup {Absent, Partial}
  PROVE  [f EXCEPT ![d] = t] \in [Deps -> Tree \cup {Absent, Partial}]
OBVIOUS

\* Every step keeps TypeOK.  StageDependency needs more than the types: the
\* manifest and the tree it adds are whole.
LEMMA TypeNext == IInv /\ [Next]_vars => TypeOK'
<1> SUFFICES ASSUME IInv, [Next]_vars PROVE TypeOK'
  OBVIOUS
<1>0. TypeOK
  BY DEF IInv
<1>a. 0 \in Commits /\ MaxCommit \in Nat /\ MaxCommands \in Nat
  BY ConstantsRight, ConstantsAssumption
<1>b. pc # "idle" => dep \in Deps
  BY <1>0, DepTyped
<1>1. ASSUME NEW d \in Deps, UpstreamCommit(d) PROVE TypeOK'
  <2>1. tip[d] \in Commits /\ tip[d] < MaxCommit
    BY <1>0, <1>1 DEF UpstreamCommit, TypeOK
  <2>2. tip[d] + 1 \in Commits
    BY <1>a, <2>1 DEF Commits
  <2>3. tip' \in [Deps -> Commits]
    BY <1>0, <1>1, <2>2 DEF UpstreamCommit, TypeOK
  <2> QED BY <1>0, <1>1, <2>3 DEF UpstreamCommit, TypeOK, proc
<1>2. ASSUME NEW d \in Deps, NEW e \in Edits, LocalEdit(d, e) PROVE TypeOK'
  <2>1. target[d] \in Tree
    BY <1>0, <1>2, ConstantsRight DEF LocalEdit, TypeOK
  <2>2. [target[d] EXCEPT !.edit = e] \in Tree
    BY <2>1 DEF Tree
  <2>3. target' = [target EXCEPT ![d] = [target[d] EXCEPT !.edit = e]]
    BY <1>2 DEF LocalEdit
  <2>4. target' \in [Deps -> Tree \cup {Absent, Partial}]
    BY <1>0, <2>2, <2>3, TreesTyped DEF TypeOK
  <2> QED BY <1>0, <1>2, <2>4 DEF LocalEdit, TypeOK, proc
<1>3. ASSUME NEW c \in Commands, NEW s \in Selections, Start(c, s) PROVE TypeOK'
  <2>1. s \in Seq(Deps) /\ s # <<>>
    BY ConstantsAssumption
  <2>2. manifest \in [Deps -> Commits]
    BY <1>0, <1>3 DEF Start, TypeOK
  <2>3. commands' \in 0..MaxCommands
    BY <1>0, <1>a, <1>3 DEF Start, TypeOK
  <2> QED BY <1>0, <1>3, <2>1, <2>2, <2>3 DEF Start, TypeOK
<1>4. ASSUME NEW c \in Commits, Resolve(c) PROVE TypeOK'
  BY <1>0, <1>4 DEF Resolve, TypeOK
<1>5. CASE RemoveStale \/ BeginExport
  BY <1>0, <1>b, <1>5, TreesTyped DEF RemoveStale, BeginExport, TypeOK, proc
<1>6. CASE Export
  BY <1>0, <1>b, <1>6, TreesTyped, ConstantsRight DEF Export, TypeOK, proc
<1>7. CASE ApplyPatches
  <2>1. PICK t : /\ IsTree(t) /\ staging' = [staging EXCEPT ![dep] = t]
                 /\ t \in IF cmd = "update" THEN {staging[dep]} ELSE Applied(patch[dep], resolved)
    BY <1>7 DEF ApplyPatches
  <2>2. dep \in Deps /\ patch[dep] \in Patch \cup {Absent, Partial} /\ resolved \in Commits
        /\ staging[dep] \in Tree \cup {Absent, Partial}
    BY <1>0, <1>b, <1>7 DEF ApplyPatches, TypeOK
  <2>3. t \in Tree
    BY <2>1, <2>2, AppliedTyped, ConstantsRight
  <2>4. staging' \in [Deps -> Tree \cup {Absent, Partial}]
    BY <1>0, <2>1, <2>2, <2>3, TreesTyped DEF TypeOK
  <2> QED BY <1>0, <1>7, <2>4 DEF ApplyPatches, TypeOK, proc
<1>8. CASE BeginRemove
  BY <1>0, <1>b, <1>8, TreesTyped DEF BeginRemove, TypeOK, proc
<1>9. CASE EndRemove
  BY <1>0, <1>b, <1>9, TreesTyped DEF EndRemove, TypeOK, proc
<1>10. CASE Rename
  <2>1. dep \in Deps /\ staging[dep] \in Tree \cup {Absent, Partial} /\ pc # "idle"
    BY <1>0, <1>b, <1>10 DEF Rename, TypeOK
  <2>2. /\ target' \in [Deps -> Tree \cup {Absent, Partial}]
        /\ staging' \in [Deps -> Tree \cup {Absent, Partial}]
    BY <1>0, <1>10, <2>1, TreesTyped DEF Rename, TypeOK
  <2>3. settled' \subseteq Deps
    BY <1>0, <1>10, <2>1 DEF Rename, Settles, TypeOK
  <2>4. \/ UNCHANGED proc /\ pc' \in {"write", "stage"}
        \/ NextDep
    BY <1>10 DEF Rename
  <2>5. /\ cmd' \in Commands \cup {"none"} /\ todo' \in Seq(Deps) /\ raw' \in [Deps -> Commits]
        /\ resolved' \in Commits /\ (pc' = "idle" <=> todo' = <<>>)
    BY <1>0, <2>1, <2>4, NextDepEffect DEF TypeOK, proc
  <2> QED BY <1>0, <1>10, <2>2, <2>3, <2>5 DEF Rename, TypeOK
<1>11. CASE BeginWrite
  BY <1>0, <1>b, <1>11 DEF BeginWrite, TypeOK
<1>12. CASE WriteManifest
  <2>1. /\ dep \in Deps /\ pc # "idle" /\ manifest' \in [Deps -> Commits]
        /\ moved' \subseteq Deps /\ settled' \subseteq Deps
    BY <1>0, <1>b, <1>12 DEF WriteManifest, TypeOK
  <2>2. \/ UNCHANGED proc /\ pc' = "stage"
        \/ NextDep
    BY <1>12 DEF WriteManifest
  <2>3. /\ cmd' \in Commands \cup {"none"} /\ todo' \in Seq(Deps) /\ raw' \in [Deps -> Commits]
        /\ resolved' \in Commits /\ (pc' = "idle" <=> todo' = <<>>)
    BY <1>0, <2>1, <2>2, NextDepEffect DEF TypeOK, proc
  <2> QED BY <1>0, <1>12, <2>1, <2>3 DEF WriteManifest, TypeOK
<1>13. CASE StageDependency
  <2>1. dep \in Deps /\ pc # "idle" /\ moved' \subseteq Deps
    BY <1>0, <1>b, <1>13 DEF StageDependency, TypeOK
  <2>2. manifest \in [Deps -> Commits] /\ target[dep] \in Tree
    BY <1>0, <1>13, <2>1, ConstantsRight DEF IInv, CopyRight, ReplacementReady, StageDependency, TypeOK
  <2>3. index'.manifest \in [Deps -> Commits] /\ index'.tree \in [Deps -> Tree]
    BY <1>0, <1>13, <2>1, <2>2 DEF StageDependency, TypeOK
  <2>4. /\ cmd' \in Commands \cup {"none"} /\ todo' \in Seq(Deps) /\ raw' \in [Deps -> Commits]
        /\ resolved' \in Commits /\ (pc' = "idle" <=> todo' = <<>>)
    BY <1>0, <1>13, <2>1, NextDepEffect DEF StageDependency
  <2> QED BY <1>0, <1>13, <2>1, <2>3, <2>4 DEF StageDependency, TypeOK
<1>14. CASE TakeDiff
  BY <1>0, <1>14 DEF TakeDiff, TypeOK, proc
<1>15. CASE UnlinkPatches
  <2>1. dep \in Deps /\ pc # "idle"
    BY <1>b, <1>15 DEF UnlinkPatches
  <2>2. patch' \in [Deps -> Patch \cup {Absent, Partial}]
    BY <1>0, <1>15, <2>1 DEF UnlinkPatches, TypeOK
  <2>3. \/ UNCHANGED proc /\ pc' = "begin patch"
        \/ NextDep
    BY <1>15 DEF UnlinkPatches
  <2>4. /\ cmd' \in Commands \cup {"none"} /\ todo' \in Seq(Deps) /\ raw' \in [Deps -> Commits]
        /\ resolved' \in Commits /\ (pc' = "idle" <=> todo' = <<>>)
    BY <1>0, <2>1, <2>3, NextDepEffect DEF TypeOK, proc
  <2> QED BY <1>0, <1>15, <2>2, <2>4 DEF UnlinkPatches, TypeOK
<1>16. CASE BeginWritePatch
  BY <1>0, <1>b, <1>16 DEF BeginWritePatch, TypeOK, proc
<1>17. CASE WritePatch
  <2>1. dep \in Deps /\ pc # "idle"
    BY <1>b, <1>17 DEF WritePatch
  <2>2. Captured \in Tree /\ resolved \in Commits
    BY <1>0, <2>1 DEF Captured, IsTree, Tree, TypeOK
  <2>3. [from |-> resolved, to |-> Captured] \in Patch
    BY <2>2 DEF Patch
  <2>4. patch' \in [Deps -> Patch \cup {Absent, Partial}]
    BY <1>0, <1>17, <2>1, <2>3 DEF WritePatch, TypeOK
  <2>5. /\ cmd' \in Commands \cup {"none"} /\ todo' \in Seq(Deps) /\ raw' \in [Deps -> Commits]
        /\ resolved' \in Commits /\ (pc' = "idle" <=> todo' = <<>>)
    BY <1>0, <1>17, <2>1, NextDepEffect DEF WritePatch
  <2> QED BY <1>0, <1>17, <2>4, <2>5 DEF WritePatch, TypeOK
<1>18. CASE Stop
  BY <1>0, <1>18, EndedEffect DEF Stop, TypeOK
<1>19. CASE UNCHANGED vars
  BY <1>0, <1>19 DEF vars, proc, TypeOK
<1> QED
  BY <1>1, <1>2, <1>3, <1>4, <1>5, <1>6, <1>7, <1>8, <1>9, <1>10, <1>11, <1>12, <1>13, <1>14, <1>15,
     <1>16, <1>17, <1>18, <1>19 DEF Next

-----------------------------------------------------------------------------
(***************************************************************************)
(* The places a command can be at, and its copy of the manifest.           *)
(***************************************************************************)

\* A command that is between two dependencies, or at its end.
LEMMA BetweenDeps ==
  ASSUME TypeOK, pc # "idle", cmd \in Commands, NextDep \/ Ended
  PROVE  pc' = "idle" \/ (pc' = "resolve" /\ cmd' = cmd /\ raw' = raw)
BY NextDepEffect, EndedEffect

\* Every step goes from place to place in the order of cmd_sync and capture_patch.
LEMMA PlacesNext == IInv /\ [Next]_vars => PlacesRight'
<1> SUFFICES ASSUME IInv, [Next]_vars PROVE PlacesRight'
  OBVIOUS
<1>0. TypeOK /\ PlacesRight
  BY DEF IInv
<1>1. CASE pc' = "idle" \/ (pc' = "resolve" /\ cmd' = cmd /\ cmd \in Commands)
  BY <1>1 DEF PlacesRight, Replacing, Capturing
<1>2. CASE UNCHANGED <<pc, cmd, todo>>
  BY <1>0, <1>2 DEF PlacesRight, WritesManifest, dep
<1>3. ASSUME NEW d \in Deps, UpstreamCommit(d) \/ \E e \in Edits : LocalEdit(d, e) PROVE PlacesRight'
  BY <1>2, <1>3 DEF UpstreamCommit, LocalEdit, proc
<1>4. ASSUME NEW c \in Commands, NEW s \in Selections, Start(c, s) PROVE PlacesRight'
  BY <1>4 DEF Start, PlacesRight, Replacing, Capturing
<1>5. ASSUME NEW c \in Commits, Resolve(c) PROVE PlacesRight'
  BY <1>0, <1>5 DEF Resolve, PlacesRight, Replacing, Capturing
<1>6. CASE RemoveStale \/ BeginExport \/ Export \/ BeginRemove \/ EndRemove
  BY <1>0, <1>6 DEF RemoveStale, BeginExport, Export, BeginRemove, EndRemove, PlacesRight, Replacing,
       Capturing, proc
<1>7. CASE ApplyPatches
  BY <1>0, <1>7 DEF ApplyPatches, PlacesRight, Replacing, Capturing, proc
<1>8. CASE Rename
  <2>0. pc = "replace" /\ cmd \in Commands /\ cmd # "capture"
    BY <1>0, <1>8 DEF Rename, PlacesRight, Replacing
  <2>1. \/ WritesManifest /\ pc' = "write" /\ UNCHANGED <<cmd, todo>>
        \/ cmd = "update" /\ pc' = "stage" /\ UNCHANGED <<cmd, todo>>
        \/ NextDep
    BY <1>8 DEF Rename, proc
  <2>2. CASE WritesManifest /\ pc' = "write" /\ UNCHANGED <<cmd, todo>>
    BY <2>0, <2>2 DEF PlacesRight, Replacing, Capturing, WritesManifest, dep
  <2>3. CASE cmd = "update" /\ pc' = "stage" /\ UNCHANGED <<cmd, todo>>
    BY <2>0, <2>3 DEF PlacesRight, Replacing, Capturing
  <2>4. CASE NextDep
    BY <1>0, <1>1, <2>0, <2>4, BetweenDeps
  <2> QED BY <2>1, <2>2, <2>3, <2>4
<1>9. CASE BeginWrite
  BY <1>0, <1>9 DEF BeginWrite, PlacesRight, Replacing, Capturing, WritesManifest, dep
<1>10. CASE WriteManifest
  <2>0. pc = "flush" /\ cmd \in Commands
    BY <1>0, <1>10 DEF WriteManifest, PlacesRight
  <2>1. CASE cmd = "update"
    BY <1>0, <1>10, <2>1 DEF WriteManifest, PlacesRight, Replacing, Capturing, proc
  <2>2. CASE NextDep
    BY <1>0, <1>1, <2>0, <2>2, BetweenDeps
  <2> QED BY <1>10, <2>1, <2>2 DEF WriteManifest
<1>11. CASE StageDependency \/ WritePatch \/ Stop
  <2>1. pc # "idle" /\ cmd \in Commands /\ (NextDep \/ Ended)
    BY <1>0, <1>11 DEF StageDependency, WritePatch, Stop, PlacesRight
  <2> QED BY <1>0, <1>1, <2>1, BetweenDeps
<1>12. CASE TakeDiff \/ BeginWritePatch
  BY <1>0, <1>12 DEF TakeDiff, BeginWritePatch, PlacesRight, Replacing, Capturing, proc
<1>13. CASE UnlinkPatches
  <2>0. pc = "unlink" /\ cmd \in Commands
    BY <1>0, <1>13 DEF UnlinkPatches, PlacesRight
  <2>1. CASE NextDep
    BY <1>0, <1>1, <2>0, <2>1, BetweenDeps
  <2>2. CASE pc' = "begin patch" /\ UNCHANGED proc
    BY <2>0, <2>2 DEF PlacesRight, Replacing, Capturing, proc
  <2> QED BY <1>13, <2>1, <2>2 DEF UnlinkPatches
<1>14. CASE UNCHANGED vars
  BY <1>2, <1>14 DEF vars, proc
<1> QED
  BY <1>3, <1>4, <1>5, <1>6, <1>7, <1>8, <1>9, <1>10, <1>11, <1>12, <1>13, <1>14 DEF Next

\* Every step keeps the copy right: load_manifest reads it, update_manifest_ref
\* changes it, and write_manifest brings it back to disk.
LEMMA CopyNext == IInv /\ [Next]_vars => CopyRight'
<1> SUFFICES ASSUME IInv, [Next]_vars PROVE CopyRight'
  OBVIOUS
<1>0. TypeOK /\ PlacesRight /\ CopyRight
  BY DEF IInv
<1>1. CASE pc' = "idle" \/ (pc' = "resolve" /\ manifest' = raw')
  BY <1>1 DEF CopyRight, Replacing
<1>2. CASE UNCHANGED <<pc, cmd, todo, raw, resolved, manifest>>
  BY <1>0, <1>2 DEF CopyRight, WritesManifest, dep
<1>3. ASSUME NEW d \in Deps, UpstreamCommit(d) \/ \E e \in Edits : LocalEdit(d, e) PROVE CopyRight'
  BY <1>2, <1>3 DEF UpstreamCommit, LocalEdit, proc
<1>4. ASSUME NEW c \in Commands, NEW s \in Selections, Start(c, s) PROVE CopyRight'
  BY <1>1, <1>4 DEF Start
<1>5. ASSUME NEW c \in Commits, Resolve(c) PROVE CopyRight'
  <2>1. pc' \in {"diff", "clean"} /\ manifest' = raw'
    BY <1>0, <1>5 DEF Resolve, CopyRight
  <2>2. ~WritesManifest => c = raw[dep]
    BY <1>5 DEF Resolve, WritesManifest
  <2>3. UNCHANGED <<cmd, todo, raw>> /\ resolved' = c
    BY <1>5 DEF Resolve
  <2> QED BY <2>1, <2>2, <2>3 DEF CopyRight, WritesManifest, dep
<1>6. CASE RemoveStale \/ BeginExport \/ Export \/ BeginRemove \/ EndRemove \/ ApplyPatches
  <2>1. /\ pc \in Replacing \ {"flush", "stage"} /\ pc' \in Replacing \ {"flush", "stage"}
        /\ UNCHANGED <<cmd, todo, raw, resolved, manifest>>
    BY <1>6 DEF RemoveStale, BeginExport, Export, BeginRemove, EndRemove, ApplyPatches, Replacing, proc
  <2> QED BY <1>0, <2>1 DEF CopyRight, Replacing, WritesManifest, dep
<1>7. CASE Rename
  <2>0. pc = "replace" /\ cmd \in Commands /\ manifest = raw /\ manifest' = manifest
    BY <1>0, <1>7 DEF Rename, PlacesRight, CopyRight
  <2>1. \/ pc' = "write" /\ UNCHANGED proc
        \/ ~WritesManifest /\ pc' = "stage" /\ UNCHANGED proc
        \/ NextDep
    BY <1>7 DEF Rename
  <2>2. CASE pc' = "write" /\ UNCHANGED proc
    BY <1>0, <2>0, <2>2 DEF CopyRight, Replacing, WritesManifest, dep, proc
  <2>3. CASE ~WritesManifest /\ pc' = "stage" /\ UNCHANGED proc
    BY <1>0, <2>0, <2>3 DEF CopyRight, Replacing, WritesManifest, dep, proc
  <2>4. CASE NextDep
    BY <1>0, <1>1, <2>0, <2>4, BetweenDeps
  <2> QED BY <2>1, <2>2, <2>3, <2>4
<1>8. CASE BeginWrite
  <2>1. dep \in Deps /\ raw \in [Deps -> Commits]
    BY <1>0, <1>8, DepTyped DEF BeginWrite, TypeOK
  <2>2. pc' = "flush" /\ resolved' = resolved /\ todo' = todo /\ raw' = [raw EXCEPT ![dep] = resolved]
    BY <1>8 DEF BeginWrite
  <2> QED BY <2>1, <2>2 DEF CopyRight, dep
<1>9. CASE WriteManifest
  <2>0. pc = "flush" /\ cmd \in Commands /\ raw[dep] = resolved /\ manifest' = raw
    BY <1>0, <1>9 DEF WriteManifest, PlacesRight, CopyRight, Replacing
  <2>1. CASE pc' = "stage" /\ UNCHANGED proc
    BY <2>0, <2>1 DEF CopyRight, dep, proc
  <2>2. CASE NextDep
    BY <1>0, <1>1, <2>0, <2>2, BetweenDeps
  <2> QED BY <1>9, <2>1, <2>2 DEF WriteManifest
<1>10. CASE StageDependency \/ WritePatch \/ Stop
  <2>1. pc # "idle" /\ cmd \in Commands /\ (NextDep \/ Ended) /\ manifest' = manifest
    BY <1>0, <1>10 DEF StageDependency, WritePatch, Stop, PlacesRight
  <2>2. pc = "flush" => Ended
    BY <1>10 DEF StageDependency, WritePatch, Stop
  <2>3. pc' = "idle" \/ (pc' = "resolve" /\ pc # "flush" /\ raw' = raw)
    BY <1>0, <2>1, <2>2, BetweenDeps, EndedEffect
  <2> QED BY <1>0, <1>1, <2>1, <2>3 DEF CopyRight
<1>11. CASE TakeDiff \/ BeginWritePatch
  BY <1>0, <1>11 DEF TakeDiff, BeginWritePatch, CopyRight, Replacing, proc
<1>12. CASE UnlinkPatches
  <2>0. pc = "unlink" /\ cmd \in Commands /\ manifest' = manifest /\ manifest = raw
    BY <1>0, <1>12 DEF UnlinkPatches, PlacesRight, CopyRight
  <2>1. CASE NextDep
    BY <1>0, <1>1, <2>0, <2>1, BetweenDeps
  <2>2. CASE pc' = "begin patch" /\ UNCHANGED proc
    BY <2>0, <2>2 DEF CopyRight, Replacing, proc
  <2> QED BY <1>12, <2>1, <2>2 DEF UnlinkPatches
<1>13. CASE UNCHANGED vars
  BY <1>2, <1>13 DEF vars, proc
<1> QED
  BY <1>3, <1>4, <1>5, <1>6, <1>7, <1>8, <1>9, <1>10, <1>11, <1>12, <1>13 DEF Next

-----------------------------------------------------------------------------
(***************************************************************************)
(* The replacement, the trees that are settled and what is staged.         *)
(***************************************************************************)

\* Every step keeps the replacement ready: it is exported, then patched, and
\* nothing touches it until it is renamed over the place of the old tree.
LEMMA ReplacementNext == IInv /\ [Next]_vars => ReplacementReady'
<1> SUFFICES ASSUME IInv, [Next]_vars PROVE ReplacementReady'
  OBVIOUS
<1>0. TypeOK /\ PlacesRight /\ ReplacementReady
  BY DEF IInv
<1>1. CASE pc' \in {"idle", "resolve", "clean", "export", "extract", "diff"}
  BY <1>1 DEF ReplacementReady
<1>2. CASE UNCHANGED <<pc, cmd, todo, resolved, target, staging, patch>>
  BY <1>0, <1>2 DEF ReplacementReady, dep
<1>3. ASSUME NEW d \in Deps, UpstreamCommit(d) PROVE ReplacementReady'
  BY <1>2, <1>3 DEF UpstreamCommit, proc
<1>4. ASSUME NEW d \in Deps, NEW e \in Edits, LocalEdit(d, e) PROVE ReplacementReady'
  BY <1>1, <1>4 DEF LocalEdit
<1>5. ASSUME NEW c \in Commands, NEW s \in Selections, Start(c, s) PROVE ReplacementReady'
  BY <1>1, <1>5 DEF Start
<1>6. ASSUME NEW c \in Commits, Resolve(c) PROVE ReplacementReady'
  BY <1>1, <1>6 DEF Resolve
<1>7. CASE RemoveStale \/ BeginExport
  BY <1>1, <1>7 DEF RemoveStale, BeginExport
<1>8. CASE Export
  <2>1. dep \in Deps /\ staging \in [Deps -> Tree \cup {Absent, Partial}]
    BY <1>0, <1>8, DepTyped DEF Export, TypeOK
  <2>2. /\ pc' = "patch" /\ UNCHANGED <<todo, resolved>>
        /\ staging' = [staging EXCEPT ![dep] = Raw(resolved)]
    BY <1>8 DEF Export, proc
  <2> QED BY <2>1, <2>2 DEF ReplacementReady, dep
<1>9. CASE ApplyPatches
  <2>1. dep \in Deps /\ staging \in [Deps -> Tree \cup {Absent, Partial}] /\ resolved \in Commits
    BY <1>0, <1>9, DepTyped DEF ApplyPatches, TypeOK
  <2>2. PICK t : /\ IsTree(t) /\ staging' = [staging EXCEPT ![dep] = t]
                 /\ t \in IF cmd = "update" THEN {staging[dep]} ELSE Applied(patch[dep], resolved)
    BY <1>9 DEF ApplyPatches
  <2>3. staging[dep] = Raw(resolved) /\ Raw(resolved).base = resolved
    BY <1>0, <1>9, <2>1, ConstantsRight DEF ApplyPatches, ReplacementReady
  <2>4. IF cmd = "update" THEN t.base = resolved ELSE t \in Applied(patch[dep], resolved)
    BY <2>2, <2>3
  <2>5. pc' = "replace" /\ UNCHANGED <<cmd, todo, resolved, patch>>
    BY <1>9 DEF ApplyPatches, proc
  <2>6. dep' = dep /\ staging'[dep] = t
    BY <2>1, <2>2, <2>5 DEF dep
  <2> QED BY <2>2, <2>4, <2>5, <2>6 DEF ReplacementReady
<1>10. CASE BeginRemove \/ EndRemove
  <2>1. /\ pc \in {"replace", "remove"} /\ pc' \in {"replace", "remove"}
        /\ UNCHANGED <<cmd, todo, resolved, staging, patch>>
    BY <1>10 DEF BeginRemove, EndRemove, proc
  <2> QED BY <1>0, <2>1 DEF ReplacementReady, dep
<1>11. CASE Rename
  <2>0. /\ dep \in Deps /\ pc = "replace" /\ cmd \in Commands
        /\ target \in [Deps -> Tree \cup {Absent, Partial}]
    BY <1>0, <1>11, DepTyped DEF Rename, TypeOK, PlacesRight
  <2>1. target'[dep] = staging[dep]
    BY <1>11, <2>0 DEF Rename
  <2>2. IsTree(staging[dep]) /\ (cmd = "update" => staging[dep].base = resolved)
    BY <1>0, <2>0 DEF ReplacementReady
  <2>3. (pc' \in {"write", "stage"} /\ UNCHANGED <<cmd, todo, resolved>>) \/ NextDep
    BY <1>11 DEF Rename, proc
  <2>4. CASE pc' \in {"write", "stage"} /\ UNCHANGED <<cmd, todo, resolved>>
    <3>1. dep' = dep
      BY <2>4 DEF dep
    <3> QED BY <2>1, <2>2, <2>4, <3>1 DEF ReplacementReady
  <2>5. CASE NextDep
    BY <1>0, <1>1, <2>0, <2>5, NextDepEffect
  <2> QED BY <2>3, <2>4, <2>5
<1>12. CASE BeginWrite
  BY <1>0, <1>12 DEF BeginWrite, ReplacementReady, dep
<1>13. CASE WriteManifest
  <2>1. pc = "flush" /\ target' = target
    BY <1>13 DEF WriteManifest
  <2>2. CASE pc' = "stage" /\ UNCHANGED proc
    BY <1>0, <2>1, <2>2 DEF ReplacementReady, dep, proc
  <2>3. CASE NextDep
    BY <1>0, <1>1, <2>1, <2>3, NextDepEffect
  <2> QED BY <1>13, <2>2, <2>3 DEF WriteManifest
<1>14. CASE StageDependency \/ WritePatch \/ Stop
  <2>1. pc # "idle" /\ (NextDep \/ Ended)
    BY <1>14 DEF StageDependency, WritePatch, Stop
  <2> QED BY <1>0, <1>1, <2>1, NextDepEffect, EndedEffect
<1>15. CASE TakeDiff \/ BeginWritePatch
  BY <1>0, <1>15 DEF TakeDiff, BeginWritePatch, ReplacementReady, dep, proc
<1>16. CASE UnlinkPatches
  <2>1. pc = "unlink" /\ target' = target
    BY <1>16 DEF UnlinkPatches
  <2>2. CASE pc' = "begin patch" /\ UNCHANGED proc
    BY <1>0, <2>1, <2>2 DEF ReplacementReady, dep, proc
  <2>3. CASE NextDep
    BY <1>0, <1>1, <2>1, <2>3, NextDepEffect
  <2> QED BY <1>16, <2>2, <2>3 DEF UnlinkPatches
<1>17. CASE UNCHANGED vars
  BY <1>2, <1>17 DEF vars, proc
<1> QED
  BY <1>3, <1>4, <1>5, <1>6, <1>7, <1>8, <1>9, <1>10, <1>11, <1>12, <1>13, <1>14, <1>15, <1>16,
       <1>17 DEF Next

\* The manifest a running command works from is whole, but for the moment in
\* which it is written.
LEMMA ManifestWhole ==
  ASSUME IInv, pc \notin {"idle", "flush"}
  PROVE  manifest = raw /\ manifest # Partial /\ manifest \in [Deps -> Commits]
BY MarkersAssumption DEF IInv, TypeOK, CopyRight

\* Every step keeps the trees that are settled at the commits of the manifest.
LEMMA SettledNext == IInv /\ [Next]_vars => SettledRight'
<1> SUFFICES ASSUME IInv, [Next]_vars PROVE SettledRight'
  OBVIOUS
<1>0. TypeOK /\ PlacesRight /\ CopyRight /\ ReplacementReady /\ SettledRight
  BY DEF IInv
<1>a. /\ target \in [Deps -> Tree \cup {Absent, Partial}] /\ settled \subseteq Deps
      /\ raw \in [Deps -> Commits] /\ (pc # "idle" => dep \in Deps)
  BY <1>0, DepTyped DEF TypeOK
<1>1. CASE UNCHANGED <<target, settled, manifest>> /\ pc' \notin {"remove", "write", "flush"}
  BY <1>0, <1>1 DEF SettledRight
<1>2. CASE UNCHANGED <<target, settled, manifest, pc, todo, raw>>
  BY <1>0, <1>2 DEF SettledRight, dep
<1>3. ASSUME NEW d \in Deps, UpstreamCommit(d) PROVE SettledRight'
  BY <1>2, <1>3 DEF UpstreamCommit, proc
<1>4. ASSUME NEW d \in Deps, NEW e \in Edits, LocalEdit(d, e) PROVE SettledRight'
  <2>1. target[d] \in Tree
    BY <1>a, <1>4, ConstantsRight DEF LocalEdit
  <2>2. target'[d] \in Tree /\ target'[d].base = target[d].base
    BY <1>a, <1>4, <2>1 DEF LocalEdit, Tree
  <2>3. IsTree(target'[d])
    BY <2>2, ConstantsRight
  <2>4. \A x \in Deps \ {d} : target'[x] = target[x]
    BY <1>a, <1>4 DEF LocalEdit
  <2>5. UNCHANGED <<settled, manifest, pc>> /\ pc = "idle"
    BY <1>4 DEF LocalEdit
  <2> QED BY <1>0, <1>a, <2>2, <2>3, <2>4, <2>5 DEF SettledRight
<1>5. ASSUME NEW c \in Commands, NEW s \in Selections, Start(c, s) PROVE SettledRight'
  BY <1>1, <1>5 DEF Start
<1>6. ASSUME NEW c \in Commits, Resolve(c) PROVE SettledRight'
  BY <1>1, <1>6 DEF Resolve
<1>7. CASE RemoveStale \/ BeginExport \/ Export \/ ApplyPatches
  BY <1>1, <1>7 DEF RemoveStale, BeginExport, Export, ApplyPatches
<1>8. CASE BeginRemove
  <2>1. /\ pc' = "remove" /\ UNCHANGED <<todo, manifest>> /\ dep \in Deps
        /\ settled' = settled \ {dep} /\ target' = [target EXCEPT ![dep] = Partial]
    BY <1>a, <1>8 DEF BeginRemove, proc
  <2>2. dep' = dep /\ dep \notin settled' /\ \A x \in settled' : x \in settled /\ target'[x] = target[x]
    BY <1>a, <2>1 DEF dep
  <2> QED BY <1>0, <2>1, <2>2 DEF SettledRight
<1>9. CASE EndRemove
  <2>1. /\ pc = "remove" /\ pc' = "replace" /\ UNCHANGED <<manifest, settled>> /\ dep \in Deps
        /\ target' = [target EXCEPT ![dep] = Absent]
    BY <1>a, <1>9 DEF EndRemove
  <2>2. \A x \in settled : target'[x] = target[x]
    BY <1>0, <1>a, <2>1 DEF SettledRight
  <2> QED BY <1>0, <2>1, <2>2 DEF SettledRight
<1>10. CASE Rename
  <2>1. /\ pc = "replace" /\ UNCHANGED manifest /\ dep \in Deps /\ target[dep] = Absent
        /\ target' = [target EXCEPT ![dep] = staging[dep]]
    BY <1>a, <1>10 DEF Rename
  <2>2. dep \notin settled
    BY <1>0, <2>1 DEF SettledRight, IsTree
  <2>3. \A x \in settled : target'[x] = target[x] /\ IsTree(target[x]) /\ target[x].base = manifest[x]
    BY <1>0, <1>a, <2>1, <2>2, ManifestWhole DEF SettledRight
  <2>4. target'[dep] = staging[dep] /\ IsTree(staging[dep])
    BY <1>0, <1>a, <2>1 DEF ReplacementReady
  <2>5. CASE WritesManifest
    <3>1. pc' = "write" /\ UNCHANGED <<todo, settled>>
      BY <1>10, <2>5 DEF Rename, proc
    <3>2. dep' \notin settled'
      BY <2>2, <3>1 DEF dep
    <3> QED BY <2>1, <2>3, <3>1, <3>2 DEF SettledRight
  <2>6. CASE ~WritesManifest
    <3>1. Settles(dep) /\ pc' \in {"stage", "idle", "resolve"}
      <4>1. Settles(dep) /\ (pc' = "stage" \/ NextDep)
        BY <1>10, <2>6 DEF Rename
      <4> QED BY <1>0, <2>1, <4>1, NextDepEffect
    <3>2. manifest[dep] = resolved
      BY <1>0, <2>1, <2>6, ManifestWhole DEF CopyRight, Replacing
    <3>3. \A x \in settled' : x \in settled \/ (x = dep /\ staging[dep].base = resolved)
      BY <3>1 DEF Settles
    <3> QED BY <2>1, <2>3, <2>4, <3>1, <3>2, <3>3 DEF SettledRight
  <2> QED BY <2>5, <2>6
<1>11. CASE BeginWrite
  <2>1. /\ pc = "write" /\ pc' = "flush" /\ manifest' = Partial /\ UNCHANGED <<todo, target, settled>>
        /\ raw' = [raw EXCEPT ![dep] = resolved] /\ dep \in Deps
    BY <1>a, <1>11 DEF BeginWrite
  <2>2. dep \notin settled /\ dep' = dep
    BY <1>0, <2>1 DEF SettledRight, dep
  <2>3. \A x \in settled : IsTree(target[x]) /\ target[x].base = raw[x]
    BY <1>0, <2>1, ManifestWhole DEF SettledRight
  <2>4. \A x \in settled : raw'[x] = raw[x]
    BY <1>a, <2>1, <2>2
  <2> QED BY <2>1, <2>2, <2>3, <2>4 DEF SettledRight
<1>12. CASE WriteManifest
  <2>1. /\ pc = "flush" /\ manifest' = raw /\ target' = target /\ dep \in Deps
        /\ settled' = IF target[dep].base = resolved THEN settled \union {dep} ELSE settled
        /\ pc' = "stage" \/ NextDep
    BY <1>a, <1>12 DEF WriteManifest
  <2>2. pc' \in {"stage", "idle", "resolve"}
    BY <1>0, <2>1, NextDepEffect
  <2>3. IsTree(target[dep]) /\ raw[dep] = resolved
    BY <1>0, <2>1 DEF ReplacementReady, CopyRight, Replacing
  <2>4. \A x \in settled : IsTree(target[x]) /\ target[x].base = raw[x]
    BY <1>0, <2>1 DEF SettledRight
  <2> QED BY <2>1, <2>2, <2>3, <2>4 DEF SettledRight
<1>13. CASE StageDependency \/ WritePatch \/ Stop
  <2>1. pc # "idle" /\ (NextDep \/ Ended) /\ UNCHANGED <<target, settled, manifest>>
    BY <1>13 DEF StageDependency, WritePatch, Stop
  <2> QED BY <1>0, <1>1, <2>1, NextDepEffect, EndedEffect
<1>14. CASE TakeDiff \/ BeginWritePatch
  BY <1>1, <1>14 DEF TakeDiff, BeginWritePatch
<1>15. CASE UnlinkPatches
  <2>1. pc # "idle" /\ (NextDep \/ pc' = "begin patch") /\ UNCHANGED <<target, settled, manifest>>
    BY <1>15 DEF UnlinkPatches
  <2> QED BY <1>0, <1>1, <2>1, NextDepEffect
<1>16. CASE UNCHANGED vars
  BY <1>2, <1>16 DEF vars, proc
<1> QED
  BY <1>3, <1>4, <1>5, <1>6, <1>7, <1>8, <1>9, <1>10, <1>11, <1>12, <1>13, <1>14, <1>15, <1>16 DEF Next

\* Every step keeps what is staged consistent; stage_dependency adds a manifest
\* with all its refs, so the refs that were not moved must be right already.
LEMMA StagedNext == IInv /\ [Next]_vars => StagedRight'
<1> SUFFICES ASSUME IInv, [Next]_vars PROVE StagedRight'
  OBVIOUS
<1>0. TypeOK /\ PlacesRight /\ CopyRight /\ ReplacementReady /\ StagedRight
  BY DEF IInv
<1>a. raw \in [Deps -> Commits] /\ index.tree \in [Deps -> Tree] /\ (pc # "idle" => dep \in Deps)
  BY <1>0, DepTyped DEF TypeOK
<1>1. CASE UNCHANGED <<index, moved, manifest>> /\ pc' # "flush"
  BY <1>0, <1>1 DEF StagedRight
<1>2. CASE UNCHANGED <<index, moved, manifest, pc, todo, raw>>
  BY <1>0, <1>2 DEF StagedRight, dep
<1>3. ASSUME NEW d \in Deps, UpstreamCommit(d) \/ \E e \in Edits : LocalEdit(d, e) PROVE StagedRight'
  BY <1>2, <1>3 DEF UpstreamCommit, LocalEdit, proc
<1>4. ASSUME NEW c \in Commands, NEW s \in Selections, Start(c, s) PROVE StagedRight'
  BY <1>1, <1>4 DEF Start
<1>5. ASSUME NEW c \in Commits, Resolve(c) PROVE StagedRight'
  BY <1>1, <1>5 DEF Resolve
<1>6. CASE RemoveStale \/ BeginExport \/ Export \/ ApplyPatches \/ BeginRemove \/ EndRemove
  BY <1>1, <1>6 DEF RemoveStale, BeginExport, Export, ApplyPatches, BeginRemove, EndRemove
<1>7. CASE Rename
  <2>1. pc # "idle" /\ (pc' \in {"write", "stage"} \/ NextDep) /\ UNCHANGED <<index, moved, manifest>>
    BY <1>7 DEF Rename
  <2> QED BY <1>0, <1>1, <2>1, NextDepEffect
<1>8. CASE BeginWrite
  <2>1. /\ pc = "write" /\ pc' = "flush" /\ manifest' = Partial /\ UNCHANGED <<todo, index, moved>>
        /\ raw' = [raw EXCEPT ![dep] = resolved] /\ dep \in Deps
    BY <1>a, <1>8 DEF BeginWrite
  <2>2. manifest = raw /\ manifest # Partial /\ dep' = dep
    BY <2>1, ManifestWhole DEF dep
  <2>3. \A x \in Deps \ {dep} : raw'[x] = raw[x]
    BY <1>a, <2>1
  <2> QED BY <1>0, <2>1, <2>2, <2>3 DEF StagedRight
<1>9. CASE WriteManifest
  <2>1. /\ pc = "flush" /\ manifest' = raw /\ index' = index /\ dep \in Deps
        /\ moved' = moved \union {dep} /\ (pc' = "stage" \/ NextDep)
    BY <1>a, <1>9 DEF WriteManifest
  <2>2. pc' # "flush"
    BY <1>0, <2>1, NextDepEffect
  <2> QED BY <1>0, <2>1, <2>2 DEF StagedRight
<1>10. CASE StageDependency
  <2>1. /\ pc = "stage" /\ manifest' = manifest /\ dep \in Deps /\ NextDep /\ moved' = moved \ {dep}
        /\ index'.manifest = manifest /\ index'.tree = [index.tree EXCEPT ![dep] = target[dep]]
    BY <1>a, <1>10 DEF StageDependency
  <2>2. pc' # "flush" /\ manifest = raw /\ manifest # Partial
    BY <1>0, <2>1, NextDepEffect, ManifestWhole
  <2>3. target[dep].base = resolved /\ raw[dep] = resolved
    BY <1>0, <2>1 DEF ReplacementReady, CopyRight, PlacesRight, Replacing
  <2>4. index'.tree[dep] = target[dep] /\ \A x \in Deps \ {dep} : index'.tree[x] = index.tree[x]
    BY <1>a, <2>1
  <2>5. \A x \in Deps \ moved : manifest[x] = index.tree[x].base
    BY <1>0, <2>2 DEF StagedRight
  <2>6. \A x \in Deps \ moved' : manifest[x] = index'.tree[x].base
    BY <2>1, <2>2, <2>3, <2>4, <2>5
  <2> QED BY <2>1, <2>2, <2>6 DEF StagedRight
<1>11. CASE WritePatch \/ Stop
  <2>1. pc # "idle" /\ (NextDep \/ Ended) /\ UNCHANGED <<index, moved, manifest>>
    BY <1>11 DEF WritePatch, Stop
  <2> QED BY <1>0, <1>1, <2>1, NextDepEffect, EndedEffect
<1>12. CASE TakeDiff \/ BeginWritePatch
  BY <1>1, <1>12 DEF TakeDiff, BeginWritePatch
<1>13. CASE UnlinkPatches
  <2>1. pc # "idle" /\ (NextDep \/ pc' = "begin patch") /\ UNCHANGED <<index, moved, manifest>>
    BY <1>13 DEF UnlinkPatches
  <2> QED BY <1>0, <1>1, <2>1, NextDepEffect
<1>14. CASE UNCHANGED vars
  BY <1>2, <1>14 DEF vars, proc
<1> QED
  BY <1>3, <1>4, <1>5, <1>6, <1>7, <1>8, <1>9, <1>10, <1>11, <1>12, <1>13, <1>14 DEF Next

-----------------------------------------------------------------------------
(***************************************************************************)
(* The theorems.                                                           *)
(***************************************************************************)

\* A fresh checkout satisfies the invariant.
LEMMA InitInv == Init => IInv
<1> SUFFICES ASSUME Init PROVE IInv
  OBVIOUS
<1>1. 0 \in Commits /\ Raw(0) \in Tree /\ Raw(0).base = 0 /\ IsTree(Raw(0)) /\ 0 \in 0..MaxCommands
  BY ConstantsRight, ConstantsAssumption
<1>2. TypeOK
  <2>1. tip \in [Deps -> Commits] /\ manifest \in [Deps -> Commits] /\ raw \in [Deps -> Commits]
    BY <1>1 DEF Init, NoRaw
  <2>2. target \in [Deps -> Tree] /\ index.manifest = manifest /\ index.tree = target
    BY <1>1 DEF Init
  <2>3. /\ staging \in [Deps -> Tree \cup {Absent, Partial}]
        /\ patch \in [Deps -> Patch \cup {Absent, Partial}]
        /\ todo \in Seq(Deps) /\ todo = <<>> /\ pc = "idle"
    BY DEF Init
  <2> QED BY <1>1, <2>1, <2>2, <2>3 DEF Init, TypeOK
<1>3. PlacesRight /\ CopyRight /\ ReplacementReady
  BY DEF Init, PlacesRight, CopyRight, ReplacementReady, Replacing, Capturing
<1>4. SettledRight /\ StagedRight
  BY <1>1 DEF Init, SettledRight, StagedRight
<1> QED BY <1>2, <1>3, <1>4 DEF IInv

\* The parts together hold in every state, wherever a command of
\* tools/update_vendor.py fails or is killed.
THEOREM Invariance == Spec => []IInv
<1>1. IInv /\ [Next]_vars => IInv'
  BY TypeNext, PlacesNext, CopyNext, ReplacementNext, SettledNext, StagedNext DEF IInv
<1> QED BY InitInv, <1>1, PTL DEF Spec

\* The manifest names the commit of every tree whose replacement ran to its
\* end, and the staged manifest that of every staged tree whose ref was not
\* moved without staging it (cmd_sync replaces the tree, then writes the
\* manifest, then stages both).
THEOREM TreesMatchManifest == Spec => []ManifestNamesTree
<1>1. IInv => ManifestNamesTree
  BY DEF IInv, SettledRight, StagedRight, ManifestNamesTree, StagedAgree
<1> QED BY Invariance, <1>1, PTL

\* A tree is given up only for a replacement that is whole and, but for
\* --update, carries the recorded patches (sync_dependency exports and patches in
\* the staging directory before it removes anything).
THEOREM OldTreesKept == Spec => OldTreeKept
<1>1. ASSUME IInv, [Next]_vars, NEW d \in Deps, IsTree(target[d]), ~IsTree(target'[d])
      PROVE  IsTree(staging[d]) /\ (cmd # "update" => staging[d] \in Applied(patch[d], resolved))
  <2>0. TypeOK /\ ReplacementReady /\ target \in [Deps -> Tree \cup {Absent, Partial}]
    BY <1>1 DEF IInv, TypeOK
  <2>1. target' # target
    BY <1>1
  <2>2. \/ \E x \in Deps : \E e \in Edits : LocalEdit(x, e)
        \/ BeginRemove \/ EndRemove \/ Rename
    BY <1>1, <2>1 DEF Next, vars, UpstreamCommit, Start, Resolve, RemoveStale, BeginExport, Export,
                      ApplyPatches, BeginWrite, WriteManifest, StageDependency, TakeDiff, UnlinkPatches,
                      BeginWritePatch, WritePatch, Stop
  <2>3. ASSUME NEW x \in Deps, NEW e \in Edits, LocalEdit(x, e) PROVE FALSE
    <3>1. target[x] \in Tree
      BY <2>0, <2>3, ConstantsRight DEF LocalEdit
    <3>2. target'[x] \in Tree
      BY <2>0, <2>3, <3>1 DEF LocalEdit, Tree
    <3>3. d # x => target'[d] = target[d]
      BY <2>0, <2>3 DEF LocalEdit
    <3> QED BY <1>1, <3>2, <3>3, ConstantsRight
  <2>4. CASE BeginRemove \/ EndRemove \/ Rename
    <3>1. dep \in Deps /\ pc \in {"replace", "remove"}
      BY <2>0, <2>4, DepTyped DEF BeginRemove, EndRemove, Rename
    <3>2. d = dep
      BY <1>1, <2>0, <2>4, <3>1 DEF BeginRemove, EndRemove, Rename
    <3> QED BY <2>0, <3>1, <3>2 DEF ReplacementReady
  <2> QED BY <2>2, <2>3, <2>4
<1>2. IInv /\ [Next]_vars =>
        [\A d \in Deps : IsTree(target[d]) /\ ~IsTree(target'[d]) =>
            /\ IsTree(staging[d])
            /\ cmd # "update" => staging[d] \in Applied(patch[d], resolved)]_vars
  BY <1>1
<1> QED BY Invariance, <1>2, PTL DEF Spec, OldTreeKept


-----------------------------------------------------------------------------
(***************************************************************************)
(* The threads.                                                            *)
(***************************************************************************)

\* A nonempty set of natural numbers has a least element.
LEMMA LeastNumber ==
  ASSUME NEW S, S \subseteq Nat, S # {}
  PROVE  \E x \in S : \A y \in S : x <= y
<1> DEFINE R == OpToRel(<, Nat)
<1>1. IsWellFoundedOn(R, Nat)
  BY NatLessThanWellFounded
<1>2. \A x, y \in Nat : x < y => <<x, y>> \in R
  BY DEF OpToRel
<1> HIDE DEF R
<1>3. PICK x \in S : \A y \in S : <<y, x>> \notin R
  BY <1>1, WFMin
<1>4. ASSUME NEW y \in S PROVE x <= y
  <2>1. ~(y < x)
    BY <1>2, <1>3
  <2> QED BY <2>1
<1> QED BY <1>4

\* A set of numbers that has 0 and, with each number below n, the next, has all
\* up to n.
LEMMA UpTo ==
  ASSUME NEW n \in Nat, NEW S, 0 \in S, \A k \in 0..(n - 1) : k \in S => k + 1 \in S
  PROVE  \A k \in 0..n : k \in S
<1> SUFFICES ASSUME {k \in 0..n : k \notin S} # {} PROVE FALSE
  OBVIOUS
<1> DEFINE Bad == {k \in 0..n : k \notin S}
<1>1. PICK b \in Bad : \A y \in Bad : b <= y
  <2>1. Bad \subseteq Nat /\ Bad # {}
    OBVIOUS
  <2> HIDE DEF Bad
  <2> QED BY <2>1, LeastNumber
<1>2. b \in 0..n /\ b \notin S /\ b # 0
  BY <1>1
<1>3. b - 1 \in 0..(n - 1) /\ b - 1 \notin Bad
  BY <1>1, <1>2
<1>4. b - 1 \in S
  BY <1>3
<1>5. (b - 1) + 1 \in S
  BY <1>3, <1>4
<1> QED BY <1>2, <1>5

\* A sequence of integers and 0 have a greatest number.
LEMMA GreatestNumber ==
  ASSUME NEW s \in Seq(Int)
  PROVE  /\ Max({0} \cup Range(s)) \in Nat
         /\ \A i \in 1..Len(s) : s[i] <= Max({0} \cup Range(s))
<1> DEFINE Bounded == {n \in Nat : \E m \in {0} \cup Range(s) :
                                     m >= 0 /\ \A i \in 1..Len(s) : i <= n => m >= s[i]}
<1>1. 0 \in Bounded
  OBVIOUS
<1>2. ASSUME NEW k \in 0..(Len(s) - 1), k \in Bounded PROVE k + 1 \in Bounded
  <2>1. PICK m \in {0} \cup Range(s) : m >= 0 /\ \A i \in 1..Len(s) : i <= k => m >= s[i]
    BY <1>2
  <2>2. k + 1 \in 1..Len(s) /\ s[k + 1] \in Int /\ s[k + 1] \in Range(s)
    BY DEF Range
  <2>3. m \in Int
    BY DEF Range
  <2>4. \A i \in 1..Len(s) : i <= k + 1 => i <= k \/ i = k + 1
    OBVIOUS
  <2>5. CASE m >= s[k + 1]
    <3>1. \A i \in 1..Len(s) : i <= k + 1 => m >= s[i]
      BY <2>1, <2>4, <2>5
    <3> QED BY <2>1, <2>2, <3>1
  <2>6. CASE ~(m >= s[k + 1])
    <3>1. s[k + 1] >= 0 /\ \A i \in 1..Len(s) : s[i] \in Int
      BY <2>1, <2>2, <2>3, <2>6
    <3>2. \A i \in 1..Len(s) : i <= k + 1 => s[k + 1] >= s[i]
      BY <2>1, <2>2, <2>3, <2>4, <2>6, <3>1
    <3> QED BY <2>2, <3>1, <3>2
  <2> QED BY <2>5, <2>6
<1>3. Len(s) \in Bounded
  <2>1. Len(s) \in Nat
    OBVIOUS
  <2> HIDE DEF Bounded
  <2>2. \A k \in 0..(Len(s) - 1) : k \in Bounded => k + 1 \in Bounded
    BY <1>2
  <2>3. \A k \in 0..Len(s) : k \in Bounded
    BY <1>1, <2>1, <2>2, UpTo
  <2> QED BY <2>1, <2>3
<1>4. PICK m \in {0} \cup Range(s) : m >= 0 /\ \A i \in 1..Len(s) : m >= s[i]
  BY <1>3
<1>5. \A y \in {0} \cup Range(s) : m >= y
  BY <1>4 DEF Range
<1>6. /\ Max({0} \cup Range(s)) \in {0} \cup Range(s)
      /\ \A y \in {0} \cup Range(s) : Max({0} \cup Range(s)) >= y
  BY <1>5 DEF Max
<1>7. Max({0} \cup Range(s)) \in Int /\ Max({0} \cup Range(s)) >= 0
  BY <1>6 DEF Range
<1>8. ASSUME NEW i \in 1..Len(s) PROVE s[i] <= Max({0} \cup Range(s))
  <2>1. s[i] \in Int /\ s[i] \in Range(s)
    BY DEF Range
  <2> QED BY <1>6, <1>7, <2>1
<1> HIDE DEF Bounded
<1>9. Max({0} \cup Range(s)) \in Nat
  BY <1>7
<1> QED BY <1>8, <1>9

\* The threads are numbered from 0; every round has at most that many.
LEMMA ThreadsNumbered ==
  /\ IsFiniteSet(Threads) /\ Cardinality(Threads) \in Nat
  /\ Threads = 0..(Cardinality(Threads) - 1)
  /\ \A i \in 1..Len(ThreadCounts) : ThreadCounts[i] \in Int /\ ThreadCounts[i] <= Cardinality(Threads)
<1> DEFINE m == Max({0} \cup Range(ThreadCounts))
<1>1. ThreadCounts \in Seq(Int)
  BY BenchmarkAssumption
<1>2. m \in Nat /\ \A i \in 1..Len(ThreadCounts) : ThreadCounts[i] <= m
  BY <1>1, GreatestNumber
<1>3. Threads = 0..(m - 1)
  BY DEF Threads
<1> HIDE DEF m
<1>4. IsFiniteSet(0..(m - 1)) /\ Cardinality(0..(m - 1)) = m
  BY <1>2, FS_Interval
<1> QED BY <1>1, <1>2, <1>3, <1>4

\* No share is larger than what is shared.
LEMMA ShareBounded ==
  ASSUME NEW k \in Nat \ {0}, NEW t \in Nat
  PROVE  LET share == MessagesPerIteration \div k + (IF t < MessagesPerIteration % k THEN 1 ELSE 0)
         IN  share \in 0..MessagesPerIteration
<1>0. MessagesPerIteration \in Nat
  BY BenchmarkAssumption
<1>1. PICK q \in Nat, r \in 0..(k - 1) : q = MessagesPerIteration \div k /\ r = MessagesPerIteration % k
  BY <1>0
<1>2. MessagesPerIteration = k * q + r
  BY <1>0, <1>1
<1>3. k * q >= q
  <2>1. PICK j \in Nat : k = j + 1
    <3>1. k - 1 \in Nat /\ k = (k - 1) + 1
      OBVIOUS
    <3> QED BY <3>1
  <2>2. j * q \in Nat /\ (j + 1) * q = j * q + q
    OBVIOUS
  <2> QED BY <2>1, <2>2
<1>4. k * q \in Nat
  OBVIOUS
<1>5. t < r => r >= 1
  OBVIOUS
<1>6. q + (IF t < r THEN 1 ELSE 0) \in 0..MessagesPerIteration
  BY <1>0, <1>2, <1>3, <1>4, <1>5
<1> QED BY <1>1, <1>6

-----------------------------------------------------------------------------
(***************************************************************************)
(* The invariant.                                                          *)
(***************************************************************************)

Started == {"waiting", "logging", "exit", "finished"}
Places == {"none", "created"} \cup Started

\* What each variable is.
BenchTypes ==
  /\ round \in 1..(Len(ThreadCounts) + 1)
  /\ main \in {"idle", "spawn", "join", "report", "aborted"}
  /\ spawned \in 0..Cardinality(Threads) /\ joined \in 0..Cardinality(Threads)
  /\ thread \in [Threads -> Places]
  /\ iteration \in [Threads -> Nat] /\ sent \in [Threads -> Nat]
  /\ latencies \in [Threads -> Seq(Nat)]
  /\ Len(reports) \in Nat /\ Len(reports) < round + 1 /\ \E S : reports \in Seq(S)

\* Where the main thread is, and what it has done to the threads.
InRound == main \in {"spawn", "join", "report"}

MainRight ==
  /\ InRound => round <= Len(ThreadCounts) /\ thread_count \in 1..Cardinality(Threads)
  /\ main = "spawn" => spawned < thread_count /\ joined = 0
  /\ main = "join" => spawned = thread_count /\ joined < thread_count
  /\ main = "report" => spawned = thread_count /\ joined = thread_count

ThreadsRight ==
  /\ InRound => \A t \in Threads : (thread[t] = "none" <=> t >= spawned) /\ (t < joined => thread[t] = "finished")
  /\ main = "idle" => \A t \in Threads : thread[t] \in {"none", "finished"}

\* The arrivals are counted.
CountRight == startedThreads = Cardinality({t \in Threads : thread[t] \in Started})

\* The loops of a thread.
LoopsRight ==
  \A t \in Threads :
    /\ iteration[t] = Len(latencies[t]) /\ iteration[t] <= NumIterations
    /\ sent[t] <= MessagesPerIteration
    /\ thread[t] \in {"none", "created", "waiting"} => iteration[t] = 0
    /\ thread[t] = "logging" => iteration[t] < NumIterations

\* The barrier.
BarrierRight ==
  InRound => \A t, u \in Threads :
    u < thread_count /\ thread[t] \in {"logging", "exit", "finished"} => thread[u] \in Started

BenchInv == BenchTypes /\ MainRight /\ ThreadsRight /\ CountRight /\ LoopsRight /\ BarrierRight

-----------------------------------------------------------------------------
(***************************************************************************)
(* The steps of a thread.                                                  *)
(***************************************************************************)

\* A thread only does something while the main thread is in a round.
LEMMA WorksInRound ==
  ASSUME BenchInv, NEW t \in Threads, main # "aborted", thread[t] \notin {"none", "finished"}
  PROVE  InRound /\ t < spawned /\ t < thread_count /\ t >= joined
<1>1. InRound
  BY DEF BenchInv, BenchTypes, ThreadsRight, InRound
<1>2. t \in Nat
  BY ThreadsNumbered
<1> QED BY <1>1, <1>2 DEF BenchInv, BenchTypes, MainRight, ThreadsRight, InRound

\* One thread goes on, from a place before the barrier or not.
LEMMA MovesOn ==
  ASSUME BenchInv, NEW t \in Threads, thread[t] \in {"created"} \cup Started, thread[t] # "finished",
         main # "aborted", NEW p \in Started, thread' = [thread EXCEPT ![t] = p],
         UNCHANGED <<round, main, spawned, joined>>
  PROVE  MainRight' /\ ThreadsRight' /\ thread' \in [Threads -> Places]
<1>1. InRound /\ t < spawned /\ t >= joined
  BY WorksInRound DEF Started
<1>2. thread' \in [Threads -> Places] /\ \A u \in Threads : thread'[u] = IF u = t THEN p ELSE thread[u]
  BY DEF BenchInv, BenchTypes, Places
<1>3. MainRight'
  BY DEF BenchInv, MainRight, InRound, thread_count
<1>4. InRound' /\ main' # "idle"
  BY <1>1 DEF InRound
<1>5. ASSUME NEW u \in Threads
      PROVE  (thread'[u] = "none" <=> u >= spawned) /\ (u < joined => thread'[u] = "finished")
  <2>1. u \in Nat /\ t \in Nat /\ spawned \in Nat /\ joined \in Nat
    BY ThreadsNumbered DEF BenchInv, BenchTypes
  <2>2. CASE u = t
    BY <1>1, <1>2, <2>1, <2>2 DEF Started
  <2>3. CASE u # t
    BY <1>1, <1>2, <2>1, <2>3 DEF BenchInv, ThreadsRight
  <2> QED BY <2>2, <2>3
<1> QED BY <1>2, <1>3, <1>4, <1>5 DEF ThreadsRight

\* The number of arrivals grows by one when a thread arrives, and not otherwise.
LEMMA ArrivalCounted ==
  ASSUME BenchTypes, NEW t \in Threads, thread[t] \notin Started,
         NEW p \in Started, thread' = [thread EXCEPT ![t] = p]
  PROVE  Cardinality({u \in Threads : thread'[u] \in Started}) = Cardinality({u \in Threads : thread[u] \in Started}) + 1
<1> DEFINE S == {u \in Threads : thread[u] \in Started}
<1>1. {u \in Threads : thread'[u] \in Started} = S \cup {t}
  BY DEF BenchTypes
<1>2. t \notin S /\ S \subseteq Threads
  OBVIOUS
<1>3. IsFiniteSet(S)
  BY <1>2, ThreadsNumbered, FS_Subset
<1> HIDE DEF S
<1>4. Cardinality(S \cup {t}) = Cardinality(S) + 1
  BY <1>2, <1>3, FS_AddElement
<1> QED BY <1>1, <1>4 DEF S

LEMMA NothingCounted ==
  ASSUME BenchTypes, NEW t \in Threads, NEW p, thread[t] \in Started <=> p \in Started,
         thread' = [thread EXCEPT ![t] = p]
  PROVE  {u \in Threads : thread'[u] \in Started} = {u \in Threads : thread[u] \in Started}
BY DEF BenchTypes

\* The barrier stays right when a thread goes on that may.
LEMMA BarrierStays ==
  ASSUME BenchInv, NEW t \in Threads, NEW p \in Started, thread' = [thread EXCEPT ![t] = p],
         p # "waiting" => \A u \in Threads : u < thread_count => thread[u] \in Started,
         UNCHANGED <<round, main>>
  PROVE  BarrierRight'
<1>1. \A u \in Threads : thread'[u] = IF u = t THEN p ELSE thread[u]
  BY DEF BenchInv, BenchTypes
<1>2. SUFFICES ASSUME InRound, NEW v \in Threads, NEW u \in Threads, u < thread_count,
                      thread'[v] \in {"logging", "exit", "finished"}
               PROVE  thread'[u] \in Started
  BY DEF BarrierRight, InRound, thread_count
<1>3. CASE v = t
  BY <1>1, <1>2, <1>3 DEF Started
<1>4. CASE v # t
  BY <1>1, <1>2, <1>4 DEF BenchInv, BarrierRight
<1> QED BY <1>3, <1>4

\* A thread arrives.
LEMMA ArriveKeeps == ASSUME BenchInv, NEW t \in Threads, Arrive(t) PROVE BenchInv'
<1>0. BenchTypes /\ thread[t] = "created" /\ thread' = [thread EXCEPT ![t] = "waiting"] /\ main # "aborted"
  BY DEF BenchInv, Arrive
<1>1. MainRight' /\ ThreadsRight' /\ thread' \in [Threads -> Places]
  BY <1>0, MovesOn DEF Arrive, Started
<1>2. BenchTypes'
  BY <1>0, <1>1 DEF Arrive, BenchTypes
<1>3. CountRight'
  BY <1>0, ArrivalCounted DEF Arrive, CountRight, BenchInv, Started
<1>4. LoopsRight'
  BY <1>0 DEF Arrive, LoopsRight, BenchInv, BenchTypes
<1>5. BarrierRight'
  BY <1>0, BarrierStays DEF Arrive, Started
<1> QED BY <1>1, <1>2, <1>3, <1>4, <1>5 DEF BenchInv

\* When as many threads have arrived as the round has, all of them have.
LEMMA AllArrived ==
  ASSUME BenchInv, InRound, startedThreads = thread_count
  PROVE  \A u \in Threads : u < thread_count => thread[u] \in Started
<1> DEFINE S == {u \in Threads : thread[u] \in Started}
<1>1. Cardinality(S) = thread_count /\ thread_count \in 1..Cardinality(Threads)
  BY DEF BenchInv, CountRight, MainRight
<1>2. IsFiniteSet(0..(thread_count - 1)) /\ Cardinality(0..(thread_count - 1)) = thread_count
  <2>1. PICK n \in Nat : n = thread_count
    BY <1>1, ThreadsNumbered
  <2>2. IsFiniteSet(0..(n - 1)) /\ Cardinality(0..(n - 1)) = n
    BY FS_Interval
  <2> QED BY <2>1, <2>2
<1>3. S \subseteq 0..(thread_count - 1)
  <2> SUFFICES ASSUME NEW u \in S PROVE u < thread_count /\ u >= 0
    BY <1>1, ThreadsNumbered
  <2>1. u \in Nat /\ u \in Threads /\ thread[u] # "none"
    BY ThreadsNumbered DEF Started
  <2>2. u < spawned
    BY <2>1 DEF BenchInv, BenchTypes, ThreadsRight
  <2>3. spawned <= thread_count
    BY <1>1, ThreadsNumbered DEF BenchInv, BenchTypes, MainRight, InRound
  <2> QED BY <1>1, <2>1, <2>2, <2>3, ThreadsNumbered DEF BenchInv, BenchTypes
<1> HIDE DEF S
<1>4. S = 0..(thread_count - 1)
  BY <1>1, <1>2, <1>3, FS_Subset
<1>5. ASSUME NEW u \in Threads, u < thread_count PROVE u \in S
  BY <1>1, <1>4, <1>5, ThreadsNumbered
<1> QED BY <1>5 DEF S

\* A thread passes the barrier.
LEMMA PassBarrierKeeps == ASSUME BenchInv, NEW t \in Threads, PassBarrier(t) PROVE BenchInv'
<1>0. BenchTypes /\ thread[t] = "waiting" /\ main # "aborted" /\ startedThreads = thread_count
  BY DEF BenchInv, PassBarrier
<1>1. PICK p \in {"exit", "logging"} : thread' = [thread EXCEPT ![t] = p] /\ (p = "logging" => NumIterations # 0)
  BY DEF PassBarrier, Passed
<1>2. MainRight' /\ ThreadsRight' /\ thread' \in [Threads -> Places]
  BY <1>0, <1>1, MovesOn DEF PassBarrier, Started
<1>3. BenchTypes'
  BY <1>0, <1>2 DEF PassBarrier, BenchTypes
<1>4. CountRight'
  BY <1>0, <1>1, NothingCounted DEF PassBarrier, CountRight, BenchInv, Started
<1>5. LoopsRight'
  <2>1. ASSUME NEW u \in Threads PROVE thread'[u] = (IF u = t THEN p ELSE thread[u]) /\ iteration'[u] = iteration[u]
    BY <1>0, <1>1 DEF PassBarrier, BenchTypes
  <2>2. iteration[t] = 0 /\ NumIterations \in Nat
    BY <1>0, BenchmarkAssumption DEF BenchInv, LoopsRight
  <2> QED BY <1>0, <1>1, <2>1, <2>2 DEF PassBarrier, LoopsRight, BenchInv, BenchTypes
<1>6. BarrierRight'
  <2>1. InRound
    BY <1>0, WorksInRound
  <2> QED BY <1>0, <1>1, <2>1, AllArrived, BarrierStays DEF PassBarrier, Started
<1> QED BY <1>2, <1>3, <1>4, <1>5, <1>6 DEF BenchInv

\* It logs a message.
LEMMA LogFuncKeeps == ASSUME BenchInv, NEW t \in Threads, LogFunc(t) PROVE BenchInv'
<1>0. BenchTypes /\ thread[t] = "logging" /\ main # "aborted"
  BY DEF BenchInv, LogFunc
<1>1. MessagesForThread(t) \in 0..MessagesPerIteration
  <2>1. InRound /\ t \in Nat
    BY <1>0, WorksInRound, ThreadsNumbered
  <2>2. PICK k \in Nat \ {0} : k = thread_count
    BY <2>1, ThreadsNumbered DEF BenchInv, MainRight
  <2> QED BY <2>1, <2>2, ShareBounded DEF MessagesForThread
<1>2. sent[t] + 1 <= MessagesPerIteration /\ sent' = [sent EXCEPT ![t] = sent[t] + 1]
  BY <1>0, <1>1, BenchmarkAssumption DEF LogFunc, BenchTypes
<1>3. BenchTypes'
  BY <1>0, <1>2 DEF LogFunc, BenchTypes
<1>4. LoopsRight'
  BY <1>0, <1>2 DEF LogFunc, LoopsRight, BenchInv, BenchTypes
<1>5. MainRight' /\ ThreadsRight' /\ CountRight' /\ BarrierRight'
  BY DEF LogFunc, BenchInv, MainRight, ThreadsRight, CountRight, BarrierRight, InRound, thread_count
<1> QED BY <1>3, <1>4, <1>5 DEF BenchInv

\* It ends an iteration.
LEMMA EndIterationKeeps ==
  ASSUME BenchInv, NEW t \in Threads, NEW l \in Latencies, EndIteration(t, l)
  PROVE  BenchInv'
<1>0. BenchTypes /\ thread[t] = "logging" /\ main # "aborted" /\ l \in Nat
  BY BenchmarkAssumption DEF BenchInv, EndIteration
<1>1. PICK p \in {"exit", "logging"} : /\ thread' = [thread EXCEPT ![t] = p]
                                       /\ p = "exit" <=> iteration[t] + 1 = NumIterations
  BY DEF EndIteration
<1>2. MainRight' /\ ThreadsRight' /\ thread' \in [Threads -> Places]
  BY <1>0, <1>1, MovesOn DEF EndIteration, Started
<1>3. BenchTypes'
  BY <1>0, <1>2 DEF EndIteration, BenchTypes
<1>4. CountRight'
  BY <1>0, <1>1, NothingCounted DEF EndIteration, CountRight, BenchInv, Started
<1>5. LoopsRight'
  <2>1. iteration[t] \in Nat /\ iteration[t] < NumIterations /\ NumIterations \in Nat
        /\ MessagesPerIteration \in Nat /\ iteration[t] = Len(latencies[t]) /\ latencies[t] \in Seq(Nat)
    BY <1>0, BenchmarkAssumption DEF BenchInv, BenchTypes, LoopsRight
  <2>2. Len(Append(latencies[t], l)) = iteration[t] + 1
    BY <1>0, <2>1
  <2>3. ASSUME NEW u \in Threads
        PROVE  /\ thread'[u] = (IF u = t THEN p ELSE thread[u])
               /\ iteration'[u] = (IF u = t THEN iteration[t] + 1 ELSE iteration[u])
               /\ latencies'[u] = (IF u = t THEN Append(latencies[t], l) ELSE latencies[u])
               /\ sent'[u] = (IF u = t THEN 0 ELSE sent[u])
    BY <1>0, <1>1 DEF EndIteration, BenchTypes
  <2>4. ASSUME NEW u \in Threads, u # t
        PROVE  /\ iteration'[u] = Len(latencies'[u]) /\ iteration'[u] <= NumIterations
               /\ sent'[u] <= MessagesPerIteration
               /\ thread'[u] \in {"none", "created", "waiting"} => iteration'[u] = 0
               /\ thread'[u] = "logging" => iteration'[u] < NumIterations
    BY <2>3, <2>4 DEF BenchInv, LoopsRight
  <2>5. /\ iteration'[t] = Len(latencies'[t]) /\ iteration'[t] <= NumIterations
        /\ sent'[t] <= MessagesPerIteration
        /\ thread'[t] \notin {"none", "created", "waiting"}
        /\ thread'[t] = "logging" => iteration'[t] < NumIterations
    <3>1. thread'[t] = p /\ iteration'[t] = iteration[t] + 1 /\ sent'[t] = 0 /\ Len(latencies'[t]) = iteration[t] + 1
      BY <2>2, <2>3
    <3>2. p = "logging" => iteration[t] + 1 # NumIterations
      BY <1>1
    <3> QED BY <1>1, <2>1, <3>1, <3>2
  <2> QED BY <2>4, <2>5 DEF LoopsRight
<1>6. BarrierRight'
  <2>1. InRound
    BY <1>0, WorksInRound
  <2> QED BY <1>0, <1>1, <2>1, BarrierStays DEF EndIteration, Started, BenchInv, BarrierRight
<1> QED BY <1>2, <1>3, <1>4, <1>5, <1>6 DEF BenchInv

\* It ends.
LEMMA OnThreadExitKeeps == ASSUME BenchInv, NEW t \in Threads, OnThreadExit(t) PROVE BenchInv'
<1>0. BenchTypes /\ thread[t] = "exit" /\ main # "aborted" /\ thread' = [thread EXCEPT ![t] = "finished"]
  BY DEF BenchInv, OnThreadExit
<1>1. MainRight' /\ ThreadsRight' /\ thread' \in [Threads -> Places]
  BY <1>0, MovesOn DEF OnThreadExit, Started
<1>2. BenchTypes'
  BY <1>0, <1>1 DEF OnThreadExit, BenchTypes
<1>3. CountRight'
  BY <1>0, NothingCounted DEF OnThreadExit, CountRight, BenchInv, Started
<1>4. LoopsRight'
  BY <1>0 DEF OnThreadExit, LoopsRight, BenchInv, BenchTypes
<1>5. BarrierRight'
  <2>1. InRound
    BY <1>0, WorksInRound
  <2> QED BY <1>0, <2>1, BarrierStays DEF OnThreadExit, Started, BenchInv, BarrierRight
<1> QED BY <1>1, <1>2, <1>3, <1>4, <1>5 DEF BenchInv

-----------------------------------------------------------------------------
(***************************************************************************)
(* The steps of the main thread.                                           *)
(***************************************************************************)

\* One more report.
LEMMA Reported ==
  ASSUME BenchTypes, NEW r, reports' = Append(reports, r), round' = round + 1, round <= Len(ThreadCounts)
  PROVE  /\ round' \in 1..(Len(ThreadCounts) + 1)
         /\ Len(reports') \in Nat /\ Len(reports') < round' + 1 /\ \E S : reports' \in Seq(S)
<1>1. PICK S : reports \in Seq(S)
  BY DEF BenchTypes
<1>2. Append(reports, r) \in Seq(S \cup {r}) /\ Len(Append(reports, r)) = Len(reports) + 1
  BY <1>1
<1>3. Len(ThreadCounts) \in Nat
  BY BenchmarkAssumption
<1> QED BY <1>2, <1>3 DEF BenchTypes

\* A round that has no threads.
LEMMA NoThreadsKeeps == ASSUME BenchInv, NoThreads PROVE BenchInv'
<1>0. main = "idle" /\ main' = "idle" /\ BenchTypes /\ round' = round + 1
  BY DEF BenchInv, NoThreads
<1>1. BenchTypes'
  BY <1>0, Reported DEF NoThreads, BenchTypes
<1>2. MainRight' /\ BarrierRight'
  BY <1>0 DEF MainRight, BarrierRight, InRound
<1>3. ThreadsRight' /\ CountRight' /\ LoopsRight'
  BY <1>0 DEF NoThreads, BenchInv, ThreadsRight, CountRight, LoopsRight, InRound
<1> QED BY <1>1, <1>2, <1>3 DEF BenchInv

\* A round begins.
LEMMA RunBenchmarkKeeps == ASSUME BenchInv, RunBenchmark PROVE BenchInv'
<1>0. /\ main = "idle" /\ main' = "spawn" /\ BenchTypes /\ round' = round /\ round <= Len(ThreadCounts)
      /\ spawned' = 0 /\ joined' = 0 /\ thread_count > 0
  BY DEF BenchInv, RunBenchmark
<1>1. round \in 1..Len(ThreadCounts)
  BY <1>0, BenchmarkAssumption DEF BenchTypes
<1>2. thread_count \in 1..Cardinality(Threads)
  BY <1>0, <1>1, ThreadsNumbered DEF thread_count
<1>3. \A t \in Threads : t \in Nat /\ thread'[t] = "none"
  BY ThreadsNumbered DEF RunBenchmark
<1>4. BenchTypes'
  <2>1. <<>> \in Seq(Nat) /\ 0 \in 0..Cardinality(Threads)
    BY ThreadsNumbered
  <2> QED BY <1>0, <2>1 DEF RunBenchmark, BenchTypes, Places
<1>5. MainRight'
  BY <1>0, <1>1, <1>2 DEF MainRight, InRound, thread_count
<1>6. ThreadsRight'
  BY <1>0, <1>3 DEF ThreadsRight, InRound
<1>7. CountRight'
  <2>1. {t \in Threads : thread'[t] \in Started} = {}
    BY <1>3 DEF Started
  <2>2. startedThreads' = 0
    BY DEF RunBenchmark
  <2> QED BY <2>1, <2>2, FS_EmptySet DEF CountRight
<1>8. LoopsRight'
  BY BenchmarkAssumption DEF RunBenchmark, LoopsRight
<1>9. BarrierRight'
  BY <1>3 DEF BarrierRight
<1> QED BY <1>4, <1>5, <1>6, <1>7, <1>8, <1>9 DEF BenchInv

\* The next thread is created.
LEMMA SpawnKeeps == ASSUME BenchInv, Spawn PROVE BenchInv'
<1>0. /\ main = "spawn" /\ BenchTypes /\ InRound /\ thread' = [thread EXCEPT ![spawned] = "created"]
      /\ spawned' = spawned + 1 /\ UNCHANGED <<round, joined>> /\ main' \in {"join", "spawn"}
      /\ main' = "join" <=> spawned + 1 = thread_count
  BY DEF BenchInv, Spawn, InRound
<1>1. /\ thread_count \in 1..Cardinality(Threads) /\ spawned \in Nat /\ spawned < thread_count /\ joined = 0
      /\ round <= Len(ThreadCounts) /\ Cardinality(Threads) \in Nat
  BY <1>0, ThreadsNumbered DEF BenchInv, BenchTypes, MainRight
<1>2. spawned \in Threads /\ spawned + 1 <= thread_count /\ spawned + 1 <= Cardinality(Threads)
  BY <1>1, ThreadsNumbered
<1>3. \A t \in Threads : t \in Nat /\ thread'[t] = IF t = spawned THEN "created" ELSE thread[t]
  BY <1>0, ThreadsNumbered DEF BenchTypes
<1>4. thread[spawned] = "none"
  BY <1>0, <1>1, <1>2 DEF BenchInv, ThreadsRight
<1>5. BenchTypes'
  BY <1>0, <1>1, <1>2 DEF Spawn, BenchTypes, Places
<1>6. MainRight'
  BY <1>0, <1>1, <1>2 DEF MainRight, InRound, thread_count
<1>7. ThreadsRight'
  <2>1. ASSUME NEW t \in Threads PROVE (thread'[t] = "none" <=> t >= spawned + 1) /\ ~(t < joined)
    <3>1. thread[t] = "none" <=> t >= spawned
      BY <1>0 DEF BenchInv, ThreadsRight
    <3>2. t \in Nat
      BY <1>3
    <3>3. CASE t = spawned
      BY <1>1, <1>3, <3>2, <3>3
    <3>4. CASE t # spawned
      BY <1>1, <1>3, <3>1, <3>2, <3>4
    <3> QED BY <3>3, <3>4
  <2> QED BY <1>0, <2>1 DEF ThreadsRight
<1>8. CountRight'
  BY <1>0, <1>2, <1>4, NothingCounted DEF Spawn, CountRight, BenchInv, Started
<1>9. LoopsRight'
  <2>1. iteration[spawned] = 0
    BY <1>2, <1>4 DEF BenchInv, LoopsRight
  <2> QED BY <1>3, <2>1 DEF Spawn, BenchInv, LoopsRight
<1>10. BarrierRight'
  <2>1. ASSUME NEW t \in Threads PROVE thread[t] \notin {"logging", "exit", "finished"}
    BY <1>0, <1>1, <1>2, <1>4 DEF BenchInv, BarrierRight, Started
  <2>2. \A t \in Threads : thread'[t] \notin {"logging", "exit", "finished"}
    BY <1>3, <2>1
  <2> QED BY <2>2 DEF BarrierRight
<1> QED BY <1>5, <1>6, <1>7, <1>8, <1>9, <1>10 DEF BenchInv

\* The next thread is joined.
LEMMA JoinKeeps == ASSUME BenchInv, Join PROVE BenchInv'
<1>0. /\ main = "join" /\ BenchTypes /\ InRound /\ thread[joined] = "finished"
      /\ joined' = joined + 1 /\ UNCHANGED <<round, spawned, thread>> /\ main' \in {"join", "report"}
      /\ main' = "report" <=> joined + 1 = thread_count
  BY DEF BenchInv, Join, Joined, InRound
<1>1. /\ thread_count \in 1..Cardinality(Threads) /\ joined \in Nat /\ joined < thread_count /\ spawned = thread_count
      /\ round <= Len(ThreadCounts) /\ Cardinality(Threads) \in Nat
  BY <1>0, ThreadsNumbered DEF BenchInv, BenchTypes, MainRight
<1>2. joined + 1 <= thread_count /\ joined + 1 <= Cardinality(Threads)
  BY <1>1
<1>3. BenchTypes'
  BY <1>0, <1>1, <1>2 DEF Join, Joined, BenchTypes
<1>4. MainRight'
  BY <1>0, <1>1, <1>2 DEF MainRight, InRound, thread_count
<1>5. ThreadsRight'
  <2>1. ASSUME NEW t \in Threads PROVE (thread[t] = "none" <=> t >= spawned) /\ (t < joined + 1 => thread[t] = "finished")
    <3>1. (thread[t] = "none" <=> t >= spawned) /\ (t < joined => thread[t] = "finished")
      BY <1>0 DEF BenchInv, ThreadsRight
    <3>2. t \in Nat
      BY ThreadsNumbered
    <3>3. t < joined + 1 => t < joined \/ t = joined
      BY <1>1, <3>2
    <3> QED BY <1>0, <3>1, <3>3
  <2> QED BY <1>0, <2>1 DEF ThreadsRight
<1>6. CountRight' /\ LoopsRight' /\ BarrierRight'
  BY <1>0 DEF Join, Joined, BenchInv, CountRight, LoopsRight, BarrierRight, InRound, thread_count
<1> QED BY <1>3, <1>4, <1>5, <1>6 DEF BenchInv

\* The round is reported.
LEMMA ReportKeeps == ASSUME BenchInv, Report PROVE BenchInv'
<1>0. /\ main = "report" /\ main' = "idle" /\ BenchTypes /\ InRound /\ round' = round + 1
      /\ UNCHANGED <<spawned, joined, thread, startedThreads, iteration, sent, latencies, logged>>
      /\ \E r : reports' = Append(reports, r)
  BY DEF BenchInv, Report, InRound
<1>1. round <= Len(ThreadCounts) /\ spawned = joined /\ joined \in Nat
  BY <1>0, ThreadsNumbered DEF BenchInv, BenchTypes, MainRight
<1>2. BenchTypes'
  BY <1>0, <1>1, Reported DEF BenchTypes
<1>3. MainRight' /\ BarrierRight'
  BY <1>0 DEF MainRight, BarrierRight, InRound
<1>4. ThreadsRight'
  <2>1. ASSUME NEW t \in Threads PROVE thread[t] \in {"none", "finished"}
    <3>1. t \in Nat /\ (t >= joined \/ t < joined)
      BY <1>1, ThreadsNumbered
    <3> QED BY <1>0, <1>1, <3>1 DEF BenchInv, ThreadsRight
  <2> QED BY <1>0, <2>1 DEF ThreadsRight, InRound
<1>5. CountRight' /\ LoopsRight'
  BY <1>0 DEF BenchInv, CountRight, LoopsRight
<1> QED BY <1>2, <1>3, <1>4, <1>5 DEF BenchInv

\* The process is ended by an exception.
LEMMA TerminateKeeps == ASSUME BenchInv, Terminate PROVE BenchInv'
BY DEF Terminate, BenchInv, BenchTypes, MainRight, ThreadsRight, CountRight, LoopsRight,
     BarrierRight, InRound

-----------------------------------------------------------------------------
(***************************************************************************)
(* The theorems.                                                           *)
(***************************************************************************)

LEMMA BenchInitRight == BenchmarkInit => BenchInv
<1> SUFFICES ASSUME BenchmarkInit PROVE BenchInv
  OBVIOUS
<1>1. /\ round = 1 /\ main = "idle" /\ spawned = 0 /\ joined = 0 /\ startedThreads = 0 /\ reports = <<>>
      /\ \A t \in Threads : thread[t] = "none" /\ iteration[t] = 0 /\ sent[t] = 0 /\ latencies[t] = <<>>
  BY DEF BenchmarkInit
<1>2. Len(ThreadCounts) \in Nat /\ MessagesPerIteration \in Nat /\ NumIterations \in Nat
  BY BenchmarkAssumption
<1>3. BenchTypes
  <2>1. <<>> \in Seq(Nat) /\ Len(<<>>) = 0 /\ 1 \in 1..(Len(ThreadCounts) + 1) /\ 0 \in 0..Cardinality(Threads)
    BY <1>2, ThreadsNumbered
  <2> QED BY <2>1 DEF BenchmarkInit, BenchTypes, Places
<1>4. CountRight
  <2>1. {t \in Threads : thread[t] \in Started} = {}
    BY <1>1 DEF Started
  <2> QED BY <1>1, <2>1, FS_EmptySet DEF CountRight
<1>5. MainRight /\ ThreadsRight /\ BarrierRight
  BY <1>1 DEF MainRight, ThreadsRight, BarrierRight, InRound
<1>6. LoopsRight
  BY <1>1, <1>2 DEF LoopsRight
<1> QED BY <1>3, <1>4, <1>5, <1>6 DEF BenchInv

LEMMA BenchNext == BenchInv /\ [BenchmarkNext]_benchmarkVars => BenchInv'
<1> SUFFICES ASSUME BenchInv, [BenchmarkNext]_benchmarkVars PROVE BenchInv'
  OBVIOUS
<1>1. CASE MainStep
  BY <1>1, NoThreadsKeeps, RunBenchmarkKeeps, SpawnKeeps, JoinKeeps, ReportKeeps DEF MainStep
<1>2. ASSUME NEW t \in Threads, ThreadStep(t) PROVE BenchInv'
  BY <1>2, ArriveKeeps, PassBarrierKeeps, LogFuncKeeps, OnThreadExitKeeps, EndIterationKeeps
       DEF ThreadStep
<1>3. CASE Terminate
  BY <1>3, TerminateKeeps
<1>4. CASE UNCHANGED benchmarkVars
  BY <1>4 DEF benchmarkVars, BenchInv, BenchTypes, MainRight, ThreadsRight, CountRight, LoopsRight,
       BarrierRight,
       InRound, thread_count
<1> QED BY <1>1, <1>2, <1>3, <1>4 DEF BenchmarkNext

\* The types, among them that the counter of the barrier never exceeds the threads.
LEMMA BenchInvTypes == BenchInv => BenchmarkTypeOK
<1> SUFFICES ASSUME BenchInv PROVE BenchmarkTypeOK
  OBVIOUS
<1> DEFINE S == {t \in Threads : thread[t] \in Started}
<1>1. S \in SUBSET Threads /\ IsFiniteSet(S)
  BY ThreadsNumbered, FS_Subset
<1>2. Cardinality(S) <= Cardinality(Threads) /\ Cardinality(S) \in Nat
  <2> HIDE DEF S
  <2> QED BY <1>1, ThreadsNumbered, FS_Subset, FS_CardinalityType
<1>3. startedThreads \in 0..Cardinality(Threads)
  BY <1>2, ThreadsNumbered DEF BenchInv, CountRight
<1> QED BY <1>3, BenchmarkAssumption
     DEF BenchInv, BenchTypes, LoopsRight, BenchmarkTypeOK, Places, Started

\* No thread is in its timed loop before every thread of the round has arrived:
\* wait_for_all_threads_to_start compares a counter that is exactly the arrivals.
THEOREM AllMeasuredTogether == BenchmarkSpec => []MeasuredTogether
<1>1. BenchInv => MeasuredTogether
  <2> SUFFICES ASSUME BenchInv PROVE MeasuredTogether
    OBVIOUS
  <2>1. ASSUME main \in {"spawn", "join"}, NEW t \in 0..(thread_count - 1), NEW u \in 0..(thread_count - 1),
               thread[t] \in {"logging", "exit", "finished"}
        PROVE  thread[u] \notin {"none", "created"}
    <3>1. InRound
      BY <2>1 DEF InRound
    <3>2. t \in Threads /\ u \in Threads /\ u < thread_count
      BY <3>1, ThreadsNumbered DEF BenchInv, MainRight
    <3> QED BY <2>1, <3>1, <3>2 DEF BenchInv, BarrierRight, Started
  <2> QED BY <2>1, BenchInvTypes DEF MeasuredTogether
<1> QED BY <1>1, BenchInitRight, BenchNext, PTL DEF BenchmarkSpec

-----------------------------------------------------------------------------
(***************************************************************************)
(* Sums over the threads.                                                  *)
(***************************************************************************)

\* The first n numbers of f add up to total.
AddsUp(f, n, total) ==
  \E s \in [0..n -> Nat] : s[0] = 0 /\ s[n] = total /\ \A i \in 0..(n - 1) : s[i + 1] = s[i] + f[i]

LEMMA NothingAddsUp ==
  ASSUME NEW n \in Nat, NEW f, \A i \in 0..(n - 1) : f[i] = 0
  PROVE  AddsUp(f, n, 0)
<1> DEFINE s == [i \in 0..n |-> 0]
<1>1. s \in [0..n -> Nat] /\ s[0] = 0 /\ s[n] = 0
  OBVIOUS
<1>2. \A i \in 0..(n - 1) : s[i + 1] = s[i] + f[i]
  OBVIOUS
<1> HIDE DEF s
<1> QED BY <1>1, <1>2 DEF AddsUp

\* One of the numbers grows by one, and with it the sum.
LEMMA OneMore ==
  ASSUME NEW n \in Nat, NEW f \in [0..(n - 1) -> Nat], NEW g, NEW total, AddsUp(f, n, total), NEW t \in 0..(n - 1),
         g[t] = f[t] + 1, \A i \in 0..(n - 1) : i # t => g[i] = f[i]
  PROVE  AddsUp(g, n, total + 1)
<1>1. PICK s \in [0..n -> Nat] : s[0] = 0 /\ s[n] = total /\ \A i \in 0..(n - 1) : s[i + 1] = s[i] + f[i]
  BY DEF AddsUp
<1> DEFINE r == [i \in 0..n |-> IF i > t THEN s[i] + 1 ELSE s[i]]
<1>2. r \in [0..n -> Nat] /\ r[0] = 0 /\ r[n] = total + 1
  BY <1>1
<1>3. ASSUME NEW i \in 0..(n - 1) PROVE r[i + 1] = r[i] + g[i]
  <2>1. i \in 0..n /\ i + 1 \in 0..n /\ s[i] \in Nat /\ s[i + 1] = s[i] + f[i] /\ s[i + 1] \in Nat /\ f[i] \in Nat
    BY <1>1
  <2>2. CASE i = t
    BY <2>1, <2>2
  <2>3. CASE i < t
    BY <2>1, <2>3
  <2>4. CASE i > t
    <3>1. r[i] = s[i] + 1 /\ r[i + 1] = s[i + 1] + 1 /\ g[i] = f[i]
      BY <2>1, <2>4
    <3> QED BY <2>1, <3>1
  <2> QED BY <2>2, <2>3, <2>4
<1> HIDE DEF r
<1> QED BY <1>2, <1>3 DEF AddsUp

\* The share of the t-th of k threads.
Share(t, k) == MessagesPerIteration \div k + (IF t < MessagesPerIteration % k THEN 1 ELSE 0)

\* The shares of all threads make up the messages of an iteration: n times as
\* many are logged in n iterations.
LEMMA SharesAddUp ==
  ASSUME NEW k \in Nat \ {0}, NEW n \in Nat, NEW f, \A t \in 0..(k - 1) : f[t] = n * Share(t, k),
         NEW total, AddsUp(f, k, total)
  PROVE  total = n * MessagesPerIteration
<1>0. MessagesPerIteration \in Nat
  BY BenchmarkAssumption
<1>1. PICK q \in Nat, r \in 0..(k - 1) : q = MessagesPerIteration \div k /\ r = MessagesPerIteration % k
  BY <1>0
<1>2. MessagesPerIteration = q * k + r
  BY <1>0, <1>1
<1>3. PICK s \in [0..k -> Nat] : s[0] = 0 /\ s[k] = total /\ \A i \in 0..(k - 1) : s[i + 1] = s[i] + f[i]
  BY DEF AddsUp
<1> DEFINE Before(i) == q * i + (IF i < r THEN i ELSE r)
           S == {i \in 0..k : s[i] = n * Before(i)}
<1>4. 0 \in S
  BY <1>3
<1>5. ASSUME NEW i \in 0..(k - 1), i \in S PROVE i + 1 \in S
  <2>1. s[i + 1] = s[i] + n * Share(i, k) /\ s[i] = n * Before(i)
    BY <1>3, <1>5
  <2>2. PICK a \in Nat, b \in Nat, c \in Nat : a = Before(i) /\ b = Share(i, k) /\ c = Before(i + 1)
    <3>1. q * i \in Nat /\ q * (i + 1) \in Nat
      OBVIOUS
    <3>2. Before(i) \in Nat /\ Before(i + 1) \in Nat
      BY <3>1
    <3>3. Share(i, k) \in Nat
      BY <1>1 DEF Share
    <3> QED BY <3>2, <3>3
  <2>3. c = a + b
    <3>1. q * (i + 1) = q * i + q /\ q * i \in Nat
      OBVIOUS
    <3>2. b = q + (IF i < r THEN 1 ELSE 0)
      BY <1>1, <2>2 DEF Share
    <3>3. (IF i + 1 < r THEN i + 1 ELSE r) = (IF i < r THEN i ELSE r) + (IF i < r THEN 1 ELSE 0)
      OBVIOUS
    <3> QED BY <2>2, <3>1, <3>2, <3>3
  <2>4. n * (a + b) = n * a + n * b
    OBVIOUS
  <2>5. s[i + 1] = n * Before(i + 1)
    BY <2>1, <2>2, <2>3, <2>4
  <2> QED BY <2>5
<1>6. k \in S
  <2> HIDE DEF S
  <2>1. \A i \in 0..(k - 1) : i \in S => i + 1 \in S
    BY <1>5
  <2>2. \A i \in 0..k : i \in S
    BY <1>4, <2>1, UpTo
  <2> QED BY <2>2
<1>7. Before(k) = MessagesPerIteration
  BY <1>2
<1> QED BY <1>3, <1>6, <1>7

\* A thread has messages to log exactly if its number is below theirs.
LEMMA SharePositive ==
  ASSUME NEW k \in Nat \ {0}, NEW t \in 0..(k - 1)
  PROVE  Share(t, k) \in Nat /\ (Share(t, k) > 0 <=> t < MessagesPerIteration)
<1>0. MessagesPerIteration \in Nat
  BY BenchmarkAssumption
<1>1. PICK q \in Nat, r \in 0..(k - 1) : q = MessagesPerIteration \div k /\ r = MessagesPerIteration % k
  BY <1>0
<1>2. MessagesPerIteration = q * k + r
  BY <1>0, <1>1
<1>3. Share(t, k) = q + (IF t < r THEN 1 ELSE 0)
  BY <1>1 DEF Share
<1>4. CASE q = 0
  <2>1. q * k = 0
    BY <1>4
  <2> QED BY <1>2, <1>3, <1>4, <2>1
<1>5. CASE q > 0
  <2>1. PICK j \in Nat : q = j + 1
    <3>1. q - 1 \in Nat /\ q = (q - 1) + 1
      BY <1>5
    <3> QED BY <3>1
  <2>2. q * k = j * k + k /\ j * k \in Nat
    BY <2>1
  <2> QED BY <1>2, <1>3, <1>5, <2>2
<1> QED BY <1>4, <1>5

-----------------------------------------------------------------------------
(***************************************************************************)
(* The samples of all threads.                                             *)
(***************************************************************************)

\* FlattenSeq puts the sequences one after the other.
LEMMA Flattened ==
  ASSUME NEW k \in Nat \ {0}, NEW seqs \in [1..k -> Seq(Nat)]
  PROVE  \E g \in [1..k -> Seq(Nat)] :
           /\ g[1] = seqs[1] /\ \A i \in 2..k : g[i] = g[i - 1] \o seqs[i]
           /\ FlattenSeq(seqs) = g[k]
<1> DEFINE Flat(g, n) == g = [i \in 1..n |-> IF i = 1 THEN seqs[i] ELSE g[i - 1] \o seqs[i]]
           S == {n \in 0..k : \E g : Flat(g, n) /\ g \in [1..n -> Seq(Nat)]}
<1>1. 0 \in S
  <2> DEFINE e == [i \in 1..0 |-> <<>>]
  <2>1. Flat(e, 0) /\ e \in [1..0 -> Seq(Nat)] /\ 0 \in 0..k
    OBVIOUS
  <2> HIDE DEF e, Flat
  <2> QED BY <2>1
<1>2. ASSUME NEW n \in 0..(k - 1), n \in S PROVE n + 1 \in S
  <2>1. PICK g : Flat(g, n) /\ g \in [1..n -> Seq(Nat)]
    BY <1>2
  <2> DEFINE new == IF n = 0 THEN seqs[1] ELSE g[n] \o seqs[n + 1]
             h == [i \in 1..(n + 1) |-> IF i = n + 1 THEN new ELSE g[i]]
  <2>2. new \in Seq(Nat)
    BY <2>1
  <2>3. h \in [1..(n + 1) -> Seq(Nat)]
    <3> HIDE DEF new
    <3>1. ASSUME NEW i \in 1..(n + 1), i # n + 1 PROVE g[i] \in Seq(Nat)
      BY <2>1, <3>1
    <3> QED BY <2>2, <3>1
  <2>4. ASSUME NEW i \in 1..(n + 1) PROVE h[i] = IF i = 1 THEN seqs[i] ELSE h[i - 1] \o seqs[i]
    <3>1. CASE i = n + 1
      BY <3>1
    <3>2. CASE i # n + 1
      <4>1. i \in 1..n /\ h[i] = g[i] /\ (i # 1 => h[i - 1] = g[i - 1])
        BY <3>2
      <4>2. g[i] = IF i = 1 THEN seqs[i] ELSE g[i - 1] \o seqs[i]
        BY <2>1, <4>1
      <4> QED BY <4>1, <4>2
    <3> QED BY <3>1, <3>2
  <2>5. Flat(h, n + 1)
    <3> HIDE DEF new
    <3> DEFINE e == [i \in 1..(n + 1) |-> IF i = 1 THEN seqs[i] ELSE h[i - 1] \o seqs[i]]
    <3>1. \A i \in 1..(n + 1) : h[i] = e[i]
      BY <2>4
    <3>2. h = [i \in 1..(n + 1) |-> h[i]] /\ e = [i \in 1..(n + 1) |-> e[i]]
      OBVIOUS
    <3> HIDE DEF h, e
    <3>3. h = e
      BY <3>1, <3>2
    <3> QED BY <3>3 DEF e
  <2> HIDE DEF h, Flat
  <2>6. n + 1 \in 0..k
    OBVIOUS
  <2> QED BY <2>3, <2>5, <2>6
<1>3. k \in S
  <2> HIDE DEF S
  <2>1. \A i \in 0..(k - 1) : i \in S => i + 1 \in S
    BY <1>2
  <2>2. \A i \in 0..k : i \in S
    BY <1>1, <2>1, UpTo
  <2> QED BY <2>2
<1>4. Len(seqs) = k
  OBVIOUS
<1> DEFINE fl == CHOOSE g : Flat(g, k)
<1>5. FlattenSeq(seqs) = fl[k]
  BY <1>4 DEF FlattenSeq
<1>6. PICK a : Flat(a, k) /\ a \in [1..k -> Seq(Nat)]
  BY <1>3
<1>7. Flat(fl, k)
  BY <1>6
<1> HIDE DEF fl
<1>8. DOMAIN fl = 1..k /\ \A i \in 1..k : fl[i] = IF i = 1 THEN seqs[i] ELSE fl[i - 1] \o seqs[i]
  BY <1>7
<1> DEFINE T == {i \in 0..k : i = 0 \/ fl[i] \in Seq(Nat)}
<1>9. 0 \in T
  OBVIOUS
<1>10. ASSUME NEW i \in 0..(k - 1), i \in T PROVE i + 1 \in T
  <2>1. i + 1 \in 1..k /\ seqs[i + 1] \in Seq(Nat)
    OBVIOUS
  <2>2. fl[i + 1] = IF i + 1 = 1 THEN seqs[i + 1] ELSE fl[(i + 1) - 1] \o seqs[i + 1]
    BY <1>8, <2>1
  <2>3. CASE i = 0
    BY <2>1, <2>2, <2>3
  <2>4. CASE i # 0
    <3>1. fl[i] \in Seq(Nat) /\ (i + 1) - 1 = i /\ i + 1 # 1
      BY <1>10, <2>4
    <3>2. fl[i + 1] = fl[i] \o seqs[i + 1]
      BY <2>2, <3>1
    <3>3. fl[i] \o seqs[i + 1] \in Seq(Nat)
      BY <2>1, <3>1
    <3>4. fl[i + 1] \in Seq(Nat) /\ i + 1 \in 0..k
      BY <2>1, <3>2, <3>3
    <3> QED BY <3>4
  <2> QED BY <2>3, <2>4
<1>11. \A i \in 1..k : fl[i] \in Seq(Nat)
  <2>1. k \in Nat /\ \A i \in 0..(k - 1) : i \in T => i + 1 \in T
    BY <1>10
  <2> HIDE DEF T
  <2>2. \A i \in 0..k : i \in T
    BY <1>9, <2>1, UpTo
  <2> QED BY <2>2 DEF T
<1>12. fl \in [1..k -> Seq(Nat)]
  BY <1>7, <1>11
<1>13. fl[1] = seqs[1] /\ \A i \in 2..k : fl[i] = fl[i - 1] \o seqs[i]
  <2>1. 1 \in 1..k
    OBVIOUS
  <2>2. ASSUME NEW i \in 2..k PROVE fl[i] = fl[i - 1] \o seqs[i]
    <3>1. i \in 1..k /\ i # 1
      OBVIOUS
    <3> QED BY <1>8, <3>1
  <2> QED BY <1>8, <2>1, <2>2
<1> QED BY <1>5, <1>12, <1>13

\* n samples of every thread below m: their number.
LEMMA SamplesCounted ==
  ASSUME NEW k \in Nat \ {0}, NEW seqs \in [1..k -> Seq(Nat)], NEW n \in Nat, NEW m \in Nat,
         \A t \in 1..k : Len(seqs[t]) = IF t <= m THEN n ELSE 0
  PROVE  FlattenSeq(seqs) \in Seq(Nat) /\ Len(FlattenSeq(seqs)) = n * (IF k < m THEN k ELSE m)
<1>1. PICK g \in [1..k -> Seq(Nat)] : /\ g[1] = seqs[1] /\ \A i \in 2..k : g[i] = g[i - 1] \o seqs[i]
                                      /\ FlattenSeq(seqs) = g[k]
  BY Flattened
<1> DEFINE Below(i) == IF i < m THEN i ELSE m
           S == {i \in 0..k : i = 0 \/ Len(g[i]) = n * Below(i)}
<1>2. 0 \in S
  OBVIOUS
<1>3. ASSUME NEW i \in 0..(k - 1), i \in S PROVE i + 1 \in S
  <2>1. i + 1 \in 1..k /\ i + 1 \in 0..k /\ Len(seqs[i + 1]) = (IF i + 1 <= m THEN n ELSE 0)
    OBVIOUS
  <2>2. CASE i = 0
    <3>1. g[1] = seqs[1]
      BY <1>1
    <3>2. n * 1 = n /\ n * 0 = 0 /\ Below(1) = IF 1 <= m THEN 1 ELSE 0
      OBVIOUS
    <3>3. Len(g[1]) = n * Below(1)
      BY <2>1, <2>2, <3>1, <3>2
    <3> QED BY <2>1, <2>2, <3>3
  <2>3. CASE i # 0
    <3>1. i \in 1..k /\ i + 1 \in 2..k /\ (i + 1) - 1 = i /\ g[i] \in Seq(Nat) /\ seqs[i + 1] \in Seq(Nat)
      BY <2>1, <2>3
    <3>2. g[i + 1] = g[i] \o seqs[i + 1]
      BY <1>1, <3>1
    <3>3. Len(g[i] \o seqs[i + 1]) = Len(g[i]) + Len(seqs[i + 1])
      BY <3>1
    <3>4. Len(g[i]) = n * Below(i)
      BY <1>3, <2>3
    <3>5. n * (Below(i) + 1) = n * Below(i) + n /\ n * Below(i) \in Nat
      OBVIOUS
    <3>6. Below(i + 1) = IF i + 1 <= m THEN Below(i) + 1 ELSE Below(i)
      OBVIOUS
    <3>7. Len(g[i + 1]) = n * Below(i) + Len(seqs[i + 1])
      BY <3>2, <3>3, <3>4
    <3>8. CASE i + 1 <= m
      BY <2>1, <3>5, <3>6, <3>7, <3>8
    <3>9. CASE ~(i + 1 <= m)
      <4>1. Below(i + 1) = Below(i) /\ Len(seqs[i + 1]) = 0
        BY <2>1, <3>6, <3>9
      <4> HIDE DEF Below
      <4>2. Len(g[i + 1]) = n * Below(i + 1)
        BY <3>5, <3>7, <4>1
      <4> QED BY <2>1, <4>2
    <3> QED BY <3>8, <3>9
  <2> QED BY <2>2, <2>3
<1>4. k \in S
  <2> HIDE DEF S
  <2>1. k \in Nat /\ \A i \in 0..(k - 1) : i \in S => i + 1 \in S
    BY <1>3
  <2>2. \A i \in 0..k : i \in S
    BY <1>2, <2>1, UpTo
  <2> QED BY <2>1, <2>2
<1> QED BY <1>1, <1>4

-----------------------------------------------------------------------------
(***************************************************************************)
(* Everything is logged, and every thread is sampled.                      *)
(***************************************************************************)

\* What the threads of the round have done.
WorkRight ==
  InRound => \A t \in Threads : t < thread_count =>
    /\ thread[t] \in {"none", "created", "waiting"} => sent[t] = 0
    /\ thread[t] = "logging" => Share(t, thread_count) > 0
    /\ thread[t] \in {"exit", "finished"} =>
         sent[t] = 0 /\ iteration[t] = IF Share(t, thread_count) > 0 THEN NumIterations ELSE 0

\* What thread t of k has logged.
Work(t, k) == iteration[t] * Share(t, k) + sent[t]

\* What they have logged altogether.
LoggedRight == InRound => AddsUp([t \in 0..(thread_count - 1) |-> Work(t, thread_count)], thread_count, logged)

CompleteInv == WorkRight /\ LoggedRight /\ ReportsComplete

\* The threads of a round.
LEMMA RoundThreads ==
  ASSUME BenchInv, InRound
  PROVE  /\ thread_count \in Nat \ {0}
         /\ \A t \in 0..(thread_count - 1) :
              t \in Threads /\ Share(t, thread_count) \in Nat /\ Work(t, thread_count) \in Nat
<1>1. thread_count \in Nat \ {0} /\ thread_count <= Cardinality(Threads)
  BY ThreadsNumbered DEF BenchInv, MainRight
<1>2. PICK k \in Nat \ {0} : k = thread_count
  BY <1>1
<1>3. ASSUME NEW t \in 0..(k - 1) PROVE t \in Threads /\ Share(t, k) \in Nat /\ Work(t, k) \in Nat
  <2>1. t \in Threads
    BY <1>1, <1>2, ThreadsNumbered
  <2>2. Share(t, k) \in Nat
    BY SharePositive
  <2>3. iteration[t] \in Nat /\ sent[t] \in Nat
    BY <2>1 DEF BenchInv, BenchTypes
  <2>4. iteration[t] * Share(t, k) \in Nat
    BY <2>2, <2>3
  <2> QED BY <2>1, <2>2, <2>3, <2>4 DEF Work
<1> QED BY <1>1, <1>2, <1>3

\* A step of a thread that logs nothing and ends no iteration.
LEMMA LoggedStays ==
  ASSUME LoggedRight, InRound, UNCHANGED <<round, iteration, sent, logged>>
  PROVE  LoggedRight'
<1>1. AddsUp([t \in 0..(thread_count - 1) |-> Work(t, thread_count)], thread_count, logged)
  BY DEF LoggedRight
<1>2. thread_count' = thread_count
  BY DEF thread_count
<1>3. \A t : Work(t, thread_count)' = Work(t, thread_count)
  BY <1>2 DEF Work, Share
<1>4. [t \in 0..(thread_count - 1) |-> Work(t, thread_count)]' = [t \in 0..(thread_count - 1) |-> Work(t, thread_count)]
  BY <1>2, <1>3
<1> QED BY <1>1, <1>2, <1>4 DEF LoggedRight, AddsUp

\* Steps of a thread before and after its loop.
LEMMA PassesComplete ==
  ASSUME BenchInv, CompleteInv, NEW t \in Threads, Arrive(t) \/ PassBarrier(t) \/ OnThreadExit(t)
  PROVE  CompleteInv'
<1>0. /\ UNCHANGED <<round, main, iteration, sent, logged, reports>> /\ main # "aborted"
      /\ thread[t] \in {"created", "waiting", "exit"} /\ thread \in [Threads -> Places]
  BY DEF Arrive, PassBarrier, OnThreadExit, BenchInv, BenchTypes
<1>1. InRound /\ t < thread_count
  BY <1>0, WorksInRound
<1>2. LoggedRight'
  BY <1>0, <1>1, LoggedStays DEF CompleteInv
<1>3. thread_count' = thread_count
  BY <1>0 DEF thread_count
<1>4. PICK k \in Nat \ {0} : k = thread_count
  BY <1>1, RoundThreads
<1>5. MessagesForThread(t) = Share(t, k) /\ Share(t, k) \in Nat /\ (InRound' <=> InRound)
  BY <1>0, <1>1, <1>4, RoundThreads, ThreadsNumbered DEF MessagesForThread, Share, InRound
<1>6. PICK p \in Started : /\ thread' = [thread EXCEPT ![t] = p]
                           /\ \/ p = "waiting" /\ thread[t] = "created"
                              \/ p = "logging" /\ Share(t, k) # 0 /\ thread[t] = "waiting"
                              \/ p = "exit" /\ (Share(t, k) = 0 \/ NumIterations = 0) /\ thread[t] = "waiting"
                              \/ p = "finished" /\ thread[t] = "exit"
  BY <1>5 DEF Arrive, PassBarrier, Passed, OnThreadExit, Started
<1>7. WorkRight'
  <2>1. ASSUME NEW u \in Threads, u < k
        PROVE  /\ thread'[u] \in {"none", "created", "waiting"} => sent[u] = 0
               /\ thread'[u] = "logging" => Share(u, k) > 0
               /\ thread'[u] \in {"exit", "finished"} =>
                    sent[u] = 0 /\ iteration[u] = IF Share(u, k) > 0 THEN NumIterations ELSE 0
    <3>1. /\ thread[u] \in {"none", "created", "waiting"} => sent[u] = 0 /\ iteration[u] = 0
          /\ thread[u] = "logging" => Share(u, k) > 0
          /\ thread[u] \in {"exit", "finished"} =>
               sent[u] = 0 /\ iteration[u] = IF Share(u, k) > 0 THEN NumIterations ELSE 0
      BY <1>1, <1>4, <2>1 DEF CompleteInv, WorkRight, BenchInv, LoopsRight
    <3>2. CASE u # t
      BY <1>0, <1>6, <3>1, <3>2
    <3>3. CASE u = t
      <4>1. thread'[u] = p
        BY <1>0, <1>6, <3>3
      <4> QED BY <1>5, <1>6, <3>1, <3>3, <4>1
    <3> QED BY <3>2, <3>3
  <2> QED BY <1>0, <1>3, <1>4, <2>1 DEF WorkRight, Share
<1>8. ReportsComplete'
  BY <1>0 DEF CompleteInv, ReportsComplete
<1> QED BY <1>2, <1>7, <1>8 DEF CompleteInv

\* The only thing that changes of the work of a round is that of one thread,
\* which is in its loop afterwards or has done all of it.
LEMMA WorkStays ==
  ASSUME BenchInv, WorkRight, InRound, NEW t \in Threads, t < thread_count, UNCHANGED <<round, main>>,
         \A u \in Threads : u # t => thread'[u] = thread[u] /\ sent'[u] = sent[u] /\ iteration'[u] = iteration[u],
         \/ thread'[t] = "logging" /\ Share(t, thread_count) > 0
         \/ thread'[t] = "exit" /\ sent'[t] = 0 /\ Share(t, thread_count) > 0 /\ iteration'[t] = NumIterations
  PROVE  WorkRight'
<1>1. PICK k : k = thread_count
  OBVIOUS
<1>2. thread_count' = k
  BY <1>1 DEF thread_count
<1>3. ASSUME NEW u \in Threads, u < k
      PROVE  /\ thread'[u] \in {"none", "created", "waiting"} => sent'[u] = 0
             /\ thread'[u] = "logging" => Share(u, k) > 0
             /\ thread'[u] \in {"exit", "finished"} =>
                  sent'[u] = 0 /\ iteration'[u] = IF Share(u, k) > 0 THEN NumIterations ELSE 0
  <2>1. CASE u = t
    BY <1>1, <2>1
  <2>2. CASE u # t
    BY <1>1, <1>3, <2>2 DEF WorkRight
  <2> QED BY <2>1, <2>2
<1> QED BY <1>2, <1>3 DEF WorkRight, Share

\* A message is logged.
LEMMA LogFuncComplete == ASSUME BenchInv, CompleteInv, NEW t \in Threads, LogFunc(t) PROVE CompleteInv'
<1>0. /\ UNCHANGED <<round, main, thread, iteration, reports>> /\ main # "aborted" /\ thread[t] = "logging"
      /\ sent' = [sent EXCEPT ![t] = sent[t] + 1] /\ logged' = logged + 1
  BY DEF LogFunc
<1>1. InRound /\ t < thread_count
  BY <1>0, WorksInRound
<1>2. PICK k \in Nat \ {0} : k = thread_count
  BY <1>1, RoundThreads
<1>3. thread_count' = k /\ (InRound' <=> InRound) /\ t \in 0..(k - 1)
  BY <1>0, <1>1, <1>2, ThreadsNumbered DEF thread_count, InRound
<1>4. \A u \in Threads : sent'[u] = (IF u = t THEN sent[t] + 1 ELSE sent[u]) /\ sent[u] \in Nat /\ iteration[u] \in Nat
  BY <1>0 DEF BenchInv, BenchTypes
<1>5. Share(t, k) > 0
  BY <1>0, <1>1, <1>2 DEF CompleteInv, WorkRight
<1>6. WorkRight'
  BY <1>0, <1>1, <1>2, <1>4, <1>5, WorkStays DEF CompleteInv
<1>7. LoggedRight'
  <2> DEFINE f == [u \in 0..(k - 1) |-> iteration[u] * Share(u, k) + sent[u]]
             g == [u \in 0..(k - 1) |-> iteration'[u] * Share(u, k) + sent'[u]]
  <2>1. AddsUp(f, k, logged)
    BY <1>1, <1>2 DEF CompleteInv, LoggedRight, Work
  <2>2. \A u \in 0..(k - 1) : u \in Threads /\ iteration[u] * Share(u, k) \in Nat
    <3> SUFFICES ASSUME NEW u \in 0..(k - 1) PROVE u \in Threads /\ iteration[u] * Share(u, k) \in Nat
      OBVIOUS
    <3>1. u \in Threads /\ Share(u, k) \in Nat /\ iteration[u] \in Nat
      BY <1>1, <1>2, <1>4, RoundThreads
    <3> QED BY <3>1
  <2>3. f \in [0..(k - 1) -> Nat]
    BY <1>4, <2>2
  <2>4. g[t] = f[t] + 1
    BY <1>0, <1>3, <1>4, <2>2
  <2>5. \A u \in 0..(k - 1) : u # t => g[u] = f[u]
    BY <1>0, <1>4, <2>2
  <2>6. AddsUp(g, k, logged + 1)
    <3> HIDE DEF f, g
    <3> QED BY <1>3, <2>1, <2>3, <2>4, <2>5, OneMore
  <2> QED BY <1>0, <1>3, <2>6 DEF LoggedRight, Work, Share, AddsUp
<1>8. ReportsComplete'
  BY <1>0 DEF CompleteInv, ReportsComplete
<1> QED BY <1>6, <1>7, <1>8 DEF CompleteInv

\* The messages of an iteration become one more iteration.
LEMMA EndIterationComplete ==
  ASSUME BenchInv, CompleteInv, NEW t \in Threads, NEW l \in Latencies, EndIteration(t, l)
  PROVE  CompleteInv'
<1>0. /\ UNCHANGED <<round, main, logged, reports>> /\ main # "aborted" /\ thread[t] = "logging"
      /\ sent[t] = MessagesForThread(t) /\ sent' = [sent EXCEPT ![t] = 0]
      /\ iteration' = [iteration EXCEPT ![t] = iteration[t] + 1]
      /\ thread' = [thread EXCEPT ![t] = IF iteration[t] + 1 = NumIterations THEN "exit" ELSE "logging"]
  BY DEF EndIteration
<1>1. InRound /\ t < thread_count
  BY <1>0, WorksInRound
<1>2. PICK k \in Nat \ {0} : k = thread_count
  BY <1>1, RoundThreads
<1>3. thread_count' = k /\ (InRound' <=> InRound) /\ t \in 0..(k - 1)
  BY <1>0, <1>1, <1>2, ThreadsNumbered DEF thread_count, InRound
<1>4. \A u \in Threads : /\ sent'[u] = (IF u = t THEN 0 ELSE sent[u]) /\ sent[u] \in Nat /\ iteration[u] \in Nat
                         /\ iteration'[u] = (IF u = t THEN iteration[t] + 1 ELSE iteration[u])
                         /\ thread'[u] = (IF u # t THEN thread[u]
                                          ELSE IF iteration[t] + 1 = NumIterations THEN "exit" ELSE "logging")
  BY <1>0 DEF BenchInv, BenchTypes
<1>5. Share(t, k) > 0 /\ sent[t] = Share(t, k) /\ Share(t, k) \in Nat
  BY <1>0, <1>1, <1>2, <1>3, RoundThreads DEF CompleteInv, WorkRight, MessagesForThread, Share
<1>6. WorkRight'
  BY <1>0, <1>1, <1>2, <1>4, <1>5, WorkStays DEF CompleteInv
<1>7. LoggedRight'
  <2>1. ASSUME NEW u \in 0..(k - 1)
        PROVE  iteration'[u] * Share(u, k) + sent'[u] = iteration[u] * Share(u, k) + sent[u]
    <3>1. u \in Threads
      BY <1>1, <1>2, RoundThreads
    <3>2. CASE u # t
      BY <1>4, <3>1, <3>2
    <3>3. CASE u = t
      <4>1. PICK i \in Nat, s \in Nat : i = iteration[t] /\ s = Share(t, k)
        BY <1>4, <1>5
      <4>2. (i + 1) * s + 0 = i * s + s
        OBVIOUS
      <4> QED BY <1>4, <1>5, <3>1, <3>3, <4>1, <4>2
    <3> QED BY <3>2, <3>3
  <2>2. [u \in 0..(k - 1) |-> iteration'[u] * Share(u, k) + sent'[u]]
          = [u \in 0..(k - 1) |-> iteration[u] * Share(u, k) + sent[u]]
    BY <2>1
  <2>3. AddsUp([u \in 0..(k - 1) |-> iteration[u] * Share(u, k) + sent[u]], k, logged)
    BY <1>1, <1>2 DEF CompleteInv, LoggedRight, Work
  <2>4. AddsUp([u \in 0..(k - 1) |-> iteration'[u] * Share(u, k) + sent'[u]], k, logged)
    BY <2>2, <2>3
  <2>5. logged' = logged
    BY <1>0
  <2> QED BY <1>3, <2>4, <2>5 DEF LoggedRight, Work, Share, AddsUp
<1>8. ReportsComplete'
  BY <1>0 DEF CompleteInv, ReportsComplete
<1> QED BY <1>6, <1>7, <1>8 DEF CompleteInv

\* A report is complete.
Complete(r) ==
  r.logged = r.total /\ Len(r.samples) = NumIterations * (IF r.threads < MessagesPerIteration THEN r.threads
                                                         ELSE MessagesPerIteration)

\* One more report.
LEMMA ReportedComplete ==
  ASSUME BenchInv, ReportsComplete, NEW r, Complete(r), reports' = Append(reports, r)
  PROVE  ReportsComplete'
<1>1. PICK S : reports \in Seq(S)
  BY DEF BenchInv, BenchTypes
<1>2. /\ Len(Append(reports, r)) = Len(reports) + 1 /\ Len(reports) \in Nat
      /\ \A i \in 1..(Len(reports) + 1) : Append(reports, r)[i] = IF i = Len(reports) + 1 THEN r ELSE reports[i]
  BY <1>1
<1>3. \A i \in 1..Len(reports) : Complete(reports[i])
  BY DEF ReportsComplete, Complete
<1>4. \A i \in 1..Len(reports') : Complete(reports'[i])
  BY <1>2, <1>3
<1> QED BY <1>4 DEF ReportsComplete, Complete

\* The round is reported.
LEMMA ReportComplete == ASSUME BenchInv, CompleteInv, Report PROVE CompleteInv'
<1>0. /\ main = "report" /\ main' = "idle" /\ InRound
      /\ \E ranks : reports' = Append(reports,
           [threads |-> thread_count, total |-> NumIterations * MessagesPerIteration,
            logged |-> logged, samples |-> Combined, ranks |-> ranks])
  BY DEF Report, InRound
<1>1. PICK k \in Nat \ {0} : k = thread_count
  BY <1>0, RoundThreads
<1>2. ASSUME NEW t \in 0..(k - 1)
      PROVE  /\ t \in Threads /\ sent[t] = 0 /\ Share(t, k) \in Nat
             /\ iteration[t] = IF Share(t, k) > 0 THEN NumIterations ELSE 0
  <2>1. t \in Threads /\ t < thread_count /\ Share(t, k) \in Nat
    BY <1>0, <1>1, RoundThreads
  <2>2. thread[t] = "finished"
    BY <1>0, <2>1 DEF BenchInv, MainRight, ThreadsRight
  <2> QED BY <1>0, <1>1, <2>1, <2>2 DEF CompleteInv, WorkRight
<1>3. logged = NumIterations * MessagesPerIteration
  <2> DEFINE f == [t \in 0..(k - 1) |-> Work(t, k)]
  <2>1. AddsUp(f, k, logged)
    BY <1>0, <1>1 DEF CompleteInv, LoggedRight
  <2>2. ASSUME NEW t \in 0..(k - 1) PROVE f[t] = NumIterations * Share(t, k)
    <3>1. PICK s \in Nat : s = Share(t, k)
      BY <1>2
    <3>2. iteration[t] * s + sent[t] = NumIterations * s
      <4>1. CASE s > 0
        BY <1>2, <3>1, <4>1, BenchmarkAssumption
      <4>2. CASE s = 0
        <5>0. ~(Share(t, k) > 0)
          BY <3>1, <4>2
        <5>1. iteration[t] = 0 /\ sent[t] = 0
          BY <1>2, <5>0
        <5>2. NumIterations * 0 = 0 /\ 0 * 0 = 0
          BY BenchmarkAssumption
        <5> QED BY <4>2, <5>1, <5>2
      <4> QED BY <4>1, <4>2
    <3> QED BY <3>1, <3>2 DEF Work
  <2> HIDE DEF f
  <2> QED BY <2>1, <2>2, SharesAddUp, BenchmarkAssumption
<1>4. Len(Combined) = NumIterations * (IF k < MessagesPerIteration THEN k ELSE MessagesPerIteration)
  <2> DEFINE seqs == [t \in 1..k |-> latencies[t - 1]]
  <2>1. ASSUME NEW t \in 1..k
        PROVE  latencies[t - 1] \in Seq(Nat) /\ Len(latencies[t - 1]) = IF t <= MessagesPerIteration THEN NumIterations ELSE 0
    <3>1. t - 1 \in 0..(k - 1) /\ (t <= MessagesPerIteration <=> t - 1 < MessagesPerIteration)
      BY BenchmarkAssumption
    <3>2. Len(latencies[t - 1]) = iteration[t - 1] /\ latencies[t - 1] \in Seq(Nat)
      BY <1>2, <3>1 DEF BenchInv, BenchTypes, LoopsRight
    <3>3. Share(t - 1, k) > 0 <=> t - 1 < MessagesPerIteration
      BY <3>1, SharePositive
    <3> QED BY <1>2, <3>1, <3>2, <3>3
  <2>2. seqs \in [1..k -> Seq(Nat)] /\ \A t \in 1..k : Len(seqs[t]) = IF t <= MessagesPerIteration THEN NumIterations ELSE 0
    BY <2>1
  <2>3. Combined = FlattenSeq(seqs)
    BY <1>1 DEF Combined
  <2> HIDE DEF seqs
  <2>4. Len(FlattenSeq(seqs)) = NumIterations * (IF k < MessagesPerIteration THEN k ELSE MessagesPerIteration)
    <3>1. PICK n \in Nat, m \in Nat : n = NumIterations /\ m = MessagesPerIteration
      BY BenchmarkAssumption
    <3>2. \A t \in 1..k : Len(seqs[t]) = IF t <= m THEN n ELSE 0
      BY <2>2, <3>1
    <3>3. Len(FlattenSeq(seqs)) = n * (IF k < m THEN k ELSE m)
      BY <2>2, <3>2, SamplesCounted
    <3> QED BY <3>1, <3>3
  <2> QED BY <2>3, <2>4
<1>5. ReportsComplete'
  <2>1. PICK ranks : reports' = Append(reports,
           [threads |-> k, total |-> NumIterations * MessagesPerIteration,
            logged |-> logged, samples |-> Combined, ranks |-> ranks])
    BY <1>0, <1>1
  <2>2. Complete([threads |-> k, total |-> NumIterations * MessagesPerIteration,
                  logged |-> logged, samples |-> Combined, ranks |-> ranks])
    BY <1>3, <1>4 DEF Complete
  <2> QED BY <2>1, <2>2, ReportedComplete DEF CompleteInv
<1>6. WorkRight' /\ LoggedRight'
  BY <1>0 DEF WorkRight, LoggedRight, InRound
<1> QED BY <1>5, <1>6 DEF CompleteInv

\* There are no threads.
LEMMA NoThreadsComplete == ASSUME BenchInv, CompleteInv, NoThreads PROVE CompleteInv'
<1>0. /\ main' = "idle"
      /\ reports' = Append(reports, [threads |-> 0, total |-> 0, logged |-> 0, samples |-> <<>>, ranks |-> <<>>])
  BY DEF NoThreads
<1>1. Complete([threads |-> 0, total |-> 0, logged |-> 0, samples |-> <<>>, ranks |-> <<>>])
  <2>1. (IF 0 < MessagesPerIteration THEN 0 ELSE MessagesPerIteration) = 0 /\ NumIterations * 0 = 0 /\ Len(<<>>) = 0
    BY BenchmarkAssumption
  <2> QED BY <2>1 DEF Complete
<1>2. ReportsComplete'
  BY <1>0, <1>1, ReportedComplete DEF CompleteInv
<1> QED BY <1>0, <1>2 DEF CompleteInv, WorkRight, LoggedRight, InRound

\* The round begins: nothing is logged.
LEMMA RunBenchmarkComplete == ASSUME BenchInv, CompleteInv, RunBenchmark PROVE CompleteInv'
<1>1. BenchInv' /\ InRound'
  BY RunBenchmarkKeeps DEF RunBenchmark, InRound
<1>2. \A t \in Threads : thread'[t] = "none" /\ sent'[t] = 0 /\ iteration'[t] = 0
  BY DEF RunBenchmark
<1>3. WorkRight'
  BY <1>2 DEF WorkRight
<1>4. LoggedRight'
  <2>1. thread_count' \in Nat \ {0} /\ \A t \in 0..(thread_count' - 1) : t \in Threads
    <3>1. /\ thread_count' \in Nat \ {0}
          /\ \A t \in 0..(thread_count' - 1) : t \in Threads
      BY <1>1, ThreadsNumbered DEF BenchInv, MainRight
    <3> QED BY <3>1
  <2>2. PICK k \in Nat \ {0} : k = thread_count'
    BY <2>1
  <2> DEFINE f == [t \in 0..(k - 1) |-> iteration'[t] * Share(t, k) + sent'[t]]
  <2>3. \A t \in 0..(k - 1) : f[t] = 0
    <3> SUFFICES ASSUME NEW t \in 0..(k - 1) PROVE f[t] = 0
      OBVIOUS
    <3>1. iteration'[t] = 0 /\ sent'[t] = 0 /\ Share(t, k) \in Nat
      BY <1>2, <2>1, <2>2, SharePositive
    <3>2. 0 * Share(t, k) = 0
      BY <3>1
    <3> QED BY <3>1, <3>2
  <2>4. AddsUp(f, k, 0)
    <3> HIDE DEF f
    <3> QED BY <2>3, NothingAddsUp
  <2>5. logged' = 0
    BY DEF RunBenchmark
  <2> QED BY <2>2, <2>4, <2>5 DEF LoggedRight, Work, Share, AddsUp
<1>5. ReportsComplete'
  BY DEF CompleteInv, ReportsComplete, RunBenchmark
<1> QED BY <1>3, <1>4, <1>5 DEF CompleteInv

\* The main thread spawns and joins.
LEMMA SpawnComplete == ASSUME BenchInv, CompleteInv, Spawn PROVE CompleteInv'
<1>0. /\ InRound /\ InRound' /\ UNCHANGED <<round, iteration, sent, logged, reports>>
      /\ thread' = [thread EXCEPT ![spawned] = "created"] /\ thread \in [Threads -> Places]
      /\ thread_count' = thread_count /\ thread[spawned] = "none" /\ spawned \in Threads
  <2>1. thread_count \in 1..Cardinality(Threads) /\ spawned \in Nat /\ spawned < thread_count /\ main = "spawn"
    BY ThreadsNumbered DEF Spawn, InRound, BenchInv, BenchTypes, MainRight
  <2>2. spawned \in Threads
    BY <2>1, ThreadsNumbered
  <2>3. thread[spawned] = "none"
    BY <2>1, <2>2 DEF BenchInv, ThreadsRight, InRound
  <2> QED BY <2>2, <2>3 DEF Spawn, InRound, thread_count, BenchInv, BenchTypes
<1>1. LoggedRight'
  BY <1>0, LoggedStays DEF CompleteInv
<1>2. WorkRight'
  <2>1. \A t \in Threads : thread'[t] = IF t = spawned THEN "created" ELSE thread[t]
    BY <1>0
  <2> QED BY <1>0, <2>1 DEF CompleteInv, WorkRight, Share
<1>3. ReportsComplete'
  BY <1>0 DEF CompleteInv, ReportsComplete
<1> QED BY <1>1, <1>2, <1>3 DEF CompleteInv

LEMMA JoinComplete == ASSUME BenchInv, CompleteInv, Join PROVE CompleteInv'
<1>0. InRound /\ InRound' /\ UNCHANGED <<round, thread, iteration, sent, logged, reports>> /\ thread_count' = thread_count
  BY DEF Join, Joined, InRound, thread_count
<1>1. LoggedRight'
  BY <1>0, LoggedStays DEF CompleteInv
<1> QED BY <1>0, <1>1 DEF CompleteInv, WorkRight, Share, ReportsComplete

LEMMA CompleteNext == BenchInv /\ CompleteInv /\ [BenchmarkNext]_benchmarkVars => CompleteInv'
<1> SUFFICES ASSUME BenchInv, CompleteInv, [BenchmarkNext]_benchmarkVars PROVE CompleteInv'
  OBVIOUS
<1>1. CASE MainStep
  BY <1>1, NoThreadsComplete, RunBenchmarkComplete, SpawnComplete, JoinComplete, ReportComplete
       DEF MainStep
<1>2. ASSUME NEW t \in Threads, ThreadStep(t) PROVE CompleteInv'
  BY <1>2, PassesComplete, LogFuncComplete, EndIterationComplete DEF ThreadStep
<1>3. CASE Terminate
  BY <1>3 DEF Terminate, CompleteInv, WorkRight, LoggedRight, InRound, ReportsComplete
<1>4. CASE UNCHANGED benchmarkVars
  BY <1>4 DEF benchmarkVars, CompleteInv, WorkRight, LoggedRight, InRound, ReportsComplete,
       thread_count, Work, Share, AddsUp
<1> QED BY <1>1, <1>2, <1>3, <1>4 DEF BenchmarkNext

-----------------------------------------------------------------------------
(***************************************************************************)
(* The percentiles.                                                        *)
(***************************************************************************)

\* Where the samples below v, and those up to v, are.
Less(s, v) == {k \in 1..Len(s) : s[k] < v}
AtMost(s, v) == {k \in 1..Len(s) : s[k] <= v}

LEMMA CountsFinite ==
  ASSUME NEW s \in Seq(Nat), NEW v
  PROVE  /\ IsFiniteSet(Less(s, v)) /\ Cardinality(Less(s, v)) \in Nat
         /\ IsFiniteSet(AtMost(s, v)) /\ Cardinality(AtMost(s, v)) \in Nat
<1>1. IsFiniteSet(1..Len(s))
  BY FS_Interval
<1>2. Less(s, v) \in SUBSET (1..Len(s)) /\ AtMost(s, v) \in SUBSET (1..Len(s))
  BY DEF Less, AtMost
<1>3. IsFiniteSet(Less(s, v)) /\ IsFiniteSet(AtMost(s, v))
  BY <1>1, <1>2, FS_Subset
<1> QED BY <1>3, FS_CardinalityType

\* There is an i-th smallest sample.
LEMMA SmallestExists ==
  ASSUME NEW s \in Seq(Nat), NEW i \in 1..Len(s)
  PROVE  \E v \in Range(s) : Cardinality(Less(s, v)) < i /\ Cardinality(AtMost(s, v)) >= i
<1> DEFINE V == {v \in Nat : Cardinality(AtMost(s, v)) >= i}
<1>1. V # {}
  <2>1. s \in Seq(Int)
    OBVIOUS
  <2>2. PICK m \in Nat : \A k \in 1..Len(s) : s[k] <= m
    BY <2>1, GreatestNumber
  <2>3. AtMost(s, m) = 1..Len(s)
    BY <2>2 DEF AtMost
  <2>4. Cardinality(1..Len(s)) = Len(s)
    <3>1. PICK n \in Nat : n = Len(s)
      OBVIOUS
    <3>2. Cardinality(1..n) = n
      <4>1. 1 \in Int /\ n \in Int
        OBVIOUS
      <4>2. Cardinality(1..n) = IF 1 > n THEN 0 ELSE n - 1 + 1
        BY <4>1, FS_Interval
      <4> QED BY <4>2
    <3> QED BY <3>1, <3>2
  <2>5. m \in V
    BY <2>3, <2>4
  <2> QED BY <2>5
<1>2. PICK v \in V : \A w \in V : v <= w
  <2>1. V \subseteq Nat
    OBVIOUS
  <2> HIDE DEF V
  <2> QED BY <1>1, <2>1, LeastNumber
<1>3. v \in Nat /\ Cardinality(AtMost(s, v)) >= i /\ \A w \in Nat : Cardinality(AtMost(s, w)) >= i => v <= w
  BY <1>2
<1> HIDE DEF V
<1>4. Cardinality(Less(s, v)) < i
  <2>1. CASE v = 0
    <3>1. Less(s, v) = {}
      BY <2>1 DEF Less
    <3> QED BY <3>1, FS_EmptySet
  <2>2. CASE v # 0
    <3>1. v - 1 \in Nat /\ ~(v <= v - 1)
      BY <1>3, <2>2
    <3>2. Less(s, v) = AtMost(s, v - 1)
      BY <1>3 DEF Less, AtMost
    <3>3. ~(Cardinality(AtMost(s, v - 1)) >= i) /\ Cardinality(AtMost(s, v - 1)) \in Nat
      BY <1>3, <3>1, CountsFinite
    <3> QED BY <3>2, <3>3
  <2> QED BY <2>1, <2>2
<1>5. v \in Range(s)
  <2>1. Less(s, v) # AtMost(s, v)
    BY <1>3, <1>4, CountsFinite
  <2>2. PICK k \in 1..Len(s) : ~(s[k] < v) /\ s[k] <= v
    BY <1>3, <2>1 DEF Less, AtMost
  <2>3. s[k] = v
    BY <1>3, <2>2
  <2> QED BY <2>3 DEF Range
<1> QED BY <1>3, <1>4, <1>5

LEMMA SortedRight ==
  ASSUME NEW s \in Seq(Nat), NEW i \in 1..Len(s)
  PROVE  Cardinality(Less(s, Sorted(s)[i])) < i /\ Cardinality(AtMost(s, Sorted(s)[i])) >= i
<1>1. Sorted(s)[i] = CHOOSE v \in Range(s) : Cardinality(Less(s, v)) < i /\ Cardinality(AtMost(s, v)) >= i
  BY DEF Sorted, Less, AtMost
<1>2. \E v \in Range(s) : Cardinality(Less(s, v)) < i /\ Cardinality(AtMost(s, v)) >= i
  BY SmallestExists
<1> QED BY <1>1, <1>2

\* The rank of a percentile: the least number that is at least that share.
LEMMA RankRight ==
  ASSUME NEW n \in Nat \ {0}, NEW p \in Percentiles
  PROVE  LET i == PercentileIndex(n, p) + 1
         IN  i \in 1..n /\ i * p[2] >= n * p[1] /\ (i - 1) * p[2] < n * p[1]
BY SMTT(60) DEF Percentiles, PercentileIndex

\* The percentiles of one report.
LEMMA RanksRight ==
  ASSUME NEW s \in Seq(Nat), s # <<>>, NEW p \in Percentiles, NEW v, v = Sorted(s)[PercentileIndex(Len(s), p) + 1]
  PROVE  Cardinality(AtMost(s, v)) * p[2] >= Len(s) * p[1] /\ Cardinality(Less(s, v)) * p[2] < Len(s) * p[1]
<1>1. PICK n \in Nat \ {0} : n = Len(s)
  OBVIOUS
<1>2. PICK i \in 1..n : i = PercentileIndex(n, p) + 1 /\ i * p[2] >= n * p[1] /\ (i - 1) * p[2] < n * p[1]
  BY RankRight
<1>3. PICK c \in Nat, d \in Nat : /\ c = Cardinality(AtMost(s, v)) /\ d = Cardinality(Less(s, v))
                                  /\ d < i /\ c >= i
  BY <1>1, <1>2, SortedRight, CountsFinite
<1>4. c * p[2] >= n * p[1] /\ d * p[2] < n * p[1]
  <2>1. p[1] \in Nat /\ p[2] \in Nat
    BY DEF Percentiles
  <2>2. PICK a \in Nat, b \in Nat : a = n * p[1] /\ b = p[2]
    BY <2>1
  <2>3. i * b >= a /\ (i - 1) * b < a
    BY <1>2, <2>2
  <2>4. PICK x \in Nat, y \in Nat : c = i + x /\ i - 1 = d + y
    <3>1. c - i \in Nat /\ (i - 1) - d \in Nat /\ c = i + (c - i) /\ i - 1 = d + ((i - 1) - d)
      BY <1>2, <1>3
    <3> QED BY <3>1
  <2>5. c * b = i * b + x * b /\ (i - 1) * b = d * b + y * b /\ x * b \in Nat /\ y * b \in Nat
        /\ i * b \in Nat /\ d * b \in Nat
    <3>1. (i + x) * b = i * b + x * b /\ (d + y) * b = d * b + y * b
      OBVIOUS
    <3> QED BY <2>4, <3>1
  <2>6. c * b >= a /\ d * b < a
    BY <2>3, <2>5
  <2> QED BY <2>2, <2>6
<1> QED BY <1>1, <1>3, <1>4

\* The percentiles of a report.
RightRanks(r) ==
  r.samples # <<>> => \A p \in Percentiles :
    /\ Cardinality(AtMost(r.samples, r.ranks[p])) * p[2] >= Len(r.samples) * p[1]
    /\ Cardinality(Less(r.samples, r.ranks[p])) * p[2] < Len(r.samples) * p[1]

LEMMA PercentilesAre == PercentilesRight <=> \A i \in 1..Len(reports) : RightRanks(reports[i])
BY DEF PercentilesRight, RightRanks, AtMost, Less

LEMMA ReportedRight ==
  ASSUME BenchInv, PercentilesRight, NEW r, RightRanks(r), reports' = Append(reports, r)
  PROVE  PercentilesRight'
<1>1. PICK S : reports \in Seq(S)
  BY DEF BenchInv, BenchTypes
<1>2. /\ Len(Append(reports, r)) = Len(reports) + 1 /\ Len(reports) \in Nat
      /\ \A i \in 1..(Len(reports) + 1) : Append(reports, r)[i] = IF i = Len(reports) + 1 THEN r ELSE reports[i]
  BY <1>1
<1>3. \A i \in 1..Len(reports) : RightRanks(reports[i])
  BY PercentilesAre
<1>4. \A i \in 1..Len(reports') : RightRanks(reports'[i])
  BY <1>2, <1>3
<1> QED BY <1>4 DEF PercentilesRight, RightRanks, AtMost, Less

\* The samples of a round that are reported.
LEMMA CombinedTyped == ASSUME BenchInv, InRound PROVE Combined \in Seq(Nat)
<1>1. PICK k \in Nat \ {0} : k = thread_count
  BY RoundThreads
<1> DEFINE seqs == [t \in 1..k |-> latencies[t - 1]]
<1>2. ASSUME NEW t \in 1..k PROVE latencies[t - 1] \in Seq(Nat)
  <2>1. t - 1 \in 0..(k - 1)
    OBVIOUS
  <2>2. t - 1 \in Threads
    BY <1>1, <2>1, RoundThreads
  <2> QED BY <2>2 DEF BenchInv, BenchTypes
<1>3. seqs \in [1..k -> Seq(Nat)] /\ Combined = FlattenSeq(seqs)
  BY <1>1, <1>2 DEF Combined
<1> HIDE DEF seqs
<1>4. PICK g \in [1..k -> Seq(Nat)] : FlattenSeq(seqs) = g[k]
  BY <1>3, Flattened
<1> QED BY <1>3, <1>4

LEMMA PercentilesNext == BenchInv /\ PercentilesRight /\ [BenchmarkNext]_benchmarkVars => PercentilesRight'
<1> SUFFICES ASSUME BenchInv, PercentilesRight, [BenchmarkNext]_benchmarkVars PROVE PercentilesRight'
  OBVIOUS
<1>1. CASE NoThreads
  <2> DEFINE r == [threads |-> 0, total |-> 0, logged |-> 0, samples |-> <<>>, ranks |-> <<>>]
  <2>1. reports' = Append(reports, r) /\ RightRanks(r)
    BY <1>1 DEF NoThreads, RightRanks
  <2> HIDE DEF r
  <2> QED BY <2>1, ReportedRight
<1>2. CASE Report
  <2> DEFINE r == [threads |-> thread_count, total |-> NumIterations * MessagesPerIteration,
                   logged |-> logged, samples |-> Combined,
                   ranks |-> IF Sorted(Combined) = <<>> THEN <<>>
                             ELSE [p \in Percentiles |-> Sorted(Combined)[PercentileIndex(Len(Sorted(Combined)), p) + 1]]]
  <2>1. reports' = Append(reports, r) /\ InRound
    BY <1>2 DEF Report, InRound
  <2>2. PICK s \in Seq(Nat) : s = Combined
    BY <2>1, CombinedTyped
  <2>3. Len(Sorted(s)) = Len(s) /\ (s # <<>> => Sorted(s) # <<>>)
    <3>1. PICK n \in Nat : n = Len(s)
      OBVIOUS
    <3>2. DOMAIN Sorted(s) = 1..n
      BY <3>1 DEF Sorted
    <3>3. Len(Sorted(s)) = n
      BY <3>1 DEF Sorted
    <3>4. s # <<>> => n # 0
      BY <3>1
    <3>5. Len(<<>>) = 0
      OBVIOUS
    <3> QED BY <3>1, <3>3, <3>4, <3>5
  <2>4. r.samples = s /\ \A p \in Percentiles : s # <<>> => r.ranks[p] = Sorted(s)[PercentileIndex(Len(s), p) + 1]
    BY <2>2, <2>3
  <2> HIDE DEF r
  <2>5. RightRanks(r)
    BY <2>2, <2>4, RanksRight DEF RightRanks
  <2> QED BY <2>1, <2>5, ReportedRight
<1>3. CASE UNCHANGED reports
  BY <1>3 DEF PercentilesRight
<1>4. CASE RunBenchmark \/ Spawn \/ Join
  BY <1>3, <1>4 DEF RunBenchmark, Spawn, Join, Joined
<1>5. ASSUME NEW t \in Threads, ThreadStep(t) PROVE UNCHANGED reports
  BY <1>5 DEF ThreadStep, Arrive, PassBarrier, LogFunc, OnThreadExit, EndIteration
<1>6. CASE Terminate \/ UNCHANGED benchmarkVars
  BY <1>3, <1>6 DEF Terminate, benchmarkVars
<1> QED BY <1>1, <1>2, <1>3, <1>4, <1>5, <1>6 DEF BenchmarkNext, MainStep

\* Every report of run_benchmark has one latency for each iteration and thread that
\* logged, the messages of the threads add up to those of the round, and each
\* percentile (percentile_index) is the nearest-rank one.
THEOREM AllReportsRight == BenchmarkSpec => []ReportsRight
<1>1. BenchmarkInit => CompleteInv /\ PercentilesRight
  BY DEF BenchmarkInit, CompleteInv, WorkRight, LoggedRight, InRound, ReportsComplete, PercentilesRight
<1>2. CompleteInv /\ PercentilesRight => ReportsRight
  BY DEF CompleteInv, ReportsRight
<1> QED BY <1>1, <1>2, BenchInitRight, BenchNext, CompleteNext, PercentilesNext, PTL DEF BenchmarkSpec
=============================================================================
