-------------------------- MODULE ArtifactSessions --------------------------
(***************************************************************************)
(* ArtifactStore and ArtifactSession: an artifact root holds files and a   *)
(* manifest that names them, and the roots of one kind and day share a     *)
(* partition index.  A session keeps its manifest in memory and writes the *)
(* whole of it at every registration; evaluate_run opens a second session  *)
(* on the root of its run.  A write of the manifest is two steps: the      *)
(* manifest file, and the rewriting of the index under its lock.           *)
(***************************************************************************)
EXTENDS Naturals, Sequences, FiniteSets, TLC

CONSTANT Actor

VARIABLES
    session,     \* the manifest a session has in memory
    manifest,    \* the manifest file of a root
    disk,        \* the other files of a root: name -> content
    index,       \* _index.jsonl of a kind: status of each root's row
    held         \* the index lock an actor holds, and the rows it has read

files == <<session, manifest, disk, index, held>>

Kinds == {"run", "corpus", "export"}
Roots == Actor \X Kinds
Sessions == Actor \X (Kinds \cup {"evaluation"})
Kind(s) == IF s[2] = "evaluation" THEN "run" ELSE s[2]
Root(s) == <<s[1], Kind(s)>>

NoManifest == [status |-> "none", entries |-> {}]
NoLock == [kind |-> "none", rows |-> <<>>]

FilesInit ==
    /\ session = [s \in Sessions |-> NoManifest]
    /\ manifest = [r \in Roots |-> NoManifest]
    /\ disk = [r \in Roots |-> <<>>]
    /\ index = [k \in Kinds |-> [a \in Actor |-> "none"]]
    /\ held = [a \in Actor |-> NoLock]

\* Files come and go by their names.
With(f, g) == [x \in DOMAIN f \cup DOMAIN g |-> IF x \in DOMAIN g THEN g[x] ELSE f[x]]
Without(f, names) == [x \in DOMAIN f \ names |-> f[x]]

\* Mutant: the index is rewritten without its lock.
NeverLocked(k) == FALSE

\* The thread lock and the flock of one _index.jsonl.
Locked(k) == \E a \in Actor : held[a].kind = k

\* _write_manifest down to the lock: what the index holds is read under it.
WriteManifest(s, m) ==
    /\ ~Locked(Kind(s))
    /\ session' = [session EXCEPT ![s] = m]
    /\ manifest' = [manifest EXCEPT ![Root(s)] = m]
    /\ held' = [held EXCEPT ![s[1]] = [kind |-> Kind(s), rows |-> index[Kind(s)]]]
    /\ UNCHANGED index

\* The session's own row replaces the one of its artifact; the lock is released.
WriteIndex(a) ==
    LET k == held[a].kind IN
    /\ k # "none"
    /\ index' = [index EXCEPT ![k] = [held[a].rows EXCEPT ![a] = manifest[<<a, k>>].status]]
    /\ held' = [held EXCEPT ![a] = NoLock]
    /\ UNCHANGED <<session, manifest, disk>>

\* create_root and initialize, which registers the two log streams of every root.
CreateRoot(s) ==
    /\ WriteManifest(s, [status |-> "running", entries |-> {"runtime.logs"}])
    /\ UNCHANGED disk

\* write_json, write_jsonl, write_text and register_path after a file was written.
WriteArtifact(s, name, content) ==
    /\ disk' = [disk EXCEPT ![Root(s)] = With(@, [x \in {name} |-> content])]
    /\ WriteManifest(s, [session[s] EXCEPT !.entries = @ \cup {name}])

FinalizeSession(s, status) ==
    /\ WriteManifest(s, [session[s] EXCEPT !.status = status])
    /\ UNCHANGED disk

\* A session made for an existing root: the manifest is read from its file.
AdoptRoot(s) ==
    /\ session' = [session EXCEPT ![s] = manifest[Root(s)]]
    /\ UNCHANGED <<manifest, disk, index, held>>

\* Files put into a root without its manifest being told.
MoveInto(r, names, content) ==
    /\ disk' = [disk EXCEPT ![r] = With(@, [x \in names |-> content])]
    /\ UNCHANGED <<session, manifest, index, held>>

\* An exception inside a write, or the end of the process: the lock is released.
LetGo(a) == held' = [held EXCEPT ![a] = NoLock]

=============================================================================
