----------------------------- MODULE VaultPaths ------------------------------
(***************************************************************************)
(* Paths of notes, as the gateway's policy (gateway/VaultPolicy.ts) and    *)
(* the container (resolveSafe of vault-container/server.mjs) read them.  A *)
(* path is the sequence of its segments: "a//b" has an empty one, "/a"     *)
(* begins with one.  The policy judges the spelling, the container the     *)
(* file that the spelling leads to.                                        *)
(***************************************************************************)
EXTENDS Sequences, Naturals, FiniteSets

CONSTANTS
    Name,           \* ordinary segments
    Strange,        \* those with a backslash or a control character
    Hidden,         \* those that begin with a dot
    Longer,         \* <<s, t>>: the spelling of t begins with that of s
    VaultDir,       \* VAULT_DIR, one segment below the root
    WritePrefix     \* the parsed VAULT_WRITE_PREFIXES

ASSUME PathsAssumption ==
    /\ Name \cap {"", ".", ".."} = {}
    /\ Strange \subseteq Name
    /\ Hidden \subseteq Name
    /\ Longer \subseteq Name \X Name
    /\ VaultDir \in Name
    /\ WritePrefix \subseteq Seq(Name \cup {"", ".", ".."})

Segment == Name \cup {"", ".", ".."}

\* Mutant: only empty segments are refused.
IsSpelled(path) == path # <<>> /\ \A i \in DOMAIN path : path[i] \notin Strange \cup {""}

\* normalizePath: no empty or dot segment, so no leading slash, and nothing
\* strange.
IsNormal(path) == path # <<>> /\ \A i \in DOMAIN path : path[i] \in Name \ Strange

\* p is the path of something inside the folder.
Below(path, folder) ==
    /\ Len(folder) < Len(path)
    /\ SubSeq(path, 1, Len(folder)) = folder

\* Mutant: the prefix is compared without its closing slash.
StartsLike(path, folder) ==
    \/ Below(path, folder)
    \/ /\ folder # <<>> /\ Len(folder) <= Len(path)
       /\ \A i \in 1 .. Len(folder) - 1 : path[i] = folder[i]
       /\ <<folder[Len(folder)], path[Len(folder)]>> \in Longer

\* The prefix ends with a slash, given or added: a folder, not a spelling.
InFolder(path, folder) == Below(path, folder)

\* checkWrite.
MayWrite(path) == \E folder \in WritePrefix : InFolder(path, folder)

\* path.resolve, one segment after the other: from the root if the path begins
\* with a slash, else from the vault.
Enter(at, segment) ==
    CASE segment \in {"", "."} -> at
      [] segment = ".."        -> IF at = <<>> THEN at ELSE SubSeq(at, 1, Len(at) - 1)
      [] OTHER                 -> Append(at, segment)

Start(path) == IF path # <<>> /\ path[1] = "" THEN <<>> ELSE <<VaultDir>>

Resolve(path) ==
    LET at[n \in 0 .. Len(path)] == IF n = 0 THEN Start(path) ELSE Enter(at[n - 1], path[n])
    IN  at[Len(path)]

\* resolveSafe refuses what is not the vault or inside it.
IsSafe(path) == path # <<>> /\ Resolve(path) # <<>> /\ Resolve(path)[1] = VaultDir

\* The file a safe path leads to, relative to the vault.
FileOf(path) == Tail(Resolve(path))
=============================================================================
