-------------------------- MODULE ManifestBinding --------------------------
(***************************************************************************)
(* Binding the artifacts of a channel-sharded manifest to file handles      *)
(* (manifest.rs, ManifestArtifactResolver, Unix build) and what the         *)
(* certifier and the bound reader then read through the handle              *)
(* (certification.rs, parallel_read.rs), while other processes rename,      *)
(* remove, link and rewrite files between any two system calls.             *)
(***************************************************************************)
EXTENDS Naturals, Sequences, FiniteSets

CONSTANTS
    Dirs, Files, Links,  \* the inodes
    Top,                 \* the directory every absolute path starts from
    Names,               \* entry names
    Target,              \* link -> the absolute path it holds
    Tree,                \* the entries at the start: <<directory, name>> -> inode or None
    Content,             \* file -> its bytes at the start, a sequence
    ManifestParent,      \* the path of the manifest's directory
    Requests,            \* [path, lexical, hash]: the channels' artifact entries
    None,
    MaxHops,             \* links one path resolution follows
    MaxChanges           \* bound on what other processes change

Inodes == Dirs \cup Files \cup Links
Slots == DOMAIN Tree

ASSUME TreeAssumption ==
    /\ Top \in Dirs
    /\ Slots \subseteq Dirs \X Names
    /\ Tree \in [Slots -> Inodes \cup {None}]
    /\ Target \in [Links -> Seq(Names)]
    /\ Content \in [Files -> Seq(Nat)]
    /\ None \notin Inodes
    /\ MaxHops \in Nat /\ MaxChanges \in Nat

VARIABLES
    child,     \* the entries now
    data,      \* the bytes of every file now
    changes,   \* changes other processes have made
    step,      \* the next system call of the caller
    root,      \* [path, dir]: root_canonical and root_directory
    request,   \* the entry being opened
    consumer,  \* "certify" or "read"
    walk,      \* [rest, dir]: canonical path still to open, from which directory
    expected,  \* [file, len]: the metadata the path showed
    source,    \* [file, len]: the accepted OcbReadSource
    report,    \* [result, checksum, rows]
    beneath,   \* directories that have been beneath the bound root
    held,      \* files that have been in one of them
    named,     \* files the sought path has led to before its metadata was read
    touched    \* files rewritten in place since their handle was opened

vars == <<child, data, changes, step, root, request, consumer, walk, expected, source,
          report, beneath, held, named, touched>>

NoFile == [file |-> None, len |-> 0]
NoWalk == [rest |-> <<>>, dir |-> None]
NoReport == [result |-> "none", checksum |-> FALSE, rows |-> <<>>]

-----------------------------------------------------------------------------
(* The file system. *)

At(entries, d, n) == IF <<d, n>> \in Slots THEN entries[<<d, n>>] ELSE None

(* A path resolution from directory d, with the components passed so far:   *)
(* every link is followed, NotFound and the other failures kept apart.      *)
Follow(entries, path) ==
    LET from[at \in Dirs \X Seq(Names) \X Seq(Names) \X Nat] ==
          LET d == at[1]
              passed == at[2]
              rest == at[3]
              hops == at[4]
              found == At(entries, d, Head(rest))
          IN
          IF rest = <<>> THEN [ok |-> TRUE, inode |-> d, path |-> passed]
          ELSE IF found = None THEN [ok |-> FALSE, missing |-> TRUE]
          ELSE IF found \in Links
               THEN IF hops = 0 THEN [ok |-> FALSE, missing |-> FALSE]
                    ELSE from[<<Top, <<>>, Target[found] \o Tail(rest), hops - 1>>]
          ELSE IF found \in Dirs
               THEN from[<<found, Append(passed, Head(rest)), Tail(rest), hops>>]
          ELSE IF Len(rest) = 1
               THEN [ok |-> TRUE, inode |-> found, path |-> Append(passed, Head(rest))]
          ELSE [ok |-> FALSE, missing |-> FALSE]
    IN  from[<<Top, <<>>, path, MaxHops>>]

Resolve(path) == Follow(child, path)
Shows(path, inode) == Resolve(path).ok /\ Resolve(path).inode = inode

(* A set of directories that holds every directory its members have as an   *)
(* entry, and the least one around some directories.                        *)
Closed(entries, dirs) ==
    \A s \in Slots : s[1] \in dirs /\ entries[s] \in Dirs => entries[s] \in dirs
Beneath(entries, dirs) ==
    LET around == {S \in SUBSET Dirs : dirs \subseteq S /\ Closed(entries, S)}
    IN  {d \in Dirs : \A S \in around : d \in S}
FilesOf(entries, dirs) == {f \in Files : \E s \in Slots : s[1] \in dirs /\ entries[s] = f}

ArtifactPath == root.path \o request.path
CanonicalPath == root.path \o walk.rest

(* The file the caller is looking for: the one its path leads to, and once  *)
(* that was canonicalised the one the canonical path leads to.              *)
LedTo(entries, path) ==
    LET there == Follow(entries, path) IN IF there.ok THEN {there.inode} \cap Files ELSE {}
Sought(entries) ==
    IF step \in {"check root", "canonicalize artifact"} THEN LedTo(entries, ArtifactPath)
    ELSE IF step \in {"check root again", "stat artifact"} THEN LedTo(entries, CanonicalPath)
    ELSE {}

(* What the caller's history learns from a state of the file system. *)
Remember(entries) ==
    /\ beneath' = Beneath(entries, beneath)
    /\ held' = held \cup FilesOf(entries, beneath')
    /\ named' = named \cup Sought(entries)

Forget == UNCHANGED <<beneath, held, named>>

(* The inodes reachable from i, so that no directory is moved below itself. *)
Within(i) == Beneath(child, {i} \cap Dirs)

ChangesLeft == changes < MaxChanges /\ step # "done"
Changed == changes' = changes + 1
CallerWaits == UNCHANGED <<step, root, request, consumer, walk, expected, source, report>>

(* Another process moves an inode (or a link or directory it prepared) into *)
(* an entry, replacing what is there. *)
Rename ==
    /\ ChangesLeft
    /\ \E s \in Slots, i \in Inodes \ {Top} :
         /\ child[s] # i
         /\ s[1] \notin Within(i)
         /\ child' = [e \in Slots |-> IF e = s THEN i ELSE IF child[e] = i THEN None ELSE child[e]]
    /\ Changed /\ Remember(child') /\ CallerWaits
    /\ UNCHANGED <<data, touched>>

Unlink ==
    /\ ChangesLeft
    /\ \E s \in Slots : child[s] # None /\ child' = [child EXCEPT ![s] = None]
    /\ Changed /\ Remember(child') /\ CallerWaits
    /\ UNCHANGED <<data, touched>>

(* Another process changes a byte of a file, shortens or lengthens it. *)
Rewrite ==
    /\ ChangesLeft
    /\ \E f \in {g \in Files : data[g] # <<>>} :
         /\ data' \in {[data EXCEPT ![f] = Append(@, 0)],
                       [data EXCEPT ![f] = SubSeq(@, 1, Len(@) - 1)],
                       [data EXCEPT ![f][1] = 0]}
         /\ touched' = IF source.file = f THEN touched \cup {f} ELSE touched
    /\ Changed /\ CallerWaits /\ Forget
    /\ UNCHANGED child

-----------------------------------------------------------------------------
(* ManifestArtifactResolver::new *)

Init ==
    /\ child = Tree /\ data = Content /\ changes = 0
    /\ step = "canonicalize root"
    /\ root = [path |-> <<>>, dir |-> None]
    /\ request = None
    /\ consumer \in {"certify", "read"}
    /\ walk = NoWalk /\ expected = NoFile /\ source = NoFile /\ report = NoReport
    /\ beneath = {} /\ held = {} /\ named = {} /\ touched = {}

Environment == <<child, data, changes, touched>>

Refuse(kind) ==
    /\ step' = "done"
    /\ report' = [NoReport EXCEPT !.result = kind]
    /\ UNCHANGED <<root, walk, expected, source>>

UnsafeManifestPath == "UnsafeManifestPath"
MissingArtifact == "MissingArtifact"

CanonicalizeRoot ==
    /\ step = "canonicalize root"
    /\ LET there == Resolve(ManifestParent) IN
       \/ ~there.ok /\ Refuse(UnsafeManifestPath)
       \/ /\ there.ok
          /\ root' = [path |-> there.path, dir |-> None]
          /\ step' = "stat root"
          /\ UNCHANGED <<walk, expected, source, report>>
    /\ Forget /\ UNCHANGED <<Environment, request, consumer>>

StatRoot ==
    /\ step = "stat root"
    /\ LET there == Resolve(root.path) IN
       \/ ~(there.ok /\ there.inode \in Dirs) /\ Refuse(UnsafeManifestPath)
       \/ /\ there.ok /\ there.inode \in Dirs
          /\ expected' = [NoFile EXCEPT !.file = there.inode]
          /\ step' = "open root"
          /\ UNCHANGED <<root, walk, source, report>>
    /\ Forget /\ UNCHANGED <<Environment, request, consumer>>

(* The directory is opened and compared with the metadata. *)
OpenRoot ==
    /\ step = "open root"
    /\ LET there == Resolve(root.path) IN
       \/ ~(there.ok /\ there.inode = expected.file) /\ Refuse(UnsafeManifestPath) /\ Forget
       \/ /\ there.ok /\ there.inode = expected.file
          /\ root' = [path |-> root.path, dir |-> there.inode]
          /\ step' = "recheck root"
          /\ beneath' = Beneath(child, {there.inode})
          /\ held' = FilesOf(child, beneath')
          /\ UNCHANGED <<walk, expected, source, report, named>>
    /\ UNCHANGED <<Environment, request, consumer>>

RecheckRoot ==
    /\ step = "recheck root"
    /\ LET there == Resolve(ManifestParent) IN
       \/ ~(there.ok /\ there.path = root.path) /\ Refuse(UnsafeManifestPath)
       \/ /\ there.ok /\ there.path = root.path
          /\ step' = "request"
          /\ UNCHANGED <<root, walk, expected, source, report>>
    /\ Forget /\ UNCHANGED <<Environment, request, consumer>>

-----------------------------------------------------------------------------
(* open_artifact_inner *)

(* A path that is not lexically safe touches no file. *)
validate_manifest_relative_path(entry) == entry.lexical

OpenArtifact ==
    /\ step = "request"
    /\ \E entry \in Requests :
         \/ ~validate_manifest_relative_path(entry) /\ Refuse(UnsafeManifestPath)
            /\ Forget /\ UNCHANGED request
         \/ /\ validate_manifest_relative_path(entry)
            /\ request' = entry
            /\ step' = "check root"
            /\ named' = LedTo(child, root.path \o entry.path)
            /\ UNCHANGED <<root, walk, expected, source, report, beneath, held>>
    /\ UNCHANGED <<Environment, consumer>>

(* Both calls: the root's path still leads to the bound directory. *)
verify_root_path_identity(now, next) ==
    /\ step = now
    /\ \/ ~Shows(root.path, root.dir) /\ Refuse(UnsafeManifestPath)
       \/ /\ Shows(root.path, root.dir)
          /\ step' = next
          /\ UNCHANGED <<root, walk, expected, source, report>>
    /\ Forget /\ UNCHANGED <<Environment, request, consumer>>

CheckRootBefore == verify_root_path_identity("check root", "canonicalize artifact")
CheckRootAfter == verify_root_path_identity("check root again", "stat artifact")

(* Resolution, with the prefix test made on its result after the second     *)
(* root check: walk.rest is the part of the path below the root. *)
CanonicalizeArtifact ==
    /\ step = "canonicalize artifact"
    /\ LET there == Resolve(ArtifactPath)
           depth == Len(root.path)
           inside == Len(there.path) > depth /\ SubSeq(there.path, 1, depth) = root.path
       IN
       \/ ~there.ok /\ Forget
          /\ Refuse(IF there.missing THEN MissingArtifact ELSE UnsafeManifestPath)
       \/ /\ there.ok
          /\ walk' = [dir |-> root.dir,
                      rest |-> IF inside THEN SubSeq(there.path, depth + 1, Len(there.path))
                               ELSE <<>>]
          /\ step' = "check root again"
          /\ named' = named \cup LedTo(child, root.path \o walk'.rest)
          /\ UNCHANGED <<root, expected, source, report, beneath, held>>
    /\ UNCHANGED <<Environment, request, consumer>>

(* The metadata of the canonical path, which follows links again. *)
StatArtifact ==
    /\ step = "stat artifact"
    /\ LET there == Resolve(CanonicalPath) IN
       \/ walk.rest = <<>> /\ Refuse(UnsafeManifestPath)
       \/ walk.rest # <<>> /\ ~there.ok /\ Refuse(MissingArtifact)
       \/ walk.rest # <<>> /\ there.ok /\ there.inode \notin Files /\ Refuse(UnsafeManifestPath)
       \/ /\ walk.rest # <<>> /\ there.ok /\ there.inode \in Files
          /\ expected' = [file |-> there.inode, len |-> Len(data[there.inode])]
          /\ step' = "open component"
          /\ UNCHANGED <<root, walk, source, report>>
    /\ Forget /\ UNCHANGED <<Environment, request, consumer>>

(* Fault: openat without O_NOFOLLOW. *)
FollowsLinks(n) ==
    LET found == At(child, walk.dir, n) IN
    IF found \notin Links THEN found
    ELSE LET there == Resolve(Target[found])
         IN  IF there.ok THEN there.inode ELSE None

(* What one openat with O_NOFOLLOW opens: the entry itself. *)
openat(n) == At(child, walk.dir, n)

OpenComponent ==
    /\ step = "open component"
    /\ LET found == openat(Head(walk.rest))
           final == Len(walk.rest) = 1
       IN
       \/ found = None /\ Refuse(MissingArtifact)
       \/ /\ found # None
          /\ found \notin (IF final THEN Files ELSE Dirs)
          /\ Refuse(UnsafeManifestPath)
       \/ /\ ~final /\ found \in Dirs
          /\ walk' = [rest |-> Tail(walk.rest), dir |-> found]
          /\ UNCHANGED <<step, root, expected, source, report>>
       \/ /\ final /\ found \in Files
          /\ source' = [file |-> found, len |-> Len(data[found])]
          /\ step' = "compare"
          /\ UNCHANGED <<root, walk, expected, report>>
    /\ Forget /\ UNCHANGED <<Environment, request, consumer>>

(* Identity and length of the opened file against the metadata. *)
SameFile == source.file = expected.file /\ source.len = expected.len

(* The comparison, and OcbReadSource::from_file, which takes the length.    *)
Compare ==
    /\ step = "compare"
    /\ source' = [source EXCEPT !.len = Len(data[source.file])]
    /\ \/ ~SameFile /\ step' = "done" /\ report' = [NoReport EXCEPT !.result = UnsafeManifestPath]
       \/ /\ SameFile
          /\ step' = IF consumer = "certify" /\ request.hash # None THEN "hash" ELSE "scan"
          /\ UNCHANGED report
    /\ Forget /\ UNCHANGED <<Environment, request, consumer, root, walk, expected>>

-----------------------------------------------------------------------------
(* What is read through the handle. *)

Bytes(file, len) == SubSeq(data[file], 1, len)
Complete(file, len) == Len(data[file]) >= len

(* Fault: the hash is taken from a fresh open of the path. *)
HashedByPath ==
    LET there == Resolve(ArtifactPath) IN
    IF there.ok /\ there.inode \in Files THEN data[there.inode] ELSE <<>>

(* The bytes the declared hash is compared with. *)
HashedBytes == Bytes(source.file, source.len)

VerifyHashes ==
    /\ step = "hash"
    /\ \/ ~Complete(source.file, source.len) /\ Refuse("Io")
       \/ /\ Complete(source.file, source.len)
          /\ HashedBytes # request.hash
          /\ Refuse("ChecksumMismatch")
       \/ /\ Complete(source.file, source.len)
          /\ HashedBytes = request.hash
          /\ report' = [report EXCEPT !.checksum = TRUE]
          /\ step' = "scan"
          /\ UNCHANGED <<root, walk, expected, source>>
    /\ Forget /\ UNCHANGED <<Environment, request, consumer>>

(* The rows are read last, by the certifier's scan or by the bound reader. *)
ScanRows ==
    /\ step = "scan"
    /\ \/ ~Complete(source.file, source.len) /\ Refuse("Io")
       \/ /\ Complete(source.file, source.len)
          /\ report' = [report EXCEPT !.result = "ok", !.rows = Bytes(source.file, source.len)]
          /\ step' = "done"
          /\ UNCHANGED <<root, walk, expected, source>>
    /\ Forget /\ UNCHANGED <<Environment, request, consumer>>

New == CanonicalizeRoot \/ StatRoot \/ OpenRoot \/ RecheckRoot
Open == OpenArtifact \/ CheckRootBefore \/ CanonicalizeArtifact \/ CheckRootAfter
        \/ StatArtifact \/ OpenComponent \/ Compare
Next == New \/ Open \/ VerifyHashes \/ ScanRows \/ Rename \/ Unlink \/ Rewrite

Spec == Init /\ [][Next]_vars

-----------------------------------------------------------------------------
(* An accepted artifact is a file that the manifest's path, or the path it  *)
(* was canonicalised to, led to at a moment between the request and the     *)
(* metadata, and it lay in a directory that has been beneath the bound      *)
(* root: whatever is renamed, linked or replaced between canonicalize,      *)
(* metadata and the openat steps, nothing outside the root that was bound   *)
(* is accepted (open_artifact_inner, open_unix_artifact_beneath). *)
AcceptedLayBeneathRoot ==
    step \in {"hash", "scan"} \/ report.result = "ok" =>
        source.file \in held \cap named

(* The hash and the rows come from one file: when the declared hash was     *)
(* verified, the rows read later are the bytes it was declared for, however *)
(* the path is replaced in between, unless that very file was rewritten in  *)
(* place (open_manifest_artifact_for_certification_with_hooks).  A source   *)
(* of the expected length never yields rows of another length. *)
HashCoversTheRows ==
    report.result = "ok" =>
        /\ report.checksum /\ source.file \notin touched => report.rows = request.hash
        /\ Len(report.rows) = source.len
=============================================================================
