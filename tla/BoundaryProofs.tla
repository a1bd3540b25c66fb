--------------------------- MODULE BoundaryProofs ---------------------------
(***************************************************************************)
(* The boundaries of the program.                                          *)
(*                                                                         *)
(* Towards the file system (ManifestBinding): what the resolver accepts,   *)
(* and what the certifier vouches for, on any tree of directories, files   *)
(* and links, for any requests and any number of renames, removals and     *)
(* rewrites by other processes between any two system calls.  How a path   *)
(* is resolved plays no part in the proofs: Follow stays opaque.  The      *)
(* resolver asks it where a path leads and believes the answer only as far *)
(* as it compares it with the file its own openat steps reached.           *)
(*                                                                         *)
(* Towards the files that came with the manifest (Certification): that a   *)
(* certified artifact holds what its manifest promises, and that the two   *)
(* certifiers agree, for any manifest, any files of any number of channels,*)
(* row groups and rows, and any damage to them.  The sum over the channels *)
(* plays no part beyond being a function of them.                          *)
(*                                                                         *)
(* Towards the native library (NativeCall): what the functions of the safe *)
(* wrapper, written by the rules of ScriptRules, keep of outputs, of the   *)
(* last error and of the gate in any number of threads.                    *)
(*                                                                         *)
(* Towards the file formats of others (TensorInterchange): that a tensor   *)
(* comes back from CSV, Parquet and Arrow as it was, and that no change to *)
(* the rows on the way gives another, for any tensor and any number of     *)
(* changes.                                                                *)
(***************************************************************************)
EXTENDS ManifestBinding, NativeCall, Certification, TensorInterchange,
        SequenceTheorems, SumTheorems, TLAPS

-----------------------------------------------------------------------------
(* ---- The file system ----------------------------------------------------- *)

Entries == [Slots -> Inodes \cup {None}]
Refusals == {"UnsafeManifestPath", "MissingArtifact", "Io", "ChecksumMismatch"}

(* Types of the variables the argument uses. *)
Types ==
    /\ child \in Entries
    /\ data \in [Files -> Seq(Nat)]
    /\ source \in [file : Files \cup {None}, len : Nat]
    /\ report \in [result : Refusals \cup {"none", "ok"}, checksum : BOOLEAN, rows : Seq(Nat)]
    /\ beneath \subseteq Dirs

(* The history of the directories below the root is complete: it holds      *)
(* every directory that is an entry of one of them, and every file.         *)
Recorded == Closed(child, beneath) /\ FilesOf(child, beneath) \subseteq held

(* From the moment the root is opened it is one of them, and so is each     *)
(* directory the openat steps have come to.                                 *)
BeforeRoot == {"canonicalize root", "stat root", "open root"}
BelowRoot ==
    /\ step = "open root" => expected.file \in Dirs
    /\ step \notin BeforeRoot \cup {"done"} => root.dir \in beneath
    /\ step \in {"check root again", "stat artifact", "open component"} =>
          walk.dir \in beneath

(* What the sought path leads to is remembered, what its metadata showed    *)
(* was, and the file that was opened is in a directory below the root.      *)
Looked ==
    /\ Sought(child) \subseteq named
    /\ step \in {"open component", "compare"} => expected.file \in named
    /\ step = "compare" => source.file \in held \cap Files

(* No verdict before the end, no checksum before the hash was compared.     *)
Verdicts ==
    /\ step # "done" => report.result = "none"
    /\ report.checksum => step \in {"scan", "done"}

(* A verified hash is that of the bytes the scan is about to read, unless   *)
(* the file was rewritten in place since.                                   *)
Hashed ==
    step = "scan" /\ report.checksum /\ source.file \notin touched =>
        Bytes(source.file, source.len) = request.hash

(* An accepted file is a file below the root that the path led to.          *)
Accepted ==
    step \in {"hash", "scan"} \/ report.result = "ok" =>
        source.file \in held \cap named \cap Files

IInv ==
    /\ Types /\ Recorded /\ BelowRoot /\ Looked /\ Verdicts /\ Hashed /\ Accepted
    /\ HashCoversTheRows

-----------------------------------------------------------------------------
(* The least closed set around some directories holds them and is closed.   *)
LEMMA BeneathIsClosed ==
    ASSUME NEW entries, NEW dirs \in SUBSET Dirs
    PROVE  /\ dirs \subseteq Beneath(entries, dirs)
           /\ Beneath(entries, dirs) \subseteq Dirs
           /\ Closed(entries, Beneath(entries, dirs))
  <1> DEFINE around == {S \in SUBSET Dirs : dirs \subseteq S /\ Closed(entries, S)}
  <1>1. Beneath(entries, dirs) = {d \in Dirs : \A S \in around : d \in S}
    BY DEF Beneath
  <1>2. ASSUME NEW s \in Slots, s[1] \in Beneath(entries, dirs), entries[s] \in Dirs
        PROVE  entries[s] \in Beneath(entries, dirs)
    <2>1. ASSUME NEW S \in around PROVE entries[s] \in S
      BY <1>1, <1>2 DEF Closed
    <2> QED
      BY <1>1, <1>2, <2>1
  <1>3. Closed(entries, Beneath(entries, dirs))
    BY <1>2 DEF Closed
  <1> HIDE DEF around
  <1>4. dirs \subseteq Beneath(entries, dirs)
    BY <1>1 DEF around
  <1>5. Beneath(entries, dirs) \subseteq Dirs
    BY <1>1
  <1> QED
    BY <1>3, <1>4, <1>5

(* An inode found under a name is the entry of that name.                   *)
LEMMA FoundIsEntry ==
    ASSUME NEW entries, NEW d, NEW n, At(entries, d, n) \in Inodes
    PROVE  <<d, n>> \in Slots /\ entries[<<d, n>>] = At(entries, d, n)
  BY TreeAssumption DEF At

(* The bytes of a length the file still has are of that length.             *)
LEMMA BytesHaveLength ==
    ASSUME NEW s \in Seq(Nat), NEW n \in Nat, Len(s) >= n
    PROVE  SubSeq(s, 1, n) \in Seq(Nat) /\ Len(SubSeq(s, 1, n)) = n
  BY SubSeqProperties, LenProperties

-----------------------------------------------------------------------------
(* Before ManifestArtifactResolver::new nothing is bound and nothing read.  *)
THEOREM InitIInv == Init => IInv
  <1> SUFFICES ASSUME Init PROVE IInv
    OBVIOUS
  <1>1. Types
    BY TreeAssumption, EmptySeq
       DEF Init, Types, Entries, NoFile, NoReport
  <1>2. Recorded
    BY DEF Init, Recorded, Closed, FilesOf
  <1>3. BelowRoot /\ Looked /\ Verdicts /\ Hashed /\ Accepted /\ HashCoversTheRows
    BY DEF Init, BelowRoot, BeforeRoot, Looked, Sought, Verdicts, Hashed, Accepted,
           HashCoversTheRows, NoReport
  <1> QED
    BY <1>1, <1>2, <1>3 DEF IInv

(* A refusal ends the call and vouches for nothing.                         *)
LEMMA RefusalKeeps ==
    ASSUME IInv, Forget, UNCHANGED Environment,
           NEW kind \in Refusals, Refuse(kind)
    PROVE  IInv'
  <1> USE DEF IInv
  <1>1. report' = [result |-> kind, checksum |-> FALSE, rows |-> <<>>]
    BY DEF Refuse, NoReport
  <1>2. Types'
    <2>1. <<>> \in Seq(Nat)
      OBVIOUS
    <2>2. report' \in [result : Refusals \cup {"none", "ok"}, checksum : BOOLEAN,
                       rows : Seq(Nat)]
      BY <1>1, <2>1
    <2>3. UNCHANGED <<child, data, source, beneath>>
      BY DEF Refuse, Forget, Environment
    <2> QED
      BY <2>2, <2>3 DEF Types
  <1>3. Recorded'
    BY DEF Recorded, Closed, FilesOf, Forget, Environment
  <1>4. BelowRoot' /\ Looked' /\ Verdicts' /\ Hashed' /\ Accepted' /\ HashCoversTheRows'
    BY <1>1 DEF Refusals, Refuse, BelowRoot, BeforeRoot, Looked, Sought, Verdicts, Hashed,
                Accepted, HashCoversTheRows
  <1> QED
    BY <1>2, <1>3, <1>4

(* The two errors of the resolver are refusals.                             *)
LEMMA RefusalKinds == UnsafeManifestPath \in Refusals /\ MissingArtifact \in Refusals
  BY DEF UnsafeManifestPath, MissingArtifact, Refusals

-----------------------------------------------------------------------------
(* ManifestArtifactResolver::new binds the root. *)
LEMMA NewKeeps == IInv /\ New => IInv'
  <1> SUFFICES ASSUME IInv, New PROVE IInv'
    OBVIOUS
  <1> USE DEF IInv
  <1>1. CASE CanonicalizeRoot
    <2> DEFINE there == Resolve(ManifestParent)
    <2>1. CASE ~there.ok
      BY <1>1, <2>1, RefusalKeeps, RefusalKinds DEF CanonicalizeRoot
    <2>2. CASE there.ok
      <3> HIDE DEF there
      <3>1. /\ step = "canonicalize root" /\ step' = "stat root"
            /\ UNCHANGED <<walk, expected, source, report>>
            /\ Forget /\ UNCHANGED <<Environment, request, consumer>>
        BY <1>1, <2>2 DEF CanonicalizeRoot, there, Refuse
      <3> QED
        BY <3>1 DEF Types, Recorded, Closed, FilesOf, BelowRoot, BeforeRoot, Looked, Sought,
                    Verdicts, Hashed, Accepted, HashCoversTheRows, Forget, Environment
    <2> QED
      BY <2>1, <2>2
  <1>2. CASE StatRoot
    <2> DEFINE there == Resolve(root.path)
    <2>1. CASE ~(there.ok /\ there.inode \in Dirs)
      BY <1>2, <2>1, RefusalKeeps, RefusalKinds DEF StatRoot
    <2>2. CASE there.ok /\ there.inode \in Dirs
      <3> HIDE DEF there
      <3>1. /\ step = "stat root" /\ step' = "open root"
            /\ expected' = [file |-> there.inode, len |-> 0]
            /\ UNCHANGED <<root, walk, source, report>>
            /\ Forget /\ UNCHANGED <<Environment, request, consumer>>
        BY <1>2, <2>2 DEF StatRoot, there, Refuse, NoFile
      <3> QED
        BY <2>2, <3>1
           DEF Types, Recorded, Closed, FilesOf, BelowRoot, BeforeRoot, Looked, Sought,
               Verdicts, Hashed, Accepted, HashCoversTheRows, Forget, Environment
    <2> QED
      BY <2>1, <2>2
  <1>3. CASE OpenRoot
    <2> DEFINE there == Resolve(root.path)
    <2>1. CASE ~(there.ok /\ there.inode = expected.file)
      BY <1>3, <2>1, RefusalKeeps, RefusalKinds DEF OpenRoot
    <2>2. CASE there.ok /\ there.inode = expected.file
      <3> HIDE DEF there
      <3>1. /\ step = "open root" /\ step' = "recheck root"
            /\ root' = [path |-> root.path, dir |-> there.inode]
            /\ beneath' = Beneath(child, {there.inode})
            /\ held' = FilesOf(child, beneath')
            /\ UNCHANGED <<walk, expected, source, report, named>>
            /\ UNCHANGED <<Environment, request, consumer>>
        BY <1>3, <2>2 DEF OpenRoot, there, Refuse
      <3>2. there.inode \in Dirs
        BY <2>2, <3>1 DEF BelowRoot
      <3>3. there.inode \in beneath' /\ beneath' \subseteq Dirs /\ Closed(child, beneath')
        BY <3>1, <3>2, BeneathIsClosed
      <3>4. Types' /\ Recorded'
        BY <3>1, <3>3 DEF Types, Recorded, Environment
      <3>5. BelowRoot' /\ Looked' /\ Verdicts' /\ Hashed' /\ Accepted' /\ HashCoversTheRows'
        BY <3>1, <3>3 DEF BelowRoot, BeforeRoot, Looked, Sought, Verdicts, Hashed, Accepted,
                          HashCoversTheRows
      <3> QED
        BY <3>4, <3>5
    <2> QED
      BY <2>1, <2>2
  <1>4. CASE RecheckRoot
    <2> DEFINE there == Resolve(ManifestParent)
    <2>1. CASE ~(there.ok /\ there.path = root.path)
      BY <1>4, <2>1, RefusalKeeps, RefusalKinds DEF RecheckRoot
    <2>2. CASE there.ok /\ there.path = root.path
      <3>1. /\ step = "recheck root" /\ step' = "request"
            /\ UNCHANGED <<root, walk, expected, source, report>>
            /\ Forget /\ UNCHANGED <<Environment, request, consumer>>
        BY <1>4, <2>2 DEF RecheckRoot, Refuse
      <3> QED
        BY <3>1 DEF Types, Recorded, Closed, FilesOf, BelowRoot, BeforeRoot, Looked, Sought,
                    Verdicts, Hashed, Accepted, HashCoversTheRows, Forget, Environment
    <2> QED
      BY <2>1, <2>2
  <1> QED
    BY <1>1, <1>2, <1>3, <1>4 DEF New

-----------------------------------------------------------------------------
(* open_artifact_inner, up to the metadata of the canonical path. *)
LEMMA LookupKeeps ==
    ASSUME IInv,
           OpenArtifact \/ CheckRootBefore \/ CanonicalizeArtifact \/ CheckRootAfter
           \/ StatArtifact
    PROVE  IInv'
  <1> USE DEF IInv
  <1>1. CASE OpenArtifact
    <2> PICK entry \in Requests :
          \/ Refuse(UnsafeManifestPath) /\ Forget
          \/ /\ request' = entry /\ step' = "check root"
             /\ named' = LedTo(child, root.path \o entry.path)
             /\ UNCHANGED <<root, walk, expected, source, report, beneath, held>>
      BY <1>1 DEF OpenArtifact
    <2>1. step = "request" /\ UNCHANGED <<Environment, consumer>>
      BY <1>1 DEF OpenArtifact
    <2>2. CASE Refuse(UnsafeManifestPath) /\ Forget
      BY <2>1, <2>2, RefusalKeeps, RefusalKinds
    <2>3. CASE /\ request' = entry /\ step' = "check root"
               /\ named' = LedTo(child, root.path \o entry.path)
               /\ UNCHANGED <<root, walk, expected, source, report, beneath, held>>
      BY <2>1, <2>3
         DEF Types, Recorded, Closed, FilesOf, BelowRoot, BeforeRoot, Looked, Sought,
             ArtifactPath, Verdicts, Hashed, Accepted, HashCoversTheRows, Environment
    <2> QED
      BY <2>2, <2>3
  <1>2. ASSUME NEW now, NEW next, verify_root_path_identity(now, next),
               \/ now = "check root" /\ next = "canonicalize artifact"
               \/ now = "check root again" /\ next = "stat artifact"
        PROVE  IInv'
    <2>1. CASE ~Shows(root.path, root.dir)
      BY <1>2, <2>1, RefusalKeeps, RefusalKinds DEF verify_root_path_identity
    <2>2. CASE Shows(root.path, root.dir)
      <3>1. /\ step = now /\ step' = next
            /\ UNCHANGED <<root, walk, expected, source, report>>
            /\ Forget /\ UNCHANGED <<Environment, request, consumer>>
        BY <1>2, <2>2 DEF verify_root_path_identity, Refuse
      <3> QED
        BY <1>2, <3>1
           DEF Types, Recorded, Closed, FilesOf, BelowRoot, BeforeRoot, Looked, Sought,
               ArtifactPath, CanonicalPath, Verdicts, Hashed, Accepted, HashCoversTheRows,
               Forget, Environment
    <2> QED
      BY <2>1, <2>2
  <1>3. CASE CheckRootBefore
    BY <1>2, <1>3 DEF CheckRootBefore
  <1>4. CASE CheckRootAfter
    BY <1>2, <1>4 DEF CheckRootAfter
  <1>5. CASE CanonicalizeArtifact
    <2> DEFINE there == Resolve(ArtifactPath)
    <2>1. CASE ~there.ok
      BY <1>5, <2>1, RefusalKeeps, RefusalKinds DEF CanonicalizeArtifact
    <2>2. CASE there.ok
      <3> DEFINE depth == Len(root.path)
                 inside == /\ Len(there.path) > depth
                           /\ SubSeq(there.path, 1, depth) = root.path
                 rest == IF inside THEN SubSeq(there.path, depth + 1, Len(there.path))
                         ELSE <<>>
      <3>a. /\ step = "canonicalize artifact" /\ step' = "check root again"
            /\ walk' = [dir |-> root.dir, rest |-> rest]
            /\ named' = named \cup LedTo(child, root.path \o walk'.rest)
            /\ UNCHANGED <<root, expected, source, report, beneath, held>>
            /\ UNCHANGED <<Environment, request, consumer>>
        BY <1>5, <2>2, Zenon DEF CanonicalizeArtifact
      <3> HIDE DEF there, rest
      <3>1. /\ step = "canonicalize artifact" /\ step' = "check root again"
            /\ walk'.dir = root.dir
            /\ named' = named \cup LedTo(child, root.path \o walk'.rest)
            /\ UNCHANGED <<root, expected, source, report, beneath, held>>
            /\ UNCHANGED <<Environment, request, consumer>>
        BY <3>a
      <3> QED
        BY <3>1
           DEF Types, Recorded, Closed, FilesOf, BelowRoot, BeforeRoot, Looked, Sought,
               CanonicalPath, Verdicts, Hashed, Accepted, HashCoversTheRows, Environment
    <2> QED
      BY <2>1, <2>2
  <1>6. CASE StatArtifact
    <2> DEFINE there == Resolve(CanonicalPath)
    <2>1. CASE ~(walk.rest # <<>> /\ there.ok /\ there.inode \in Files)
      BY <1>6, <2>1, RefusalKeeps, RefusalKinds DEF StatArtifact
    <2>2. CASE walk.rest # <<>> /\ there.ok /\ there.inode \in Files
      <3>0. there.inode \in LedTo(child, CanonicalPath)
        BY <2>2 DEF LedTo, Resolve
      <3>a. /\ step = "stat artifact" /\ step' = "open component"
            /\ expected' = [file |-> there.inode, len |-> Len(data[there.inode])]
            /\ UNCHANGED <<root, walk, source, report>>
            /\ Forget /\ UNCHANGED <<Environment, request, consumer>>
        BY <1>6, <2>2, Zenon DEF StatArtifact
      <3> HIDE DEF there
      <3>1. /\ step = "stat artifact" /\ step' = "open component"
            /\ expected'.file = there.inode
            /\ UNCHANGED <<root, walk, source, report>>
            /\ Forget /\ UNCHANGED <<Environment, request, consumer>>
        BY <3>a
      <3>2. expected'.file \in named
        BY <3>0, <3>1 DEF Looked, Sought
      <3> QED
        BY <3>1, <3>2
           DEF Types, Recorded, Closed, FilesOf, BelowRoot, BeforeRoot, Looked, Sought,
               Verdicts, Hashed, Accepted, HashCoversTheRows, Forget, Environment
    <2> QED
      BY <2>1, <2>2
  <1> QED
    BY <1>1, <1>3, <1>4, <1>5, <1>6

(* open_unix_artifact_beneath: each openat goes one entry down from a       *)
(* directory below the root, so it stays below it.                          *)
LEMMA OpenComponentKeeps == IInv /\ OpenComponent => IInv'
  <1> SUFFICES ASSUME IInv, OpenComponent PROVE IInv'
    OBVIOUS
  <1> USE DEF IInv
  <1> DEFINE found == openat(Head(walk.rest))
             final == Len(walk.rest) = 1
  <1>0. /\ step = "open component"
        /\ Forget /\ UNCHANGED <<Environment, request, consumer>>
    BY DEF OpenComponent
  <1>1. CASE Refuse(MissingArtifact) \/ Refuse(UnsafeManifestPath)
    BY <1>0, <1>1, RefusalKeeps, RefusalKinds
  <1>2. ASSUME found \in Dirs \cup Files
        PROVE  \E s \in Slots : s[1] \in beneath /\ child[s] = found
    <2>1. found \in Inodes
      BY <1>2 DEF Inodes
    <2>2. <<walk.dir, Head(walk.rest)>> \in Slots
          /\ child[<<walk.dir, Head(walk.rest)>>] = found
      BY <2>1, FoundIsEntry DEF openat
    <2>3. walk.dir \in beneath
      BY <1>0 DEF BelowRoot
    <2> QED
      BY <2>2, <2>3
  <1>3. CASE /\ found \in Dirs
             /\ walk' = [rest |-> Tail(walk.rest), dir |-> found]
             /\ UNCHANGED <<step, root, expected, source, report>>
    <2>1. found \in beneath
      BY <1>2, <1>3 DEF Recorded, Closed
    <2> HIDE DEF found
    <2> QED
      BY <1>0, <1>3, <2>1
         DEF Types, Recorded, Closed, FilesOf, BelowRoot, BeforeRoot, Looked, Sought,
             Verdicts, Hashed, Accepted, HashCoversTheRows, Forget, Environment
  <1>4. CASE /\ found \in Files
             /\ source' = [file |-> found, len |-> Len(data[found])]
             /\ step' = "compare"
             /\ UNCHANGED <<root, walk, expected, report>>
    <2>1. found \in held
      BY <1>2, <1>4 DEF Recorded, FilesOf
    <2> HIDE DEF found
    <2>2. Len(data[found]) \in Nat
      BY <1>4, LenProperties DEF Types
    <2>3. source' \in [file : Files \cup {None}, len : Nat]
      BY <1>4, <2>2
    <2>4. Types' /\ Recorded'
      BY <1>0, <1>4, <2>3 DEF Types, Recorded, Closed, FilesOf, Forget, Environment
    <2>5. BelowRoot' /\ Looked' /\ Verdicts' /\ Hashed' /\ Accepted' /\ HashCoversTheRows'
      BY <1>0, <1>4, <2>1
         DEF BelowRoot, BeforeRoot, Looked, Sought, Verdicts, Hashed, Accepted,
             HashCoversTheRows, Forget, Environment
    <2> QED
      BY <2>4, <2>5
  <1> QED
    BY <1>1, <1>3, <1>4 DEF OpenComponent

(* The comparison joins the two halves: the opened file, which is below the *)
(* root, is the one whose metadata the path showed.                         *)
LEMMA CompareKeeps == IInv /\ Compare => IInv'
  <1> SUFFICES ASSUME IInv, Compare PROVE IInv'
    OBVIOUS
  <1> USE DEF IInv
  <1>1. /\ step = "compare"
        /\ source' = [source EXCEPT !.len = Len(data[source.file])]
        /\ Forget /\ UNCHANGED <<Environment, request, consumer, root, walk, expected>>
    BY DEF Compare
  <1>2. source.file \in held \cap Files /\ expected.file \in named
    BY <1>1 DEF Looked
  <1>3. Len(data[source.file]) \in Nat
    BY <1>2, LenProperties DEF Types
  <1>4. /\ source' \in [file : Files \cup {None}, len : Nat]
        /\ source'.file = source.file
    BY <1>1, <1>3 DEF Types
  <1>5. report.checksum = FALSE /\ report.result = "none"
    BY <1>1 DEF Verdicts, Types
  <1>6. CASE /\ step' = "done"
             /\ report' = [NoReport EXCEPT !.result = UnsafeManifestPath]
    <2>1. report' = [result |-> UnsafeManifestPath, checksum |-> FALSE, rows |-> <<>>]
      BY <1>6 DEF NoReport
    <2>2. report' \in [result : Refusals \cup {"none", "ok"}, checksum : BOOLEAN,
                       rows : Seq(Nat)]
      BY <2>1, RefusalKinds
    <2>3. Types' /\ Recorded'
      BY <1>1, <1>4, <2>2 DEF Types, Recorded, Closed, FilesOf, Forget, Environment
    <2>4. BelowRoot' /\ Looked' /\ Verdicts' /\ Hashed' /\ Accepted' /\ HashCoversTheRows'
      BY <1>6, <2>1, RefusalKinds
         DEF Refusals, BelowRoot, BeforeRoot, Looked, Sought, Verdicts, Hashed, Accepted,
             HashCoversTheRows
    <2> QED
      BY <2>3, <2>4
  <1>7. CASE SameFile /\ step' \in {"hash", "scan"} /\ UNCHANGED report
    <2>1. source.file \in named
      BY <1>2, <1>7 DEF SameFile
    <2>2. Types' /\ Recorded'
      BY <1>1, <1>4, <1>7 DEF Types, Recorded, Closed, FilesOf, Forget, Environment
    <2>3. BelowRoot' /\ Looked' /\ Verdicts' /\ Hashed' /\ Accepted' /\ HashCoversTheRows'
      BY <1>1, <1>2, <1>4, <1>5, <1>7, <2>1
         DEF BelowRoot, BeforeRoot, Looked, Sought, Verdicts, Hashed, Accepted,
             HashCoversTheRows, Forget, Environment
    <2> QED
      BY <2>2, <2>3
  <1> QED
    BY <1>6, <1>7 DEF Compare

-----------------------------------------------------------------------------
(* Both reads go through the handle that was accepted.                      *)
LEMMA ReadsKeep ==
    ASSUME IInv, VerifyHashes \/ ScanRows
    PROVE  IInv'
  <1> USE DEF IInv
  <1>0. Forget /\ UNCHANGED <<Environment, request, consumer>>
    BY DEF VerifyHashes, ScanRows
  <1>1. CASE Refuse("Io") \/ Refuse("ChecksumMismatch")
    BY <1>0, <1>1, RefusalKeeps DEF Refusals
  <1>2. CASE /\ step = "hash" /\ step' = "scan"
             /\ HashedBytes = request.hash
             /\ report' = [report EXCEPT !.checksum = TRUE]
             /\ UNCHANGED <<root, walk, expected, source>>
    <2>1. /\ report' \in [result : Refusals \cup {"none", "ok"}, checksum : BOOLEAN,
                          rows : Seq(Nat)]
          /\ report'.result = "none"
      BY <1>2 DEF Types, Verdicts
    <2>2. Types' /\ Recorded'
      BY <1>0, <1>2, <2>1 DEF Types, Recorded, Closed, FilesOf, Forget, Environment
    <2>3. BelowRoot' /\ Looked' /\ Verdicts' /\ Accepted' /\ HashCoversTheRows'
      BY <1>0, <1>2, <2>1
         DEF BelowRoot, BeforeRoot, Looked, Sought, Verdicts, Accepted,
             HashCoversTheRows, Forget, Environment
    <2>4. Hashed'
      BY <1>0, <1>2 DEF Hashed, HashedBytes, Bytes, Environment
    <2> QED
      BY <2>2, <2>3, <2>4
  <1>3. CASE /\ step = "scan" /\ step' = "done"
             /\ Complete(source.file, source.len)
             /\ report' = [report EXCEPT !.result = "ok",
                                         !.rows = Bytes(source.file, source.len)]
             /\ UNCHANGED <<root, walk, expected, source>>
    <2>1. source.file \in held \cap named \cap Files
      BY <1>3 DEF Accepted
    <2>2. /\ Bytes(source.file, source.len) \in Seq(Nat)
          /\ Len(Bytes(source.file, source.len)) = source.len
      BY <1>3, <2>1, BytesHaveLength DEF Types, Bytes, Complete
    <2>3. report' \in [result : Refusals \cup {"none", "ok"}, checksum : BOOLEAN,
                       rows : Seq(Nat)]
      BY <1>3, <2>2 DEF Types
    <2>4. /\ report'.rows = Bytes(source.file, source.len)
          /\ report'.checksum = report.checksum
      BY <1>3 DEF Types
    <2>5. Types' /\ Recorded'
      BY <1>0, <1>3, <2>3 DEF Types, Recorded, Closed, FilesOf, Forget, Environment
    <2>6. BelowRoot' /\ Looked' /\ Verdicts' /\ Hashed' /\ Accepted'
      BY <1>0, <1>3, <2>1
         DEF BelowRoot, BeforeRoot, Looked, Sought, Verdicts, Hashed, Accepted, Forget
    <2>7. report.checksum /\ source.file \notin touched =>
             Bytes(source.file, source.len) = request.hash
      BY <1>3 DEF Hashed
    <2>8. HashCoversTheRows'
      BY <1>0, <1>3, <2>2, <2>4, <2>7 DEF HashCoversTheRows, Environment
    <2> QED
      BY <2>5, <2>6, <2>8
  <1> QED
    BY <1>1, <1>2, <1>3 DEF VerifyHashes, ScanRows

-----------------------------------------------------------------------------
(* A change of the tree enters the history; the caller's handles do not     *)
(* move with it.                                                            *)
LEMMA TreeChangesKeep ==
    ASSUME IInv, child' \in Entries, Remember(child'), CallerWaits, step # "done",
           UNCHANGED <<data, touched>>
    PROVE  IInv'
  <1> USE DEF IInv
  <1>1. /\ beneath' = Beneath(child', beneath)
        /\ held' = held \cup FilesOf(child', beneath')
        /\ named' = named \cup Sought(child')
    BY DEF Remember
  <1>2. UNCHANGED <<step, root, request, consumer, walk, expected, source, report>>
    BY DEF CallerWaits
  <1>3. /\ beneath \subseteq beneath' /\ beneath' \subseteq Dirs
        /\ Closed(child', beneath')
    BY <1>1, BeneathIsClosed DEF Types
  <1>4. Types'
    BY <1>2, <1>3 DEF Types
  <1>5. Recorded'
    BY <1>1, <1>3 DEF Recorded
  <1>6. BelowRoot'
    BY <1>2, <1>3 DEF BelowRoot
  <1>7. Looked' /\ Accepted'
    <2>1. Sought(child)' = Sought(child')
      BY <1>2 DEF Sought, ArtifactPath, CanonicalPath
    <2> QED
      BY <1>1, <1>2, <2>1 DEF Looked, Accepted
  <1>8. Verdicts' /\ Hashed' /\ HashCoversTheRows'
    BY <1>2 DEF Verdicts, Hashed, HashCoversTheRows, Bytes
  <1> QED
    BY <1>4, <1>5, <1>6, <1>7, <1>8

(* A rewrite of the file behind the handle is what the property excepts.    *)
LEMMA RewriteKeeps == IInv /\ Rewrite => IInv'
  <1> SUFFICES ASSUME IInv, Rewrite PROVE IInv'
    OBVIOUS
  <1> USE DEF IInv
  <1>1. PICK f \in Files :
          /\ data[f] # <<>>
          /\ data' \in {[data EXCEPT ![f] = Append(@, 0)],
                        [data EXCEPT ![f] = SubSeq(@, 1, Len(@) - 1)],
                        [data EXCEPT ![f][1] = 0]}
          /\ touched' = IF source.file = f THEN touched \cup {f} ELSE touched
    BY DEF Rewrite
  <1>2. /\ UNCHANGED <<step, root, request, consumer, walk, expected, source, report>>
        /\ UNCHANGED <<child, beneath, held, named>> /\ step # "done"
    BY DEF Rewrite, CallerWaits, Forget, ChangesLeft
  <1>3. data[f] \in Seq(Nat)
    BY DEF Types
  <1>4. PICK bytes \in Seq(Nat) : data' = [data EXCEPT ![f] = bytes]
    <2>1. Append(data[f], 0) \in Seq(Nat)
      BY <1>3
    <2>2. SubSeq(data[f], 1, Len(data[f]) - 1) \in Seq(Nat)
      BY <1>3
    <2>3. [data[f] EXCEPT ![1] = 0] \in Seq(Nat)
      BY <1>3, ExceptSeq, EmptySeq, <1>1
    <2> QED
      BY <1>1, <2>1, <2>2, <2>3
  <1>5. Types'
    BY <1>2, <1>4 DEF Types
  <1>6. Recorded' /\ BelowRoot' /\ Looked' /\ Verdicts' /\ Accepted' /\ HashCoversTheRows'
    BY <1>2 DEF Recorded, Closed, FilesOf, BelowRoot, Looked, Sought, ArtifactPath,
                CanonicalPath, Verdicts, Accepted, HashCoversTheRows
  <1>7. Hashed'
    <2> SUFFICES ASSUME step = "scan", report.checksum, source.file \notin touched'
                 PROVE  Bytes(source.file, source.len)' = request.hash
      BY <1>2 DEF Hashed
    <2>1. source.file # f /\ source.file \notin touched
      BY <1>1
    <2>2. data'[source.file] = data[source.file]
      BY <1>4, <2>1 DEF Types, Accepted
    <2>3. Bytes(source.file, source.len) = request.hash
      BY <2>1 DEF Hashed
    <2> QED
      BY <1>2, <2>2, <2>3 DEF Bytes
  <1> QED
    BY <1>5, <1>6, <1>7

-----------------------------------------------------------------------------
(* Every system call of the caller and every change by another process      *)
(* keeps the invariant.                                                     *)
THEOREM NextIInv == IInv /\ [Next]_vars => IInv'
  <1> SUFFICES ASSUME IInv, [Next]_vars PROVE IInv'
    OBVIOUS
  <1>1. CASE New
    BY <1>1, NewKeeps
  <1>2. CASE Open
    BY <1>2, LookupKeeps, OpenComponentKeeps, CompareKeeps DEF Open
  <1>3. CASE VerifyHashes \/ ScanRows
    BY <1>3, ReadsKeep
  <1>4. CASE Rename
    <2>1. child' \in Entries
      <3> PICK s \in Slots, i \in Inodes \ {Top} :
            child' = [e \in Slots |-> IF e = s THEN i
                                      ELSE IF child[e] = i THEN None ELSE child[e]]
        BY <1>4 DEF Rename
      <3> QED
        BY DEF IInv, Types, Entries
    <2> QED
      BY <1>4, <2>1, TreeChangesKeep DEF Rename, ChangesLeft
  <1>5. CASE Unlink
    <2>1. child' \in Entries
      BY <1>5 DEF Unlink, IInv, Types, Entries
    <2> QED
      BY <1>5, <2>1, TreeChangesKeep DEF Unlink, ChangesLeft
  <1>6. CASE Rewrite
    BY <1>6, RewriteKeeps
  <1>7. CASE UNCHANGED vars
    BY <1>7 DEF vars, IInv, Types, Recorded, Closed, FilesOf, BelowRoot, Looked, Sought,
                ArtifactPath, CanonicalPath, Verdicts, Hashed, Bytes, Accepted,
                HashCoversTheRows
  <1> QED
    BY <1>1, <1>2, <1>3, <1>4, <1>5, <1>6, <1>7 DEF Next

(* The invariant of the resolver and its readers, on any tree, under any    *)
(* number of changes by other processes.                                    *)
THEOREM BindingInvariant == Spec => []IInv
  BY InitIInv, NextIInv, PTL DEF Spec

(* Whatever is renamed, linked, removed or replaced between the system      *)
(* calls of open_artifact_inner, an accepted artifact lay in a directory    *)
(* below the bound root, and the path led to it during the call.            *)
THEOREM BindingAcceptsBeneathRoot == Spec => []AcceptedLayBeneathRoot
  <1>1. IInv => AcceptedLayBeneathRoot
    BY DEF IInv, Accepted, AcceptedLayBeneathRoot
  <1> QED
    BY <1>1, BindingInvariant, PTL

(* The rows read after a verified hash are the rows it was declared for,    *)
(* unless that very file was rewritten in place.                            *)
THEOREM BindingHashCoversTheRows == Spec => []HashCoversTheRows
  <1>1. IInv => HashCoversTheRows
    BY DEF IInv
  <1> QED
    BY <1>1, BindingInvariant, PTL

-----------------------------------------------------------------------------
(* ---- The native library -------------------------------------------------- *)

(* What a frame may hold.                                                   *)
AllOutputs == UNION {OutputsOf(Operations[name]) : name \in DOMAIN Operations}
AllArguments == UNION {ArgumentsOf(Operations[name]) : name \in DOMAIN Operations}
Results == {"none", "ok", "argument", "native", "conversion", "incompatible"}
OutputMaps == UNION {[S -> OutputStates] : S \in SUBSET AllOutputs}
Frames == [op : DOMAIN Operations \cup {"idle"}, pc : Nat, out : OutputMaps,
           guards : SUBSET AllOutputs, failed : Nat, saved : Nat, bad : BOOLEAN,
           passed : SUBSET AllArguments, edited : BOOLEAN, result : Results, of : Nat]

FramesOK == frame \in [Threads -> Frames]

\* Two frames that differ in nothing but the field named.
SameBut(g, f, field) ==
    /\ g.op = f.op
    /\ field # "pc" => g.pc = f.pc
    /\ field # "out" => g.out = f.out
    /\ field # "guards" => g.guards = f.guards
    /\ field # "failed" => g.failed = f.failed
    /\ field # "saved" => g.saved = f.saved
    /\ field # "bad" => (g.bad <=> f.bad)
    /\ field # "passed" => g.passed = f.passed
    /\ field # "edited" => (g.edited <=> f.edited)
    /\ field # "result" => g.result = f.result
    /\ field # "of" => g.of = f.of

Others(t) == \A u \in Threads : u # t => frame'[u] = frame[u]

\* The next step of a frame.
LEMMA Advanced ==
    ASSUME FramesOK, NEW t \in Threads, NEW f \in Frames, Advances(t, f)
    PROVE  FramesOK' /\ Others(t) /\ SameBut(frame'[t], f, "pc") /\ frame'[t].pc = f.pc + 1
<1>1. PICK n \in Nat : n = f.pc + 1
  BY DEF Frames
<1>2. PICK g \in Frames : g = [f EXCEPT !.pc = n]
  BY <1>1 DEF Frames
<1>3. SameBut(g, f, "pc") /\ g.pc = n
  <2>1. g.pc = n /\ g.op = f.op /\ g.out = f.out /\ g.guards = f.guards /\ g.failed = f.failed
        /\ g.saved = f.saved /\ g.passed = f.passed /\ g.result = f.result /\ g.of = f.of
    BY <1>2 DEF Frames
  <2>2. g.bad = f.bad /\ g.edited = f.edited
    BY <1>2 DEF Frames
  <2> QED
    BY <2>1, <2>2 DEF SameBut
<1>4. frame' = [frame EXCEPT ![t] = g]
  BY <1>1, <1>2 DEF Advances
<1>5. frame'[t] = g /\ FramesOK' /\ Others(t)
  BY <1>2, <1>4 DEF FramesOK, Others
<1> QED
  BY <1>1, <1>3, <1>5

\* Outputs put into a state.
LEMMA OutputsPut ==
    ASSUME NEW f \in Frames, NEW outs, NEW state \in OutputStates
    PROVE  /\ WithOutputs(f, outs, state) \in Frames
           /\ SameBut(WithOutputs(f, outs, state), f, "out")
           /\ DOMAIN WithOutputs(f, outs, state).out = DOMAIN f.out
           /\ \A o \in DOMAIN f.out :
                 WithOutputs(f, outs, state).out[o] = IF o \in outs THEN state ELSE f.out[o]
<1> DEFINE m == [o \in DOMAIN f.out |-> IF o \in outs THEN state ELSE f.out[o]]
<1>1. PICK S \in SUBSET AllOutputs : f.out \in [S -> OutputStates]
  BY DEF Frames, OutputMaps
<1>2. m \in OutputMaps
  BY <1>1 DEF OutputMaps
<1>3. DOMAIN m = DOMAIN f.out /\ \A o \in DOMAIN f.out : m[o] = IF o \in outs THEN state ELSE f.out[o]
  OBVIOUS
<1> HIDE DEF m
<1>4. PICK g \in Frames : g = [f EXCEPT !.out = m]
  BY <1>2 DEF Frames
<1>5. g.out = m /\ SameBut(g, f, "out")
  <2>1. g.pc = f.pc /\ g.op = f.op /\ g.out = m /\ g.guards = f.guards /\ g.failed = f.failed
        /\ g.saved = f.saved /\ g.passed = f.passed /\ g.result = f.result /\ g.of = f.of
    BY <1>4 DEF Frames
  <2>2. g.bad = f.bad /\ g.edited = f.edited
    BY <1>4 DEF Frames
  <2> QED
    BY <2>1, <2>2 DEF SameBut
<1>6. g = WithOutputs(f, outs, state)
  BY <1>4 DEF WithOutputs, m
<1> QED
  BY <1>3, <1>5, <1>6

\* A return.
LEMMA Returned ==
    ASSUME FramesOK, NEW t \in Threads, NEW result \in Results, NEW of \in Nat,
           Returns(t, frame[t], result, of)
    PROVE  /\ FramesOK' /\ Others(t)
           /\ frame'[t].op = frame[t].op /\ frame'[t].pc = frame[t].pc
           /\ frame'[t].out = DropGuards(frame[t])
           /\ frame'[t].failed = frame[t].failed
           /\ frame'[t].edited <=> frame[t].edited
           /\ frame'[t].result = result /\ frame'[t].of = of
<1>1. PICK f \in Frames : f = frame[t]
  BY DEF FramesOK
<1>2. PICK S \in SUBSET AllOutputs : f.out \in [S -> OutputStates]
  BY <1>1 DEF Frames, OutputMaps
<1>3. DropGuards(f) \in OutputMaps
  BY <1>2 DEF OutputMaps, DropGuards, OutputStates
<1>4. PICK m \in OutputMaps : m = DropGuards(f)
  BY <1>3
<1>5. PICK g \in Frames : g = [f EXCEPT !.out = m, !.guards = {}, !.result = result, !.of = of]
  BY <1>4 DEF Frames
<1>6. g.op = f.op /\ g.pc = f.pc /\ g.out = m /\ g.failed = f.failed /\ g.result = result /\ g.of = of
  BY <1>5 DEF Frames
<1>7. g.edited = f.edited
  BY <1>5 DEF Frames
<1>8. frame' = [frame EXCEPT ![t] = g]
  BY <1>1, <1>4, <1>5 DEF Returns
<1>9. frame'[t] = g /\ FramesOK' /\ Others(t)
  BY <1>8 DEF FramesOK, Others
<1> QED
  BY <1>1, <1>4, <1>6, <1>7, <1>9

-----------------------------------------------------------------------------
\* What the step at hand does to an output.
Touched(t, o) == o \in StepAt(t).outs
OutputMoves(t, o) ==
    LET now == frame[t].out[o]
        new == frame'[t].out[o]
        do == StepAt(t).do
    IN  /\ ~Touched(t, o) \/ do \notin {"hold", "slot", "call", "edit", "free_on_error", "free", "give"}
              => new = now
        /\ Touched(t, o) =>
              /\ do \in {"hold", "slot"} => new = "empty"
              /\ do \in {"call", "edit"} =>
                    IF frame'[t].failed = 0 THEN new = "full" ELSE new \in {"partial", now}
              /\ do = "free_on_error" => new = IF frame[t].failed = 0 THEN now ELSE "freed"
              /\ do = "free" => new = "freed"
              /\ do = "give" => new = "given"

\* A step that goes on in the function.
Moves(t) ==
    LET do == StepAt(t).do
    IN  /\ Running(t) /\ ~Ended(t)
        /\ frame'[t].result = "none"
        /\ \/ frame'[t].pc = frame[t].pc + 1
           \/ do = "maybe" /\ frame'[t].pc = Landing(Script(t), frame[t].pc)
        /\ do = "check" => frame'[t].passed = frame[t].passed \cup {StepAt(t).what}
        /\ do # "check" => frame'[t].passed = frame[t].passed
        /\ do # "edit" => (frame'[t].edited <=> frame[t].edited)
        /\ do \in {"call", "edit"} =>
              \/ frame'[t].failed = 0 /\ lastError' = lastError
              \/ frame'[t].failed = frame[t].pc /\ lastError'[t] = frame[t].pc
        /\ do \notin {"call", "edit"} =>
              frame'[t].failed = frame[t].failed /\ lastError' = lastError
        /\ frame'[t].saved = IF do = "save" THEN lastError[t] ELSE frame[t].saved
        /\ frame'[t].guards = IF do = "hold" THEN frame[t].guards \cup StepAt(t).outs
                              ELSE frame[t].guards
        /\ DOMAIN frame'[t].out = DOMAIN frame[t].out
        /\ \A o \in DOMAIN frame[t].out : OutputMoves(t, o)
        /\ do = "gate" => gate' = "compatible"
        /\ do \in {"raise", "raise_saved"} => frame[t].failed = 0

\* A step that returns from it.
WaysOut == {"gate", "check", "raise", "raise_saved", "unwrap", "copy_out", "decode"}
Leaves(t) ==
    /\ Running(t)
    /\ frame'[t].result # "none"
    /\ frame'[t].pc = frame[t].pc
    /\ frame'[t].edited <=> frame[t].edited
    /\ frame'[t].failed = frame[t].failed
    /\ frame'[t].out = DropGuards(frame[t])
    /\ lastError' = lastError
    /\ frame'[t].result = "ok" <=> Ended(t)
    /\ ~Ended(t) => /\ StepAt(t).do \in WaysOut
                    /\ StepAt(t).do \in {"raise", "raise_saved"} => frame[t].failed # 0
    /\ frame'[t].result = "argument" =>
          StepAt(t).do = "check" /\ StepAt(t).what \notin frame[t].passed
    /\ frame'[t].result = "incompatible" => gate' = "incompatible"
    /\ frame'[t].result = "native" =>
          \/ StepAt(t).do = "raise" /\ frame'[t].of = lastError[t]
          \/ StepAt(t).do = "raise_saved" /\ frame'[t].of = frame[t].saved

\* What every step of a function keeps.
GateMoves ==
    \/ gate' = gate /\ queries' = queries
    \/ gate = "empty" /\ gate' \in {"compatible", "incompatible"} /\ queries' = queries + 1
Kept(t) ==
    /\ FramesOK' /\ Others(t) /\ GateMoves
    /\ frame'[t].op = frame[t].op
    /\ \A u \in Threads : u # t => lastError'[u] = lastError[u]
    /\ lastError' \in [Threads -> Nat]
    /\ UNCHANGED <<abi, handle>>

StepTypes == FramesOK /\ lastError \in [Threads -> Nat]

\* A step that only goes on, without an effect on what it does not name.
LEMMA PlainMove ==
    ASSUME StepTypes, NEW t \in Threads, Running(t), ~Ended(t), Advances(t, frame[t]),
           StepAt(t).do \in {"raise", "raise_saved", "unwrap", "copy_out", "copy_later", "decode",
                             "copy_on_error", "free_on_error", "gate"},
           StepAt(t).do \in {"raise", "raise_saved", "free_on_error"} => frame[t].failed = 0,
           StepAt(t).do = "gate" => gate' = "compatible",
           UNCHANGED <<abi, lastError, handle>>, GateMoves
    PROVE  Moves(t) /\ Kept(t)
<1>1. PICK f \in Frames : f = frame[t]
  BY DEF StepTypes, FramesOK
<1>2. FramesOK' /\ Others(t) /\ SameBut(frame'[t], f, "pc") /\ frame'[t].pc = f.pc + 1
  BY <1>1, Advanced DEF StepTypes
<1>3. \A o \in DOMAIN f.out : OutputMoves(t, o)
  BY <1>1, <1>2 DEF OutputMoves, SameBut
<1>4. Moves(t)
  BY <1>1, <1>2, <1>3 DEF Moves, SameBut, Running
<1>5. Kept(t)
  BY <1>1, <1>2 DEF Kept, StepTypes, SameBut
<1> QED
  BY <1>4, <1>5

\* The gate.
LEMMA PassGateShape ==
    ASSUME StepTypes, gate \in {"empty", "compatible", "incompatible"}, queries \in Nat,
           NEW t \in Threads, PassGate(t)
    PROVE  (Moves(t) \/ Leaves(t)) /\ Kept(t)
<1>1. Running(t) /\ ~Ended(t) /\ StepAt(t).do = "gate"
  BY DEF PassGate, Doing
<1>2. UNCHANGED <<abi, lastError, handle>>
  BY DEF PassGate
<1>3. GateMoves
  <2>1. CASE gate = "empty"
    BY <2>1 DEF PassGate, GateMoves
  <2>2. CASE gate # "empty"
    BY <2>2 DEF PassGate, GateMoves
  <2> QED
    BY <2>1, <2>2
<1>4. CASE gate' = "compatible" /\ Advances(t, frame[t])
  BY <1>1, <1>2, <1>3, <1>4, PlainMove
<1>5. CASE gate' = "incompatible" /\ Returns(t, frame[t], "incompatible", 0)
  <2>1. "incompatible" \in Results /\ 0 \in Nat
    BY DEF Results
  <2>2. /\ FramesOK' /\ Others(t)
        /\ frame'[t].op = frame[t].op /\ frame'[t].pc = frame[t].pc
        /\ frame'[t].out = DropGuards(frame[t])
        /\ frame'[t].failed = frame[t].failed
        /\ frame'[t].edited <=> frame[t].edited
        /\ frame'[t].result = "incompatible" /\ frame'[t].of = 0
    BY <1>5, <2>1, Returned DEF StepTypes
  <2> QED
    BY <1>1, <1>2, <1>3, <1>5, <2>2 DEF Leaves, Kept, StepTypes, WaysOut
<1>6. gate' \in {"compatible", "incompatible"}
  BY DEF PassGate
<1>7. IF gate' = "compatible" THEN Advances(t, frame[t])
      ELSE Returns(t, frame[t], "incompatible", 0)
  BY Zenon DEF PassGate
<1> QED
  BY <1>4, <1>5, <1>6, <1>7

\* A return on the way, other than at the gate.
LEMMA PlainLeave ==
    ASSUME StepTypes, NEW t \in Threads, Running(t), ~Ended(t), StepAt(t).do \in WaysOut \ {"gate"},
           NEW result \in Results \ {"none", "ok", "incompatible"}, NEW of \in Nat,
           Returns(t, frame[t], result, of),
           StepAt(t).do \in {"raise", "raise_saved"} => frame[t].failed # 0,
           result = "argument" => StepAt(t).do = "check" /\ StepAt(t).what \notin frame[t].passed,
           result = "native" => \/ StepAt(t).do = "raise" /\ of = lastError[t]
                                \/ StepAt(t).do = "raise_saved" /\ of = frame[t].saved,
           UNCHANGED <<abi, gate, queries, lastError, handle>>
    PROVE  Leaves(t) /\ Kept(t)
<1>1. result \in Results
  OBVIOUS
<1>2. /\ FramesOK' /\ Others(t)
      /\ frame'[t].op = frame[t].op /\ frame'[t].pc = frame[t].pc
      /\ frame'[t].out = DropGuards(frame[t])
      /\ frame'[t].failed = frame[t].failed
      /\ frame'[t].edited <=> frame[t].edited
      /\ frame'[t].result = result /\ frame'[t].of = of
  BY <1>1, Returned DEF StepTypes
<1>3. Leaves(t)
  BY <1>2 DEF Leaves
<1>4. Kept(t)
  BY <1>2 DEF Kept, StepTypes, GateMoves
<1> QED
  BY <1>3, <1>4

\* A check of an argument.
LEMMA CheckShape ==
    ASSUME StepTypes, NEW t \in Threads, frame[t].op \in DOMAIN Operations, frame[t].pc \in Nat \ {0},
           CheckArgument(t)
    PROVE  (Moves(t) \/ Leaves(t)) /\ Kept(t)
<1>1. Running(t) /\ ~Ended(t) /\ StepAt(t).do = "check"
  BY DEF CheckArgument, Doing
<1>2. UNCHANGED <<abi, gate, queries, lastError, handle>>
  BY DEF CheckArgument
<1>3. PICK f \in Frames : f = frame[t]
  BY DEF StepTypes, FramesOK
<1>4. CASE Advances(t, [frame[t] EXCEPT !.passed = @ \cup {StepAt(t).what}])
  <2>1. StepAt(t).what \in AllArguments
    <3>1. WellWritten(Script(t))
      BY NativeCallAssumption DEF Script
    <3>2. DOMAIN Script(t) = 1 .. Len(Script(t)) /\ Len(Script(t)) \in Nat
      BY <3>1, LenProperties DEF WellWritten
    <3>3. frame[t].pc \in DOMAIN Script(t)
      BY <1>1, <3>2 DEF Ended
    <3>4. StepAt(t).what \in ArgumentsOf(Script(t))
      BY <1>1, <3>3 DEF ArgumentsOf, Steps, StepAt
    <3> QED
      BY <3>4 DEF AllArguments, Script
  <2>2. PICK p \in SUBSET AllArguments : p = f.passed \cup {StepAt(t).what}
    BY <2>1 DEF Frames
  <2>3. PICK g \in Frames : g = [f EXCEPT !.passed = p]
    BY DEF Frames
  <2>4. g.passed = p /\ SameBut(g, f, "passed")
    <3>1. g.pc = f.pc /\ g.op = f.op /\ g.out = f.out /\ g.guards = f.guards /\ g.failed = f.failed
          /\ g.saved = f.saved /\ g.passed = p /\ g.result = f.result /\ g.of = f.of
      BY <2>3 DEF Frames
    <3>2. g.bad = f.bad /\ g.edited = f.edited
      BY <2>3 DEF Frames
    <3> QED
      BY <3>1, <3>2 DEF SameBut
  <2>5. FramesOK' /\ Others(t) /\ SameBut(frame'[t], g, "pc") /\ frame'[t].pc = g.pc + 1
    <3>1. Advances(t, g)
      BY <1>3, <1>4, <2>2, <2>3
    <3> QED
      BY <3>1, Advanced DEF StepTypes
  <2>6. \A o \in DOMAIN f.out : OutputMoves(t, o)
    BY <1>1, <1>3, <2>4, <2>5 DEF OutputMoves, SameBut
  <2>7. Moves(t)
    BY <1>1, <1>2, <1>3, <2>2, <2>4, <2>5, <2>6 DEF Moves, SameBut, Running
  <2> QED
    BY <1>2, <1>3, <2>4, <2>5, <2>7 DEF Kept, StepTypes, SameBut, GateMoves
<1>5. CASE StepAt(t).what \notin frame[t].passed /\ Returns(t, frame[t], "argument", 0)
  <2>1. "argument" \in Results \ {"none", "ok", "incompatible"} /\ 0 \in Nat
    BY DEF Results
  <2>2. StepAt(t).do \in WaysOut \ {"gate"}
    BY <1>1 DEF WaysOut
  <2> QED
    BY <1>1, <1>2, <1>5, <2>1, <2>2, PlainLeave
<1> QED
  BY <1>4, <1>5 DEF CheckArgument

\* A step that puts outputs into a state, and perhaps under a guard.
LEMMA PutMove ==
    ASSUME StepTypes, NEW t \in Threads, Running(t), ~Ended(t), NEW state \in OutputStates,
           NEW h \in Frames, NEW f \in Frames, f = frame[t],
           SameBut(h, WithOutputs(f, StepAt(t).outs, state), "guards"),
           h.guards = IF StepAt(t).do = "hold" THEN f.guards \cup StepAt(t).outs ELSE f.guards,
           Advances(t, h),
           \/ StepAt(t).do \in {"hold", "slot"} /\ state = "empty"
           \/ StepAt(t).do = "free_on_error" /\ f.failed # 0 /\ state = "freed"
           \/ StepAt(t).do = "free" /\ state = "freed"
           \/ StepAt(t).do = "give" /\ state = "given",
           UNCHANGED <<abi, gate, queries, lastError, handle>>
    PROVE  Moves(t) /\ Kept(t)
<1>1. PICK g \in Frames : g = WithOutputs(f, StepAt(t).outs, state)
  BY OutputsPut
<1>2. /\ SameBut(g, f, "out") /\ DOMAIN g.out = DOMAIN f.out
      /\ \A o \in DOMAIN f.out : g.out[o] = IF o \in StepAt(t).outs THEN state ELSE f.out[o]
  BY <1>1, OutputsPut
<1>3. FramesOK' /\ Others(t) /\ SameBut(frame'[t], h, "pc") /\ frame'[t].pc = h.pc + 1
  BY Advanced DEF StepTypes
<1>4. /\ frame'[t].out = g.out /\ frame'[t].pc = f.pc + 1 /\ frame'[t].failed = f.failed
      /\ frame'[t].guards = h.guards /\ frame'[t].op = f.op /\ frame'[t].saved = f.saved
      /\ frame'[t].passed = f.passed /\ (frame'[t].edited <=> f.edited)
      /\ frame'[t].result = f.result
  BY <1>1, <1>2, <1>3 DEF SameBut
<1>5. \A o \in DOMAIN f.out : OutputMoves(t, o)
  BY <1>2, <1>4 DEF OutputMoves, Touched
<1>6. Moves(t)
  BY <1>2, <1>4, <1>5 DEF Moves, Running
<1>7. Kept(t)
  BY <1>3, <1>4 DEF Kept, StepTypes, GateMoves
<1> QED
  BY <1>6, <1>7

\* Storage for outputs, frees and the return of ownership.
LEMMA PutShape ==
    ASSUME StepTypes, NEW t \in Threads, Running(t), ~Ended(t), NEW state \in OutputStates,
           Advances(t, WithOutputs(frame[t], StepAt(t).outs, state)),
           \/ StepAt(t).do = "slot" /\ state = "empty"
           \/ StepAt(t).do = "free_on_error" /\ frame[t].failed # 0 /\ state = "freed"
           \/ StepAt(t).do = "free" /\ state = "freed"
           \/ StepAt(t).do = "give" /\ state = "given",
           UNCHANGED <<abi, gate, queries, lastError, handle>>
    PROVE  Moves(t) /\ Kept(t)
<1>1. PICK f \in Frames : f = frame[t]
  BY DEF StepTypes, FramesOK
<1>2. PICK h \in Frames : h = WithOutputs(f, StepAt(t).outs, state)
  BY OutputsPut
<1>3. SameBut(h, WithOutputs(f, StepAt(t).outs, state), "guards")
  BY <1>2 DEF SameBut
<1>4. h.guards = f.guards
  BY <1>2, OutputsPut DEF SameBut
<1>5. h.guards = IF StepAt(t).do = "hold" THEN f.guards \cup StepAt(t).outs ELSE f.guards
  BY <1>4
<1>6. Advances(t, h)
  BY <1>1, <1>2
<1> QED
  BY <1>1, <1>3, <1>5, <1>6, PutMove

\* Where a function that runs is in its script.
LEMMA InScript ==
    ASSUME StepTypes, NEW t \in Threads, frame[t].op \in DOMAIN Operations, frame[t].pc \in Nat \ {0}
    PROVE  /\ WellWritten(Script(t)) /\ Len(Script(t)) \in Nat
           /\ DOMAIN Script(t) = 1 .. Len(Script(t))
           /\ OutputsOf(Script(t)) \in SUBSET AllOutputs
           /\ ~Ended(t) => /\ frame[t].pc \in DOMAIN Script(t)
                           /\ StepAt(t).outs \subseteq OutputsOf(Script(t))
<1>1. WellWritten(Script(t))
  BY NativeCallAssumption DEF Script
<1>2. DOMAIN Script(t) = 1 .. Len(Script(t)) /\ Len(Script(t)) \in Nat
  BY <1>1 DEF WellWritten
<1>3. OutputsOf(Script(t)) \in SUBSET AllOutputs
  BY DEF AllOutputs, Script
<1>4. ASSUME ~Ended(t) PROVE frame[t].pc \in DOMAIN Script(t)
  BY <1>2, <1>4 DEF Ended
<1>5. ASSUME ~Ended(t) PROVE StepAt(t).outs \subseteq OutputsOf(Script(t))
  BY <1>4, <1>5 DEF OutputsOf, StepAt
<1> QED
  BY <1>1, <1>2, <1>3, <1>4, <1>5

\* Storage under a guard.
LEMMA HoldShape ==
    ASSUME StepTypes, NEW t \in Threads, frame[t].op \in DOMAIN Operations, frame[t].pc \in Nat \ {0},
           Doing(t, "hold"),
           Advances(t, [WithOutputs(frame[t], StepAt(t).outs, "empty")
                           EXCEPT !.guards = @ \cup StepAt(t).outs]),
           UNCHANGED <<abi, gate, queries, lastError, handle>>
    PROVE  Moves(t) /\ Kept(t)
<1>1. Running(t) /\ ~Ended(t) /\ StepAt(t).do = "hold"
  BY DEF Doing
<1>2. PICK f \in Frames : f = frame[t]
  BY DEF StepTypes, FramesOK
<1>3. "empty" \in OutputStates
  BY DEF OutputStates
<1>4. PICK g \in Frames : g = WithOutputs(f, StepAt(t).outs, "empty")
  BY <1>3, OutputsPut
<1>5. g.guards = f.guards
  BY <1>3, <1>4, OutputsPut DEF SameBut
<1>6. PICK s \in SUBSET AllOutputs : s = g.guards \cup StepAt(t).outs
  BY <1>1, InScript DEF Frames
<1>7. PICK h \in Frames : h = [g EXCEPT !.guards = s]
  BY DEF Frames
<1>8. SameBut(h, g, "guards") /\ h.guards = s
  <2>1. h.pc = g.pc /\ h.op = g.op /\ h.out = g.out /\ h.guards = s /\ h.failed = g.failed
        /\ h.saved = g.saved /\ h.passed = g.passed /\ h.result = g.result /\ h.of = g.of
    BY <1>7 DEF Frames
  <2>2. h.bad = g.bad /\ h.edited = g.edited
    BY <1>7 DEF Frames
  <2> QED
    BY <2>1, <2>2 DEF SameBut
<1>9. Advances(t, h)
  BY <1>2, <1>4, <1>6, <1>7
<1> QED
  BY <1>1, <1>2, <1>3, <1>4, <1>5, <1>6, <1>8, <1>9, PutMove

\* A native function: what it returned, and what it left of its outputs.
LEMMA CallShape ==
    ASSUME StepTypes, NEW t \in Threads, frame[t].op \in DOMAIN Operations, frame[t].pc \in Nat \ {0},
           CallNative(t)
    PROVE  Moves(t) /\ Kept(t)
<1>1. Running(t) /\ ~Ended(t) /\ StepAt(t).do \in {"call", "edit"}
  BY DEF CallNative, Doing
<1>2. UNCHANGED <<abi, gate, queries, handle>>
  BY DEF CallNative
<1>3. PICK f \in Frames : f = frame[t]
  BY DEF StepTypes, FramesOK
<1>4. "full" \in OutputStates /\ "partial" \in OutputStates
  BY DEF OutputStates
<1>5. ASSUME Advances(t, [WithOutputs(frame[t], StepAt(t).outs, "full")
                             EXCEPT !.failed = 0, !.edited = @ \/ StepAt(t).do = "edit"]),
             UNCHANGED lastError
      PROVE  Moves(t) /\ Kept(t)
  <2>1. PICK g \in Frames : g = WithOutputs(f, StepAt(t).outs, "full")
    BY <1>4, OutputsPut
  <2>2. /\ SameBut(g, f, "out") /\ DOMAIN g.out = DOMAIN f.out
        /\ \A o \in DOMAIN f.out : g.out[o] = IF o \in StepAt(t).outs THEN "full" ELSE f.out[o]
    BY <1>4, <2>1, OutputsPut
  <2>3. PICK b \in BOOLEAN : b = (g.edited \/ StepAt(t).do = "edit")
    OBVIOUS
  <2>4. PICK h \in Frames : h = [g EXCEPT !.failed = 0, !.edited = b]
    BY DEF Frames
  <2>5. h.pc = g.pc /\ h.op = g.op /\ h.out = g.out /\ h.guards = g.guards /\ h.failed = 0
        /\ h.saved = g.saved /\ h.passed = g.passed /\ h.result = g.result /\ h.of = g.of
    BY <2>4 DEF Frames
  <2>6. h.edited = b
    BY <2>4 DEF Frames
  <2>7. Advances(t, h)
    <3>1. [g EXCEPT !.failed = 0, !.edited = @ \/ StepAt(t).do = "edit"] = h
      BY <2>3, <2>4, Zenon
    <3> QED
      BY <1>3, <1>5, <2>1, <3>1
  <2>8. FramesOK' /\ Others(t) /\ SameBut(frame'[t], h, "pc") /\ frame'[t].pc = h.pc + 1
    BY <2>7, Advanced DEF StepTypes
  <2>9. /\ frame'[t].out = g.out /\ frame'[t].pc = f.pc + 1 /\ frame'[t].failed = 0
        /\ frame'[t].guards = f.guards /\ frame'[t].op = f.op /\ frame'[t].saved = f.saved
        /\ frame'[t].passed = f.passed /\ frame'[t].result = f.result
    BY <2>2, <2>5, <2>8 DEF SameBut
  <2>10. StepAt(t).do # "edit" => (frame'[t].edited <=> f.edited)
    BY <2>2, <2>3, <2>6, <2>8 DEF SameBut
  <2>11. \A o \in DOMAIN f.out : OutputMoves(t, o)
    BY <1>1, <1>3, <2>2, <2>9 DEF OutputMoves, Touched
  <2>12. Moves(t)
    BY <1>1, <1>3, <1>5, <2>2, <2>9, <2>10, <2>11 DEF Moves, Running
  <2> QED
    BY <1>2, <1>3, <1>5, <2>8, <2>9, <2>12 DEF Kept, StepTypes, GateMoves
<1>6. ASSUME NEW partial \in SUBSET StepAt(t).outs,
             Advances(t, [WithOutputs(frame[t], partial, "partial") EXCEPT !.failed = frame[t].pc]),
             lastError' = [lastError EXCEPT ![t] = frame[t].pc]
      PROVE  Moves(t) /\ Kept(t)
  <2>1. PICK g \in Frames : g = WithOutputs(f, partial, "partial")
    BY <1>4, OutputsPut
  <2>2. /\ SameBut(g, f, "out") /\ DOMAIN g.out = DOMAIN f.out
        /\ \A o \in DOMAIN f.out : g.out[o] = IF o \in partial THEN "partial" ELSE f.out[o]
    BY <1>4, <2>1, OutputsPut
  <2>3. PICK h \in Frames : h = [g EXCEPT !.failed = f.pc]
    BY DEF Frames
  <2>4. h.pc = g.pc /\ h.op = g.op /\ h.out = g.out /\ h.guards = g.guards /\ h.failed = f.pc
        /\ h.saved = g.saved /\ h.passed = g.passed /\ h.result = g.result /\ h.of = g.of
    BY <2>3 DEF Frames
  <2>5. h.edited = g.edited
    BY <2>3 DEF Frames
  <2>6. Advances(t, h)
    BY <1>3, <1>6, <2>1, <2>3
  <2>7. FramesOK' /\ Others(t) /\ SameBut(frame'[t], h, "pc") /\ frame'[t].pc = h.pc + 1
    BY <2>6, Advanced DEF StepTypes
  <2>8. /\ frame'[t].out = g.out /\ frame'[t].pc = f.pc + 1 /\ frame'[t].failed = f.pc
        /\ frame'[t].guards = f.guards /\ frame'[t].op = f.op /\ frame'[t].saved = f.saved
        /\ frame'[t].passed = f.passed /\ frame'[t].result = f.result
        /\ (frame'[t].edited <=> f.edited)
    BY <2>2, <2>4, <2>5, <2>7 DEF SameBut
  <2>9. \A o \in DOMAIN f.out : OutputMoves(t, o)
    BY <1>1, <1>3, <2>2, <2>8 DEF OutputMoves, Touched
  <2>10. /\ lastError'[t] = f.pc /\ lastError' \in [Threads -> Nat]
         /\ \A u \in Threads : u # t => lastError'[u] = lastError[u]
    BY <1>3, <1>6 DEF StepTypes, Frames
  <2>11. Moves(t)
    BY <1>1, <1>3, <2>2, <2>8, <2>9, <2>10 DEF Moves, Running
  <2> QED
    BY <1>2, <1>3, <2>7, <2>8, <2>10, <2>11 DEF Kept, GateMoves
<1> QED
  BY <1>5, <1>6 DEF CallNative

\* The errors a function returns on its way.
LEMMA RaiseShape ==
    ASSUME StepTypes, NEW t \in Threads, RaiseError(t)
    PROVE  Leaves(t) /\ Kept(t)
<1>1. UNCHANGED <<abi, gate, queries, lastError, handle>>
  BY DEF RaiseError
<1>2. lastError[t] \in Nat /\ frame[t].saved \in Nat
  BY DEF StepTypes, FramesOK, Frames
<1>3. {"native", "conversion"} \subseteq Results \ {"none", "ok", "incompatible"}
  BY DEF Results
<1>4. CASE Doing(t, "raise") /\ frame[t].failed # 0 /\ Returns(t, frame[t], "native", lastError[t])
  BY <1>1, <1>2, <1>3, <1>4, PlainLeave DEF Doing, WaysOut
<1>5. CASE /\ Doing(t, "raise_saved") /\ frame[t].failed # 0
           /\ Returns(t, frame[t], "native", frame[t].saved)
  BY <1>1, <1>2, <1>3, <1>5, PlainLeave DEF Doing, WaysOut
<1>6. CASE (Doing(t, "unwrap") \/ Doing(t, "copy_out") \/ Doing(t, "decode"))
           /\ Returns(t, frame[t], "conversion", 0)
  BY <1>1, <1>3, <1>6, PlainLeave DEF Doing, WaysOut
<1> QED
  BY <1>4, <1>5, <1>6 DEF RaiseError

\* A step that sets one field that nothing else looks at.
LEMMA FieldMove ==
    ASSUME StepTypes, NEW t \in Threads, Running(t), ~Ended(t), NEW f \in Frames, f = frame[t],
           NEW h \in Frames,
           \/ StepAt(t).do = "save" /\ SameBut(h, f, "saved") /\ h.saved = lastError[t]
           \/ StepAt(t).do = "copy_later" /\ SameBut(h, f, "bad"),
           Advances(t, h), UNCHANGED <<abi, gate, queries, lastError, handle>>
    PROVE  Moves(t) /\ Kept(t)
<1>1. FramesOK' /\ Others(t) /\ SameBut(frame'[t], h, "pc") /\ frame'[t].pc = h.pc + 1
  BY Advanced DEF StepTypes
<1>2. /\ frame'[t].out = f.out /\ frame'[t].pc = f.pc + 1 /\ frame'[t].failed = f.failed
      /\ frame'[t].guards = f.guards /\ frame'[t].op = f.op
      /\ frame'[t].saved = IF StepAt(t).do = "save" THEN lastError[t] ELSE f.saved
      /\ frame'[t].passed = f.passed /\ frame'[t].result = f.result
      /\ (frame'[t].edited <=> f.edited)
  BY <1>1 DEF SameBut
<1>3. \A o \in DOMAIN f.out : OutputMoves(t, o)
  BY <1>2 DEF OutputMoves
<1>4. Moves(t)
  BY <1>2, <1>3 DEF Moves, Running
<1> QED
  BY <1>1, <1>2, <1>4 DEF Kept, StepTypes, GateMoves

\* The statuses that pass, and what the manual error paths do.
LEMMA PassStatusShape ==
    ASSUME StepTypes, NEW t \in Threads, PassStatus(t)
    PROVE  Moves(t) /\ Kept(t)
<1>1. UNCHANGED <<abi, gate, queries, lastError, handle>>
  BY DEF PassStatus
<1>2. GateMoves
  BY <1>1 DEF GateMoves
<1>3. CASE /\ Doing(t, "raise") \/ Doing(t, "raise_saved") \/ Doing(t, "free_on_error")
           /\ frame[t].failed = 0 /\ Advances(t, frame[t])
  BY <1>1, <1>2, <1>3, PlainMove DEF Doing
<1>4. CASE /\ Doing(t, "free_on_error") /\ frame[t].failed # 0
           /\ Advances(t, WithOutputs(frame[t], StepAt(t).outs, "freed"))
  <2>1. "freed" \in OutputStates
    BY DEF OutputStates
  <2> QED
    BY <1>1, <1>4, <2>1, PutShape DEF Doing
<1>5. CASE Doing(t, "copy_on_error") /\ Advances(t, frame[t])
  BY <1>1, <1>2, <1>5, PlainMove DEF Doing
<1>6. CASE Doing(t, "save") /\ Advances(t, [frame[t] EXCEPT !.saved = lastError[t]])
  <2>1. PICK f \in Frames : f = frame[t]
    BY DEF StepTypes, FramesOK
  <2>2. PICK n \in Nat : n = lastError[t]
    BY DEF StepTypes
  <2>3. PICK h \in Frames : h = [f EXCEPT !.saved = n]
    BY DEF Frames
  <2>4. SameBut(h, f, "saved") /\ h.saved = n
    <3>1. h.pc = f.pc /\ h.op = f.op /\ h.out = f.out /\ h.guards = f.guards /\ h.failed = f.failed
          /\ h.saved = n /\ h.passed = f.passed /\ h.result = f.result /\ h.of = f.of
      BY <2>3 DEF Frames
    <3>2. h.bad = f.bad /\ h.edited = f.edited
      BY <2>3 DEF Frames
    <3> QED
      BY <3>1, <3>2 DEF SameBut
  <2>5. Advances(t, h)
    BY <1>6, <2>1, <2>2, <2>3
  <2> QED
    BY <1>1, <1>6, <2>1, <2>2, <2>4, <2>5, FieldMove DEF Doing
<1>7. CASE Doing(t, "unwrap") /\ Advances(t, frame[t])
  BY <1>1, <1>2, <1>7, PlainMove DEF Doing
<1> QED
  BY <1>3, <1>4, <1>5, <1>6, <1>7 DEF PassStatus

\* The copies.
LEMMA CopyShape ==
    ASSUME StepTypes, NEW t \in Threads, CopyOutputs(t)
    PROVE  Moves(t) /\ Kept(t)
<1>1. UNCHANGED <<abi, gate, queries, lastError, handle>>
  BY DEF CopyOutputs
<1>2. Running(t) /\ ~Ended(t) /\ StepAt(t).do \in {"copy_out", "decode", "copy_later"}
  BY DEF CopyOutputs, Doing
<1>3. CASE Advances(t, frame[t])
  BY <1>1, <1>2, <1>3, PlainMove DEF GateMoves
<1>4. CASE StepAt(t).do = "copy_later" /\ Advances(t, [frame[t] EXCEPT !.bad = TRUE])
  <2>1. PICK f \in Frames : f = frame[t]
    BY DEF StepTypes, FramesOK
  <2>2. PICK h \in Frames : h = [f EXCEPT !.bad = TRUE]
    BY DEF Frames
  <2>3. SameBut(h, f, "bad")
    <3>1. h.pc = f.pc /\ h.op = f.op /\ h.out = f.out /\ h.guards = f.guards /\ h.failed = f.failed
          /\ h.saved = f.saved /\ h.passed = f.passed /\ h.result = f.result /\ h.of = f.of
      BY <2>2 DEF Frames
    <3>2. h.edited = f.edited
      BY <2>2 DEF Frames
    <3> QED
      BY <3>1, <3>2 DEF SameBut
  <2>4. Advances(t, h)
    BY <1>4, <2>1, <2>2
  <2> QED
    BY <1>1, <1>2, <1>4, <2>1, <2>3, <2>4, FieldMove
<1> QED
  BY <1>3, <1>4 DEF CopyOutputs

\* An optional part, taken or skipped.
LEMMA BranchShape ==
    ASSUME StepTypes, NEW t \in Threads, frame[t].op \in DOMAIN Operations, frame[t].pc \in Nat \ {0},
           Branch(t)
    PROVE  Moves(t) /\ Kept(t)
<1>1. UNCHANGED <<abi, gate, queries, lastError, handle>>
  BY DEF Branch
<1>2. Running(t) /\ ~Ended(t) /\ StepAt(t).do = "maybe"
  BY DEF Branch, Doing
<1>3. PICK f \in Frames : f = frame[t]
  BY DEF StepTypes, FramesOK
<1>4. StepAt(t).what \in Nat
  <2>1. WellWritten(Script(t)) /\ f.pc \in DOMAIN Script(t)
    BY <1>2, <1>3, InScript
  <2> QED
    BY <1>2, <1>3, <2>1 DEF WellWritten, Steps, StepAt
<1>5. PICK skipped \in {0, StepAt(t).what} : frame' = [frame EXCEPT ![t].pc = @ + 1 + skipped]
  BY DEF Branch
<1>6. PICK n \in Nat : n = f.pc + 1 + skipped
  BY <1>4 DEF Frames
<1>7. n = f.pc + 1 \/ n = Landing(Script(t), f.pc)
  BY <1>3, <1>4, <1>6 DEF Landing, StepAt, Frames
<1>8. PICK g \in Frames : g = [f EXCEPT !.pc = n]
  BY DEF Frames
<1>9. SameBut(g, f, "pc") /\ g.pc = n
  <2>1. g.pc = n /\ g.op = f.op /\ g.out = f.out /\ g.guards = f.guards /\ g.failed = f.failed
        /\ g.saved = f.saved /\ g.passed = f.passed /\ g.result = f.result /\ g.of = f.of
    BY <1>8 DEF Frames
  <2>2. g.bad = f.bad /\ g.edited = f.edited
    BY <1>8 DEF Frames
  <2> QED
    BY <2>1, <2>2 DEF SameBut
<1>10. frame' = [frame EXCEPT ![t] = g]
  BY <1>3, <1>5, <1>6, <1>8
<1>11. frame'[t] = g /\ FramesOK' /\ Others(t)
  BY <1>10 DEF StepTypes, FramesOK, Others
<1>12. \A o \in DOMAIN f.out : OutputMoves(t, o)
  BY <1>2, <1>3, <1>9, <1>11 DEF OutputMoves, SameBut
<1>13. Moves(t)
  BY <1>1, <1>2, <1>3, <1>7, <1>9, <1>11, <1>12 DEF Moves, Running, SameBut
<1> QED
  BY <1>1, <1>3, <1>9, <1>11, <1>13 DEF Kept, StepTypes, GateMoves, SameBut

\* The end of a function.
LEMMA SucceedShape ==
    ASSUME StepTypes, NEW t \in Threads, Succeed(t)
    PROVE  Leaves(t) /\ Kept(t)
<1>1. Running(t) /\ Ended(t) /\ UNCHANGED <<abi, gate, queries, lastError, handle>>
  BY DEF Succeed
<1>2. "ok" \in Results /\ 0 \in Nat /\ Returns(t, frame[t], "ok", 0)
  BY DEF Results, Succeed
<1>3. /\ FramesOK' /\ Others(t)
      /\ frame'[t].op = frame[t].op /\ frame'[t].pc = frame[t].pc
      /\ frame'[t].out = DropGuards(frame[t])
      /\ frame'[t].failed = frame[t].failed
      /\ frame'[t].edited <=> frame[t].edited
      /\ frame'[t].result = "ok" /\ frame'[t].of = 0
  BY <1>2, Returned DEF StepTypes
<1>4. Leaves(t)
  BY <1>1, <1>3 DEF Leaves
<1> QED
  BY <1>1, <1>3, <1>4 DEF Kept, StepTypes, GateMoves

\* Every step of a function goes on in it or returns from it.
LEMMA StepShape ==
    ASSUME StepTypes, gate \in {"empty", "compatible", "incompatible"}, queries \in Nat,
           NEW t \in Threads, frame[t].op \in DOMAIN Operations, frame[t].pc \in Nat \ {0}, StepOf(t)
    PROVE  (Moves(t) \/ Leaves(t)) /\ Kept(t)
<1>1. CASE PassGate(t)
  BY <1>1, PassGateShape
<1>2. CASE CheckArgument(t)
  BY <1>2, CheckShape
<1>3. CASE Prepare(t)
  <2>1. UNCHANGED <<abi, gate, queries, lastError, handle>>
    BY <1>3 DEF Prepare
  <2>2. "empty" \in OutputStates
    BY DEF OutputStates
  <2>3. CASE Doing(t, "hold")
    <3>1. Advances(t, [WithOutputs(frame[t], StepAt(t).outs, "empty")
                          EXCEPT !.guards = @ \cup StepAt(t).outs])
      BY <1>3, <2>3 DEF Prepare, Doing
    <3> QED
      BY <2>1, <2>3, <3>1, HoldShape
  <2>4. CASE Doing(t, "slot") /\ Advances(t, WithOutputs(frame[t], StepAt(t).outs, "empty"))
    BY <2>1, <2>2, <2>4, PutShape DEF Doing
  <2> QED
    BY <1>3, <2>3, <2>4 DEF Prepare
<1>4. CASE CallNative(t)
  BY <1>4, CallShape
<1>5. CASE RaiseError(t)
  BY <1>5, RaiseShape
<1>6. CASE PassStatus(t)
  BY <1>6, PassStatusShape
<1>7. CASE CopyOutputs(t)
  BY <1>7, CopyShape
<1>8. CASE FreeOutputs(t)
  <2>1. "freed" \in OutputStates
    BY DEF OutputStates
  <2> QED
    BY <1>8, <2>1, PutShape DEF FreeOutputs, Doing
<1>9. CASE GiveOutputs(t)
  <2>1. "given" \in OutputStates
    BY DEF OutputStates
  <2> QED
    BY <1>9, <2>1, PutShape DEF GiveOutputs, Doing
<1>10. CASE Branch(t)
  BY <1>10, BranchShape
<1>11. CASE Succeed(t)
  BY <1>11, SucceedShape
<1> QED
  BY <1>1, <1>2, <1>3, <1>4, <1>5, <1>6, <1>7, <1>8, <1>9, <1>10, <1>11 DEF StepOf

-----------------------------------------------------------------------------
\* The life of an output under a guard, as far as a function has come.
GuardSound(t, o, i) ==
    LET p == frame[t].pc
        state == frame[t].out[o]
    IN  /\ p <= i => state = "absent"
        /\ p = i + 1 => o \in frame[t].guards
        /\ state = "given" => Ended(t)
        /\ state \notin {"absent", "given"} => o \in frame[t].guards
        /\ \A k \in Touching(Script(t), o) :
              /\ p = i + 2 /\ i + 2 < k /\ frame[t].failed = 0 => state = "full"
              /\ i + 2 < p /\ p <= k => state = "full"

\* The life of an output in a local.
LocalSound(t, o, i, f, e) ==
    LET p == frame[t].pc
        state == frame[t].out[o]
    IN  /\ o \notin frame[t].guards
        /\ p <= i => state = "absent"
        /\ p = i + 1 => state = "empty"
        /\ i + 1 < p /\ p <= f =>
              IF frame[t].failed = 0 THEN state = "full" ELSE state \in {"empty", "partial"}
        /\ p = f + 1 => state = IF frame[t].failed = 0 THEN "full" ELSE "freed"
        /\ f + 1 < p /\ p <= e => state = "full"
        /\ e < p => state \in {"absent", "freed", "given"}
        /\ state = "given" => Ended(t)

\* Where a move leads.
LEMMA NextPosition ==
    ASSUME NEW t \in Threads, NEW p \in Nat, p = frame[t].pc, frame'[t].op = frame[t].op, Moves(t),
           Len(Script(t)) \in Nat, DOMAIN Script(t) = 1 .. Len(Script(t)), p # 0,
           \A k \in Steps(Script(t), "maybe") : Script(t)[k].what \in Nat
    PROVE  /\ Script(t)' = Script(t) /\ StepAt(t) = Script(t)[p]
           /\ p \in DOMAIN Script(t) /\ p <= Len(Script(t))
           /\ frame'[t].pc \in Nat /\ p < frame'[t].pc
           /\ \/ frame'[t].pc = p + 1
              \/ p \in Steps(Script(t), "maybe") /\ frame'[t].pc = Landing(Script(t), p)
<1>1. Script(t)' = Script(t) /\ StepAt(t) = Script(t)[p]
  BY DEF Script, StepAt
<1>2. p \in DOMAIN Script(t) /\ p <= Len(Script(t))
  BY DEF Moves, Ended
<1>3. \/ frame'[t].pc = p + 1
      \/ StepAt(t).do = "maybe" /\ frame'[t].pc = Landing(Script(t), p)
  BY Zenon DEF Moves
<1>4. StepAt(t).do = "maybe" => p \in Steps(Script(t), "maybe")
  BY <1>1, <1>2 DEF Steps
<1>5. StepAt(t).do = "maybe" => Landing(Script(t), p) \in Nat /\ p < Landing(Script(t), p)
  BY <1>4 DEF Landing
<1> QED
  BY <1>1, <1>2, <1>3, <1>4, <1>5

\* What an output is after a move.
LEMMA OutputAfter ==
    ASSUME NEW t \in Threads, NEW o \in DOMAIN frame[t].out, Moves(t)
    PROVE  /\ ~Touched(t, o)
              \/ StepAt(t).do \notin {"hold", "slot", "call", "edit", "free_on_error", "free", "give"}
              => frame'[t].out[o] = frame[t].out[o]
           /\ Touched(t, o) =>
                /\ StepAt(t).do \in {"hold", "slot"} => frame'[t].out[o] = "empty"
                /\ StepAt(t).do \in {"call", "edit"} =>
                      IF frame'[t].failed = 0 THEN frame'[t].out[o] = "full"
                      ELSE frame'[t].out[o] \in {"partial", frame[t].out[o]}
                /\ StepAt(t).do = "free_on_error" =>
                      frame'[t].out[o] = IF frame[t].failed = 0 THEN frame[t].out[o] ELSE "freed"
                /\ StepAt(t).do = "free" => frame'[t].out[o] = "freed"
                /\ StepAt(t).do = "give" => frame'[t].out[o] = "given"
           /\ frame[t].guards \subseteq frame'[t].guards
           /\ o \in frame'[t].guards =>
                 o \in frame[t].guards \/ (StepAt(t).do = "hold" /\ Touched(t, o))
           /\ StepAt(t).do = "hold" /\ Touched(t, o) => o \in frame'[t].guards
           /\ StepAt(t).do \notin {"call", "edit"} => frame'[t].failed = frame[t].failed
           /\ StepAt(t).do \in {"raise", "raise_saved"} => frame[t].failed = 0
<1>1. OutputMoves(t, o)
  BY DEF Moves
<1>2. frame'[t].guards = IF StepAt(t).do = "hold" THEN frame[t].guards \cup StepAt(t).outs
                         ELSE frame[t].guards
  BY Zenon DEF Moves
<1>3. /\ StepAt(t).do \notin {"call", "edit"} => frame'[t].failed = frame[t].failed
      /\ StepAt(t).do \in {"raise", "raise_saved"} => frame[t].failed = 0
  BY DEF Moves
<1>4. frame[t].guards \subseteq frame'[t].guards
  BY <1>2
<1>5. o \in frame'[t].guards => o \in frame[t].guards \/ (StepAt(t).do = "hold" /\ Touched(t, o))
  BY <1>2 DEF Touched
<1>6. StepAt(t).do = "hold" /\ Touched(t, o) => o \in frame'[t].guards
  BY <1>2 DEF Touched
<1>7. /\ ~Touched(t, o)
         \/ StepAt(t).do \notin {"hold", "slot", "call", "edit", "free_on_error", "free", "give"}
         => frame'[t].out[o] = frame[t].out[o]
      /\ Touched(t, o) =>
           /\ StepAt(t).do \in {"hold", "slot"} => frame'[t].out[o] = "empty"
           /\ StepAt(t).do \in {"call", "edit"} =>
                 IF frame'[t].failed = 0 THEN frame'[t].out[o] = "full"
                 ELSE frame'[t].out[o] \in {"partial", frame[t].out[o]}
           /\ StepAt(t).do = "free_on_error" =>
                 frame'[t].out[o] = IF frame[t].failed = 0 THEN frame[t].out[o] ELSE "freed"
           /\ StepAt(t).do = "free" => frame'[t].out[o] = "freed"
           /\ StepAt(t).do = "give" => frame'[t].out[o] = "given"
  BY <1>1, Zenon DEF OutputMoves
<1> QED
  BY <1>3, <1>4, <1>5, <1>6, <1>7, Zenon

\* A move keeps the life of an output under a guard.
LEMMA GuardKept ==
    ASSUME NEW t \in Threads, NEW p \in Nat, p = frame[t].pc, frame'[t].op = frame[t].op, Moves(t),
           Len(Script(t)) \in Nat, DOMAIN Script(t) = 1 .. Len(Script(t)), p # 0,
           WellWritten(Script(t)), NEW o \in DOMAIN frame[t].out,
           NEW i \in Touching(Script(t), o), GuardLife(Script(t), o, i), GuardSound(t, o, i)
    PROVE  GuardSound(t, o, i)'
<1> DEFINE s == Script(t)
           q == frame'[t].pc
           now == frame[t].out[o]
           new == frame'[t].out[o]
           do == StepAt(t).do
<1>1. \A k \in Steps(s, "maybe") : s[k].what \in Nat
  BY DEF WellWritten
<1>2. /\ s' = s /\ StepAt(t) = s[p] /\ p \in DOMAIN s /\ p <= Len(s) /\ q \in Nat /\ p < q
      /\ q = p + 1 \/ (p \in Steps(s, "maybe") /\ q = Landing(s, p))
  BY <1>1, NextPosition
<1>3. i \in Nat /\ Touching(s, o) \subseteq 1 .. Len(s) /\ i + 1 \in Touching(s, o)
  BY DEF Touching, GuardLife
<1>4. Touched(t, o) <=> p \in Touching(s, o)
  BY <1>2 DEF Touched, Touching
<1>5. s[i].do = "hold" /\ s[i+1].do \in {"call", "edit"} /\ s[i+2].do = "raise"
  BY DEF GuardLife, Steps, NativeCalls
<1>6. \A k \in Touching(s, o) : k = i \/ k = i + 1 \/ (i + 2 < k /\ s[k].do \in {"copy_out", "give"})
  BY <1>3 DEF GuardLife
<1>7. \A k \in Touching(s, o) : p < i => q <= i \/ q > k
  <2> SUFFICES ASSUME NEW k \in Touching(s, o), p < i PROVE q <= i \/ q > k
    OBVIOUS
  <2>1. CASE q = p + 1
    BY <2>1, <1>3
  <2>2. CASE p \in Steps(s, "maybe") /\ q = Landing(s, p)
    <3>1. EnteredAt(s, i, k)
      BY DEF GuardLife
    <3>2. q \notin i+1 .. k
      BY <2>2, <3>1 DEF EnteredAt
    <3> QED
      BY <1>2, <1>3, <3>2
  <2> QED
    BY <1>2, <2>1, <2>2
<1>8. ~Ended(t)
  BY DEF Moves
<1>9. /\ p <= i => now = "absent"
      /\ p = i + 1 => o \in frame[t].guards
      /\ now # "given"
      /\ now # "absent" => o \in frame[t].guards
      /\ \A k \in Touching(s, o) :
            /\ p = i + 2 /\ i + 2 < k /\ frame[t].failed = 0 => now = "full"
            /\ i + 2 < p /\ p <= k => now = "full"
  BY <1>8 DEF GuardSound
<1>10. Ended(t)' <=> q > Len(s)
  BY <1>2 DEF Ended
<1>11. SUFFICES /\ q <= i => new = "absent"
                /\ q = i + 1 => o \in frame'[t].guards
                /\ new = "given" => q > Len(s)
                /\ new \notin {"absent", "given"} => o \in frame'[t].guards
                /\ \A k \in Touching(s, o) :
                      /\ q = i + 2 /\ i + 2 < k /\ frame'[t].failed = 0 => new = "full"
                      /\ i + 2 < q /\ q <= k => new = "full"
  BY <1>2, <1>10 DEF GuardSound
<1>12. CASE p < i
  <2>1. new = "absent"
    BY <1>3, <1>4, <1>6, <1>9, <1>12, OutputAfter
  <2> QED
    BY <1>2, <1>3, <1>7, <1>12, <2>1
<1>13. CASE p = i
  <2>1. new = "empty" /\ o \in frame'[t].guards /\ q = i + 1
    BY <1>2, <1>4, <1>5, <1>13, OutputAfter DEF Steps
  <2> QED
    BY <1>3, <2>1
<1>14. CASE p = i + 1
  <2>1. q = i + 2 /\ o \in frame'[t].guards
    BY <1>2, <1>3, <1>5, <1>9, <1>14, OutputAfter DEF Steps
  <2>2. frame'[t].failed = 0 => new = "full"
    BY <1>2, <1>3, <1>4, <1>5, <1>14, OutputAfter
  <2>3. new # "given"
    BY <1>2, <1>3, <1>4, <1>5, <1>9, <1>14, OutputAfter
  <2> QED
    BY <1>3, <2>1, <2>2, <2>3
<1>15. CASE p = i + 2
  <2>1. q = i + 3 /\ new = now /\ frame[t].failed = 0
    BY <1>2, <1>3, <1>5, <1>15, OutputAfter DEF Steps
  <2>2. now # "absent" => o \in frame'[t].guards
    BY <1>9, OutputAfter
  <2> QED
    BY <1>3, <1>9, <1>15, <2>1, <2>2
<1>16. CASE i + 2 < p
  <2>1. CASE p \in Touching(s, o) /\ do = "give"
    <3>1. p = Len(s) /\ new = "given"
      BY <1>2, <1>4, <2>1, OutputAfter DEF WellWritten, GivesLast, Steps
    <3> QED
      BY <1>2, <1>3, <1>16, <3>1
  <2>2. CASE p \in Touching(s, o) => do = "copy_out"
    <3>1. new = now
      BY <1>4, <2>2, OutputAfter
    <3>2. now # "absent" => o \in frame'[t].guards
      BY <1>9, OutputAfter
    <3> QED
      BY <1>2, <1>3, <1>9, <1>16, <3>1, <3>2
  <2>3. p \in Touching(s, o) => do \in {"copy_out", "give"}
    BY <1>2, <1>3, <1>6, <1>16
  <2> QED
    BY <2>1, <2>2, <2>3
<1> QED
  BY <1>2, <1>3, <1>12, <1>13, <1>14, <1>15, <1>16

\* The places of a local's life.
LEMMA Places ==
    ASSUME NEW p \in Int, NEW i \in Int, NEW f \in Int, NEW e \in Int
    PROVE  \/ p < i \/ p = i \/ p = i + 1 \/ p \in i+2 .. f-1 \/ p = f \/ p = f + 1
           \/ p \in f+2 .. e-1 \/ p = e \/ p > e \/ f <= i + 1 \/ e <= f + 1
<1> QED
  OBVIOUS

\* And that of an output in a local.
LEMMA LocalKept ==
    ASSUME NEW t \in Threads, NEW p \in Nat, p = frame[t].pc, frame'[t].op = frame[t].op, Moves(t),
           Len(Script(t)) \in Nat, DOMAIN Script(t) = 1 .. Len(Script(t)), p # 0,
           WellWritten(Script(t)), NEW o \in DOMAIN frame[t].out,
           NEW i \in Touching(Script(t), o), NEW f \in Touching(Script(t), o),
           NEW e \in Touching(Script(t), o),
           LocalLife(Script(t), o, i, f, e), LocalSound(t, o, i, f, e)
    PROVE  LocalSound(t, o, i, f, e)'
<1> DEFINE s == Script(t)
           q == frame'[t].pc
           now == frame[t].out[o]
           new == frame'[t].out[o]
           do == StepAt(t).do
<1>1. \A k \in Steps(s, "maybe") : s[k].what \in Nat
  BY DEF WellWritten
<1>2. /\ s' = s /\ StepAt(t) = s[p] /\ p \in DOMAIN s /\ p <= Len(s) /\ q \in Nat /\ p < q
      /\ q = p + 1 \/ (p \in Steps(s, "maybe") /\ q = Landing(s, p))
  BY <1>1, NextPosition
<1>3. /\ i \in Nat /\ f \in Nat /\ e \in Nat /\ e <= Len(s) /\ i + 1 < f /\ f + 1 < e
      /\ Touching(s, o) \subseteq i .. e /\ i + 1 \in Touching(s, o)
  BY DEF Touching, LocalLife
<1>4. Touched(t, o) <=> p \in Touching(s, o)
  BY <1>2 DEF Touched, Touching
<1>5. /\ s[i].do = "slot" /\ s[i+1].do \in {"call", "edit"} /\ s[f].do = "free_on_error"
      /\ s[f+1].do \in {"raise", "raise_saved"} /\ s[e].do \in {"free", "give"}
      /\ \A k \in i+2 .. f-1 : s[k].do \in {"save", "copy_on_error"}
      /\ \A k \in f+2 .. e-1 : s[k].do = "copy_later"
  BY DEF LocalLife, Steps, NativeCalls
<1>6. i <= p /\ p <= e => q = p + 1
  <2> SUFFICES ASSUME i <= p, p <= e, p \in Steps(s, "maybe") PROVE FALSE
    BY <1>2
  <2>1. s[p].do = "maybe"
    BY DEF Steps
  <2>2. CASE p \in i+2 .. f-1
    BY <1>5, <2>1, <2>2
  <2>3. CASE p \in f+2 .. e-1
    BY <1>5, <2>1, <2>3
  <2>4. CASE p = i \/ p = i + 1 \/ p = f \/ p = f + 1 \/ p = e
    BY <1>5, <2>1, <2>4
  <2>5. /\ ~(p < i) /\ ~(p > e) /\ ~(f <= i + 1) /\ ~(e <= f + 1)
        /\ p \in Int /\ i \in Int /\ f \in Int /\ e \in Int
    BY <1>3
  <2>6. \/ p < i \/ p = i \/ p = i + 1 \/ p \in i+2 .. f-1 \/ p = f \/ p = f + 1
        \/ p \in f+2 .. e-1 \/ p = e \/ p > e \/ f <= i + 1 \/ e <= f + 1
    BY <2>5, Places, Zenon
  <2> HIDE DEF s, q, now, new, do
  <2> QED
    BY <2>2, <2>3, <2>4, <2>5, <2>6, Zenon
<1>7. p < i => q <= i \/ q > e
  <2> SUFFICES ASSUME p < i PROVE q <= i \/ q > e
    OBVIOUS
  <2>1. CASE q = p + 1
    BY <2>1, <1>2, <1>3
  <2>2. CASE p \in Steps(s, "maybe") /\ q = Landing(s, p)
    <3>1. q \notin i+1 .. e
      BY <2>2 DEF EnteredAt, LocalLife
    <3> QED
      BY <1>2, <1>3, <3>1
  <2> QED
    BY <1>2, <2>1, <2>2
<1>8. ~Ended(t)
  BY DEF Moves
<1>9. /\ o \notin frame[t].guards
      /\ p <= i => now = "absent"
      /\ p = i + 1 => now = "empty"
      /\ i + 1 < p /\ p <= f =>
            IF frame[t].failed = 0 THEN now = "full" ELSE now \in {"empty", "partial"}
      /\ p = f + 1 => now = IF frame[t].failed = 0 THEN "full" ELSE "freed"
      /\ f + 1 < p /\ p <= e => now = "full"
      /\ e < p => now \in {"absent", "freed"}
  BY <1>8 DEF LocalSound
<1>10. Ended(t)' <=> q > Len(s)
  BY <1>2 DEF Ended
<1>11. o \notin frame'[t].guards
  <2>1. ~(do = "hold" /\ Touched(t, o))
    <3> SUFFICES ASSUME s[p].do = "hold", p \in Touching(s, o) PROVE FALSE
      BY <1>2, <1>4
    <3>1. ~(p \in i+2 .. f-1)
      BY <1>5
    <3>2. ~(p \in f+2 .. e-1)
      BY <1>5
    <3>3. ASSUME p = i \/ p = i + 1 \/ p = f \/ p = f + 1 \/ p = e PROVE FALSE
      <4>1. s[p].do \in {"slot", "call", "edit", "free_on_error", "raise", "raise_saved", "free", "give"}
        BY <1>5, <3>3
      <4> QED
        BY <4>1
    <3>4. i <= p /\ p <= e
      BY <1>2, <1>3
    <3>5. /\ ~(p < i) /\ ~(p > e) /\ ~(f <= i + 1) /\ ~(e <= f + 1)
          /\ p \in Int /\ i \in Int /\ f \in Int /\ e \in Int
      BY <1>3, <3>4
    <3>6. \/ p < i \/ p = i \/ p = i + 1 \/ p \in i+2 .. f-1 \/ p = f \/ p = f + 1
          \/ p \in f+2 .. e-1 \/ p = e \/ p > e \/ f <= i + 1 \/ e <= f + 1
      BY <3>5, Places, Zenon
    <3> HIDE DEF s, q, now, new, do
    <3> QED
      BY <3>1, <3>2, <3>3, <3>5, <3>6, Zenon
  <2> QED
    BY <1>9, <2>1, OutputAfter
<1>12. SUFFICES /\ q <= i => new = "absent"
                /\ q = i + 1 => new = "empty"
                /\ i + 1 < q /\ q <= f =>
                      IF frame'[t].failed = 0 THEN new = "full" ELSE new \in {"empty", "partial"}
                /\ q = f + 1 => new = IF frame'[t].failed = 0 THEN "full" ELSE "freed"
                /\ f + 1 < q /\ q <= e => new = "full"
                /\ e < q => new \in {"absent", "freed", "given"}
                /\ new = "given" => q > Len(s)
  BY <1>2, <1>10, <1>11 DEF LocalSound
<1>13. CASE p < i
  <2>1. new = "absent"
    BY <1>2, <1>3, <1>4, <1>9, <1>13, OutputAfter
  <2> QED
    BY <1>2, <1>3, <1>7, <1>13, <2>1
<1>14. CASE p = i
  <2>1. new = "empty" /\ q = i + 1
    BY <1>2, <1>3, <1>4, <1>5, <1>6, <1>14, OutputAfter
  <2> QED
    BY <1>3, <2>1
<1>15. CASE p = i + 1
  <2>1. q = i + 2 /\ now = "empty"
    BY <1>2, <1>3, <1>6, <1>9, <1>15
  <2>2. IF frame'[t].failed = 0 THEN new = "full" ELSE new \in {"empty", "partial"}
    BY <1>2, <1>3, <1>4, <1>5, <1>15, <2>1, OutputAfter
  <2> QED
    BY <1>3, <2>1, <2>2
<1>16. CASE p \in i+2 .. f-1
  <2>1. q = p + 1
    BY <1>2, <1>3, <1>6, <1>16
  <2>2. do \in {"save", "copy_on_error"}
    BY <1>2, <1>5, <1>16
  <2>3. frame'[t].failed = frame[t].failed /\ new = now
    BY <2>2, OutputAfter
  <2>4. i + 1 < p /\ p < f
    BY <1>2, <1>3, <1>16
  <2>5. i + 1 < q /\ q <= f /\ f + 1 < e /\ p <= f /\ q \in Nat
    BY <1>2, <1>3, <2>1, <2>4
  <2> HIDE DEF s, q, now, new, do
  <2>6. IF frame'[t].failed = 0 THEN new = "full" ELSE new \in {"empty", "partial"}
    BY <1>9, <2>3, <2>4, <2>5
  <2>7. ~(q <= i) /\ q # i + 1 /\ q # f + 1 /\ ~(f + 1 < q) /\ ~(e < q) /\ new # "given"
    BY <1>3, <2>5, <2>6
  <2> QED
    BY <2>6, <2>7
<1>17. CASE p = f
  <2>1. q = f + 1 /\ frame'[t].failed = frame[t].failed
    BY <1>2, <1>3, <1>5, <1>6, <1>17, OutputAfter
  <2>2. new = IF frame[t].failed = 0 THEN now ELSE "freed"
    BY <1>2, <1>4, <1>5, <1>17, OutputAfter
  <2> QED
    BY <1>2, <1>3, <1>9, <1>17, <2>1, <2>2
<1>18. CASE p = f + 1
  <2>1. q = f + 2 /\ new = now /\ frame[t].failed = 0
    <3>1. do \in {"raise", "raise_saved"}
      BY <1>2, <1>5, <1>18
    <3>2. new = now /\ frame[t].failed = 0
      BY <3>1, OutputAfter
    <3> QED
      BY <1>3, <1>6, <1>18, <3>2
  <2> QED
    BY <1>2, <1>3, <1>9, <1>18, <2>1
<1>19. CASE p \in f+2 .. e-1
  <2>1. q = p + 1
    BY <1>2, <1>3, <1>6, <1>19
  <2>2. do = "copy_later"
    BY <1>2, <1>5, <1>19
  <2>3. new = now
    BY <2>2, OutputAfter
  <2>4. f + 1 < p /\ p < e
    BY <1>2, <1>3, <1>19
  <2> QED
    BY <1>2, <1>3, <1>9, <2>1, <2>3, <2>4
<1>20. CASE p = e
  <2>1. q = e + 1
    BY <1>2, <1>3, <1>6, <1>20
  <2>2. new \in {"freed", "given"}
    BY <1>2, <1>4, <1>5, <1>20, OutputAfter
  <2>3. new = "given" => e = Len(s)
    <3>1. CASE s[e].do = "give"
      BY <3>1 DEF WellWritten, GivesLast, Steps, Touching
    <3>2. CASE s[e].do = "free"
      BY <1>2, <1>4, <1>20, <3>2, OutputAfter
    <3> QED
      BY <1>5, <3>1, <3>2
  <2>4. ~(q <= i) /\ q # i + 1 /\ ~(q <= f) /\ q # f + 1 /\ ~(q <= e)
    BY <1>3, <2>1
  <2>5. new = "given" => q > Len(s)
    BY <1>2, <2>1, <2>3
  <2> HIDE DEF s, q, now, new, do
  <2> QED
    BY <2>2, <2>4, <2>5
<1>21. CASE p > e
  <2>1. new = now
    BY <1>2, <1>3, <1>4, <1>21, OutputAfter
  <2>2. now \in {"absent", "freed"}
    BY <1>3, <1>9, <1>21
  <2>3. ~(q <= i) /\ q # i + 1 /\ ~(q <= f) /\ q # f + 1 /\ ~(q <= e)
    <3>1. q \in Nat /\ p < q
      BY <1>2
    <3>2. i \in Nat /\ f \in Nat /\ e \in Nat /\ i + 1 < f /\ f + 1 < e
      BY <1>3
    <3> HIDE DEF s, q, now, new, do
    <3> QED
      BY <1>21, <3>1, <3>2
  <2> HIDE DEF s, q, now, new, do
  <2> QED
    BY <2>1, <2>2, <2>3
<1> QED
  <2>1. ~(f <= i + 1) /\ ~(e <= f + 1) /\ i \in Int /\ f \in Int /\ e \in Int /\ p \in Int
    BY <1>3
  <2>2. \/ p < i \/ p = i \/ p = i + 1 \/ p \in i+2 .. f-1 \/ p = f \/ p = f + 1
        \/ p \in f+2 .. e-1 \/ p = e \/ p > e
    BY <2>1, Places
  <2> HIDE DEF s, q, now, new, do
  <2> QED
    BY <2>2, <1>13, <1>14, <1>15, <1>16, <1>17, <1>18, <1>19, <1>20, <1>21

-----------------------------------------------------------------------------
\* A function on its way: what the gate, the checks, the calls and the kept
\* error have left in the frame, and how far its outputs have come.
Sound(t, o) ==
    \/ \E i \in Touching(Script(t), o) :
          GuardLife(Script(t), o, i) /\ GuardSound(t, o, i)
    \/ \E i, f, e \in Touching(Script(t), o) :
          LocalLife(Script(t), o, i, f, e) /\ LocalSound(t, o, i, f, e)

GatesPassed(t) ==
    \A i \in Steps(Script(t), "gate") :
       i < frame[t].pc /\ Unskipped(Script(t), i) => gate = "compatible"
ChecksPassed(t) ==
    \A i \in Steps(Script(t), "check") :
       i < frame[t].pc /\ Unskipped(Script(t), i) => Script(t)[i].what \in frame[t].passed
EditsBehind(t) ==
    frame[t].edited => \E i \in Steps(Script(t), "edit") : i < frame[t].pc
ErrorsOwn(t) ==
    /\ frame[t].failed # 0 => lastError[t] = frame[t].failed
    /\ \A i \in Steps(Script(t), "save") :
          i < frame[t].pc /\ KeptAt(Script(t), i, frame[t].pc) => frame[t].saved = lastError[t]

OnTheWay(t) ==
    /\ GatesPassed(t) /\ ChecksPassed(t) /\ EditsBehind(t) /\ ErrorsOwn(t)
    /\ \A o \in DOMAIN frame[t].out : Sound(t, o)

\* A function that has returned.
Over(t) ==
    /\ \A o \in DOMAIN frame[t].out :
          \/ frame[t].out[o] \in {"absent", "freed"}
          \/ frame[t].out[o] = "given" /\ frame[t].result = "ok"
    /\ frame[t].result = "native" => frame[t].of # 0 /\ frame[t].of = frame[t].failed
    /\ frame[t].result \in {"argument", "incompatible"} => ~frame[t].edited

\* A thread that has left the gate behind it: by the handles it holds.
FrameSound(t) ==
    \/ frame[t] = Idle
    \/ /\ frame[t].op \in DOMAIN Operations
       /\ frame[t].pc \in Nat \ {0}
       /\ DOMAIN frame[t].out = OutputsOf(Script(t))
       /\ Needs[frame[t].op] \subseteq handle[t]
       /\ \A o \in DOMAIN frame[t].out : frame[t].out[o] = "given" => gate = "compatible"
       /\ frame[t].result = "none" => OnTheWay(t)
       /\ frame[t].result # "none" => Over(t)

GateOnce ==
    /\ gate \in {"empty", "compatible", "incompatible"}
    /\ queries = (IF gate = "empty" THEN 0 ELSE 1)
HandlesBehindGate ==
    /\ handle \in [Threads -> SUBSET Handles]
    /\ \A t \in Threads : handle[t] # {} => gate = "compatible"

NativeIInv ==
    /\ StepTypes
    /\ abi \in {"supported", "other"}
    /\ GateOnce
    /\ HandlesBehindGate
    /\ \A t \in Threads : FrameSound(t)

\* No native function is called, and nothing is returned, before the gate.
LEMMA Gated ==
    ASSUME NEW t \in Threads, StepTypes, HandlesBehindGate,
           frame[t].op \in DOMAIN Operations, frame[t].pc \in Nat \ {0},
           Needs[frame[t].op] \subseteq handle[t], GatesPassed(t),
           NEW p \in NativeCalls(Script(t)) \cup Steps(Script(t), "give"), p <= frame[t].pc
    PROVE  gate = "compatible"
<1>1. CASE Needs[frame[t].op] = {}
  <2>1. GatedFirst(Script(t))
    BY <1>1, NativeCallAssumption DEF Script
  <2>2. PICK i \in Steps(Script(t), "gate") : i < p /\ Unskipped(Script(t), i)
    BY <2>1 DEF GatedFirst
  <2>3. DOMAIN Script(t) = 1 .. Len(Script(t)) /\ Len(Script(t)) \in Nat
    BY InScript
  <2>4. i \in Int /\ p \in Int /\ i < frame[t].pc
    BY <2>2, <2>3 DEF Steps, NativeCalls
  <2> QED
    BY <2>2, <2>4 DEF GatesPassed
<1>2. CASE Needs[frame[t].op] # {}
  BY <1>2 DEF HandlesBehindGate
<1> QED
  BY <1>1, <1>2

\* A move keeps what holds of a function on its way.
LEMMA MoveKept ==
    ASSUME StepTypes, GateOnce, HandlesBehindGate, NEW t \in Threads,
           frame[t].op \in DOMAIN Operations, frame[t].pc \in Nat \ {0},
           Needs[frame[t].op] \subseteq handle[t], DOMAIN frame[t].out = OutputsOf(Script(t)),
           OnTheWay(t), Moves(t), Kept(t)
    PROVE  OnTheWay(t)' /\ frame'[t].pc \in Nat \ {0}
<1> DEFINE s == Script(t)
           q == frame'[t].pc
           do == StepAt(t).do
<1>1. PICK p \in Nat : p = frame[t].pc /\ p # 0
  OBVIOUS
<1>2. /\ WellWritten(s) /\ Len(s) \in Nat /\ DOMAIN s = 1 .. Len(s)
      /\ \A k \in Steps(s, "maybe") : s[k].what \in Nat
  BY InScript DEF WellWritten
<1>3. frame'[t].op = frame[t].op
  BY DEF Kept
<1>4. /\ s' = s /\ StepAt(t) = s[p] /\ p \in DOMAIN s /\ p <= Len(s) /\ q \in Nat /\ p < q
      /\ q = p + 1 \/ (p \in Steps(s, "maybe") /\ q = Landing(s, p))
  BY <1>1, <1>2, <1>3, NextPosition
<1>5. ASSUME NEW i \in DOMAIN s, i < q
      PROVE  i < p \/ i = p \/ (p < i /\ p \in Steps(s, "maybe") /\ q = Landing(s, p))
  BY <1>2, <1>4, <1>5
<1>6. ASSUME NEW i \in DOMAIN s, i < q, Unskipped(s, i)
      PROVE  i < p \/ i = p
  <2>1. CASE p < i /\ p \in Steps(s, "maybe") /\ q = Landing(s, p)
    BY <1>2, <1>4, <1>6, <2>1 DEF Unskipped
  <2> QED
    BY <1>5, <1>6, <2>1
<1>7. GatesPassed(t)'
  <2> SUFFICES ASSUME NEW i \in Steps(s, "gate"), i < q, Unskipped(s, i) PROVE gate' = "compatible"
    BY <1>4 DEF GatesPassed
  <2>1. i \in DOMAIN s /\ s[i].do = "gate"
    BY DEF Steps
  <2>2. CASE i < p
    <3>1. gate = "compatible"
      BY <1>1, <2>2 DEF OnTheWay, GatesPassed
    <3> QED
      BY <3>1 DEF Kept, GateMoves
  <2>3. CASE i = p
    BY <1>4, <2>1, <2>3 DEF Moves
  <2> QED
    BY <1>6, <2>1, <2>2, <2>3
<1>8. ChecksPassed(t)'
  <2> SUFFICES ASSUME NEW i \in Steps(s, "check"), i < q, Unskipped(s, i)
               PROVE  s[i].what \in frame'[t].passed
    BY <1>4 DEF ChecksPassed
  <2>1. i \in DOMAIN s /\ s[i].do = "check"
    BY DEF Steps
  <2>2. CASE i < p
    <3>1. s[i].what \in frame[t].passed
      BY <1>1, <2>2 DEF OnTheWay, ChecksPassed
    <3>2. frame[t].passed \subseteq frame'[t].passed
      BY DEF Moves
    <3> QED
      BY <3>1, <3>2
  <2>3. CASE i = p
    BY <1>4, <2>1, <2>3 DEF Moves
  <2> QED
    BY <1>6, <2>1, <2>2, <2>3
<1>9. EditsBehind(t)'
  <2> SUFFICES ASSUME frame'[t].edited PROVE \E i \in Steps(s, "edit") : i < q
    BY <1>4 DEF EditsBehind
  <2>1. CASE do = "edit"
    <3>1. p \in Steps(s, "edit")
      BY <1>4, <2>1 DEF Steps
    <3> QED
      BY <1>4, <3>1
  <2>2. CASE do # "edit"
    <3>1. frame[t].edited
      BY <2>2 DEF Moves
    <3>2. PICK i \in Steps(s, "edit") : i < p
      BY <1>1, <3>1 DEF OnTheWay, EditsBehind
    <3>3. i \in Int
      BY <1>2 DEF Steps
    <3>4. i < q
      BY <1>4, <3>2, <3>3
    <3> QED
      BY <3>4
  <2> QED
    BY <2>1, <2>2
<1>10. ErrorsOwn(t)'
  <2>1. ASSUME frame'[t].failed # 0 PROVE lastError'[t] = frame'[t].failed
    <3>1. CASE do \in {"call", "edit"}
      BY <2>1, <3>1 DEF Moves
    <3>2. CASE do \notin {"call", "edit"}
      BY <2>1, <3>2 DEF Moves, OnTheWay, ErrorsOwn
    <3> QED
      BY <3>1, <3>2
  <2>2. ASSUME NEW i \in Steps(s, "save"), i < q, KeptAt(s, i, q)
        PROVE  frame'[t].saved = lastError'[t]
    <3>1. i \in DOMAIN s /\ i \in Int /\ s[i].do = "save"
      BY <1>2 DEF Steps
    <3>2. CASE i = p
      BY <1>4, <3>1, <3>2 DEF Moves
    <3>3. CASE p < i /\ p \in Steps(s, "maybe") /\ q = Landing(s, p)
      <4>1. q \notin i+1 .. q
        BY <2>2, <3>3 DEF KeptAt
      <4> QED
        BY <1>4, <2>2, <3>1, <4>1
    <3>4. CASE i < p
      <4>1. q = p + 1
        <5>1. CASE p \in Steps(s, "maybe") /\ q = Landing(s, p)
          <6>1. q \notin i+1 .. q
            BY <2>2, <5>1 DEF KeptAt
          <6> QED
            BY <1>4, <2>2, <3>1, <6>1
        <5> QED
          BY <1>4, <5>1
      <4>2. p \notin NativeCalls(s)
        BY <1>4, <2>2, <3>1, <3>4, <4>1 DEF KeptAt
      <4>3. KeptAt(s, i, p)
        <5>1. \A k \in i+1 .. p-1 : k \in i+1 .. q-1
          BY <1>4, <3>1, <4>1
        <5>2. \A k \in i+1 .. p : k \in i+1 .. q
          BY <1>4, <3>1, <4>1
        <5> QED
          BY <2>2, <5>1, <5>2 DEF KeptAt
      <4>4. frame[t].saved = lastError[t]
        BY <1>1, <3>4, <4>3 DEF OnTheWay, ErrorsOwn
      <4>5. do \notin {"call", "edit"}
        BY <1>4, <4>2 DEF NativeCalls, Steps
      <4> QED
        BY <4>4, <4>5 DEF Moves
    <3> QED
      BY <1>5, <2>2, <3>1, <3>2, <3>3, <3>4
  <2> QED
    BY <1>4, <2>1, <2>2 DEF ErrorsOwn
<1>11. ASSUME NEW o \in DOMAIN frame[t].out PROVE Sound(t, o)'
  <2>1. Sound(t, o)
    BY DEF OnTheWay
  <2>2. CASE \E i \in Touching(s, o) : GuardLife(s, o, i) /\ GuardSound(t, o, i)
    <3>1. PICK i \in Touching(s, o) : GuardLife(s, o, i) /\ GuardSound(t, o, i)
      BY <2>2
    <3>2. GuardSound(t, o, i)'
      BY <1>1, <1>2, <1>3, <3>1, GuardKept
    <3> QED
      BY <1>4, <3>1, <3>2 DEF Sound
  <2>3. CASE \E i, f, e \in Touching(s, o) : LocalLife(s, o, i, f, e) /\ LocalSound(t, o, i, f, e)
    <3>1. PICK i, f, e \in Touching(s, o) : LocalLife(s, o, i, f, e) /\ LocalSound(t, o, i, f, e)
      BY <2>3
    <3>2. LocalSound(t, o, i, f, e)'
      BY <1>1, <1>2, <1>3, <3>1, LocalKept
    <3> QED
      BY <1>4, <3>1, <3>2 DEF Sound
  <2> QED
    BY <2>1, <2>2, <2>3 DEF Sound
<1>12. DOMAIN frame'[t].out = DOMAIN frame[t].out
  BY DEF Moves
<1> QED
  BY <1>4, <1>7, <1>8, <1>9, <1>10, <1>11, <1>12 DEF OnTheWay

\* A way out finds every output unused, under a guard, freed or returned.
LEMMA WayOut ==
    ASSUME NEW t \in Threads, NEW p \in Nat, p = frame[t].pc, p # 0,
           Len(Script(t)) \in Nat, DOMAIN Script(t) = 1 .. Len(Script(t)),
           NEW o \in DOMAIN frame[t].out, Sound(t, o), Leaves(t)
    PROVE  \/ frame[t].out[o] \in {"absent", "freed"}
           \/ o \in frame[t].guards /\ frame[t].out[o] # "given"
           \/ frame[t].out[o] = "given" /\ Ended(t)
<1> DEFINE s == Script(t)
           now == frame[t].out[o]
<1>1. ASSUME NEW i \in Touching(s, o), GuardSound(t, o, i)
      PROVE  \/ now \in {"absent", "freed"} \/ (o \in frame[t].guards /\ now # "given")
             \/ (now = "given" /\ Ended(t))
  BY <1>1 DEF GuardSound
<1>2. ASSUME NEW i \in Touching(s, o), NEW f \in Touching(s, o), NEW e \in Touching(s, o),
             LocalLife(s, o, i, f, e), LocalSound(t, o, i, f, e)
      PROVE  now \in {"absent", "freed"} \/ (now = "given" /\ Ended(t))
  <2>1. i \in Int /\ f \in Int /\ e \in Int /\ e <= Len(s) /\ i + 1 < f /\ f + 1 < e
    BY <1>2 DEF Touching, LocalLife
  <2>2. /\ s[i].do = "slot" /\ s[i+1].do \in {"call", "edit"} /\ s[f].do = "free_on_error"
        /\ s[f+1].do \in {"raise", "raise_saved"} /\ s[e].do \in {"free", "give"}
        /\ \A k \in i+2 .. f-1 : s[k].do \in {"save", "copy_on_error"}
        /\ \A k \in f+2 .. e-1 : s[k].do = "copy_later"
    BY <1>2 DEF LocalLife, Steps, NativeCalls
  <2>3. /\ p <= i => now = "absent"
        /\ p = f + 1 => now = IF frame[t].failed = 0 THEN "full" ELSE "freed"
        /\ e < p => now \in {"absent", "freed", "given"}
        /\ now = "given" => Ended(t)
    BY <1>2 DEF LocalSound
  <2>4. Ended(t) <=> p > Len(s)
    BY DEF Ended
  <2>5. p <= Len(s) => s[p].do \in WaysOut
    BY <2>4 DEF Leaves, StepAt
  <2>6. p <= Len(s) /\ s[p].do \in {"raise", "raise_saved"} => frame[t].failed # 0
    BY <2>4 DEF Leaves, StepAt
  <2>7. CASE p < i \/ p = i
    BY <2>1, <2>3, <2>7
  <2>8. CASE p > e
    BY <2>1, <2>3, <2>8
  <2>9. CASE p = f + 1
    BY <2>1, <2>2, <2>3, <2>6, <2>9
  <2>10. CASE p = i + 1 \/ p = f \/ p = e
    <3>1. p <= Len(s)
      BY <2>1, <2>10
    <3>2. s[p].do \in {"call", "edit", "free_on_error", "free", "give"}
      BY <2>2, <2>10
    <3> QED
      BY <2>5, <3>1, <3>2 DEF WaysOut
  <2>11. CASE p \in i+2 .. f-1
    <3>1. p <= Len(s)
      BY <2>1, <2>11
    <3>2. s[p].do \in {"save", "copy_on_error"}
      BY <2>2, <2>11
    <3> QED
      BY <2>5, <3>1, <3>2 DEF WaysOut
  <2>12. CASE p \in f+2 .. e-1
    <3>1. p <= Len(s)
      BY <2>1, <2>12
    <3>2. s[p].do = "copy_later"
      BY <2>2, <2>12
    <3> QED
      BY <2>5, <3>1, <3>2 DEF WaysOut
  <2>13. ~(f <= i + 1) /\ ~(e <= f + 1) /\ p \in Int
    BY <2>1
  <2> QED
    BY <2>1, <2>7, <2>8, <2>9, <2>10, <2>11, <2>12, <2>13, Places
<1> QED
  BY <1>1, <1>2 DEF Sound

\* A return leaves the frame of a function that is over.
LEMMA LeaveOver ==
    ASSUME StepTypes, GateOnce, HandlesBehindGate, NEW t \in Threads,
           frame[t].op \in DOMAIN Operations, frame[t].pc \in Nat \ {0},
           Needs[frame[t].op] \subseteq handle[t], DOMAIN frame[t].out = OutputsOf(Script(t)),
           OnTheWay(t), Leaves(t), Kept(t)
    PROVE  Over(t)'
<1> DEFINE s == Script(t)
           result == frame'[t].result
<1>1. PICK p \in Nat : p = frame[t].pc /\ p # 0
  OBVIOUS
<1>2. WellWritten(s) /\ Len(s) \in Nat /\ DOMAIN s = 1 .. Len(s)
      /\ (~Ended(t) => p \in DOMAIN s)
  BY <1>1, InScript
<1>3. ASSUME NEW o \in DOMAIN frame[t].out
      PROVE  \/ frame'[t].out[o] \in {"absent", "freed"}
             \/ frame'[t].out[o] = "given" /\ result = "ok"
  <2>1. \/ frame[t].out[o] \in {"absent", "freed"}
        \/ o \in frame[t].guards /\ frame[t].out[o] # "given"
        \/ frame[t].out[o] = "given" /\ Ended(t)
    BY <1>1, <1>2, <1>3, WayOut DEF OnTheWay
  <2>2. frame'[t].out[o] = IF o \in frame[t].guards /\ frame[t].out[o] # "given"
                           THEN "freed" ELSE frame[t].out[o]
    BY DEF Leaves, DropGuards
  <2>3. Ended(t) => result = "ok"
    BY DEF Leaves
  <2> QED
    BY <2>1, <2>2, <2>3
<1>4. ASSUME result = "native" PROVE frame'[t].of # 0 /\ frame'[t].of = frame'[t].failed
  <2>1. frame'[t].failed = frame[t].failed /\ ~Ended(t)
    BY <1>4 DEF Leaves
  <2>2. StepAt(t).do \in {"raise", "raise_saved"} => frame[t].failed # 0
    BY <2>1 DEF Leaves
  <2>3. frame[t].failed # 0 => lastError[t] = frame[t].failed
    BY DEF OnTheWay, ErrorsOwn
  <2>4. CASE StepAt(t).do = "raise" /\ frame'[t].of = lastError[t]
    BY <2>1, <2>2, <2>3, <2>4
  <2>5. CASE StepAt(t).do = "raise_saved" /\ frame'[t].of = frame[t].saved
    <3>1. p \in Steps(s, "raise_saved")
      BY <1>1, <1>2, <2>1, <2>5 DEF Steps, StepAt
    <3>2. PICK i \in 1 .. p-1 : KeptAt(s, i, p)
      BY <1>2, <3>1 DEF WellWritten, ErrorsKept
    <3>3. i \in Steps(s, "save") /\ i < p
      BY <3>2 DEF KeptAt
    <3>4. frame[t].saved = lastError[t]
      BY <1>1, <3>2, <3>3 DEF OnTheWay, ErrorsOwn
    <3> QED
      BY <2>1, <2>2, <2>3, <2>5, <3>4
  <2> QED
    BY <1>4, <2>4, <2>5 DEF Leaves
<1>5. ASSUME frame[t].edited
      PROVE  \E i \in Steps(s, "edit") : i < p /\ i \in Int
  <2>1. PICK i \in Steps(s, "edit") : i < p
    BY <1>1, <1>5 DEF OnTheWay, EditsBehind
  <2> QED
    BY <1>2, <2>1 DEF Steps
<1>6. ASSUME result = "argument" PROVE ~frame'[t].edited
  <2> SUFFICES ASSUME frame[t].edited PROVE FALSE
    BY DEF Leaves
  <2>1. PICK i \in Steps(s, "edit") : i < p /\ i \in Int
    BY <1>5
  <2>2. StepAt(t).do = "check" /\ StepAt(t).what \notin frame[t].passed /\ ~Ended(t)
    BY <1>6 DEF Leaves
  <2>3. p \in Steps(s, "check") /\ StepAt(t) = s[p]
    BY <1>1, <1>2, <2>2 DEF Steps, StepAt
  <2>4. PICK k \in Steps(s, "check") : k < i /\ s[k].what = s[p].what /\ Unskipped(s, k)
    BY <1>2, <2>1, <2>3 DEF WellWritten, CheckedBeforeEdits
  <2>5. k < p
    BY <1>2, <2>1, <2>4 DEF Steps
  <2>6. s[k].what \in frame[t].passed
    BY <1>1, <2>4, <2>5 DEF OnTheWay, ChecksPassed
  <2> QED
    BY <2>2, <2>3, <2>4, <2>6
<1>7. ASSUME result = "incompatible" PROVE ~frame'[t].edited
  <2> SUFFICES ASSUME frame[t].edited PROVE FALSE
    BY DEF Leaves
  <2>1. PICK i \in Steps(s, "edit") : i < p /\ i \in Int
    BY <1>5
  <2>2. i \in NativeCalls(s) \cup Steps(s, "give") /\ i <= frame[t].pc
    BY <1>1, <2>1 DEF NativeCalls
  <2>3. gate = "compatible"
    BY <2>2, Gated DEF OnTheWay
  <2>4. gate' = "incompatible"
    BY <1>7 DEF Leaves
  <2> QED
    BY <2>3, <2>4 DEF Kept, GateMoves
<1>8. DOMAIN frame'[t].out = DOMAIN frame[t].out
  BY DEF Leaves, DropGuards
<1> QED
  BY <1>3, <1>4, <1>6, <1>7, <1>8 DEF Over

\* A thread that does not move: the gate never closes behind it.
LEMMA OtherKept ==
    ASSUME NEW u \in Threads, FrameSound(u), GateOnce,
           frame'[u] = frame[u], lastError'[u] = lastError[u], handle'[u] = handle[u],
           gate = "compatible" => gate' = "compatible"
    PROVE  FrameSound(u)'
<1>1. CASE frame[u] = Idle
  BY <1>1 DEF FrameSound
<1>2. CASE frame[u] # Idle
  <2>1. Script(u)' = Script(u) /\ (Ended(u)' <=> Ended(u))
    BY DEF Script, Ended
  <2>2. ASSUME OnTheWay(u) PROVE OnTheWay(u)'
    <3>1. GatesPassed(u)' /\ ChecksPassed(u)' /\ EditsBehind(u)' /\ ErrorsOwn(u)'
      BY <2>1, <2>2 DEF OnTheWay, GatesPassed, ChecksPassed, EditsBehind, ErrorsOwn
    <3>2. ASSUME NEW o \in DOMAIN frame[u].out PROVE Sound(u, o)'
      <4>1. \A i : GuardSound(u, o, i) => GuardSound(u, o, i)'
        BY <2>1 DEF GuardSound
      <4>2. \A i, f, e : LocalSound(u, o, i, f, e) => LocalSound(u, o, i, f, e)'
        BY <2>1 DEF LocalSound
      <4> QED
        BY <2>1, <2>2, <3>2, <4>1, <4>2 DEF OnTheWay, Sound
    <3> QED
      BY <3>1, <3>2 DEF OnTheWay
  <2>3. ASSUME Over(u) PROVE Over(u)'
    BY <2>3 DEF Over
  <2> QED
    BY <1>2, <2>1, <2>2, <2>3 DEF FrameSound
<1> QED
  BY <1>1, <1>2

\* The frame of a function that moves or returns.
LEMMA MoverKept ==
    ASSUME StepTypes, GateOnce, HandlesBehindGate, NEW t \in Threads, FrameSound(t), frame[t] # Idle,
           Moves(t) \/ Leaves(t), Kept(t)
    PROVE  FrameSound(t)'
<1>1. /\ frame[t].op \in DOMAIN Operations /\ frame[t].pc \in Nat \ {0}
      /\ DOMAIN frame[t].out = OutputsOf(Script(t)) /\ Needs[frame[t].op] \subseteq handle[t]
      /\ \A o \in DOMAIN frame[t].out : frame[t].out[o] = "given" => gate = "compatible"
      /\ OnTheWay(t)
  BY DEF FrameSound, Moves, Leaves, Running
<1>2. Script(t)' = Script(t) /\ frame'[t].op = frame[t].op /\ handle' = handle
  BY DEF Kept, Script
<1>3. gate = "compatible" => gate' = "compatible"
  BY DEF Kept, GateMoves
<1>4. CASE Moves(t)
  <2>1. OnTheWay(t)' /\ frame'[t].pc \in Nat \ {0}
    BY <1>1, <1>4, MoveKept
  <2>2. DOMAIN frame'[t].out = DOMAIN frame[t].out /\ frame'[t].result = "none"
    BY <1>4 DEF Moves
  <2>3. ASSUME NEW o \in DOMAIN frame[t].out, frame'[t].out[o] = "given" PROVE gate' = "compatible"
    <3>1. CASE frame[t].out[o] = "given"
      BY <1>1, <1>3, <3>1
    <3>2. CASE StepAt(t).do = "give"
      <4>1. ~Ended(t)
        BY <1>4 DEF Moves
      <4>2. frame[t].pc \in Steps(Script(t), "give")
        BY <1>1, <3>2, <4>1, InScript DEF Steps, StepAt
      <4>3. gate = "compatible"
        BY <1>1, <4>2, Gated DEF OnTheWay
      <4> QED
        BY <1>3, <4>3
    <3>3. frame[t].out[o] = "given" \/ StepAt(t).do = "give"
      <4> SUFFICES ASSUME StepAt(t).do # "give" PROVE frame[t].out[o] = "given"
        OBVIOUS
      <4>1. StepAt(t).do \in {"hold", "slot", "call", "edit", "free_on_error", "free"}
            \/ StepAt(t).do \notin {"hold", "slot", "call", "edit", "free_on_error", "free", "give"}
        OBVIOUS
      <4>2. CASE ~Touched(t, o)
        BY <1>4, <2>3, <4>2, OutputAfter
      <4>3. CASE Touched(t, o)
        BY <1>4, <2>3, <4>1, <4>3, OutputAfter
      <4> QED
        BY <4>2, <4>3
    <3> QED
      BY <3>1, <3>2, <3>3
  <2> QED
    BY <1>1, <1>2, <2>1, <2>2, <2>3 DEF FrameSound
<1>5. CASE Leaves(t)
  <2>1. Over(t)'
    BY <1>1, <1>5, LeaveOver
  <2>2. frame'[t].pc = frame[t].pc
    BY <1>5 DEF Leaves
  <2>3. DOMAIN frame'[t].out = DOMAIN frame[t].out /\ frame'[t].result # "none"
    BY <1>5 DEF Leaves, DropGuards
  <2>4. ASSUME NEW o \in DOMAIN frame[t].out, frame'[t].out[o] = "given" PROVE frame[t].out[o] = "given"
    BY <1>5, <2>4 DEF Leaves, DropGuards
  <2> QED
    BY <1>1, <1>2, <1>3, <2>1, <2>2, <2>3, <2>4 DEF FrameSound
<1> QED
  BY <1>4, <1>5

\* The frame of a thread outside any function is a frame.
LEMMA IdleFrame == Idle \in Frames /\ Idle.op = "idle" /\ Idle.result = "none"
<1>1. <<>> \in OutputMaps
  <2>1. <<>> \in [{} -> OutputStates]
    BY EmptySeq
  <2> QED
    BY <2>1 DEF OutputMaps
<1> QED
  BY <1>1 DEF Idle, Frames, Results

\* The initial states.
LEMMA CallInitSound == CallInit => NativeIInv
<1> SUFFICES ASSUME CallInit PROVE NativeIInv
  OBVIOUS
<1>1. PICK f \in Frames : f = Idle
  BY IdleFrame
<1>2. frame \in [Threads -> Frames] /\ \A t \in Threads : frame[t] = Idle
  BY <1>1 DEF CallInit
<1>3. StepTypes
  BY <1>2 DEF CallInit, StepTypes, FramesOK
<1> QED
  BY <1>2, <1>3 DEF NativeIInv, CallInit, GateOnce, HandlesBehindGate, FrameSound

\* A thread inside a function is in no idle frame.
LEMMA InFunction ==
    ASSUME NEW t \in Threads, FrameSound(t), frame[t].op # "idle" \/ frame[t].result # "none"
    PROVE  frame[t] # Idle
BY DEF Idle

\* A step of a function keeps the invariant.
LEMMA StepKept ==
    ASSUME NativeIInv, NEW t \in Threads, StepOf(t)
    PROVE  NativeIInv'
<1>1. StepTypes /\ GateOnce /\ HandlesBehindGate /\ FrameSound(t)
  BY DEF NativeIInv
<1>2. frame[t].op # "idle"
  BY DEF StepOf, PassGate, CheckArgument, Prepare, CallNative, RaiseError, PassStatus, CopyOutputs,
         FreeOutputs, GiveOutputs, Branch, Succeed, Doing, Running
<1>3. frame[t] # Idle /\ frame[t].op \in DOMAIN Operations /\ frame[t].pc \in Nat \ {0}
  BY <1>1, <1>2, InFunction DEF FrameSound
<1>4. (Moves(t) \/ Leaves(t)) /\ Kept(t)
  <2>1. gate \in {"empty", "compatible", "incompatible"} /\ queries \in Nat
    BY <1>1 DEF GateOnce
  <2> QED
    BY <1>1, <1>3, <2>1, StepShape
<1>5. FrameSound(t)'
  BY <1>1, <1>3, <1>4, MoverKept
<1>6. gate = "compatible" => gate' = "compatible"
  BY <1>4 DEF Kept, GateMoves
<1>7. ASSUME NEW u \in Threads, u # t PROVE FrameSound(u)'
  <2>1. frame'[u] = frame[u] /\ lastError'[u] = lastError[u] /\ handle'[u] = handle[u]
    BY <1>4, <1>7 DEF Kept, Others
  <2> QED
    BY <1>1, <1>6, <2>1, OtherKept DEF NativeIInv
<1>8. StepTypes' /\ GateOnce' /\ HandlesBehindGate'
  BY <1>1, <1>4, <1>6 DEF Kept, GateMoves, StepTypes, GateOnce, HandlesBehindGate
<1>9. abi' = abi
  BY <1>4 DEF Kept
<1> QED
  BY <1>5, <1>7, <1>8, <1>9 DEF NativeIInv

\* So does a call of a function,
LEMMA BeginKept ==
    ASSUME NativeIInv, NEW t \in Threads, NEW name \in DOMAIN Operations, Begin(t, name)
    PROVE  NativeIInv'
<1> DEFINE s == Operations[name]
           m == [o \in OutputsOf(s) |-> "absent"]
<1>1. StepTypes /\ GateOnce /\ HandlesBehindGate /\ abi \in {"supported", "other"}
  BY DEF NativeIInv
<1>2. m \in OutputMaps
  <2>1. OutputsOf(s) \in SUBSET AllOutputs
    BY DEF AllOutputs
  <2>2. m \in [OutputsOf(s) -> OutputStates]
    BY DEF OutputStates
  <2> QED
    BY <2>1, <2>2 DEF OutputMaps
<1>3. DOMAIN m = OutputsOf(s) /\ \A o \in OutputsOf(s) : m[o] = "absent"
  OBVIOUS
<1> HIDE DEF m
<1>4. PICK g \in Frames : g = [Idle EXCEPT !.op = name, !.pc = 1, !.out = m]
  <2>1. PICK f \in Frames : f = Idle
    BY IdleFrame
  <2> QED
    BY <1>2, <2>1 DEF Frames
<1>5. /\ g.op = name /\ g.pc = 1 /\ g.out = m /\ g.guards = {} /\ g.failed = 0
      /\ g.result = "none"
  BY <1>4 DEF Idle
<1>6. ~g.edited
  BY <1>4 DEF Idle
<1>7. frame' = [frame EXCEPT ![t] = g] /\ lastError' = [lastError EXCEPT ![t] = 0]
      /\ UNCHANGED <<abi, gate, queries, handle>>
  BY <1>4 DEF Begin, m
<1>8. StepTypes' /\ frame'[t] = g /\ lastError'[t] = 0
  BY <1>1, <1>7 DEF StepTypes, FramesOK
<1>9. GateOnce' /\ HandlesBehindGate' /\ abi' = abi
  BY <1>1, <1>7 DEF GateOnce, HandlesBehindGate
<1>10. ASSUME NEW u \in Threads, u # t PROVE FrameSound(u)'
  <2>1. frame'[u] = frame[u] /\ lastError'[u] = lastError[u] /\ handle'[u] = handle[u]
    BY <1>1, <1>7, <1>10 DEF StepTypes, FramesOK
  <2> QED
    BY <1>1, <1>7, <2>1, OtherKept DEF NativeIInv
<1>11. Script(t)' = s
  BY <1>5, <1>8 DEF Script
<1>12. WellWritten(s) /\ Len(s) \in Nat /\ DOMAIN s = 1 .. Len(s)
  BY NativeCallAssumption DEF WellWritten
<1>13. OnTheWay(t)'
  <2>1. \A i \in DOMAIN s : ~(i < 1)
    BY <1>12
  <2>2. GatesPassed(t)' /\ ChecksPassed(t)' /\ EditsBehind(t)' /\ ErrorsOwn(t)'
    BY <1>5, <1>6, <1>8, <1>11, <2>1
       DEF GatesPassed, ChecksPassed, EditsBehind, ErrorsOwn, Steps
  <2>3. ASSUME NEW o \in OutputsOf(s) PROVE Sound(t, o)'
    <3>1. ASSUME NEW i \in Touching(s, o) PROVE GuardSound(t, o, i)'
      <4>1. i \in Nat /\ i # 0
        BY <1>12 DEF Touching
      <4> QED
        BY <1>3, <1>5, <1>8, <4>1 DEF GuardSound
    <3>2. ASSUME NEW i \in Touching(s, o), NEW f \in Touching(s, o), NEW e \in Touching(s, o),
                 LocalLife(s, o, i, f, e)
          PROVE  LocalSound(t, o, i, f, e)'
      <4>1. i \in Nat /\ f \in Nat /\ e \in Nat /\ i # 0 /\ i + 1 < f /\ f + 1 < e
        BY <1>12, <3>2 DEF Touching, LocalLife
      <4>2. m[o] = "absent" /\ o \notin g.guards
        BY <1>3, <1>5
      <4> QED
        BY <1>5, <1>8, <4>1, <4>2 DEF LocalSound
    <3>3. OutputsLive(s)
      BY <1>12 DEF WellWritten
    <3> QED
      BY <1>11, <3>1, <3>2, <3>3 DEF OutputsLive, Sound
  <2> QED
    BY <1>3, <1>5, <1>8, <2>2, <2>3 DEF OnTheWay
<1>14. FrameSound(t)'
  <2>1. Needs[name] \subseteq handle'[t]
    BY <1>7 DEF Begin
  <2>2. frame'[t].pc \in Nat \ {0} /\ frame'[t].op \in DOMAIN Operations /\ frame'[t].result = "none"
    BY <1>5, <1>8
  <2>3. DOMAIN frame'[t].out = OutputsOf(Script(t)')
        /\ \A o \in DOMAIN frame'[t].out : frame'[t].out[o] # "given"
    BY <1>3, <1>5, <1>8, <1>11
  <2> QED
    BY <1>5, <1>8, <1>13, <2>1, <2>2, <2>3 DEF FrameSound
<1> QED
  BY <1>1, <1>8, <1>9, <1>10, <1>14 DEF NativeIInv

\* the caller's taking of a result,
LEMMA TakeKept ==
    ASSUME NativeIInv, NEW t \in Threads, TakeResult(t)
    PROVE  NativeIInv'
<1> DEFINE given == {o \in DOMAIN frame[t].out \cap Handles : frame[t].out[o] = "given"}
<1>1. StepTypes /\ GateOnce /\ HandlesBehindGate /\ abi \in {"supported", "other"} /\ FrameSound(t)
  BY DEF NativeIInv
<1>2. /\ handle' = [handle EXCEPT ![t] = @ \cup given] /\ UNCHANGED <<abi, gate, queries, lastError>>
      /\ frame' = [frame EXCEPT ![t] = Idle] /\ frame[t].result # "none"
  BY DEF TakeResult
<1>3. frame[t] # Idle
  BY <1>1, <1>2, InFunction
<1>4. given # {} => gate = "compatible"
  BY <1>1, <1>3 DEF FrameSound
<1>5. given \subseteq Handles
  OBVIOUS
<1> HIDE DEF given
<1>6. PICK f \in Frames : f = Idle
  BY IdleFrame
<1>7. StepTypes' /\ frame'[t] = Idle
  BY <1>1, <1>2, <1>6 DEF StepTypes, FramesOK
<1>8. /\ handle' \in [Threads -> SUBSET Handles] /\ handle'[t] = handle[t] \cup given
      /\ \A u \in Threads : u # t => handle'[u] = handle[u] /\ frame'[u] = frame[u]
  BY <1>1, <1>2, <1>5 DEF StepTypes, FramesOK, HandlesBehindGate
<1>9. HandlesBehindGate'
  <2>1. ASSUME NEW u \in Threads, handle'[u] # {} PROVE gate = "compatible"
    <3>1. CASE u = t
      BY <1>1, <1>4, <1>8, <2>1, <3>1 DEF HandlesBehindGate
    <3>2. CASE u # t
      BY <1>1, <1>8, <2>1, <3>2 DEF HandlesBehindGate
    <3> QED
      BY <3>1, <3>2
  <2> QED
    BY <1>2, <1>8, <2>1 DEF HandlesBehindGate
<1>10. GateOnce' /\ abi' = abi
  BY <1>1, <1>2 DEF GateOnce
<1>11. ASSUME NEW u \in Threads, u # t PROVE FrameSound(u)'
  <2>1. frame'[u] = frame[u] /\ lastError'[u] = lastError[u] /\ handle'[u] = handle[u]
    BY <1>2, <1>8, <1>11
  <2> QED
    BY <1>1, <1>2, <2>1, OtherKept DEF NativeIInv
<1>12. FrameSound(t)'
  BY <1>7 DEF FrameSound, Idle
<1> QED
  BY <1>1, <1>7, <1>9, <1>10, <1>11, <1>12 DEF NativeIInv

\* and the drop of a handle by a thread that is in no function.
LEMMA DropKept ==
    ASSUME NativeIInv, NEW t \in Threads, NEW h \in Handles, DropHandle(t, h)
    PROVE  NativeIInv'
<1>1. StepTypes /\ GateOnce /\ HandlesBehindGate /\ abi \in {"supported", "other"} /\ FrameSound(t)
  BY DEF NativeIInv
<1>2. /\ handle' = [handle EXCEPT ![t] = @ \ {h}] /\ frame[t].op = "idle"
      /\ UNCHANGED <<abi, gate, queries, frame, lastError>>
  BY DEF DropHandle
<1>3. frame[t] = Idle
  BY <1>1, <1>2, NativeCallAssumption DEF FrameSound
<1>4. /\ handle' \in [Threads -> SUBSET Handles] /\ handle'[t] \subseteq handle[t]
      /\ \A u \in Threads : u # t => handle'[u] = handle[u]
  BY <1>1, <1>2 DEF HandlesBehindGate
<1>5. HandlesBehindGate' /\ GateOnce' /\ StepTypes' /\ abi' = abi
  BY <1>1, <1>2, <1>4 DEF HandlesBehindGate, GateOnce, StepTypes, FramesOK
<1>6. ASSUME NEW u \in Threads, u # t PROVE FrameSound(u)'
  BY <1>1, <1>2, <1>4, <1>6, OtherKept DEF NativeIInv
<1>7. FrameSound(t)'
  BY <1>2, <1>3 DEF FrameSound
<1> QED
  BY <1>1, <1>5, <1>6, <1>7 DEF NativeIInv

\* Every step of every thread keeps the invariant.
LEMMA CallNextKept == NativeIInv /\ [CallNext]_callVars => NativeIInv'
<1> SUFFICES ASSUME NativeIInv, [CallNext]_callVars PROVE NativeIInv'
  OBVIOUS
<1>1. CASE CallNext
  <2>1. PICK t \in Threads :
           \/ StepOf(t)
           \/ \E name \in DOMAIN Operations : Begin(t, name)
           \/ TakeResult(t)
           \/ \E h \in Handles : DropHandle(t, h)
    BY <1>1 DEF CallNext
  <2> QED
    BY <2>1, StepKept, BeginKept, TakeKept, DropKept
<1>2. CASE UNCHANGED callVars
  <2>1. UNCHANGED <<abi, gate, queries, frame, lastError, handle>>
    BY <1>2 DEF callVars
  <2>2. ASSUME NEW u \in Threads PROVE FrameSound(u)'
    BY <2>1, OtherKept DEF NativeIInv
  <2> QED
    BY <2>1, <2>2 DEF NativeIInv, GateOnce, HandlesBehindGate, StepTypes, FramesOK
<1> QED
  BY <1>1, <1>2

\* The invariant of the executions.
LEMMA CallsSound == CallSpec => []NativeIInv
<1> QED
  BY CallInitSound, CallNextKept, PTL DEF CallSpec

\* The step at hand of a function on its way, and the life of an output in it.
LEMMA AtHand ==
    ASSUME NativeIInv, NEW t \in Threads, Running(t), ~Ended(t)
    PROVE  /\ frame[t].op \in DOMAIN Operations /\ OnTheWay(t)
           /\ DOMAIN frame[t].out = OutputsOf(Script(t)) /\ Needs[frame[t].op] \subseteq handle[t]
           /\ frame[t].pc \in Nat \ {0} /\ frame[t].pc \in DOMAIN Script(t)
           /\ Len(Script(t)) \in Nat /\ DOMAIN Script(t) = 1 .. Len(Script(t))
           /\ StepAt(t) = Script(t)[frame[t].pc]
           /\ StepAt(t).outs \subseteq DOMAIN frame[t].out
<1>1. StepTypes /\ FrameSound(t)
  BY DEF NativeIInv
<1>2. frame[t] # Idle /\ frame[t].result = "none"
  BY <1>1, InFunction DEF Running
<1>3. /\ frame[t].op \in DOMAIN Operations /\ OnTheWay(t)
      /\ DOMAIN frame[t].out = OutputsOf(Script(t)) /\ Needs[frame[t].op] \subseteq handle[t]
      /\ frame[t].pc \in Nat \ {0}
  BY <1>1, <1>2 DEF FrameSound
<1> QED
  BY <1>1, <1>3, InScript DEF StepAt

\* What an output of the step at hand is.
LEMMA OutputAtHand ==
    ASSUME NativeIInv, NEW t \in Threads, Running(t), ~Ended(t), NEW o \in StepAt(t).outs
    PROVE  /\ StepAt(t).do \in {"copy_out", "copy_later", "give"} => frame[t].out[o] = "full"
           /\ StepAt(t).do = "copy_on_error" => frame[t].out[o] \notin {"absent", "freed"}
           /\ StepAt(t).do \in {"free", "free_on_error"} =>
                 frame[t].out[o] \in {"empty", "partial", "full"} /\ o \notin frame[t].guards
<1> DEFINE s == Script(t)
           now == frame[t].out[o]
           do == StepAt(t).do
<1>1. PICK p \in Nat : p = frame[t].pc /\ p # 0
  BY AtHand
<1>2. /\ Len(s) \in Nat /\ DOMAIN s = 1 .. Len(s) /\ p \in DOMAIN s /\ do = s[p].do
      /\ p \in Touching(s, o) /\ Sound(t, o)
  BY <1>1, AtHand DEF Touching, OnTheWay
<1>3. ASSUME NEW i \in Touching(s, o), GuardLife(s, o, i), GuardSound(t, o, i)
      PROVE  /\ do \in {"hold", "call", "edit", "copy_out", "give"}
             /\ do \in {"copy_out", "give"} => now = "full"
  <2>1. i \in Nat /\ s[i].do = "hold" /\ s[i+1].do \in {"call", "edit"}
    BY <1>2, <1>3 DEF GuardLife, Steps, NativeCalls, Touching
  <2>2. CASE p \in {i, i + 1}
    BY <1>2, <2>1, <2>2
  <2>3. CASE p > i + 2 /\ do \in {"copy_out", "give"}
    BY <1>1, <1>2, <1>3, <2>1, <2>3 DEF GuardSound
  <2> QED
    BY <1>2, <1>3, <2>2, <2>3 DEF GuardLife
<1>4. ASSUME NEW i \in Touching(s, o), NEW f \in Touching(s, o), NEW e \in Touching(s, o),
             LocalLife(s, o, i, f, e), LocalSound(t, o, i, f, e)
      PROVE  /\ do \in {"copy_out", "copy_later", "give"} => now = "full"
             /\ do = "copy_on_error" => now \notin {"absent", "freed"}
             /\ do \in {"free", "free_on_error"} =>
                   now \in {"empty", "partial", "full"} /\ o \notin frame[t].guards
  <2>1. i \in Int /\ f \in Int /\ e \in Int /\ e <= Len(s) /\ i + 1 < f /\ f + 1 < e
        /\ i <= p /\ p <= e
    BY <1>2, <1>4 DEF Touching, LocalLife
  <2>2. /\ s[i].do = "slot" /\ s[i+1].do \in {"call", "edit"} /\ s[f].do = "free_on_error"
        /\ s[f+1].do \in {"raise", "raise_saved"} /\ s[e].do \in {"free", "give"}
        /\ \A k \in i+2 .. f-1 : s[k].do \in {"save", "copy_on_error"}
        /\ \A k \in f+2 .. e-1 : s[k].do = "copy_later"
    BY <1>4 DEF LocalLife, Steps, NativeCalls
  <2>3. /\ i + 1 < p /\ p <= f =>
              IF frame[t].failed = 0 THEN now = "full" ELSE now \in {"empty", "partial"}
        /\ f + 1 < p /\ p <= e => now = "full"
        /\ o \notin frame[t].guards
    BY <1>1, <1>4 DEF LocalSound
  <2>4. CASE p = i \/ p = i + 1 \/ p = f + 1
    BY <1>2, <2>2, <2>4
  <2>5. CASE p \in i+2 .. f-1
    <3>1. do \in {"save", "copy_on_error"} /\ i + 1 < p /\ p <= f
      BY <1>2, <2>1, <2>2, <2>5
    <3> QED
      BY <2>3, <3>1
  <2>6. CASE p = f
    <3>1. do = "free_on_error" /\ i + 1 < p /\ p <= f
      BY <1>2, <2>1, <2>2, <2>6
    <3> QED
      BY <2>3, <3>1
  <2>7. CASE p \in f+2 .. e-1 \/ p = e
    <3>1. do \in {"copy_later", "free", "give"} /\ f + 1 < p
      BY <1>2, <2>1, <2>2, <2>7
    <3> QED
      BY <2>1, <2>3, <3>1
  <2>8. ~(p < i) /\ ~(p > e) /\ ~(f <= i + 1) /\ ~(e <= f + 1) /\ p \in Int
    BY <2>1
  <2> QED
    BY <2>1, <2>4, <2>5, <2>6, <2>7, <2>8, Places
<1> QED
  BY <1>2, <1>3, <1>4 DEF Sound

\* A frame has the types TypeOK names.
LEMMA FrameTypes ==
    ASSUME StepTypes, NEW t \in Threads
    PROVE  /\ frame[t].op \in DOMAIN Operations \cup {"idle"}
           /\ frame[t].result \in Results
           /\ \A o \in DOMAIN frame[t].out : frame[t].out[o] \in OutputStates
<1>1. PICK f \in Frames : f = frame[t]
  BY DEF StepTypes, FramesOK
<1>2. PICK S \in SUBSET AllOutputs : f.out \in [S -> OutputStates]
  BY <1>1 DEF Frames, OutputMaps
<1>3. f.op \in DOMAIN Operations \cup {"idle"} /\ f.result \in Results
  BY DEF Frames
<1>4. \A o \in DOMAIN f.out : f.out[o] \in OutputStates
  BY <1>2
<1> QED
  BY <1>1, <1>3, <1>4

\* Outputs are released once and read while they are filled.
LEMMA LifetimesFromInvariant == NativeIInv => OutputLifetimesKept
<1> SUFFICES ASSUME NativeIInv PROVE OutputLifetimesKept
  OBVIOUS
<1>1. TypeOK
  <2>1. queries \in Nat
    BY DEF NativeIInv, GateOnce
  <2> QED
    BY <2>1, FrameTypes DEF NativeIInv, GateOnce, HandlesBehindGate, TypeOK, Results
<1>2. OutputsReleasedOnce
  <2> SUFFICES ASSUME NEW t \in Threads
               PROVE  /\ frame[t].result # "none" =>
                            \A o \in DOMAIN frame[t].out :
                               \/ frame[t].out[o] \in {"absent", "freed"}
                               \/ frame[t].out[o] = "given" /\ frame[t].result = "ok"
                      /\ Doing(t, "free") \/ (Doing(t, "free_on_error") /\ frame[t].failed # 0) =>
                            \A o \in StepAt(t).outs \ frame[t].guards :
                               frame[t].out[o] \in {"empty", "partial", "full"}
                      /\ Doing(t, "free") \/ Doing(t, "free_on_error") =>
                            StepAt(t).outs \cap frame[t].guards = {}
    BY DEF OutputsReleasedOnce
  <2>1. ASSUME frame[t].result # "none" PROVE Over(t)
    BY <2>1, InFunction DEF NativeIInv, FrameSound
  <2>2. ASSUME Doing(t, "free") \/ Doing(t, "free_on_error"), NEW o \in StepAt(t).outs
        PROVE  frame[t].out[o] \in {"empty", "partial", "full"} /\ o \notin frame[t].guards
    BY <2>2, OutputAtHand DEF Doing
  <2> QED
    BY <2>1, <2>2 DEF Over
<1>3. ReadsOnlyFilled
  <2> SUFFICES ASSUME NEW t \in Threads, NEW o \in StepAt(t).outs
               PROVE  /\ Doing(t, "copy_out") \/ Doing(t, "copy_later") \/ Doing(t, "give") =>
                            frame[t].out[o] = "full"
                      /\ Doing(t, "copy_on_error") => frame[t].out[o] \notin {"absent", "freed"}
    BY DEF ReadsOnlyFilled
  <2> QED
    BY OutputAtHand DEF Doing
<1> QED
  BY <1>1, <1>2, <1>3 DEF OutputLifetimesKept

\* The native error returned is the function's own.
LEMMA OwnErrorFromInvariant == NativeIInv => OwnErrorReported
<1> SUFFICES ASSUME NativeIInv, NEW t \in Threads, frame[t].result = "native"
             PROVE  frame[t].of # 0 /\ frame[t].of = frame[t].failed
  BY DEF OwnErrorReported
<1>1. frame[t] # Idle /\ FrameSound(t)
  BY InFunction DEF NativeIInv
<1> QED
  BY <1>1 DEF FrameSound, Over

\* A refused function has not touched the file; the gate is asked once.
LEMMA RefusalsFromInvariant == NativeIInv => RefusedCallsHaveNoEffect
<1> SUFFICES ASSUME NativeIInv PROVE RefusedCallsHaveNoEffect
  OBVIOUS
<1>1. queries <= 1
  BY DEF NativeIInv, GateOnce
<1>2. ASSUME NEW t \in Threads, frame[t].result \in {"argument", "incompatible"}
      PROVE  ~frame[t].edited
  <2>1. frame[t] # Idle /\ FrameSound(t)
    BY <1>2, InFunction DEF NativeIInv
  <2> QED
    BY <1>2, <2>1 DEF FrameSound, Over
<1>3. ASSUME NEW t \in Threads, Doing(t, "call") \/ Doing(t, "edit")
      PROVE  gate = "compatible"
  <2>1. Running(t) /\ ~Ended(t) /\ StepAt(t).do \in {"call", "edit"}
    BY <1>3 DEF Doing
  <2>2. PICK p \in Nat : p = frame[t].pc
    BY <2>1, AtHand
  <2>3. p \in NativeCalls(Script(t)) /\ p <= frame[t].pc
    BY <2>1, <2>2, AtHand DEF NativeCalls, Steps
  <2> QED
    BY <2>1, <2>3, AtHand, Gated DEF NativeIInv, OnTheWay
<1> QED
  BY <1>1, <1>2, <1>3 DEF RefusedCallsHaveNoEffect

\* Storage given to a native call is released exactly once or handed to the
\* caller, and is read only between the call that fills it and that end:
\* whatever the functions of the wrapper, if written by the rules, and however
\* many threads run them against one gate.
THEOREM OutputsLiveAsOwned == CallSpec => []OutputLifetimesKept
<1> QED
  BY CallsSound, LifetimesFromInvariant, PTL

\* The error a function returns for the native library is that of its own call
\* that failed, in any interleaving of the threads: status_result and the two
\* manual error paths read the thread's last error before it can change.
THEOREM ReportedErrorIsOwn == CallSpec => []OwnErrorReported
<1> QED
  BY CallsSound, OwnErrorFromInvariant, PTL

\* An argument error or an incompatible library leaves the file untouched, no
\* native function but the version query runs before the gate has passed, and
\* the threads of the process together ask for the version at most once.
THEOREM RefusalsLeaveNoTrace == CallSpec => []RefusedCallsHaveNoEffect
<1> QED
  BY CallsSound, RefusalsFromInvariant, PTL

-----------------------------------------------------------------------------
(* ---- Certification ------------------------------------------------------- *)

(* A list of faults is passed when none of them is one.                     *)
LEMMA PassedIsFaultless ==
    ASSUME NEW checks, DOMAIN checks \subseteq Nat
    PROVE  FirstFailure(checks) = "none" <=> \A i \in DOMAIN checks : checks[i] = "none"
<1> DEFINE failed == {i \in DOMAIN checks : checks[i] # "none"}
<1>1. CASE failed = {}
  BY <1>1 DEF FirstFailure
<1>2. CASE failed # {}
  <2>1. failed \in SUBSET Nat
    OBVIOUS
  <2>2. \E i \in failed : \A j \in failed : i <= j
    <3> HIDE DEF failed
    <3> QED
      BY <1>2, <2>1, LeastNumber
  <2> DEFINE least == CHOOSE i \in failed : \A j \in failed : i <= j
  <2>3. least \in failed
    BY <2>2
  <2>4. FirstFailure(checks) = checks[least]
    BY <1>2 DEF FirstFailure
  <2> QED
    BY <2>3, <2>4
<1> QED
  BY <1>1, <1>2

(* The same for a list written out, of two checks.                          *)
LEMMA PassedTwo ==
    ASSUME NEW a, NEW b
    PROVE  FirstFailure(<<a, b>>) = "none" <=>
             (a = "none" /\ b = "none")
<1> DEFINE list == <<a, b>>
<1>1. DOMAIN list = 1 .. 2 /\ 1 .. 2 \subseteq Nat
  OBVIOUS
<1>2. list[1] = a /\ list[2] = b
  OBVIOUS
<1>3. \A i \in 1 .. 2 : i \in {1, 2}
  OBVIOUS
<1> HIDE DEF list
<1>4. FirstFailure(list) = "none" <=> \A i \in 1 .. 2 : list[i] = "none"
  BY <1>1, PassedIsFaultless
<1> QED
  BY <1>2, <1>3, <1>4 DEF list

(* Of three.                                                                *)
LEMMA PassedThree ==
    ASSUME NEW a, NEW b, NEW c
    PROVE  FirstFailure(<<a, b, c>>) = "none" <=>
             (a = "none" /\ b = "none" /\ c = "none")
<1> DEFINE list == <<a, b, c>>
<1>1. DOMAIN list = 1 .. 3 /\ 1 .. 3 \subseteq Nat
  OBVIOUS
<1>2. list[1] = a /\ list[2] = b /\ list[3] = c
  OBVIOUS
<1>3. \A i \in 1 .. 3 : i \in {1, 2, 3}
  OBVIOUS
<1> HIDE DEF list
<1>4. FirstFailure(list) = "none" <=> \A i \in 1 .. 3 : list[i] = "none"
  BY <1>1, PassedIsFaultless
<1> QED
  BY <1>2, <1>3, <1>4 DEF list

(* Of four.                                                                 *)
LEMMA PassedFour ==
    ASSUME NEW a, NEW b, NEW c, NEW d
    PROVE  FirstFailure(<<a, b, c, d>>) = "none" <=>
             (a = "none" /\ b = "none" /\ c = "none" /\ d = "none")
<1> DEFINE list == <<a, b, c, d>>
<1>1. DOMAIN list = 1 .. 4 /\ 1 .. 4 \subseteq Nat
  OBVIOUS
<1>2. list[1] = a /\ list[2] = b /\ list[3] = c /\ list[4] = d
  OBVIOUS
<1>3. \A i \in 1 .. 4 : i \in {1, 2, 3, 4}
  OBVIOUS
<1> HIDE DEF list
<1>4. FirstFailure(list) = "none" <=> \A i \in 1 .. 4 : list[i] = "none"
  BY <1>1, PassedIsFaultless
<1> QED
  BY <1>2, <1>3, <1>4 DEF list

(* Of five.                                                                 *)
LEMMA PassedFive ==
    ASSUME NEW a, NEW b, NEW c, NEW d, NEW e
    PROVE  FirstFailure(<<a, b, c, d, e>>) = "none" <=>
             (a = "none" /\ b = "none" /\ c = "none" /\ d = "none" /\ e = "none")
<1> DEFINE list == <<a, b, c, d, e>>
<1>1. DOMAIN list = 1 .. 5 /\ 1 .. 5 \subseteq Nat
  OBVIOUS
<1>2. list[1] = a /\ list[2] = b /\ list[3] = c /\ list[4] = d /\ list[5] = e
  OBVIOUS
<1>3. \A i \in 1 .. 5 : i \in {1, 2, 3, 4, 5}
  OBVIOUS
<1> HIDE DEF list
<1>4. FirstFailure(list) = "none" <=> \A i \in 1 .. 5 : list[i] = "none"
  BY <1>1, PassedIsFaultless
<1> QED
  BY <1>2, <1>3, <1>4 DEF list

(* Of six.                                                                  *)
LEMMA PassedSix ==
    ASSUME NEW a, NEW b, NEW c, NEW d, NEW e, NEW f
    PROVE  FirstFailure(<<a, b, c, d, e, f>>) = "none" <=>
             (a = "none" /\ b = "none" /\ c = "none" /\ d = "none" /\ e = "none" /\ f = "none")
<1> DEFINE list == <<a, b, c, d, e, f>>
<1>1. DOMAIN list = 1 .. 6 /\ 1 .. 6 \subseteq Nat
  OBVIOUS
<1>2. list[1] = a /\ list[2] = b /\ list[3] = c /\ list[4] = d /\ list[5] = e /\ list[6] = f
  OBVIOUS
<1>3. \A i \in 1 .. 6 : i \in {1, 2, 3, 4, 5, 6}
  OBVIOUS
<1> HIDE DEF list
<1>4. FirstFailure(list) = "none" <=> \A i \in 1 .. 6 : list[i] = "none"
  BY <1>1, PassedIsFaultless
<1> QED
  BY <1>2, <1>3, <1>4 DEF list

(* Of eight.                                                                *)
LEMMA PassedEight ==
    ASSUME NEW a, NEW b, NEW c, NEW d, NEW e, NEW f, NEW g, NEW h
    PROVE  FirstFailure(<<a, b, c, d, e, f, g, h>>) = "none" <=>
             (/\ a = "none" /\ b = "none" /\ c = "none" /\ d = "none"
              /\ e = "none" /\ f = "none" /\ g = "none" /\ h = "none")
<1> DEFINE list == <<a, b, c, d, e, f, g, h>>
<1>1. DOMAIN list = 1 .. 8 /\ 1 .. 8 \subseteq Nat
  OBVIOUS
<1>2. /\ list[1] = a /\ list[2] = b /\ list[3] = c /\ list[4] = d
      /\ list[5] = e /\ list[6] = f /\ list[7] = g /\ list[8] = h
  OBVIOUS
<1>3. \A i \in 1 .. 8 : i \in {1, 2, 3, 4, 5, 6, 7, 8}
  OBVIOUS
<1> HIDE DEF list
<1>4. FirstFailure(list) = "none" <=> \A i \in 1 .. 8 : list[i] = "none"
  BY <1>1, PassedIsFaultless
<1> QED
  BY <1>2, <1>3, <1>4 DEF list

(* One list after another.                                                  *)
LEMMA WorstPassed ==
    ASSUME NEW a, NEW b PROVE Worst(a, b) = "none" <=> a = "none" /\ b = "none"
BY DEF Worst

(* The equation of Joined, for which every prefix of the groups has its     *)
(* rows.                                                                    *)
Joins(f, groups) ==
    f = [g \in 0 .. Len(groups) |-> IF g = 0 THEN <<>> ELSE f[g - 1] \o groups[g]]

(* Joined is the choice of a function that satisfies its equation.          *)
LEMMA JoinedDefinition == ASSUME NEW groups PROVE Joined(groups) = CHOOSE f : Joins(f, groups)
BY DEF Joined, Joins

(* Such a function exists, so Joined obeys its equation and gives sequences *)
(* of rows.                                                                 *)
LEMMA JoinedIs ==
    ASSUME NEW S, NEW groups \in Seq(Seq(S))
    PROVE  /\ Joined(groups) \in [0 .. Len(groups) -> Seq(S)]
           /\ Joined(groups)[0] = <<>>
           /\ \A g \in 1 .. Len(groups) : Joined(groups)[g] = Joined(groups)[g - 1] \o groups[g]
<1> DEFINE n == Len(groups)
           append == [i \in 1 .. n |-> [x \in Seq(S) |-> x \o groups[i]]]
<1>1. n \in Nat /\ \A i \in 1 .. n : groups[i] \in Seq(S)
  OBVIOUS
<1>2. StepsStay(append, n, Seq(S))
  BY <1>1, ConcatProperties DEF StepsStay
<1>3. <<>> \in Seq(S)
  OBVIOUS
<1>4. PICK f : Iterates(f, n, Seq(S), <<>>, append)
  <2> HIDE DEF n, append
  <2> QED
    BY <1>1, <1>2, <1>3, RecursionDefined
<1>5. f \in [0 .. n -> Seq(S)] /\ f[0] = <<>> /\ \A i \in 1 .. n : f[i] = f[i - 1] \o groups[i]
  <2>1. \A i \in 1 .. n : i - 1 \in 0 .. n
    BY <1>1
  <2> QED
    BY <1>4, <2>1 DEF Iterates
<1>6. Joins(f, groups)
  <2>1. \A g \in 0 .. n : g # 0 => g \in 1 .. n
    BY <1>1
  <2> QED
    BY <1>5, <2>1 DEF Joins
<1>7. Joins(Joined(groups), groups)
  BY <1>6, JoinedDefinition
<1> DEFINE h == Joined(groups)
<1>8. h[0] = <<>> /\ \A i \in 1 .. n : h[i] = h[i - 1] \o groups[i]
  <2>1. 0 \in 0 .. n /\ \A i \in 1 .. n : i \in 0 .. n /\ i # 0
    BY <1>1
  <2> QED
    BY <1>7, <2>1 DEF Joins
<1>9. DOMAIN h = 0 .. n /\ h = [g \in 0 .. n |-> h[g]]
  BY <1>7 DEF Joins
<1> HIDE DEF h
<1>10. \A i \in 0 .. n : h[i] \in Seq(S)
  <2> DEFINE T == {i \in 0 .. n : h[i] \in Seq(S)}
  <2>1. 0 \in T
    <3>1. 0 \in 0 .. n
      BY <1>1
    <3>2. h[0] = <<>>
      BY <1>8
    <3>3. h[0] \in Seq(S)
      BY <1>3, <3>2, Zenon
    <3> HIDE DEF n
    <3> QED
      BY <3>1, <3>3
  <2>2. ASSUME NEW k \in 0 .. n - 1, k \in T PROVE k + 1 \in T
    <3>1. k + 1 \in 1 .. n /\ k + 1 \in 0 .. n /\ (k + 1) - 1 = k
      BY <1>1
    <3>2. h[k + 1] = h[k] \o groups[k + 1]
      BY <1>8, <3>1
    <3>3. h[k] \in Seq(S) /\ groups[k + 1] \in Seq(S)
      BY <1>1, <2>2, <3>1
    <3> QED
      BY <3>1, <3>2, <3>3, ConcatProperties
  <2>3. 0 .. n \subseteq T
    <3> HIDE DEF T, n
    <3> QED
      BY <1>1, <2>1, <2>2, IntervalInduction
  <2> QED
    BY <2>3
<1>11. h \in [0 .. n -> Seq(S)]
  BY <1>9, <1>10
<1> QED
  BY <1>8, <1>11 DEF h

(* The rows of a file are a sequence of rows.                               *)
LEMMA RowsAreRows ==
    ASSUME NEW S, NEW file, file.groups \in Seq(Seq(S))
    PROVE  /\ RowsOf(file) \in Seq(S)
           /\ DOMAIN RowsOf(file) = 1 .. Len(RowsOf(file))
           /\ Len(RowsOf(file)) \in Nat
           /\ \A i \in DOMAIN RowsOf(file) : RowsOf(file)[i] \in S
<1>1. Joined(file.groups) \in [0 .. Len(file.groups) -> Seq(S)]
  BY JoinedIs
<1>2. Len(file.groups) \in 0 .. Len(file.groups)
  OBVIOUS
<1>3. RowsOf(file) \in Seq(S)
  BY <1>1, <1>2 DEF RowsOf, Flat
<1> HIDE DEF RowsOf
<1> QED
  BY <1>3, LenProperties, ElementOfSeq

(* The row groups of a file divide its rows among them.                     *)
LEMMA IndexesCover ==
    ASSUME NEW S, NEW file, file.groups \in Seq(Seq(S))
    PROVE  /\ \A g \in DOMAIN file.groups : IndexesOf(file, g) \subseteq DOMAIN RowsOf(file)
           /\ \A i \in DOMAIN RowsOf(file) : \E g \in DOMAIN file.groups : i \in IndexesOf(file, g)
           /\ \A g \in DOMAIN file.groups : IndexesOf(file, g) \subseteq Nat
<1> DEFINE upto == Joined(file.groups)
           n == Len(file.groups)
           size(g) == Len(upto[g])
<1>1. n \in Nat /\ DOMAIN file.groups = 1 .. n /\ RowsOf(file) = upto[n]
  BY DEF RowsOf, Flat
<1>2. \A g \in 0 .. n : upto[g] \in Seq(S)
  BY JoinedIs
<1>3. upto[0] = <<>> /\ \A g \in 1 .. n : upto[g] = upto[g - 1] \o file.groups[g]
  BY JoinedIs
<1>4. \A g \in 1 .. n : file.groups[g] \in Seq(S)
  BY <1>1
<1> HIDE DEF upto
<1>5. \A g \in 0 .. n : size(g) \in Nat
  BY <1>2, LenProperties
<1>6. size(0) = 0
  BY <1>3
<1>7. \A g \in 1 .. n : size(g) >= size(g - 1)
  <2> SUFFICES ASSUME NEW g \in 1 .. n PROVE size(g) >= size(g - 1)
    OBVIOUS
  <2>1. g - 1 \in 0 .. n
    BY <1>1
  <2>2. Len(upto[g - 1] \o file.groups[g]) = Len(upto[g - 1]) + Len(file.groups[g])
    BY <1>2, <1>4, <2>1, ConcatProperties
  <2>3. Len(file.groups[g]) \in Nat
    BY <1>4, LenProperties
  <2>4. size(g) = size(g - 1) + Len(file.groups[g])
    BY <1>3, <2>2
  <2>5. size(g - 1) \in Nat
    BY <1>5, <2>1
  <2> HIDE DEF size
  <2> QED
    BY <2>3, <2>4, <2>5
<1> HIDE DEF size, n
<1>8. ASSUME NEW m \in 0 .. n PROVE \A g \in 0 .. m : size(g) <= size(m)
  <2> DEFINE T == {k \in 0 .. m : \A g \in 0 .. k : size(g) <= size(k)}
  <2>1. 0 \in T
    BY <1>1, <1>6
  <2>2. ASSUME NEW k \in 0 .. m - 1, k \in T PROVE k + 1 \in T
    <3>1. k + 1 \in 0 .. m /\ k + 1 \in 1 .. n /\ (k + 1) - 1 = k /\ k \in 0 .. n /\ k + 1 \in 0 .. n
      BY <1>1
    <3>2. size(k + 1) >= size(k)
      BY <1>7, <3>1
    <3>3. ASSUME NEW g \in 0 .. k + 1 PROVE size(g) <= size(k + 1)
      <4>1. g \in 0 .. n
        BY <1>1
      <4>2. CASE g = k + 1
        BY <1>5, <3>1, <4>2
      <4>3. CASE g \in 0 .. k
        BY <1>5, <2>2, <3>1, <3>2, <4>1, <4>3
      <4> QED
        BY <4>2, <4>3
    <3> QED
      BY <3>1, <3>3
  <2>3. m \in Nat
    BY <1>1
  <2>4. 0 .. m \subseteq T
    <3> HIDE DEF T
    <3> QED
      BY <2>1, <2>2, <2>3, IntervalInduction
  <2> QED
    BY <2>3, <2>4
<1>9. \A g \in 1 .. n : IndexesOf(file, g) = size(g - 1) + 1 .. size(g)
  BY DEF IndexesOf, size, upto
<1>10. DOMAIN RowsOf(file) = 1 .. size(n)
  BY <1>1, <1>2, LenProperties DEF size
<1>11. ASSUME NEW g \in 1 .. n
       PROVE  IndexesOf(file, g) \subseteq 1 .. size(n) /\ IndexesOf(file, g) \subseteq Nat
  <2>1. n \in 0 .. n /\ g \in 0 .. n /\ g - 1 \in 0 .. n
    BY <1>1
  <2>2. size(g) <= size(n)
    BY <1>8, <2>1
  <2> QED
    BY <1>5, <1>9, <2>1, <2>2
<1>12. ASSUME NEW i \in 1 .. size(n) PROVE \E g \in 1 .. n : i \in IndexesOf(file, g)
  <2> DEFINE T == {k \in 0 .. n : i <= size(k) => \E g \in 1 .. n : i \in IndexesOf(file, g)}
  <2>1. 0 \in T
    BY <1>1, <1>6
  <2>2. ASSUME NEW k \in 0 .. n - 1, k \in T PROVE k + 1 \in T
    <3>1. k + 1 \in 1 .. n /\ (k + 1) - 1 = k /\ k \in 0 .. n /\ k + 1 \in 0 .. n
      BY <1>1
    <3>2. size(k) \in Nat /\ size(k + 1) \in Nat
      BY <1>5, <3>1
    <3>3. IndexesOf(file, k + 1) = size(k) + 1 .. size(k + 1)
      BY <1>9, <3>1
    <3>4. i \in Int
      BY <1>1, <1>5
    <3>5. CASE i <= size(k)
      BY <2>2, <3>1, <3>5
    <3>6. CASE ~(i <= size(k))
      BY <3>1, <3>2, <3>3, <3>4, <3>6
    <3> QED
      BY <3>5, <3>6
  <2>3. 0 .. n \subseteq T
    <3> HIDE DEF T
    <3> QED
      BY <1>1, <2>1, <2>2, IntervalInduction
  <2>4. n \in T /\ i <= size(n)
    BY <1>1, <1>5, <2>3
  <2> QED
    BY <2>4
<1> QED
  BY <1>1, <1>10, <1>11, <1>12

(* The least and the greatest of the receive times.                         *)
Timed(R) == \A row \in R : row.nano \in Int /\ row.biz \in Int

(* Among finitely many rows one has the least receive time and one the      *)
(* greatest: by induction along the sequence, there being no theorem on     *)
(* finite sets of integers.                                                 *)
LEMMA SomeRowIsFirst ==
    ASSUME NEW R, Timed(R), NEW rows \in Seq(R), rows # <<>>
    PROVE  /\ \E i \in DOMAIN rows : \A j \in DOMAIN rows : rows[i].nano <= rows[j].nano
           /\ \E i \in DOMAIN rows : \A j \in DOMAIN rows : rows[i].nano >= rows[j].nano
<1> DEFINE n == Len(rows)
           Low(k) == \E i \in 1 .. k : \A j \in 1 .. k : rows[i].nano <= rows[j].nano
           High(k) == \E i \in 1 .. k : \A j \in 1 .. k : rows[i].nano >= rows[j].nano
           T == {k \in 0 .. n : k > 0 => Low(k) /\ High(k)}
<1>1. n \in Nat /\ n > 0 /\ DOMAIN rows = 1 .. n
  OBVIOUS
<1>2. \A i \in 1 .. n : rows[i].nano \in Int
  BY DEF Timed
<1>3. 0 \in T
  OBVIOUS
<1> HIDE DEF n
<1>4. ASSUME NEW k \in 0 .. n - 1, k \in T PROVE k + 1 \in T
  <2>1. /\ k \in Nat /\ k + 1 \in 1 .. n /\ k + 1 \in 0 .. n
        /\ \A j \in 1 .. k + 1 : j \in 1 .. n /\ (j = k + 1 \/ j \in 1 .. k)
    BY <1>1
  <2>2. CASE k = 0
    <3>1. \A j \in 1 .. k + 1 : j = 1
      BY <2>2
    <3>2. rows[1].nano \in Int /\ 1 \in 1 .. k + 1
      BY <1>2, <2>1, <2>2
    <3>3. rows[1].nano <= rows[1].nano /\ rows[1].nano >= rows[1].nano
      BY <3>2
    <3>4. Low(k + 1) /\ High(k + 1)
      BY <3>1, <3>2, <3>3, Zenon
    <3> QED
      BY <2>1, <3>4
  <2>3. CASE k > 0
    <3>1. Low(k) /\ High(k)
      BY <1>4, <2>3
    <3>2. PICK a \in 1 .. k : \A j \in 1 .. k : rows[a].nano <= rows[j].nano
      BY <3>1
    <3>3. PICK b \in 1 .. k : \A j \in 1 .. k : rows[b].nano >= rows[j].nano
      BY <3>1
    <3>4. a \in 1 .. k + 1 /\ b \in 1 .. k + 1 /\ k + 1 \in 1 .. k + 1
      BY <2>1
    <3>5. rows[a].nano \in Int /\ rows[b].nano \in Int /\ \A j \in 1 .. k + 1 : rows[j].nano \in Int
      BY <1>2, <2>1, <3>4
    <3>6. Low(k + 1)
      <4>1. CASE rows[a].nano <= rows[k + 1].nano
        BY <2>1, <3>2, <3>4, <4>1
      <4>2. CASE ~(rows[a].nano <= rows[k + 1].nano)
        <5>1. rows[k + 1].nano < rows[a].nano
          BY <3>4, <3>5, <4>2
        <5>2. ASSUME NEW j \in 1 .. k PROVE rows[k + 1].nano <= rows[j].nano
          BY <2>1, <3>2, <3>4, <3>5, <5>1, j \in 1 .. k + 1
        <5>3. rows[k + 1].nano <= rows[k + 1].nano
          BY <3>4, <3>5
        <5> QED
          BY <2>1, <3>4, <5>2, <5>3
      <4> QED
        BY <4>1, <4>2
    <3>7. High(k + 1)
      <4>1. CASE rows[b].nano >= rows[k + 1].nano
        BY <2>1, <3>3, <3>4, <4>1
      <4>2. CASE ~(rows[b].nano >= rows[k + 1].nano)
        <5>1. rows[k + 1].nano > rows[b].nano
          BY <3>4, <3>5, <4>2
        <5>2. ASSUME NEW j \in 1 .. k PROVE rows[k + 1].nano >= rows[j].nano
          BY <2>1, <3>3, <3>4, <3>5, <5>1, j \in 1 .. k + 1
        <5>3. rows[k + 1].nano >= rows[k + 1].nano
          BY <3>4, <3>5
        <5> QED
          BY <2>1, <3>4, <5>2, <5>3
      <4> QED
        BY <4>1, <4>2
    <3> QED
      BY <2>1, <3>6, <3>7
  <2> QED
    BY <2>1, <2>2, <2>3
<1>5. 0 .. n \subseteq T
  <2> HIDE DEF T
  <2> QED
    BY <1>1, <1>3, <1>4, IntervalInduction
<1>6. n \in T
  <2> HIDE DEF T
  <2> QED
    BY <1>1, <1>5
<1>7. Low(n) /\ High(n)
  <2> HIDE DEF Low, High
  <2> QED
    BY <1>1, <1>6
<1> QED
  BY <1>1, <1>7

(* Min and Max of the receive times are among them and bound them.          *)
LEMMA LeastAndGreatest ==
    ASSUME NEW R, Timed(R), NEW rows \in Seq(R), rows # <<>>
    PROVE  /\ Min(Times(rows)) \in Times(rows) /\ \A t \in Times(rows) : Min(Times(rows)) <= t
           /\ Max(Times(rows)) \in Times(rows) /\ \A t \in Times(rows) : t <= Max(Times(rows))
<1> DEFINE times == Times(rows)
<1>1. \E n \in times : \A t \in times : n <= t
  BY SomeRowIsFirst DEF Times
<1>2. \E n \in times : \A t \in times : n >= t
  BY SomeRowIsFirst DEF Times
<1>3. \A t \in times : t \in Int
  BY DEF Timed, Times
<1> HIDE DEF times
<1>4. Min(times) \in times /\ \A t \in times : Min(times) <= t
  BY <1>1 DEF Min
<1>5. Max(times) \in times /\ \A t \in times : Max(times) >= t
  BY <1>2 DEF Max
<1> HIDE DEF Min, Max
<1>6. \A t \in times : t <= Max(times)
  BY <1>3, <1>5
<1> QED
  BY <1>4, <1>5, <1>6 DEF times

-----------------------------------------------------------------------------
(* Rows and files of lanes.                                                 *)
LaneRows == [day : Int, channel : Int, biz : Int, nano : Int, ordinal : Int, kind : RowKinds,
             body : BOOLEAN]
LaneFiles == [groups : Seq(Seq(LaneRows)), columns : BOOLEAN, typed : BOOLEAN, nullable : BOOLEAN]

(* The key comparison passes the expected key and no other.                 *)
LEMMA KeyIsExpected ==
    ASSUME NEW observed, NEW wanted
    PROVE  KeyFault(observed, wanted) = "none" <=> observed = wanted
BY DEF KeyFault

(* The checks one payload record has passed, and one row of lanes.          *)
HeaderPassed(rows, entry, day, i) ==
    /\ decode_header(rows[i])
    /\ rows[i].day = day /\ rows[i].channel = entry.id
    /\ rows[i].biz = entry.first + i - 1
    /\ rows[i].biz <= entry.last /\ entry.first + i <= MaxKey
LanePassed(rows, entry, day, i) ==
    /\ rows[i].day >= 0 /\ rows[i].day = day
    /\ rows[i].channel >= 0 /\ rows[i].channel = entry.id
    /\ rows[i].biz >= 0
    /\ rows[i].biz = (IF i > 1 THEN rows[i - 1].biz + 1 ELSE entry.first)
    /\ rows[i].biz < MaxKey
    /\ rows[i].kind \in Kinds
(* The checks of what a scan has gathered against the manifest's entry.     *)
StateAgrees(state, entry) ==
    /\ state.rows = entry.rows
    /\ state.first = entry.first /\ state.last = entry.last
    /\ Given(entry.least, state.least = entry.least)
    /\ Given(entry.greatest, state.greatest = entry.greatest)
    /\ Given(entry.orders, state.orders = entry.orders)
    /\ Given(entry.trades, state.trades = entry.trades)

(* scan_payload_headers passes when every row does and the keys end at the  *)
(* last one.                                                                *)
LEMMA PayloadScanPassed ==
    ASSUME NEW rows \in Seq(PayloadRows), NEW entry, NEW day
    PROVE  scan_payload_headers(rows, entry, day) = "none" <=>
             /\ \A i \in DOMAIN rows : HeaderPassed(rows, entry, day, i)
             /\ entry.first + Len(rows) = entry.last + 1
<1> DEFINE checks(i) == FirstFailure(<<
               Unless(decode_header(rows[i]), "PayloadHeaderMismatch"),
               Unless(rows[i].day = day, "PayloadHeaderMismatch"),
               Unless(rows[i].channel = entry.id, "ChannelIdMismatch"),
               KeyFault(rows[i].biz, entry.first + i - 1),
               Unless(rows[i].biz <= entry.last, "BizIndexGap"),
               Unless(entry.first + i <= MaxKey, "BizIndexGap") >>)
           fault == [i \in DOMAIN rows |-> checks(i)]
<1>1. ASSUME NEW i \in DOMAIN rows PROVE checks(i) = "none" <=> HeaderPassed(rows, entry, day, i)
  BY PassedSix, KeyIsExpected DEF Unless, HeaderPassed
<1>2. DOMAIN fault = DOMAIN rows /\ DOMAIN rows \subseteq Nat
  BY LenProperties
<1>3. FirstFailure(fault) = "none" <=> \A i \in DOMAIN rows : checks(i) = "none"
  <2>1. \A i \in DOMAIN rows : fault[i] = checks(i)
    OBVIOUS
  <2> HIDE DEF checks, fault
  <2> QED
    BY <1>2, <2>1, PassedIsFaultless
<1>4. scan_payload_headers(rows, entry, day) =
        Worst(FirstFailure(fault), Unless(entry.first + Len(rows) = entry.last + 1, "BizIndexGap"))
  BY DEF scan_payload_headers
<1> HIDE DEF checks, fault
<1> QED
  BY <1>1, <1>3, <1>4, WorstPassed DEF Unless

(* certify_channel_artifact with the header scan, as one conjunction of     *)
(* what it checks.                                                          *)
LEMMA PayloadChannelPassed ==
    ASSUME NEW file, RowsOf(file) \in Seq(PayloadRows), NEW entry, NEW day,
           NEW options, options.header = TRUE
    PROVE  certify_channel_artifact(file, entry, day, options) = "none" <=>
             /\ RowCount(file) = entry.rows
             /\ entry.groups \in {0, Len(file.groups)} /\ file.width = Width /\ ~file.nullable
             /\ \A i \in DOMAIN RowsOf(file) : HeaderPassed(RowsOf(file), entry, day, i)
             /\ entry.first + Len(RowsOf(file)) = entry.last + 1
             /\ StateAgrees(Scanned(RowsOf(file)), entry)
<1> DEFINE fault == FirstFailure(<<
               Unless(RowCount(file) = entry.rows, "RowCountMismatch"),
               Unless(entry.groups \in {0, Len(file.groups)}, "RowCountMismatch"),
               Unless(file.width = Width, "FixedBinaryWidthMismatch"),
               Unless(~file.nullable, "PayloadHeaderMismatch") >>)
           state == Scanned(RowsOf(file))
           last == FirstFailure(<<
               Unless(state.rows = entry.rows, "RowCountMismatch"),
               Unless(state.first = entry.first /\ state.last = entry.last, "BizIndexGap"),
               Unless(Given(entry.least, state.least = entry.least), "PayloadHeaderMismatch"),
               Unless(Given(entry.greatest, state.greatest = entry.greatest), "PayloadHeaderMismatch"),
               Unless(Given(entry.orders, state.orders = entry.orders), "RowCountMismatch"),
               Unless(Given(entry.trades, state.trades = entry.trades), "RowCountMismatch") >>)
<1>1. certify_channel_artifact(file, entry, day, options) =
        Worst(Worst(fault, scan_payload_headers(RowsOf(file), entry, day)), last)
  BY DEF certify_channel_artifact
<1> HIDE DEF state
<1>2. fault = "none" <=>
        /\ RowCount(file) = entry.rows
        /\ entry.groups \in {0, Len(file.groups)} /\ file.width = Width /\ ~file.nullable
  BY PassedFour DEF Unless
<1>3. last = "none" <=> StateAgrees(state, entry)
  BY PassedSix DEF Unless, StateAgrees
<1> HIDE DEF fault, last
<1> QED
  BY <1>1, <1>2, <1>3, WorstPassed, PayloadScanPassed DEF state

(* Without the scan of the headers the row count is still compared.         *)
LEMMA PayloadRowsCounted ==
    ASSUME NEW file, NEW entry, NEW day, NEW options,
           certify_channel_artifact(file, entry, day, options) = "none"
    PROVE  RowCount(file) = entry.rows
<1> DEFINE fault == FirstFailure(<<
               Unless(RowCount(file) = entry.rows, "RowCountMismatch"),
               Unless(entry.groups \in {0, Len(file.groups)}, "RowCountMismatch"),
               Unless(file.width = Width, "FixedBinaryWidthMismatch"),
               Unless(~file.nullable, "PayloadHeaderMismatch") >>)
<1>1. fault = "none"
  BY WorstPassed DEF certify_channel_artifact, Worst
<1> QED
  BY <1>1, PassedFour DEF Unless

(* scan_row passes when the row is the channel's and the day's and its key  *)
(* follows the row before.                                                  *)
LEMMA LaneRowPassed ==
    ASSUME NEW rows, NEW entry \in ChannelEntries, NEW day \in Int, NEW expect, NEW i,
           expect.first = entry.first, expect.day = day, expect.channel = entry.id
    PROVE  scan_row(rows, expect, i) = "none" <=> LanePassed(rows, entry, day, i)
<1> DEFINE wanted == IF i > 1 THEN rows[i - 1].biz + 1
                       ELSE IF expect.first = Absent THEN rows[1].biz ELSE expect.first
<1>1. entry.first # Absent /\ day # Absent /\ entry.id # Absent
  BY CertificationAssumption DEF ChannelEntries
<1>2. wanted = IF i > 1 THEN rows[i - 1].biz + 1 ELSE entry.first
  BY <1>1
<1>3. scan_row(rows, expect, i) = FirstFailure(<<
        Unless(rows[i].day >= 0, "PayloadHeaderMismatch"),
        Unless(Given(expect.day, rows[i].day = expect.day), "PayloadHeaderMismatch"),
        Unless(rows[i].channel >= 0, "ChannelIdMismatch"),
        Unless(Given(expect.channel, rows[i].channel = expect.channel), "ChannelIdMismatch"),
        Unless(rows[i].biz >= 0, "PayloadHeaderMismatch"),
        KeyFault(rows[i].biz, wanted),
        Unless(rows[i].biz < MaxKey, "BizIndexGap"),
        Unless(rows[i].kind \in Kinds, "PayloadHeaderMismatch") >>)
  BY DEF scan_row
<1>4. scan_row(rows, expect, i) = "none" <=>
        /\ rows[i].day >= 0 /\ Given(expect.day, rows[i].day = expect.day)
        /\ rows[i].channel >= 0 /\ Given(expect.channel, rows[i].channel = expect.channel)
        /\ rows[i].biz >= 0 /\ rows[i].biz = wanted
        /\ rows[i].biz < MaxKey /\ rows[i].kind \in Kinds
  <2> HIDE DEF wanted
  <2> QED
    BY <1>3, PassedEight, KeyIsExpected DEF Unless
<1> HIDE DEF wanted
<1> QED
  BY <1>1, <1>2, <1>4 DEF Given, LanePassed

(* A batch passes when its view, its scan and its reconstruction do.        *)
LEMMA BatchPassed ==
    ASSUME NEW file, NEW g, NEW options, NEW expect, IndexesOf(file, g) \subseteq Nat
    PROVE  BatchFault(file, g, options, expect) = "none" <=>
             /\ file.columns /\ file.typed
             /\ options.scalar =>
                  \A i \in IndexesOf(file, g) : scan_row(RowsOf(file), expect, i) = "none"
             /\ options.legacy =>
                  /\ FitsReconstruction(file.groups[g])
                  /\ \A i \in IndexesOf(file, g) : Rebuilds(RowsOf(file)[i])
<1> DEFINE scanned == [i \in IndexesOf(file, g) |-> scan_row(RowsOf(file), expect, i)]
           rebuilt == [i \in IndexesOf(file, g) |->
                          Unless(Rebuilds(RowsOf(file)[i]), "PayloadHeaderMismatch")]
           records == IF ~options.legacy THEN "none"
                      ELSE Worst(Unless(FitsReconstruction(file.groups[g]), "InvalidInput"),
                                 FirstFailure(rebuilt))
           keys == IF options.scalar THEN FirstFailure(scanned) ELSE "none"
<1>1. BatchFault(file, g, options, expect) =
        Worst(from_column_batch(file), Worst(keys, records))
  BY DEF BatchFault
<1>2. from_column_batch(file) = "none" <=> file.columns /\ file.typed
  BY PassedTwo DEF from_column_batch, Unless
<1>3. FirstFailure(scanned) = "none" <=>
        \A i \in IndexesOf(file, g) : scan_row(RowsOf(file), expect, i) = "none"
  <2>1. DOMAIN scanned \subseteq Nat
    OBVIOUS
  <2>2. FirstFailure(scanned) = "none" <=> \A i \in DOMAIN scanned : scanned[i] = "none"
    <3> HIDE DEF scanned
    <3> QED
      BY <2>1, PassedIsFaultless
  <2> QED
    BY <2>2
<1>4. FirstFailure(rebuilt) = "none" <=>
        \A i \in IndexesOf(file, g) : Rebuilds(RowsOf(file)[i])
  <2>1. DOMAIN rebuilt \subseteq Nat
    OBVIOUS
  <2>2. FirstFailure(rebuilt) = "none" <=> \A i \in DOMAIN rebuilt : rebuilt[i] = "none"
    <3> HIDE DEF rebuilt
    <3> QED
      BY <2>1, PassedIsFaultless
  <2>3. \A i \in IndexesOf(file, g) : rebuilt[i] = "none" <=> Rebuilds(RowsOf(file)[i])
    BY DEF Unless
  <2>4. DOMAIN rebuilt = IndexesOf(file, g)
    OBVIOUS
  <2> HIDE DEF rebuilt
  <2> QED
    BY <2>2, <2>3, <2>4
<1> HIDE DEF scanned, rebuilt
<1>5. keys = "none" <=> (options.scalar => FirstFailure(scanned) = "none")
  OBVIOUS
<1>6. records = "none" <=>
        (options.legacy => FitsReconstruction(file.groups[g]) /\ FirstFailure(rebuilt) = "none")
  BY WorstPassed DEF Unless
<1> HIDE DEF keys, records
<1> QED
  BY <1>1, <1>2, <1>3, <1>4, <1>5, <1>6, WorstPassed

(* What a file of lanes has passed.                                         *)
FileState(file, options) ==
    IF options.scalar THEN Scanned(RowsOf(file)) ELSE [first |-> Absent, last |-> Absent]
FilePassed(file, options, expect) ==
    /\ Given(expect.rows, RowCount(file) = expect.rows)
    /\ Given(expect.max, RowCount(file) <= expect.max)
    /\ file.columns /\ ~file.nullable /\ file.typed
    /\ \A g \in DOMAIN file.groups : BatchFault(file, g, options, expect) = "none"
    /\ Given(expect.first, FileState(file, options).first = expect.first)
    /\ Given(expect.last, FileState(file, options).last = expect.last)
    /\ options.legacy => Given(expect.hash, LegacyRows(file) = expect.hash)

(* certify_compact_l2_physical_v2_file, as one conjunction of what it       *)
(* checks.                                                                  *)
LEMMA LaneFilePassed ==
    ASSUME NEW S, NEW file, file.groups \in Seq(Seq(S)), NEW options, NEW expect
    PROVE  certify_compact_l2_physical_v2_file(file, options, expect) = "none" <=>
             FilePassed(file, options, expect)
<1> DEFINE before == FirstFailure(<<
               Unless(Given(expect.rows, RowCount(file) = expect.rows), "RowCountMismatch"),
               Unless(Given(expect.max, RowCount(file) <= expect.max), "RowCountMismatch") >>)
           batches == [g \in DOMAIN file.groups |-> BatchFault(file, g, options, expect)]
           state == FileState(file, options)
           after == FirstFailure(<<
               Unless(Given(expect.first, state.first = expect.first), "BizIndexGap"),
               Unless(Given(expect.last, state.last = expect.last), "BizIndexGap"),
               Unless(options.legacy => Given(expect.hash, LegacyRows(file) = expect.hash),
                      "ChecksumMismatch") >>)
<1>1. certify_compact_l2_physical_v2_file(file, options, expect) =
        Worst(Worst(Worst(before, certify_physical_v2_row_group_summaries(file)),
                    FirstFailure(batches)), after)
  BY DEF certify_compact_l2_physical_v2_file, FileState
<1>2. before = "none" <=> /\ Given(expect.rows, RowCount(file) = expect.rows)
                          /\ Given(expect.max, RowCount(file) <= expect.max)
  BY PassedTwo DEF Unless
<1>3. certify_physical_v2_row_group_summaries(file) = "none" <=>
        file.columns /\ ~file.nullable /\ file.typed
  BY PassedThree DEF certify_physical_v2_row_group_summaries, Unless
<1>4. FirstFailure(batches) = "none" <=>
        \A g \in DOMAIN file.groups : BatchFault(file, g, options, expect) = "none"
  <2>1. DOMAIN batches = DOMAIN file.groups /\ DOMAIN file.groups \subseteq Nat
    BY LenProperties
  <2>2. \A g \in DOMAIN file.groups : batches[g] = BatchFault(file, g, options, expect)
    OBVIOUS
  <2> HIDE DEF batches
  <2> QED
    BY <2>1, <2>2, PassedIsFaultless
<1>5. after = "none" <=>
        /\ Given(expect.first, state.first = expect.first)
        /\ Given(expect.last, state.last = expect.last)
        /\ options.legacy => Given(expect.hash, LegacyRows(file) = expect.hash)
  BY PassedThree DEF Unless
<1> HIDE DEF before, batches, after
<1> QED
  BY <1>1, <1>2, <1>3, <1>4, <1>5, WorstPassed DEF FilePassed

(* A channel's file of lanes, when its rows are scanned.                    *)
LaneChannelPassed(file, entry, day, legacy) ==
    /\ RowCount(file) = entry.rows
    /\ entry.groups \in {0, Len(file.groups)}
    /\ file.columns /\ ~file.nullable /\ file.typed
    /\ \A i \in DOMAIN RowsOf(file) : LanePassed(RowsOf(file), entry, day, i)
    /\ legacy =>
         /\ \A g \in DOMAIN file.groups : FitsReconstruction(file.groups[g])
         /\ \A i \in DOMAIN RowsOf(file) : Rebuilds(RowsOf(file)[i])
    /\ StateAgrees(Scanned(RowsOf(file)), entry)

(* All batches of a channel's file pass when all its rows do: the batches   *)
(* divide the rows.                                                         *)
LEMMA BatchesPassed ==
    ASSUME NEW S, NEW file, file.groups \in Seq(Seq(S)), NEW entry \in ChannelEntries,
           NEW day \in Int, NEW options, options.scalar = TRUE, NEW expect,
           expect.first = entry.first, expect.day = day, expect.channel = entry.id
    PROVE  (\A g \in DOMAIN file.groups : BatchFault(file, g, options, expect) = "none") <=>
             /\ DOMAIN file.groups # {} => file.columns /\ file.typed
             /\ \A i \in DOMAIN RowsOf(file) : LanePassed(RowsOf(file), entry, day, i)
             /\ options.legacy =>
                  /\ \A g \in DOMAIN file.groups : FitsReconstruction(file.groups[g])
                  /\ \A i \in DOMAIN RowsOf(file) : Rebuilds(RowsOf(file)[i])
<1> DEFINE rows == RowsOf(file)
<1>1. /\ \A g \in DOMAIN file.groups : IndexesOf(file, g) \subseteq DOMAIN rows
      /\ \A i \in DOMAIN rows : \E g \in DOMAIN file.groups : i \in IndexesOf(file, g)
      /\ \A g \in DOMAIN file.groups : IndexesOf(file, g) \subseteq Nat
  BY IndexesCover
<1>2. \A i \in DOMAIN rows : scan_row(rows, expect, i) = "none" <=> LanePassed(rows, entry, day, i)
  BY LaneRowPassed
<1>3. \A g \in DOMAIN file.groups : BatchFault(file, g, options, expect) = "none" <=>
             /\ file.columns /\ file.typed
             /\ \A i \in IndexesOf(file, g) : scan_row(rows, expect, i) = "none"
             /\ options.legacy =>
                  /\ FitsReconstruction(file.groups[g])
                  /\ \A i \in IndexesOf(file, g) : Rebuilds(rows[i])
  BY <1>1, BatchPassed
<1> HIDE DEF rows
<1>4. \A g \in DOMAIN file.groups : BatchFault(file, g, options, expect) = "none" <=>
             /\ file.columns /\ file.typed
             /\ \A i \in IndexesOf(file, g) : LanePassed(rows, entry, day, i)
             /\ options.legacy =>
                  /\ FitsReconstruction(file.groups[g])
                  /\ \A i \in IndexesOf(file, g) : Rebuilds(rows[i])
  BY <1>1, <1>2, <1>3
<1> QED
  BY <1>1, <1>4, Zenon DEF rows

(* certify_physical_v2_channel_artifact with the scalar scan, as one        *)
(* conjunction.                                                             *)
LEMMA LaneChannelIs ==
    ASSUME NEW S, NEW file, file.groups \in Seq(Seq(S)), NEW m, m.day \in Int,
           NEW entry \in ChannelEntries, NEW options, options.scalar = TRUE
    PROVE  certify_physical_v2_channel_artifact(file, m, entry, options) = "none" <=>
             LaneChannelPassed(file, entry, m.day, options.legacy)
<1> DEFINE expect == ExpectedOf(m, entry, options)
           state == Scanned(RowsOf(file))
           last == FirstFailure(<<
               Unless(entry.groups \in {0, Len(file.groups)}, "RowCountMismatch"),
               Unless(options.scalar => Given(entry.least, state.least = entry.least),
                      "PayloadHeaderMismatch"),
               Unless(options.scalar => Given(entry.greatest, state.greatest = entry.greatest),
                      "PayloadHeaderMismatch"),
               Unless(options.scalar => Given(entry.orders, state.orders = entry.orders),
                      "RowCountMismatch"),
               Unless(options.scalar => Given(entry.trades, state.trades = entry.trades),
                      "RowCountMismatch") >>)
<1>1. certify_physical_v2_channel_artifact(file, m, entry, options) =
        Worst(certify_compact_l2_physical_v2_file(file, options, expect), last)
  BY DEF certify_physical_v2_channel_artifact
<1>2. /\ expect.rows = entry.rows /\ expect.max = entry.rows /\ expect.hash = Absent
      /\ expect.day = m.day /\ expect.channel = entry.id
      /\ expect.first = entry.first /\ expect.last = entry.last
  BY DEF ExpectedOf
<1>3. state.rows = RowCount(file) /\ FileState(file, options) = state
  BY DEF Scanned, RowCount, FileState
<1>4. /\ entry.rows \in Int /\ entry.first # Absent /\ entry.last # Absent
      /\ entry.rows # Absent
  BY CertificationAssumption DEF ChannelEntries
<1> HIDE DEF state, expect
<1>5. last = "none" <=>
        /\ entry.groups \in {0, Len(file.groups)}
        /\ Given(entry.least, state.least = entry.least)
        /\ Given(entry.greatest, state.greatest = entry.greatest)
        /\ Given(entry.orders, state.orders = entry.orders)
        /\ Given(entry.trades, state.trades = entry.trades)
  BY PassedFive DEF Unless
<1>6. certify_compact_l2_physical_v2_file(file, options, expect) = "none" <=>
        FilePassed(file, options, expect)
  BY LaneFilePassed
<1>7. (\A g \in DOMAIN file.groups : BatchFault(file, g, options, expect) = "none") <=>
             /\ DOMAIN file.groups # {} => file.columns /\ file.typed
             /\ \A i \in DOMAIN RowsOf(file) : LanePassed(RowsOf(file), entry, m.day, i)
             /\ options.legacy =>
                  /\ \A g \in DOMAIN file.groups : FitsReconstruction(file.groups[g])
                  /\ \A i \in DOMAIN RowsOf(file) : Rebuilds(RowsOf(file)[i])
  BY <1>2, BatchesPassed
<1>8. FilePassed(file, options, expect) <=>
        /\ RowCount(file) = entry.rows
        /\ file.columns /\ ~file.nullable /\ file.typed
        /\ \A i \in DOMAIN RowsOf(file) : LanePassed(RowsOf(file), entry, m.day, i)
        /\ options.legacy =>
             /\ \A g \in DOMAIN file.groups : FitsReconstruction(file.groups[g])
             /\ \A i \in DOMAIN RowsOf(file) : Rebuilds(RowsOf(file)[i])
        /\ state.first = entry.first /\ state.last = entry.last
  <2>1. Given(expect.rows, RowCount(file) = expect.rows) <=> RowCount(file) = entry.rows
    BY <1>2, <1>4 DEF Given
  <2>2. RowCount(file) = entry.rows => Given(expect.max, RowCount(file) <= expect.max)
    BY <1>2, <1>4 DEF Given
  <2>3. Given(expect.hash, LegacyRows(file) = expect.hash)
    BY <1>2 DEF Given
  <2>4. /\ Given(expect.first, state.first = expect.first) <=> state.first = entry.first
        /\ Given(expect.last, state.last = expect.last) <=> state.last = entry.last
    BY <1>2, <1>4 DEF Given
  <2> QED
    BY <1>3, <1>7, <2>1, <2>2, <2>3, <2>4 DEF FilePassed
<1> HIDE DEF last
<1> QED
  BY <1>1, <1>3, <1>5, <1>6, <1>8, WorstPassed DEF LaneChannelPassed, StateAgrees, state

(* Without the scan of the rows the row count is still compared.            *)
LEMMA LaneRowsCounted ==
    ASSUME NEW S, NEW file, file.groups \in Seq(Seq(S)), NEW m, NEW entry \in ChannelEntries,
           NEW options, certify_physical_v2_channel_artifact(file, m, entry, options) = "none"
    PROVE  RowCount(file) = entry.rows
<1> DEFINE expect == ExpectedOf(m, entry, options)
<1>1. certify_compact_l2_physical_v2_file(file, options, expect) = "none"
  BY DEF certify_physical_v2_channel_artifact, Worst
<1>2. expect.rows = entry.rows /\ entry.rows # Absent
  BY CertificationAssumption DEF ExpectedOf, ChannelEntries
<1> HIDE DEF expect
<1>3. FilePassed(file, options, expect)
  BY <1>1, LaneFilePassed
<1> QED
  BY <1>2, <1>3 DEF FilePassed, Given

(* A key that follows the row before it, from the first key on, is first    *)
(* plus position: the lane scan carries the key from one row group to the   *)
(* next.                                                                    *)
LEMMA LaneKeysFollow ==
    ASSUME NEW rows \in Seq(LaneRows), NEW entry \in ChannelEntries, NEW day,
           \A i \in DOMAIN rows : LanePassed(rows, entry, day, i)
    PROVE  \A i \in DOMAIN rows : rows[i].biz = entry.first + i - 1
<1> DEFINE n == Len(rows)
           T == {k \in 0 .. n : k > 0 => rows[k].biz = entry.first + k - 1}
<1>1. n \in Nat /\ DOMAIN rows = 1 .. n
  BY LenProperties
<1>2. entry.first \in Int
  BY DEF ChannelEntries
<1>3. 0 \in T
  BY <1>1
<1>4. ASSUME NEW k \in 0 .. n - 1, k \in T PROVE k + 1 \in T
  <2>1. k + 1 \in 1 .. n /\ k + 1 \in 0 .. n /\ k \in Nat /\ (k + 1) - 1 = k
    BY <1>1
  <2>2. rows[k + 1].biz = IF k + 1 > 1 THEN rows[(k + 1) - 1].biz + 1 ELSE entry.first
    BY <1>1, <2>1 DEF LanePassed
  <2>3. CASE k = 0
    BY <1>2, <2>1, <2>2, <2>3
  <2>4. CASE k > 0
    <3>1. rows[k].biz = entry.first + k - 1
      BY <1>4, <2>4
    <3>2. rows[k + 1].biz = rows[k].biz + 1
      BY <2>1, <2>2, <2>4
    <3> QED
      BY <1>2, <2>1, <3>1, <3>2
  <2> QED
    BY <2>1, <2>3, <2>4
<1>5. 0 .. n \subseteq T
  <2> HIDE DEF T, n
  <2> QED
    BY <1>1, <1>3, <1>4, IntervalInduction
<1>6. \A i \in 1 .. n : i \in T /\ i > 0
  <2> HIDE DEF T
  <2> QED
    BY <1>1, <1>5
<1> QED
  BY <1>1, <1>6

(* Rows in sequence, with what the scan gathered stated by the manifest,    *)
(* tile the channel.                                                        *)
InSequence(rows, entry, day) ==
    /\ \A i \in DOMAIN rows : /\ rows[i].day = day /\ rows[i].channel = entry.id
                              /\ rows[i].biz = entry.first + i - 1
    /\ StateAgrees(Scanned(rows), entry)

(* Rows in sequence are the declared run of keys, each once and in order,   *)
(* with the counts and receive times the manifest states.                   *)
LEMMA SequenceTiles ==
    ASSUME NEW R, Timed(R), NEW rows \in Seq(R), NEW entry \in ChannelEntries, NEW day,
           InSequence(rows, entry, day)
    PROVE  Tiles(rows, entry, day) /\ rows # <<>> /\ entry.first + Len(rows) = entry.last + 1
<1> DEFINE n == Len(rows)
           first == entry.first
           last == entry.last
<1>1. n \in Nat /\ DOMAIN rows = 1 .. n /\ first \in Int /\ last \in Int /\ first # Absent
  BY LenProperties, CertificationAssumption DEF ChannelEntries
<1>2. Scanned(rows).first = first /\ Scanned(rows).last = last
  BY DEF InSequence, StateAgrees
<1>3. rows # <<>>
  BY <1>1, <1>2 DEF Scanned
<1>4. n > 0 /\ last = rows[n].biz
  BY <1>1, <1>2, <1>3 DEF Scanned
<1>5. \A i \in 1 .. n : rows[i].biz = first + i - 1
  BY <1>1 DEF InSequence
<1>6. last = first + n - 1
  BY <1>1, <1>4, <1>5
<1> HIDE DEF n, first, last
<1>7. {rows[i].biz : i \in 1 .. n} = first .. last
  <2>1. ASSUME NEW b \in first .. last PROVE \E i \in 1 .. n : rows[i].biz = b
    <3>1. b - first + 1 \in 1 .. n
      BY <1>1, <1>6
    <3>2. rows[b - first + 1].biz = b
      BY <1>1, <1>5, <3>1
    <3> QED
      BY <3>1, <3>2
  <2>2. ASSUME NEW i \in 1 .. n PROVE rows[i].biz \in first .. last
    BY <1>1, <1>5, <1>6
  <2> QED
    BY <2>1, <2>2
<1>8. Cardinality(first .. last) = n
  BY <1>1, <1>6, FS_Interval
<1>9. \A i, j \in 1 .. n : i < j => rows[i].biz < rows[j].biz
  BY <1>1, <1>5
<1>10. /\ Scanned(rows).rows = n
       /\ Scanned(rows).orders = Cardinality({i \in DOMAIN rows : rows[i].kind = "order"})
       /\ Scanned(rows).trades = Cardinality({i \in DOMAIN rows : rows[i].kind = "trade"})
       /\ Scanned(rows).least = Min(Times(rows)) /\ Scanned(rows).greatest = Max(Times(rows))
  BY <1>3 DEF Scanned, CountOf, n
<1> DEFINE times == Times(rows)
<1>11. /\ Min(Times(rows)) \in times /\ \A t \in times : Min(Times(rows)) <= t
       /\ Max(Times(rows)) \in times /\ \A t \in times : t <= Max(Times(rows))
  BY <1>3, LeastAndGreatest
<1>12. /\ Given(entry.least, Min(Times(rows)) = entry.least)
       /\ Given(entry.greatest, Max(Times(rows)) = entry.greatest)
       /\ Given(entry.orders, Scanned(rows).orders = entry.orders)
       /\ Given(entry.trades, Scanned(rows).trades = entry.trades)
       /\ n = entry.rows
  BY <1>10 DEF InSequence, StateAgrees
<1> HIDE DEF times
<1>13. /\ Given(entry.least, entry.least \in times /\ \A t \in times : entry.least <= t)
       /\ Given(entry.greatest, entry.greatest \in times /\ \A t \in times : t <= entry.greatest)
  BY <1>11, <1>12 DEF Given
<1>14. /\ Given(entry.orders, entry.orders = Cardinality({i \in DOMAIN rows : rows[i].kind = "order"}))
       /\ Given(entry.trades, entry.trades = Cardinality({i \in DOMAIN rows : rows[i].kind = "trade"}))
  BY <1>10, <1>12 DEF Given
<1>15. \A i \in DOMAIN rows : rows[i].day = day /\ rows[i].channel = entry.id
  BY DEF InSequence
<1>16. Tiles(rows, entry, day)
  BY <1>1, <1>7, <1>8, <1>9, <1>12, <1>13, <1>14, <1>15 DEF Tiles, n, first, last, times, Times
<1> QED
  BY <1>1, <1>3, <1>6, <1>16 DEF n, first, last

-----------------------------------------------------------------------------
(* Lanes and the records they are rebuilt into.                             *)
RebuiltAll(rows) == [j \in DOMAIN rows |-> Rebuilt(rows[j])]

(* A rebuilt row is a payload record.                                       *)
LEMMA RebuiltRow == ASSUME NEW row \in LaneRows PROVE Rebuilt(row) \in PayloadRows
BY DEF Rebuilt, LaneRows, PayloadRows

(* Rebuilt rows are as many payload records.                                *)
LEMMA RebuiltRows ==
    ASSUME NEW rows \in Seq(LaneRows)
    PROVE  /\ RebuiltAll(rows) \in Seq(PayloadRows) /\ Len(RebuiltAll(rows)) = Len(rows)
           /\ DOMAIN RebuiltAll(rows) = DOMAIN rows
           /\ \A j \in DOMAIN rows : RebuiltAll(rows)[j] = Rebuilt(rows[j])
<1>1. Len(rows) \in Nat /\ DOMAIN rows = 1 .. Len(rows)
  BY LenProperties
<1>2. \A j \in 1 .. Len(rows) : Rebuilt(rows[j]) \in PayloadRows
  BY RebuiltRow
<1>3. RebuiltAll(rows) = [j \in 1 .. Len(rows) |-> Rebuilt(rows[j])]
  BY <1>1 DEF RebuiltAll
<1> HIDE DEF RebuiltAll
<1>4. RebuiltAll(rows) \in [1 .. Len(rows) -> PayloadRows]
  BY <1>2, <1>3
<1>5. RebuiltAll(rows) \in Seq(PayloadRows)
  BY <1>1, <1>4, SeqDef
<1>6. DOMAIN RebuiltAll(rows) = 1 .. Len(rows)
  BY <1>3
<1>7. Len(RebuiltAll(rows)) = Len(rows)
  BY <1>1, <1>5, <1>6, LenProperties
<1> QED
  BY <1>1, <1>3, <1>5, <1>6, <1>7

(* Rebuilding goes through concatenation.                                   *)
LEMMA RebuiltTogether ==
    ASSUME NEW a \in Seq(LaneRows), NEW b \in Seq(LaneRows)
    PROVE  RebuiltAll(a \o b) = RebuiltAll(a) \o RebuiltAll(b)
<1>1. /\ a \o b \in Seq(LaneRows) /\ Len(a \o b) = Len(a) + Len(b)
      /\ \A i \in 1 .. Len(a) + Len(b) : (a \o b)[i] = IF i <= Len(a) THEN a[i] ELSE b[i - Len(a)]
  BY ConcatProperties
<1>2. /\ RebuiltAll(a) \in Seq(PayloadRows) /\ Len(RebuiltAll(a)) = Len(a)
      /\ DOMAIN a = 1 .. Len(a) /\ Len(a) \in Nat
      /\ \A j \in DOMAIN a : RebuiltAll(a)[j] = Rebuilt(a[j])
  BY RebuiltRows, LenProperties
<1>3. /\ RebuiltAll(b) \in Seq(PayloadRows) /\ Len(RebuiltAll(b)) = Len(b)
      /\ DOMAIN b = 1 .. Len(b) /\ Len(b) \in Nat
      /\ \A j \in DOMAIN b : RebuiltAll(b)[j] = Rebuilt(b[j])
  BY RebuiltRows, LenProperties
<1>4. /\ RebuiltAll(a \o b) \in Seq(PayloadRows) /\ Len(RebuiltAll(a \o b)) = Len(a) + Len(b)
      /\ DOMAIN (a \o b) = 1 .. Len(a) + Len(b)
      /\ \A j \in DOMAIN (a \o b) : RebuiltAll(a \o b)[j] = Rebuilt((a \o b)[j])
  BY <1>1, RebuiltRows, LenProperties
<1> DEFINE both == RebuiltAll(a) \o RebuiltAll(b)
<1>5. /\ both \in Seq(PayloadRows) /\ Len(both) = Len(a) + Len(b)
      /\ \A i \in 1 .. Len(a) + Len(b) :
           both[i] = IF i <= Len(a) THEN RebuiltAll(a)[i] ELSE RebuiltAll(b)[i - Len(a)]
  <2>1. RebuiltAll(a) \in Seq(PayloadRows) /\ RebuiltAll(b) \in Seq(PayloadRows)
    BY <1>2, <1>3
  <2> HIDE DEF RebuiltAll
  <2>2. /\ both \in Seq(PayloadRows) /\ Len(both) = Len(RebuiltAll(a)) + Len(RebuiltAll(b))
        /\ \A i \in 1 .. Len(RebuiltAll(a)) + Len(RebuiltAll(b)) :
             both[i] = IF i <= Len(RebuiltAll(a)) THEN RebuiltAll(a)[i]
                       ELSE RebuiltAll(b)[i - Len(RebuiltAll(a))]
    BY <2>1, ConcatProperties, Zenon
  <2>3. Len(RebuiltAll(a)) = Len(a) /\ Len(RebuiltAll(b)) = Len(b)
    BY <1>2, <1>3
  <2> HIDE DEF both
  <2> QED
    BY <2>2, <2>3
<1> HIDE DEF both
<1>6. ASSUME NEW i \in 1 .. Len(a) + Len(b) PROVE RebuiltAll(a \o b)[i] = both[i]
  <2>1. CASE i <= Len(a)
    BY <1>1, <1>2, <1>3, <1>4, <1>5, <2>1, i \in 1 .. Len(a)
  <2>2. CASE ~(i <= Len(a))
    BY <1>1, <1>2, <1>3, <1>4, <1>5, <2>2, i - Len(a) \in 1 .. Len(b)
  <2> QED
    BY <2>1, <2>2
<1>7. RebuiltAll(a \o b) = both
  BY <1>4, <1>5, <1>6, SeqEqual
<1> QED
  BY <1>7 DEF both

(* The rows of the rebuilt files are the rebuilt rows.                      *)
LEMMA RebuiltFile ==
    ASSUME NEW file \in LaneFiles
    PROVE  /\ RowsOf(Legacy(file)) = RebuiltAll(RowsOf(file))
           /\ RowsOf(file) \in Seq(LaneRows)
           /\ Len(Legacy(file).groups) = Len(file.groups)
           /\ Legacy(file).width = Width /\ Legacy(file).nullable = FALSE
<1> DEFINE groups == file.groups
           n == Len(groups)
           rebuilt == [g \in DOMAIN groups |-> RebuiltAll(groups[g])]
           f == Joined(groups)
           h == Joined(rebuilt)
<1>1. groups \in Seq(Seq(LaneRows)) /\ n \in Nat /\ DOMAIN groups = 1 .. n
  BY LenProperties DEF LaneFiles
<1>2. \A g \in 1 .. n : groups[g] \in Seq(LaneRows)
  BY <1>1, ElementOfSeq
<1>3. Legacy(file).groups = rebuilt /\ Legacy(file).width = Width /\ Legacy(file).nullable = FALSE
  BY DEF Legacy, RebuiltAll
<1> HIDE DEF groups, n
<1>4. rebuilt \in Seq(Seq(PayloadRows)) /\ Len(rebuilt) = n
  <2>1. \A g \in 1 .. n : RebuiltAll(groups[g]) \in Seq(PayloadRows)
    BY <1>2, RebuiltRows
  <2>2. rebuilt \in [1 .. n -> Seq(PayloadRows)] /\ DOMAIN rebuilt = 1 .. n
    BY <1>1, <2>1
  <2> HIDE DEF rebuilt
  <2>3. rebuilt \in Seq(Seq(PayloadRows))
    BY <1>1, <2>2, SeqDef
  <2> QED
    BY <1>1, <2>2, <2>3, LenProperties
<1>5. \A g \in 1 .. n : rebuilt[g] = RebuiltAll(groups[g])
  BY <1>1
<1> HIDE DEF rebuilt
<1>6. /\ f \in [0 .. n -> Seq(LaneRows)] /\ f[0] = <<>>
      /\ \A g \in 1 .. n : f[g] = f[g - 1] \o groups[g]
  BY <1>1, JoinedIs DEF n
<1>7. h[0] = <<>> /\ \A g \in 1 .. n : h[g] = h[g - 1] \o rebuilt[g]
  BY <1>4, JoinedIs
<1> HIDE DEF f, h
<1> DEFINE T == {k \in 0 .. n : h[k] = RebuiltAll(f[k])}
<1>8. 0 \in T
  <2>1. RebuiltAll(<<>>) = <<>>
    <3>1. <<>> \in Seq(LaneRows) /\ Len(<<>>) = 0
      OBVIOUS
    <3>2. RebuiltAll(<<>>) \in Seq(PayloadRows) /\ Len(RebuiltAll(<<>>)) = 0
      BY <3>1, RebuiltRows
    <3> QED
      BY <3>2, EmptySeq
  <2> QED
    BY <1>1, <1>6, <1>7, <2>1
<1>9. ASSUME NEW k \in 0 .. n - 1, k \in T PROVE k + 1 \in T
  <2>1. k + 1 \in 1 .. n /\ k + 1 \in 0 .. n /\ k \in 0 .. n /\ (k + 1) - 1 = k
    BY <1>1
  <2>2. f[k + 1] = f[k] \o groups[k + 1] /\ h[k + 1] = h[k] \o RebuiltAll(groups[k + 1])
    BY <1>5, <1>6, <1>7, <2>1
  <2>3. h[k] = RebuiltAll(f[k])
    BY <1>9
  <2>4. f[k] \in Seq(LaneRows) /\ groups[k + 1] \in Seq(LaneRows)
    BY <1>2, <1>6, <2>1
  <2>5. RebuiltAll(f[k] \o groups[k + 1]) = RebuiltAll(f[k]) \o RebuiltAll(groups[k + 1])
    BY <2>4, RebuiltTogether
  <2>6. h[k + 1] = RebuiltAll(f[k + 1])
    BY <2>2, <2>3, <2>5
  <2> QED
    BY <2>1, <2>6
<1>10. 0 .. n \subseteq T
  <2> HIDE DEF T
  <2> QED
    BY <1>1, <1>8, <1>9, IntervalInduction
<1>11. h[n] = RebuiltAll(f[n]) /\ f[n] \in Seq(LaneRows)
  <2>1. n \in 0 .. n
    BY <1>1
  <2> QED
    BY <1>6, <1>10, <2>1
<1>12. RowsOf(file) = f[n]
  BY DEF RowsOf, Flat, f, n, groups
<1>13. RowsOf(Legacy(file)) = h[n]
  BY <1>3, <1>4 DEF RowsOf, Flat, h
<1> QED
  BY <1>3, <1>4, <1>11, <1>12, <1>13 DEF n, groups

(* A scan gathers the same from both.                                       *)
LEMMA ScannedAlike ==
    ASSUME NEW rows \in Seq(LaneRows)
    PROVE  Scanned(RebuiltAll(rows)) = Scanned(rows)
<1> DEFINE legacy == RebuiltAll(rows)
<1>1. /\ legacy \in Seq(PayloadRows) /\ Len(legacy) = Len(rows) /\ DOMAIN legacy = DOMAIN rows
      /\ DOMAIN rows = 1 .. Len(rows) /\ Len(rows) \in Nat
      /\ \A j \in DOMAIN rows : legacy[j] = Rebuilt(rows[j])
  BY RebuiltRows, LenProperties
<1>2. \A j \in DOMAIN rows : /\ legacy[j].kind = rows[j].kind /\ legacy[j].nano = rows[j].nano
                             /\ legacy[j].biz = rows[j].biz
  BY <1>1 DEF Rebuilt
<1> HIDE DEF legacy
<1>3. Times(legacy) = Times(rows)
  BY <1>1, <1>2 DEF Times
<1>4. \A kind : {i \in DOMAIN legacy : legacy[i].kind = kind}
                 = {i \in DOMAIN rows : rows[i].kind = kind}
  BY <1>1, <1>2
<1>5. /\ CountOf(legacy, "order") = CountOf(rows, "order")
      /\ CountOf(legacy, "trade") = CountOf(rows, "trade")
  BY <1>4 DEF CountOf
<1>6. CASE rows = <<>>
  <2>1. legacy = <<>>
    BY <1>1, <1>6, EmptySeq
  <2> QED
    BY <1>6, <2>1 DEF legacy
<1>7. CASE rows # <<>>
  <2>1. legacy # <<>> /\ 1 \in DOMAIN rows /\ Len(rows) \in DOMAIN rows
    BY <1>1, <1>7, EmptySeq
  <2>2. legacy[1].biz = rows[1].biz /\ legacy[Len(legacy)].biz = rows[Len(rows)].biz
    BY <1>1, <1>2, <2>1
  <2>3. Scanned(legacy) = Scanned(rows)
    BY <1>1, <1>3, <1>5, <1>7, <2>1, <2>2 DEF Scanned
  <2> QED
    BY <2>3 DEF legacy
<1> QED
  BY <1>6, <1>7

(* Both kinds of rows carry integer keys and receive times.                 *)
LEMMA PayloadTimed == Timed(PayloadRows) /\ Timed(LaneRows)
BY DEF Timed, PayloadRows, LaneRows

(* The rows of a lane file that passed are in sequence.                     *)
LEMMA LaneSequence ==
    ASSUME NEW file \in LaneFiles, NEW entry \in ChannelEntries, NEW day, NEW legacy,
           LaneChannelPassed(file, entry, day, legacy)
    PROVE  InSequence(RowsOf(file), entry, day)
<1> DEFINE rows == RowsOf(file)
<1>1. rows \in Seq(LaneRows)
  BY RebuiltFile
<1>2. /\ \A i \in DOMAIN rows : LanePassed(rows, entry, day, i)
      /\ StateAgrees(Scanned(rows), entry)
  BY DEF LaneChannelPassed
<1> HIDE DEF rows
<1>3. \A i \in DOMAIN rows : rows[i].biz = entry.first + i - 1
  BY <1>1, <1>2, LaneKeysFollow
<1>4. InSequence(rows, entry, day)
  BY <1>2, <1>3 DEF InSequence, LanePassed
<1> QED
  BY <1>4 DEF rows

(* A file of lanes and the payload file rebuilt from it.                    *)
Whole(file) ==
    /\ file.columns /\ file.typed /\ ~file.nullable
    /\ \A g \in DOMAIN file.groups : FitsReconstruction(file.groups[g])

(* One channel: the lane certifier passes the file exactly when every row   *)
(* rebuilds and the payload certifier passes the rebuilt file. Its bound    *)
(* biz < MaxKey is the other one's first + i <= MaxKey, and its missing     *)
(* bound biz <= last follows from the last key that both compare.           *)
LEMMA ChannelsAgree ==
    ASSUME NEW file \in LaneFiles, Whole(file), NEW entry \in ChannelEntries, NEW day \in Int,
           NEW options, options.header = TRUE
    PROVE  LaneChannelPassed(file, entry, day, TRUE) <=>
             /\ \A j \in DOMAIN RowsOf(file) : Rebuilds(RowsOf(file)[j])
             /\ certify_channel_artifact(Legacy(file), entry, day, options) = "none"
<1> DEFINE rows == RowsOf(file)
           n == Len(rows)
           legacy == RebuiltAll(rows)
           first == entry.first
           last == entry.last
<1>1. /\ rows \in Seq(LaneRows) /\ n \in Nat /\ DOMAIN rows = 1 .. n
      /\ \A i \in 1 .. n : rows[i] \in LaneRows
  <2>1. rows \in Seq(LaneRows)
    BY RebuiltFile
  <2> HIDE DEF rows
  <2> QED
    BY <2>1, LenProperties, ElementOfSeq
<1>2. /\ RowsOf(Legacy(file)) = legacy /\ Len(Legacy(file).groups) = Len(file.groups)
      /\ Legacy(file).width = Width /\ Legacy(file).nullable = FALSE
  BY RebuiltFile
<1>3. RowCount(Legacy(file)) = n /\ RowCount(file) = n
  BY <1>1, <1>2, RebuiltRows DEF RowCount
<1> HIDE DEF rows
<1>4. /\ legacy \in Seq(PayloadRows) /\ Len(legacy) = n /\ DOMAIN legacy = 1 .. n
      /\ \A j \in 1 .. n : legacy[j] = Rebuilt(rows[j])
  BY <1>1, RebuiltRows
<1>5. Scanned(legacy) = Scanned(rows)
  BY <1>1, ScannedAlike
<1>6. first \in Int /\ last \in Int
  BY DEF ChannelEntries
<1> HIDE DEF n, legacy
<1>7. (certify_channel_artifact(Legacy(file), entry, day, options) = "none") <=>
             /\ n = entry.rows
             /\ entry.groups \in {0, Len(file.groups)}
             /\ \A i \in 1 .. n : HeaderPassed(legacy, entry, day, i)
             /\ first + n = last + 1
             /\ StateAgrees(Scanned(rows), entry)
  <2>1. PICK l : l = Legacy(file)
    OBVIOUS
  <2>2. RowsOf(l) = legacy /\ RowsOf(l) \in Seq(PayloadRows)
    BY <1>2, <1>4, <2>1
  <2>3. certify_channel_artifact(l, entry, day, options) = "none" <=>
             /\ RowCount(l) = entry.rows
             /\ entry.groups \in {0, Len(l.groups)} /\ l.width = Width /\ ~l.nullable
             /\ \A i \in DOMAIN RowsOf(l) : HeaderPassed(RowsOf(l), entry, day, i)
             /\ entry.first + Len(RowsOf(l)) = entry.last + 1
             /\ StateAgrees(Scanned(RowsOf(l)), entry)
    BY <2>2, PayloadChannelPassed
  <2>4. RowCount(l) = n /\ Len(l.groups) = Len(file.groups) /\ l.width = Width /\ ~l.nullable
    BY <1>2, <1>3, <2>1
  <2>5. DOMAIN legacy = 1 .. n /\ Len(legacy) = n
    BY <1>4
  <2> QED
    BY <1>5, <2>1, <2>2, <2>3, <2>4, <2>5
<1>8. LaneChannelPassed(file, entry, day, TRUE) <=>
             /\ n = entry.rows
             /\ entry.groups \in {0, Len(file.groups)}
             /\ \A i \in 1 .. n : LanePassed(rows, entry, day, i)
             /\ \A i \in 1 .. n : Rebuilds(rows[i])
             /\ StateAgrees(Scanned(rows), entry)
  BY <1>1, <1>3 DEF LaneChannelPassed, Whole, rows
<1>9. ASSUME NEW i \in 1 .. n
      PROVE  /\ rows[i].day \in Int /\ rows[i].channel \in Int /\ rows[i].biz \in Int
             /\ legacy[i].day = rows[i].day /\ legacy[i].channel = rows[i].channel
             /\ legacy[i].biz = rows[i].biz /\ legacy[i].kind = rows[i].kind
             /\ Rebuilds(rows[i]) =>
                  /\ decode_header(legacy[i]) /\ rows[i].day >= 0 /\ rows[i].kind \in Kinds
                  /\ rows[i].channel > 0 /\ rows[i].biz > 0
  <2>1. rows[i].day \in Int /\ rows[i].channel \in Int /\ rows[i].biz \in Int
    BY <1>1 DEF LaneRows
  <2>2. /\ legacy[i].day = rows[i].day /\ legacy[i].channel = rows[i].channel
        /\ legacy[i].biz = rows[i].biz /\ legacy[i].kind = rows[i].kind
    BY <1>4 DEF Rebuilt
  <2>3. Rebuilds(rows[i]) => decode_header(legacy[i]) /\ rows[i].day >= 0
    BY <1>4 DEF Rebuilds
  <2>4. decode_header(legacy[i]) =>
          legacy[i].kind \in Kinds /\ legacy[i].channel > 0 /\ legacy[i].biz > 0
    BY DEF decode_header
  <2> QED
    BY <2>1, <2>2, <2>3, <2>4
<1>10. ASSUME LaneChannelPassed(file, entry, day, TRUE)
       PROVE  /\ \A i \in 1 .. n : HeaderPassed(legacy, entry, day, i)
              /\ first + n = last + 1
  <2>1. InSequence(rows, entry, day)
    BY <1>10, LaneSequence DEF rows
  <2>2. first + n = last + 1
    BY <1>1, <2>1, PayloadTimed, SequenceTiles DEF n
  <2>3. \A i \in 1 .. n : rows[i].biz = first + i - 1
    BY <1>1, <2>1 DEF InSequence
  <2>4. ASSUME NEW i \in 1 .. n PROVE HeaderPassed(legacy, entry, day, i)
    <3>1. LanePassed(rows, entry, day, i) /\ Rebuilds(rows[i])
      BY <1>8, <1>10
    <3>2. decode_header(legacy[i]) /\ legacy[i].day = day /\ legacy[i].channel = entry.id
      BY <1>9, <3>1 DEF LanePassed
    <3>3. rows[i].biz < MaxKey /\ rows[i].biz = first + i - 1 /\ rows[i].biz \in Int /\ i \in Int
      BY <1>9, <2>3, <3>1 DEF LanePassed
    <3>4. legacy[i].biz = first + i - 1 /\ legacy[i].biz <= last /\ first + i <= MaxKey
      <4>1. legacy[i].biz = first + i - 1
        BY <1>9, <3>3
      <4>2. first + i - 1 <= last
        BY <1>1, <1>6, <2>2
      <4>3. first + i <= MaxKey
        BY <1>6, <3>3, CertificationAssumption
      <4> QED
        BY <4>1, <4>2, <4>3
    <3> QED
      BY <3>2, <3>4 DEF HeaderPassed, first, last
  <2> QED
    BY <2>2, <2>4
<1>11. ASSUME \A i \in 1 .. n : HeaderPassed(legacy, entry, day, i),
              \A i \in 1 .. n : Rebuilds(rows[i])
       PROVE  \A i \in 1 .. n : LanePassed(rows, entry, day, i)
  <2>1. \A i \in 1 .. n : rows[i].biz = first + i - 1
    BY <1>9, <1>11 DEF HeaderPassed, first
  <2> TAKE i \in 1 .. n
  <2>2. HeaderPassed(legacy, entry, day, i) /\ Rebuilds(rows[i])
    BY <1>11
  <2>3. /\ rows[i].day >= 0 /\ rows[i].day = day /\ rows[i].channel >= 0
        /\ rows[i].channel = entry.id /\ rows[i].biz >= 0 /\ rows[i].kind \in Kinds
    BY <1>9, <2>2 DEF HeaderPassed
  <2>4. rows[i].biz < MaxKey
    BY <1>1, <1>6, <2>1, <2>2, CertificationAssumption DEF HeaderPassed, first
  <2>5. rows[i].biz = IF i > 1 THEN rows[i - 1].biz + 1 ELSE first
    <3>1. CASE i > 1
      <4>1. i - 1 \in 1 .. n
        BY <1>1, <3>1
      <4>2. rows[i - 1].biz = first + (i - 1) - 1
        BY <2>1, <4>1
      <4>3. rows[i].biz = first + i - 1
        BY <2>1
      <4> QED
        BY <1>1, <1>6, <3>1, <4>2, <4>3
    <3>2. CASE ~(i > 1)
      <4>1. i = 1
        BY <1>1, <3>2
      <4> QED
        BY <1>6, <2>1, <4>1
    <3> QED
      BY <3>1, <3>2
  <2> QED
    BY <2>3, <2>4, <2>5 DEF LanePassed, first
<1> HIDE DEF first, last
<1>12. (\A j \in DOMAIN rows : Rebuilds(rows[j])) <=> (\A i \in 1 .. n : Rebuilds(rows[i]))
  BY <1>1
<1>13. LaneChannelPassed(file, entry, day, TRUE) <=>
             /\ \A j \in DOMAIN rows : Rebuilds(rows[j])
             /\ certify_channel_artifact(Legacy(file), entry, day, options) = "none"
  BY <1>7, <1>8, <1>10, <1>11, <1>12
<1> QED
  BY <1>13 DEF rows

-----------------------------------------------------------------------------
(* The call over a manifest succeeds when no check failed, and reports the  *)
(* manifest's total.                                                        *)
LEMMA CertifiedIs ==
    ASSUME NEW m, NEW admitted, NEW fault, DOMAIN fault \subseteq Nat
    PROVE  LET result == Certified(m, admitted, fault) IN
           /\ result.ok <=> admitted = "none" /\ \A i \in DOMAIN fault : fault[i] = "none"
           /\ result.ok \in BOOLEAN
           /\ result.ok => result.value.rows = RowTotal(m)
<1>1. FirstFailure(fault) = "none" <=> \A i \in DOMAIN fault : fault[i] = "none"
  BY PassedIsFaultless
<1> QED
  BY <1>1, WorstPassed DEF Certified, Ok, Err

(* The payload certifier's result.                                          *)
LEMMA PayloadsCertified ==
    ASSUME NEW m \in Manifests, NEW files, NEW options
    PROVE  LET result == certify_channel_sharded_artifact_v1(m, files, options) IN
           /\ result.ok <=>
                /\ Admitted(m, "fixed-binary-v1", options) = "none"
                /\ \A i \in DOMAIN m.channels :
                     certify_channel_artifact(files[i], m.channels[i], m.day, options) = "none"
           /\ result.ok \in BOOLEAN
           /\ result.ok => result.value.rows = RowTotal(m)
<1> DEFINE fault == [i \in DOMAIN m.channels |->
                       certify_channel_artifact(files[i], m.channels[i], m.day, options)]
           result == certify_channel_sharded_artifact_v1(m, files, options)
<1>1. DOMAIN fault = DOMAIN m.channels /\ DOMAIN m.channels \subseteq Nat
  BY LenProperties DEF Manifests
<1>2. result = Certified(m, Admitted(m, "fixed-binary-v1", options), fault)
  BY DEF certify_channel_sharded_artifact_v1
<1>3. \A i \in DOMAIN m.channels :
        fault[i] = certify_channel_artifact(files[i], m.channels[i], m.day, options)
  OBVIOUS
<1> HIDE DEF fault, result
<1>4. /\ result.ok <=> /\ Admitted(m, "fixed-binary-v1", options) = "none"
                       /\ \A i \in DOMAIN fault : fault[i] = "none"
      /\ result.ok \in BOOLEAN
      /\ result.ok => result.value.rows = RowTotal(m)
  BY <1>1, <1>2, CertifiedIs
<1> QED
  BY <1>1, <1>3, <1>4 DEF result

(* The lane certifier's result.                                             *)
LEMMA LanesCertified ==
    ASSUME NEW m \in Manifests, NEW files, NEW options
    PROVE  LET result == certify_compact_l2_physical_v2_manifest(m, files, options) IN
           /\ result.ok <=>
                /\ Admitted(m, "physical-v2", options) = "none"
                /\ \A i \in DOMAIN m.channels :
                     certify_physical_v2_channel_artifact(files[i], m, m.channels[i], options) = "none"
           /\ result.ok \in BOOLEAN
           /\ result.ok => result.value.rows = RowTotal(m)
<1> DEFINE fault == [i \in DOMAIN m.channels |->
                       certify_physical_v2_channel_artifact(files[i], m, m.channels[i], options)]
           result == certify_compact_l2_physical_v2_manifest(m, files, options)
<1>1. DOMAIN fault = DOMAIN m.channels /\ DOMAIN m.channels \subseteq Nat
  BY LenProperties DEF Manifests
<1>2. result = Certified(m, Admitted(m, "physical-v2", options), fault)
  BY DEF certify_compact_l2_physical_v2_manifest
<1>3. \A i \in DOMAIN m.channels :
        fault[i] = certify_physical_v2_channel_artifact(files[i], m, m.channels[i], options)
  OBVIOUS
<1> HIDE DEF fault, result
<1>4. /\ result.ok <=> /\ Admitted(m, "physical-v2", options) = "none"
                       /\ \A i \in DOMAIN fault : fault[i] = "none"
      /\ result.ok \in BOOLEAN
      /\ result.ok => result.value.rows = RowTotal(m)
  BY <1>1, <1>2, CertifiedIs
<1> QED
  BY <1>1, <1>3, <1>4 DEF result

(* The manifest as its lanes are published.                                 *)
Published(m) == IF m.format = "fixed-binary-v1" THEN [m EXCEPT !.format = "physical-v2"] ELSE m

(* Publishing the lanes changes nothing but the format.                     *)
LEMMA PublishedIs ==
    ASSUME NEW m \in Manifests
    PROVE  /\ Published(m) \in Manifests /\ Published(m).channels = m.channels
           /\ Published(m).day = m.day /\ Published(m).version = m.version
           /\ Published(m).width = m.width /\ Published(m).indivisible = m.indivisible
           /\ Published(m).claims = m.claims /\ Published(m).scope = m.scope
           /\ Published(m).counts = m.counts
           /\ m.format = "fixed-binary-v1" => Published(m).format = "physical-v2"
<1>1. CASE m.format = "fixed-binary-v1"
  <2> DEFINE p == [m EXCEPT !.format = "physical-v2"]
  <2>1. Published(m) = p
    BY <1>1 DEF Published
  <2>2. p \in Manifests
    <3>1. /\ m.version \in Int /\ m.day \in Int /\ m.width \in MaybeInt
          /\ m.indivisible \in BOOLEAN \cup {Absent} /\ m.claims \in BOOLEAN
          /\ m.scope \in Scopes /\ m.counts \in Counts /\ m.channels \in Seq(ChannelEntries)
      BY DEF Manifests
    <3>2. p = [version |-> m.version, day |-> m.day, format |-> "physical-v2", width |-> m.width,
               indivisible |-> m.indivisible, claims |-> m.claims, scope |-> m.scope,
               counts |-> m.counts, channels |-> m.channels]
      BY DEF Manifests
    <3>3. "physical-v2" \in Formats
      BY DEF Formats
    <3> HIDE DEF p
    <3> QED
      BY <3>1, <3>2, <3>3 DEF Manifests
  <2>3. /\ p.channels = m.channels /\ p.day = m.day /\ p.version = m.version
        /\ p.width = m.width /\ p.indivisible = m.indivisible /\ p.claims = m.claims
        /\ p.scope = m.scope /\ p.counts = m.counts /\ p.format = "physical-v2"
    BY DEF Manifests
  <2> QED
    BY <2>1, <2>2, <2>3
<1>2. CASE m.format # "fixed-binary-v1"
  BY <1>2 DEF Published
<1> QED
  BY <1>1, <1>2

(* The checks made before an artifact is opened are the same for both       *)
(* formats.                                                                 *)
LEMMA AdmittedAlike ==
    ASSUME NEW m \in Manifests, m.format = "fixed-binary-v1",
           NEW a, NEW b, a.max = b.max
    PROVE  Admitted(m, "fixed-binary-v1", a) = "none" <=>
             Admitted(Published(m), "physical-v2", b) = "none"
<1> DEFINE p == Published(m)
<1>1. /\ p.channels = m.channels /\ p.day = m.day /\ p.version = m.version
      /\ p.width = m.width /\ p.indivisible = m.indivisible /\ p.claims = m.claims
      /\ p.scope = m.scope /\ p.counts = m.counts /\ p.format = "physical-v2"
  BY PublishedIs
<1> HIDE DEF p
<1>2. RowTotal(p) = RowTotal(m)
  BY <1>1 DEF RowTotal
<1>3. validate(p) = validate(m)
  BY <1>1, <1>2 DEF validate
<1>4. \A o : Admitted(m, "fixed-binary-v1", o) = "none" <=>
        /\ validate(m) = "none" /\ Given(m.width, m.width = Width)
        /\ Given(o.max, RowTotal(m) <= o.max)
  BY WorstPassed, PassedThree DEF Admitted, Unless
<1>5. \A o : Admitted(p, "physical-v2", o) = "none" <=>
        /\ validate(p) = "none" /\ Given(p.width, p.width = Width)
        /\ Given(o.max, RowTotal(p) <= o.max)
  BY <1>1, WorstPassed, PassedThree DEF Admitted, Unless
<1> QED
  BY <1>1, <1>2, <1>3, <1>4, <1>5 DEF p

-----------------------------------------------------------------------------
(* Losing, repeating, exchanging or altering a row leaves a sequence of     *)
(* rows.                                                                    *)
LEMMA RowsStay ==
    ASSUME NEW R, NEW rows \in Seq(R)
    PROVE  /\ \A i \in DOMAIN rows : RemoveAt(rows, i) \in Seq(R)
           /\ \A i \in DOMAIN rows : InsertAt(rows, i, rows[i]) \in Seq(R)
           /\ \A i \in 1 .. (Len(rows) - 1) :
                [rows EXCEPT ![i] = rows[i + 1], ![i + 1] = rows[i]] \in Seq(R)
           /\ \A i \in DOMAIN rows : \A row \in R : [rows EXCEPT ![i] = row] \in Seq(R)
<1>1. Len(rows) \in Nat /\ DOMAIN rows = 1 .. Len(rows) /\ \A i \in 1 .. Len(rows) : rows[i] \in R
  BY LenProperties, ElementOfSeq
<1>2. ASSUME NEW i \in 1 .. Len(rows)
      PROVE  /\ SubSeq(rows, 1, i - 1) \in Seq(R) /\ SubSeq(rows, i + 1, Len(rows)) \in Seq(R)
             /\ SubSeq(rows, i, Len(rows)) \in Seq(R)
  <2>1. /\ \A j \in 1 .. i - 1 : rows[j] \in R
        /\ \A j \in i + 1 .. Len(rows) : rows[j] \in R
        /\ \A j \in i .. Len(rows) : rows[j] \in R
    BY <1>1
  <2>2. i - 1 \in Int /\ i + 1 \in Int /\ i \in Int /\ 1 \in Int /\ Len(rows) \in Int
    BY <1>1
  <2> QED
    BY <2>1, <2>2, SubSeqProperties
<1>3. \A i \in DOMAIN rows : RemoveAt(rows, i) \in Seq(R)
  BY <1>1, <1>2, ConcatProperties DEF RemoveAt
<1>4. \A i \in DOMAIN rows : InsertAt(rows, i, rows[i]) \in Seq(R)
  <2> TAKE i \in DOMAIN rows
  <2>1. <<rows[i]>> \in Seq(R)
    BY <1>1
  <2>2. SubSeq(rows, 1, i - 1) \o <<rows[i]>> \in Seq(R)
    BY <1>1, <1>2, <2>1, ConcatProperties
  <2> QED
    BY <1>1, <1>2, <2>2, ConcatProperties DEF InsertAt
<1>5. \A i \in DOMAIN rows : \A row \in R : [rows EXCEPT ![i] = row] \in Seq(R)
  BY <1>1, ExceptSeq
<1>6. \A i \in 1 .. (Len(rows) - 1) :
        [rows EXCEPT ![i] = rows[i + 1], ![i + 1] = rows[i]] \in Seq(R)
  <2> TAKE i \in 1 .. (Len(rows) - 1)
  <2>1. i \in 1 .. Len(rows) /\ i + 1 \in 1 .. Len(rows)
    BY <1>1
  <2> DEFINE one == [rows EXCEPT ![i] = rows[i + 1]]
  <2>2. one \in Seq(R) /\ Len(one) = Len(rows)
    BY <1>1, <2>1, ExceptSeq
  <2>3. [rows EXCEPT ![i] = rows[i + 1], ![i + 1] = rows[i]] = [one EXCEPT ![i + 1] = rows[i]]
    OBVIOUS
  <2> HIDE DEF one
  <2>4. [one EXCEPT ![i + 1] = rows[i]] \in Seq(R)
    BY <1>1, <2>1, <2>2, ExceptSeq
  <2> QED
    BY <2>3, <2>4
<1> QED
  BY <1>3, <1>4, <1>5, <1>6

(* An altered record is a record, and an altered row of lanes a row of      *)
(* lanes.                                                                   *)
LEMMA FieldsStay ==
    /\ \A row \in PayloadRows : FieldEdits(row, FALSE) \subseteq PayloadRows
    /\ \A row \in LaneRows : FieldEdits(row, TRUE) \subseteq LaneRows
<1>1. /\ "trade" \in RowKinds /\ "other" \in RowKinds /\ MaxChannel + 1 \in Int
  BY CertificationAssumption DEF RowKinds, Kinds
<1>2. ASSUME NEW row \in PayloadRows PROVE FieldEdits(row, FALSE) \subseteq PayloadRows
  <2>1. \A d \in Int : [row EXCEPT !.day = d] \in PayloadRows
    BY DEF PayloadRows
  <2>2. \A d \in Int : [row EXCEPT !.channel = d] \in PayloadRows
    BY DEF PayloadRows
  <2>3. \A d \in Int : [row EXCEPT !.biz = d] \in PayloadRows
    BY DEF PayloadRows
  <2>4. \A d \in Int : [row EXCEPT !.nano = d] \in PayloadRows
    BY DEF PayloadRows
  <2>5. \A k \in RowKinds : [row EXCEPT !.kind = k] \in PayloadRows
    BY DEF PayloadRows
  <2>6. \A b \in BOOLEAN : /\ [row EXCEPT !.body = b] \in PayloadRows
                         /\ [row EXCEPT !.envelope = b] \in PayloadRows
    BY DEF PayloadRows
  <2>7. row.day \in Int /\ row.channel \in Int /\ row.biz \in Int /\ row.nano \in Int
    BY DEF PayloadRows
  <2>8. /\ row.day + 1 \in Int /\ row.channel + 1 \in Int /\ row.biz + 1 \in Int
        /\ row.biz - 1 \in Int /\ row.nano + 1 \in Int
    BY <2>7
  <2>9. {[row EXCEPT !.day = d] : d \in {0, row.day + 1}} \subseteq PayloadRows
    BY <2>1, <2>8
  <2>10. {[row EXCEPT !.channel = c] : c \in {0, row.channel + 1}} \subseteq PayloadRows
    BY <2>2, <2>8
  <2>11. {[row EXCEPT !.biz = b] : b \in {row.biz - 1, row.biz + 1}} \subseteq PayloadRows
    BY <2>3, <2>8
  <2>12. {[row EXCEPT !.kind = k] : k \in {"trade", "other"}} \subseteq PayloadRows
    BY <1>1, <2>5
  <2>13. {[row EXCEPT !.nano = row.nano + 1], [row EXCEPT !.body = FALSE]} \subseteq PayloadRows
    BY <2>4, <2>6, <2>8
  <2>14. [row EXCEPT !.envelope = FALSE] \in PayloadRows
    BY <2>6
  <2> QED
    BY <2>9, <2>10, <2>11, <2>12, <2>13, <2>14, Zenon DEF FieldEdits
<1>3. ASSUME NEW row \in LaneRows PROVE FieldEdits(row, TRUE) \subseteq LaneRows
  <2>1. \A d \in Int : [row EXCEPT !.day = d] \in LaneRows
    BY DEF LaneRows
  <2>2. \A d \in Int : [row EXCEPT !.channel = d] \in LaneRows
    BY DEF LaneRows
  <2>3. \A d \in Int : [row EXCEPT !.biz = d] \in LaneRows
    BY DEF LaneRows
  <2>4. \A d \in Int : [row EXCEPT !.nano = d] \in LaneRows /\ [row EXCEPT !.ordinal = d] \in LaneRows
    BY DEF LaneRows
  <2>5. \A k \in RowKinds : [row EXCEPT !.kind = k] \in LaneRows
    BY DEF LaneRows
  <2>6. \A b \in BOOLEAN : [row EXCEPT !.body = b] \in LaneRows
    BY DEF LaneRows
  <2>7. row.day \in Int /\ row.channel \in Int /\ row.biz \in Int /\ row.nano \in Int
    BY DEF LaneRows
  <2>8. /\ row.day + 1 \in Int /\ row.channel + 1 \in Int /\ row.biz + 1 \in Int
        /\ row.biz - 1 \in Int /\ row.nano + 1 \in Int
    BY <2>7
  <2>9. {[row EXCEPT !.day = d] : d \in {0, row.day + 1}} \subseteq LaneRows
    BY <2>1, <2>8
  <2>10. {[row EXCEPT !.channel = c] : c \in {0, row.channel + 1}} \subseteq LaneRows
    BY <2>2, <2>8
  <2>11. {[row EXCEPT !.biz = b] : b \in {row.biz - 1, row.biz + 1}} \subseteq LaneRows
    BY <2>3, <2>8
  <2>12. {[row EXCEPT !.kind = k] : k \in {"trade", "other"}} \subseteq LaneRows
    BY <1>1, <2>5
  <2>13. {[row EXCEPT !.nano = row.nano + 1], [row EXCEPT !.body = FALSE]} \subseteq LaneRows
    BY <2>4, <2>6, <2>8
  <2>14. /\ [row EXCEPT !.day = -1] \in LaneRows /\ [row EXCEPT !.ordinal = -1] \in LaneRows
         /\ [row EXCEPT !.channel = MaxChannel + 1] \in LaneRows
    BY <1>1, <2>1, <2>2, <2>4, -1 \in Int
  <2> QED
    BY <2>9, <2>10, <2>11, <2>12, <2>13, <2>14, Zenon DEF FieldEdits
<1> QED
  BY <1>2, <1>3

(* Edited row groups are row groups.                                        *)
LEMMA GroupsStay ==
    ASSUME NEW R, NEW split, \A row \in R : FieldEdits(row, split) \subseteq R,
           NEW groups \in Seq(Seq(R))
    PROVE  GroupEdits(groups, split) \subseteq Seq(Seq(R))
<1>1. DOMAIN groups = 1 .. Len(groups) /\ \A g \in DOMAIN groups : groups[g] \in Seq(R)
  BY LenProperties, ElementOfSeq
<1>2. ASSUME NEW from \in Seq(R), NEW rows \in RowEdits(from, split) PROVE rows \in Seq(R)
  <2>1. \A i \in DOMAIN from : FieldEdits(from[i], split) \subseteq R
    BY LenProperties, ElementOfSeq
  <2>2. ASSUME NEW i \in DOMAIN from, NEW row \in FieldEdits(from[i], split)
        PROVE  [from EXCEPT ![i] = row] \in Seq(R)
    BY <2>1, RowsStay
  <2>3. CASE rows \in {RemoveAt(from, i) : i \in DOMAIN from}
    BY <2>3, RowsStay
  <2>4. CASE rows \in {InsertAt(from, i, from[i]) : i \in DOMAIN from}
    BY <2>4, RowsStay
  <2>5. CASE rows \in {[from EXCEPT ![i] = from[i + 1], ![i + 1] = from[i]] :
                         i \in 1..(Len(from) - 1)}
    <3>1. PICK i \in 1 .. (Len(from) - 1) :
             rows = [from EXCEPT ![i] = from[i + 1], ![i + 1] = from[i]]
      BY <2>5
    <3> QED
      BY <3>1, RowsStay
  <2>6. CASE rows \in UNION {{[from EXCEPT ![i] = row] : row \in FieldEdits(from[i], split)} :
                               i \in DOMAIN from}
    <3>1. PICK i \in DOMAIN from :
             rows \in {[from EXCEPT ![i] = row] : row \in FieldEdits(from[i], split)}
      BY <2>6, Zenon
    <3>2. PICK row \in FieldEdits(from[i], split) : rows = [from EXCEPT ![i] = row]
      BY <3>1, Zenon
    <3> QED
      BY <2>2, <3>2
  <2> QED
    BY <2>3, <2>4, <2>5, <2>6, Zenon DEF RowEdits
<1>3. ASSUME NEW g \in DOMAIN groups, NEW rows \in RowEdits(groups[g], split)
      PROVE  [groups EXCEPT ![g] = rows] \in Seq(Seq(R))
  BY <1>1, <1>2, <1>3, ExceptSeq
<1>4. <<RowsOf([groups |-> groups])>> \in Seq(Seq(R))
  <2>1. RowsOf([groups |-> groups]) \in Seq(R)
    BY RowsAreRows
  <2> QED
    BY <2>1
<1> DEFINE edited == UNION {{[groups EXCEPT ![g] = rows] : rows \in RowEdits(groups[g], split)} :
                            g \in DOMAIN groups}
           regrouped == <<RowsOf([groups |-> groups])>>
<1>5. GroupEdits(groups, split) = {regrouped} \cup edited
  BY DEF GroupEdits
<1>6. edited \subseteq Seq(Seq(R))
  <2> SUFFICES ASSUME NEW e \in edited PROVE e \in Seq(Seq(R))
    OBVIOUS
  <2>1. PICK g \in DOMAIN groups :
           e \in {[groups EXCEPT ![g] = rows] : rows \in RowEdits(groups[g], split)}
    BY Zenon
  <2>2. PICK rows \in RowEdits(groups[g], split) : e = [groups EXCEPT ![g] = rows]
    BY <2>1, Zenon
  <2> QED
    BY <1>3, <2>2
<1>7. regrouped \in Seq(Seq(R))
  BY <1>4
<1> HIDE DEF edited, regrouped
<1> QED
  BY <1>5, <1>6, <1>7, Zenon

-----------------------------------------------------------------------------
(* The inductive invariant: the types of the files, and that a run's result *)
(* is what its function gives for the manifest and the files as they are    *)
(* now. Edits stop at the first run, so nothing changes under a result.     *)
CertifyTypes ==
    /\ manifest \in Manifests
    /\ payload \in Seq(PayloadFiles) /\ Len(payload) = Len(manifest.channels) /\ Len(payload) > 0
    /\ lanes = Absent \/ (lanes \in Seq(LaneFiles) /\ Len(lanes) = Len(payload))
    /\ edits \in Nat

PayloadRun ==
    /\ run.how = "payload" /\ run.options.header \in BOOLEAN
    /\ run.result = certify_channel_sharded_artifact_v1(manifest, payload, run.options)
LaneRun ==
    /\ run.how = "lanes" /\ lanes # Absent
    /\ run.options.scalar \in BOOLEAN /\ run.options.legacy \in BOOLEAN
    /\ run.result = certify_compact_l2_physical_v2_manifest(Published(manifest), lanes, run.options)
FileRun ==
    /\ run.how = "file" /\ lanes # Absent
    /\ run.options.legacy = TRUE
    /\ run.result.ok =>
         certify_compact_l2_physical_v2_file(lanes[1], run.options,
             [NoExpectation EXCEPT !.hash = RowsOf(payload[1])]) = "none"
RunSound == run = NoRun \/ PayloadRun \/ LaneRun \/ FileRun

CertifyInv == CertifyTypes /\ RunSound

(* What is published satisfies the invariant.                               *)
LEMMA CertifyInitial == CertifyInit => CertifyInv
<1> SUFFICES ASSUME CertifyInit PROVE CertifyInv
  OBVIOUS
<1>1. manifest = Manifest /\ payload = Payloads /\ lanes = Absent /\ edits = 0 /\ run = NoRun
  BY DEF CertifyInit
<1>2. /\ Manifest \in Manifests /\ Payloads \in Seq(PayloadFiles)
      /\ Len(Payloads) = Len(Manifest.channels) /\ Len(Payloads) > 0
  BY CertificationAssumption
<1>3. CertifyTypes
  BY <1>1, <1>2 DEF CertifyTypes
<1> QED
  BY <1>1, <1>3 DEF CertifyInv, RunSound

(* An edit of a payload file keeps the invariant.                           *)
LEMMA PayloadEdited ==
    ASSUME CertifyInv, EditPayload PROVE CertifyInv'
<1>1. /\ payload \in Seq(PayloadFiles) /\ DOMAIN payload = 1 .. Len(payload)
      /\ \A i \in DOMAIN payload : payload[i] \in PayloadFiles
  BY LenProperties, ElementOfSeq DEF CertifyInv, CertifyTypes
<1>2. PICK i \in DOMAIN payload :
         payload' \in {[payload EXCEPT ![i].groups = groups] :
                           groups \in GroupEdits(payload[i].groups, FALSE)}
                      \cup {[payload EXCEPT ![i].width = Width + 1],
                            [payload EXCEPT ![i].nullable = TRUE]}
  BY DEF EditPayload
<1>3. \A file \in PayloadFiles :
         /\ [payload EXCEPT ![i] = file] \in Seq(PayloadFiles)
         /\ Len([payload EXCEPT ![i] = file]) = Len(payload)
  BY <1>1, ExceptSeq
<1>4. payload[i] \in PayloadFiles /\ payload[i].groups \in Seq(Seq(PayloadRows)) /\ Width + 1 \in Int
  BY <1>1, CertificationAssumption DEF PayloadFiles
<1>5. \E file \in PayloadFiles : payload' = [payload EXCEPT ![i] = file]
  <2>1. CASE payload' \in {[payload EXCEPT ![i].groups = groups] :
                              groups \in GroupEdits(payload[i].groups, FALSE)}
    <3>1. PICK groups \in GroupEdits(payload[i].groups, FALSE) :
             payload' = [payload EXCEPT ![i].groups = groups]
      BY <2>1, Zenon
    <3>2. groups \in Seq(Seq(PayloadRows))
      BY <1>4, FieldsStay, GroupsStay
    <3>3. [payload[i] EXCEPT !.groups = groups] \in PayloadFiles
      BY <1>4, <3>2 DEF PayloadFiles
    <3>4. payload' = [payload EXCEPT ![i] = [payload[i] EXCEPT !.groups = groups]]
      BY <3>1
    <3> QED
      BY <3>3, <3>4
  <2>2. CASE payload' = [payload EXCEPT ![i].width = Width + 1]
    <3>1. [payload[i] EXCEPT !.width = Width + 1] \in PayloadFiles
      BY <1>4 DEF PayloadFiles
    <3>2. payload' = [payload EXCEPT ![i] = [payload[i] EXCEPT !.width = Width + 1]]
      BY <2>2
    <3> QED
      BY <3>1, <3>2
  <2>3. CASE payload' = [payload EXCEPT ![i].nullable = TRUE]
    <3>1. [payload[i] EXCEPT !.nullable = TRUE] \in PayloadFiles
      BY <1>4 DEF PayloadFiles
    <3>2. payload' = [payload EXCEPT ![i] = [payload[i] EXCEPT !.nullable = TRUE]]
      BY <2>3
    <3> QED
      BY <3>1, <3>2
  <2> QED
    BY <1>2, <2>1, <2>2, <2>3
<1>6. payload' \in Seq(PayloadFiles) /\ Len(payload') = Len(payload)
  BY <1>3, <1>5
<1>7. /\ run = NoRun /\ run' = run /\ manifest' = manifest /\ lanes' = lanes /\ lanes = Absent
      /\ edits' = edits + 1
  BY DEF EditPayload, Editing, Edited
<1> QED
  BY <1>6, <1>7 DEF CertifyInv, CertifyTypes, RunSound, NoRun, Err

(* So does an edit of a file of lanes.                                      *)
LEMMA LanesEdited ==
    ASSUME CertifyInv, EditLanes PROVE CertifyInv'
<1>1. /\ lanes \in Seq(LaneFiles) /\ DOMAIN lanes = 1 .. Len(lanes) /\ Len(lanes) = Len(payload)
      /\ \A i \in DOMAIN lanes : lanes[i] \in LaneFiles
  BY LenProperties, ElementOfSeq DEF CertifyInv, CertifyTypes, EditLanes
<1>2. PICK i \in DOMAIN lanes :
         lanes' \in {[lanes EXCEPT ![i].groups = groups] :
                         groups \in GroupEdits(lanes[i].groups, TRUE)}
                    \cup {[lanes EXCEPT ![i].columns = FALSE], [lanes EXCEPT ![i].typed = FALSE],
                          [lanes EXCEPT ![i].nullable = TRUE]}
  BY DEF EditLanes
<1>3. \A file \in LaneFiles :
         /\ [lanes EXCEPT ![i] = file] \in Seq(LaneFiles)
         /\ Len([lanes EXCEPT ![i] = file]) = Len(lanes)
  BY <1>1, ExceptSeq
<1>4. lanes[i] \in LaneFiles /\ lanes[i].groups \in Seq(Seq(LaneRows))
  BY <1>1 DEF LaneFiles
<1>5. \E file \in LaneFiles : lanes' = [lanes EXCEPT ![i] = file]
  <2>1. CASE lanes' \in {[lanes EXCEPT ![i].groups = groups] :
                            groups \in GroupEdits(lanes[i].groups, TRUE)}
    <3>1. PICK groups \in GroupEdits(lanes[i].groups, TRUE) :
             lanes' = [lanes EXCEPT ![i].groups = groups]
      BY <2>1, Zenon
    <3>2. groups \in Seq(Seq(LaneRows))
      BY <1>4, FieldsStay, GroupsStay
    <3>3. [lanes[i] EXCEPT !.groups = groups] \in LaneFiles
      BY <1>4, <3>2 DEF LaneFiles
    <3>4. lanes' = [lanes EXCEPT ![i] = [lanes[i] EXCEPT !.groups = groups]]
      BY <3>1
    <3> QED
      BY <3>3, <3>4
  <2>2. CASE lanes' = [lanes EXCEPT ![i].columns = FALSE]
    <3>1. [lanes[i] EXCEPT !.columns = FALSE] \in LaneFiles
      BY <1>4 DEF LaneFiles
    <3>2. lanes' = [lanes EXCEPT ![i] = [lanes[i] EXCEPT !.columns = FALSE]]
      BY <2>2
    <3> QED
      BY <3>1, <3>2
  <2>3. CASE lanes' = [lanes EXCEPT ![i].typed = FALSE]
    <3>1. [lanes[i] EXCEPT !.typed = FALSE] \in LaneFiles
      BY <1>4 DEF LaneFiles
    <3>2. lanes' = [lanes EXCEPT ![i] = [lanes[i] EXCEPT !.typed = FALSE]]
      BY <2>3
    <3> QED
      BY <3>1, <3>2
  <2>4. CASE lanes' = [lanes EXCEPT ![i].nullable = TRUE]
    <3>1. [lanes[i] EXCEPT !.nullable = TRUE] \in LaneFiles
      BY <1>4 DEF LaneFiles
    <3>2. lanes' = [lanes EXCEPT ![i] = [lanes[i] EXCEPT !.nullable = TRUE]]
      BY <2>4
    <3> QED
      BY <3>1, <3>2
  <2> QED
    BY <1>2, <2>1, <2>2, <2>3, <2>4
<1>6. lanes' \in Seq(LaneFiles) /\ Len(lanes') = Len(payload)
  BY <1>1, <1>3, <1>5
<1>7. /\ run = NoRun /\ run' = run /\ manifest' = manifest /\ payload' = payload
      /\ edits' = edits + 1
  BY DEF EditLanes, Editing, Edited
<1> QED
  BY <1>6, <1>7 DEF CertifyInv, CertifyTypes, RunSound, NoRun, Err

(* An edited channel entry is a channel entry.                              *)
LEMMA EntriesStay ==
    ASSUME NEW entry \in ChannelEntries PROVE EntryEdits(entry) \subseteq ChannelEntries
<1>1. \A v \in Int : /\ [entry EXCEPT !.id = v] \in ChannelEntries
                     /\ [entry EXCEPT !.rows = v] \in ChannelEntries
                     /\ [entry EXCEPT !.groups = v] \in ChannelEntries
  BY DEF ChannelEntries
<1>2. \A v \in Int : /\ [entry EXCEPT !.first = v] \in ChannelEntries
                     /\ [entry EXCEPT !.last = v] \in ChannelEntries
  BY DEF ChannelEntries
<1>3. \A v \in MaybeInt : /\ [entry EXCEPT !.orders = v] \in ChannelEntries
                          /\ [entry EXCEPT !.trades = v] \in ChannelEntries
  BY DEF ChannelEntries
<1>4. \A v \in MaybeInt : /\ [entry EXCEPT !.least = v] \in ChannelEntries
                          /\ [entry EXCEPT !.greatest = v] \in ChannelEntries
  BY DEF ChannelEntries
<1>5. /\ entry.id \in Int /\ entry.rows \in Int /\ entry.groups \in Int
      /\ entry.first \in Int /\ entry.last \in Int
  BY DEF ChannelEntries
<1>6. /\ entry.id + 1 \in Int /\ entry.rows - 1 \in Int /\ entry.rows + 1 \in Int
      /\ entry.groups + 1 \in Int /\ entry.first - 1 \in Int /\ entry.first + 1 \in Int
      /\ entry.last - 1 \in Int /\ entry.last + 1 \in Int
      /\ Absent \in MaybeInt /\ 0 \in MaybeInt /\ 0 \in Int
  BY <1>5 DEF MaybeInt
<1>7. {[entry EXCEPT !.id = v] : v \in {0, entry.id + 1}} \subseteq ChannelEntries
  BY <1>1, <1>6
<1>8. {[entry EXCEPT !.rows = v] : v \in {entry.rows - 1, entry.rows + 1}} \subseteq ChannelEntries
  BY <1>1, <1>6
<1>9. {[entry EXCEPT !.first = v] : v \in {entry.first - 1, entry.first + 1}} \subseteq ChannelEntries
  BY <1>2, <1>6
<1>10. {[entry EXCEPT !.last = v] : v \in {entry.last - 1, entry.last + 1}} \subseteq ChannelEntries
  BY <1>2, <1>6
<1>11. {[entry EXCEPT !.groups = v] : v \in {0, entry.groups + 1}} \subseteq ChannelEntries
  BY <1>1, <1>6
<1>12. {[entry EXCEPT !.orders = v] : v \in {Absent, 0}} \subseteq ChannelEntries
  BY <1>3, <1>6
<1>13. {[entry EXCEPT !.trades = Absent], [entry EXCEPT !.least = Absent],
        [entry EXCEPT !.greatest = 0]} \subseteq ChannelEntries
  BY <1>3, <1>4, <1>6
<1> QED
  BY <1>7, <1>8, <1>9, <1>10, <1>11, <1>12, <1>13, Zenon DEF EntryEdits

(* A manifest with one field replaced is a manifest.                        *)
LEMMA ManifestsStay ==
    ASSUME NEW m \in Manifests
    PROVE  /\ \A v \in Int : /\ [m EXCEPT !.version = v] \in Manifests
                             /\ [m EXCEPT !.day = v] \in Manifests
           /\ \A v \in Formats : [m EXCEPT !.format = v] \in Manifests
           /\ \A v \in MaybeInt : [m EXCEPT !.width = v] \in Manifests
           /\ \A v \in BOOLEAN : /\ [m EXCEPT !.indivisible = v] \in Manifests
                                 /\ [m EXCEPT !.claims = v] \in Manifests
           /\ \A v \in Scopes : [m EXCEPT !.scope = v] \in Manifests
           /\ \A v \in Counts : [m EXCEPT !.counts = v] \in Manifests
           /\ \A v \in Seq(ChannelEntries) : [m EXCEPT !.channels = v] \in Manifests
<1>1. \A v \in Int : [m EXCEPT !.version = v] \in Manifests /\ [m EXCEPT !.day = v] \in Manifests
  BY DEF Manifests
<1>2. \A v \in Formats : [m EXCEPT !.format = v] \in Manifests
  BY DEF Manifests
<1>3. \A v \in MaybeInt : [m EXCEPT !.width = v] \in Manifests
  BY DEF Manifests
<1>4. \A v \in BOOLEAN : /\ [m EXCEPT !.indivisible = v] \in Manifests
                       /\ [m EXCEPT !.claims = v] \in Manifests
  BY DEF Manifests
<1>5. \A v \in Scopes : [m EXCEPT !.scope = v] \in Manifests
  BY DEF Manifests
<1>6. \A v \in Counts : [m EXCEPT !.counts = v] \in Manifests
  BY DEF Manifests
<1>7. \A v \in Seq(ChannelEntries) : [m EXCEPT !.channels = v] \in Manifests
  BY DEF Manifests
<1> QED
  BY <1>1, <1>2, <1>3, <1>4, <1>5, <1>6, <1>7

(* An edit of the manifest keeps the invariant.                             *)
LEMMA ManifestEdited ==
    ASSUME CertifyInv, EditManifest PROVE CertifyInv'
<1>1. manifest \in Manifests /\ manifest.channels \in Seq(ChannelEntries) /\ manifest.counts \in Counts
  BY DEF CertifyInv, CertifyTypes, Manifests
<1>2. /\ run = NoRun /\ run' = run /\ payload' = payload /\ lanes' = lanes /\ edits' = edits + 1
  BY DEF EditManifest, Editing, Edited
<1>3. manifest' \in Manifests /\ Len(manifest'.channels) = Len(manifest.channels)
  <2>1. CASE \E i \in DOMAIN manifest.channels : \E entry \in EntryEdits(manifest.channels[i]) :
                 manifest' = [manifest EXCEPT !.channels[i] = entry]
    <3>0. PICK i \in DOMAIN manifest.channels : \E entry \in EntryEdits(manifest.channels[i]) :
                 manifest' = [manifest EXCEPT !.channels[i] = entry]
      BY <2>1, Zenon
    <3>1. PICK entry \in EntryEdits(manifest.channels[i]) :
                 manifest' = [manifest EXCEPT !.channels[i] = entry]
      BY <3>0, Zenon
    <3>2. i \in 1 .. Len(manifest.channels) /\ manifest.channels[i] \in ChannelEntries
      BY <1>1, LenProperties, ElementOfSeq
    <3>3. entry \in ChannelEntries
      BY <3>2, EntriesStay
    <3> DEFINE channels == [manifest.channels EXCEPT ![i] = entry]
    <3>4. channels \in Seq(ChannelEntries) /\ Len(channels) = Len(manifest.channels)
      BY <1>1, <3>2, <3>3, ExceptSeq
    <3>5. manifest' = [manifest EXCEPT !.channels = channels]
      BY <3>1
    <3> HIDE DEF channels
    <3>6. [manifest EXCEPT !.channels = channels] \in Manifests
      BY <1>1, <3>4, ManifestsStay
    <3>7. [manifest EXCEPT !.channels = channels].channels = channels
      BY <1>1 DEF Manifests
    <3> QED
      BY <3>4, <3>5, <3>6, <3>7
  <2>2. CASE manifest' \in
            {[manifest EXCEPT !.version = 2], [manifest EXCEPT !.day = 0],
             [manifest EXCEPT !.format = "other"], [manifest EXCEPT !.format = "physical-v2"],
             [manifest EXCEPT !.indivisible = FALSE], [manifest EXCEPT !.claims = TRUE],
             [manifest EXCEPT !.width = Absent], [manifest EXCEPT !.width = Width + 1],
             [manifest EXCEPT !.scope = "declared-subset"], [manifest EXCEPT !.scope = "full-day"],
             [manifest EXCEPT !.counts.channels = 0], [manifest EXCEPT !.counts.rows = Absent],
             [manifest EXCEPT !.counts.orders = 0], [manifest EXCEPT !.counts.trades = Absent]}
    <3>1. manifest'.channels = manifest.channels
      BY <1>1, <2>2 DEF Manifests
    <3>2. /\ "other" \in Formats /\ "physical-v2" \in Formats /\ Absent \in MaybeInt
          /\ Width + 1 \in MaybeInt /\ 0 \in MaybeInt /\ 2 \in Int /\ 0 \in Int
          /\ "declared-subset" \in Scopes /\ "full-day" \in Scopes
      BY CertificationAssumption DEF Formats, MaybeInt, Scopes, PrefixScopes
    <3>3. \A v \in MaybeInt :
            /\ [manifest.counts EXCEPT !.channels = v] \in Counts
            /\ [manifest.counts EXCEPT !.rows = v] \in Counts
            /\ [manifest.counts EXCEPT !.orders = v] \in Counts
            /\ [manifest.counts EXCEPT !.trades = v] \in Counts
      BY <1>1 DEF Counts
    <3>4. /\ [manifest EXCEPT !.counts.channels = 0]
               = [manifest EXCEPT !.counts = [manifest.counts EXCEPT !.channels = 0]]
          /\ [manifest EXCEPT !.counts.rows = Absent]
               = [manifest EXCEPT !.counts = [manifest.counts EXCEPT !.rows = Absent]]
          /\ [manifest EXCEPT !.counts.orders = 0]
               = [manifest EXCEPT !.counts = [manifest.counts EXCEPT !.orders = 0]]
          /\ [manifest EXCEPT !.counts.trades = Absent]
               = [manifest EXCEPT !.counts = [manifest.counts EXCEPT !.trades = Absent]]
      BY <1>1 DEF Manifests
    <3>5. /\ [manifest EXCEPT !.counts.channels = 0] \in Manifests
          /\ [manifest EXCEPT !.counts.rows = Absent] \in Manifests
          /\ [manifest EXCEPT !.counts.orders = 0] \in Manifests
          /\ [manifest EXCEPT !.counts.trades = Absent] \in Manifests
      BY <1>1, <3>2, <3>3, <3>4, ManifestsStay
    <3>6. /\ [manifest EXCEPT !.version = 2] \in Manifests /\ [manifest EXCEPT !.day = 0] \in Manifests
          /\ [manifest EXCEPT !.format = "other"] \in Manifests
          /\ [manifest EXCEPT !.format = "physical-v2"] \in Manifests
          /\ [manifest EXCEPT !.indivisible = FALSE] \in Manifests
          /\ [manifest EXCEPT !.claims = TRUE] \in Manifests
          /\ [manifest EXCEPT !.width = Absent] \in Manifests
          /\ [manifest EXCEPT !.width = Width + 1] \in Manifests
          /\ [manifest EXCEPT !.scope = "declared-subset"] \in Manifests
          /\ [manifest EXCEPT !.scope = "full-day"] \in Manifests
      BY <1>1, <3>2, ManifestsStay
    <3>7. manifest' \in Manifests
      BY <2>2, <3>5, <3>6, Zenon
    <3> QED
      BY <3>1, <3>7
  <2> QED
    BY <2>1, <2>2, Zenon DEF EditManifest
<1>4. CertifyTypes'
  BY <1>2, <1>3 DEF CertifyInv, CertifyTypes
<1> QED
  BY <1>2, <1>4 DEF CertifyInv, RunSound, NoRun, Err

(* The split writes a file of lanes for each payload file.                  *)
LEMMA SplitTyped ==
    ASSUME CertifyInv, Split PROVE CertifyInv'
<1>1. /\ payload \in Seq(PayloadFiles) /\ DOMAIN payload = 1 .. Len(payload) /\ Len(payload) \in Nat
      /\ \A i \in DOMAIN payload : payload[i] \in PayloadFiles
  BY LenProperties, ElementOfSeq DEF CertifyInv, CertifyTypes
<1> DEFINE groupsOf(i) == [g \in DOMAIN payload[i].groups |->
                             [j \in DOMAIN payload[i].groups[g] |->
                                from_fixed_binary_v1(payload[i].groups[g][j])]]
           file(i) == [groups |-> groupsOf(i), columns |-> TRUE, typed |-> TRUE, nullable |-> FALSE]
<1>2. lanes' = [i \in DOMAIN payload |-> file(i)]
  BY DEF Split
<1>3. ASSUME NEW i \in DOMAIN payload PROVE groupsOf(i) \in Seq(Seq(LaneRows))
  <2> DEFINE groups == payload[i].groups
  <2>1. groups \in Seq(Seq(PayloadRows))
    BY <1>1 DEF PayloadFiles
  <2> HIDE DEF groups
  <2>2. /\ DOMAIN groups = 1 .. Len(groups) /\ Len(groups) \in Nat
        /\ \A g \in DOMAIN groups : groups[g] \in Seq(PayloadRows)
    BY <2>1, LenProperties, ElementOfSeq
  <2>3. \A row \in PayloadRows : from_fixed_binary_v1(row) \in LaneRows
    BY DEF PayloadRows, LaneRows, from_fixed_binary_v1
  <2>4. ASSUME NEW g \in DOMAIN groups
        PROVE  [j \in DOMAIN groups[g] |-> from_fixed_binary_v1(groups[g][j])] \in Seq(LaneRows)
    <3>1. groups[g] \in Seq(PayloadRows)
      BY <2>2
    <3>2. /\ DOMAIN groups[g] = 1 .. Len(groups[g]) /\ Len(groups[g]) \in Nat
          /\ \A j \in DOMAIN groups[g] : groups[g][j] \in PayloadRows
      BY <3>1, LenProperties, ElementOfSeq
    <3>3. [j \in DOMAIN groups[g] |-> from_fixed_binary_v1(groups[g][j])]
            \in [1 .. Len(groups[g]) -> LaneRows]
      BY <2>3, <3>2
    <3> QED
      BY <3>2, <3>3, SeqDef
  <2>5. [g \in DOMAIN groups |-> [j \in DOMAIN groups[g] |-> from_fixed_binary_v1(groups[g][j])]]
          \in [1 .. Len(groups) -> Seq(LaneRows)]
    BY <2>2, <2>4
  <2>6. [g \in DOMAIN groups |-> [j \in DOMAIN groups[g] |-> from_fixed_binary_v1(groups[g][j])]]
          \in Seq(Seq(LaneRows))
    BY <2>2, <2>5, SeqDef
  <2> QED
    BY <2>6 DEF groups
<1> HIDE DEF groupsOf
<1>4. \A i \in DOMAIN payload : file(i) \in LaneFiles
  BY <1>3 DEF LaneFiles
<1> HIDE DEF file
<1>5. lanes' \in [1 .. Len(payload) -> LaneFiles] /\ DOMAIN lanes' = 1 .. Len(payload)
  BY <1>1, <1>2, <1>4
<1>6. lanes' \in Seq(LaneFiles)
  BY <1>1, <1>5, SeqDef
<1>7. Len(lanes') = Len(payload)
  BY <1>1, <1>5, <1>6, LenProperties
<1>8. run = NoRun /\ run' = run /\ manifest' = manifest /\ payload' = payload /\ edits' = edits
  BY DEF Split
<1>9. CertifyTypes'
  BY <1>6, <1>7, <1>8 DEF CertifyInv, CertifyTypes
<1> QED
  BY <1>8, <1>9 DEF CertifyInv, RunSound, NoRun, Err

(* The result of the payload certifier is that of its function on the       *)
(* files.                                                                   *)
LEMMA PayloadJudged ==
    ASSUME CertifyInv, CertifyPayload PROVE CertifyInv'
<1>1. manifest' = manifest /\ payload' = payload /\ lanes' = lanes /\ edits' = edits
  BY DEF CertifyPayload
<1>2. PICK header \in BOOLEAN, max \in RowCaps :
         run' = [how |-> "payload", options |-> [header |-> header, max |-> max],
                 result |-> certify_channel_sharded_artifact_v1(manifest, payload,
                                [header |-> header, max |-> max])]
  BY DEF CertifyPayload
<1>3. PayloadRun'
  BY <1>1, <1>2 DEF PayloadRun
<1> QED
  BY <1>1, <1>3 DEF CertifyInv, CertifyTypes, RunSound

(* So is the lane certifier's.                                              *)
LEMMA LanesJudged ==
    ASSUME CertifyInv, CertifyLanes PROVE CertifyInv'
<1>1. manifest' = manifest /\ payload' = payload /\ lanes' = lanes /\ edits' = edits /\ lanes # Absent
  BY DEF CertifyLanes
<1>2. PICK scalar \in BOOLEAN, legacy \in BOOLEAN, max \in RowCaps :
         run' = [how |-> "lanes", options |-> [scalar |-> scalar, legacy |-> legacy, max |-> max],
                 result |-> certify_compact_l2_physical_v2_manifest(Published(manifest), lanes,
                                [scalar |-> scalar, legacy |-> legacy, max |-> max])]
  BY DEF CertifyLanes, Published
<1>3. LaneRun'
  BY <1>1, <1>2 DEF LaneRun
<1> QED
  BY <1>1, <1>3 DEF CertifyInv, CertifyTypes, RunSound

(* And the file certifier's.                                                *)
LEMMA FileJudged ==
    ASSUME CertifyInv, CertifyFile PROVE CertifyInv'
<1>1. manifest' = manifest /\ payload' = payload /\ lanes' = lanes /\ edits' = edits /\ lanes # Absent
  BY DEF CertifyFile
<1> DEFINE hashed == [NoExpectation EXCEPT !.hash = RowsOf(payload[1])]
           fault(options) == certify_compact_l2_physical_v2_file(lanes[1], options, hashed)
<1>2. PICK scalar \in BOOLEAN :
         run' = [how |-> "file", options |-> [scalar |-> scalar, legacy |-> TRUE],
                 result |-> IF fault([scalar |-> scalar, legacy |-> TRUE]) = "none"
                            THEN Ok(RowCount(lanes[1]))
                            ELSE Err(fault([scalar |-> scalar, legacy |-> TRUE]))]
  BY DEF CertifyFile
<1>3. /\ run'.how = "file" /\ run'.options.legacy = TRUE
      /\ run'.options = [scalar |-> scalar, legacy |-> TRUE]
  BY <1>2
<1>4. run'.result.ok => fault([scalar |-> scalar, legacy |-> TRUE]) = "none"
  <2> HIDE DEF fault
  <2> QED
    BY <1>2 DEF Ok, Err
<1>5. FileRun'
  BY <1>1, <1>3, <1>4 DEF FileRun
<1> QED
  BY <1>1, <1>5 DEF CertifyInv, CertifyTypes, RunSound

(* Every step keeps the invariant.                                          *)
LEMMA CertifyStep ==
    ASSUME CertifyInv, [CertifyNext]_certifyVars PROVE CertifyInv'
<1>1. CASE UNCHANGED certifyVars
  BY <1>1 DEF certifyVars, CertifyInv, CertifyTypes, RunSound, PayloadRun, LaneRun, FileRun
<1> QED
  BY <1>1, PayloadEdited, LanesEdited, ManifestEdited, SplitTyped, PayloadJudged, LanesJudged,
     FileJudged DEF CertifyNext

-----------------------------------------------------------------------------
(* The manifest's row total is the number of rows in the files when each    *)
(* count agrees.                                                            *)
LEMMA CertifiedTotals ==
    ASSUME NEW m \in Manifests, NEW files, DOMAIN files = DOMAIN m.channels,
           \A i \in DOMAIN m.channels : RowCount(files[i]) = m.channels[i].rows
    PROVE  RowTotal(m) = Sum([i \in DOMAIN files |-> RowCount(files[i])])
<1>1. [i \in DOMAIN files |-> RowCount(files[i])] = [i \in DOMAIN m.channels |-> m.channels[i].rows]
  OBVIOUS
<1> QED
  BY <1>1 DEF RowTotal

(* A successful run of the payload certifier vouches for every channel's    *)
(* rows.                                                                    *)
LEMMA PayloadsTile ==
    ASSUME CertifyInv, PayloadRun, run.result.ok
    PROVE  /\ run.result.value.rows = Sum([i \in DOMAIN payload |-> RowCount(payload[i])])
           /\ run.options.header => \A i \in DOMAIN manifest.channels :
                Tiles(RowsOf(payload[i]), manifest.channels[i], manifest.day)
<1>1. /\ manifest \in Manifests /\ DOMAIN payload = DOMAIN manifest.channels
      /\ \A i \in DOMAIN payload : payload[i] \in PayloadFiles
      /\ \A i \in DOMAIN manifest.channels : manifest.channels[i] \in ChannelEntries
  BY LenProperties, ElementOfSeq DEF CertifyInv, CertifyTypes, Manifests
<1>2. /\ \A i \in DOMAIN manifest.channels :
           certify_channel_artifact(payload[i], manifest.channels[i], manifest.day, run.options) = "none"
      /\ run.result.value.rows = RowTotal(manifest)
  BY <1>1, PayloadsCertified DEF PayloadRun
<1>3. \A i \in DOMAIN manifest.channels : RowCount(payload[i]) = manifest.channels[i].rows
  BY <1>2, PayloadRowsCounted
<1>4. ASSUME run.options.header, NEW i \in DOMAIN manifest.channels
      PROVE  Tiles(RowsOf(payload[i]), manifest.channels[i], manifest.day)
  <2>1. PICK file \in PayloadFiles, entry \in ChannelEntries, options \in {run.options} :
           file = payload[i] /\ entry = manifest.channels[i] /\ options = run.options
    BY <1>1
  <2>2. options.header = TRUE
    BY <1>4, <2>1 DEF PayloadRun
  <2>3. RowsOf(file) \in Seq(PayloadRows)
    BY RowsAreRows DEF PayloadFiles
  <2>4. certify_channel_artifact(file, entry, manifest.day, options) = "none"
    BY <1>2, <2>1
  <2>5. /\ \A j \in DOMAIN RowsOf(file) : HeaderPassed(RowsOf(file), entry, manifest.day, j)
        /\ StateAgrees(Scanned(RowsOf(file)), entry)
    BY <2>2, <2>3, <2>4, PayloadChannelPassed
  <2>6. InSequence(RowsOf(file), entry, manifest.day)
    BY <2>5 DEF InSequence, HeaderPassed
  <2>7. Tiles(RowsOf(file), entry, manifest.day)
    BY <2>3, <2>6, PayloadTimed, SequenceTiles
  <2> QED
    BY <2>1, <2>7
<1> QED
  BY <1>1, <1>2, <1>3, <1>4, CertifiedTotals

(* The types of the files of lanes, as the proofs below use them.           *)
LEMMA LaneTypes ==
    ASSUME CertifyInv, lanes # Absent
    PROVE  /\ manifest \in Manifests /\ manifest.day \in Int
           /\ DOMAIN lanes = DOMAIN manifest.channels /\ DOMAIN lanes \subseteq Nat
           /\ 1 \in DOMAIN lanes
           /\ \A i \in DOMAIN lanes : lanes[i] \in LaneFiles /\ lanes[i].groups \in Seq(Seq(LaneRows))
           /\ \A i \in DOMAIN manifest.channels : manifest.channels[i] \in ChannelEntries
<1>1. /\ manifest \in Manifests /\ manifest.channels \in Seq(ChannelEntries) /\ manifest.day \in Int
      /\ lanes \in Seq(LaneFiles) /\ Len(lanes) = Len(manifest.channels) /\ Len(lanes) > 0
  BY DEF CertifyInv, CertifyTypes, Manifests
<1>2. /\ DOMAIN lanes = 1 .. Len(lanes) /\ Len(lanes) \in Nat
      /\ DOMAIN manifest.channels = 1 .. Len(manifest.channels)
      /\ \A i \in DOMAIN lanes : lanes[i] \in LaneFiles
      /\ \A i \in DOMAIN manifest.channels : manifest.channels[i] \in ChannelEntries
  BY <1>1, LenProperties, ElementOfSeq
<1> QED
  BY <1>1, <1>2 DEF LaneFiles

(* A successful run of the lane certifier does too.                         *)
LEMMA LanesTile ==
    ASSUME CertifyInv, LaneRun, run.result.ok
    PROVE  /\ run.result.value.rows = Sum([i \in DOMAIN lanes |-> RowCount(lanes[i])])
           /\ run.options.scalar => \A i \in DOMAIN manifest.channels :
                Tiles(RowsOf(lanes[i]), manifest.channels[i], manifest.day)
<1> DEFINE m == Published(manifest)
<1>1. /\ manifest \in Manifests /\ manifest.day \in Int
      /\ DOMAIN lanes = DOMAIN manifest.channels
      /\ \A i \in DOMAIN lanes : lanes[i] \in LaneFiles /\ lanes[i].groups \in Seq(Seq(LaneRows))
      /\ \A i \in DOMAIN manifest.channels : manifest.channels[i] \in ChannelEntries
  BY LaneTypes DEF LaneRun
<1>2. m \in Manifests /\ m.channels = manifest.channels /\ m.day = manifest.day
  BY <1>1, PublishedIs
<1>3. run.result = certify_compact_l2_physical_v2_manifest(m, lanes, run.options)
  BY DEF LaneRun
<1> HIDE DEF m
<1>4. /\ \A i \in DOMAIN m.channels :
           certify_physical_v2_channel_artifact(lanes[i], m, m.channels[i], run.options) = "none"
      /\ run.result.value.rows = RowTotal(m)
  BY <1>2, <1>3, LanesCertified
<1>5. \A i \in DOMAIN m.channels : RowCount(lanes[i]) = m.channels[i].rows
  <2> TAKE i \in DOMAIN m.channels
  <2>1. /\ lanes[i].groups \in Seq(Seq(LaneRows)) /\ m.channels[i] \in ChannelEntries
        /\ certify_physical_v2_channel_artifact(lanes[i], m, m.channels[i], run.options) = "none"
    BY <1>1, <1>2, <1>4
  <2> QED
    BY <2>1, LaneRowsCounted
<1>6. ASSUME run.options.scalar, NEW i \in DOMAIN manifest.channels
      PROVE  Tiles(RowsOf(lanes[i]), manifest.channels[i], manifest.day)
  <2>1. PICK file \in LaneFiles, entry \in ChannelEntries, options \in {run.options} :
           file = lanes[i] /\ entry = manifest.channels[i] /\ options = run.options
    BY <1>1
  <2>2. options.scalar = TRUE
    BY <1>6, <2>1 DEF LaneRun
  <2>3. file.groups \in Seq(Seq(LaneRows)) /\ RowsOf(file) \in Seq(LaneRows)
    BY <1>1, <2>1, RowsAreRows
  <2>4. certify_physical_v2_channel_artifact(file, m, entry, options) = "none"
    BY <1>2, <1>4, <2>1
  <2>5. LaneChannelPassed(file, entry, m.day, options.legacy)
    BY <1>1, <1>2, <2>2, <2>3, <2>4, LaneChannelIs
  <2>6. InSequence(RowsOf(file), entry, m.day)
    BY <2>5, LaneSequence
  <2>7. Tiles(RowsOf(file), entry, m.day)
    BY <2>3, <2>6, PayloadTimed, SequenceTiles
  <2> QED
    BY <1>2, <2>1, <2>7
<1> QED
  BY <1>1, <1>2, <1>4, <1>5, <1>6, CertifiedTotals

(* The invariant gives the property: each kind of run in turn.              *)
LEMMA InvIsTiled == CertifyInv => CertifiedMeansTiled
<1> SUFFICES ASSUME CertifyInv PROVE CertifiedMeansTiled
  OBVIOUS
<1>1. CASE run = NoRun
  BY <1>1 DEF CertifiedMeansTiled, NoRun
<1>2. CASE PayloadRun
  BY <1>2, PayloadsTile DEF CertifiedMeansTiled, PayloadRun
<1>3. CASE LaneRun
  BY <1>3, LanesTile DEF CertifiedMeansTiled, LaneRun
<1>4. CASE FileRun
  BY <1>4 DEF CertifiedMeansTiled, FileRun
<1> QED
  BY <1>1, <1>2, <1>3, <1>4 DEF CertifyInv, RunSound

(* The invariant holds in every reachable state.                            *)
LEMMA CertifyInvHolds == CertifySpec => []CertifyInv
BY CertifyInitial, CertifyStep, PTL DEF CertifySpec

(* certify_channel_sharded_artifact_v1 and                                  *)
(* certify_compact_l2_physical_v2_manifest vouch for what is in the files:  *)
(* whatever manifest is published, however many rows it has, and whatever   *)
(* edits, splits and rewrites went wrong before the run, a certified        *)
(* channel is the declared run of keys, each once and in order, and the     *)
(* total reported is the number of rows in the files.                       *)
THEOREM CertifiedIsTiled == CertifySpec => []CertifiedMeansTiled
BY CertifyInvHolds, InvIsTiled, PTL

-----------------------------------------------------------------------------
(* A file whose rebuilt hash matches has lost nothing the lanes keep:       *)
(* taking the lanes of a rebuilt row gives the row back.                    *)
LEMMA FileKeepsPayload ==
    ASSUME CertifyInv, FileRun, run.result.ok
    PROVE  RowsOf(lanes[1]) = [j \in DOMAIN RowsOf(payload[1]) |->
                                 from_fixed_binary_v1(RowsOf(payload[1])[j])]
<1>1. PICK file, records, options :
         file = lanes[1] /\ records = RowsOf(payload[1]) /\ options = run.options
  OBVIOUS
<1>2. file \in LaneFiles /\ file.groups \in Seq(Seq(LaneRows))
  BY <1>1, LaneTypes DEF FileRun
<1>3. records \in Seq(PayloadRows)
  <2>1. payload[1] \in PayloadFiles
    BY LenProperties, ElementOfSeq DEF CertifyInv, CertifyTypes
  <2>2. payload[1].groups \in Seq(Seq(PayloadRows))
    BY <2>1 DEF PayloadFiles
  <2> QED
    BY <1>1, <2>2, RowsAreRows
<1> DEFINE expect == [NoExpectation EXCEPT !.hash = records]
<1>4. expect.hash = records /\ options.legacy = TRUE
  BY <1>1 DEF NoExpectation, FileRun
<1>5. certify_compact_l2_physical_v2_file(file, options, expect) = "none"
  BY <1>1 DEF FileRun
<1> HIDE DEF expect
<1>6. FilePassed(file, options, expect)
  BY <1>2, <1>5, LaneFilePassed
<1>7. records # Absent
  BY <1>3, CertificationAssumption
<1>8. LegacyRows(file) = records
  BY <1>4, <1>6, <1>7 DEF FilePassed, Given
<1> DEFINE rows == RowsOf(file)
<1>9. rows \in Seq(LaneRows) /\ LegacyRows(file) = RebuiltAll(rows)
  BY <1>2, RebuiltFile DEF LegacyRows, RebuiltAll
<1> HIDE DEF rows
<1>10. /\ DOMAIN rows = 1 .. Len(rows) /\ \A j \in DOMAIN rows : rows[j] \in LaneRows
       /\ DOMAIN records = DOMAIN rows /\ \A j \in DOMAIN rows : records[j] = Rebuilt(rows[j])
  BY <1>8, <1>9, RebuiltRows, LenProperties, ElementOfSeq
<1>11. \A row \in LaneRows : from_fixed_binary_v1(Rebuilt(row)) = row
  BY DEF LaneRows, from_fixed_binary_v1, Rebuilt
<1>12. rows = [j \in DOMAIN records |-> from_fixed_binary_v1(records[j])]
  <2>1. rows = [j \in DOMAIN rows |-> rows[j]]
    BY <1>9
  <2>2. \A j \in DOMAIN rows : from_fixed_binary_v1(records[j]) = rows[j]
    BY <1>10, <1>11
  <2> QED
    BY <1>10, <2>1, <2>2
<1> QED
  BY <1>1, <1>12 DEF rows

(* A comparable run of the lane certifier succeeds exactly when the payload *)
(* certifier does on the rebuilt files.                                     *)
LEMMA RunsAgree ==
    ASSUME CertifyInv, LaneRun, Comparable
    PROVE  run.result.ok = PayloadsCertify
<1> DEFINE m == Published(manifest)
           legacy == [i \in DOMAIN lanes |-> Legacy(lanes[i])]
           headers == [header |-> TRUE, max |-> run.options.max]
           scan == certify_channel_sharded_artifact_v1(manifest, legacy, headers)
           Rebuilding(i) == \A j \in DOMAIN RowsOf(lanes[i]) : Rebuilds(RowsOf(lanes[i])[j])
           LanePasses(i) ==
             certify_physical_v2_channel_artifact(lanes[i], m, m.channels[i], run.options) = "none"
           PayloadPasses(i) ==
             certify_channel_artifact(legacy[i], manifest.channels[i], manifest.day, headers) = "none"
<1>1. /\ manifest \in Manifests /\ manifest.day \in Int
      /\ DOMAIN lanes = DOMAIN manifest.channels
      /\ \A i \in DOMAIN lanes : lanes[i] \in LaneFiles /\ lanes[i].groups \in Seq(Seq(LaneRows))
      /\ \A i \in DOMAIN manifest.channels : manifest.channels[i] \in ChannelEntries
  BY LaneTypes DEF LaneRun
<1>2. m \in Manifests /\ m.channels = manifest.channels /\ m.day = manifest.day
  BY <1>1, PublishedIs
<1>3. run.result = certify_compact_l2_physical_v2_manifest(m, lanes, run.options)
  BY DEF LaneRun
<1>4. /\ run.options.scalar = TRUE /\ run.options.legacy = TRUE
      /\ manifest.format = "fixed-binary-v1" /\ \A i \in DOMAIN lanes : Whole(lanes[i])
  BY DEF Comparable, LaneRun, Whole
<1>5. headers.header = TRUE /\ headers.max = run.options.max
  OBVIOUS
<1>6. \A i \in DOMAIN lanes : legacy[i] = Legacy(lanes[i])
  OBVIOUS
<1>7. PayloadsCertify <=> (\A i \in DOMAIN lanes : Rebuilding(i)) /\ scan.ok
  BY DEF PayloadsCertify
<1> HIDE DEF m, headers, legacy
<1>8. /\ run.result.ok <=> /\ Admitted(m, "physical-v2", run.options) = "none"
                           /\ \A i \in DOMAIN m.channels : LanePasses(i)
      /\ run.result.ok \in BOOLEAN
  BY <1>2, <1>3, LanesCertified
<1>9. scan.ok <=> /\ Admitted(manifest, "fixed-binary-v1", headers) = "none"
                  /\ \A i \in DOMAIN manifest.channels : PayloadPasses(i)
  BY <1>1, PayloadsCertified
<1>10. Admitted(manifest, "fixed-binary-v1", headers) = "none" <=>
         Admitted(m, "physical-v2", run.options) = "none"
  BY <1>1, <1>4, <1>5, AdmittedAlike DEF m
<1>11. ASSUME NEW i \in DOMAIN lanes PROVE LanePasses(i) <=> Rebuilding(i) /\ PayloadPasses(i)
  <2>1. PICK file \in LaneFiles, entry \in ChannelEntries, day \in Int :
           file = lanes[i] /\ entry = manifest.channels[i] /\ day = manifest.day
    BY <1>1
  <2>2. file.groups \in Seq(Seq(LaneRows)) /\ Whole(file)
    BY <1>1, <1>4, <2>1
  <2>3. certify_physical_v2_channel_artifact(file, m, entry, run.options) = "none" <=>
          LaneChannelPassed(file, entry, m.day, run.options.legacy)
    BY <1>1, <1>2, <1>4, <2>2, LaneChannelIs
  <2>4. LaneChannelPassed(file, entry, day, TRUE) <=>
             /\ \A j \in DOMAIN RowsOf(file) : Rebuilds(RowsOf(file)[j])
             /\ certify_channel_artifact(Legacy(file), entry, day, headers) = "none"
    BY <1>5, <2>2, ChannelsAgree
  <2> QED
    BY <1>2, <1>4, <1>6, <2>1, <2>3, <2>4
<1> HIDE DEF LanePasses, PayloadPasses, Rebuilding, scan
<1>12. run.result.ok <=> PayloadsCertify
  BY <1>1, <1>2, <1>7, <1>8, <1>9, <1>10, <1>11
<1>13. PayloadsCertify \in BOOLEAN
  BY <1>7, <1>9 DEF PayloadsCertify
<1> QED
  BY <1>8, <1>12, <1>13

(* The invariant gives the agreement.                                       *)
LEMMA InvAgrees == CertifyInv => LayoutsAgree
<1> SUFFICES ASSUME CertifyInv PROVE LayoutsAgree
  OBVIOUS
<1>1. CASE run = NoRun
  BY <1>1 DEF LayoutsAgree, Comparable, NoRun
<1>2. CASE PayloadRun
  BY <1>2 DEF LayoutsAgree, Comparable, PayloadRun
<1>3. CASE LaneRun
  BY <1>3, RunsAgree DEF LayoutsAgree, LaneRun
<1>4. CASE FileRun
  <2>1. run.how = "file"
    BY <1>4 DEF FileRun
  <2> QED
    BY <1>4, <2>1, FileKeepsPayload DEF LayoutsAgree, Comparable
<1> QED
  BY <1>1, <1>2, <1>3, <1>4 DEF CertifyInv, RunSound

(* The two certifiers of certification.rs, whose lists of checks are        *)
(* several hundred lines apart, accept the same days, for every manifest,   *)
(* every number of channels, row groups and rows and every damage to the    *)
(* files; and certify_compact_l2_physical_v2_file against the payload's     *)
(* hash accepts only lanes that are the payload's.                          *)
THEOREM CertifiersAgree == CertifySpec => []LayoutsAgree
BY CertifyInvHolds, InvAgrees, PTL

-----------------------------------------------------------------------------
(* ---- Shapes -------------------------------------------------------------- *)

(* The equation of Products.                                                *)
Multiplies(f, shape) ==
    f = [a \in 0 .. Len(shape) |-> IF a = 0 THEN 1 ELSE checked_mul(f[a - 1], shape[a])]

(* Products is the choice of a function that satisfies its equation.        *)
LEMMA ProductsDefinition ==
    ASSUME NEW shape PROVE Products(shape) = CHOOSE f : Multiplies(f, shape)
BY DEF Products, Multiplies

(* A product of lengths is a number or an overflow, and an overflow stays.  *)
LEMMA CheckedMul ==
    ASSUME NEW a \in Nat \cup {Overflow}, NEW b \in Nat
    PROVE  /\ checked_mul(a, b) \in Nat \cup {Overflow}
           /\ checked_mul(a, b) # Overflow => a \in Nat /\ checked_mul(a, b) = a * b
<1>1. a \in Nat => a * b \in Nat
  OBVIOUS
<1> QED
  BY <1>1 DEF checked_mul, Overflow

(* Such a function exists, so Products obeys its equation.                  *)
LEMMA ProductsAre ==
    ASSUME NEW shape \in Seq(Nat)
    PROVE  /\ Products(shape) \in [0 .. Len(shape) -> Nat \cup {Overflow}]
           /\ Products(shape)[0] = 1
           /\ \A a \in 1 .. Len(shape) :
                 Products(shape)[a] = checked_mul(Products(shape)[a - 1], shape[a])
<1> DEFINE n == Len(shape)
           S == Nat \cup {Overflow}
           times == [i \in 1 .. n |-> [x \in S |-> checked_mul(x, shape[i])]]
<1>1. n \in Nat /\ \A i \in 1 .. n : shape[i] \in Nat
  OBVIOUS
<1>2. StepsStay(times, n, S)
  BY <1>1, CheckedMul DEF StepsStay
<1>3. 1 \in S
  OBVIOUS
<1>4. PICK f : Iterates(f, n, S, 1, times)
  <2> HIDE DEF n, times, S
  <2> QED
    BY <1>1, <1>2, <1>3, RecursionDefined
<1>5. f \in [0 .. n -> S] /\ f[0] = 1 /\ \A i \in 1 .. n : f[i] = checked_mul(f[i - 1], shape[i])
  <2>1. \A i \in 1 .. n : i - 1 \in 0 .. n
    BY <1>1
  <2> HIDE DEF S
  <2> QED
    BY <1>4, <2>1 DEF Iterates
<1>6. Multiplies(f, shape)
  <2>1. \A a \in 0 .. n : a # 0 => a \in 1 .. n
    BY <1>1
  <2> HIDE DEF S
  <2> QED
    BY <1>5, <2>1 DEF Multiplies
<1>7. Multiplies(Products(shape), shape)
  BY <1>6, ProductsDefinition
<1> DEFINE h == Products(shape)
<1>8. h[0] = 1 /\ \A i \in 1 .. n : h[i] = checked_mul(h[i - 1], shape[i])
  <2>1. 0 \in 0 .. n /\ \A i \in 1 .. n : i \in 0 .. n /\ i # 0
    BY <1>1
  <2> QED
    BY <1>7, <2>1 DEF Multiplies
<1>9. DOMAIN h = 0 .. n /\ h = [a \in 0 .. n |-> h[a]]
  BY <1>7 DEF Multiplies
<1> HIDE DEF h
<1>10. \A i \in 0 .. n : h[i] \in S
  <2> DEFINE T == {i \in 0 .. n : h[i] \in S}
  <2>1. 0 \in T
    BY <1>1, <1>3, <1>8
  <2>2. ASSUME NEW k \in 0 .. n - 1, k \in T PROVE k + 1 \in T
    <3>1. k + 1 \in 1 .. n /\ k + 1 \in 0 .. n /\ (k + 1) - 1 = k
      BY <1>1
    <3>2. h[k + 1] = checked_mul(h[k], shape[k + 1])
      BY <1>8, <3>1
    <3> QED
      BY <1>1, <2>2, <3>1, <3>2, CheckedMul
  <2>3. 0 .. n \subseteq T
    <3> HIDE DEF T, n
    <3> QED
      BY <1>1, <2>1, <2>2, IntervalInduction
  <2> QED
    BY <2>3
<1>11. h \in [0 .. n -> S]
  BY <1>9, <1>10
<1> QED
  BY <1>8, <1>11 DEF h

(* The elements of a tensor are its first axis times the elements of a row, *)
(* when neither product overflows.                                          *)
LEMMA FirstAxisTimesRow ==
    ASSUME NEW shape \in Seq(Nat), shape # <<>>,
           shape_element_len(shape) # Overflow, shape_element_len(Tail(shape)) # Overflow
    PROVE  /\ shape_element_len(Tail(shape)) \in Nat
           /\ shape_element_len(shape) = shape[1] * shape_element_len(Tail(shape))
<1> DEFINE t == Tail(shape)
           n == Len(t)
           whole == Products(shape)
           row == Products(t)
<1>1. t \in Seq(Nat) /\ n \in Nat /\ Len(shape) = n + 1 /\ shape[1] \in Nat
      /\ \A a \in 1 .. n : t[a] = shape[a + 1] /\ t[a] \in Nat
  BY HeadTailProperties, LenProperties, ElementOfSeq
<1>2. whole \in [0 .. n + 1 -> Nat \cup {Overflow}] /\ whole[0] = 1
      /\ \A a \in 1 .. n + 1 : whole[a] = checked_mul(whole[a - 1], shape[a])
  BY <1>1, ProductsAre
<1>3. row \in [0 .. n -> Nat \cup {Overflow}] /\ row[0] = 1
      /\ \A a \in 1 .. n : row[a] = checked_mul(row[a - 1], t[a])
  BY <1>1, ProductsAre
<1>4. whole[n + 1] # Overflow /\ row[n] # Overflow
      /\ shape_element_len(shape) = whole[n + 1] /\ shape_element_len(t) = row[n]
  BY <1>1 DEF shape_element_len
<1> HIDE DEF t, n, whole, row
<1> DEFINE T == {a \in 0 .. n : whole[a + 1] # Overflow /\ row[a] # Overflow
                                   => row[a] \in Nat /\ whole[a + 1] = shape[1] * row[a]}
<1>5. 0 \in T
  <2>1. 1 \in 1 .. n + 1 /\ 1 - 1 = 0
    BY <1>1
  <2>2. whole[1] = checked_mul(1, shape[1])
    BY <1>2, <2>1
  <2>3. whole[1] # Overflow => whole[1] = shape[1]
    BY <1>1, <2>2 DEF checked_mul, Overflow
  <2> QED
    BY <1>1, <1>3, <2>3
<1>6. ASSUME NEW a \in 0 .. n - 1, a \in T PROVE a + 1 \in T
  <2> SUFFICES ASSUME whole[a + 2] # Overflow, row[a + 1] # Overflow
               PROVE  row[a + 1] \in Nat /\ whole[a + 2] = shape[1] * row[a + 1]
    BY <1>1
  <2>1. /\ a \in 0 .. n /\ a + 1 \in 1 .. n /\ (a + 1) - 1 = a
        /\ a + 1 \in 0 .. n + 1 /\ a + 2 \in 1 .. n + 1 /\ (a + 2) - 1 = a + 1 /\ (a + 1) + 1 = a + 2
    BY <1>1
  <2> DEFINE d == t[a + 1]
  <2>2. d \in Nat /\ whole[a + 2] = checked_mul(whole[a + 1], d)
        /\ row[a + 1] = checked_mul(row[a], d)
    BY <1>1, <1>2, <1>3, <2>1
  <2>3. whole[a + 1] \in Nat \cup {Overflow} /\ row[a] \in Nat \cup {Overflow}
    BY <1>2, <1>3, <2>1
  <2> HIDE DEF d
  <2>4. /\ whole[a + 1] \in Nat /\ whole[a + 2] = whole[a + 1] * d
        /\ row[a] \in Nat /\ row[a + 1] = row[a] * d
    BY <2>2, <2>3, CheckedMul
  <2>5. whole[a + 1] # Overflow /\ row[a] # Overflow
    BY <2>4 DEF Overflow
  <2>6. whole[a + 1] = shape[1] * row[a]
    BY <1>6, <2>5
  <2>7. \A x, y, z \in Nat : (x * y) * z = x * (y * z) /\ y * z \in Nat
    OBVIOUS
  <2>8. (shape[1] * row[a]) * d = shape[1] * (row[a] * d) /\ row[a] * d \in Nat
    <3>1. shape[1] \in Nat /\ row[a] \in Nat /\ d \in Nat
      BY <1>1, <2>2, <2>4
    <3> QED
      BY <2>7, <3>1, Zenon
  <2> QED
    BY <2>4, <2>6, <2>8
<1>7. 0 .. n \subseteq T
  <2> HIDE DEF T
  <2> QED
    BY <1>1, <1>5, <1>6, IntervalInduction
<1>8. n \in 0 .. n
  BY <1>1
<1> QED
  BY <1>1, <1>4, <1>7, <1>8 DEF t

(* ---- Rows ---------------------------------------------------------------- *)

(* The rows of all groups are a sequence of rows.                           *)
LEMMA FlatIsSequence ==
    ASSUME NEW S, NEW groups \in Seq(Seq(S))
    PROVE  Flat(groups) \in Seq(S)
<1>1. Len(groups) \in 0 .. Len(groups)
  BY LenProperties
<1>2. Joined(groups) \in [0 .. Len(groups) -> Seq(S)]
  BY JoinedIs
<1> QED
  BY <1>1, <1>2 DEF Flat

(* The rows of a single group are its rows.                                 *)
LEMMA FlatOfOne ==
    ASSUME NEW S, NEW rows \in Seq(S)
    PROVE  /\ <<rows>> \in Seq(Seq(S))
           /\ Joined(<<rows>>)[0] = <<>>
           /\ Flat(<<rows>>) = rows
<1>1. <<rows>> \in Seq(Seq(S)) /\ Len(<<rows>>) = 1 /\ <<rows>>[1] = rows /\ 1 \in 1 .. 1 /\ 1 - 1 = 0
  OBVIOUS
<1>2. Joined(<<rows>>)[0] = <<>> /\ Joined(<<rows>>)[1] = Joined(<<rows>>)[0] \o rows
  BY <1>1, JoinedIs
<1> QED
  BY <1>1, <1>2, ConcatEmptySeq DEF Flat

(* Rows out of a numbered list, in the order of their numbers, are the      *)
(* first rows of that list.                                                 *)
LEMMA OrderedRowsArePrefix ==
    ASSUME NEW S, NEW full \in Seq(S), Ordered(full, 0),
           NEW rows \in Seq({full[k] : k \in 1 .. Len(full)}), Ordered(rows, 0)
    PROVE  /\ Len(rows) <= Len(full)
           /\ \A k \in 1 .. Len(rows) : rows[k] = full[k]
<1>1. Len(rows) \in Nat /\ Len(full) \in Nat
      /\ DOMAIN rows = 1 .. Len(rows) /\ DOMAIN full = 1 .. Len(full)
  BY LenProperties
<1>2. ASSUME NEW k \in 1 .. Len(rows) PROVE k \in 1 .. Len(full) /\ rows[k] = full[k]
  <2>1. PICK j \in 1 .. Len(full) : rows[k] = full[j]
    BY ElementOfSeq
  <2>2. rows[k].index = 0 + k - 1 /\ full[j].index = 0 + j - 1
    BY <1>1 DEF Ordered
  <2>3. j = k
    BY <1>1, <2>1, <2>2
  <2> QED
    BY <2>1, <2>3
<1> QED
  BY <1>1, <1>2

(* Groups whose numbers run on from one to the next hold rows in order.     *)
LEMMA GroupsInOrder ==
    ASSUME NEW S, NEW groups \in Seq(Seq(S)), parquet_validate_flat_indices(groups)
    PROVE  Ordered(Flat(groups), 0)
<1> DEFINE n == Len(groups)
           upto == Joined(groups)
           T == {g \in 0 .. n : \A k \in 1 .. Len(upto[g]) : upto[g][k].index = k - 1}
<1>1. n \in Nat /\ DOMAIN groups = 1 .. n /\ \A g \in 1 .. n : groups[g] \in Seq(S)
  BY LenProperties, ElementOfSeq
<1>2. upto \in [0 .. n -> Seq(S)] /\ upto[0] = <<>>
      /\ \A g \in 1 .. n : upto[g] = upto[g - 1] \o groups[g]
  BY JoinedIs
<1>3. \A g \in 1 .. n : \A k \in DOMAIN groups[g] :
         groups[g][k].index = Len(upto[g - 1]) + k - 1
  BY <1>1 DEF parquet_validate_flat_indices, Ordered
<1>4. Flat(groups) = upto[n]
  BY DEF Flat
<1> HIDE DEF n, upto
<1>5. 0 \in T
  BY <1>1, <1>2
<1>6. ASSUME NEW g \in 0 .. n - 1, g \in T PROVE g + 1 \in T
  <2> DEFINE before == upto[g]
             more == groups[g + 1]
  <2>1. g \in 0 .. n /\ g + 1 \in 0 .. n /\ g + 1 \in 1 .. n /\ (g + 1) - 1 = g
    BY <1>1
  <2>2. before \in Seq(S) /\ more \in Seq(S) /\ upto[g + 1] = before \o more
    BY <1>1, <1>2, <2>1
  <2>3. \A k \in DOMAIN more : more[k].index = Len(before) + k - 1
    BY <1>3, <2>1
  <2>4. \A k \in 1 .. Len(before) : before[k].index = k - 1
    BY <1>6
  <2> HIDE DEF before, more
  <2>5. Len(before) \in Nat /\ Len(more) \in Nat /\ DOMAIN more = 1 .. Len(more)
        /\ Len(before \o more) = Len(before) + Len(more)
        /\ \A k \in 1 .. Len(before) + Len(more) :
              (before \o more)[k] = IF k <= Len(before) THEN before[k] ELSE more[k - Len(before)]
    BY <2>2, LenProperties, ConcatProperties
  <2>6. ASSUME NEW k \in 1 .. Len(before) + Len(more)
        PROVE  (before \o more)[k].index = k - 1
    <3>1. CASE k <= Len(before)
      BY <2>4, <2>5, <3>1
    <3>2. CASE ~(k <= Len(before))
      <4>1. k - Len(before) \in 1 .. Len(more)
        BY <2>5, <3>2
      <4>2. more[k - Len(before)].index = Len(before) + (k - Len(before)) - 1
        BY <2>3, <2>5, <4>1
      <4> QED
        BY <2>5, <3>2, <4>2
    <3> QED
      BY <3>1, <3>2
  <2> QED
    BY <2>1, <2>2, <2>5, <2>6
<1>7. 0 .. n \subseteq T
  <2> HIDE DEF T
  <2> QED
    BY <1>1, <1>5, <1>6, IntervalInduction
<1>8. n \in 0 .. n /\ upto[n] \in Seq(S)
  BY <1>1, <1>2
<1>9. Len(upto[n]) \in Nat /\ DOMAIN upto[n] = 1 .. Len(upto[n])
  BY <1>8, LenProperties
<1>10. \A k \in 1 .. Len(upto[n]) : upto[n][k].index = 0 + k - 1
  BY <1>7, <1>8, <1>9
<1> QED
  BY <1>4, <1>9, <1>10 DEF Ordered

(* Slices of one width, one after the other, joined, are the data they were *)
(* cut from.                                                                *)
LEMMA SlicesJoin ==
    ASSUME NEW content \in Seq(Int), NEW n \in Nat, NEW width \in Nat, n * width <= Len(content),
           NEW slices \in Seq(Seq(Int)), Len(slices) = n,
           \A r \in 1 .. n : slices[r] = SubSeq(content, (r - 1) * width + 1, r * width)
    PROVE  Flat(slices) = SubSeq(content, 1, n * width)
<1> DEFINE upto == Joined(slices)
           T == {g \in 0 .. n : upto[g] = SubSeq(content, 1, g * width)}
<1>1. upto \in [0 .. n -> Seq(Int)] /\ upto[0] = <<>>
      /\ \A g \in 1 .. n : upto[g] = upto[g - 1] \o slices[g]
  BY JoinedIs
<1>2. Flat(slices) = upto[n]
  BY DEF Flat
<1>3. Len(content) \in Nat /\ \A k \in 1 .. Len(content) : content[k] \in Int
  BY LenProperties, ElementOfSeq
<1> HIDE DEF upto
<1>4. 0 \in T
  <2>1. 0 * width = 0
    OBVIOUS
  <2>2. SubSeq(content, 1, 0) = <<>>
    BY SubSeqEmpty
  <2> QED
    BY <1>1, <2>1, <2>2
<1>5. ASSUME NEW g \in 0 .. n - 1, g \in T PROVE g + 1 \in T
  <2> DEFINE low == g * width
             high == (g + 1) * width
             left == SubSeq(content, 1, low)
             right == SubSeq(content, low + 1, high)
             both == SubSeq(content, 1, high)
  <2>1. g \in Nat /\ g + 1 \in 0 .. n /\ g + 1 \in 1 .. n /\ (g + 1) - 1 = g
    OBVIOUS
  <2>2. \A x, y, z \in Nat : x <= y => x * z <= y * z
    OBVIOUS
  <2>3. low \in Nat /\ high \in Nat /\ low <= high /\ high <= Len(content) /\ high = low + width
    <3>1. low \in Nat /\ high \in Nat /\ high = low + width
      BY <2>1
    <3>2. high <= n * width /\ n * width \in Nat
      BY <2>1, <2>2
    <3> HIDE DEF low, high
    <3> QED
      BY <1>3, <3>1, <3>2
  <2>4. upto[g + 1] = left \o right
    BY <1>1, <1>5, <2>1
  <2> HIDE DEF low, high
  <2>5. left \in Seq(Int) /\ Len(left) = low /\ \A i \in 1 .. low : left[i] = content[i]
    BY <1>3, <2>3, SubSeqProperties
  <2>6. right \in Seq(Int) /\ Len(right) = high - low
        /\ \A i \in 1 .. high - low : right[i] = content[low + i]
    BY <1>3, <2>3, SubSeqProperties
  <2>7. both \in Seq(Int) /\ Len(both) = high /\ \A i \in 1 .. high : both[i] = content[i]
    BY <1>3, <2>3, SubSeqProperties
  <2> HIDE DEF left, right, both
  <2>8. left \o right \in Seq(Int) /\ Len(left \o right) = high
        /\ \A i \in 1 .. high : (left \o right)[i] = IF i <= low THEN left[i] ELSE right[i - low]
    <3>1. Len(left) + Len(right) = high
      BY <2>3, <2>5, <2>6
    <3>2. /\ left \o right \in Seq(Int)
          /\ Len(left \o right) = Len(left) + Len(right)
          /\ \A i \in 1 .. Len(left) + Len(right) :
                (left \o right)[i] = IF i <= Len(left) THEN left[i] ELSE right[i - Len(left)]
      BY <2>5, <2>6, ConcatProperties
    <3> QED
      BY <2>5, <3>1, <3>2
  <2>9. ASSUME NEW i \in 1 .. high PROVE (left \o right)[i] = both[i]
    <3>1. CASE i <= low
      <4>1. i \in 1 .. low
        BY <2>3, <3>1
      <4> QED
        BY <2>5, <2>7, <2>8, <3>1, <4>1
    <3>2. CASE ~(i <= low)
      <4>1. i - low \in 1 .. high - low /\ low + (i - low) = i
        BY <2>3, <3>2
      <4> QED
        BY <2>6, <2>7, <2>8, <3>2, <4>1
    <3> QED
      BY <3>1, <3>2
  <2>10. left \o right = both
    BY <2>7, <2>8, <2>9, SeqEqual
  <2> QED
    BY <2>1, <2>4, <2>10 DEF both, high
<1>6. 0 .. n \subseteq T
  <2> HIDE DEF T
  <2> QED
    BY <1>4, <1>5, IntervalInduction
<1>7. n \in 0 .. n
  OBVIOUS
<1> QED
  BY <1>2, <1>6, <1>7

(* ---- The invariant of the interchange ------------------------------------ *)

TensorSet == [dtype : STRING, shape : Seq(Nat), data : Seq(Int)]
RowSet == [index : Nat, value : Int \cup Seq(Int)]
FormatSet == {"csv", "parquet", "arrow"}

RowWidth(t) == arrow_row_width_for_shape(t.shape)

(* The rows a writer makes of a tensor, and a payload with some groups.     *)
AllRows(format, t) == IF format = "arrow" THEN Slices(t, RowWidth(t)) ELSE Rows(t.data)
RowsFrom(format, t) == {AllRows(format, t)[k] : k \in 1 .. Len(AllRows(format, t))}
Carried(format, t, bare, groups) ==
    [format |-> format,
     meta |-> [dtype |-> t.dtype, shape |-> IF bare THEN <<>> ELSE t.shape,
               order |-> "row-major"],
     width |-> IF format = "arrow" THEN RowWidth(t) ELSE 1,
     groups |-> groups]

CarriesRows ==
    /\ validate_tensor(original)
    /\ written.format \in FormatSet
    /\ written.format = "arrow" => RowWidth(original) \notin {0, Overflow}
    /\ written = Carried(written.format, original, stripped, written.groups)
    /\ written.groups \in Seq(Seq(RowsFrom(written.format, original)))
    /\ faults = 0 => written.groups = <<AllRows(written.format, original)>>

InterchangeInv ==
    /\ original \in Originals /\ faults \in Nat /\ stripped \in BOOLEAN
    /\ faults = 0 => ~stripped
    /\ written = <<>> => faults = 0 /\ decoded = <<>>
    /\ written # <<>> => CarriesRows
    /\ decoded # <<>> => decoded = Decoding(written)

(* What a valid tensor is.                                                  *)
LEMMA ValidTensor ==
    ASSUME NEW t \in TensorSet, validate_tensor(t)
    PROVE  /\ t.shape \in Seq(Nat) /\ t.shape # <<>> /\ t.data \in Seq(Int)
           /\ t.dtype \in STRING
           /\ t = [dtype |-> t.dtype, shape |-> t.shape, data |-> t.data]
           /\ Len(t.data) \in Nat /\ shape_element_len(t.shape) = Len(t.data)
           /\ shape_element_len(t.shape) # Overflow
           /\ t.shape[1] \in Nat
<1>1. t.shape \in Seq(Nat) /\ t.data \in Seq(Int) /\ t.dtype \in STRING
      /\ t = [dtype |-> t.dtype, shape |-> t.shape, data |-> t.data]
  BY DEF TensorSet
<1>2. Len(t.shape) >= 1 /\ shape_element_len(t.shape) = Len(t.data)
  BY DEF validate_tensor
<1>3. Len(t.data) \in Nat /\ Len(t.shape) \in Nat
  BY <1>1, LenProperties
<1>4. t.shape # <<>> /\ 1 \in 1 .. Len(t.shape)
  BY <1>2, <1>3
<1>5. t.shape[1] \in Nat
  BY <1>1, <1>4, ElementOfSeq
<1> QED
  BY <1>1, <1>2, <1>3, <1>4, <1>5 DEF Overflow

(* A tensor's rows hold its data: one axis of them and their width.         *)
LEMMA RowsHoldData ==
    ASSUME NEW t \in TensorSet, validate_tensor(t), RowWidth(t) # Overflow
    PROVE  /\ RowWidth(t) \in Nat
           /\ Len(t.data) = t.shape[1] * RowWidth(t)
           /\ \A n \in Nat : n <= t.shape[1] => n * RowWidth(t) <= Len(t.data)
<1>1. t.shape \in Seq(Nat) /\ t.shape # <<>> /\ shape_element_len(t.shape) # Overflow
      /\ shape_element_len(t.shape) = Len(t.data) /\ t.shape[1] \in Nat
  BY ValidTensor
<1>2. RowWidth(t) \in Nat /\ Len(t.data) = t.shape[1] * RowWidth(t)
  BY <1>1, FirstAxisTimesRow DEF RowWidth, arrow_row_width_for_shape
<1>3. \A x, y, z \in Nat : x <= y => x * z <= y * z
  OBVIOUS
<1> QED
  BY <1>1, <1>2, <1>3

(* The rows a writer makes are numbered from zero.                          *)
LEMMA WrittenRows ==
    ASSUME NEW t \in TensorSet, validate_tensor(t), NEW format \in FormatSet,
           format = "arrow" => RowWidth(t) # Overflow
    PROVE  /\ AllRows(format, t) \in Seq(RowSet)
           /\ Ordered(AllRows(format, t), 0)
           /\ Len(AllRows(format, t)) = IF format = "arrow" THEN t.shape[1] ELSE Len(t.data)
<1>1. t.data \in Seq(Int) /\ Len(t.data) \in Nat /\ t.shape[1] \in Nat
  BY ValidTensor
<1>2. DOMAIN t.data = 1 .. Len(t.data) /\ \A k \in 1 .. Len(t.data) : t.data[k] \in Int
  BY <1>1, LenProperties, ElementOfSeq
<1>3. CASE format = "arrow"
  <2> DEFINE w == RowWidth(t)
             n == t.shape[1]
             Slice(r) == [index |-> r - 1, value |-> SubSeq(t.data, (r - 1) * w + 1, r * w)]
             rows == [r \in 1 .. n |-> Slice(r)]
  <2>1. w \in Nat /\ \A m \in Nat : m <= n => m * w <= Len(t.data)
    BY <1>3, RowsHoldData
  <2>2. AllRows(format, t) = rows
    BY <1>3 DEF AllRows, Slices
  <2> HIDE DEF w, n
  <2>3. ASSUME NEW r \in 1 .. n PROVE Slice(r) \in RowSet /\ Slice(r).index = 0 + r - 1
    <3> DEFINE low == (r - 1) * w
               high == r * w
    <3>1. r \in Nat /\ r - 1 \in Nat /\ r <= n
      BY <1>1 DEF n
    <3>2. low \in Nat /\ high \in Nat /\ high <= Len(t.data)
      BY <2>1, <3>1
    <3> HIDE DEF low, high
    <3>3. SubSeq(t.data, low + 1, high) \in Seq(Int)
      BY <1>1, <1>2, <3>2, SubSeqProperties
    <3> QED
      BY <3>1, <3>3 DEF RowSet, low, high
  <2> HIDE DEF Slice
  <2>4. rows \in Seq(RowSet) /\ Len(rows) = n /\ DOMAIN rows = 1 .. n
    BY <1>1, <2>3 DEF n
  <2>5. Ordered(rows, 0)
    BY <2>3, <2>4 DEF Ordered
  <2> QED
    BY <1>3, <2>2, <2>4, <2>5 DEF n
<1>4. CASE format # "arrow"
  <2> DEFINE n == Len(t.data)
             Numbered(k) == [index |-> k - 1, value |-> t.data[k]]
             rows == [k \in 1 .. n |-> Numbered(k)]
  <2>1. AllRows(format, t) = rows
    BY <1>2, <1>4 DEF AllRows, Rows
  <2>2. \A k \in 1 .. n : Numbered(k) \in RowSet /\ Numbered(k).index = 0 + k - 1
    BY <1>1, <1>2 DEF RowSet
  <2> HIDE DEF Numbered, n
  <2>3. rows \in Seq(RowSet) /\ Len(rows) = n /\ DOMAIN rows = 1 .. n
    BY <1>1, <2>2 DEF n
  <2>4. Ordered(rows, 0)
    BY <2>2, <2>3 DEF Ordered
  <2> QED
    BY <1>4, <2>1, <2>3, <2>4 DEF n
<1> QED
  BY <1>3, <1>4

(* ---- Reading back -------------------------------------------------------- *)

(* Rows in order out of a tensor's rows are its first rows.                 *)
LEMMA FirstRows ==
    ASSUME NEW t \in TensorSet, validate_tensor(t), NEW format \in FormatSet,
           format = "arrow" => RowWidth(t) # Overflow,
           NEW rows \in Seq(RowsFrom(format, t)), Ordered(rows, 0)
    PROVE  /\ Len(rows) \in Nat /\ DOMAIN rows = 1 .. Len(rows)
           /\ Len(rows) <= Len(AllRows(format, t))
           /\ \A k \in 1 .. Len(rows) : rows[k] = AllRows(format, t)[k]
<1>1. AllRows(format, t) \in Seq(RowSet) /\ Ordered(AllRows(format, t), 0)
  BY WrittenRows
<1>2. rows \in Seq({AllRows(format, t)[k] : k \in 1 .. Len(AllRows(format, t))})
  BY DEF RowsFrom
<1>3. Len(rows) \in Nat /\ DOMAIN rows = 1 .. Len(rows)
  BY LenProperties
<1> QED
  BY <1>1, <1>2, <1>3, OrderedRowsArePrefix

(* The values of as many rows as the tensor has elements are its data.      *)
LEMMA ValuesAreData ==
    ASSUME NEW t \in TensorSet, validate_tensor(t), NEW format \in FormatSet, format # "arrow",
           NEW rows \in Seq(RowsFrom(format, t)), Ordered(rows, 0), Len(rows) = Len(t.data)
    PROVE  Values(rows) = t.data
<1>1. t.data \in Seq(Int) /\ DOMAIN t.data = 1 .. Len(t.data)
      /\ t.data = [k \in 1 .. Len(t.data) |-> t.data[k]]
  BY ValidTensor, LenProperties
<1>2. DOMAIN rows = 1 .. Len(t.data)
      /\ \A k \in 1 .. Len(t.data) : rows[k] = AllRows(format, t)[k]
  BY FirstRows
<1>3. ASSUME NEW k \in 1 .. Len(t.data) PROVE rows[k].value = t.data[k]
  <2>1. AllRows(format, t) = Rows(t.data)
    BY DEF AllRows
  <2>2. Rows(t.data)[k] = [index |-> k - 1, value |-> t.data[k]]
    BY <1>1 DEF Rows
  <2>3. rows[k] = [index |-> k - 1, value |-> t.data[k]]
    BY <1>2, <2>1, <2>2
  <2> QED
    BY <2>3
<1> QED
  BY <1>1, <1>2, <1>3 DEF Values

(* The slices of the first rows, joined, are the beginning of the data.     *)
LEMMA SlicesAreData ==
    ASSUME NEW t \in TensorSet, validate_tensor(t), RowWidth(t) # Overflow,
           NEW rows \in Seq(RowsFrom("arrow", t)), Ordered(rows, 0)
    PROVE  /\ Len(rows) \in Nat /\ Len(rows) <= t.shape[1]
           /\ Len(rows) * RowWidth(t) \in 0 .. Len(t.data)
           /\ Flat(Values(rows)) = SubSeq(t.data, 1, Len(rows) * RowWidth(t))
<1> DEFINE w == RowWidth(t)
           n == Len(rows)
           slices == Values(rows)
<1>1. /\ "arrow" \in FormatSet
      /\ n \in Nat /\ DOMAIN rows = 1 .. n /\ n <= Len(AllRows("arrow", t))
      /\ \A k \in 1 .. n : rows[k] = AllRows("arrow", t)[k]
  BY FirstRows DEF FormatSet
<1>2. Len(AllRows("arrow", t)) = t.shape[1]
  BY <1>1, WrittenRows
<1>3. t.data \in Seq(Int) /\ Len(t.data) \in Nat /\ t.shape[1] \in Nat
  BY ValidTensor
<1>4. w \in Nat /\ n * w <= Len(t.data) /\ n * w \in Nat
  BY <1>1, <1>2, RowsHoldData
<1>5. ASSUME NEW r \in 1 .. n
      PROVE  rows[r].value = SubSeq(t.data, (r - 1) * w + 1, r * w)
  <2>1. r \in 1 .. t.shape[1]
    BY <1>1, <1>2, <1>3
  <2>2. AllRows("arrow", t) = Slices(t, w)
    BY DEF AllRows
  <2>3. Slices(t, w)[r] =
           [index |-> r - 1, value |-> SubSeq(t.data, (r - 1) * w + 1, r * w)]
    BY <2>1 DEF Slices
  <2>4. rows[r] = [index |-> r - 1, value |-> SubSeq(t.data, (r - 1) * w + 1, r * w)]
    BY <1>1, <2>2, <2>3
  <2> DEFINE slice == SubSeq(t.data, (r - 1) * w + 1, r * w)
  <2>5. rows[r] = [index |-> r - 1, value |-> slice]
    BY <2>4
  <2> HIDE DEF slice
  <2>6. rows[r].value = slice
    BY <2>5
  <2> QED
    BY <2>6 DEF slice
<1>6. \A k \in 1 .. Len(t.data) : t.data[k] \in Int
  BY <1>3, ElementOfSeq
<1> HIDE DEF w, n
<1>7. ASSUME NEW r \in 1 .. n PROVE SubSeq(t.data, (r - 1) * w + 1, r * w) \in Seq(Int)
  <2> DEFINE low == (r - 1) * w
             high == r * w
  <2>1. r \in Nat /\ r - 1 \in Nat /\ r <= n
    BY <1>1
  <2>2. \A x, y, z \in Nat : x <= y => x * z <= y * z
    OBVIOUS
  <2>3. low \in Nat /\ high \in Nat /\ high <= n * w
    BY <1>1, <1>4, <2>1, <2>2
  <2> HIDE DEF low, high
  <2>4. SubSeq(t.data, low + 1, high) \in Seq(Int)
    BY <1>3, <1>4, <1>6, <2>3, SubSeqProperties
  <2> QED
    BY <2>4 DEF low, high
<1>8. slices = [r \in 1 .. n |-> SubSeq(t.data, (r - 1) * w + 1, r * w)]
  BY <1>1, <1>5 DEF Values
<1>9. slices \in Seq(Seq(Int)) /\ Len(slices) = n
      /\ \A r \in 1 .. n : slices[r] = SubSeq(t.data, (r - 1) * w + 1, r * w)
  <2> DEFINE Slice(r) == SubSeq(t.data, (r - 1) * w + 1, r * w)
  <2>1. slices = [r \in 1 .. n |-> Slice(r)]
    BY <1>8
  <2>2. \A r \in 1 .. n : Slice(r) \in Seq(Int)
    BY <1>7
  <2> HIDE DEF Slice, slices
  <2>3. slices \in Seq(Seq(Int)) /\ Len(slices) = n /\ \A r \in 1 .. n : slices[r] = Slice(r)
    BY <1>1, <2>1, <2>2
  <2> QED
    BY <2>3 DEF Slice
<1> HIDE DEF slices
<1>10. Flat(slices) = SubSeq(t.data, 1, n * w)
  BY <1>1, <1>3, <1>4, <1>9, SlicesJoin
<1>11. n <= t.shape[1] /\ n * w \in 0 .. Len(t.data)
  BY <1>1, <1>2, <1>3, <1>4
<1>12. n = Len(rows) /\ w = RowWidth(t) /\ slices = Values(rows)
  BY DEF n, w, slices
<1> QED
  BY <1>1, <1>10, <1>11, <1>12

(* from_dense gives a tensor of its arguments, or refuses; of the parts of  *)
(* a valid tensor it gives that tensor.                                     *)
LEMMA FromDense ==
    ASSUME NEW dtype, NEW shape, NEW content
    PROVE  /\ from_dense(dtype, shape, content).err = FALSE
                 => from_dense(dtype, shape, content).value.data = content
           /\ \A t \in TensorSet : /\ validate_tensor(t) /\ t.dtype = dtype
                                   /\ t.shape = shape /\ t.data = content
                 => from_dense(dtype, shape, content) = Success(t)
<1>1. from_dense(dtype, shape, content).err = FALSE
        => from_dense(dtype, shape, content).value.data = content
  BY DEF from_dense, Success, Rejected
<1>2. ASSUME NEW t \in TensorSet, validate_tensor(t), t.dtype = dtype, t.shape = shape, t.data = content
      PROVE  from_dense(dtype, shape, content) = Success(t)
  <2>1. t = [dtype |-> dtype, shape |-> shape, data |-> content]
    BY <1>2, ValidTensor
  <2> QED
    BY <1>2, <2>1 DEF from_dense
<1> QED
  BY <1>1, <1>2

(* CSV: what is read is the tensor, or it is refused.                       *)
LEMMA CsvReadsBack ==
    ASSUME NEW t \in TensorSet, validate_tensor(t), NEW bare \in BOOLEAN,
           NEW groups \in Seq(Seq(RowsFrom("csv", t))), NEW p, p = Carried("csv", t, bare, groups)
    PROVE  /\ \/ tensor_from_csv_bytes(p) = Rejected
              \/ ~bare /\ tensor_from_csv_bytes(p) = Success(t)
           /\ ~bare /\ groups = <<AllRows("csv", t)>> => tensor_from_csv_bytes(p) = Success(t)
<1> DEFINE rows == Flat(groups)
<1>1. "csv" \in FormatSet /\ "csv" # "arrow" /\ rows \in Seq(RowsFrom("csv", t))
  BY FlatIsSequence DEF FormatSet
<1>2. /\ t.shape # <<>> /\ shape_element_len(t.shape) = Len(t.data)
      /\ shape_element_len(t.shape) # Overflow
  BY ValidTensor
<1>3. /\ p.groups = groups /\ p.meta.order = "row-major" /\ p.meta.dtype = t.dtype
      /\ p.meta.shape = IF bare THEN <<>> ELSE t.shape
  BY DEF Carried
<1>4. tensor_shape_from_string(p.meta.shape).err <=> bare
  BY <1>2, <1>3 DEF tensor_shape_from_string, Rejected, Success
<1> HIDE DEF rows
<1> DEFINE fits == ~bare /\ Ordered(rows, 0) /\ Len(rows) = Len(t.data)
<1>5. tensor_from_csv_bytes(p) =
         IF fits THEN from_dense(t.dtype, t.shape, Values(rows)) ELSE Rejected
  BY <1>2, <1>3, <1>4 DEF tensor_from_csv_bytes, rows
<1>6. fits => tensor_from_csv_bytes(p) = Success(t)
  <2> SUFFICES ASSUME fits PROVE tensor_from_csv_bytes(p) = Success(t)
    OBVIOUS
  <2>1. Values(rows) = t.data
    BY <1>1, ValuesAreData
  <2> QED
    BY <1>5, <2>1, FromDense
<1>7. ~bare /\ groups = <<AllRows("csv", t)>> => fits
  BY <1>1, WrittenRows, FlatOfOne DEF rows
<1> QED
  BY <1>5, <1>6, <1>7

(* Parquet: likewise, however the rows are divided into row groups.         *)
LEMMA ParquetReadsBack ==
    ASSUME NEW t \in TensorSet, validate_tensor(t), NEW bare \in BOOLEAN,
           NEW groups \in Seq(Seq(RowsFrom("parquet", t))),
           NEW p, p = Carried("parquet", t, bare, groups)
    PROVE  /\ \/ tensor_from_parquet_bytes(p) = Rejected
              \/ ~bare /\ tensor_from_parquet_bytes(p) = Success(t)
           /\ ~bare /\ groups = <<AllRows("parquet", t)>> =>
                 tensor_from_parquet_bytes(p) = Success(t)
<1> DEFINE rows == Flat(groups)
<1>1. "parquet" \in FormatSet /\ "parquet" # "arrow" /\ rows \in Seq(RowsFrom("parquet", t))
  BY FlatIsSequence DEF FormatSet
<1>2. /\ t.shape # <<>> /\ shape_element_len(t.shape) = Len(t.data)
      /\ shape_element_len(t.shape) # Overflow
  BY ValidTensor
<1>3. /\ p.groups = groups /\ p.meta.order = "row-major" /\ p.meta.dtype = t.dtype
      /\ p.meta.shape = IF bare THEN <<>> ELSE t.shape
  BY DEF Carried
<1>4. parquet_tensor_metadata(p).err <=> bare
  BY <1>2, <1>3 DEF parquet_tensor_metadata, tensor_shape_from_string, Rejected, Success
<1> HIDE DEF rows
<1> DEFINE fits == ~bare /\ parquet_validate_flat_indices(groups) /\ Len(rows) = Len(t.data)
           column == parquet_read_tensor_column_values(p, shape_element_len(p.meta.shape))
<1>5. ~bare => column = IF fits THEN Success(Values(rows)) ELSE Rejected
  BY <1>2, <1>3 DEF parquet_read_tensor_column_values, rows
<1>6. tensor_from_parquet_bytes(p) =
         IF fits THEN from_dense(t.dtype, t.shape, Values(rows)) ELSE Rejected
  <2>1. CASE bare
    BY <1>4, <2>1 DEF tensor_from_parquet_bytes
  <2>2. CASE ~bare
    BY <1>2, <1>3, <1>4, <1>5, <2>2 DEF tensor_from_parquet_bytes, rows, Success, Rejected
  <2> QED
    BY <2>1, <2>2
<1>7. fits => tensor_from_parquet_bytes(p) = Success(t)
  <2> SUFFICES ASSUME fits PROVE tensor_from_parquet_bytes(p) = Success(t)
    OBVIOUS
  <2>1. Ordered(rows, 0)
    BY GroupsInOrder DEF rows
  <2>2. Values(rows) = t.data
    BY <1>1, <2>1, ValuesAreData
  <2> QED
    BY <1>6, <2>2, FromDense
<1>8. ~bare /\ groups = <<AllRows("parquet", t)>> => fits
  <2> SUFFICES ASSUME ~bare, groups = <<AllRows("parquet", t)>> PROVE fits
    OBVIOUS
  <2> DEFINE all == AllRows("parquet", t)
  <2>1. all \in Seq(RowSet) /\ Ordered(all, 0) /\ Len(all) = Len(t.data)
    BY <1>1, WrittenRows
  <2> HIDE DEF all
  <2>2. groups = <<all>>
    BY DEF all
  <2>3. rows = all /\ Joined(groups)[0] = <<>>
    BY <2>1, <2>2, FlatOfOne DEF rows
  <2>4. DOMAIN groups = {1} /\ groups[1] = all /\ 1 - 1 = 0 /\ Len(<<>>) = 0
    BY <2>2
  <2>5. parquet_validate_flat_indices(groups)
    BY <2>1, <2>3, <2>4 DEF parquet_validate_flat_indices
  <2> QED
    BY <2>1, <2>3, <2>5
<1> QED
  BY <1>6, <1>7, <1>8

(* The beginning of a sequence is a prefix of it.                           *)
LEMMA BeginningIsPrefix ==
    ASSUME NEW content \in Seq(Int), NEW m \in 0 .. Len(content)
    PROVE  IsPrefix(SubSeq(content, 1, m), content)
<1>1. Len(content) \in Nat /\ \A k \in 1 .. Len(content) : content[k] \in Int
  BY LenProperties, ElementOfSeq
<1>2. SubSeq(content, 1, m) \in Seq(Int) /\ Len(SubSeq(content, 1, m)) = m
  BY <1>1, SubSeqProperties
<1> DEFINE s == SubSeq(content, 1, m)
<1> HIDE DEF s
<1>3. s \in Seq(Int) /\ Len(s) = m /\ s = SubSeq(content, 1, m)
  BY <1>2 DEF s
<1>4. SubSeq(s, 1, Len(s)) = s
  BY <1>3, SubSeqFull
<1>5. IsPrefix(s, content)
  BY <1>1, <1>3, <1>4 DEF IsPrefix
<1> QED
  BY <1>5 DEF s

(* Arrow: likewise for the single batch; without the shape, what is read is *)
(* the beginning of the data.                                               *)
LEMMA ArrowReadsBack ==
    ASSUME NEW t \in TensorSet, validate_tensor(t), RowWidth(t) \notin {0, Overflow},
           NEW bare \in BOOLEAN, NEW groups \in Seq(Seq(RowsFrom("arrow", t))),
           NEW p, p = Carried("arrow", t, bare, groups)
    PROVE  /\ \/ from_arrow_ipc(p) = Rejected
              \/ ~bare /\ from_arrow_ipc(p) = Success(t)
              \/ bare /\ (~from_arrow_ipc(p).err => IsPrefix(from_arrow_ipc(p).value.data, t.data))
           /\ ~bare /\ groups = <<AllRows("arrow", t)>> => from_arrow_ipc(p) = Success(t)
<1> DEFINE w == RowWidth(t)
           rows == groups[1]
           content == Flat(Values(rows))
<1>1. /\ t.shape # <<>> /\ t.data \in Seq(Int) /\ t.shape[1] \in Nat
      /\ w = shape_element_len(Tail(t.shape))
  BY ValidTensor DEF RowWidth, arrow_row_width_for_shape
<1>2. /\ p.groups = groups /\ p.meta.dtype = t.dtype /\ p.width = w
      /\ p.meta.shape = IF bare THEN <<>> ELSE t.shape
  BY DEF Carried
<1>3. Len(groups) = 1 => rows \in Seq(RowsFrom("arrow", t))
  BY ElementOfSeq
<1>4. ASSUME Len(groups) = 1, Ordered(rows, 0)
      PROVE  /\ Len(rows) * w \in 0 .. Len(t.data)
             /\ content = SubSeq(t.data, 1, Len(rows) * w)
  BY <1>3, <1>4, SlicesAreData
<1>5. Len(t.data) = t.shape[1] * w
  BY RowsHoldData
<1>6. CASE ~bare
  <2> DEFINE fits == Len(groups) = 1 /\ Ordered(rows, 0) /\ Len(rows) = t.shape[1]
             shape == arrow_parse_dim_lens(t.shape, Len(rows), w)
  <2>1. shape = IF Len(rows) = t.shape[1] THEN Success(t.shape) ELSE Rejected
    BY <1>1 DEF arrow_parse_dim_lens
  <2>2. shape.err <=> Len(rows) # t.shape[1]
    BY <2>1 DEF Success, Rejected
  <2>3. Len(rows) = t.shape[1] => shape.value = t.shape
    BY <2>1 DEF Success
  <2>4. from_arrow_ipc(p) =
           IF Len(groups) # 1 \/ ~Ordered(rows, 0) \/ w = 0 \/ shape.err THEN Rejected
           ELSE from_dense(t.dtype, shape.value, content)
    <3> HIDE DEF shape, w
    <3>1. p.meta.shape = t.shape /\ p.meta.shape # <<>>
      BY <1>1, <1>2, <1>6
    <3> QED
      BY <1>2, <3>1 DEF from_arrow_ipc, tensor_from_arrow_record_batch, shape
  <2> HIDE DEF shape, rows, content, w
  <2>5. from_arrow_ipc(p) = IF fits THEN from_dense(t.dtype, t.shape, content) ELSE Rejected
    BY <2>2, <2>3, <2>4 DEF w
  <2>6. fits => from_arrow_ipc(p) = Success(t)
    <3> SUFFICES ASSUME fits PROVE from_arrow_ipc(p) = Success(t)
      OBVIOUS
    <3>1. content = SubSeq(t.data, 1, Len(t.data))
      BY <1>4, <1>5
    <3>2. content = t.data
      BY <1>1, <3>1, SubSeqFull
    <3> QED
      BY <2>5, <3>2, FromDense
  <2>7. groups = <<AllRows("arrow", t)>> => fits
    <3>1. "arrow" \in FormatSet
      BY DEF FormatSet
    <3>2. Ordered(AllRows("arrow", t), 0) /\ Len(AllRows("arrow", t)) = t.shape[1]
      BY <3>1, WrittenRows
    <3> QED
      BY <3>2 DEF rows
  <2> QED
    BY <1>6, <2>5, <2>6, <2>7
<1>7. CASE bare
  <2> DEFINE shape == arrow_infer_shape(Len(rows), w)
  <2>1. from_arrow_ipc(p) =
           IF Len(groups) # 1 \/ ~Ordered(rows, 0) \/ w = 0 \/ shape.err THEN Rejected
           ELSE from_dense(t.dtype, shape.value, content)
    <3> HIDE DEF shape, w
    <3>1. p.meta.shape = <<>>
      BY <1>2, <1>7
    <3> QED
      BY <1>2, <3>1 DEF from_arrow_ipc, tensor_from_arrow_record_batch, shape
  <2> HIDE DEF shape, rows, content, w
  <2>2. CASE Len(groups) = 1 /\ Ordered(rows, 0)
    <3>1. IsPrefix(content, t.data)
      BY <1>1, <1>4, <2>2, BeginningIsPrefix
    <3>2. from_arrow_ipc(p) = Rejected \/ from_arrow_ipc(p) = from_dense(t.dtype, shape.value, content)
      BY <2>1
    <3> DEFINE r == from_dense(t.dtype, shape.value, content)
    <3>3. r.err = FALSE => r.value.data = content
      BY FromDense
    <3>4. r.err \in BOOLEAN
      BY DEF from_dense, Success, Rejected
    <3> HIDE DEF r
    <3>5. ~r.err => IsPrefix(r.value.data, t.data)
      BY <3>1, <3>3, <3>4
    <3>6. from_arrow_ipc(p) = Rejected \/ from_arrow_ipc(p) = r
      BY <3>2 DEF r
    <3> QED
      BY <1>7, <3>5, <3>6
  <2>3. CASE ~(Len(groups) = 1 /\ Ordered(rows, 0))
    BY <1>7, <2>1, <2>3
  <2> QED
    BY <2>2, <2>3
<1> QED
  BY <1>6, <1>7

(* Whatever the format: a payload with rows of the tensor gives the tensor, *)
(* the beginning of its data when the shape was dropped, or is refused; and *)
(* with all of its rows as written it gives the tensor.                     *)
LEMMA DecodingIsFaithful ==
    ASSUME NEW t \in TensorSet, validate_tensor(t), NEW format \in FormatSet,
           format = "arrow" => RowWidth(t) \notin {0, Overflow},
           NEW bare \in BOOLEAN, NEW groups \in Seq(Seq(RowsFrom(format, t))),
           NEW p, p = Carried(format, t, bare, groups)
    PROVE  /\ ~Decoding(p).err =>
                 IF bare THEN format = "arrow" /\ IsPrefix(Decoding(p).value.data, t.data)
                 ELSE Decoding(p) = Success(t)
           /\ ~bare /\ groups = <<AllRows(format, t)>> => Decoding(p) = Success(t)
<1>1. p.format = format /\ Rejected.err = TRUE
  BY DEF Carried, Rejected
<1>2. CASE format = "csv"
  <2>1. Decoding(p) = tensor_from_csv_bytes(p)
    BY <1>1, <1>2 DEF Decoding
  <2> QED
    BY <1>1, <1>2, <2>1, CsvReadsBack
<1>3. CASE format = "parquet"
  <2>1. Decoding(p) = tensor_from_parquet_bytes(p)
    BY <1>1, <1>3 DEF Decoding
  <2> QED
    BY <1>1, <1>3, <2>1, ParquetReadsBack
<1>4. CASE format = "arrow"
  <2>1. Decoding(p) = from_arrow_ipc(p)
    BY <1>1, <1>4 DEF Decoding
  <2> QED
    <3>1. RowWidth(t) \notin {0, Overflow} /\ groups \in Seq(Seq(RowsFrom("arrow", t)))
          /\ p = Carried("arrow", t, bare, groups)
      BY <1>4
    <3> DEFINE r == from_arrow_ipc(p)
    <3>2. /\ \/ r = Rejected
             \/ ~bare /\ r = Success(t)
             \/ bare /\ (~r.err => IsPrefix(r.value.data, t.data))
          /\ ~bare /\ groups = <<AllRows("arrow", t)>> => r = Success(t)
      BY <3>1, ArrowReadsBack
    <3> HIDE DEF r
    <3> QED
      BY <1>1, <1>4, <2>1, <3>2 DEF r
<1> QED
  BY <1>2, <1>3, <1>4 DEF FormatSet

(* ---- The steps of the interchange ---------------------------------------- *)

(* Taking an element out, or putting one in again, leaves a sequence of the *)
(* same elements.                                                           *)
LEMMA RemovedStays ==
    ASSUME NEW S, NEW s \in Seq(S), NEW k \in 1 .. Len(s)
    PROVE  RemoveAt(s, k) \in Seq(S)
<1>1. Len(s) \in Nat /\ \A i \in 1 .. Len(s) : s[i] \in S
  BY LenProperties, ElementOfSeq
<1>2. SubSeq(s, 1, k - 1) \in Seq(S)
  <2>1. \A i \in 1 .. k - 1 : s[i] \in S
    BY <1>1
  <2> QED
    BY <2>1, SubSeqProperties
<1>3. SubSeq(s, k + 1, Len(s)) \in Seq(S)
  <2>1. \A i \in k + 1 .. Len(s) : s[i] \in S
    BY <1>1
  <2> QED
    BY <1>1, <2>1, SubSeqProperties
<1> QED
  BY <1>2, <1>3, ConcatProperties DEF RemoveAt

(* Likewise for an insertion.                                               *)
LEMMA InsertedStays ==
    ASSUME NEW S, NEW s \in Seq(S), NEW k \in 1 .. Len(s), NEW e \in S
    PROVE  InsertAt(s, k, e) \in Seq(S)
<1>1. Len(s) \in Nat /\ \A i \in 1 .. Len(s) : s[i] \in S
  BY LenProperties, ElementOfSeq
<1>2. SubSeq(s, 1, k - 1) \in Seq(S)
  <2>1. \A i \in 1 .. k - 1 : s[i] \in S
    BY <1>1
  <2> QED
    BY <2>1, SubSeqProperties
<1>3. SubSeq(s, k, Len(s)) \in Seq(S)
  <2>1. \A i \in k .. Len(s) : s[i] \in S
    BY <1>1
  <2> QED
    BY <1>1, <2>1, SubSeqProperties
<1>4. <<e>> \in Seq(S)
  OBVIOUS
<1>5. SubSeq(s, 1, k - 1) \o <<e>> \in Seq(S)
  BY <1>2, <1>4, ConcatProperties
<1> QED
  BY <1>3, <1>5, ConcatProperties DEF InsertAt

(* Likewise for an exchange.                                                *)
LEMMA ExchangedStays ==
    ASSUME NEW S, NEW s \in Seq(S), NEW j \in 1 .. Len(s), NEW k \in 1 .. Len(s)
    PROVE  Exchanged(s, j, k) \in Seq(S)
<1>1. s[j] \in S /\ s[k] \in S
  BY ElementOfSeq
<1> DEFINE one == [s EXCEPT ![j] = s[k]]
<1>2. one \in Seq(S) /\ Len(one) = Len(s)
  BY <1>1, ExceptSeq
<1>3. Exchanged(s, j, k) = [one EXCEPT ![k] = s[j]]
  BY DEF Exchanged
<1> HIDE DEF one
<1> QED
  BY <1>1, <1>2, <1>3, ExceptSeq

(* Likewise for groups one of which is cut in two.                          *)
LEMMA CutStays ==
    ASSUME NEW S, NEW groups \in Seq(Seq(S)), NEW g \in 1 .. Len(groups),
           NEW k \in 0 .. Len(groups[g])
    PROVE  SubSeq(groups, 1, g - 1)
             \o <<SubSeq(groups[g], 1, k), SubSeq(groups[g], k + 1, Len(groups[g]))>>
             \o SubSeq(groups, g + 1, Len(groups)) \in Seq(Seq(S))
<1> DEFINE group == groups[g]
           left == SubSeq(group, 1, k)
           right == SubSeq(group, k + 1, Len(group))
           before == SubSeq(groups, 1, g - 1)
           after == SubSeq(groups, g + 1, Len(groups))
<1>1. Len(groups) \in Nat /\ (\A i \in 1 .. Len(groups) : groups[i] \in Seq(S)) /\ group \in Seq(S)
  BY LenProperties, ElementOfSeq
<1>2. Len(group) \in Nat /\ \A i \in 1 .. Len(group) : group[i] \in S
  BY <1>1, LenProperties, ElementOfSeq
<1>3. left \in Seq(S)
  <2>1. \A i \in 1 .. k : group[i] \in S
    BY <1>2
  <2> QED
    BY <2>1, SubSeqProperties
<1>4. right \in Seq(S)
  <2>1. \A i \in k + 1 .. Len(group) : group[i] \in S
    BY <1>2
  <2> QED
    BY <1>2, <2>1, SubSeqProperties
<1>5. before \in Seq(Seq(S))
  <2>1. \A i \in 1 .. g - 1 : groups[i] \in Seq(S)
    BY <1>1
  <2> QED
    BY <2>1, SubSeqProperties
<1>6. after \in Seq(Seq(S))
  <2>1. \A i \in g + 1 .. Len(groups) : groups[i] \in Seq(S)
    BY <1>1
  <2> QED
    BY <1>1, <2>1, SubSeqProperties
<1> HIDE DEF left, right, before, after
<1>7. <<left, right>> \in Seq(Seq(S))
  BY <1>3, <1>4
<1>8. before \o <<left, right>> \in Seq(Seq(S))
  BY <1>5, <1>7, ConcatProperties
<1>9. (before \o <<left, right>>) \o after \in Seq(Seq(S))
  BY <1>6, <1>8, ConcatProperties
<1> QED
  BY <1>9 DEF left, right, before, after

(* What a writer gives is the payload that carries all of the rows.         *)
LEMMA WritingCarriesRows ==
    ASSUME NEW t \in TensorSet, NEW p,
           p \in {tensor_to_csv_string(t), tensor_to_parquet_bytes(t),
                  tensor_to_arrow_record_batch(t)},
           ~p.err
    PROVE  /\ validate_tensor(t)
           /\ \E format \in FormatSet :
                 /\ format = "arrow" => RowWidth(t) \notin {0, Overflow}
                 /\ p.value = Carried(format, t, FALSE, <<AllRows(format, t)>>)
<1>1. p # Rejected
  BY DEF Rejected
<1>2. CASE p = tensor_to_csv_string(t)
  <2>1. validate_tensor(t) /\ p = Written("csv", t, 1, <<Rows(t.data)>>)
    BY <1>1, <1>2 DEF tensor_to_csv_string
  <2>2. p.value = Carried("csv", t, FALSE, <<AllRows("csv", t)>>)
    BY <2>1 DEF Written, Success, Meta, Carried, AllRows
  <2> QED
    BY <2>1, <2>2 DEF FormatSet
<1>3. CASE p = tensor_to_parquet_bytes(t)
  <2>1. validate_tensor(t) /\ p = Written("parquet", t, 1, <<Rows(t.data)>>)
    BY <1>1, <1>3 DEF tensor_to_parquet_bytes
  <2>2. p.value = Carried("parquet", t, FALSE, <<AllRows("parquet", t)>>)
    BY <2>1 DEF Written, Success, Meta, Carried, AllRows
  <2> QED
    BY <2>1, <2>2 DEF FormatSet
<1>4. CASE p = tensor_to_arrow_record_batch(t)
  <2>1. /\ validate_tensor(t) /\ RowWidth(t) \notin {0, Overflow}
        /\ p = Written("arrow", t, RowWidth(t), <<Slices(t, RowWidth(t))>>)
    BY <1>1, <1>4 DEF tensor_to_arrow_record_batch, RowWidth
  <2>2. p.value = Carried("arrow", t, FALSE, <<AllRows("arrow", t)>>)
    BY <2>1 DEF Written, Success, Meta, Carried, AllRows
  <2> QED
    BY <2>1, <2>2 DEF FormatSet
<1> QED
  BY <1>2, <1>3, <1>4

(* A change of the groups that keeps rows of the tensor keeps the invariant.*)
LEMMA ChangesStay ==
    ASSUME InterchangeInv, NEW groups, Changes(groups),
           groups \in Seq(Seq(RowsFrom(written.format, original)))
    PROVE  InterchangeInv'
<1>1. /\ written # <<>> /\ decoded = <<>>
      /\ written' = [written EXCEPT !.groups = groups] /\ faults' = faults + 1
      /\ original' = original /\ stripped' = stripped /\ decoded' = decoded
  BY DEF Changes
<1>2. CarriesRows /\ faults \in Nat /\ original \in Originals /\ stripped \in BOOLEAN
  BY <1>1 DEF InterchangeInv
<1>3. written = Carried(written.format, original, stripped, written.groups)
  BY <1>2 DEF CarriesRows
<1>4. /\ written' = Carried(written.format, original, stripped, groups)
      /\ written'.format = written.format /\ written'.groups = groups
  BY <1>1, <1>3 DEF Carried
<1>5. faults' \in Nat /\ faults' # 0
  BY <1>1, <1>2
<1>6. written' # <<>>
  <2> DEFINE f == written.format
             meta == [dtype |-> original.dtype,
                      shape |-> IF stripped THEN <<>> ELSE original.shape,
                      order |-> "row-major"]
             width == IF f = "arrow" THEN RowWidth(original) ELSE 1
  <2>1. written' = [format |-> f, meta |-> meta, width |-> width, groups |-> groups]
    BY <1>4 DEF Carried
  <2> HIDE DEF f, meta, width
  <2>2. DOMAIN written' # {} /\ DOMAIN <<>> = {}
    BY <2>1
  <2> QED
    BY <2>2
<1>7. CarriesRows'
  BY <1>1, <1>2, <1>4, <1>5 DEF CarriesRows
<1> QED
  BY <1>1, <1>2, <1>5, <1>6, <1>7 DEF InterchangeInv

(* The invariant holds before anything is written.                          *)
LEMMA InterchangeInvInit == InterchangeInit => InterchangeInv
<1> SUFFICES ASSUME InterchangeInit PROVE InterchangeInv
  OBVIOUS
<1>1. original \in Originals /\ written = <<>> /\ faults = 0 /\ stripped = FALSE /\ decoded = <<>>
  BY DEF InterchangeInit
<1>2. faults \in Nat /\ stripped \in BOOLEAN
  BY <1>1
<1> QED
  BY <1>1, <1>2, Zenon DEF InterchangeInv

(* Every step of the interchange keeps the invariant.                       *)
LEMMA InterchangeInvNext ==
    InterchangeInv /\ [InterchangeNext]_interchangeVars => InterchangeInv'
<1> SUFFICES ASSUME InterchangeInv, [InterchangeNext]_interchangeVars PROVE InterchangeInv'
  OBVIOUS
<1> DEFINE S == RowsFrom(written.format, original)
<1>1. /\ original \in Originals /\ faults \in Nat /\ stripped \in BOOLEAN
      /\ faults = 0 => ~stripped
  BY DEF InterchangeInv
<1>2. original \in TensorSet
  BY <1>1, InterchangeAssumption DEF TensorSet
<1>3. ASSUME written # <<>>
      PROVE  /\ written.groups \in Seq(Seq(S)) /\ DOMAIN written.groups = 1 .. Len(written.groups)
             /\ \A g \in DOMAIN written.groups :
                   /\ written.groups[g] \in Seq(S)
                   /\ DOMAIN written.groups[g] = 1 .. Len(written.groups[g])
                   /\ \A k \in DOMAIN written.groups[g] : written.groups[g][k] \in S
  <2>1. written.groups \in Seq(Seq(S))
    BY <1>3 DEF InterchangeInv, CarriesRows
  <2> HIDE DEF S
  <2> QED
    BY <2>1, LenProperties, ElementOfSeq
<1> HIDE DEF S
<1>4. ASSUME written # <<>>, NEW g \in DOMAIN written.groups, NEW rows \in Seq(S),
             Changes([written.groups EXCEPT ![g] = rows])
      PROVE  InterchangeInv'
  <2>1. [written.groups EXCEPT ![g] = rows] \in Seq(Seq(S))
    BY <1>3, <1>4, ExceptSeq
  <2> QED
    BY <1>4, <2>1, ChangesStay DEF S
<1>5. CASE Write
  <2>1. PICK p \in {tensor_to_csv_string(original), tensor_to_parquet_bytes(original),
                    tensor_to_arrow_record_batch(original)} : ~p.err /\ written' = p.value
    BY <1>5 DEF Write
  <2>2. PICK format \in FormatSet :
           /\ format = "arrow" => RowWidth(original) \notin {0, Overflow}
           /\ written' = Carried(format, original, FALSE, <<AllRows(format, original)>>)
    BY <1>2, <2>1, WritingCarriesRows
  <2>3. validate_tensor(original)
    BY <1>2, <2>1, WritingCarriesRows
  <2>4. /\ written = <<>> /\ original' = original /\ faults' = faults /\ stripped' = stripped
        /\ decoded' = decoded /\ faults = 0 /\ decoded = <<>> /\ ~stripped
    BY <1>5 DEF Write, InterchangeInv
  <2>5. AllRows(format, original) \in Seq(RowsFrom(format, original))
    <3> DEFINE all == AllRows(format, original)
    <3>1. all \in Seq(RowSet)
      BY <1>2, <2>2, <2>3, WrittenRows
    <3> HIDE DEF all
    <3>2. all \in Seq({all[k] : k \in 1 .. Len(all)})
      BY <3>1
    <3> QED
      BY <3>2 DEF all, RowsFrom
  <2>6. /\ written'.format = format /\ written'.groups = <<AllRows(format, original)>>
        /\ stripped = FALSE
    BY <1>1, <2>2, <2>4 DEF Carried
  <2>7. <<AllRows(format, original)>> \in Seq(Seq(RowsFrom(format, original)))
    BY <2>5
  <2>8. CarriesRows'
    BY <2>2, <2>3, <2>4, <2>6, <2>7 DEF CarriesRows
  <2> QED
    BY <1>1, <2>4, <2>8 DEF InterchangeInv
<1>6. CASE LoseRow
  <2>1. PICK g \in DOMAIN written.groups : \E k \in DOMAIN written.groups[g] :
           Changes([written.groups EXCEPT ![g] = RemoveAt(written.groups[g], k)])
    BY <1>6 DEF LoseRow
  <2>2. PICK k \in DOMAIN written.groups[g] :
           Changes([written.groups EXCEPT ![g] = RemoveAt(written.groups[g], k)])
    BY <2>1
  <2>3. written # <<>>
    BY <1>6 DEF LoseRow
  <2>4. RemoveAt(written.groups[g], k) \in Seq(S)
    BY <1>3, <2>3, RemovedStays
  <2> QED
    BY <1>4, <2>2, <2>3, <2>4
<1>7. CASE RepeatRow
  <2>1. PICK g \in DOMAIN written.groups : \E k \in DOMAIN written.groups[g] :
           Changes([written.groups EXCEPT
                      ![g] = InsertAt(written.groups[g], k, written.groups[g][k])])
    BY <1>7 DEF RepeatRow
  <2>2. PICK k \in DOMAIN written.groups[g] :
           Changes([written.groups EXCEPT
                      ![g] = InsertAt(written.groups[g], k, written.groups[g][k])])
    BY <2>1
  <2>3. written # <<>>
    BY <1>7 DEF RepeatRow
  <2>4. InsertAt(written.groups[g], k, written.groups[g][k]) \in Seq(S)
    BY <1>3, <2>3, InsertedStays
  <2> QED
    BY <1>4, <2>2, <2>3, <2>4
<1>8. CASE ExchangeRows
  <2>1. PICK g \in DOMAIN written.groups : \E j, k \in DOMAIN written.groups[g] :
           Changes([written.groups EXCEPT ![g] = Exchanged(written.groups[g], j, k)])
    BY <1>8 DEF ExchangeRows
  <2>2. PICK j \in DOMAIN written.groups[g], k \in DOMAIN written.groups[g] :
           Changes([written.groups EXCEPT ![g] = Exchanged(written.groups[g], j, k)])
    BY <2>1
  <2>3. written # <<>>
    BY <1>8 DEF ExchangeRows
  <2>4. Exchanged(written.groups[g], j, k) \in Seq(S)
    BY <1>3, <2>3, ExchangedStays
  <2> QED
    BY <1>4, <2>2, <2>3, <2>4
<1>9. CASE Regroup
  <2> DEFINE Cut(g, k) ==
               SubSeq(written.groups, 1, g - 1)
                 \o <<SubSeq(written.groups[g], 1, k),
                      SubSeq(written.groups[g], k + 1, Len(written.groups[g]))>>
                 \o SubSeq(written.groups, g + 1, Len(written.groups))
  <2>1. PICK g \in DOMAIN written.groups :
           \E k \in 0 .. Len(written.groups[g]) : Changes(Cut(g, k))
    BY <1>9 DEF Regroup
  <2>2. PICK k \in 0 .. Len(written.groups[g]) : Changes(Cut(g, k))
    BY <2>1
  <2>3. written # <<>>
    BY <1>9 DEF Regroup
  <2>4. Cut(g, k) \in Seq(Seq(S))
    BY <1>3, <2>3, CutStays
  <2> QED
    BY <2>2, <2>4, ChangesStay DEF S
<1>10. CASE StripShape
  <2>1. /\ written # <<>> /\ decoded = <<>> /\ stripped' = TRUE /\ faults' = faults + 1
        /\ written' = [written EXCEPT !.meta.shape = <<>>]
        /\ original' = original /\ decoded' = decoded
    BY <1>10 DEF StripShape
  <2>2. CarriesRows /\ faults' \in Nat /\ faults' # 0
    BY <1>1, <2>1 DEF InterchangeInv
  <2>3. written = Carried(written.format, original, stripped, written.groups)
    BY <2>2 DEF CarriesRows
  <2>4. /\ written' = Carried(written.format, original, TRUE, written.groups)
        /\ written'.format = written.format /\ written'.groups = written.groups
    BY <2>1, <2>3 DEF Carried
  <2>5. CarriesRows'
    BY <2>1, <2>2, <2>4 DEF CarriesRows
  <2>6. written' # <<>>
    <3> DEFINE f == written.format
               w == written.groups
               meta == [dtype |-> original.dtype, shape |-> <<>>, order |-> "row-major"]
               width == IF f = "arrow" THEN RowWidth(original) ELSE 1
    <3>1. written' = [format |-> f, meta |-> meta, width |-> width, groups |-> w]
      BY <2>4 DEF Carried
    <3> HIDE DEF f, meta, width, w
    <3>2. DOMAIN written' # {} /\ DOMAIN <<>> = {}
      BY <3>1
    <3> QED
      BY <3>2
  <2> QED
    BY <1>1, <2>1, <2>2, <2>5, <2>6 DEF InterchangeInv
<1>11. CASE Read
  <2>1. /\ written # <<>> /\ decoded' = Decoding(written) /\ written' = written
        /\ original' = original /\ faults' = faults /\ stripped' = stripped
    BY <1>11 DEF Read
  <2>2. Decoding(written)' = Decoding(written)
    BY <2>1
  <2>3. CarriesRows'
    BY <2>1 DEF InterchangeInv, CarriesRows
  <2> QED
    BY <1>1, <2>1, <2>3 DEF InterchangeInv
<1>12. CASE UNCHANGED interchangeVars
  BY <1>12 DEF interchangeVars, InterchangeInv, CarriesRows
<1> QED
  BY <1>5, <1>6, <1>7, <1>8, <1>9, <1>10, <1>11, <1>12 DEF InterchangeNext

(* The invariant: a payload carries rows of its tensor only, all of them as *)
(* written while nothing has changed, under the tensor's metadata.          *)
THEOREM InterchangeInvHolds == InterchangeSpec => []InterchangeInv
BY InterchangeInvInit, InterchangeInvNext, PTL DEF InterchangeSpec

(* What the invariant says of a payload that was read.                      *)
LEMMA DecodedIsFaithful ==
    ASSUME InterchangeInv
    PROVE  RoundTrips /\ RowFaultsNeverPass
<1> SUFFICES ASSUME decoded # <<>> PROVE RoundTrips /\ RowFaultsNeverPass
  BY DEF RoundTrips, RowFaultsNeverPass
<1>1. /\ written # <<>> /\ CarriesRows /\ decoded = Decoding(written)
      /\ stripped \in BOOLEAN /\ original \in Originals
      /\ faults = 0 => ~stripped
  BY DEF InterchangeInv
<1>2. original \in TensorSet
  BY <1>1, InterchangeAssumption DEF TensorSet
<1> DEFINE format == written.format
           groups == written.groups
<1>3. /\ validate_tensor(original) /\ format \in FormatSet
      /\ format = "arrow" => RowWidth(original) \notin {0, Overflow}
      /\ written = Carried(format, original, stripped, groups)
      /\ groups \in Seq(Seq(RowsFrom(format, original)))
      /\ faults = 0 => groups = <<AllRows(format, original)>>
  BY <1>1 DEF CarriesRows
<1> HIDE DEF format, groups
<1>4. /\ ~Decoding(written).err =>
            IF stripped
            THEN format = "arrow" /\ IsPrefix(Decoding(written).value.data, original.data)
            ELSE Decoding(written) = Success(original)
      /\ ~stripped /\ groups = <<AllRows(format, original)>> =>
            Decoding(written) = Success(original)
  BY <1>1, <1>2, <1>3, DecodingIsFaithful
<1>5. RoundTrips
  BY <1>1, <1>3, <1>4 DEF RoundTrips
<1>6. RowFaultsNeverPass
  BY <1>1, <1>4 DEF RowFaultsNeverPass, Success, format
<1> QED
  BY <1>5, <1>6

(* A tensor that was written and read back is the tensor, in all three      *)
(* formats and for any shape and data.                                      *)
THEOREM InterchangeRoundTrips == InterchangeSpec => []RoundTrips
<1>1. InterchangeInv => RoundTrips
  BY DecodedIsFaithful
<1> QED
  BY <1>1, InterchangeInvHolds, PTL

(* No number of rows lost, repeated, exchanged or regrouped on the way      *)
(* gives a different tensor.                                                *)
THEOREM ChangedRowsAreRefused == InterchangeSpec => []RowFaultsNeverPass
<1>1. InterchangeInv => RowFaultsNeverPass
  BY DecodedIsFaithful
<1> QED
  BY <1>1, InterchangeInvHolds, PTL
=============================================================================
