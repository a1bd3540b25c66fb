------------------------ MODULE AppendableFileProofs ------------------------
(***************************************************************************)
(* Proofs about append sessions and opens of an appendable file, for any   *)
(* number of writers, sessions, batches and readers' interleavings: the    *)
(* lock follows the handle, sessions are atomic in every root a reader may *)
(* open, and an open is fresh unless commits overrun it.                   *)
(***************************************************************************)
EXTENDS AppendableFile, RootSelection, SequenceTheorems, SumTheorems, TLAPS

Phases == {"none", "open", "committing", "rooted", "torn", "written"}
Publishing == {"committing", "rooted", "torn", "written"}
Outcomes == {"none", "active", "committing", "committed", "unknown", "failed", "dropped"}
Batches == [kind : {"batch"}, of : Sessions, nth : Nat]
Roots == [kind : {"root"}, generation : Nat \ {0}, rows : Seq(Batches)]
SlotValues == [intact : BOOLEAN, generation : Nat, end : Nat]
Readers == [at : {"idle", "sized", "table", "done"}, length : Nat, asOf : Nat,
            overrun : 0 .. 2, table : [Slot -> SlotValues], result : Nat]

\* The state has the types of the file, the handles and the reader's locals.
TypeOK ==
  /\ body \in Seq(Batches \cup Roots)
  /\ slots \in [Slot -> SlotValues]
  /\ lock \in Writers \cup {NoWriter}
  /\ alive \in [Writers -> BOOLEAN] /\ raw \in [Writers -> BOOLEAN]
  /\ native \in [Writers -> [phase : Phases, base : Nat]]
  /\ begun \in 0 .. MaxSessions
  /\ session \in [Writers -> 0 .. MaxSessions]
  /\ outcome \in [Sessions -> Outcomes]
  /\ sent \in [Sessions -> Seq(Batches)]
  /\ reader \in Readers

\* A decodable slot names the end of a root of its generation.
LeadsToRoot(s) ==
  /\ s.end \in 1 .. Len(body)
  /\ body[s.end] \in Roots
  /\ body[s.end].generation = s.generation

Intact(table) == {i \in Slot : table[i].intact}
Newest(table) ==
  CHOOSE i \in Intact(table) : \A j \in Intact(table) : table[j].generation <= table[i].generation
LastEnd == slots[Newest(slots)].end
Current == body[LastEnd]

\* Some slot decodes, each one that does leads to its root, and a newer
\* generation lies further on in the body.
FileSound ==
  /\ Intact(slots) # {}
  /\ \A i \in Intact(slots) : LeadsToRoot(slots[i])
  /\ \A i, j \in Intact(slots) :
       i # j => \/ slots[i].generation < slots[j].generation /\ slots[i].end < slots[j].end
                \/ slots[j].generation < slots[i].generation /\ slots[j].end < slots[i].end

\* The lock, the handles and the native sessions go together.
LockSound ==
  \A w \in Writers :
    /\ lock = w <=> native[w].phase # "none"
    /\ raw[w] <=> native[w].phase = "open"
    /\ raw[w] => alive[w]

\* What a native session in each phase knows of the file.
NativeOk(w) ==
  LET s == session[w] IN
  /\ native[w].phase # "none" => s \in 1 .. begun
  /\ native[w].phase \in {"open", "committing", "rooted"} =>
       native[w].base \in LastEnd .. Len(body)
  /\ native[w].phase = "open" => outcome[s] = "active"
  /\ native[w].phase \in Publishing => outcome[s] = "committing"
  /\ native[w].phase \in {"open", "committing", "rooted", "torn"} =>
       \A i \in Intact(slots) : s \notin SessionsIn(body[slots[i].end].rows)
  /\ native[w].phase \in {"rooted", "torn"} =>
       /\ LastEnd < Len(body)
       /\ body[Len(body)] = Root(Current.generation + 1, Current.rows \o sent[s])
  /\ native[w].phase = "torn" => \E i \in Slot : ~slots[i].intact
  /\ native[w].phase = "written" => HoldsAll(Current.rows, s, sent[s])

NativeSound == \A w \in Writers : NativeOk(w)

\* What the rows of the roots and the callers' answers say of each session.
SessionsSound ==
  /\ \A s \in Sessions : \A j \in DOMAIN sent[s] : sent[s][j].of = s
  /\ \A s \in Sessions : s > begun => outcome[s] = "none"
  /\ \A i \in Intact(slots) : \A s \in SessionsIn(body[slots[i].end].rows) :
       /\ HoldsAll(body[slots[i].end].rows, s, sent[s])
       /\ outcome[s] \in {"committing", "committed", "unknown"}
  /\ \A s \in Sessions : outcome[s] = "committed" => HoldsAll(Current.rows, s, sent[s])

\* While the reader has only the length: the newest root is no older than the
\* one of that moment, and until the first slot is rewritten everything lies
\* within the length.
SizedSound ==
  reader.at = "sized" =>
    /\ reader.asOf <= slots[Newest(slots)].generation
    /\ reader.overrun = 0 =>
         /\ LastEnd <= reader.length
         /\ \A w \in Writers : native[w].phase = "torn" => Len(body) <= reader.length
    /\ reader.overrun = 1 =>
         \E i \in Intact(slots) : /\ slots[i].generation >= reader.asOf
                                  /\ slots[i].end <= reader.length
    /\ reader.overrun > 0 =>
         \A i \in Intact(slots) : slots[i].generation >= reader.asOf

\* The roots of the table it read stay where they are.
TableSound ==
  reader.at = "table" =>
    /\ \A i \in Intact(reader.table) : /\ LeadsToRoot(reader.table[i])
                                       /\ reader.table[i].end <= LastEnd
    /\ reader.overrun < 2 =>
         \E i \in Intact(reader.table) : /\ reader.table[i].generation >= reader.asOf
                                         /\ reader.table[i].end <= reader.length
    /\ reader.overrun > 0 =>
         \A i \in Intact(reader.table) : reader.table[i].generation >= reader.asOf

IInv == /\ TypeOK /\ FileSound /\ LockSound /\ NativeSound /\ SessionsSound
        /\ SizedSound /\ TableSound /\ OpenFreshUnlessOverrun

-----------------------------------------------------------------------------
(* The slot table and the root it selects.                                 *)

\* Among some slots there is one of the greatest generation.
LEMMA GreatestSlot ==
  ASSUME NEW t \in [Slot -> SlotValues], NEW S \in SUBSET Slot, S # {},
         NEW n, n = CHOOSE i \in S : \A j \in S : t[j].generation <= t[i].generation
  PROVE  n \in S /\ \A j \in S : t[j].generation <= t[n].generation
<1>1. \A i \in Slot : t[i].generation \in Nat
  BY DEF SlotValues
<1>2. \E i \in S : \A j \in S : t[j].generation <= t[i].generation
  <2>1. PICK i \in S : TRUE
    OBVIOUS
  <2>2. CASE \A j \in S : t[j].generation <= t[i].generation
    BY <2>1, <2>2
  <2>3. CASE ~\A j \in S : t[j].generation <= t[i].generation
    <3>1. PICK j \in S : ~(t[j].generation <= t[i].generation)
      BY <2>3
    <3>2. j # i /\ \A k \in S : k \in {i, j}
      BY <1>1, <2>1, <3>1 DEF Slot
    <3>3. \A k \in S : t[k].generation <= t[j].generation
      BY <1>1, <3>1, <3>2
    <3> QED BY <3>1, <3>3
  <2> QED BY <2>2, <2>3
<1> QED
  BY <1>2

\* A table with a slot that decodes has a newest one.
LEMMA NewestDecodes ==
  ASSUME NEW t \in [Slot -> SlotValues], Intact(t) # {}
  PROVE  /\ Newest(t) \in Intact(t)
         /\ \A j \in Intact(t) : t[j].generation <= t[Newest(t)].generation
<1>1. Intact(t) \in SUBSET Slot
  BY DEF Intact
<1>2. Newest(t) = CHOOSE i \in Intact(t) : \A j \in Intact(t) : t[j].generation <= t[i].generation
  BY DEF Newest
<1> QED
  BY <1>1, <1>2, GreatestSlot

\* The newest one is known by its generation.
LEMMA NewestIs ==
  ASSUME NEW t \in [Slot -> SlotValues], NEW i \in Intact(t),
         \A j \in Intact(t) : j # i => t[j].generation < t[i].generation
  PROVE  Newest(t) = i
<1>1. Newest(t) \in Intact(t) /\ t[i].generation <= t[Newest(t)].generation
  BY NewestDecodes
<1>2. t[i].generation \in Nat /\ t[Newest(t)].generation \in Nat
  BY <1>1 DEF Intact, SlotValues
<1> QED
  BY <1>1, <1>2

\* In a sound file an open without a rival selects the newest slot that
\* decodes, and every such slot's root lies at or before the selected one.
LEMMA SelectedRoot ==
  ASSUME TypeOK, FileSound
  PROVE  /\ Candidates(slots, Len(body)) = Intact(slots)
         /\ Selected = Newest(slots) /\ Published = Current
         /\ Newest(slots) \in Intact(slots) /\ Newest(slots) \in Slot
         /\ LastEnd \in 1 .. Len(body) /\ Len(body) \in Nat
         /\ Current \in Roots /\ Current.generation = slots[Newest(slots)].generation
         /\ \A i \in Intact(slots) : /\ slots[i].end <= LastEnd /\ slots[i].end \in 1 .. Len(body)
                                     /\ slots[i].generation <= slots[Newest(slots)].generation
<1>1. /\ Newest(slots) \in Intact(slots)
      /\ \A j \in Intact(slots) : slots[j].generation <= slots[Newest(slots)].generation
  BY NewestDecodes DEF TypeOK, FileSound
<1>2. \A i \in Intact(slots) : LeadsToRoot(slots[i])
  BY DEF FileSound
<1>3. Candidates(slots, Len(body)) = Intact(slots)
  <2>1. \A i \in Intact(slots) : Accepts(slots[i], Len(body))
    BY <1>2 DEF LeadsToRoot, Accepts, Roots, Intact
  <2> QED
    BY <2>1 DEF Candidates, Intact, Accepts
<1>4. Selected = Newest(slots)
  BY <1>3 DEF Selected, NewestOf, Newest
<1>5. Len(body) \in Nat /\ \A i \in Slot : slots[i].end \in Nat /\ slots[i].generation \in Nat
  BY DEF TypeOK, SlotValues
<1>6. \A i \in Intact(slots) : slots[i].end <= LastEnd
  BY <1>1, <1>5 DEF FileSound, LastEnd, Intact
<1> QED
  BY <1>1, <1>2, <1>3, <1>4, <1>5, <1>6 DEF Published, Current, LastEnd, LeadsToRoot, Intact

\* Appending to the body, or cutting it behind the selected root, leaves every
\* root a slot leads to where it is.
LEMMA RootsKept ==
  ASSUME TypeOK, FileSound, slots' = slots, Len(body') \in Nat, LastEnd <= Len(body'),
         \A n \in 1 .. LastEnd : body'[n] = body[n]
  PROVE  /\ FileSound' /\ LastEnd' = LastEnd /\ Current' = Current
         /\ \A i \in Intact(slots) : body'[slots[i].end] = body[slots[i].end]
         /\ TableSound /\ reader' = reader => TableSound'
<1>0. LastEnd' = LastEnd /\ LastEnd \in 1 .. Len(body)
  BY SelectedRoot DEF LastEnd
<1>1. Current' = Current
  BY <1>0 DEF Current
<1>2. \A i \in Intact(slots) : slots[i].end \in 1 .. LastEnd
  BY SelectedRoot
<1>3. \A i \in Intact(slots) : body'[slots[i].end] = body[slots[i].end]
  BY <1>2
<1>4. FileSound'
  <2>1. \A i \in Intact(slots) : LeadsToRoot(slots[i])'
    BY <1>0, <1>2, <1>3 DEF FileSound, LeadsToRoot
  <2> QED
    BY <2>1 DEF FileSound
<1>5. ASSUME TableSound, reader' = reader PROVE TableSound'
  <2> SUFFICES ASSUME reader.at = "table", NEW i \in Intact(reader.table) PROVE LeadsToRoot(reader.table[i])'
    BY <1>0, <1>5 DEF TableSound
  <2>1. LeadsToRoot(reader.table[i]) /\ reader.table[i].end <= LastEnd
    BY <1>5 DEF TableSound
  <2> QED
    BY <1>0, <1>5, <2>1 DEF LeadsToRoot
<1> QED
  BY <1>0, <1>1, <1>3, <1>4, <1>5

-----------------------------------------------------------------------------
(* Rows and the sessions they are of.                                      *)

\* What rows are of a session in a longer sequence of rows.
LEMMA RowsJoined ==
  ASSUME NEW r \in Seq(Batches), NEW q \in Seq(Batches), NEW s, \A j \in DOMAIN q : q[j].of = s
  PROVE  /\ r \o q \in Seq(Batches) /\ Len(r \o q) = Len(r) + Len(q)
         /\ Len(r) \in Nat /\ Len(q) \in Nat
         /\ DOMAIN r = 1 .. Len(r) /\ DOMAIN q = 1 .. Len(q)
         /\ DOMAIN (r \o q) = 1 .. Len(r) + Len(q)
         /\ \A i \in 1 .. Len(r) : (r \o q)[i] = r[i]
         /\ \A j \in 1 .. Len(q) : (r \o q)[Len(r) + j] = q[j]
         /\ \A i \in 1 .. Len(r) + Len(q) : i > Len(r) => (r \o q)[i].of = s
         /\ SessionsIn(r \o q) \subseteq SessionsIn(r) \cup {s}
<1>1. /\ r \o q \in Seq(Batches) /\ Len(r \o q) = Len(r) + Len(q)
      /\ Len(r) \in Nat /\ Len(q) \in Nat
      /\ DOMAIN r = 1 .. Len(r) /\ DOMAIN q = 1 .. Len(q)
  BY ConcatProperties, LenProperties
<1>2. DOMAIN (r \o q) = 1 .. Len(r) + Len(q)
  BY <1>1, LenProperties
<1>3. \A i \in 1 .. Len(r) + Len(q) : (r \o q)[i] = IF i <= Len(r) THEN r[i] ELSE q[i - Len(r)]
  BY ConcatProperties
<1>4. \A i \in 1 .. Len(r) : (r \o q)[i] = r[i]
  BY <1>1, <1>3
<1>5. \A j \in 1 .. Len(q) : (r \o q)[Len(r) + j] = q[j]
  <2> TAKE j \in 1 .. Len(q)
  <2>1. /\ Len(r) + j \in 1 .. Len(r) + Len(q) /\ ~(Len(r) + j <= Len(r))
        /\ (Len(r) + j) - Len(r) = j
    BY <1>1
  <2> QED BY <1>3, <2>1
<1>6. \A i \in 1 .. Len(r) + Len(q) : i > Len(r) => (r \o q)[i].of = s
  <2> SUFFICES ASSUME NEW i \in 1 .. Len(r) + Len(q), i > Len(r) PROVE (r \o q)[i].of = s
    OBVIOUS
  <2>1. i - Len(r) \in DOMAIN q /\ ~(i <= Len(r))
    BY <1>1
  <2> QED BY <1>3, <2>1
<1>7. SessionsIn(r \o q) \subseteq SessionsIn(r) \cup {s}
  <2> SUFFICES ASSUME NEW i \in DOMAIN (r \o q) PROVE (r \o q)[i].of \in SessionsIn(r) \cup {s}
    BY DEF SessionsIn
  <2>1. CASE i <= Len(r)
    <3>1. i \in DOMAIN r /\ (r \o q)[i] = r[i]
      BY <1>1, <1>2, <1>4, <2>1
    <3> QED BY <3>1 DEF SessionsIn
  <2>2. CASE i > Len(r)
    BY <1>2, <1>6, <2>2
  <2> QED BY <1>1, <1>2, <2>1, <2>2
<1> QED BY <1>1, <1>2, <1>4, <1>5, <1>6, <1>7

\* Rows are of sessions.
LEMMA RowSessions ==
  ASSUME NEW r \in Seq(Batches)
  PROVE  SessionsIn(r) \subseteq Sessions
<1>1. \A i \in DOMAIN r : r[i] \in Batches
  BY ElementOfSeq, LenProperties
<1> QED BY <1>1 DEF SessionsIn, Batches

\* Rows of another session joined behind leave a session's rows in one piece.
LEMMA OtherRowsJoined ==
  ASSUME NEW r \in Seq(Batches), NEW q \in Seq(Batches), NEW s, \A j \in DOMAIN q : q[j].of = s,
         NEW p \in Seq(Batches), NEW z, z # s, HoldsAll(r, z, p)
  PROVE  HoldsAll(r \o q, z, p)
<1>1. PICK k \in 0 .. Len(r) - Len(p) :
        /\ \A j \in DOMAIN p : r[k + j] = p[j]
        /\ \A i \in DOMAIN r : r[i].of = z => i \in k + 1 .. k + Len(p)
  BY DEF HoldsAll
<1>2. Len(p) \in Nat /\ DOMAIN p = 1 .. Len(p)
  BY LenProperties
<1>3. k \in 0 .. Len(r \o q) - Len(p)
  BY <1>1, <1>2, RowsJoined
<1>4. \A j \in DOMAIN p : (r \o q)[k + j] = p[j]
  <2> TAKE j \in DOMAIN p
  <2>1. k + j \in 1 .. Len(r)
    BY <1>1, <1>2, RowsJoined
  <2> QED BY <1>1, <2>1, RowsJoined
<1>5. \A i \in DOMAIN (r \o q) : (r \o q)[i].of = z => i \in k + 1 .. k + Len(p)
  <2> SUFFICES ASSUME NEW i \in DOMAIN (r \o q), (r \o q)[i].of = z PROVE i \in k + 1 .. k + Len(p)
    OBVIOUS
  <2>1. i \in DOMAIN r /\ (r \o q)[i] = r[i]
    BY RowsJoined
  <2> QED BY <1>1, <2>1
<1> QED BY <1>3, <1>4, <1>5 DEF HoldsAll

\* The rows of a new session joined behind are held in one piece.
LEMMA NewRowsJoined ==
  ASSUME NEW r \in Seq(Batches), NEW q \in Seq(Batches), NEW s, \A j \in DOMAIN q : q[j].of = s,
         s \notin SessionsIn(r)
  PROVE  HoldsAll(r \o q, s, q)
<1>1. Len(r) \in 0 .. Len(r \o q) - Len(q)
  BY RowsJoined
<1>2. \A j \in DOMAIN q : (r \o q)[Len(r) + j] = q[j]
  BY RowsJoined
<1>3. \A i \in DOMAIN (r \o q) : (r \o q)[i].of = s => i \in Len(r) + 1 .. Len(r) + Len(q)
  <2> SUFFICES ASSUME NEW i \in DOMAIN (r \o q), (r \o q)[i].of = s
               PROVE  i \in Len(r) + 1 .. Len(r) + Len(q)
    OBVIOUS
  <2>1. i \in 1 .. Len(r) + Len(q) /\ Len(r) \in Nat /\ Len(q) \in Nat
    BY RowsJoined
  <2>2. ~(i <= Len(r))
    <3> SUFFICES ASSUME i <= Len(r) PROVE FALSE
      OBVIOUS
    <3>1. i \in DOMAIN r /\ (r \o q)[i] = r[i]
      BY <2>1, RowsJoined
    <3> QED BY <3>1 DEF SessionsIn
  <2> QED BY <2>1, <2>2
<1> QED BY <1>1, <1>2, <1>3 DEF HoldsAll

-----------------------------------------------------------------------------
(* What the steps keep.                                                    *)

\* A writer without a native session knows nothing of the file.
LEMMA NoSession ==
  ASSUME NEW w \in Writers, native[w].phase = "none"
  PROVE  NativeOk(w)
BY DEF NativeOk, Publishing

\* The lock makes a writer with a native session the only one.
LEMMA OneSession ==
  ASSUME TypeOK, LockSound, NEW w \in Writers, native[w].phase # "none"
  PROVE  /\ lock = w
         /\ \A v \in Writers : v # w => native[v].phase = "none" /\ raw[v] = FALSE
<1>1. lock = w
  BY DEF LockSound
<1>2. \A v \in Writers : v # w => native[v].phase = "none"
  BY <1>1 DEF LockSound
<1>3. \A v \in Writers : v # w => ~raw[v]
  BY <1>2 DEF LockSound
<1>4. \A v \in Writers : raw[v] \in BOOLEAN
  BY DEF TypeOK
<1> QED BY <1>1, <1>2, <1>3, <1>4

\* Sessions stay sound as long as only a session in no root changes its batches,
\* and only one whose commit has begun is reported as possibly in.
LEMMA SessionsKept ==
  ASSUME TypeOK, FileSound, SessionsSound, slots' = slots, Current' = Current,
         \A i \in Intact(slots) : body'[slots[i].end] = body[slots[i].end],
         \A s \in Sessions : \A j \in DOMAIN sent'[s] : sent'[s][j].of = s,
         \A s \in Sessions : s > begun' => outcome'[s] = "none",
         \A s \in Sessions :
           \/ outcome'[s] = outcome[s] /\ sent'[s] = sent[s]
           \/ /\ outcome'[s] # "committed"
              /\ \A i \in Intact(slots) : s \notin SessionsIn(body[slots[i].end].rows)
           \/ /\ sent'[s] = sent[s] /\ outcome'[s] \in {"committing", "committed", "unknown"}
              /\ outcome'[s] = "committed" => HoldsAll(Current.rows, s, sent[s])
  PROVE  SessionsSound'
<1>1. \A i \in Intact(slots) : \A s \in SessionsIn(body[slots[i].end].rows) : s \in Sessions
  <2> TAKE i \in Intact(slots)
  <2>1. body[slots[i].end].rows \in Seq(Batches)
    BY DEF FileSound, LeadsToRoot, Roots
  <2> QED BY <2>1, RowSessions
<1>2. \A i \in Intact(slots) : \A s \in SessionsIn(body[slots[i].end].rows) :
        /\ HoldsAll(body[slots[i].end].rows, s, sent'[s])
        /\ outcome'[s] \in {"committing", "committed", "unknown"}
  <2> TAKE i \in Intact(slots)
  <2> TAKE s \in SessionsIn(body[slots[i].end].rows)
  <2>1. s \in Sessions
    BY <1>1
  <2>2. /\ HoldsAll(body[slots[i].end].rows, s, sent[s])
        /\ outcome[s] \in {"committing", "committed", "unknown"}
    BY DEF SessionsSound
  <2> QED BY <2>1, <2>2
<1>3. \A s \in Sessions : outcome'[s] = "committed" => HoldsAll(Current.rows, s, sent'[s])
  BY DEF SessionsSound
<1> QED
  BY <1>2, <1>3 DEF SessionsSound

\* A step of one writer, or none, that leaves the slots and the reader alone and
\* changes the body only behind the selected root.
LEMMA BodyStep ==
  ASSUME IInv, TypeOK', LockSound', slots' = slots, reader' = reader,
         LastEnd <= Len(body'), \A n \in 1 .. LastEnd : body'[n] = body[n],
         LastEnd' = LastEnd /\ Current' = Current => NativeSound',
         \A v \in Writers : native'[v].phase = "torn" => native[v].phase = "torn" /\ body' = body,
         \A s \in Sessions : \A j \in DOMAIN sent'[s] : sent'[s][j].of = s,
         \A s \in Sessions : s > begun' => outcome'[s] = "none",
         \A s \in Sessions :
           \/ outcome'[s] = outcome[s] /\ sent'[s] = sent[s]
           \/ /\ outcome'[s] # "committed"
              /\ \A i \in Intact(slots) : s \notin SessionsIn(body[slots[i].end].rows)
           \/ /\ sent'[s] = sent[s] /\ outcome'[s] \in {"committing", "committed", "unknown"}
              /\ outcome'[s] = "committed" => HoldsAll(Current.rows, s, sent[s])
  PROVE  IInv'
<1>0. TypeOK /\ FileSound /\ SessionsSound /\ SizedSound /\ TableSound /\ OpenFreshUnlessOverrun
  BY DEF IInv
<1>1. Len(body') \in Nat
  BY DEF TypeOK
<1>2. /\ FileSound' /\ LastEnd' = LastEnd /\ Current' = Current /\ TableSound'
      /\ \A i \in Intact(slots) : body'[slots[i].end] = body[slots[i].end]
  BY <1>0, <1>1, RootsKept
<1>3. SessionsSound'
  BY <1>0, <1>2, SessionsKept
<1>4. SizedSound'
  <2>1. Newest(slots') = Newest(slots) /\ Intact(slots') = Intact(slots)
    OBVIOUS
  <2> QED BY <1>0, <1>2, <2>1 DEF SizedSound
<1>5. OpenFreshUnlessOverrun'
  BY <1>0 DEF OpenFreshUnlessOverrun
<1> QED
  BY <1>2, <1>3, <1>4, <1>5 DEF IInv

\* The batches and roots that are appended have their types.
LEMMA ObjectTypes ==
  /\ \A s \in Sessions, k \in Nat : Batch(s, k) \in Batches
  /\ \A g \in Nat \ {0}, r \in Seq(Batches) : Root(g, r) \in Roots
BY DEF Batch, Batches, Root, Roots

\* The file as it was created is sound.
LEMMA InitSound == Init => IInv
<1> SUFFICES ASSUME Init PROVE IInv
  OBVIOUS
<1> USE AppendableFileAssumption
<1>0. <<>> \in Seq(Batches)
  OBVIOUS
<1>1. <<>> \in Seq(Batches) /\ Root(1, <<>>) \in Roots
  BY <1>0 DEF Root, Roots
<1>2. body \in Seq(Batches \cup Roots) /\ Len(body) = 1 /\ body[1] = Root(1, <<>>)
  BY <1>1 DEF Init
<1>3. slots \in [Slot -> SlotValues] /\ reader \in Readers
  BY DEF Init, Slot, SlotValues, SlotTo, TornSlot, NoOpen, Readers, Corrupt
<1>4. TypeOK
  BY <1>1, <1>2, <1>3 DEF Init, TypeOK, Idle, Phases, Outcomes
<1>5. Intact(slots) = {0} /\ slots[0] = SlotTo(1, 1)
  BY DEF Init, Intact, Slot, SlotTo, TornSlot
<1>6. FileSound
  BY <1>1, <1>2, <1>5 DEF FileSound, LeadsToRoot, SlotTo, Root
<1>7. LockSound
  BY DEF Init, LockSound, Idle
<1>8. NativeSound
  BY NoSession DEF Init, NativeSound, Idle
<1>9. SessionsSound
  <2>1. \A i \in Intact(slots) : SessionsIn(body[slots[i].end].rows) = {}
    BY <1>2, <1>5 DEF SlotTo, Root, SessionsIn
  <2>2. ASSUME NEW s \in Sessions
        PROVE  sent[s] = <<>> /\ outcome[s] = "none"
    BY DEF Init
  <2>3. \A s \in Sessions : \A j \in DOMAIN sent[s] : sent[s][j].of = s
    BY <2>2
  <2> QED BY <2>1, <2>2, <2>3 DEF SessionsSound
<1>10. SizedSound /\ TableSound /\ OpenFreshUnlessOverrun
  BY DEF Init, NoOpen, SizedSound, TableSound, OpenFreshUnlessOverrun
<1> QED
  BY <1>4, <1>6, <1>7, <1>8, <1>9, <1>10 DEF IInv

-----------------------------------------------------------------------------
(* The writers' steps.                                                     *)

\* A session begins: its number is fresh, so it is in no root.
LEMMA BeginStep ==
  ASSUME IInv, NEW w \in Writers, BeginSession(w)
  PROVE  IInv'
<1> USE AppendableFileAssumption
<1>0. TypeOK /\ FileSound /\ LockSound /\ NativeSound /\ SessionsSound
  BY DEF IInv
<1>1. begun + 1 \in Sessions /\ begun + 1 \in 0 .. MaxSessions /\ begun \in Nat
  BY <1>0 DEF BeginSession, TypeOK, Sessions
<1>2. LastEnd \in 1 .. Len(body) /\ Len(body) \in Nat
  BY <1>0, SelectedRoot
<1>3. /\ lock' = w /\ body' = body /\ slots' = slots /\ sent' = sent /\ reader' = reader
      /\ begun' = begun + 1 /\ session' = [session EXCEPT ![w] = begun + 1]
      /\ outcome' = [outcome EXCEPT ![begun + 1] = "active"]
      /\ native' = [native EXCEPT ![w] = [phase |-> "open", base |-> Len(body)]]
      /\ alive' = [alive EXCEPT ![w] = TRUE] /\ raw' = [raw EXCEPT ![w] = TRUE]
      /\ lock = NoWriter
  BY DEF BeginSession, Acquire
<1>4. TypeOK'
  <2>1. alive' \in [Writers -> BOOLEAN] /\ raw' \in [Writers -> BOOLEAN]
    BY <1>0, <1>3, Zenon DEF TypeOK
  <2>2. session' \in [Writers -> 0 .. MaxSessions] /\ begun' \in 0 .. MaxSessions
    BY <1>0, <1>1, <1>3 DEF TypeOK
  <2>3. native' \in [Writers -> [phase : Phases, base : Nat]]
    BY <1>0, <1>2, <1>3 DEF TypeOK, Phases
  <2>4. outcome' \in [Sessions -> Outcomes]
    BY <1>0, <1>1, <1>3 DEF TypeOK, Outcomes
  <2> QED BY <1>0, <1>3, <2>1, <2>2, <2>3, <2>4 DEF TypeOK
<1>5. /\ native'[w] = [phase |-> "open", base |-> Len(body)]
      /\ \A v \in Writers : v # w => native'[v].phase = "none" /\ native[v].phase = "none"
  BY <1>0, <1>3 DEF TypeOK, LockSound
<1>6. LockSound'
  <2>1. alive'[w] = TRUE /\ raw'[w] = TRUE
    BY <1>0, <1>3 DEF TypeOK
  <2>2. ASSUME NEW v \in Writers, v # w PROVE ~raw'[v]
    BY <1>0, <1>3, <1>5, <2>2 DEF TypeOK, LockSound
  <2> QED BY <1>3, <1>5, <2>1, <2>2 DEF LockSound
<1>7. /\ session'[w] = begun + 1 /\ outcome'[begun + 1] = "active" /\ outcome[begun + 1] = "none"
      /\ \A i \in Intact(slots) : begun + 1 \notin SessionsIn(body[slots[i].end].rows)
  <2>1. session'[w] = begun + 1 /\ outcome'[begun + 1] = "active"
    BY <1>0, <1>1, <1>3 DEF TypeOK
  <2>2. outcome[begun + 1] = "none"
    BY <1>0, <1>1 DEF SessionsSound
  <2> QED BY <1>0, <2>1, <2>2 DEF SessionsSound
<1>8. ASSUME LastEnd' = LastEnd PROVE NativeSound'
  <2>1. ASSUME NEW v \in Writers, v # w PROVE NativeOk(v)'
    <3>1. native'[v].phase = "none"
      BY <1>5, <2>1
    <3> QED BY <3>1 DEF NativeOk, Publishing
  <2>2. NativeOk(w)'
    BY <1>1, <1>2, <1>3, <1>5, <1>7, <1>8 DEF NativeOk, Publishing
  <2> QED BY <2>1, <2>2 DEF NativeSound
<1>9. \A s \in Sessions : s # begun + 1 => outcome'[s] = outcome[s]
  BY <1>0, <1>3 DEF TypeOK
<1>10. \A s \in Sessions : s > begun' => outcome'[s] = "none"
  BY <1>0, <1>1, <1>3, <1>9 DEF SessionsSound, Sessions
<1>11. \A s \in Sessions : \A j \in DOMAIN sent'[s] : sent'[s][j].of = s
  BY <1>0, <1>3 DEF SessionsSound
<1>12. \A v \in Writers : native'[v].phase = "torn" => native[v].phase = "torn" /\ body' = body
  BY <1>5
<1>13. \A s \in Sessions :
         \/ outcome'[s] = outcome[s] /\ sent'[s] = sent[s]
         \/ /\ outcome'[s] # "committed"
            /\ \A i \in Intact(slots) : s \notin SessionsIn(body[slots[i].end].rows)
  BY <1>3, <1>7, <1>9
<1>14. LastEnd <= Len(body') /\ \A n \in 1 .. LastEnd : body'[n] = body[n]
  BY <1>2, <1>3
<1> QED
  BY <1>3, <1>4, <1>6, <1>8, <1>10, <1>11, <1>12, <1>13, <1>14, BodyStep

\* A step of the writer w whose native session exists, one that leaves the slots
\* alone and changes the body only behind the selected root.
LEMMA SoloStep ==
  ASSUME IInv, NEW w \in Writers, native[w].phase # "none", TypeOK',
         slots' = slots, reader' = reader, session' = session, begun' = begun,
         LastEnd <= Len(body'), \A n \in 1 .. LastEnd : body'[n] = body[n],
         \A v \in Writers : v # w => native'[v] = native[v] /\ raw'[v] = raw[v],
         lock' = IF native'[w].phase = "none" THEN NoWriter ELSE w,
         raw'[w] <=> native'[w].phase = "open", raw'[w] => alive'[w],
         native'[w].phase = "torn" => native[w].phase = "torn" /\ body' = body,
         LastEnd' = LastEnd /\ Current' = Current => NativeOk(w)',
         \A s \in Sessions : s # session[w] => outcome'[s] = outcome[s] /\ sent'[s] = sent[s],
         \A j \in DOMAIN sent'[session[w]] : sent'[session[w]][j].of = session[w],
         \/ outcome'[session[w]] = outcome[session[w]] /\ sent'[session[w]] = sent[session[w]]
         \/ /\ outcome'[session[w]] # "committed"
            /\ \A i \in Intact(slots) : session[w] \notin SessionsIn(body[slots[i].end].rows)
         \/ /\ sent'[session[w]] = sent[session[w]]
            /\ outcome'[session[w]] \in {"committing", "committed", "unknown"}
            /\ outcome'[session[w]] = "committed" =>
                 HoldsAll(Current.rows, session[w], sent[session[w]])
  PROVE  IInv'
<1>0. TypeOK /\ FileSound /\ LockSound /\ NativeSound /\ SessionsSound
  BY DEF IInv
<1>1. lock = w /\ \A v \in Writers : v # w => native[v].phase = "none" /\ raw[v] = FALSE
  BY <1>0, OneSession
<1>2. \A v \in Writers : v # w => native'[v].phase = "none" /\ raw'[v] = FALSE
  BY <1>1
<1>3. LockSound'
  <2>1. lock' = w <=> native'[w].phase # "none"
    BY AppendableFileAssumption
  <2>2. ASSUME NEW v \in Writers, v # w PROVE lock' # v
    BY <2>2, AppendableFileAssumption
  <2>3. ASSUME NEW v \in Writers, v # w
        PROVE  /\ lock' = v <=> native'[v].phase # "none"
               /\ raw'[v] <=> native'[v].phase = "open"
               /\ raw'[v] => alive'[v]
    BY <1>2, <2>2, <2>3
  <2> QED BY <2>1, <2>3 DEF LockSound
<1>4. ASSUME LastEnd' = LastEnd, Current' = Current PROVE NativeSound'
  <2>1. ASSUME NEW v \in Writers, v # w PROVE NativeOk(v)'
    <3>1. native'[v].phase = "none"
      BY <1>2, <2>1
    <3> QED BY <3>1 DEF NativeOk, Publishing
  <2> QED BY <1>4, <2>1 DEF NativeSound
<1>5. \A v \in Writers : native'[v].phase = "torn" => native[v].phase = "torn" /\ body' = body
  BY <1>2
<1>6. session[w] \in 1 .. begun
  BY <1>0 DEF NativeSound, NativeOk
<1>7. \A s \in Sessions : s > begun' => outcome'[s] = "none"
  <2> SUFFICES ASSUME NEW s \in Sessions, s > begun PROVE outcome'[s] = "none"
    OBVIOUS
  <2>1. begun \in Nat /\ s \in Nat
    BY <1>0, AppendableFileAssumption DEF TypeOK, Sessions
  <2>2. s # session[w]
    BY <1>6, <2>1
  <2> QED BY <1>0, <2>2 DEF SessionsSound
<1>8. \A s \in Sessions : \A j \in DOMAIN sent'[s] : sent'[s][j].of = s
  <2> TAKE s \in Sessions
  <2>1. CASE s = session[w]
    BY <2>1
  <2>2. CASE s # session[w]
    BY <1>0, <2>2 DEF SessionsSound
  <2> QED BY <2>1, <2>2
<1> QED
  BY <1>3, <1>4, <1>5, <1>7, <1>8, BodyStep

\* A batch is appended behind everything a slot leads to.
LEMMA AppendStep ==
  ASSUME IInv, NEW w \in Writers, native[w].phase = "open", WriteBatch(w),
         sent' = [sent EXCEPT ![session[w]] = Append(@, Batch(session[w], Len(@) + 1))],
         UNCHANGED <<slots, lock, alive, raw, native, session, outcome, begun, reader>>
  PROVE  IInv'
<1> DEFINE s == session[w]
           b == Batch(s, Len(sent[s]) + 1)
<1>0. TypeOK /\ FileSound /\ LockSound /\ NativeOk(w) /\ SessionsSound
  BY DEF IInv, NativeSound
<1>1. s \in Sessions /\ s \in 1 .. begun
  BY <1>0, AppendableFileAssumption DEF NativeOk, TypeOK, Sessions
<1>2. sent[s] \in Seq(Batches) /\ Len(sent[s]) \in Nat
  BY <1>0, <1>1 DEF TypeOK
<1>3. b \in Batches /\ b.of = s
  BY <1>1, <1>2 DEF Batch, Batches
<1>4. body' = Append(body, b) /\ sent' = [sent EXCEPT ![s] = Append(sent[s], b)]
  BY DEF WriteBatch
<1> HIDE DEF b, s
<1>5. /\ body' \in Seq(Batches \cup Roots) /\ Len(body') = Len(body) + 1
      /\ \A i \in 1 .. Len(body) : body'[i] = body[i]
  BY <1>0, <1>3, <1>4, AppendProperties DEF TypeOK
<1>6. /\ Append(sent[s], b) \in Seq(Batches)
      /\ \A j \in DOMAIN Append(sent[s], b) : Append(sent[s], b)[j].of = s
  <2>1. /\ Append(sent[s], b) \in Seq(Batches) /\ Len(Append(sent[s], b)) = Len(sent[s]) + 1
        /\ \A i \in 1 .. Len(sent[s]) : Append(sent[s], b)[i] = sent[s][i]
        /\ Append(sent[s], b)[Len(sent[s]) + 1] = b
    BY <1>2, <1>3, AppendProperties
  <2>2. DOMAIN Append(sent[s], b) = 1 .. Len(sent[s]) + 1 /\ DOMAIN sent[s] = 1 .. Len(sent[s])
    BY <1>2, <2>1, LenProperties
  <2>3. \A j \in 1 .. Len(sent[s]) : sent[s][j].of = s
    BY <1>0, <1>1, <2>2 DEF SessionsSound
  <2>4. \A j \in 1 .. Len(sent[s]) + 1 : j \in 1 .. Len(sent[s]) \/ j = Len(sent[s]) + 1
    BY <1>2
  <2> QED BY <1>3, <2>1, <2>2, <2>3, <2>4
<1>7. /\ sent' \in [Sessions -> Seq(Batches)] /\ sent'[s] = Append(sent[s], b)
      /\ \A z \in Sessions : z # s => sent'[z] = sent[z]
  BY <1>0, <1>1, <1>4, <1>6 DEF TypeOK
<1>8. TypeOK'
  BY <1>0, <1>5, <1>7 DEF TypeOK
<1>9. LastEnd \in 1 .. Len(body) /\ Len(body) \in Nat
  BY <1>0, SelectedRoot
<1>10. LastEnd <= Len(body') /\ \A n \in 1 .. LastEnd : body'[n] = body[n]
  BY <1>5, <1>9
<1>11. \A i \in Intact(slots) : s \notin SessionsIn(body[slots[i].end].rows)
  BY <1>0 DEF NativeOk, s
<1>12. outcome[s] = "active" /\ native[w].base \in LastEnd .. Len(body)
  BY <1>0 DEF NativeOk, s
<1>13. ASSUME LastEnd' = LastEnd PROVE NativeOk(w)'
  <2>1. \A i \in Intact(slots) : s \notin SessionsIn(body'[slots[i].end].rows)
    BY <1>0, <1>11, <1>10, SelectedRoot
  <2>2. native[w].base \in LastEnd .. Len(body')
    BY <1>5, <1>9, <1>12
  <2> QED BY <1>1, <1>12, <1>13, <2>1, <2>2 DEF NativeOk, Publishing, s
<1>14. lock' = IF native'[w].phase = "none" THEN NoWriter ELSE w
  BY <1>0 DEF LockSound
<1>15. (raw'[w] <=> native'[w].phase = "open") /\ (raw'[w] => alive'[w])
  BY <1>0 DEF LockSound
<1> QED
  BY <1>6, <1>7, <1>8, <1>10, <1>11, <1>12, <1>13, <1>14, <1>15, SoloStep DEF s

\* What the caller of a live session is told is new to it.
LEMMA NewOutcome ==
  ASSUME IInv, NEW w \in Writers, native[w].phase # "none", NEW what \in Outcomes, Told(w, what)
  PROVE  /\ session[w] \in Sessions /\ outcome' \in [Sessions -> Outcomes]
         /\ outcome'[session[w]] = what
         /\ \A s \in Sessions : s # session[w] => outcome'[s] = outcome[s]
<1>0. TypeOK /\ NativeOk(w)
  BY DEF IInv, NativeSound
<1>1. session[w] \in Sessions
  BY <1>0, AppendableFileAssumption DEF NativeOk, TypeOK, Sessions
<1>2. outcome[session[w]] \in {"active", "committing"}
  BY <1>0 DEF NativeOk, Publishing, TypeOK, Phases
<1> QED BY <1>0, <1>1, <1>2 DEF TypeOK, Told

\* Cutting the body off keeps what lies before the cut.
LEMMA CutBody ==
  ASSUME TypeOK, NEW n \in 1 .. Len(body)
  PROVE  /\ SubSeq(body, 1, n) \in Seq(Batches \cup Roots) /\ Len(SubSeq(body, 1, n)) = n
         /\ \A i \in 1 .. n : SubSeq(body, 1, n)[i] = body[i]
<1>1. n \in Int /\ 1 <= n /\ \A i \in 1 .. n : body[i] \in Batches \cup Roots
  <2>1. Len(body) \in Nat /\ \A i \in 1 .. Len(body) : body[i] \in Batches \cup Roots
    BY ElementOfSeq, LenProperties DEF TypeOK
  <2> QED BY <2>1
<1>2. /\ SubSeq(body, 1, n) \in Seq(Batches \cup Roots)
      /\ Len(SubSeq(body, 1, n)) = IF 1 <= n THEN n - 1 + 1 ELSE 0
      /\ \A i \in 1 .. n - 1 + 1 : SubSeq(body, 1, n)[i] = body[1 + i - 1]
  BY <1>1, SubSeqProperties
<1>3. n - 1 + 1 = n /\ \A i \in 1 .. n : 1 + i - 1 = i
  BY <1>1
<1> QED BY <1>1, <1>2, <1>3

\* A native session goes: rolled back or not, what lies behind the selected
\* root is all it can take along.
LEMMA ReleaseStep ==
  ASSUME IInv, NEW w \in Writers, native[w].phase # "none",
         UNCHANGED <<slots, session, sent, begun, reader>>,
         lock' = NoWriter, native' = [native EXCEPT ![w] = Idle],
         \/ body' = body
         \/ /\ native[w].phase \in {"open", "committing", "rooted"}
            /\ body' = SubSeq(body, 1, native[w].base),
         alive' \in [Writers -> BOOLEAN], raw' \in [Writers -> BOOLEAN],
         ~raw'[w], \A v \in Writers : v # w => raw'[v] = raw[v],
         NEW what \in Outcomes, Told(w, what),
         \/ native[w].phase = "open" /\ what # "committed"
         \/ native[w].phase # "open" /\ what = "unknown"
         \/ native[w].phase = "written" /\ what = "committed"
  PROVE  IInv'
<1> DEFINE s == session[w]
<1>0. TypeOK /\ FileSound /\ LockSound /\ NativeOk(w) /\ SessionsSound
  BY DEF IInv, NativeSound
<1>1. /\ s \in Sessions /\ outcome' \in [Sessions -> Outcomes] /\ outcome'[s] = what
      /\ \A z \in Sessions : z # s => outcome'[z] = outcome[z]
  BY NewOutcome
<1>2. LastEnd \in 1 .. Len(body) /\ Len(body) \in Nat
  BY <1>0, SelectedRoot
<1>3. /\ native' \in [Writers -> [phase : Phases, base : Nat]] /\ native'[w].phase = "none"
      /\ \A v \in Writers : v # w => native'[v] = native[v]
  BY <1>0 DEF TypeOK, Idle, Phases
<1>4. /\ body' \in Seq(Batches \cup Roots) /\ LastEnd <= Len(body')
      /\ \A n \in 1 .. LastEnd : body'[n] = body[n]
  <2>1. CASE body' = body
    BY <1>0, <1>2, <2>1 DEF TypeOK
  <2>2. CASE /\ native[w].phase \in {"open", "committing", "rooted"}
             /\ body' = SubSeq(body, 1, native[w].base)
    <3>1. native[w].base \in LastEnd .. Len(body)
      BY <1>0, <2>2 DEF NativeOk
    <3>2. PICK n \in LastEnd .. Len(body) : n = native[w].base
      BY <3>1
    <3>3. n \in 1 .. Len(body)
      BY <1>2
    <3>4. /\ SubSeq(body, 1, n) \in Seq(Batches \cup Roots) /\ Len(SubSeq(body, 1, n)) = n
          /\ \A i \in 1 .. n : SubSeq(body, 1, n)[i] = body[i]
      BY <1>0, <3>3, CutBody
    <3>5. body' = SubSeq(body, 1, n)
      BY <2>2, <3>2
    <3>6. \A i \in 1 .. LastEnd : i \in 1 .. n
      BY <1>2
    <3> QED BY <1>2, <3>4, <3>5, <3>6
  <2> QED BY <2>1, <2>2
<1>5. TypeOK'
  BY <1>0, <1>1, <1>3, <1>4 DEF TypeOK
<1>6. NativeOk(w)'
  BY <1>3 DEF NativeOk, Publishing
<1>7. \A j \in DOMAIN sent[s] : sent[s][j].of = s
  BY <1>0, <1>1 DEF SessionsSound
<1>8. CASE native[w].phase = "open"
  <2>1. \A i \in Intact(slots) : s \notin SessionsIn(body[slots[i].end].rows)
    BY <1>0, <1>8 DEF NativeOk
  <2>2. outcome'[s] # "committed"
    BY <1>1, <1>8
  <2> QED BY <1>1, <1>3, <1>4, <1>5, <1>6, <1>7, <2>1, <2>2, SoloStep
<1>9. CASE native[w].phase # "open"
  <2>1. outcome'[s] \in {"committed", "unknown"}
    BY <1>1, <1>9
  <2>2. outcome'[s] = "committed" => HoldsAll(Current.rows, s, sent[s])
    <3>1. outcome'[s] = "committed" => native[w].phase = "written"
      BY <1>1, <1>9
    <3> QED BY <1>0, <3>1 DEF NativeOk
  <2> QED BY <1>1, <1>3, <1>4, <1>5, <1>6, <1>7, <2>1, <2>2, SoloStep
<1> QED BY <1>8, <1>9

\* The session is consumed and its native commit begins.
LEMMA CommitStep ==
  ASSUME IInv, NEW w \in Writers, Commit(w)
  PROVE  IInv'
<1> DEFINE s == session[w]
<1>0. TypeOK /\ FileSound /\ LockSound /\ NativeOk(w) /\ SessionsSound
  BY DEF IInv, NativeSound
<1>1. /\ native[w].phase = "open" /\ Told(w, "committing")
      /\ native' = [native EXCEPT ![w].phase = "committing"]
      /\ alive' = [alive EXCEPT ![w] = FALSE] /\ raw' = [raw EXCEPT ![w] = FALSE]
      /\ UNCHANGED <<body, slots, lock, session, sent, begun, reader>>
  BY DEF Commit
<1>2. /\ s \in Sessions /\ outcome' \in [Sessions -> Outcomes] /\ outcome'[s] = "committing"
      /\ \A z \in Sessions : z # s => outcome'[z] = outcome[z]
  BY <1>1, NewOutcome DEF Outcomes
<1>3. /\ native' \in [Writers -> [phase : Phases, base : Nat]]
      /\ native'[w].phase = "committing" /\ native'[w].base = native[w].base
      /\ \A v \in Writers : v # w => native'[v] = native[v]
  BY <1>0, <1>1 DEF TypeOK, Phases
<1>4. /\ alive' \in [Writers -> BOOLEAN] /\ raw' \in [Writers -> BOOLEAN] /\ raw'[w] = FALSE
      /\ \A v \in Writers : v # w => raw'[v] = raw[v]
  BY <1>0, <1>1, Zenon DEF TypeOK
<1>5. TypeOK'
  BY <1>0, <1>1, <1>2, <1>3, <1>4 DEF TypeOK
<1>6. /\ s \in 1 .. begun /\ native[w].base \in LastEnd .. Len(body)
      /\ \A i \in Intact(slots) : s \notin SessionsIn(body[slots[i].end].rows)
  BY <1>0, <1>1 DEF NativeOk
<1>7. ASSUME LastEnd' = LastEnd PROVE NativeOk(w)'
  BY <1>1, <1>2, <1>3, <1>6, <1>7 DEF NativeOk, Publishing
<1>8. LastEnd <= Len(body') /\ \A n \in 1 .. LastEnd : body'[n] = body[n]
  BY <1>0, <1>1, SelectedRoot
<1>9. lock' = IF native'[w].phase = "none" THEN NoWriter ELSE w
  BY <1>0, <1>1, <1>3 DEF LockSound
<1>10. \A j \in DOMAIN sent'[s] : sent'[s][j].of = s
  BY <1>0, <1>1, <1>2 DEF SessionsSound
<1>11. sent' = sent /\ slots' = slots /\ reader' = reader /\ session' = session /\ begun' = begun
  BY <1>1
<1> QED
  <2>1. /\ raw'[w] <=> native'[w].phase = "open"
        /\ raw'[w] => alive'[w]
        /\ native'[w].phase = "torn" => native[w].phase = "torn" /\ body' = body
    BY <1>3, <1>4
  <2>2. \A v \in Writers : v # w => native'[v] = native[v] /\ raw'[v] = raw[v]
    BY <1>3, <1>4
  <2>3. \A z \in Sessions : z # session[w] => outcome'[z] = outcome[z] /\ sent'[z] = sent[z]
    BY <1>2, <1>11
  <2>4. /\ outcome'[session[w]] # "committed"
        /\ \A i \in Intact(slots) : session[w] \notin SessionsIn(body[slots[i].end].rows)
    BY <1>2, <1>6
  <2>5. native[w].phase # "none"
    BY <1>1
  <2> QED
    BY <1>5, <1>7, <1>8, <1>9, <1>10, <1>11, <2>1, <2>2, <2>3, <2>4, <2>5, SoloStep

\* The root of the next generation is appended: what is published, and the
\* session's batches.
LEMMA RootStep ==
  ASSUME IInv, NEW w \in Writers, WriteRoot(w)
  PROVE  IInv'
<1> DEFINE s == session[w]
           root == Root(Current.generation + 1, Current.rows \o sent[s])
<1>0. TypeOK /\ FileSound /\ LockSound /\ NativeOk(w) /\ SessionsSound
  BY DEF IInv, NativeSound
<1>1. /\ native[w].phase = "committing"
      /\ native' = [native EXCEPT ![w].phase = "rooted"]
      /\ UNCHANGED <<slots, lock, alive, raw, session, outcome, sent, begun, reader>>
      /\ body' = Append(body, root)
  BY <1>0, SelectedRoot DEF WriteRoot
<1>2. s \in Sessions /\ s \in 1 .. begun
  BY <1>0, <1>1, AppendableFileAssumption DEF NativeOk, TypeOK, Sessions
<1>3. root \in Roots
  <2>1. Current \in Roots
    BY <1>0, SelectedRoot
  <2>2. Current.rows \in Seq(Batches) /\ Current.generation + 1 \in Nat \ {0}
    BY <2>1 DEF Roots
  <2>3. Current.rows \o sent[s] \in Seq(Batches)
    BY <1>0, <1>2, <2>2, ConcatProperties DEF TypeOK
  <2> QED BY <2>2, <2>3, ObjectTypes
<1> HIDE DEF root
<1>4. /\ body' \in Seq(Batches \cup Roots) /\ Len(body') = Len(body) + 1
      /\ \A i \in 1 .. Len(body) : body'[i] = body[i]
      /\ body'[Len(body) + 1] = root
  BY <1>0, <1>1, <1>3, AppendProperties DEF TypeOK
<1>5. LastEnd \in 1 .. Len(body) /\ Len(body) \in Nat
  BY <1>0, SelectedRoot
<1>6. LastEnd <= Len(body') /\ LastEnd < Len(body') /\ \A n \in 1 .. LastEnd : body'[n] = body[n]
  BY <1>4, <1>5
<1>7. /\ native' \in [Writers -> [phase : Phases, base : Nat]]
      /\ native'[w].phase = "rooted" /\ native'[w].base = native[w].base
      /\ \A v \in Writers : v # w => native'[v] = native[v]
  BY <1>0, <1>1 DEF TypeOK, Phases
<1>8. TypeOK'
  BY <1>0, <1>1, <1>4, <1>7 DEF TypeOK
<1>9. /\ native[w].base \in LastEnd .. Len(body) /\ outcome[s] = "committing"
      /\ \A i \in Intact(slots) : s \notin SessionsIn(body[slots[i].end].rows)
  BY <1>0, <1>1 DEF NativeOk, Publishing
<1>10. ASSUME LastEnd' = LastEnd, Current' = Current PROVE NativeOk(w)'
  <2>1. \A i \in Intact(slots) : s \notin SessionsIn(body'[slots[i].end].rows)
    BY <1>0, <1>6, <1>9, SelectedRoot
  <2>2. native[w].base \in LastEnd .. Len(body')
    BY <1>4, <1>5, <1>9
  <2>3. body'[Len(body')] = Root(Current.generation + 1, Current.rows \o sent[s])
    BY <1>4 DEF root
  <2> QED BY <1>1, <1>2, <1>6, <1>7, <1>9, <1>10, <2>1, <2>2, <2>3 DEF NativeOk, Publishing
<1>11. lock' = IF native'[w].phase = "none" THEN NoWriter ELSE w
  BY <1>0, <1>1, <1>7 DEF LockSound
<1>12. (raw'[w] <=> native'[w].phase = "open") /\ (raw'[w] => alive'[w])
  BY <1>0, <1>1, <1>7 DEF LockSound
<1>13. \A j \in DOMAIN sent'[s] : sent'[s][j].of = s
  BY <1>0, <1>1, <1>2 DEF SessionsSound
<1>14. /\ outcome' = outcome /\ sent' = sent /\ slots' = slots /\ reader' = reader
       /\ session' = session /\ begun' = begun /\ raw' = raw
  BY <1>1
<1> QED
  BY <1>1, <1>6, <1>7, <1>8, <1>10, <1>11, <1>12, <1>13, <1>14, SoloStep

\* The slot that is not selected is torn: the selected root stays, and an open
\* that went by the length alone is told that it was overrun.
LEMMA TearStep ==
  ASSUME IInv, NEW w \in Writers, TearSlot(w)
  PROVE  IInv'
<1> DEFINE s == session[w]
           n == Newest(slots)
<1>0. TypeOK /\ FileSound /\ LockSound /\ NativeOk(w) /\ SessionsSound /\ NativeSound
  BY DEF IInv, NativeSound
<1>1. /\ native[w].phase = "rooted"
      /\ slots' = [slots EXCEPT ![1 - n] = TornSlot]
      /\ native' = [native EXCEPT ![w].phase = "torn"]
      /\ reader' = IF reader.at = "sized" /\ reader.overrun < 2
                   THEN [reader EXCEPT !.overrun = @ + 1] ELSE reader
      /\ UNCHANGED <<body, lock, alive, raw, session, outcome, sent, begun>>
  BY <1>0, SelectedRoot DEF TearSlot
<1>2. n \in Intact(slots) /\ n \in Slot /\ 1 - n \in Slot /\ 1 - n # n
  BY <1>0, SelectedRoot DEF Slot
<1>3. /\ slots' \in [Slot -> SlotValues] /\ slots'[1 - n] = TornSlot /\ slots'[n] = slots[n]
  BY <1>0, <1>1, <1>2 DEF TypeOK, TornSlot, SlotValues
<1>4. Intact(slots') = {n}
  <2>1. \A i \in Slot : i = n \/ i = 1 - n
    BY <1>2 DEF Slot
  <2> QED BY <1>2, <1>3, <2>1 DEF Intact, TornSlot
<1>5. Newest(slots') = n
  BY <1>3, <1>4, NewestIs
<1>6. LastEnd' = LastEnd /\ Current' = Current
  BY <1>1, <1>3, <1>5 DEF LastEnd, Current
<1>7. FileSound'
  <2>1. LeadsToRoot(slots[n])
    BY <1>0, <1>2 DEF FileSound
  <2>2. ASSUME NEW i \in Intact(slots') PROVE LeadsToRoot(slots[i])'
    <3>1. slots'[i] = slots[n] /\ body' = body
      BY <1>1, <1>3, <1>4
    <3> QED BY <2>1, <3>1 DEF LeadsToRoot
  <2>3. \A i, j \in Intact(slots') : i = j
    BY <1>4
  <2> QED BY <1>4, <2>2, <2>3 DEF FileSound
<1>8. /\ native' \in [Writers -> [phase : Phases, base : Nat]] /\ native'[w].phase = "torn"
      /\ \A v \in Writers : v # w => native'[v] = native[v]
  BY <1>0, <1>1 DEF TypeOK, Phases
<1>9. /\ reader' \in Readers /\ reader'.at = reader.at /\ reader'.asOf = reader.asOf
      /\ reader'.length = reader.length /\ reader'.result = reader.result
      /\ reader'.overrun = IF reader.at = "sized" /\ reader.overrun < 2
                           THEN reader.overrun + 1 ELSE reader.overrun
  <2>1. reader \in Readers
    BY <1>0 DEF TypeOK
  <2>2. CASE reader.at = "sized" /\ reader.overrun < 2
    <3>1. reader' = [reader EXCEPT !.overrun = reader.overrun + 1]
      BY <1>1, <2>2
    <3>2. reader.overrun + 1 \in 0 .. 2
      BY <2>1, <2>2 DEF Readers
    <3> QED BY <2>1, <2>2, <3>1, <3>2 DEF Readers
  <2>3. CASE ~(reader.at = "sized" /\ reader.overrun < 2)
    BY <1>1, <2>1, <2>3
  <2> QED BY <2>2, <2>3
<1>10. TypeOK'
  BY <1>0, <1>1, <1>3, <1>8, <1>9 DEF TypeOK
<1>11. lock = w /\ \A v \in Writers : v # w => native[v].phase = "none" /\ raw[v] = FALSE
  BY <1>0, <1>1, OneSession
<1>12. LockSound'
  <2>1. ASSUME NEW v \in Writers
        PROVE  (native'[v].phase = "none" <=> native[v].phase = "none")
               /\ (native'[v].phase = "open" <=> native[v].phase = "open")
    BY <1>1, <1>8
  <2>2. lock' = lock /\ raw' = raw /\ alive' = alive
    BY <1>1
  <2> QED BY <1>0, <2>1, <2>2 DEF LockSound
<1>13. NativeSound'
  <2>1. ASSUME NEW v \in Writers, v # w PROVE NativeOk(v)'
    <3>1. native'[v].phase = "none"
      BY <1>8, <1>11, <2>1
    <3> QED BY <3>1 DEF NativeOk, Publishing
  <2>2. /\ s \in 1 .. begun /\ outcome[s] = "committing"
        /\ \A i \in Intact(slots) : s \notin SessionsIn(body[slots[i].end].rows)
        /\ LastEnd < Len(body)
        /\ body[Len(body)] = Root(Current.generation + 1, Current.rows \o sent[s])
    BY <1>0, <1>1 DEF NativeOk, Publishing
  <2>3. \A i \in Intact(slots') : s \notin SessionsIn(body[slots'[i].end].rows)
    BY <1>2, <1>3, <1>4, <2>2
  <2>4. \E i \in Slot : ~slots'[i].intact
    BY <1>2, <1>3 DEF TornSlot
  <2>5. NativeOk(w)'
    BY <1>1, <1>6, <1>8, <2>2, <2>3, <2>4 DEF NativeOk, Publishing
  <2> QED BY <2>1, <2>5 DEF NativeSound
<1>14. SessionsSound'
  <2>1. UNCHANGED <<body, sent, begun, outcome>>
    BY <1>1
  <2>2. \A i \in Intact(slots') : i \in Intact(slots) /\ slots'[i] = slots[i]
    BY <1>2, <1>3, <1>4
  <2> QED BY <1>0, <1>6, <2>1, <2>2 DEF SessionsSound
<1>15. SizedSound'
  <2> SUFFICES ASSUME reader.at = "sized" PROVE SizedSound'
    BY <1>9 DEF SizedSound
  <2>0. /\ reader.overrun \in 0 .. 2 /\ reader.asOf \in Nat /\ slots[n].generation \in Nat
        /\ LastEnd = slots[n].end
    BY <1>0, <1>2 DEF TypeOK, Readers, SlotValues, LastEnd
  <2>1. /\ reader.asOf <= slots[n].generation
        /\ reader.overrun = 0 => LastEnd <= reader.length
    BY DEF IInv, SizedSound
  <2>2. reader'.overrun = 1 => reader.overrun = 0
    BY <1>9, <2>0
  <2>3. reader'.overrun # 0
    BY <1>9, <2>0
  <2>4. \A i \in Intact(slots') : slots'[i].generation >= reader.asOf
    BY <1>3, <1>4, <2>0, <2>1
  <2>5. reader'.overrun = 1 => \E i \in Intact(slots') : /\ slots'[i].generation >= reader.asOf
                                                        /\ slots'[i].end <= reader.length
    BY <1>3, <1>4, <2>0, <2>1, <2>2, <2>4
  <2> QED BY <1>3, <1>5, <1>9, <2>1, <2>3, <2>4, <2>5 DEF SizedSound
<1>16. TableSound'
  <2> SUFFICES ASSUME reader.at = "table" PROVE TableSound'
    BY <1>9 DEF TableSound
  <2>1. reader' = reader
    BY <1>1
  <2>2. body' = body
    BY <1>1
  <2> QED BY <1>6, <2>1, <2>2 DEF IInv, TableSound, LeadsToRoot
<1>17. OpenFreshUnlessOverrun'
  <2> SUFFICES ASSUME reader.at = "done" PROVE OpenFreshUnlessOverrun'
    BY <1>9 DEF OpenFreshUnlessOverrun
  <2>1. reader' = reader
    BY <1>1
  <2> QED BY <2>1 DEF IInv, OpenFreshUnlessOverrun
<1> QED
  BY <1>7, <1>10, <1>12, <1>13, <1>14, <1>15, <1>16, <1>17 DEF IInv

\* The torn slot is written: the root at the end of the body becomes the newest,
\* with the rows of the old one and the whole session.
LEMMA SlotStep ==
  ASSUME IInv, NEW w \in Writers, WriteSlot(w)
  PROVE  IInv'
<1> DEFINE s == session[w]
           n == Newest(slots)
           t == 1 - n
           rows == Current.rows \o sent[s]
<1>0. TypeOK /\ FileSound /\ LockSound /\ NativeOk(w) /\ SessionsSound
  BY DEF IInv, NativeSound
<1>1. /\ native[w].phase = "torn"
      /\ native' = [native EXCEPT ![w].phase = "written"]
      /\ UNCHANGED <<body, lock, alive, raw, session, outcome, sent, begun, reader>>
  BY DEF WriteSlot
<1>2. /\ n \in Intact(slots) /\ n \in Slot /\ t \in Slot /\ t # n
      /\ LastEnd \in 1 .. Len(body) /\ Len(body) \in Nat /\ LastEnd = slots[n].end
      /\ Current \in Roots /\ Current.generation = slots[n].generation
  BY <1>0, SelectedRoot DEF Slot, LastEnd
<1>3. \A i \in Slot : i = n \/ i = t
  BY <1>2 DEF Slot
<1>4. /\ s \in 1 .. begun /\ s \in Sessions /\ outcome[s] = "committing"
      /\ \A i \in Intact(slots) : s \notin SessionsIn(body[slots[i].end].rows)
      /\ LastEnd < Len(body)
      /\ body[Len(body)] = Root(Current.generation + 1, rows)
      /\ ~slots[t].intact
  <2>1. /\ s \in 1 .. begun /\ outcome[s] = "committing"
        /\ \A i \in Intact(slots) : s \notin SessionsIn(body[slots[i].end].rows)
        /\ LastEnd < Len(body)
        /\ body[Len(body)] = Root(Current.generation + 1, rows)
        /\ \E i \in Slot : ~slots[i].intact
    BY <1>0, <1>1 DEF NativeOk, Publishing
  <2>2. s \in Sessions
    BY <1>0, <2>1, AppendableFileAssumption DEF TypeOK, Sessions
  <2> QED BY <1>2, <1>3, <2>1, <2>2 DEF Intact
<1>5. /\ sent[s] \in Seq(Batches) /\ Current.rows \in Seq(Batches)
      /\ Current.generation \in Nat \ {0}
      /\ \A j \in DOMAIN sent[s] : sent[s][j].of = s
  BY <1>0, <1>2, <1>4 DEF TypeOK, Roots, SessionsSound
<1>6. rows \in Seq(Batches) /\ body[Len(body)] \in Roots
  <2>1. rows \in Seq(Batches)
    BY <1>5, ConcatProperties
  <2>2. Current.generation + 1 \in Nat \ {0}
    BY <1>5
  <2> QED BY <1>4, <2>1, <2>2, ObjectTypes
<1> HIDE DEF rows
<1>7. slots' = [slots EXCEPT ![t] = SlotTo(Current.generation + 1, Len(body))]
  <2> DEFINE end == CHOOSE m \in DOMAIN body :
                      /\ body[m].kind = "root"
                      /\ \A k \in DOMAIN body : body[k].kind = "root" => k <= m
             torn == CHOOSE i \in Slot : ~slots[i].intact
  <2>1. DOMAIN body = 1 .. Len(body) /\ Len(body) \in DOMAIN body
    BY <1>0, <1>2 DEF TypeOK
  <2>2. body[Len(body)].kind = "root"
    BY <1>6 DEF Roots
  <2>3. \A k \in DOMAIN body : k <= Len(body)
    BY <1>2, <2>1
  <2>4. \E m \in DOMAIN body : /\ body[m].kind = "root"
                               /\ \A k \in DOMAIN body : body[k].kind = "root" => k <= m
    BY <2>1, <2>2, <2>3
  <2>5. end \in DOMAIN body /\ Len(body) <= end
    BY <2>1, <2>2, <2>4
  <2>6. end = Len(body)
    BY <1>2, <2>3, <2>5
  <2>7. torn = t
    BY <1>2, <1>3, <1>4 DEF Intact
  <2>8. slots' = [slots EXCEPT ![torn] = SlotTo(body[end].generation, end)]
    BY DEF WriteSlot
  <2>9. body[Len(body)].generation = Current.generation + 1
    BY <1>4 DEF Root
  <2> HIDE DEF end, torn
  <2> QED BY <2>6, <2>7, <2>8, <2>9
<1>8. /\ slots' \in [Slot -> SlotValues] /\ slots'[n] = slots[n]
      /\ slots'[t].intact = TRUE /\ slots'[t].generation = Current.generation + 1
      /\ slots'[t].end = Len(body)
  <2>1. SlotTo(Current.generation + 1, Len(body)) \in SlotValues
    BY <1>2, <1>5 DEF SlotTo, SlotValues
  <2>2. /\ slots' \in [Slot -> SlotValues] /\ slots'[n] = slots[n]
        /\ slots'[t] = SlotTo(Current.generation + 1, Len(body))
    BY <1>0, <1>2, <1>7, <2>1 DEF TypeOK
  <2> QED BY <2>2 DEF SlotTo
<1>9. Intact(slots') = {n, t} /\ Intact(slots) = {n}
  BY <1>2, <1>3, <1>4, <1>8 DEF Intact
<1>10. slots'[n].generation < slots'[t].generation /\ slots'[n].end < slots'[t].end
  BY <1>2, <1>4, <1>5, <1>8
<1>11. Newest(slots') = t
  BY <1>8, <1>9, <1>10, NewestIs
<1>12. LastEnd' = Len(body) /\ Current' = body[Len(body)] /\ Current'.rows = rows
  BY <1>1, <1>4, <1>8, <1>11 DEF LastEnd, Current, Root
<1>13. FileSound'
  <2>1. LeadsToRoot(slots[n])
    BY <1>0, <1>2 DEF FileSound
  <2>2. ASSUME NEW i \in Intact(slots') PROVE LeadsToRoot(slots[i])'
    <3>0. body' = body
      BY <1>1
    <3>1. CASE i = n
      BY <1>8, <2>1, <3>0, <3>1 DEF LeadsToRoot
    <3>2. CASE i = t
      <4>1. Len(body) \in 1 .. Len(body) /\ body[Len(body)].generation = Current.generation + 1
        BY <1>2, <1>4 DEF Root
      <4> QED BY <1>6, <1>8, <3>0, <3>2, <4>1 DEF LeadsToRoot
    <3> QED BY <1>9, <3>1, <3>2
  <2>3. \A i, j \in Intact(slots') : i # j => (i = n /\ j = t) \/ (i = t /\ j = n)
    BY <1>9
  <2>4. \A i, j \in Intact(slots') :
          i # j => \/ slots'[i].generation < slots'[j].generation /\ slots'[i].end < slots'[j].end
                   \/ slots'[j].generation < slots'[i].generation /\ slots'[j].end < slots'[i].end
    BY <1>10, <2>3
  <2>5. Intact(slots') # {}
    BY <1>9
  <2> QED BY <2>2, <2>4, <2>5 DEF FileSound
<1>14. /\ native' \in [Writers -> [phase : Phases, base : Nat]] /\ native'[w].phase = "written"
       /\ \A v \in Writers : v # w => native'[v] = native[v]
  BY <1>0, <1>1 DEF TypeOK, Phases
<1>15. TypeOK'
  BY <1>0, <1>1, <1>8, <1>14 DEF TypeOK
<1>16. \A v \in Writers : v # w => native[v].phase = "none"
  BY <1>0, <1>1, OneSession
<1>17. LockSound'
  <2>1. ASSUME NEW v \in Writers
        PROVE  (native'[v].phase = "none" <=> native[v].phase = "none")
               /\ (native'[v].phase = "open" <=> native[v].phase = "open")
    BY <1>1, <1>14
  <2>2. lock' = lock /\ raw' = raw /\ alive' = alive
    BY <1>1
  <2> QED BY <1>0, <2>1, <2>2 DEF LockSound
<1>18. HoldsAll(rows, s, sent[s])
  <2>1. s \notin SessionsIn(Current.rows)
    BY <1>2, <1>4 DEF Current
  <2> QED BY <1>5, <2>1, NewRowsJoined DEF rows
<1>19. NativeSound'
  <2>1. ASSUME NEW v \in Writers, v # w PROVE NativeOk(v)'
    <3>1. native'[v].phase = "none"
      BY <1>14, <1>16, <2>1
    <3> QED BY <3>1 DEF NativeOk, Publishing
  <2>2. NativeOk(w)'
    BY <1>1, <1>4, <1>12, <1>14, <1>18 DEF NativeOk, Publishing
  <2> QED BY <2>1, <2>2 DEF NativeSound
<1>20. ASSUME NEW z \in Sessions, z # s, HoldsAll(Current.rows, z, sent[z])
       PROVE  HoldsAll(rows, z, sent[z])
  <2>1. sent[z] \in Seq(Batches)
    BY <1>0 DEF TypeOK
  <2> QED BY <1>5, <1>20, <2>1, OtherRowsJoined DEF rows
<1>21. SessionsSound'
  <2>1. \A z \in SessionsIn(Current.rows) :
          /\ z \in Sessions /\ HoldsAll(Current.rows, z, sent[z])
          /\ outcome[z] \in {"committing", "committed", "unknown"}
    BY <1>0, <1>2, <1>5, RowSessions DEF SessionsSound, Current
  <2>2. SessionsIn(rows) \subseteq SessionsIn(Current.rows) \cup {s}
    BY <1>5, RowsJoined DEF rows
  <2>3. \A z \in SessionsIn(rows) : /\ HoldsAll(rows, z, sent[z])
                                    /\ outcome[z] \in {"committing", "committed", "unknown"}
    BY <1>4, <1>18, <1>20, <2>1, <2>2
  <2>4. \A i \in Intact(slots') : \A z \in SessionsIn(body'[slots'[i].end].rows) :
          /\ HoldsAll(body'[slots'[i].end].rows, z, sent'[z])
          /\ outcome'[z] \in {"committing", "committed", "unknown"}
    <3>1. body'[slots'[t].end].rows = rows /\ body'[slots'[n].end].rows = Current.rows
      BY <1>1, <1>2, <1>4, <1>8 DEF Root, Current
    <3> QED BY <1>1, <1>9, <2>1, <2>3, <3>1
  <2>5. \A z \in Sessions : outcome[z] = "committed" => HoldsAll(rows, z, sent[z])
    BY <1>0, <1>4, <1>20 DEF SessionsSound
  <2>6. /\ \A z \in Sessions : \A j \in DOMAIN sent[z] : sent[z][j].of = z
        /\ \A z \in Sessions : z > begun => outcome[z] = "none"
    BY <1>0 DEF SessionsSound
  <2> QED BY <1>1, <1>12, <2>4, <2>5, <2>6 DEF SessionsSound
<1>22. SizedSound'
  <2> SUFFICES ASSUME reader.at = "sized" PROVE SizedSound'
    BY <1>1 DEF SizedSound
  <2>0. /\ reader.asOf \in Nat /\ slots[n].generation \in Nat /\ slots'[t].generation \in Nat
        /\ slots'[n].generation = slots[n].generation
    BY <1>0, <1>2, <1>5, <1>8 DEF TypeOK, Readers, SlotValues
  <2>1. SizedSound
    BY DEF IInv
  <2>2. reader.asOf <= slots[n].generation /\ reader.asOf <= slots'[t].generation
    <3>1. reader.asOf <= slots[n].generation
      BY <2>1 DEF SizedSound
    <3> QED BY <1>10, <2>0, <3>1
  <2>3. reader.overrun = 0 => Len(body) <= reader.length
    BY <1>1, <2>1 DEF SizedSound
  <2>4. \A v \in Writers : native'[v].phase # "torn"
    BY <1>14, <1>16
  <2>5. reader.overrun = 1 => \E i \in Intact(slots') : /\ slots'[i].generation >= reader.asOf
                                                       /\ slots'[i].end <= reader.length
    BY <1>8, <1>9, <2>1 DEF SizedSound
  <2>6. \A i \in Intact(slots') : slots'[i].generation >= reader.asOf
    BY <1>9, <2>0, <2>2
  <2>7. reader' = reader
    BY <1>1
  <2> QED BY <1>11, <1>12, <2>2, <2>3, <2>4, <2>5, <2>6, <2>7 DEF SizedSound
<1>23. TableSound'
  <2>1. reader' = reader /\ body' = body
    BY <1>1
  <2>2. \A i \in Slot : reader.table[i].end \in Nat
    BY <1>0 DEF TypeOK, Readers, SlotValues
  <2>3. TableSound
    BY DEF IInv
  <2>4. ASSUME reader.at = "table", NEW i \in Intact(reader.table)
        PROVE  LeadsToRoot(reader.table[i])' /\ reader'.table[i].end <= LastEnd'
    <3>1. LeadsToRoot(reader.table[i]) /\ reader.table[i].end <= LastEnd
      BY <2>3, <2>4 DEF TableSound
    <3>2. reader.table[i].end \in Nat
      BY <2>2 DEF Intact
    <3>3. reader.table[i].end <= Len(body)
      BY <1>2, <3>1, <3>2
    <3> QED BY <1>12, <2>1, <3>1, <3>3 DEF LeadsToRoot
  <2> QED BY <2>1, <2>3, <2>4 DEF TableSound
<1>24. OpenFreshUnlessOverrun'
  BY <1>1 DEF IInv, OpenFreshUnlessOverrun
<1> QED
  BY <1>13, <1>15, <1>17, <1>19, <1>21, <1>22, <1>23, <1>24 DEF IInv

\* A step that changes nothing.
LEMMA Stutter ==
  ASSUME IInv, UNCHANGED vars
  PROVE  IInv'
<1>1. TypeOK'
  BY DEF vars, IInv, TypeOK
<1>2. FileSound'
  BY DEF vars, IInv, FileSound, LeadsToRoot
<1>3. LastEnd' = LastEnd /\ Current' = Current
  BY DEF vars, LastEnd, Current
<1>4. LockSound' /\ SessionsSound'
  BY <1>3 DEF vars, IInv, LockSound, SessionsSound
<1>5. NativeSound'
  BY <1>3 DEF vars, IInv, NativeSound, NativeOk
<1>6. SizedSound' /\ TableSound' /\ OpenFreshUnlessOverrun'
  BY <1>3 DEF vars, IInv, SizedSound, TableSound, LeadsToRoot, OpenFreshUnlessOverrun
<1> QED
  BY <1>1, <1>2, <1>4, <1>5, <1>6 DEF IInv

\* A session that is no longer active only leaves its scope.
LEMMA LeaveScopeStep ==
  ASSUME IInv, NEW w \in Writers, ~raw[w],
         alive' = [alive EXCEPT ![w] = FALSE], raw' = [raw EXCEPT ![w] = FALSE],
         UNCHANGED <<body, slots, lock, native, session, outcome, sent, begun, reader>>
  PROVE  IInv'
<1>0. TypeOK /\ FileSound /\ LockSound /\ NativeSound /\ SessionsSound
  BY DEF IInv
<1>1. alive' \in [Writers -> BOOLEAN] /\ raw' \in [Writers -> BOOLEAN]
  BY <1>0, Zenon DEF TypeOK
<1>2. raw' = raw
  <2>1. raw \in [Writers -> BOOLEAN] /\ raw[w] = FALSE
    BY <1>0, Zenon DEF TypeOK
  <2> QED BY <2>1
<1>3. TypeOK'
  BY <1>0, <1>1 DEF TypeOK
<1>4. LockSound'
  <2>1. \A v \in Writers : raw'[v] => alive'[v]
    <3> TAKE v \in Writers
    <3>1. CASE v = w
      BY <1>2, <3>1
    <3>2. CASE v # w
      <4>1. alive'[v] = alive[v]
        BY <1>0, <3>2 DEF TypeOK
      <4> QED BY <1>0, <1>2, <4>1 DEF LockSound
    <3> QED BY <3>1, <3>2
  <2> QED BY <1>0, <1>2, <2>1 DEF LockSound
<1>5. ASSUME LastEnd' = LastEnd, Current' = Current PROVE NativeSound'
  BY <1>0, <1>5 DEF NativeSound, NativeOk, Publishing
<1>6. LastEnd <= Len(body') /\ \A n \in 1 .. LastEnd : body'[n] = body[n]
  BY <1>0, SelectedRoot
<1>7. /\ \A s \in Sessions : \A j \in DOMAIN sent'[s] : sent'[s][j].of = s
      /\ \A s \in Sessions : s > begun' => outcome'[s] = "none"
  BY <1>0 DEF SessionsSound
<1> QED
  BY <1>3, <1>4, <1>5, <1>6, <1>7, BodyStep

\* What lies behind the selected root is cut off while nobody holds the lock.
LEMMA CleanupStep ==
  ASSUME IInv, CleanupOrphanTail
  PROVE  IInv'
<1>0. TypeOK /\ FileSound /\ LockSound /\ NativeSound /\ SessionsSound
  BY DEF IInv
<1>1. /\ lock = NoWriter /\ body' = SubSeq(body, 1, LastEnd)
      /\ UNCHANGED <<slots, lock, alive, raw, native, session, outcome, sent, begun, reader>>
  BY <1>0, SelectedRoot DEF CleanupOrphanTail, LastEnd
<1>2. \A v \in Writers : native[v].phase = "none"
  BY <1>0, <1>1, AppendableFileAssumption DEF LockSound
<1>3. LastEnd \in 1 .. Len(body)
  BY <1>0, SelectedRoot
<1>4. PICK n \in 1 .. Len(body) : n = LastEnd
  BY <1>3
<1>5. /\ body' \in Seq(Batches \cup Roots) /\ Len(body') = n
      /\ \A i \in 1 .. n : body'[i] = body[i]
  BY <1>0, <1>1, <1>4, CutBody
<1>6. LastEnd <= Len(body') /\ \A i \in 1 .. LastEnd : body'[i] = body[i]
  BY <1>4, <1>5
<1>7. TypeOK'
  BY <1>0, <1>1, <1>5 DEF TypeOK
<1>8. LockSound'
  BY <1>0, <1>1 DEF LockSound
<1>9. NativeSound'
  <2> SUFFICES ASSUME NEW v \in Writers PROVE NativeOk(v)'
    BY DEF NativeSound
  <2>1. native'[v].phase = "none"
    BY <1>1, <1>2
  <2> QED BY <2>1 DEF NativeOk, Publishing
<1>10. /\ \A s \in Sessions : \A j \in DOMAIN sent'[s] : sent'[s][j].of = s
       /\ \A s \in Sessions : s > begun' => outcome'[s] = "none"
  BY <1>0, <1>1 DEF SessionsSound
<1>11. /\ slots' = slots /\ reader' = reader
       /\ \A s \in Sessions : outcome'[s] = outcome[s] /\ sent'[s] = sent[s]
       /\ \A v \in Writers : native'[v].phase # "torn"
  BY <1>1, <1>2
<1> QED
  BY <1>6, <1>7, <1>8, <1>9, <1>10, <1>11, BodyStep

\* Every step of a writer keeps the invariant.
LEMMA WriteStep ==
  ASSUME IInv, NEW w \in Writers, Write(w)
  PROVE  IInv'
<1>0. TypeOK /\ LockSound
  BY DEF IInv
<1>1. CASE BeginSession(w)
  BY <1>1, BeginStep
<1>2. ASSUME NEW n \in 0 .. MaxBatchRowGroups + 1, AppendBatch(w, n) PROVE IInv'
  <2>0. native[w].phase = "open"
    BY <1>2 DEF AppendBatch
  <2>1. CASE EndOnError(w)
    <3>1. /\ Told(w, "failed") /\ raw' = [raw EXCEPT ![w] = FALSE]
          /\ UNCHANGED <<slots, alive, session, sent, begun, reader>>
          /\ lock' = NoWriter /\ native' = [native EXCEPT ![w] = Idle]
          /\ body' \in {SubSeq(body, 1, native[w].base), body}
      BY <2>0, <2>1 DEF EndOnError, Free
    <3>2. /\ alive' \in [Writers -> BOOLEAN] /\ raw' \in [Writers -> BOOLEAN] /\ raw'[w] = FALSE
          /\ \A v \in Writers : v # w => raw'[v] = raw[v]
      BY <1>0, <3>1, Zenon DEF TypeOK
    <3> QED BY <2>0, <3>1, <3>2, ReleaseStep DEF Outcomes
  <2>2. CASE ~EndOnError(w)
    BY <1>2, <2>0, <2>2, AppendStep DEF AppendBatch
  <2> QED BY <2>1, <2>2
<1>3. CASE AppendInactive(w)
  <2>1. UNCHANGED vars
    BY <1>3 DEF AppendInactive
  <2> QED BY <2>1, Stutter
<1>4. CASE Commit(w)
  BY <1>4, CommitStep
<1>5. CASE CommitReturns(w)
  <2>1. /\ native[w].phase \in {"committing", "rooted", "torn", "written"}
        /\ (native[w].phase = "written" /\ Told(w, "committed")) \/ Told(w, "unknown")
        /\ UNCHANGED <<slots, alive, raw, session, sent, begun, reader>>
        /\ lock' = NoWriter /\ native' = [native EXCEPT ![w] = Idle]
        /\ IF native[w].phase \in {"committing", "rooted"}
           THEN body' \in {SubSeq(body, 1, native[w].base), body}
           ELSE UNCHANGED body
    BY <1>5 DEF CommitReturns
  <2>2. /\ alive' \in [Writers -> BOOLEAN] /\ raw' \in [Writers -> BOOLEAN] /\ ~raw'[w]
        /\ \A v \in Writers : v # w => raw'[v] = raw[v]
    BY <1>0, <2>1 DEF TypeOK, LockSound
  <2>3. CASE native[w].phase = "written" /\ Told(w, "committed")
    BY <2>1, <2>2, <2>3, ReleaseStep DEF Outcomes
  <2>4. CASE Told(w, "unknown")
    BY <2>1, <2>2, <2>4, ReleaseStep DEF Outcomes
  <2> QED BY <2>1, <2>3, <2>4
<1>6. CASE EndSession(w)
  <2>1. CASE raw[w]
    <3>0. native[w].phase = "open"
      BY <1>0, <2>1 DEF LockSound
    <3>1. /\ Told(w, "dropped") /\ raw' = [raw EXCEPT ![w] = FALSE]
          /\ alive' = [alive EXCEPT ![w] = FALSE]
          /\ UNCHANGED <<slots, session, sent, begun, reader>>
          /\ lock' = NoWriter /\ native' = [native EXCEPT ![w] = Idle]
          /\ body' \in {SubSeq(body, 1, native[w].base), body}
      BY <1>6, <2>1, <3>0 DEF EndSession, Free
    <3>2. /\ alive' \in [Writers -> BOOLEAN] /\ raw' \in [Writers -> BOOLEAN] /\ raw'[w] = FALSE
          /\ \A v \in Writers : v # w => raw'[v] = raw[v]
      BY <1>0, <3>1, Zenon DEF TypeOK
    <3> QED BY <3>0, <3>1, <3>2, ReleaseStep DEF Outcomes
  <2>2. CASE ~raw[w]
    BY <1>6, <2>2, LeaveScopeStep DEF EndSession
  <2> QED BY <2>1, <2>2
<1>7. CASE WriteRoot(w)
  BY <1>7, RootStep
<1>8. CASE TearSlot(w)
  BY <1>8, TearStep
<1>9. CASE WriteSlot(w)
  BY <1>9, SlotStep
<1>10. CASE Crash(w)
  <2>1. /\ native[w].phase # "none" /\ lock' = NoWriter /\ native' = [native EXCEPT ![w] = Idle]
        /\ alive' = [alive EXCEPT ![w] = FALSE] /\ raw' = [raw EXCEPT ![w] = FALSE]
        /\ UNCHANGED <<body, slots, session, sent, begun, reader>>
        /\ Told(w, IF native[w].phase = "open" THEN "dropped" ELSE "unknown")
    BY <1>10 DEF Crash
  <2>2. /\ alive' \in [Writers -> BOOLEAN] /\ raw' \in [Writers -> BOOLEAN] /\ raw'[w] = FALSE
        /\ \A v \in Writers : v # w => raw'[v] = raw[v]
    BY <1>0, <2>1, Zenon DEF TypeOK
  <2>3. CASE native[w].phase = "open"
    <3>1. Told(w, "dropped")
      BY <2>1, <2>3
    <3> QED BY <2>1, <2>2, <2>3, <3>1, ReleaseStep DEF Outcomes
  <2>4. CASE native[w].phase # "open"
    <3>1. Told(w, "unknown")
      BY <2>1, <2>4
    <3> QED BY <2>1, <2>2, <2>4, <3>1, ReleaseStep DEF Outcomes
  <2> QED BY <2>3, <2>4
<1> QED
  BY <1>1, <1>2, <1>3, <1>4, <1>5, <1>6, <1>7, <1>8, <1>9, <1>10 DEF Write

-----------------------------------------------------------------------------
(* The reader's steps, and the theorems.                                   *)

\* A step of the reader leaves the file and the sessions as they are.
LEMMA ReaderStep ==
  ASSUME IInv, reader' \in Readers,
         UNCHANGED <<body, slots, lock, alive, raw, native, session, outcome, sent, begun>>,
         SizedSound', TableSound', OpenFreshUnlessOverrun'
  PROVE  IInv'
<1>1. TypeOK'
  BY DEF IInv, TypeOK
<1>2. FileSound'
  BY DEF IInv, FileSound, LeadsToRoot
<1>3. LastEnd' = LastEnd /\ Current' = Current
  BY DEF LastEnd, Current
<1>4. LockSound' /\ SessionsSound'
  BY <1>3 DEF IInv, LockSound, SessionsSound
<1>5. NativeSound'
  BY <1>3 DEF IInv, NativeSound, NativeOk
<1> QED
  BY <1>1, <1>2, <1>4, <1>5 DEF IInv

\* Every step of an open keeps the invariant.
LEMMA OpenStep ==
  ASSUME IInv, Open
  PROVE  IInv'
<1>0. TypeOK /\ FileSound /\ SizedSound /\ TableSound /\ reader \in Readers
  BY DEF IInv, TypeOK
<1>1. UNCHANGED <<body, slots, lock, alive, raw, native, session, outcome, sent, begun>>
  BY DEF Open, OpenFile, ReadBootstrap, SelectRoot, CloseFile
<1>2. LastEnd' = LastEnd
  BY <1>1 DEF LastEnd
<1>3. NoOpen \in Readers /\ NoOpen.at = "idle"
  BY DEF NoOpen, Readers, Corrupt, TornSlot, SlotValues
<1>4. CASE OpenFile
  <2>1. /\ LastEnd \in 1 .. Len(body) /\ Len(body) \in Nat /\ Current \in Roots
        /\ Current.generation = slots[Newest(slots)].generation /\ Published = Current
    BY <1>0, SelectedRoot
  <2>2. Current.generation \in Nat
    BY <2>1 DEF Roots
  <2>3. /\ reader' \in Readers /\ reader'.at = "sized" /\ reader'.length = Len(body)
        /\ reader'.asOf = Current.generation /\ reader'.overrun = 0
    <3> DEFINE l == Len(body)
               g == Current.generation
    <3>1. reader' = [NoOpen EXCEPT !.at = "sized", !.length = l, !.asOf = g]
      BY <1>4, <2>1 DEF OpenFile
    <3>2. l \in Nat /\ g \in Nat /\ NoOpen.overrun = 0
      BY <2>1, <2>2 DEF NoOpen
    <3> HIDE DEF l, g
    <3>3. /\ reader' \in Readers /\ reader'.at = "sized" /\ reader'.length = l
          /\ reader'.asOf = g /\ reader'.overrun = 0
      BY <1>3, <3>1, <3>2 DEF Readers
    <3> QED BY <3>3 DEF l, g
  <2>4. SizedSound'
    BY <1>1, <1>2, <2>1, <2>2, <2>3 DEF SizedSound
  <2> QED BY <1>1, <2>3, <2>4, ReaderStep DEF TableSound, OpenFreshUnlessOverrun
<1>5. CASE ReadBootstrap
  <2>1. /\ reader.at = "sized" /\ reader' \in Readers /\ reader'.at = "table"
        /\ reader'.table = slots /\ reader'.asOf = reader.asOf
        /\ reader'.overrun = reader.overrun /\ reader'.length = reader.length
    BY <1>0, <1>5 DEF ReadBootstrap, Readers, TypeOK
  <2>2. /\ Newest(slots) \in Intact(slots) /\ LastEnd = slots[Newest(slots)].end
        /\ \A i \in Intact(slots) : slots[i].end <= LastEnd
    BY <1>0, SelectedRoot DEF LastEnd
  <2>3. ASSUME NEW i \in Intact(slots)
        PROVE  LeadsToRoot(slots[i])' /\ slots[i].end <= LastEnd'
    <3>1. LeadsToRoot(slots[i])
      BY <1>0 DEF FileSound
    <3> QED BY <1>1, <1>2, <2>2, <3>1 DEF LeadsToRoot
  <2>4. reader.overrun < 2 => \E i \in Intact(slots) : /\ slots[i].generation >= reader.asOf
                                                       /\ slots[i].end <= reader.length
    <3>1. reader.overrun \in 0 .. 2 /\ reader.asOf \in Nat
      BY <1>0 DEF Readers
    <3>2. slots[Newest(slots)].generation \in Nat
      BY <1>0, <2>2 DEF TypeOK, SlotValues, Intact
    <3>3. CASE reader.overrun = 0
      BY <1>0, <2>1, <2>2, <3>1, <3>2, <3>3 DEF SizedSound
    <3>4. CASE reader.overrun = 1
      BY <1>0, <2>1, <3>4 DEF SizedSound
    <3> QED BY <3>1, <3>3, <3>4
  <2>5. reader.overrun > 0 => \A i \in Intact(slots) : slots[i].generation >= reader.asOf
    BY <1>0, <2>1 DEF SizedSound
  <2>6. TableSound'
    BY <1>1, <2>1, <2>3, <2>4, <2>5 DEF TableSound, LeadsToRoot
  <2> QED BY <1>1, <2>1, <2>6, ReaderStep DEF SizedSound, OpenFreshUnlessOverrun
<1>6. CASE SelectRoot
  <2> DEFINE T == reader.table
             C == Candidates(T, reader.length)
             r == IF C = {} THEN Corrupt ELSE T[NewestOf(T, reader.length)].generation
  <2>0. /\ reader.at = "table" /\ T \in [Slot -> SlotValues] /\ reader.overrun \in 0 .. 2
        /\ reader.asOf \in Nat
    BY <1>0, <1>6 DEF SelectRoot, Readers
  <2>1. C \subseteq Intact(T) /\ C \in SUBSET Slot
    BY DEF Candidates, Accepts, Intact
  <2>2. \A i \in Intact(T) : T[i].generation \in Nat \ {0}
    BY <1>0, <2>0 DEF TableSound, LeadsToRoot, Roots
  <2>3. \A i \in Intact(T) : T[i].end <= reader.length => i \in C
    BY <1>0, <2>0 DEF TableSound, LeadsToRoot, Candidates, Accepts, Roots, Intact
  <2>4. C # {} => /\ NewestOf(T, reader.length) \in C
                  /\ \A j \in C : T[j].generation <= T[NewestOf(T, reader.length)].generation
    BY <2>0, <2>1, GreatestSlot DEF NewestOf
  <2>5. r \in Nat /\ IF r = Corrupt THEN reader.overrun = 2 ELSE r >= reader.asOf
    <3>1. CASE reader.overrun < 2
      <4>1. PICK i \in Intact(T) : T[i].generation >= reader.asOf /\ T[i].end <= reader.length
        BY <1>0, <2>0, <3>1 DEF TableSound
      <4>2. i \in C
        BY <2>3, <4>1
      <4>3. r = T[NewestOf(T, reader.length)].generation /\ r \in Nat \ {0} /\ T[i].generation <= r
        BY <2>1, <2>2, <2>4, <4>2
      <4>4. T[i].generation \in Nat
        BY <2>2
      <4> HIDE DEF r, T
      <4> QED BY <2>0, <4>1, <4>3, <4>4 DEF Corrupt
    <3>2. CASE reader.overrun = 2
      <4>1. CASE C = {}
        BY <3>2, <4>1 DEF Corrupt
      <4>2. CASE C # {}
        <5>1. NewestOf(T, reader.length) \in Intact(T)
          BY <2>1, <2>4, <4>2
        <5>2. T[NewestOf(T, reader.length)].generation >= reader.asOf
          BY <1>0, <2>0, <3>2, <5>1 DEF TableSound
        <5> QED BY <2>2, <4>2, <5>1, <5>2, <3>2
      <4> QED BY <4>1, <4>2
    <3> QED BY <2>0, <3>1, <3>2
  <2> HIDE DEF C, T, r
  <2>6. /\ reader' = [NoOpen EXCEPT !.at = "done", !.asOf = reader.asOf,
                        !.overrun = reader.overrun, !.result = r]
    BY <1>6 DEF SelectRoot, r, C, T
  <2>7. /\ reader' \in Readers /\ reader'.at = "done" /\ reader'.result = r
        /\ reader'.asOf = reader.asOf /\ reader'.overrun = reader.overrun
    BY <2>0, <2>5, <2>6 DEF NoOpen, Readers, Corrupt, TornSlot, SlotValues
  <2>8. OpenFreshUnlessOverrun'
    BY <2>5, <2>7 DEF OpenFreshUnlessOverrun
  <2> QED BY <1>1, <2>7, <2>8, ReaderStep DEF SizedSound, TableSound
<1>7. CASE CloseFile
  <2>1. reader' = NoOpen
    BY <1>7 DEF CloseFile
  <2> QED BY <1>1, <1>3, <2>1, ReaderStep DEF SizedSound, TableSound, OpenFreshUnlessOverrun
<1> QED
  BY <1>4, <1>5, <1>6, <1>7 DEF Open

\* Every step keeps the invariant.
LEMMA StepSound == IInv /\ [Next]_vars => IInv'
<1> SUFFICES ASSUME IInv, [Next]_vars PROVE IInv'
  OBVIOUS
<1>1. ASSUME NEW w \in Writers, Write(w) PROVE IInv'
  BY <1>1, WriteStep
<1>2. CASE CleanupOrphanTail
  BY <1>2, CleanupStep
<1>3. CASE Open
  BY <1>3, OpenStep
<1>4. CASE UNCHANGED vars
  BY <1>4, Stutter
<1> QED
  BY <1>1, <1>2, <1>3, <1>4 DEF Next

\* The inductive invariant holds in every state of the writers and the reader.
THEOREM AppendableInvariant == Spec => []IInv
<1> QED
  BY InitSound, StepSound, PTL DEF Spec

\* The mutation lock is held exactly as long as a handle can reach the native
\* session or its commit runs, for any number of writers: the `take' of
\* append_batch and the Drop of the handle leave no session behind.
THEOREM AppendableLockFollowsHandle == Spec => []LockFollowsHandle
<1>1. IInv => LockFollowsHandle
  <2> SUFFICES ASSUME IInv, NEW w \in Writers
               PROVE  /\ lock = w <=> native[w].phase # "none"
                      /\ lock = w <=> raw[w] \/ native[w].phase \notin {"none", "open"}
                      /\ raw[w] => alive[w]
    BY DEF LockFollowsHandle
  <2> QED BY DEF IInv, LockSound
<1> QED
  BY <1>1, AppendableInvariant, PTL

\* Every root a reader may open holds, of each session, all or nothing of what
\* its caller was told is in, in order; a session that failed or was dropped is
\* in none, one whose commit returned Ok is in the newest.
THEOREM AppendableSessionsAreAtomic == Spec => []SessionsAreAtomic
<1>1. IInv => SessionsAreAtomic
  <2> SUFFICES ASSUME IInv PROVE SessionsAreAtomic
    OBVIOUS
  <2>1. Candidates(slots, Len(body)) = Intact(slots) /\ Published = Current
    BY SelectedRoot DEF IInv
  <2> QED BY <2>1 DEF IInv, SessionsSound, SessionsAreAtomic
<1> QED
  BY <1>1, AppendableInvariant, PTL

\* An open returns no root older than the one current when it took the length,
\* and calls the file corrupt only after commits rewrote both slots behind it.
THEOREM AppendableOpenFreshUnlessOverrun == Spec => []OpenFreshUnlessOverrun
<1>1. IInv => OpenFreshUnlessOverrun
  BY DEF IInv
<1> QED
  BY <1>1, AppendableInvariant, PTL

-----------------------------------------------------------------------------
(***************************************************************************)
(* The selection of a root.                                                *)
(***************************************************************************)

Validating == {"metadata", "structure", "charge", "validate"}

\* The candidate that the scan makes of slot i.
CandidateAt(i) == [slot |-> i, generation |-> slotTable[i].generation, ref |-> slotTable[i].ref]
Genuine(c) == c.slot \in TableSlot /\ c.slot < idx /\ Accepted(c.slot) /\ c = CandidateAt(c.slot)

\* The root of slot i is out of the question for a reason found in the file.
Explained(i) == Disputed(slotTable[i].generation) \/ Broken(slotTable[i].ref)

\* Where the open is, and what that says of its variables.
ControlSound ==
  /\ pc = "scan" => idx < SlotCount /\ tried = <<>>
  /\ pc \notin {"scan", "done"} => idx = SlotCount
  /\ result # "none" <=> pc = "done"
  /\ result \notin {"none", "failed"} => idx = SlotCount
  /\ pc \in {"scan", "choose"} \/ result = "corrupt" => chosen = NoCandidate
  /\ pc \in Validating \/ result = "opened" => chosen # NoCandidate
  /\ chosen # NoCandidate => idx = SlotCount
  /\ result = "corrupt" => candidates = {}
  /\ at >= 1

\* The slots passed were read, and their roots.
Scanned ==
  \A i \in TableSlot : i < idx =>
    /\ slotTable[i].verdict # "fatal"
    /\ slotTable[i].verdict = "ok" /\ slotTable[i].ref # NoRef =>
         contents[<<"root", slotTable[i].ref>>] \in {"ok", "corrupt"}

\* The candidates are accepted slots; an accepted slot is one of them, or out of
\* the question, or of the generation being validated.  Generations go as a whole.
CandidatesSound ==
  /\ \A c \in candidates : Genuine(c)
  /\ chosen # NoCandidate => /\ Genuine(chosen) /\ ~Disputed(chosen.generation)
                             /\ \A c \in candidates : c.generation <= chosen.generation
  /\ \A i \in TableSlot : i < idx /\ Accepted(i) =>
       \/ CandidateAt(i) \in candidates
       \/ pc # "scan" /\ Explained(i)
       \/ chosen # NoCandidate /\ slotTable[i].generation = chosen.generation
  /\ \A i \in TableSlot, c \in candidates :
       i < idx /\ Accepted(i) /\ slotTable[i].generation = c.generation =>
         CandidateAt(i) \in candidates \/ CandidateAt(i) = chosen

\* What is left is older than what was tried.
TriedSound ==
  /\ \A i, j \in DOMAIN tried : i < j => tried[i].generation > tried[j].generation
  /\ chosen = NoCandidate =>
       \A i \in DOMAIN tried : \A c \in candidates : c.generation < tried[i].generation
  /\ chosen # NoCandidate => tried # <<>> /\ tried[Len(tried)] = chosen

\* The cache knows only objects that were read and found good.
CacheSound ==
  \A o \in Objects :
    /\ cache[o] = "validated" => contents[<<"object", o>>] = "ok"
    /\ reads[o] = IF cache[o] = "validated" THEN 1 ELSE 0

\* What the validation of the chosen root has found so far.
ValidationSound ==
  /\ pc \in {"structure", "charge", "validate"} \/ result = "opened" =>
       contents[<<"metadata", chosen.ref>>] = "ok"
  /\ pc \in {"charge", "validate"} \/ result = "opened" => Sound(chosen.ref)
  /\ pc = "charge" =>
       \A k \in DOMAIN Inventoried :
         k < at /\ Auxiliary(Inventoried[k]) => cache[Inventoried[k].ref] # "absent"
  /\ pc = "validate" =>
       \A k \in DOMAIN Inventoried :
         /\ Auxiliary(Inventoried[k]) => cache[Inventoried[k].ref] # "absent"
         /\ k < at => contents[<<"object", Inventoried[k].ref>>] = "ok"
  /\ result = "opened" =>
       \A k \in DOMAIN Inventoried : contents[<<"object", Inventoried[k].ref>>] = "ok"
  /\ pc \in {"metadata", "structure"} => at = 1

\* Only an open that failed has met a failure that is not corruption.
FatalSound ==
  /\ result # "failed" => \A x \in Readable : contents[x] # "fatal"
  /\ result = "failed" => \/ \E x \in Readable : contents[x] = "fatal"
                          \/ idx < SlotCount /\ slotTable[idx].verdict = "fatal"

SelectionIInv == /\ SelectionTypeOK /\ ControlSound /\ Scanned /\ CandidatesSound /\ TriedSound
                 /\ CacheSound /\ ValidationSound /\ FatalSound

-----------------------------------------------------------------------------
(* What reading changes.                                                   *)

\* Generations are numbers, and an occupied slot has the fields of one.
LEMMA SlotFields ==
  ASSUME SelectionTypeOK
  PROVE  /\ Generations \subseteq Nat
         /\ \A i \in TableSlot : slotTable[i].verdict = "ok" /\ slotTable[i].ref # NoRef =>
              slotTable[i].ref \in RootRefs /\ slotTable[i].generation \in Generations
         /\ \A i \in TableSlot : slotTable[i].verdict \in {"ok", "corrupt", "fatal"}
<1>1. Generations \subseteq Nat
  BY RootSelectionAssumption DEF Generations, Range
<1>2. ASSUME NEW i \in TableSlot PROVE slotTable[i] \in SlotContents
  BY DEF SelectionTypeOK
<1>3. ASSUME NEW v \in SlotContents
      PROVE  /\ v.verdict = "ok" /\ v.ref # NoRef =>
                  v.ref \in RootRefs /\ v.generation \in Generations
             /\ v.verdict \in {"ok", "corrupt", "fatal"}
  BY DEF SlotContents
<1> QED BY <1>1, <1>2, <1>3

\* A candidate has the fields of one, and a root that is in the file.
LEMMA CandidateFields ==
  ASSUME NEW c \in CandidateValues
  PROVE  /\ c.ref \in RootRefs /\ c.generation \in Nat /\ c.slot \in TableSlot /\ c.slot \in Int
         /\ Inventory[c.ref] \in Seq(Uses)
         /\ c # NoCandidate
<1>1. c.ref \in RootRefs /\ c.generation \in Generations /\ c.slot \in TableSlot
  BY DEF CandidateValues
<1>2. Generations \subseteq Nat
  BY RootSelectionAssumption DEF Generations, Range
<1>3. c.slot \in Int /\ c.slot >= 0
  BY RootSelectionAssumption, <1>1 DEF TableSlot
<1>4. c # NoCandidate
  BY <1>3 DEF NoCandidate
<1> QED BY RootSelectionAssumption, <1>1, <1>2, <1>3, <1>4

\* Reading fixes what was not read before, and nothing else.
Grown == \A x \in Readable : contents'[x] = contents[x] \/ contents[x] = "unread"

\* A first read settles what an object yields and leaves the others alone.
LEMMA ReadingGrows ==
  ASSUME SelectionTypeOK, NEW x \in Readable, NEW v \in Verdicts, Yields(x, v)
  PROVE  /\ contents' \in [Readable -> Verdicts \cup {"unread"}] /\ contents'[x] = v
         /\ \A y \in Readable : y # x => contents'[y] = contents[y]
         /\ Grown
BY DEF SelectionTypeOK, Yields, Grown

\* A slot that is accepted stays so, and so do the reasons against a root.
LEMMA ReasonsStay ==
  ASSUME SelectionTypeOK, slotTable' = slotTable, Grown
  PROVE  /\ \A i \in TableSlot : Accepted(i) => Accepted(i)'
         /\ \A g : Disputed(g) => Disputed(g)'
         /\ \A r \in RootRefs : Broken(r) => Broken(r)'
<1>1. ASSUME NEW i \in TableSlot, Accepted(i) PROVE Accepted(i)'
  <2>1. slotTable[i].ref \in RootRefs
    BY <1>1, SlotFields DEF Accepted
  <2>2. <<"root", slotTable[i].ref>> \in Readable
    BY <2>1 DEF Readable
  <2>3. contents'[<<"root", slotTable[i].ref>>] = "ok"
    BY <1>1, <2>2 DEF Accepted, Grown
  <2> QED BY <1>1, <2>3 DEF Accepted
<1>2. ASSUME NEW g, Disputed(g) PROVE Disputed(g)'
  <2>1. PICK i \in TableSlot, j \in TableSlot :
          /\ Accepted(i) /\ Accepted(j)
          /\ slotTable[i].generation = g /\ slotTable[j].generation = g /\ slotTable[i].ref # slotTable[j].ref
    BY <1>2 DEF Disputed
  <2>2. Accepted(i)' /\ Accepted(j)'
    BY <1>1, <2>1
  <2> QED BY <2>1, <2>2 DEF Disputed
<1>3. ASSUME NEW r \in RootRefs, Broken(r) PROVE Broken(r)'
  <2>1. CASE contents[<<"metadata", r>>] = "corrupt"
    <3>1. <<"metadata", r>> \in Readable
      BY DEF Readable
    <3> QED BY <2>1, <3>1 DEF Broken, Grown
  <2>2. CASE ~Sound(r)
    BY <2>2 DEF Broken, Sound, AuxiliaryUses
  <2>3. CASE \E u \in Range(Inventory[r]) : contents[<<"object", u.ref>>] = "corrupt"
    <3>1. PICK u \in Range(Inventory[r]) : contents[<<"object", u.ref>>] = "corrupt"
      BY <2>3
    <3>2. Inventory[r] \in Seq(Uses)
      BY RootSelectionAssumption
    <3>3. u \in Uses
      BY <3>1, <3>2, ElementOfSeq, LenProperties DEF Range
    <3>4. <<"object", u.ref>> \in Readable
      BY <3>3 DEF Uses, Readable
    <3>5. contents'[<<"object", u.ref>>] = "corrupt"
      BY <3>1, <3>4 DEF Grown
    <3> QED BY <3>5 DEF Broken
  <2> QED BY <1>3, <2>1, <2>2, <2>3 DEF Broken
<1> QED BY <1>1, <1>2, <1>3

\* Once the scan is over the roots have been read: which slots are accepted, and
\* which generations disputed, no longer changes.
RootsSettled == \A r \in RootRefs : contents'[<<"root", r>>] = contents[<<"root", r>>]

\* Reading metadata and bodies changes nothing about the slots or their roots.
LEMMA AcceptedSettled ==
  ASSUME SelectionTypeOK, slotTable' = slotTable, idx' = idx, RootsSettled
  PROVE  /\ \A i \in TableSlot : Accepted(i)' <=> Accepted(i)
         /\ \A g : Disputed(g)' <=> Disputed(g)
         /\ \A i \in TableSlot : CandidateAt(i)' = CandidateAt(i)
         /\ \A c : Genuine(c)' <=> Genuine(c)
         /\ Scanned => Scanned'
<1>1. ASSUME NEW i \in TableSlot PROVE Accepted(i)' <=> Accepted(i)
  <2>1. slotTable[i].verdict = "ok" /\ slotTable[i].ref # NoRef => slotTable[i].ref \in RootRefs
    BY SlotFields
  <2> QED BY <2>1 DEF Accepted, RootsSettled
<1>2. ASSUME NEW g PROVE Disputed(g)' <=> Disputed(g)
  BY <1>1 DEF Disputed
<1>3. \A i \in TableSlot : CandidateAt(i)' = CandidateAt(i)
  BY DEF CandidateAt
<1>4. \A c : Genuine(c)' <=> Genuine(c)
  BY <1>1, <1>3 DEF Genuine
<1>5. Scanned => Scanned'
  BY SlotFields DEF Scanned, RootsSettled
<1> QED BY <1>1, <1>2, <1>3, <1>4, <1>5

\* A reason against the root of an accepted slot stays one.
LEMMA ExplainedStays ==
  ASSUME SelectionTypeOK, slotTable' = slotTable, Grown,
         NEW i \in TableSlot, Accepted(i), Explained(i)
  PROVE  Explained(i)'
<1>1. slotTable[i].ref \in RootRefs
  BY SlotFields DEF Accepted
<1>2. Disputed(slotTable[i].generation) => Disputed(slotTable[i].generation)'
  <2> SUFFICES ASSUME Disputed(slotTable[i].generation) PROVE Disputed(slotTable[i].generation)'
    OBVIOUS
  <2>1. PICK k \in TableSlot, j \in TableSlot :
          /\ Accepted(k) /\ Accepted(j) /\ slotTable[k].generation = slotTable[i].generation
          /\ slotTable[j].generation = slotTable[i].generation /\ slotTable[k].ref # slotTable[j].ref
    BY DEF Disputed
  <2>2. Accepted(k)' /\ Accepted(j)'
    BY <2>1, ReasonsStay
  <2> QED BY <2>1, <2>2 DEF Disputed
<1>3. Broken(slotTable[i].ref) => Broken(slotTable[i].ref)'
  <2>1. PICK r \in RootRefs : r = slotTable[i].ref
    BY <1>1
  <2>2. Broken(r) => Broken(r)'
    BY ReasonsStay
  <2> QED BY <2>1, <2>2 DEF Broken
<1> QED BY <1>2, <1>3 DEF Explained

-----------------------------------------------------------------------------
(* Steps after the scan.                                                   *)

\* A step that leaves the choice alone.
LEMMA QuietStep ==
  ASSUME SelectionIInv, slotTable' = slotTable, idx' = idx, RootsSettled, Grown,
         candidates' = candidates, chosen' = chosen, tried' = tried,
         pc # "scan", pc' # "scan"
  PROVE  Scanned' /\ CandidatesSound' /\ TriedSound'
<1>0. SelectionTypeOK /\ Scanned /\ CandidatesSound /\ TriedSound
  BY DEF SelectionIInv
<1>1. /\ \A i \in TableSlot : Accepted(i)' <=> Accepted(i)
      /\ \A i \in TableSlot : CandidateAt(i)' = CandidateAt(i)
      /\ \A c : Genuine(c)' <=> Genuine(c)
      /\ Scanned'
  BY <1>0, AcceptedSettled
<1>2. Disputed(chosen.generation)' <=> Disputed(chosen.generation)
  BY <1>1 DEF Disputed
<1>3. \A c \in candidates : Genuine(c)'
  BY <1>0, <1>1 DEF CandidatesSound
<1>4. chosen # NoCandidate => Genuine(chosen)'
  <2>1. chosen # NoCandidate => Genuine(chosen)
    BY <1>0 DEF CandidatesSound
  <2>2. Genuine(chosen) => Genuine(chosen)'
    BY <1>1 DEF Genuine, CandidateAt
  <2> QED BY <2>1, <2>2
<1>5. ASSUME NEW i \in TableSlot, i < idx, Accepted(i)'
      PROVE  \/ CandidateAt(i)' \in candidates
             \/ Explained(i)'
             \/ chosen # NoCandidate /\ slotTable[i].generation = chosen.generation
  <2>1. Accepted(i)
    BY <1>1, <1>5
  <2>2. \/ CandidateAt(i) \in candidates
        \/ Explained(i)
        \/ chosen # NoCandidate /\ slotTable[i].generation = chosen.generation
    BY <1>0, <1>5, <2>1 DEF CandidatesSound
  <2>3. Explained(i) => Explained(i)'
    BY <1>0, <2>1, ExplainedStays
  <2> QED BY <1>1, <2>2, <2>3
<1>6. ASSUME NEW i \in TableSlot, NEW c \in candidates, i < idx, Accepted(i)',
             slotTable[i].generation = c.generation
      PROVE  CandidateAt(i)' \in candidates \/ CandidateAt(i)' = chosen
  <2>1. Accepted(i)
    BY <1>1, <1>6
  <2>2. CandidateAt(i) \in candidates \/ CandidateAt(i) = chosen
    BY <1>0, <1>6, <2>1 DEF CandidatesSound
  <2> QED BY <1>1, <2>2
<1>7. CandidatesSound'
  BY <1>0, <1>2, <1>3, <1>4, <1>5, <1>6 DEF CandidatesSound
<1>8. TriedSound'
  BY <1>0 DEF TriedSound
<1> QED BY <1>1, <1>7, <1>8

\* The chosen root is found to be broken: it goes with its whole generation, which
\* nobody disputes, so all of it is the same broken root.
LEMMA DiscardStep ==
  ASSUME SelectionIInv, slotTable' = slotTable, idx' = idx, RootsSettled, Grown,
         chosen # NoCandidate, NEW r \in RootRefs, r = chosen.ref, Broken(r)',
         Discard, tried' = tried, pc # "scan"
  PROVE  Scanned' /\ CandidatesSound' /\ TriedSound'
<1>0. SelectionTypeOK /\ Scanned /\ CandidatesSound /\ TriedSound
  BY DEF SelectionIInv
<1>1. /\ \A i \in TableSlot : Accepted(i)' <=> Accepted(i)
      /\ \A i \in TableSlot : CandidateAt(i)' = CandidateAt(i)
      /\ \A c : Genuine(c)' <=> Genuine(c)
      /\ Scanned'
  BY <1>0, AcceptedSettled
<1>2. /\ candidates' = {c \in candidates : c.generation # chosen.generation}
      /\ chosen' = NoCandidate /\ pc' = "choose"
  BY DEF Discard, DropGeneration
<1>3. /\ Genuine(chosen) /\ ~Disputed(chosen.generation)
      /\ \A c \in candidates : c.generation <= chosen.generation
  BY <1>0 DEF CandidatesSound
<1>4. \A c \in candidates' : Genuine(c)'
  BY <1>0, <1>1, <1>2 DEF CandidatesSound
<1>5. ASSUME NEW i \in TableSlot, i < idx, Accepted(i)'
      PROVE  CandidateAt(i)' \in candidates' \/ Explained(i)'
  <2>1. Accepted(i)
    BY <1>1, <1>5
  <2>2. CASE slotTable[i].generation = chosen.generation
    <3>1. slotTable[i].ref = chosen.ref
      <4>1. chosen.slot \in TableSlot /\ Accepted(chosen.slot) /\ chosen = CandidateAt(chosen.slot)
        BY <1>3 DEF Genuine
      <4>2. slotTable[chosen.slot].generation = chosen.generation /\ slotTable[chosen.slot].ref = chosen.ref
        BY <4>1 DEF CandidateAt
      <4> QED BY <1>3, <2>1, <2>2, <4>1, <4>2 DEF Disputed
    <3>2. Broken(slotTable[i].ref)'
      <4>1. slotTable'[i].ref = r
        BY <3>1
      <4> QED BY <4>1 DEF Broken, Sound, AuxiliaryUses
    <3> QED BY <3>2 DEF Explained
  <2>3. CASE slotTable[i].generation # chosen.generation
    <3>1. CandidateAt(i) \in candidates \/ Explained(i)
      BY <1>0, <1>5, <2>1, <2>3 DEF CandidatesSound
    <3>2. CandidateAt(i).generation = slotTable[i].generation
      BY DEF CandidateAt
    <3>3. Explained(i) => Explained(i)'
      BY <1>0, <2>1, ExplainedStays
    <3> QED BY <1>1, <1>2, <2>3, <3>1, <3>2, <3>3
  <2> QED BY <2>2, <2>3
<1>6. ASSUME NEW i \in TableSlot, NEW c \in candidates', i < idx, Accepted(i)',
             slotTable[i].generation = c.generation
      PROVE  CandidateAt(i)' \in candidates'
  <2>1. Accepted(i) /\ c \in candidates /\ slotTable[i].generation # chosen.generation
    BY <1>1, <1>2, <1>6
  <2>2. CandidateAt(i) \in candidates \/ CandidateAt(i) = chosen
    BY <1>0, <1>6, <2>1 DEF CandidatesSound
  <2>3. CandidateAt(i).generation = slotTable[i].generation
    BY DEF CandidateAt
  <2> QED BY <1>1, <1>2, <2>1, <2>2, <2>3
<1>7. CandidatesSound'
  BY <1>2, <1>4, <1>5, <1>6 DEF CandidatesSound
<1>8. TriedSound'
  <2>1. tried # <<>> /\ tried[Len(tried)] = chosen
    BY <1>0 DEF TriedSound
  <2>2. ASSUME NEW k \in DOMAIN tried, NEW c \in candidates'
        PROVE  c.generation < tried[k].generation
    <3>0. chosen \in CandidateValues /\ c \in CandidateValues /\ tried[k] \in CandidateValues
      BY <1>0, <1>2, <2>2, ElementOfSeq, LenProperties DEF SelectionTypeOK
    <3>1. c.generation \in Nat /\ chosen.generation \in Nat /\ tried[k].generation \in Nat
      BY <3>0, CandidateFields
    <3>2. c.generation < chosen.generation
      BY <1>2, <1>3, <3>1
    <3>3. DOMAIN tried = 1 .. Len(tried) /\ Len(tried) \in Nat
      BY <1>0 DEF SelectionTypeOK
    <3>4. CASE k = Len(tried)
      BY <2>1, <3>2, <3>4
    <3>5. CASE k # Len(tried)
      <4>1. k < Len(tried) /\ Len(tried) \in DOMAIN tried
        BY <3>3, <3>5
      <4>2. tried[k].generation > chosen.generation
        BY <1>0, <2>1, <4>1 DEF TriedSound
      <4> QED BY <3>1, <3>2, <4>2
    <3> QED BY <3>4, <3>5
  <2> QED BY <1>0, <1>2, <2>2 DEF TriedSound
<1> QED BY <1>1, <1>7, <1>8

-----------------------------------------------------------------------------
(* Steps of the scan, and the choice.                                      *)

\* A slot is passed, or the open ends at it: the slots passed before keep what
\* was found of them.
LEMMA ScanStep ==
  ASSUME SelectionIInv, pc = "scan", slotTable' = slotTable, Grown,
         chosen' = chosen, tried' = tried, NEW n \in TableSlot, n = idx,
         \/ idx' = n /\ candidates' = candidates
         \/ /\ idx' = n + 1
            /\ slotTable[n].verdict # "fatal"
            /\ slotTable[n].verdict = "ok" /\ slotTable[n].ref # NoRef =>
                 contents'[<<"root", slotTable[n].ref>>] \in {"ok", "corrupt"}
            /\ candidates' = IF Accepted(n)' THEN candidates \cup {CandidateAt(n)} ELSE candidates
  PROVE  Scanned' /\ CandidatesSound' /\ TriedSound'
<1>0. SelectionTypeOK /\ Scanned /\ CandidatesSound /\ TriedSound /\ chosen = NoCandidate /\ tried = <<>>
  BY DEF SelectionIInv, ControlSound
<1>1. n \in Int /\ \A i \in TableSlot : i \in Int
  BY RootSelectionAssumption DEF TableSlot
<1>2. \A i \in TableSlot : i < n => (Accepted(i)' <=> Accepted(i))
  <2> SUFFICES ASSUME NEW i \in TableSlot, i < n PROVE Accepted(i)' <=> Accepted(i)
    OBVIOUS
  <2>1. CASE slotTable[i].verdict = "ok" /\ slotTable[i].ref # NoRef
    <3>1. slotTable[i].ref \in RootRefs
      BY <1>0, <2>1, SlotFields
    <3>2. <<"root", slotTable[i].ref>> \in Readable
      BY <3>1 DEF Readable
    <3>3. contents[<<"root", slotTable[i].ref>>] \in {"ok", "corrupt"}
      BY <1>0, <2>1 DEF Scanned
    <3>4. contents'[<<"root", slotTable[i].ref>>] = contents[<<"root", slotTable[i].ref>>]
      BY <3>2, <3>3 DEF Grown
    <3> QED BY <3>4 DEF Accepted
  <2>2. CASE ~(slotTable[i].verdict = "ok" /\ slotTable[i].ref # NoRef)
    BY <2>2 DEF Accepted
  <2> QED BY <2>1, <2>2
<1>3. \A i \in TableSlot : CandidateAt(i)' = CandidateAt(i)
  BY DEF CandidateAt
<1>4. \A i \in TableSlot : i < n /\ slotTable[i].verdict = "ok" /\ slotTable[i].ref # NoRef =>
        contents'[<<"root", slotTable[i].ref>>] \in {"ok", "corrupt"}
  <2> SUFFICES ASSUME NEW i \in TableSlot, i < n, slotTable[i].verdict = "ok", slotTable[i].ref # NoRef
               PROVE  contents'[<<"root", slotTable[i].ref>>] \in {"ok", "corrupt"}
    OBVIOUS
  <2>1. <<"root", slotTable[i].ref>> \in Readable
    BY <1>0, SlotFields DEF Readable
  <2> QED BY <1>0, <2>1 DEF Scanned, Grown
<1>5. \A i \in TableSlot : i < n => slotTable[i].verdict # "fatal"
  BY <1>0 DEF Scanned
<1>6. idx' \in Int /\ \A i \in TableSlot : i < idx' => i < n \/ (i = n /\ idx' = n + 1)
  <2>1. CASE idx' = n
    BY <1>1, <2>1
  <2>2. CASE idx' = n + 1
    <3>1. \A i \in TableSlot : i < n + 1 => i < n \/ i = n
      BY <1>1
    <3> QED BY <1>1, <2>2, <3>1
  <2> QED BY <2>1, <2>2
<1>7. Scanned'
  BY <1>4, <1>5, <1>6 DEF Scanned
<1>8. \A c \in candidates : Genuine(c)'
  <2> TAKE c \in candidates
  <2>1. c.slot \in TableSlot /\ c.slot < n /\ Accepted(c.slot) /\ c = CandidateAt(c.slot)
    BY <1>0 DEF CandidatesSound, Genuine
  <2>2. PICK k \in TableSlot : k = c.slot
    BY <2>1
  <2>3. k < idx' /\ Accepted(k)' /\ c = CandidateAt(k)'
    BY <1>1, <1>2, <1>3, <2>1, <2>2
  <2> QED BY <2>2, <2>3 DEF Genuine, Accepted, CandidateAt
<1>10. \A c \in candidates' : Genuine(c)'
  <2> SUFFICES ASSUME NEW c \in candidates' PROVE Genuine(c)'
    OBVIOUS
  <2>1. CASE c \in candidates
    BY <1>8, <2>1
  <2>2. CASE c \notin candidates
    <3>1. idx' = n + 1 /\ Accepted(n)' /\ c = CandidateAt(n)
      BY <2>2
    <3>2. c.slot = n /\ n < idx' /\ c = CandidateAt(n)'
      BY <1>1, <1>3, <3>1 DEF CandidateAt
    <3> QED BY <3>1, <3>2 DEF Genuine, Accepted, CandidateAt
  <2> QED BY <2>1, <2>2
<1>11. \A i \in TableSlot : i < idx' /\ Accepted(i)' => CandidateAt(i)' \in candidates'
  <2> SUFFICES ASSUME NEW i \in TableSlot, i < idx', Accepted(i)' PROVE CandidateAt(i) \in candidates'
    BY <1>3
  <2>1. CASE i < n
    <3>1. Accepted(i)
      BY <1>2, <2>1
    <3>2. CandidateAt(i) \in candidates
      BY <1>0, <2>1, <3>1 DEF CandidatesSound
    <3> QED BY <3>2
  <2>2. CASE i = n
    <3>1. idx' = n + 1
      BY <1>1, <2>2
    <3>2. Accepted(n)'
      BY <2>2 DEF Accepted
    <3> QED BY <1>1, <2>2, <3>1, <3>2
  <2> QED BY <1>6, <2>1, <2>2
<1>12. CandidatesSound'
  BY <1>0, <1>10, <1>11 DEF CandidatesSound
<1>13. TriedSound'
  BY <1>0 DEF TriedSound
<1> QED BY <1>7, <1>12, <1>13

\* Two roots claim the newest generation: all its slots are disputed.
LEMMA DropConflictKeeps ==
  ASSUME SelectionIInv, DropConflict
  PROVE  CandidatesSound' /\ TriedSound'
<1>0. /\ SelectionTypeOK /\ CandidatesSound /\ TriedSound /\ chosen = NoCandidate /\ idx = SlotCount
      /\ UNCHANGED <<slotTable, limit, contents, pc, idx, chosen, at, tried, result>> /\ pc = "choose"
  BY DEF SelectionIInv, ControlSound, DropConflict, File
<1>1. PICK a \in NewestLeft, b \in NewestLeft : a.ref # b.ref
  BY DEF DropConflict, Conflict
<1>2. PICK c \in NewestLeft : candidates' = {d \in candidates : d.generation # c.generation}
  BY DEF DropConflict, DropGeneration
<1>3. a \in candidates /\ b \in candidates /\ c \in candidates
  BY DEF NewestLeft
<1>4. a.generation = c.generation /\ b.generation = c.generation
  <2>1. a.generation \in Nat /\ b.generation \in Nat /\ c.generation \in Nat
    BY <1>0, <1>3, CandidateFields DEF SelectionTypeOK
  <2> QED BY <1>3, <2>1 DEF NewestLeft
<1>5. Disputed(c.generation)
  <2>1. /\ a.slot \in TableSlot /\ Accepted(a.slot) /\ a = CandidateAt(a.slot)
        /\ b.slot \in TableSlot /\ Accepted(b.slot) /\ b = CandidateAt(b.slot)
    BY <1>0, <1>3 DEF CandidatesSound, Genuine
  <2>2. /\ slotTable[a.slot].ref = a.ref /\ slotTable[a.slot].generation = a.generation
        /\ slotTable[b.slot].ref = b.ref /\ slotTable[b.slot].generation = b.generation
    BY <2>1 DEF CandidateAt
  <2> QED BY <1>1, <1>4, <2>1, <2>2 DEF Disputed
<1>6. /\ \A i \in TableSlot : (Accepted(i)' <=> Accepted(i)) /\ CandidateAt(i)' = CandidateAt(i)
      /\ \A d : Genuine(d)' <=> Genuine(d)
  BY <1>0 DEF Accepted, CandidateAt, Genuine
<1>7. \A i \in TableSlot : Explained(i)' <=> Explained(i)
  BY <1>0 DEF Explained, Disputed, Accepted, Broken, Sound, AuxiliaryUses
<1>8. \A d \in candidates' : Genuine(d)'
  BY <1>0, <1>2, <1>6 DEF CandidatesSound
<1>9. ASSUME NEW i \in TableSlot, i < idx, Accepted(i)
      PROVE  CandidateAt(i) \in candidates' \/ Explained(i)
  <2>1. CandidateAt(i) \in candidates \/ Explained(i)
    BY <1>0, <1>9 DEF CandidatesSound
  <2>2. CandidateAt(i).generation = slotTable[i].generation
    BY DEF CandidateAt
  <2>3. CASE slotTable[i].generation = c.generation
    BY <1>5, <2>3 DEF Explained
  <2>4. CASE slotTable[i].generation # c.generation
    BY <1>2, <2>1, <2>2, <2>4
  <2> QED BY <2>3, <2>4
<1>10. ASSUME NEW i \in TableSlot, NEW d \in candidates', i < idx, Accepted(i),
              slotTable[i].generation = d.generation
       PROVE  CandidateAt(i) \in candidates' \/ CandidateAt(i) = chosen
  <2>1. CandidateAt(i) \in candidates \/ CandidateAt(i) = chosen
    BY <1>0, <1>2, <1>10 DEF CandidatesSound
  <2>2. CandidateAt(i).generation = slotTable[i].generation
    BY DEF CandidateAt
  <2> QED BY <1>2, <1>10, <2>1, <2>2
<1>11. CandidatesSound'
  BY <1>0, <1>6, <1>7, <1>8, <1>9, <1>10 DEF CandidatesSound
<1>12. TriedSound'
  BY <1>0, <1>2 DEF TriedSound
<1> QED BY <1>11, <1>12

\* One root claims the newest generation: it is chosen, and undisputed.
LEMMA ChooseKeeps ==
  ASSUME SelectionIInv, Choose
  PROVE  /\ CandidatesSound' /\ TriedSound'
         /\ chosen' \in CandidateValues /\ candidates' \subseteq candidates /\ tried' \in Seq(CandidateValues)
<1>0. /\ SelectionTypeOK /\ CandidatesSound /\ TriedSound /\ chosen = NoCandidate /\ idx = SlotCount
      /\ UNCHANGED <<slotTable, limit, contents, idx, result>> /\ pc = "choose" /\ pc' = "metadata"
      /\ ~Conflict
  BY DEF SelectionIInv, ControlSound, Choose, File
<1>1. PICK c \in NewestLeft : /\ chosen' = c /\ candidates' = candidates \ {c}
                              /\ tried' = Append(tried, c)
  BY DEF Choose
<1>2. /\ c \in candidates /\ c \in CandidateValues /\ Genuine(c)
      /\ \A d \in candidates : d.generation <= c.generation
  BY <1>0 DEF NewestLeft, SelectionTypeOK, CandidatesSound
<1>3. \A i \in TableSlot : i < idx
  BY RootSelectionAssumption, <1>0 DEF TableSlot
<1>4. \A i \in TableSlot : CandidateAt(i) # NoCandidate /\ CandidateAt(i).generation = slotTable[i].generation
  <2> TAKE i \in TableSlot
  <2>1. i \in Int /\ i >= 0
    BY RootSelectionAssumption DEF TableSlot
  <2>2. CandidateAt(i).slot = i /\ NoCandidate.slot = -1
    BY DEF CandidateAt, NoCandidate
  <2> QED BY <2>1, <2>2 DEF CandidateAt
<1>5. ~Disputed(c.generation)
  <2> SUFFICES ASSUME NEW i \in TableSlot, NEW j \in TableSlot, Accepted(i), Accepted(j),
                      slotTable[i].generation = c.generation, slotTable[j].generation = c.generation
               PROVE  slotTable[i].ref = slotTable[j].ref
    BY DEF Disputed
  <2>1. CandidateAt(i) \in candidates /\ CandidateAt(j) \in candidates
    BY <1>0, <1>2, <1>3, <1>4 DEF CandidatesSound
  <2>2. CandidateAt(i) \in NewestLeft /\ CandidateAt(j) \in NewestLeft
    BY <1>2, <1>4, <2>1 DEF NewestLeft
  <2>3. CandidateAt(i).ref = CandidateAt(j).ref
    BY <1>0, <2>2 DEF Conflict
  <2> QED BY <2>3 DEF CandidateAt
<1>6. /\ \A i \in TableSlot : (Accepted(i)' <=> Accepted(i)) /\ CandidateAt(i)' = CandidateAt(i)
      /\ \A d : Genuine(d)' <=> Genuine(d)
  BY <1>0 DEF Accepted, CandidateAt, Genuine
<1>7. \A i \in TableSlot : Explained(i)' <=> Explained(i)
  BY <1>0 DEF Explained, Disputed, Accepted, Broken, Sound, AuxiliaryUses
<1>8. \A d \in candidates' : Genuine(d)'
  BY <1>0, <1>1, <1>6 DEF CandidatesSound
<1>9. Genuine(chosen)' /\ ~Disputed(chosen.generation)'
  <2>1. Genuine(chosen)'
    BY <1>1, <1>2, <1>6 DEF Genuine, Accepted, CandidateAt
  <2>2. ~Disputed(chosen.generation)'
    BY <1>0, <1>1, <1>5 DEF Disputed, Accepted
  <2> QED BY <2>1, <2>2
<1>10. ASSUME NEW i \in TableSlot, i < idx, Accepted(i)
       PROVE  \/ CandidateAt(i) \in candidates'
              \/ Explained(i)
              \/ slotTable[i].generation = c.generation
  BY <1>0, <1>1, <1>4, <1>10 DEF CandidatesSound
<1>11. ASSUME NEW i \in TableSlot, NEW d \in candidates', i < idx, Accepted(i),
              slotTable[i].generation = d.generation
       PROVE  CandidateAt(i) \in candidates' \/ CandidateAt(i) = c
  BY <1>0, <1>1, <1>4, <1>11 DEF CandidatesSound
<1>12. chosen' # NoCandidate
  BY <1>1, <1>2, CandidateFields
<1>13. CandidatesSound'
  <2>1. \A d \in candidates' : d.generation <= chosen'.generation
    BY <1>1, <1>2
  <2> QED BY <1>0, <1>1, <1>6, <1>7, <1>8, <1>9, <1>10, <1>11, <1>12, <2>1 DEF CandidatesSound
<1>14. /\ tried' \in Seq(CandidateValues) /\ Len(tried') = Len(tried) + 1 /\ tried'[Len(tried) + 1] = c
       /\ \A i \in 1 .. Len(tried) : tried'[i] = tried[i]
       /\ tried' # <<>> /\ Len(tried) \in Nat /\ DOMAIN tried = 1 .. Len(tried)
  BY <1>0, <1>1, <1>2, AppendProperties, LenProperties DEF SelectionTypeOK
<1>15. DOMAIN tried' = 1 .. Len(tried) + 1
  BY <1>14, LenProperties
<1>16. TriedSound'
  <2>1. ASSUME NEW i \in DOMAIN tried', NEW j \in DOMAIN tried', i < j
        PROVE  tried'[i].generation > tried'[j].generation
    <3>1. i \in 1 .. Len(tried) /\ tried'[i] = tried[i]
      BY <1>14, <1>15, <2>1
    <3>2. CASE j = Len(tried) + 1
      <4>1. c.generation < tried[i].generation
        BY <1>0, <1>2, <1>14, <3>1 DEF TriedSound
      <4>2. c.generation \in Nat /\ tried[i].generation \in Nat
        BY <1>0, <1>2, <3>1, CandidateFields, ElementOfSeq DEF SelectionTypeOK
      <4> QED BY <1>14, <3>1, <3>2, <4>1, <4>2
    <3>3. CASE j # Len(tried) + 1
      <4>1. j \in 1 .. Len(tried) /\ tried'[j] = tried[j]
        BY <1>14, <1>15, <3>3
      <4> QED BY <1>0, <1>14, <2>1, <3>1, <4>1 DEF TriedSound
    <3> QED BY <3>2, <3>3
  <2>2. tried'[Len(tried')] = chosen'
    BY <1>1, <1>14
  <2> QED BY <1>12, <1>14, <2>1, <2>2 DEF TriedSound
<1> QED BY <1>1, <1>2, <1>13, <1>14, <1>16

-----------------------------------------------------------------------------
(* The actions.                                                            *)

\* The cache stays sound when it is left alone.
LEMMA CacheKept ==
  ASSUME SelectionTypeOK, CacheSound, Grown, cache' = cache, reads' = reads
  PROVE  CacheSound'
<1>1. \A o \in Objects : <<"object", o>> \in Readable
  BY DEF Readable
<1> QED BY <1>1 DEF CacheSound, Grown

\* A read that yields no other failure than corruption, and one that does.
LEMMA FatalKept ==
  ASSUME SelectionTypeOK, FatalSound, result = "none", NEW x \in Readable, NEW v \in Verdicts, Yields(x, v),
         IF v = "fatal" THEN result' = "failed" ELSE result' # "failed"
  PROVE  FatalSound'
<1>1. contents'[x] = v /\ \A y \in Readable : y # x => contents'[y] = contents[y]
  BY ReadingGrows
<1>2. CASE v = "fatal"
  BY <1>1, <1>2 DEF FatalSound
<1>3. CASE v # "fatal"
  <2>1. \A y \in Readable : contents'[y] # "fatal"
    BY <1>1, <1>3 DEF FatalSound
  <2> QED BY <1>3, <2>1 DEF FatalSound
<1> QED BY <1>2, <1>3

\* Before the first object of the chosen root, and whenever none is chosen,
\* there is nothing to have been validated.
LEMMA NothingValidated ==
  ASSUME pc' \in {"scan", "choose", "done"}, result' # "opened"
  PROVE  ValidationSound'
BY DEF ValidationSound

\* The next slot, or the end of the scan.
LEMMA NextSlotControl ==
  ASSUME SelectionIInv, pc = "scan", NextSlot, chosen' = chosen, tried' = tried,
         at' = at
  PROVE  /\ ControlSound' /\ pc' \in pcs /\ idx' \in 0 .. SlotCount /\ result' = "none"
         /\ pc' \in {"scan", "choose"}
<1>1. /\ idx \in 0 .. SlotCount /\ idx < SlotCount /\ result = "none" /\ chosen = NoCandidate
      /\ tried = <<>> /\ at >= 1 /\ SlotCount \in Nat
  BY RootSelectionAssumption DEF SelectionIInv, SelectionTypeOK, ControlSound
<1>2. /\ idx' = idx + 1 /\ result' = "none"
      /\ pc' = IF idx + 1 = SlotCount THEN "choose" ELSE "scan"
  BY <1>1 DEF NextSlot
<1>3. idx' \in 0 .. SlotCount /\ (pc' = "scan" => idx' < SlotCount) /\ (pc' # "scan" => idx' = SlotCount)
  BY <1>1, <1>2
<1>4. pc' \in {"scan", "choose"}
  BY <1>2
<1> QED BY <1>1, <1>2, <1>3, <1>4 DEF ControlSound, Validating, pcs

\* A slot is passed over, or ends the open.
LEMMA SkipSlotStep ==
  ASSUME SelectionIInv, SkipSlot
  PROVE  SelectionIInv'
<1>0. SelectionTypeOK /\ ControlSound /\ CacheSound /\ FatalSound /\ pc = "scan" /\ result = "none"
      /\ chosen = NoCandidate /\ idx < SlotCount
  BY DEF SelectionIInv, ControlSound, SkipSlot
<1>1. /\ UNCHANGED <<slotTable, limit, contents, candidates, chosen, at, tried, cache, charged, reads>>
  BY DEF SkipSlot, File, Choice, Cache
<1>2. PICK n \in TableSlot : n = idx
  BY RootSelectionAssumption, <1>0 DEF SelectionTypeOK, TableSlot
<1>3. Grown
  BY <1>1 DEF Grown
<1>4. CacheSound'
  BY <1>0, <1>1, <1>3, CacheKept
<1>5. CASE slotTable[n].verdict = "fatal" /\ Finish("failed") /\ UNCHANGED idx
  <2>1. pc' = "done" /\ result' = "failed" /\ idx' = idx
    BY <1>5 DEF Finish
  <2>2. SelectionTypeOK'
    BY <1>0, <1>1, <2>1 DEF SelectionTypeOK, pcs, Results
  <2>3. ControlSound'
    BY <1>0, <1>1, <2>1 DEF ControlSound, Validating
  <2>4. Scanned' /\ CandidatesSound' /\ TriedSound'
    <3>1. slotTable' = slotTable /\ chosen' = chosen /\ tried' = tried /\ candidates' = candidates
      BY <1>1
    <3> QED BY <1>0, <1>2, <1>3, <2>1, <3>1, ScanStep
  <2>5. ValidationSound'
    BY <2>1, NothingValidated
  <2>6. FatalSound'
    BY <1>0, <1>1, <1>2, <1>5, <2>1 DEF FatalSound
  <2> QED BY <1>4, <2>2, <2>3, <2>4, <2>5, <2>6 DEF SelectionIInv
<1>6. CASE /\ Discardable(slotTable[n].verdict) \/ (slotTable[n].verdict = "ok" /\ slotTable[n].ref = NoRef)
           /\ NextSlot
  <2>1. /\ ControlSound' /\ pc' \in pcs /\ idx' \in 0 .. SlotCount /\ result' = "none"
        /\ pc' \in {"scan", "choose"} /\ idx' = idx + 1
    BY <1>0, <1>1, <1>6, NextSlotControl DEF NextSlot
  <2>2. SelectionTypeOK'
    BY <1>0, <1>1, <2>1 DEF SelectionTypeOK, Results
  <2>3. Scanned' /\ CandidatesSound' /\ TriedSound'
    <3>1. slotTable[n].verdict # "fatal" /\ ~(slotTable[n].verdict = "ok" /\ slotTable[n].ref # NoRef)
      BY <1>6 DEF Discardable
    <3>2. ~Accepted(n)'
      BY <1>1, <3>1 DEF Accepted
    <3>3. slotTable' = slotTable /\ chosen' = chosen /\ tried' = tried /\ candidates' = candidates
      BY <1>1
    <3> QED BY <1>0, <1>2, <1>3, <2>1, <3>1, <3>2, <3>3, ScanStep
  <2>4. ValidationSound'
    BY <2>1, NothingValidated
  <2>5. FatalSound'
    BY <1>0, <1>1, <2>1 DEF FatalSound
  <2> QED BY <1>4, <2>1, <2>2, <2>3, <2>4, <2>5 DEF SelectionIInv
<1> QED BY <1>2, <1>5, <1>6 DEF SkipSlot

\* A root is read: it ends the open, is passed over, or becomes a candidate.
LEMMA ReadRootStep ==
  ASSUME SelectionIInv, ReadRoot
  PROVE  SelectionIInv'
<1>0. SelectionTypeOK /\ ControlSound /\ CacheSound /\ FatalSound /\ pc = "scan" /\ result = "none"
      /\ chosen = NoCandidate /\ idx < SlotCount
  BY DEF SelectionIInv, ControlSound, ReadRoot
<1>1. /\ UNCHANGED <<slotTable, limit, chosen, at, tried, cache, charged, reads>>
  BY DEF ReadRoot, File, Cache
<1>2. PICK n \in TableSlot : n = idx
  BY RootSelectionAssumption, <1>0 DEF SelectionTypeOK, TableSlot
<1>3. /\ slotTable[n].verdict = "ok" /\ slotTable[n].ref # NoRef /\ slotTable[n].ref \in RootRefs
      /\ slotTable[n].generation \in Generations /\ <<"root", slotTable[n].ref>> \in Readable
  BY <1>0, <1>2, SlotFields DEF ReadRoot, Readable
<1>4. PICK v \in Verdicts :
        /\ Yields(<<"root", slotTable[n].ref>>, v)
        /\ \/ v = "fatal" /\ Finish("failed") /\ UNCHANGED <<idx, candidates>>
           \/ /\ Discardable(v) \/ (v = "ok" /\ ~SlotMatchesRoot(slotTable[n]))
              /\ NextSlot /\ UNCHANGED candidates
           \/ /\ v = "ok" /\ SlotMatchesRoot(slotTable[n])
              /\ candidates' = candidates \cup
                   {[slot |-> idx, generation |-> slotTable[n].generation, ref |-> slotTable[n].ref]}
              /\ NextSlot
  BY <1>2 DEF ReadRoot
<1>5. /\ contents' \in [Readable -> Verdicts \cup {"unread"}] /\ Grown
      /\ contents'[<<"root", slotTable[n].ref>>] = v
  BY <1>0, <1>3, <1>4, ReadingGrows
<1>6. CacheSound'
  BY <1>0, <1>1, <1>5, CacheKept
<1>7. CASE v = "fatal"
  <2>1. pc' = "done" /\ result' = "failed" /\ idx' = idx /\ candidates' = candidates
    BY <1>4, <1>7 DEF Finish, Discardable
  <2>2. SelectionTypeOK'
    BY <1>0, <1>1, <1>5, <2>1 DEF SelectionTypeOK, pcs, Results
  <2>3. ControlSound'
    BY <1>0, <1>1, <2>1 DEF ControlSound, Validating
  <2>4. Scanned' /\ CandidatesSound' /\ TriedSound'
    BY <1>0, <1>1, <1>2, <1>5, <2>1, ScanStep
  <2>5. ValidationSound'
    BY <2>1, NothingValidated
  <2>6. FatalSound'
    BY <1>0, <1>3, <1>4, <1>7, <2>1, FatalKept
  <2> QED BY <1>6, <2>2, <2>3, <2>4, <2>5, <2>6 DEF SelectionIInv
<1>8. CASE v # "fatal"
  <2>0. NextSlot
    BY <1>4, <1>8
  <2>1. /\ ControlSound' /\ pc' \in pcs /\ idx' \in 0 .. SlotCount /\ result' = "none"
        /\ pc' \in {"scan", "choose"} /\ idx' = n + 1
    BY <1>0, <1>1, <1>2, <2>0, NextSlotControl DEF NextSlot
  <2>2. Accepted(n)' <=> v = "ok" /\ SlotMatchesRoot(slotTable[n])
    <3>1. slotTable' = slotTable
      BY <1>1
    <3> QED BY <1>3, <1>5, <3>1 DEF Accepted, SlotMatchesRoot
  <2>3. candidates' = IF Accepted(n)' THEN candidates \cup {CandidateAt(n)} ELSE candidates
    <3>1. CandidateAt(n) = [slot |-> idx, generation |-> slotTable[n].generation, ref |-> slotTable[n].ref]
      BY <1>2 DEF CandidateAt
    <3> HIDE DEF Accepted, SlotMatchesRoot
    <3>2. CASE v = "ok" /\ SlotMatchesRoot(slotTable[n])
      BY <1>4, <2>2, <3>1, <3>2 DEF Discardable
    <3>3. CASE ~(v = "ok" /\ SlotMatchesRoot(slotTable[n]))
      BY <1>4, <1>8, <2>2, <3>3
    <3> QED BY <3>2, <3>3
  <2>4. candidates' \subseteq CandidateValues
    <3>1. CandidateAt(n) \in CandidateValues
      BY <1>3 DEF CandidateAt, CandidateValues
    <3> QED BY <1>0, <2>3, <3>1 DEF SelectionTypeOK
  <2>5. SelectionTypeOK'
    BY <1>0, <1>1, <1>5, <2>1, <2>4 DEF SelectionTypeOK, Results
  <2>6. Scanned' /\ CandidatesSound' /\ TriedSound'
    <3>1. contents'[<<"root", slotTable[n].ref>>] \in {"ok", "corrupt"} /\ slotTable[n].verdict # "fatal"
      BY <1>3, <1>5, <1>8 DEF Verdicts
    <3>2. slotTable' = slotTable /\ chosen' = chosen /\ tried' = tried
      BY <1>1
    <3> QED BY <1>0, <1>2, <1>5, <2>1, <2>3, <3>1, <3>2, ScanStep
  <2>7. ValidationSound'
    BY <2>1, NothingValidated
  <2>8. FatalSound'
    <3>1. result' # "failed"
      BY <2>1
    <3> QED BY <1>0, <1>3, <1>4, <1>8, <3>1, FatalKept
  <2> QED BY <1>6, <2>1, <2>5, <2>6, <2>7, <2>8 DEF SelectionIInv
<1> QED BY <1>7, <1>8

\* What is there while a root is being validated.
LEMMA ChosenFields ==
  ASSUME SelectionIInv, pc \in Validating
  PROVE  /\ chosen # NoCandidate /\ chosen \in CandidateValues /\ chosen.ref \in RootRefs
         /\ idx = SlotCount /\ result = "none" /\ at \in Nat \ {0}
         /\ Inventoried \in Seq(Uses) /\ DOMAIN Inventoried = 1 .. Len(Inventoried)
         /\ Len(Inventoried) \in Nat /\ \A k \in DOMAIN Inventoried : Inventoried[k] \in Uses
         /\ at <= Len(Inventoried) => Use \in Uses /\ Use.ref \in Objects /\ at \in DOMAIN Inventoried
<1>1. /\ chosen # NoCandidate /\ chosen \in CandidateValues /\ idx = SlotCount /\ result = "none"
      /\ at \in Nat \ {0}
  BY DEF SelectionIInv, SelectionTypeOK, ControlSound, Validating
<1>2. chosen.ref \in RootRefs /\ Inventoried \in Seq(Uses)
  BY <1>1, CandidateFields DEF Inventoried
<1>3. /\ DOMAIN Inventoried = 1 .. Len(Inventoried) /\ Len(Inventoried) \in Nat
      /\ \A k \in DOMAIN Inventoried : Inventoried[k] \in Uses
  BY <1>2, ElementOfSeq, LenProperties
<1>4. at <= Len(Inventoried) => at \in DOMAIN Inventoried
  BY <1>1, <1>3
<1>5. at <= Len(Inventoried) => Use \in Uses /\ Use.ref \in Objects
  BY <1>3, <1>4 DEF Use, Uses
<1> QED BY <1>1, <1>2, <1>3, <1>4, <1>5

\* A discarded candidate leaves the open where the next one is chosen.
LEMMA DiscardControl ==
  ASSUME SelectionTypeOK, ControlSound, Discard, idx = SlotCount, result = "none",
         UNCHANGED <<slotTable, limit, idx, at, tried, cache, charged, reads>>,
         contents' \in [Readable -> Verdicts \cup {"unread"}]
  PROVE  SelectionTypeOK' /\ ControlSound'
<1>1. /\ pc' = "choose" /\ chosen' = NoCandidate /\ result' = "none"
      /\ candidates' \subseteq candidates
  BY DEF Discard, DropGeneration
<1> QED BY <1>1 DEF SelectionTypeOK, ControlSound, Validating, pcs, Results

\* No candidate is left.
LEMMA NoValidRootStep ==
  ASSUME SelectionIInv, NoValidRoot
  PROVE  SelectionIInv'
<1>0. /\ SelectionTypeOK /\ ControlSound /\ CacheSound /\ FatalSound /\ pc = "choose" /\ candidates = {}
      /\ pc' = "done" /\ result' = "corrupt"
      /\ UNCHANGED <<slotTable, limit, contents, idx, candidates, chosen, at, tried, cache, charged, reads>>
  BY DEF SelectionIInv, NoValidRoot, Finish, File, Choice, Cache
<1>1. SelectionTypeOK' /\ ControlSound'
  BY <1>0 DEF SelectionTypeOK, ControlSound, Validating, pcs, Results
<1>2. Grown /\ RootsSettled
  BY <1>0 DEF Grown, RootsSettled
<1>3. Scanned' /\ CandidatesSound' /\ TriedSound'
  BY <1>0, <1>2, QuietStep
<1>4. CacheSound'
  BY <1>0, <1>2, CacheKept
<1>5. ValidationSound'
  BY <1>0, NothingValidated
<1>6. FatalSound'
  BY <1>0 DEF FatalSound, ControlSound
<1> QED BY <1>1, <1>3, <1>4, <1>5, <1>6 DEF SelectionIInv

\* A disputed generation is dropped.
LEMMA DropConflictStep ==
  ASSUME SelectionIInv, DropConflict
  PROVE  SelectionIInv'
<1>0. /\ SelectionTypeOK /\ ControlSound /\ Scanned /\ CacheSound /\ FatalSound /\ pc = "choose"
      /\ UNCHANGED <<slotTable, limit, contents, pc, idx, chosen, at, tried, cache, charged, reads, result>>
      /\ candidates' \subseteq candidates
  BY DEF SelectionIInv, DropConflict, DropGeneration, File, Cache
<1>1. SelectionTypeOK' /\ ControlSound'
  BY <1>0 DEF SelectionTypeOK, ControlSound, Validating
<1>2. Scanned'
  BY <1>0 DEF Scanned
<1>3. CandidatesSound' /\ TriedSound'
  BY DropConflictKeeps
<1>4. CacheSound' /\ FatalSound'
  BY <1>0 DEF CacheSound, FatalSound
<1>5. ValidationSound'
  BY <1>0, NothingValidated DEF ControlSound
<1> QED BY <1>1, <1>2, <1>3, <1>4, <1>5 DEF SelectionIInv

\* The root to validate is chosen.
LEMMA ChooseStep ==
  ASSUME SelectionIInv, Choose
  PROVE  SelectionIInv'
<1>0. /\ SelectionTypeOK /\ ControlSound /\ Scanned /\ CacheSound /\ FatalSound /\ pc = "choose"
      /\ UNCHANGED <<slotTable, limit, contents, idx, cache, charged, reads, result>>
      /\ pc' = "metadata" /\ at' = 1
  BY DEF SelectionIInv, Choose, File, Cache
<1>1. /\ CandidatesSound' /\ TriedSound' /\ chosen' \in CandidateValues /\ chosen' # NoCandidate
      /\ candidates' \subseteq candidates /\ tried' \in Seq(CandidateValues)
  BY ChooseKeeps, CandidateFields
<1>2. SelectionTypeOK' /\ ControlSound'
  BY <1>0, <1>1 DEF SelectionTypeOK, ControlSound, Validating, pcs
<1>3. Scanned'
  BY <1>0 DEF Scanned
<1>4. CacheSound' /\ FatalSound'
  BY <1>0 DEF CacheSound, FatalSound
<1>5. ValidationSound'
  BY <1>0 DEF ValidationSound, ControlSound
<1> QED BY <1>1, <1>2, <1>3, <1>4, <1>5 DEF SelectionIInv

\* The metadata of the chosen root is read.
LEMMA ReadMetadataStep ==
  ASSUME SelectionIInv, ReadMetadata
  PROVE  SelectionIInv'
<1>0. /\ SelectionTypeOK /\ ControlSound /\ CacheSound /\ FatalSound /\ ValidationSound /\ pc = "metadata"
      /\ UNCHANGED <<slotTable, limit, idx, at, tried, cache, charged, reads>>
  BY DEF SelectionIInv, ReadMetadata, File, Cache
<1>1. /\ chosen # NoCandidate /\ chosen \in CandidateValues /\ chosen.ref \in RootRefs
      /\ idx = SlotCount /\ result = "none" /\ at = 1
  BY <1>0, ChosenFields DEF Validating, ValidationSound
<1>2. PICK r \in RootRefs : r = chosen.ref
  BY <1>1
<1>3. PICK v \in Verdicts :
        /\ Yields(<<"metadata", r>>, v)
        /\ \/ /\ v = "ok" /\ pc' = "structure"
              /\ UNCHANGED <<candidates, chosen, result>>
           \/ v = "fatal" /\ Finish("failed") /\ UNCHANGED <<candidates, chosen>>
           \/ Discardable(v) /\ Discard
  BY <1>2 DEF ReadMetadata
<1>4. <<"metadata", r>> \in Readable
  BY DEF Readable
<1>5. /\ contents' \in [Readable -> Verdicts \cup {"unread"}] /\ Grown
      /\ contents'[<<"metadata", r>>] = v
      /\ \A y \in Readable : y # <<"metadata", r>> => contents'[y] = contents[y]
  BY <1>0, <1>3, <1>4, ReadingGrows
<1>6. RootsSettled
  BY <1>5 DEF RootsSettled, Readable
<1>7. CacheSound'
  BY <1>0, <1>5, CacheKept
<1>8. CASE v = "ok"
  <2>1. pc' = "structure" /\ UNCHANGED <<candidates, chosen, result>>
    BY <1>3, <1>8 DEF Discardable
  <2>2. SelectionTypeOK' /\ ControlSound'
    BY <1>0, <1>1, <1>5, <2>1 DEF SelectionTypeOK, ControlSound, Validating, pcs
  <2>3. Scanned' /\ CandidatesSound' /\ TriedSound'
    BY <1>0, <1>5, <1>6, <2>1, QuietStep
  <2>4. ValidationSound'
    BY <1>0, <1>1, <1>2, <1>5, <1>8, <2>1 DEF ValidationSound
  <2>5. FatalSound'
    BY <1>0, <1>1, <1>3, <1>4, <1>8, <2>1, FatalKept
  <2> QED BY <1>7, <2>2, <2>3, <2>4, <2>5 DEF SelectionIInv
<1>9. CASE v = "fatal"
  <2>1. pc' = "done" /\ result' = "failed" /\ UNCHANGED <<candidates, chosen>>
    BY <1>3, <1>9 DEF Discardable, Finish
  <2>2. SelectionTypeOK' /\ ControlSound'
    BY <1>0, <1>1, <1>5, <2>1 DEF SelectionTypeOK, ControlSound, Validating, pcs, Results
  <2>3. Scanned' /\ CandidatesSound' /\ TriedSound'
    BY <1>0, <1>5, <1>6, <2>1, QuietStep
  <2>4. ValidationSound'
    BY <2>1, NothingValidated
  <2>5. FatalSound'
    BY <1>0, <1>1, <1>3, <1>4, <1>9, <2>1, FatalKept
  <2> QED BY <1>7, <2>2, <2>3, <2>4, <2>5 DEF SelectionIInv
<1>10. CASE v = "corrupt"
  <2>1. Discard /\ result' = "none"
    BY <1>1, <1>3, <1>10 DEF Discard
  <2>2. SelectionTypeOK' /\ ControlSound'
    BY <1>0, <1>1, <1>5, <2>1, DiscardControl
  <2>3. Broken(r)'
    BY <1>5, <1>10 DEF Broken
  <2>4. Scanned' /\ CandidatesSound' /\ TriedSound'
    BY <1>0, <1>1, <1>2, <1>5, <1>6, <2>1, <2>3, DiscardStep
  <2>5. ValidationSound'
    BY <2>1, NothingValidated DEF Discard
  <2>6. FatalSound'
    BY <1>0, <1>1, <1>3, <1>4, <1>10, <2>1, FatalKept
  <2> QED BY <1>7, <2>2, <2>4, <2>5, <2>6 DEF SelectionIInv
<1> QED BY <1>8, <1>9, <1>10 DEF Verdicts

\* The references of the chosen root are checked.
LEMMA CheckStructureStep ==
  ASSUME SelectionIInv, CheckStructure
  PROVE  SelectionIInv'
<1>0. /\ SelectionTypeOK /\ ControlSound /\ CacheSound /\ FatalSound /\ ValidationSound /\ pc = "structure"
      /\ UNCHANGED <<slotTable, limit, contents, idx, at, tried, cache, charged, reads>>
  BY DEF SelectionIInv, CheckStructure, File, Cache
<1>1. /\ chosen # NoCandidate /\ chosen \in CandidateValues /\ chosen.ref \in RootRefs
      /\ idx = SlotCount /\ result = "none" /\ at = 1
      /\ contents[<<"metadata", chosen.ref>>] = "ok" /\ DOMAIN Inventoried = 1 .. Len(Inventoried)
      /\ Len(Inventoried) \in Nat
  BY <1>0, ChosenFields DEF Validating, ValidationSound
<1>2. Grown /\ RootsSettled
  BY <1>0 DEF Grown, RootsSettled
<1>3. CacheSound'
  BY <1>0, <1>2, CacheKept
<1>4. PICK r \in RootRefs : r = chosen.ref
  BY <1>1
<1>5. Sound(r) <=> ~\E u \in Range(Inventoried) : Auxiliary(u) /\ ~WellFormed(u)
  BY <1>4 DEF Sound, AuxiliaryUses, Auxiliary, WellFormed, Inventoried
<1>6. CASE Sound(r)
  <2>1. pc' = "charge" /\ UNCHANGED <<candidates, chosen, result>>
    BY <1>5, <1>6 DEF CheckStructure
  <2>2. SelectionTypeOK' /\ ControlSound'
    BY <1>0, <1>1, <2>1 DEF SelectionTypeOK, ControlSound, Validating, pcs
  <2>3. Scanned' /\ CandidatesSound' /\ TriedSound'
    BY <1>0, <1>2, <2>1, QuietStep
  <2>4. ValidationSound'
    <3>1. Sound(chosen.ref)'
      BY <1>4, <1>6, <2>1 DEF Sound, AuxiliaryUses
    <3>2. \A k \in DOMAIN Inventoried : ~(k < at)
      BY <1>1
    <3>3. Inventoried' = Inventoried
      BY <2>1 DEF Inventoried
    <3> QED BY <1>0, <1>1, <2>1, <3>1, <3>2, <3>3 DEF ValidationSound
  <2>5. FatalSound'
    BY <1>0, <2>1 DEF FatalSound
  <2> QED BY <1>3, <2>2, <2>3, <2>4, <2>5 DEF SelectionIInv
<1>7. CASE ~Sound(r)
  <2>1. Discard /\ result' = "none"
    BY <1>1, <1>5, <1>7 DEF CheckStructure, Discard
  <2>2. SelectionTypeOK' /\ ControlSound'
    <3>1. contents' \in [Readable -> Verdicts \cup {"unread"}]
      BY <1>0 DEF SelectionTypeOK
    <3> QED BY <1>0, <1>1, <2>1, <3>1, DiscardControl
  <2>3. Broken(r)'
    BY <1>7 DEF Broken, Sound, AuxiliaryUses
  <2>4. Scanned' /\ CandidatesSound' /\ TriedSound'
    BY <1>0, <1>1, <1>2, <1>4, <2>1, <2>3, DiscardStep
  <2>5. ValidationSound'
    BY <2>1, NothingValidated DEF Discard
  <2>6. FatalSound'
    BY <1>0, <1>1, <2>1 DEF FatalSound
  <2> QED BY <1>3, <2>2, <2>4, <2>5, <2>6 DEF SelectionIInv
<1> QED BY <1>6, <1>7

\* An auxiliary object is charged, once, or the open ends at its limit.
LEMMA ChargeUniqueStep ==
  ASSUME SelectionIInv, ChargeUnique
  PROVE  SelectionIInv'
<1>0. /\ SelectionTypeOK /\ ControlSound /\ CacheSound /\ FatalSound /\ ValidationSound
      /\ pc = "charge" /\ at <= Len(Inventoried)
      /\ UNCHANGED <<slotTable, limit, contents, idx, candidates, chosen, tried, reads>>
  BY DEF SelectionIInv, ChargeUnique, Visiting, File
<1>1. /\ chosen # NoCandidate /\ idx = SlotCount /\ result = "none" /\ at \in Nat \ {0}
      /\ Use.ref \in Objects /\ DOMAIN Inventoried = 1 .. Len(Inventoried)
      /\ Len(Inventoried) \in Nat
  BY <1>0, ChosenFields DEF Validating
<1>2. Grown /\ RootsSettled
  BY <1>0 DEF Grown, RootsSettled
<1>3. Inventoried' = Inventoried
  BY <1>0 DEF Inventoried
<1>4. Sound(chosen.ref)' /\ contents'[<<"metadata", chosen'.ref>>] = "ok"
  BY <1>0 DEF ValidationSound, Sound, AuxiliaryUses
<1>5. CASE Finish("overLimit") /\ UNCHANGED <<at, cache, charged>>
  <2>1. pc' = "done" /\ result' = "overLimit"
    BY <1>5 DEF Finish
  <2>2. SelectionTypeOK' /\ ControlSound'
    BY <1>0, <1>1, <1>5, <2>1 DEF SelectionTypeOK, ControlSound, Validating, pcs, Results
  <2>3. Scanned' /\ CandidatesSound' /\ TriedSound'
    BY <1>0, <1>2, <2>1, QuietStep
  <2>4. CacheSound' /\ FatalSound'
    BY <1>0, <1>1, <1>5, <2>1 DEF CacheSound, FatalSound
  <2>5. ValidationSound'
    BY <2>1, NothingValidated
  <2> QED BY <2>2, <2>3, <2>4, <2>5 DEF SelectionIInv
<1>6. ASSUME at' = at + 1, UNCHANGED <<pc, result>>, charged' \in 0 .. limit,
             cache' \in [Objects -> {"absent", "pending", "validated"}],
             \A o \in Objects : cache'[o] = cache[o] \/ (cache[o] = "absent" /\ cache'[o] = "pending"),
             Auxiliary(Use) => cache'[Use.ref] # "absent"
      PROVE  SelectionIInv'
  <2>1. SelectionTypeOK' /\ ControlSound'
    BY <1>0, <1>1, <1>6 DEF SelectionTypeOK, ControlSound, Validating
  <2>2. Scanned' /\ CandidatesSound' /\ TriedSound'
    BY <1>0, <1>2, <1>6, QuietStep
  <2>3. CacheSound'
    BY <1>0, <1>6 DEF CacheSound
  <2>4. FatalSound'
    BY <1>0, <1>6 DEF FatalSound
  <2>5. \A k \in DOMAIN Inventoried :
          k < at' /\ Auxiliary(Inventoried[k]) => cache'[Inventoried[k].ref] # "absent"
    <3> SUFFICES ASSUME NEW k \in DOMAIN Inventoried, k < at', Auxiliary(Inventoried[k])
                 PROVE  cache'[Inventoried[k].ref] # "absent"
      OBVIOUS
    <3>1. Inventoried[k].ref \in Objects
      BY <1>0, ChosenFields DEF Validating, Uses
    <3>2. CASE k < at
      <4>1. cache[Inventoried[k].ref] # "absent"
        BY <1>0, <3>2 DEF ValidationSound
      <4> QED BY <1>6, <3>1, <4>1
    <3>3. CASE k = at
      BY <1>6, <3>3 DEF Use
    <3>4. k \in Nat /\ at \in Nat /\ k < at + 1
      BY <1>1, <1>6
    <3>5. k < at \/ k = at
      BY <3>4
    <3> QED BY <3>2, <3>3, <3>5
  <2>6. ValidationSound'
    BY <1>0, <1>1, <1>3, <1>4, <1>6, <2>5 DEF ValidationSound, Auxiliary
  <2> QED BY <2>1, <2>2, <2>3, <2>4, <2>6 DEF SelectionIInv
<1>7. CASE /\ ~Auxiliary(Use) \/ ~Uncharged(Use.ref)
           /\ at' = at + 1
           /\ UNCHANGED <<pc, result, cache, charged>>
  <2>1. /\ charged' \in 0 .. limit /\ cache' \in [Objects -> {"absent", "pending", "validated"}]
        /\ \A o \in Objects : cache'[o] = cache[o]
    BY <1>0, <1>7 DEF SelectionTypeOK
  <2>2. Auxiliary(Use) => cache'[Use.ref] # "absent"
    BY <1>7 DEF Uncharged
  <2> QED BY <1>6, <1>7, <2>1, <2>2
<1>8. CASE /\ Auxiliary(Use) /\ Uncharged(Use.ref)
           /\ Fits(Length[Use.ref])
           /\ charged' = charged + Length[Use.ref]
           /\ cache' = [cache EXCEPT ![Use.ref] = "pending"]
           /\ at' = at + 1
           /\ UNCHANGED <<pc, result>>
  <2>1. charged' \in 0 .. limit
    <3>1. charged \in Nat /\ limit \in Nat /\ Length[Use.ref] \in Nat
      BY RootSelectionAssumption, <1>0, <1>1 DEF SelectionTypeOK
    <3> QED BY <1>8, <3>1 DEF Fits
  <2>2. /\ cache' \in [Objects -> {"absent", "pending", "validated"}] /\ cache'[Use.ref] = "pending"
        /\ \A o \in Objects : cache'[o] = cache[o] \/ (cache[o] = "absent" /\ cache'[o] = "pending")
    BY <1>0, <1>1, <1>8 DEF SelectionTypeOK, Uncharged
  <2> QED BY <1>6, <1>8, <2>1, <2>2
<1> QED BY <1>5, <1>7, <1>8 DEF ChargeUnique

\* All references are charged: the validation starts over at the first one.
LEMMA PreflightedStep ==
  ASSUME SelectionIInv, Preflighted
  PROVE  SelectionIInv'
<1>0. /\ SelectionTypeOK /\ ControlSound /\ CacheSound /\ FatalSound /\ ValidationSound
      /\ pc = "charge" /\ at > Len(Inventoried) /\ at' = 1 /\ pc' = "validate"
      /\ UNCHANGED <<slotTable, limit, contents, idx, candidates, chosen, tried, cache, charged, reads, result>>
  BY DEF SelectionIInv, Preflighted, Visited, File, Cache
<1>1. /\ chosen # NoCandidate /\ idx = SlotCount /\ result = "none" /\ at \in Nat
      /\ DOMAIN Inventoried = 1 .. Len(Inventoried) /\ Len(Inventoried) \in Nat
  BY <1>0, ChosenFields DEF Validating
<1>2. Grown /\ RootsSettled
  BY <1>0 DEF Grown, RootsSettled
<1>3. SelectionTypeOK' /\ ControlSound'
  BY <1>0, <1>1 DEF SelectionTypeOK, ControlSound, Validating, pcs
<1>4. Scanned' /\ CandidatesSound' /\ TriedSound'
  BY <1>0, <1>2, QuietStep
<1>5. CacheSound' /\ FatalSound'
  BY <1>0 DEF CacheSound, FatalSound
<1>6. Inventoried' = Inventoried
  BY <1>0 DEF Inventoried
<1>7. Sound(chosen.ref)' /\ contents'[<<"metadata", chosen'.ref>>] = "ok"
  BY <1>0 DEF ValidationSound, Sound, AuxiliaryUses
<1>8. \A k \in DOMAIN Inventoried : k < at /\ ~(k < 1)
  BY <1>0, <1>1
<1>9. ValidationSound'
  BY <1>0, <1>1, <1>6, <1>7, <1>8 DEF ValidationSound, Auxiliary
<1> QED BY <1>3, <1>4, <1>5, <1>9 DEF SelectionIInv

\* The object in use is good: the validation goes on to the next one.
LEMMA UseAccepted ==
  ASSUME SelectionIInv, pc = "validate", at <= Len(Inventoried),
         slotTable' = slotTable, limit' = limit, idx' = idx, candidates' = candidates,
         chosen' = chosen, tried' = tried, charged' = charged, pc' = pc, result' = result,
         at' = at + 1, contents' \in [Readable -> Verdicts \cup {"unread"}], Grown, RootsSettled,
         contents'[<<"object", Use.ref>>] = "ok",
         \A y \in Readable : contents'[y] = contents[y] \/ contents'[y] = "ok",
         cache' \in [Objects -> {"absent", "pending", "validated"}], reads' \in [Objects -> Nat],
         \A o \in Objects : /\ cache[o] # "absent" => cache'[o] # "absent"
                            /\ cache'[o] = "validated" /\ cache[o] # "validated" => o = Use.ref
                            /\ reads'[o] = IF cache'[o] = "validated" THEN 1 ELSE 0
  PROVE  SelectionIInv'
<1>0. SelectionTypeOK /\ ControlSound /\ CacheSound /\ FatalSound /\ ValidationSound
  BY DEF SelectionIInv
<1>1. /\ chosen # NoCandidate /\ idx = SlotCount /\ result = "none" /\ at \in Nat \ {0}
      /\ DOMAIN Inventoried = 1 .. Len(Inventoried) /\ Len(Inventoried) \in Nat
      /\ Use.ref \in Objects /\ chosen.ref \in RootRefs
      /\ \A k \in DOMAIN Inventoried : Inventoried[k].ref \in Objects
  BY ChosenFields DEF Validating, Uses
<1>2. SelectionTypeOK' /\ ControlSound'
  BY <1>0, <1>1 DEF SelectionTypeOK, ControlSound, Validating
<1>3. Scanned' /\ CandidatesSound' /\ TriedSound'
  BY <1>0, QuietStep
<1>4. \A o \in Objects : <<"object", o>> \in Readable
  BY DEF Readable
<1>5. CacheSound'
  <2> SUFFICES ASSUME NEW o \in Objects, cache'[o] = "validated"
               PROVE  contents'[<<"object", o>>] = "ok"
    BY DEF CacheSound
  <2>1. CASE cache[o] = "validated"
    <3>1. contents[<<"object", o>>] = "ok"
      BY <1>0, <2>1 DEF CacheSound
    <3> QED BY <1>4, <3>1
  <2>2. CASE cache[o] # "validated"
    BY <2>2
  <2> QED BY <2>1, <2>2
<1>6. FatalSound'
  BY <1>0, <1>1 DEF FatalSound
<1>7. Inventoried' = Inventoried
  BY DEF Inventoried
<1>8. Sound(chosen.ref)' /\ contents'[<<"metadata", chosen'.ref>>] = "ok"
  <2>1. <<"metadata", chosen.ref>> \in Readable
    BY <1>1 DEF Readable
  <2>2. Sound(chosen.ref) /\ contents[<<"metadata", chosen.ref>>] = "ok"
    BY <1>0 DEF ValidationSound
  <2>3. contents'[<<"metadata", chosen.ref>>] = "ok"
    BY <2>1, <2>2
  <2> QED BY <2>2, <2>3 DEF Sound, AuxiliaryUses
<1>9. \A k \in DOMAIN Inventoried :
        /\ Auxiliary(Inventoried[k]) => cache'[Inventoried[k].ref] # "absent"
        /\ k < at + 1 => contents'[<<"object", Inventoried[k].ref>>] = "ok"
  <2> TAKE k \in DOMAIN Inventoried
  <2>1. Auxiliary(Inventoried[k]) => cache'[Inventoried[k].ref] # "absent"
    BY <1>0, <1>1 DEF ValidationSound
  <2>2. ASSUME k < at PROVE contents'[<<"object", Inventoried[k].ref>>] = "ok"
    <3>1. contents[<<"object", Inventoried[k].ref>>] = "ok"
      BY <1>0, <2>2 DEF ValidationSound
    <3> QED BY <1>1, <1>4, <3>1
  <2>3. ASSUME k = at PROVE contents'[<<"object", Inventoried[k].ref>>] = "ok"
    BY <2>3 DEF Use
  <2>4. k \in Nat /\ at \in Nat
    BY <1>1
  <2>5. k < at + 1 => k < at \/ k = at
    BY <2>4
  <2> QED BY <2>1, <2>2, <2>3, <2>5
<1>10. ValidationSound'
  BY <1>1, <1>7, <1>8, <1>9 DEF ValidationSound, Auxiliary
<1> QED BY <1>2, <1>3, <1>5, <1>6, <1>10 DEF SelectionIInv

\* An object validated before is passed.
LEMMA RevisitStep ==
  ASSUME SelectionIInv, Revisit
  PROVE  SelectionIInv'
<1>0. /\ SelectionTypeOK /\ CacheSound /\ pc = "validate" /\ at <= Len(Inventoried) /\ at' = at + 1
      /\ cache[Use.ref] = "validated"
      /\ UNCHANGED <<slotTable, limit, contents, pc, idx, candidates, chosen, tried, cache, charged,
                     reads, result>>
  BY DEF SelectionIInv, Revisit, Visiting, File, Cache
<1>1. Use.ref \in Objects
  BY <1>0, ChosenFields DEF Validating
<1>2. contents'[<<"object", Use.ref>>] = "ok"
  BY <1>0, <1>1 DEF CacheSound
<1>3. Grown /\ RootsSettled
  BY <1>0 DEF Grown, RootsSettled
<1>4. /\ contents' \in [Readable -> Verdicts \cup {"unread"}]
      /\ cache' \in [Objects -> {"absent", "pending", "validated"}] /\ reads' \in [Objects -> Nat]
      /\ \A o \in Objects : reads'[o] = IF cache'[o] = "validated" THEN 1 ELSE 0
  BY <1>0 DEF SelectionTypeOK, CacheSound
<1>5. /\ slotTable' = slotTable /\ limit' = limit /\ idx' = idx /\ candidates' = candidates
      /\ chosen' = chosen /\ tried' = tried /\ charged' = charged /\ pc' = pc /\ result' = result
      /\ contents' = contents /\ cache' = cache
  BY <1>0
<1> QED BY <1>0, <1>2, <1>3, <1>4, <1>5, UseAccepted

\* An object is read and validated.
LEMMA ValidateObjectStep ==
  ASSUME SelectionIInv, ValidateObject
  PROVE  SelectionIInv'
<1>0. /\ SelectionTypeOK /\ ControlSound /\ CacheSound /\ FatalSound /\ ValidationSound
      /\ pc = "validate" /\ at <= Len(Inventoried)
      /\ Auxiliary(Use) => cache[Use.ref] # "validated"
      /\ UNCHANGED <<slotTable, limit, idx, tried, charged>>
  BY DEF SelectionIInv, ValidateObject, Visiting, File
<1>1. /\ chosen # NoCandidate /\ chosen \in CandidateValues /\ chosen.ref \in RootRefs
      /\ idx = SlotCount /\ result = "none" /\ at \in DOMAIN Inventoried /\ Use.ref \in Objects
  BY <1>0, ChosenFields DEF Validating
<1>2. Auxiliary(Use) => ~Uncharged(Use.ref)
  BY <1>0, <1>1 DEF ValidationSound, Use, Uncharged
<1>3. PICK o \in Objects : o = Use.ref
  BY <1>1
<1>4. PICK v \in Verdicts :
        /\ ReadUse(v)
        /\ \/ v = "ok" /\ Accept
           \/ /\ v = "fatal" /\ Finish("failed")
              /\ UNCHANGED <<at, candidates, chosen, cache, reads>>
           \/ Discardable(v) /\ Discard /\ UNCHANGED <<at, cache, reads>>
  BY DEF ValidateObject
<1>5. Yields(<<"object", o>>, v)
  BY <1>2, <1>3, <1>4 DEF ReadUse
<1>6. <<"object", o>> \in Readable
  BY DEF Readable
<1>7. /\ contents' \in [Readable -> Verdicts \cup {"unread"}] /\ Grown
      /\ contents'[<<"object", o>>] = v
      /\ \A y \in Readable : y # <<"object", o>> => contents'[y] = contents[y]
  BY <1>0, <1>5, <1>6, ReadingGrows
<1>8. RootsSettled
  BY <1>7 DEF RootsSettled, Readable
<1>9. CASE v = "ok"
  <2>1. /\ at' = at + 1 /\ UNCHANGED <<pc, candidates, chosen, result>>
        /\ IF Auxiliary(Use)
           THEN /\ cache' = [cache EXCEPT ![o] = "validated"]
                /\ reads' = [reads EXCEPT ![o] = @ + 1]
           ELSE UNCHANGED <<cache, reads>>
    BY <1>3, <1>4, <1>9 DEF Accept, Discardable
  <2>2. /\ cache' \in [Objects -> {"absent", "pending", "validated"}] /\ reads' \in [Objects -> Nat]
        /\ \A z \in Objects : /\ cache[z] # "absent" => cache'[z] # "absent"
                              /\ cache'[z] = "validated" /\ cache[z] # "validated" => z = o
                              /\ reads'[z] = IF cache'[z] = "validated" THEN 1 ELSE 0
    <3>1. CASE Auxiliary(Use)
      <4>1. reads[o] = 0
        BY <1>0, <1>3, <3>1 DEF CacheSound
      <4>2. /\ cache' = [cache EXCEPT ![o] = "validated"] /\ reads' = [reads EXCEPT ![o] = 1]
        BY <2>1, <3>1, <4>1
      <4> QED BY <1>0, <4>2 DEF SelectionTypeOK, CacheSound
    <3>2. CASE ~Auxiliary(Use)
      <4>1. cache' = cache /\ reads' = reads
        BY <2>1, <3>2
      <4> QED BY <1>0, <4>1 DEF SelectionTypeOK, CacheSound
    <3> QED BY <3>1, <3>2
  <2>3. \A y \in Readable : contents'[y] = contents[y] \/ contents'[y] = "ok"
    BY <1>7, <1>9
  <2>4. contents'[<<"object", Use.ref>>] = "ok"
    BY <1>3, <1>7, <1>9
  <2>5. /\ slotTable' = slotTable /\ limit' = limit /\ idx' = idx /\ candidates' = candidates
        /\ chosen' = chosen /\ tried' = tried /\ charged' = charged /\ pc' = pc /\ result' = result
    BY <1>0, <2>1
  <2> QED BY <1>0, <1>3, <1>7, <1>8, <2>1, <2>2, <2>3, <2>4, <2>5, UseAccepted
<1>10. CASE v = "fatal"
  <2>1. /\ pc' = "done" /\ result' = "failed"
        /\ UNCHANGED <<at, candidates, chosen, cache, reads>>
    BY <1>4, <1>10 DEF Discardable, Finish
  <2>2. SelectionTypeOK' /\ ControlSound'
    BY <1>0, <1>1, <1>7, <2>1 DEF SelectionTypeOK, ControlSound, Validating, pcs, Results
  <2>3. Scanned' /\ CandidatesSound' /\ TriedSound'
    BY <1>0, <1>7, <1>8, <2>1, QuietStep
  <2>4. CacheSound'
    BY <1>0, <1>7, <2>1, CacheKept
  <2>5. ValidationSound'
    BY <2>1, NothingValidated
  <2>6. FatalSound'
    BY <1>0, <1>1, <1>5, <1>6, <1>10, <2>1, FatalKept
  <2> QED BY <2>2, <2>3, <2>4, <2>5, <2>6 DEF SelectionIInv
<1>11. CASE v = "corrupt"
  <2>1. Discard /\ result' = "none" /\ UNCHANGED <<at, cache, reads>>
    BY <1>1, <1>4, <1>11 DEF Discard
  <2>2. SelectionTypeOK' /\ ControlSound'
    BY <1>0, <1>1, <1>7, <2>1, DiscardControl
  <2>3. PICK r \in RootRefs : r = chosen.ref
    BY <1>1
  <2>4. Broken(r)'
    <3>1. Use \in Range(Inventory[r])
      BY <1>1, <2>3 DEF Use, Inventoried, Range
    <3>2. PICK u \in Range(Inventory[r]) : u.ref = o
      BY <1>3, <3>1
    <3>3. contents'[<<"object", u.ref>>] = "corrupt"
      BY <1>7, <1>11, <3>2
    <3> QED BY <3>3 DEF Broken
  <2>5. Scanned' /\ CandidatesSound' /\ TriedSound'
    BY <1>0, <1>1, <1>7, <1>8, <2>1, <2>3, <2>4, DiscardStep
  <2>6. CacheSound'
    BY <1>0, <1>7, <2>1, CacheKept
  <2>7. ValidationSound'
    BY <2>1, NothingValidated DEF Discard
  <2>8. FatalSound'
    BY <1>0, <1>1, <1>5, <1>6, <1>11, <2>1, FatalKept
  <2> QED BY <2>2, <2>5, <2>6, <2>7, <2>8 DEF SelectionIInv
<1> QED BY <1>9, <1>10, <1>11 DEF Verdicts

\* The whole graph of the chosen root was found good.
LEMMA OpenedStep ==
  ASSUME SelectionIInv, Opened
  PROVE  SelectionIInv'
<1>0. /\ SelectionTypeOK /\ ControlSound /\ CacheSound /\ FatalSound /\ ValidationSound
      /\ pc = "validate" /\ at > Len(Inventoried) /\ pc' = "done" /\ result' = "opened"
      /\ UNCHANGED <<slotTable, limit, contents, idx, candidates, chosen, at, tried, cache, charged, reads>>
  BY DEF SelectionIInv, Opened, Visited, Finish, File, Choice, Cache
<1>1. /\ chosen # NoCandidate /\ idx = SlotCount /\ result = "none" /\ at \in Nat
      /\ DOMAIN Inventoried = 1 .. Len(Inventoried) /\ Len(Inventoried) \in Nat
  BY <1>0, ChosenFields DEF Validating
<1>2. Grown /\ RootsSettled
  BY <1>0 DEF Grown, RootsSettled
<1>3. SelectionTypeOK' /\ ControlSound'
  BY <1>0, <1>1 DEF SelectionTypeOK, ControlSound, Validating, pcs, Results
<1>4. Scanned' /\ CandidatesSound' /\ TriedSound'
  BY <1>0, <1>2, QuietStep
<1>5. CacheSound' /\ FatalSound'
  BY <1>0, <1>1 DEF CacheSound, FatalSound
<1>6. Inventoried' = Inventoried
  BY <1>0 DEF Inventoried
<1>7. Sound(chosen.ref)' /\ contents'[<<"metadata", chosen'.ref>>] = "ok"
  BY <1>0 DEF ValidationSound, Sound, AuxiliaryUses
<1>8. \A k \in DOMAIN Inventoried : k < at
  BY <1>0, <1>1
<1>9. \A k \in DOMAIN Inventoried : contents[<<"object", Inventoried[k].ref>>] = "ok"
  BY <1>0, <1>8 DEF ValidationSound
<1>10. ValidationSound'
  BY <1>0, <1>6, <1>7, <1>9 DEF ValidationSound
<1> QED BY <1>3, <1>4, <1>5, <1>10 DEF SelectionIInv
-----------------------------------------------------------------------------
(* The invariant and what it says of an open.                              *)

\* Before the first slot there is nothing to be wrong about.
LEMMA SelectionInitSound ==
  ASSUME SelectionInit
  PROVE  SelectionIInv
<1>1. SelectionTypeOK
  <2>1. <<>> \in Seq(CandidateValues) /\ limit \in Nat
    BY RootSelectionAssumption, EmptySeq DEF SelectionInit
  <2> QED BY RootSelectionAssumption, <2>1 DEF SelectionInit, SelectionTypeOK, pcs, Results
<1>2. ControlSound
  BY RootSelectionAssumption DEF SelectionInit, ControlSound, Validating
<1>3. Scanned /\ CandidatesSound
  BY DEF SelectionInit, Scanned, CandidatesSound, TableSlot
<1>4. TriedSound
  BY DEF SelectionInit, TriedSound
<1>5. CacheSound
  BY DEF SelectionInit, CacheSound
<1>6. ValidationSound /\ FatalSound
  BY DEF SelectionInit, ValidationSound, FatalSound
<1> QED BY <1>1, <1>2, <1>3, <1>4, <1>5, <1>6 DEF SelectionIInv

\* Every step of the open keeps the invariant.
LEMMA SelectionStepSound ==
  ASSUME SelectionIInv, [SelectionNext]_selectionVars
  PROVE  SelectionIInv'
<1>1. CASE SelectionNext
  BY <1>1, SkipSlotStep, ReadRootStep, NoValidRootStep, DropConflictStep, ChooseStep,
     ReadMetadataStep, CheckStructureStep, ChargeUniqueStep, PreflightedStep, RevisitStep,
     ValidateObjectStep, OpenedStep
  DEF SelectionNext
<1>2. CASE UNCHANGED selectionVars
  <2>0. UNCHANGED <<slotTable, limit, contents, pc, idx, candidates, chosen, at, cache, charged,
                    tried, reads, result>>
    BY <1>2 DEF selectionVars
  <2>1. SelectionTypeOK' /\ ControlSound' /\ CacheSound' /\ FatalSound'
    BY <2>0 DEF SelectionIInv, SelectionTypeOK, ControlSound, CacheSound, FatalSound
  <2>2. Grown /\ RootsSettled
    BY <2>0 DEF Grown, RootsSettled
  <2>3. Scanned' /\ CandidatesSound' /\ TriedSound'
    <3>1. CASE pc # "scan"
      BY <2>0, <2>2, <3>1, QuietStep
    <3>2. CASE pc = "scan"
      <4>1. PICK n \in TableSlot : n = idx
        BY RootSelectionAssumption, <3>2 DEF SelectionIInv, SelectionTypeOK, ControlSound, TableSlot
      <4> QED BY <2>0, <2>2, <3>2, <4>1, ScanStep
    <3> QED BY <3>1, <3>2
  <2>4. ValidationSound'
    BY <2>0 DEF SelectionIInv, ValidationSound, Sound, AuxiliaryUses, Inventoried, Auxiliary
  <2> QED BY <2>1, <2>3, <2>4 DEF SelectionIInv
<1> QED BY <1>1, <1>2

\* The inductive invariant of select_v2_metadata and choose_v2_metadata.
THEOREM SelectionInvariant == SelectionSpec => []SelectionIInv
<1>1. SelectionInit => SelectionIInv
  BY SelectionInitSound
<1>2. SelectionIInv /\ [SelectionNext]_selectionVars => SelectionIInv'
  BY SelectionStepSound
<1> QED BY <1>1, <1>2, PTL DEF SelectionSpec

\* The objects of a root are those of its inventory.
LEMMA InventoryRange ==
  ASSUME NEW r \in RootRefs, NEW u \in Range(Inventory[r])
  PROVE  \E k \in DOMAIN Inventory[r] : u = Inventory[r][k]
BY DEF Range

\* An answer of the open is the one it should give.
LEMMA AnswersSound ==
  ASSUME SelectionIInv
  PROVE  SelectsNewestIntact /\ GivesUpOnlyWithoutRoot
<1>0. SelectionTypeOK /\ ControlSound /\ CandidatesSound /\ ValidationSound
  BY DEF SelectionIInv
<1>1. SlotCount \in Nat /\ \A i \in TableSlot : i < SlotCount
  BY RootSelectionAssumption DEF TableSlot
<1>2. SelectsNewestIntact
  <2> SUFFICES ASSUME result = "opened"
               PROVE  /\ Accepted(chosen.slot) /\ chosen.ref = slotTable[chosen.slot].ref
                      /\ IntactRoot(chosen.ref) /\ ~Disputed(chosen.generation)
                      /\ \A i \in TableSlot :
                           Accepted(i) /\ slotTable[i].generation > chosen.generation =>
                             Disputed(slotTable[i].generation) \/ Broken(slotTable[i].ref)
    BY DEF SelectsNewestIntact
  <2>1. chosen # NoCandidate /\ idx = SlotCount /\ chosen \in CandidateValues /\ pc = "done"
    BY <1>0 DEF ControlSound, SelectionTypeOK
  <2>2. chosen.ref \in RootRefs /\ chosen.generation \in Nat
    BY <2>1, CandidateFields
  <2>3. Genuine(chosen) /\ ~Disputed(chosen.generation)
        /\ \A c \in candidates : c.generation <= chosen.generation
    BY <1>0, <2>1 DEF CandidatesSound
  <2>4. Accepted(chosen.slot) /\ chosen.ref = slotTable[chosen.slot].ref
    BY <2>3 DEF Genuine, CandidateAt
  <2>5. IntactRoot(chosen.ref)
    <3>1. contents[<<"metadata", chosen.ref>>] = "ok" /\ Sound(chosen.ref)
      BY <1>0 DEF ValidationSound
    <3>2. ASSUME NEW u \in Range(Inventory[chosen.ref])
          PROVE  contents[<<"object", u.ref>>] = "ok"
      <4>1. PICK k \in DOMAIN Inventory[chosen.ref] : u = Inventory[chosen.ref][k]
        BY <2>2, InventoryRange
      <4> QED BY <1>0, <4>1 DEF ValidationSound, Inventoried
    <3> QED BY <3>1, <3>2 DEF IntactRoot
  <2>6. ASSUME NEW i \in TableSlot, Accepted(i), slotTable[i].generation > chosen.generation
        PROVE  Disputed(slotTable[i].generation) \/ Broken(slotTable[i].ref)
    <3>1. slotTable[i].generation \in Nat
      BY <1>0, <2>6, SlotFields DEF Accepted
    <3>2. CandidateAt(i) \notin candidates
      <4> SUFFICES ASSUME CandidateAt(i) \in candidates PROVE FALSE
        OBVIOUS
      <4>1. slotTable[i].generation <= chosen.generation
        BY <2>3 DEF CandidateAt
      <4> QED BY <2>2, <2>6, <3>1, <4>1
    <3>3. slotTable[i].generation # chosen.generation
      BY <2>2, <2>6, <3>1
    <3>4. Explained(i)
      BY <1>0, <1>1, <2>1, <2>6, <3>2, <3>3 DEF CandidatesSound
    <3> QED BY <3>4 DEF Explained
  <2> QED BY <2>3, <2>4, <2>5, <2>6
<1>3. GivesUpOnlyWithoutRoot
  <2> SUFFICES ASSUME result = "corrupt", NEW i \in TableSlot, Accepted(i)
               PROVE  Disputed(slotTable[i].generation) \/ Broken(slotTable[i].ref)
    BY DEF GivesUpOnlyWithoutRoot
  <2>1. idx = SlotCount /\ candidates = {} /\ chosen = NoCandidate
    BY <1>0 DEF ControlSound
  <2>2. Explained(i)
    BY <1>0, <1>1, <2>1 DEF CandidatesSound
  <2> QED BY <2>2 DEF Explained
<1> QED BY <1>2, <1>3

\* Whatever the slot table, the roots and their objects are: an open that succeeds
\* returns the newest accepted root that is neither disputed nor broken, with every
\* object of it read; "no valid root slot" means that there is none; and the
\* fallback of choose_v2_metadata goes strictly down the generations.
THEOREM SelectionOpensNewestIntact == SelectionSpec => []OpensNewestIntact
<1>1. SelectionIInv => OpensNewestIntact
  <2> SUFFICES ASSUME SelectionIInv PROVE OpensNewestIntact
    OBVIOUS
  <2>1. SelectionTypeOK /\ SelectsNewestIntact /\ GivesUpOnlyWithoutRoot
    BY AnswersSound DEF SelectionIInv
  <2>2. FallbackDescends
    <3>1. \A i, j \in DOMAIN tried : i < j => tried[i].generation > tried[j].generation
      BY DEF SelectionIInv, TriedSound
    <3>2. \A o \in Objects : reads[o] = 0 \/ reads[o] = 1
      BY DEF SelectionIInv, CacheSound
    <3>3. \A o \in Objects : reads[o] <= 1
      BY <3>2
    <3> QED BY <3>1, <3>3 DEF FallbackDescends
  <2> QED BY <2>1, <2>2 DEF OpensNewestIntact
<1> QED BY <1>1, SelectionInvariant, PTL

\* A failure other than corruption, of a slot, a root, its metadata or one of its
\* objects, ends the open with that failure and never with an older snapshot, and
\* nothing else is reported as one.
THEOREM SelectionFailuresNotMasked == SelectionSpec => []FailuresNotMasked
<1>1. SelectionIInv => FailuresNotMasked
  <2> SUFFICES ASSUME SelectionIInv, result # "none"
               PROVE  result = "failed" <=>
                        \/ \E x \in Readable : contents[x] = "fatal"
                        \/ idx < SlotCount /\ slotTable[idx].verdict = "fatal"
    BY DEF FailuresNotMasked
  <2>1. CASE result = "failed"
    BY <2>1 DEF SelectionIInv, FatalSound
  <2>2. CASE result # "failed"
    <3>1. idx = SlotCount /\ SlotCount \in Nat
      BY RootSelectionAssumption, <2>2 DEF SelectionIInv, ControlSound
    <3>2. ~(idx < SlotCount)
      BY <3>1
    <3> QED BY <2>2, <3>2 DEF SelectionIInv, FatalSound
  <2> QED BY <2>1, <2>2
<1> QED BY <1>1, SelectionInvariant, PTL

-----------------------------------------------------------------------------
(* The limit on auxiliary objects.                                         *)

\* The open was charged for exactly the objects it met, which are objects of roots
\* it tried; a reported limit was passed by one more such object.
ChargesSound ==
  /\ charged = Bytes(ChargedObjects)
  /\ ChargedObjects \subseteq TriedObjects
  /\ result = "overLimit" =>
       /\ Sound(chosen.ref)
       /\ \E o \in TriedObjects \ ChargedObjects : charged + Length[o] > limit

\* The objects of the tried roots are objects of the file.
LEMMA TriedAreObjects ==
  ASSUME SelectionTypeOK
  PROVE  TriedObjects \subseteq Objects
<1> SUFFICES ASSUME NEW c \in Range(tried), NEW u \in AuxiliaryUses(c.ref)
             PROVE  u.ref \in Objects
  BY DEF TriedObjects
<1>1. PICK n \in DOMAIN tried : c = tried[n]
  BY DEF Range
<1>2. c \in CandidateValues
  BY <1>1 DEF SelectionTypeOK
<1>3. Inventory[c.ref] \in Seq(Uses)
  BY <1>2, CandidateFields
<1>4. PICK k \in DOMAIN Inventory[c.ref] : u = Inventory[c.ref][k]
  BY DEF AuxiliaryUses, Range
<1>5. u \in Uses
  BY <1>3, <1>4
<1> QED
  BY <1>5 DEF Uses

\* A step that meets no object and reports no limit.
LEMMA NothingCharged ==
  ASSUME ChargesSound, charged' = charged, ChargedObjects' = ChargedObjects,
         tried' = tried, result' # "overLimit"
  PROVE  ChargesSound'
<1>1. TriedObjects' = TriedObjects
  BY DEF TriedObjects, AuxiliaryUses
<1>2. Bytes(ChargedObjects)' = Bytes(ChargedObjects)
  BY DEF Bytes
<1> QED
  BY <1>1, <1>2 DEF ChargesSound

\* Choosing a root makes the tried roots more.
LEMMA ChooseCharges ==
  ASSUME SelectionIInv, ChargesSound, Choose
  PROVE  ChargesSound'
<1>0. tried \in Seq(CandidateValues) /\ UNCHANGED <<cache, charged, result>>
  BY DEF SelectionIInv, SelectionTypeOK, Choose, Cache
<1>1. PICK c \in candidates : tried' = Append(tried, c)
  BY DEF Choose, NewestLeft
<1>2. c \in CandidateValues /\ result # "overLimit"
  BY <1>1 DEF SelectionIInv, SelectionTypeOK, ControlSound, Choose
<1>3. Range(tried) \subseteq Range(tried')
  <2> SUFFICES ASSUME NEW n \in DOMAIN tried PROVE tried[n] \in Range(tried')
    BY DEF Range
  <2>1. n \in DOMAIN tried' /\ tried'[n] = tried[n]
    BY <1>0, <1>1, <1>2
  <2> QED
    BY <2>1 DEF Range
<1>4. TriedObjects \subseteq TriedObjects'
  BY <1>3 DEF TriedObjects, AuxiliaryUses
<1>5. ChargedObjects' = ChargedObjects /\ Bytes(ChargedObjects)' = Bytes(ChargedObjects)
  BY <1>0 DEF ChargedObjects, Bytes
<1> QED
  BY <1>0, <1>2, <1>4, <1>5 DEF ChargesSound

\* A reference met for the first time is charged with its length, or passes the
\* limit; either way it is one of the root being validated.
LEMMA ChargeUniqueCharges ==
  ASSUME SelectionIInv, ChargesSound, ChargeUnique
  PROVE  ChargesSound'
<1>0. /\ SelectionTypeOK /\ ControlSound /\ ValidationSound /\ TriedSound
      /\ pc = "charge" /\ at <= Len(Inventoried)
      /\ UNCHANGED <<limit, candidates, chosen, tried>>
  BY DEF SelectionIInv, ChargeUnique, Visiting, File
<1>1. /\ chosen # NoCandidate /\ result = "none" /\ at \in Nat \ {0}
      /\ Use.ref \in Objects /\ DOMAIN Inventoried = 1 .. Len(Inventoried)
      /\ Len(Inventoried) \in Nat
  BY <1>0, ChosenFields DEF Validating, SelectionIInv
<1>2. Sound(chosen.ref) /\ Sound(chosen.ref)'
  BY <1>0 DEF ValidationSound, Sound, AuxiliaryUses
<1>3. TriedObjects' = TriedObjects
  BY <1>0 DEF TriedObjects, AuxiliaryUses
<1>4. Auxiliary(Use) => Use.ref \in TriedObjects
  <2> SUFFICES ASSUME Auxiliary(Use) PROVE Use.ref \in TriedObjects
    OBVIOUS
  <2>1. Use \in Range(Inventory[chosen.ref])
    BY <1>0, <1>1 DEF Range, Use, Inventoried
  <2>2. Use \in AuxiliaryUses(chosen.ref)
    BY <2>1 DEF AuxiliaryUses, Auxiliary
  <2>3. chosen \in Range(tried)
    <3>1. tried # <<>> /\ tried[Len(tried)] = chosen /\ tried \in Seq(CandidateValues)
      BY <1>0, <1>1 DEF TriedSound, SelectionTypeOK
    <3>2. Len(tried) \in DOMAIN tried
      BY <3>1
    <3> QED
      BY <3>1, <3>2 DEF Range
  <2> QED
    BY <2>2, <2>3 DEF TriedObjects
<1>5. CASE Finish("overLimit") /\ UNCHANGED <<at, cache, charged>> /\ Auxiliary(Use)
           /\ Uncharged(Use.ref) /\ ~Fits(Length[Use.ref])
  <2>1. ChargedObjects' = ChargedObjects /\ Bytes(ChargedObjects)' = Bytes(ChargedObjects)
    BY <1>5 DEF ChargedObjects, Bytes
  <2>2. Use.ref \in TriedObjects \ ChargedObjects
    BY <1>4, <1>5 DEF ChargedObjects, Uncharged
  <2>3. charged + Length[Use.ref] > limit
    <3>1. charged \in Nat /\ limit \in Nat /\ Length[Use.ref] \in Nat
      BY RootSelectionAssumption, <1>0, <1>1 DEF SelectionTypeOK
    <3> QED
      BY <1>5, <3>1 DEF Fits
  <2> QED
    BY <1>0, <1>2, <1>3, <1>5, <2>1, <2>2, <2>3 DEF ChargesSound
<1>6. CASE UNCHANGED <<result, cache, charged>>
  <2>1. ChargedObjects' = ChargedObjects
    BY <1>6 DEF ChargedObjects
  <2> QED
    BY <1>0, <1>1, <1>6, <2>1, NothingCharged
<1>7. CASE /\ Auxiliary(Use) /\ Uncharged(Use.ref) /\ UNCHANGED result
           /\ charged' = charged + Length[Use.ref]
           /\ cache' = [cache EXCEPT ![Use.ref] = "pending"]
  <2>1. ChargedObjects' = ChargedObjects \cup {Use.ref}
    BY <1>0, <1>1, <1>7 DEF ChargedObjects, SelectionTypeOK
  <2>2. Use.ref \notin ChargedObjects
    BY <1>7 DEF ChargedObjects, Uncharged
  <2>3. IsFiniteSet(ChargedObjects) /\ \A o \in ChargedObjects \cup {Use.ref} : Length[o] \in Int
    <3>1. ChargedObjects \subseteq Objects
      BY DEF ChargedObjects
    <3>2. \A o \in Objects : Length[o] \in Nat
      BY RootSelectionAssumption
    <3> QED
      BY <1>1, <3>1, <3>2, FS_Subset, RootSelectionAssumption
  <2>4. Bytes(ChargedObjects)' = Length[Use.ref] + Bytes(ChargedObjects)
    BY <2>1, <2>2, <2>3, SumAdd DEF Bytes
  <2>5. Bytes(ChargedObjects) \in Int /\ Length[Use.ref] \in Int
    BY <2>3, SumIsInteger DEF Bytes
  <2>6. charged' = Bytes(ChargedObjects)'
    BY <1>7, <2>4, <2>5 DEF ChargesSound
  <2> QED
    BY <1>1, <1>3, <1>4, <1>7, <2>1, <2>6 DEF ChargesSound
<1> QED
  BY <1>5, <1>6, <1>7 DEF ChargeUnique

\* Validating an object that was charged leaves it charged.
LEMMA ValidateObjectCharges ==
  ASSUME SelectionIInv, ChargesSound, ValidateObject
  PROVE  ChargesSound'
<1>0. /\ SelectionTypeOK /\ pc = "validate" /\ at <= Len(Inventoried) /\ result = "none"
      /\ UNCHANGED <<charged, tried>>
  BY DEF SelectionIInv, ControlSound, ValidateObject, Visiting
<1>1. Use.ref \in Objects
  BY <1>0, ChosenFields DEF Validating, SelectionIInv
<1>2. PICK v \in Verdicts :
        /\ ReadUse(v)
        /\ \/ v = "ok" /\ Accept
           \/ v = "fatal" /\ Finish("failed") /\ UNCHANGED cache
           \/ Discard /\ UNCHANGED cache
  BY DEF ValidateObject
<1>3. CASE v = "ok" /\ Accept
  <2>1. CASE Auxiliary(Use)
    <3>1. cache[Use.ref] # "absent"
      BY <1>2, <1>3, <2>1 DEF ReadUse, Uncharged
    <3>2. cache' = [cache EXCEPT ![Use.ref] = "validated"] /\ result' = result
      BY <1>3, <2>1 DEF Accept
    <3>3. ChargedObjects' = ChargedObjects
      BY <1>0, <1>1, <3>1, <3>2 DEF ChargedObjects, SelectionTypeOK
    <3> QED
      BY <1>0, <3>2, <3>3, NothingCharged
  <2>2. CASE ~Auxiliary(Use)
    <3>1. UNCHANGED <<cache, result>>
      BY <1>3, <2>2 DEF Accept
    <3>2. ChargedObjects' = ChargedObjects
      BY <3>1 DEF ChargedObjects
    <3> QED
      BY <1>0, <3>1, <3>2, NothingCharged
  <2> QED
    BY <2>1, <2>2
<1>4. CASE Finish("failed") /\ UNCHANGED cache
  <2>1. ChargedObjects' = ChargedObjects /\ result' # "overLimit"
    BY <1>4 DEF ChargedObjects, Finish
  <2> QED
    BY <1>0, <2>1, NothingCharged
<1>5. CASE Discard /\ UNCHANGED cache
  <2>1. ChargedObjects' = ChargedObjects /\ result' # "overLimit"
    BY <1>0, <1>5 DEF ChargedObjects, Discard
  <2> QED
    BY <1>0, <2>1, NothingCharged
<1> QED
  BY <1>2, <1>3, <1>4, <1>5

\* Every step keeps the account of the auxiliary objects.
LEMMA StepKeepsCharges ==
  ASSUME SelectionIInv, ChargesSound, [SelectionNext]_selectionVars
  PROVE  ChargesSound'
<1>1. CASE UNCHANGED <<cache, charged, tried>> /\ result' # "overLimit"
  <2>1. ChargedObjects' = ChargedObjects
    BY <1>1 DEF ChargedObjects
  <2> QED
    BY <1>1, <2>1, NothingCharged
<1>2. pc # "done" => result = "none"
  BY DEF SelectionIInv, ControlSound
<1>3. CASE SkipSlot \/ ReadRoot
  <2>1. UNCHANGED <<cache, charged, tried>>
    BY <1>3 DEF SkipSlot, ReadRoot, Cache, Choice
  <2>2. result' \in {"none", "failed"}
    BY <1>2, <1>3 DEF SkipSlot, ReadRoot, Finish, NextSlot
  <2> QED
    BY <1>1, <2>1, <2>2
<1>4. CASE NoValidRoot \/ DropConflict
  BY <1>1, <1>2, <1>4 DEF NoValidRoot, DropConflict, Cache, Choice, Finish
<1>5. CASE ReadMetadata \/ CheckStructure
  <2>1. UNCHANGED <<cache, charged, tried>>
    BY <1>5 DEF ReadMetadata, CheckStructure, Cache
  <2>2. result' \in {"none", "failed"}
    BY <1>2, <1>5 DEF ReadMetadata, CheckStructure, Finish, Discard
  <2> QED
    BY <1>1, <2>1, <2>2
<1>6. CASE Preflighted \/ Revisit \/ Opened
  BY <1>1, <1>2, <1>6 DEF Preflighted, Revisit, Opened, Cache, Choice, Finish, Visiting, Visited
<1>7. CASE UNCHANGED selectionVars
  <2>1. UNCHANGED <<limit, chosen, cache, charged, tried, result>>
    BY <1>7 DEF selectionVars
  <2>2. ChargedObjects' = ChargedObjects /\ TriedObjects' = TriedObjects
        /\ Bytes(ChargedObjects)' = Bytes(ChargedObjects) /\ (Sound(chosen.ref)' <=> Sound(chosen.ref))
    BY <2>1 DEF ChargedObjects, TriedObjects, AuxiliaryUses, Bytes, Sound
  <2> QED
    BY <2>1, <2>2 DEF ChargesSound
<1> QED
  BY <1>3, <1>4, <1>5, <1>6, <1>7, ChooseCharges, ChargeUniqueCharges, ValidateObjectCharges
     DEF SelectionNext

\* An open that does not succeed says why, whatever the file: a failed read ends it
\* as one, and a limit is reported only when the distinct auxiliary objects of the
\* roots tried so far exceed it, for a root whose references are well formed.
THEOREM SelectionFailuresToldApart == SelectionSpec => []FailuresToldApart
<1>1. SelectionInit => ChargesSound
  <2> SUFFICES ASSUME SelectionInit PROVE ChargesSound
    OBVIOUS
  <2>1. ChargedObjects = {}
    BY DEF SelectionInit, ChargedObjects
  <2> QED
    BY <2>1, SumOfNothing DEF SelectionInit, ChargesSound, Bytes
<1>2. SelectionIInv /\ ChargesSound /\ [SelectionNext]_selectionVars => ChargesSound'
  BY StepKeepsCharges
<1>3. SelectionIInv /\ ChargesSound => LimitReportedOnlyWhenExceeded
  <2> SUFFICES ASSUME SelectionIInv, ChargesSound, result = "overLimit"
               PROVE  Bytes(TriedObjects) > limit
    BY DEF LimitReportedOnlyWhenExceeded, ChargesSound
  <2>1. PICK o \in TriedObjects \ ChargedObjects : charged + Length[o] > limit
    BY DEF ChargesSound
  <2>2. TriedObjects \subseteq Objects /\ IsFiniteSet(TriedObjects)
    BY TriedAreObjects, FS_Subset, RootSelectionAssumption DEF SelectionIInv
  <2>3. \A q \in TriedObjects : Length[q] \in Nat /\ Length[q] \in Int
    BY <2>2, RootSelectionAssumption
  <2>4. ChargedObjects \cup {o} \subseteq TriedObjects
    BY DEF ChargesSound
  <2>5. Bytes(ChargedObjects \cup {o}) <= Bytes(TriedObjects)
    BY <2>2, <2>3, <2>4, SumOfPart DEF Bytes
  <2>6. Bytes(ChargedObjects \cup {o}) = Length[o] + Bytes(ChargedObjects)
    <3>1. IsFiniteSet(ChargedObjects) /\ \A q \in ChargedObjects \cup {o} : Length[q] \in Int
      BY <2>2, <2>3, <2>4, FS_Subset
    <3> QED
      BY <2>1, <3>1, SumAdd DEF Bytes
  <2>7. /\ Bytes(TriedObjects) \in Int /\ charged \in Int /\ limit \in Int /\ Length[o] \in Int
        /\ charged = Bytes(ChargedObjects)
    BY <2>2, <2>3, SumIsInteger, RootSelectionAssumption
       DEF Bytes, ChargesSound, SelectionIInv, SelectionTypeOK
  <2> QED
    BY <2>1, <2>5, <2>6, <2>7
<1> QED
  BY <1>1, <1>2, <1>3, SelectionInvariant, SelectionFailuresNotMasked, PTL
     DEF SelectionSpec, FailuresToldApart
=============================================================================
