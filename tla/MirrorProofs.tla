----------------------------- MODULE MirrorProofs -----------------------------
(***************************************************************************)
(* Type correctness of Mirror, the soundness of the mirror's memory, what  *)
(* a load leaves of the native log, and that Mirror implements FullMirror. *)
(***************************************************************************)
EXTENDS Mirror, SequenceTheorems, WellFoundedInduction, TLAPS

-----------------------------------------------------------------------------
(* Rows, cursors and reads *)

(* A part of a history is one (a read from a cursor, a digest's window).   *)
LEMMA PartOf ==
  ASSUME NEW S, NEW rows \in Seq(S), NEW m \in Nat \ {0}, NEW n \in 0 .. Len(rows)
  PROVE  /\ SubSeq(rows, m, n) \in Seq(S)
         /\ Len(SubSeq(rows, m, n)) = IF m <= n THEN n - m + 1 ELSE 0
         /\ \A i \in 1 .. n - m + 1 : SubSeq(rows, m, n)[i] = rows[m + i - 1]
<1>1. Len(rows) \in Nat  BY LenProperties
<1>2. \A i \in m .. n : rows[i] \in S
  <2> TAKE i \in m .. n
  <2> i \in 1 .. Len(rows)  BY <1>1
  <2> QED  BY ElementOfSeq
<1> m \in Int /\ n \in Int  BY <1>1
<1> QED  BY <1>2, SubSeqProperties

(* The same, of the rows of a log or of the store.                         *)
LEMMA PartType ==
  ASSUME NEW rows \in Seq(Row), NEW m \in Nat \ {0}, NEW n \in 0 .. Len(rows)
  PROVE  /\ SubSeq(rows, m, n) \in Seq(Row)
         /\ Len(SubSeq(rows, m, n)) = IF m <= n THEN n - m + 1 ELSE 0
         /\ \A i \in 1 .. n - m + 1 : SubSeq(rows, m, n)[i] = rows[m + i - 1]
BY PartOf

(* Rows that are all of a set are a sequence over it.                      *)
LEMMA SeqOver ==
  ASSUME NEW S, NEW T, NEW rows \in Seq(S), \A i \in 1 .. Len(rows) : rows[i] \in T
  PROVE  rows \in Seq(T)
<1>1. rows \in [1 .. Len(rows) -> S] /\ Len(rows) \in Nat  BY LenProperties
<1>2. rows \in [1 .. Len(rows) -> T]  BY <1>1
<1> QED  BY <1>1, <1>2, SeqDef

(* A sequence and what follows it make the whole (Mirror.appendTail).      *)
LEMMA PartsMakeWhole ==
  ASSUME NEW rows \in Seq(Row), NEW n \in 0 .. Len(rows)
  PROVE  SubSeq(rows, 1, n) \o SubSeq(rows, n + 1, Len(rows)) = rows
<1>1. Len(rows) \in Nat  BY LenProperties
<1>2. /\ 1 \in 1 .. Len(rows) + 1 /\ n \in 1 - 1 .. Len(rows)
      /\ Len(rows) \in n .. Len(rows)
  BY <1>1
<1>3. SubSeq(rows, 1, n) \o SubSeq(rows, n + 1, Len(rows)) = SubSeq(rows, 1, Len(rows))
  BY <1>2, ConcatAdjacentSubSeq, Zenon
<1> QED  BY <1>3, SubSeqFull

(* The sums of a cursor are those of two windows of lines (checksum).      *)
LEMMA ChecksumsType ==
  ASSUME NEW rows \in Seq(Row), NEW n \in 0 .. Len(rows)
  PROVE  Checksums(rows, n) \in [head : Seq(Row), check : Seq(Row)]
<1>1. Len(rows) \in Nat /\ Window \in Nat \ {0}  BY LenProperties, MirrorAssumption
<1>2. LeastOf(n, Window) \in 0 .. Len(rows)  BY <1>1 DEF LeastOf
<1>3. SubSeq(rows, 1, LeastOf(n, Window)) \in Seq(Row)  BY <1>2, PartType
<1>4. MostOf(n - Window, 0) + 1 \in Nat \ {0}  BY <1>1 DEF MostOf
<1>5. SubSeq(rows, MostOf(n - Window, 0) + 1, n) \in Seq(Row)  BY <1>4, PartType
<1> QED  BY <1>3, <1>5 DEF Checksums

(* Reads start at a well-typed cursor (the zero Cursor).                   *)
LEMMA StartType == Start \in Cursor
<1>1. <<>> \in Seq(Row) /\ 0 \in 0 .. Len(<<>>)  BY EmptySeq
<1>2. Checksums(<<>>, 0) \in [head : Seq(Row), check : Seq(Row)]  BY <1>1, ChecksumsType
<1> QED  BY <1>2, MirrorAssumption DEF Start, Cursor

(* and end at one (readJSONL's next cursor).                               *)
LEMMA CursorAfterType ==
  ASSUME NEW id \in 0 .. MaxFile, NEW rows \in Seq(Row)
  PROVE  CursorAfter(id, rows) \in Cursor
<1>1. Len(rows) \in Nat /\ Len(rows) \in 0 .. Len(rows)  BY LenProperties
<1>2. Checksums(rows, Len(rows)) \in [head : Seq(Row), check : Seq(Row)]  BY <1>1, ChecksumsType
<1> QED  BY <1>1, <1>2, MirrorAssumption DEF CursorAfter, Cursor

(* ReadJSONL returns all rows, or those behind the cursor.                 *)
LEMMA ReadType ==
  ASSUME NEW f \in LogFile, NEW from \in Cursor, NEW wholly \in BOOLEAN
  PROVE  /\ ReadJSONL(f, from, wholly) \in ReadTail
         /\ ReadJSONL(f, from, wholly).next = CursorAfter(f.id, f.rows)
         /\ ReadJSONL(f, from, wholly).full => ReadJSONL(f, from, wholly).rows = f.rows
         /\ ~ReadJSONL(f, from, wholly).full =>
              /\ Extends(f, from)
              /\ ReadJSONL(f, from, wholly).rows
                   = SubSeq(f.rows, from.offset + 1, Len(f.rows))
<1>1. f.rows \in Seq(Row) /\ f.id \in 0 .. MaxFile /\ Len(f.rows) \in Nat
  BY LenProperties DEF LogFile
<1>2. CursorAfter(f.id, f.rows) \in Cursor  BY <1>1, CursorAfterType
<1>3. from.offset \in Nat  BY DEF Cursor
<1>4. SubSeq(f.rows, 1, Len(f.rows)) = f.rows  BY <1>1, SubSeqFull
<1>5. Len(f.rows) \in 0 .. Len(f.rows)  BY <1>1
<1>6. SubSeq(f.rows, from.offset + 1, Len(f.rows)) \in Seq(Row)
  BY <1>1, <1>3, <1>5, PartType
<1> DEFINE R == ReadJSONL(f, from, wholly)
<1> DEFINE first == IF ~wholly /\ Extends(f, from) THEN from.offset ELSE 0
<1>7. R = [rows |-> SubSeq(f.rows, first + 1, Len(f.rows)),
           next |-> CursorAfter(f.id, f.rows), full |-> first = 0]
  BY DEF ReadJSONL
<1> HIDE DEF R
<1>10. R.full <=> first = 0
  <2> HIDE DEF first
  <2> QED  BY <1>7
<1>8. CASE ~wholly /\ Extends(f, from)
  <2>1. first = from.offset  BY <1>8
  <2>2. first # 0  BY <2>1, <1>8, <1>3 DEF Extends
  <2>3. R.rows = SubSeq(f.rows, from.offset + 1, Len(f.rows))  BY <1>7, <2>1
  <2>4. R.next = CursorAfter(f.id, f.rows)  BY <1>7
  <2>5. ~R.full  BY <1>10, <2>2, Zenon
  <2>6. R \in ReadTail
    <3> HIDE DEF first
    <3> QED  BY <1>2, <1>6, <1>7, <2>1 DEF ReadTail
  <2> HIDE DEF first
  <2> QED  BY <1>8, <2>3, <2>4, <2>5, <2>6 DEF R
<1>9. CASE ~(~wholly /\ Extends(f, from))
  <2>1. first = 0  BY <1>9
  <2>2. first + 1 = 1  BY <2>1
  <2>3. R.rows = f.rows  BY <1>4, <1>7, <2>2
  <2>4. R.next = CursorAfter(f.id, f.rows)  BY <1>7
  <2>5. R.full  BY <1>10, <2>1, Zenon
  <2>6. R \in ReadTail
    <3> HIDE DEF first
    <3> QED  BY <1>1, <1>2, <1>4, <1>7, <2>2 DEF ReadTail
  <2> HIDE DEF first
  <2> QED  BY <2>3, <2>4, <2>5, <2>6 DEF R
<1> QED  BY <1>8, <1>9

(* What an append adds are rows of the history (commitFull, appendTail).   *)
LEMMA AddedType ==
  ASSUME NEW m \in Memory, NEW tail \in ReadTail
  PROVE  Added(m, tail) \in Seq(Row)
<1>1. /\ tail.rows \in Seq(Row) /\ Len(tail.rows) \in 0 .. Len(tail.rows)
      /\ m.rows \in Seq(Row) /\ Len(m.rows) \in Nat
  BY LenProperties DEF Memory, ReadTail
<1>2. SubSeq(tail.rows, Len(m.rows) + 1, Len(tail.rows)) \in Seq(Row)
  BY <1>1, PartType
<1> QED  BY <1>1, <1>2 DEF Added

(* cutInvalidRows cuts the log before its first invalid row past the       *)
(* stored ones.                                                            *)
LEMMA ValidPartCuts ==
  ASSUME NEW rows \in Seq(Row), NEW stored \in Nat
  PROVE  /\ ValidPart(rows, stored) \in Seq(Row)
         /\ Len(ValidPart(rows, stored)) <= Len(rows)
         /\ \A i \in 1 .. Len(ValidPart(rows, stored)) : ValidPart(rows, stored)[i] = rows[i]
         /\ Len(ValidPart(rows, stored)) < Len(rows) =>
              /\ Len(ValidPart(rows, stored)) >= stored
              /\ ~Valid(rows[Len(ValidPart(rows, stored)) + 1])
<1> DEFINE bad == {i \in DOMAIN rows : i > stored /\ ~Valid(rows[i])}
<1>1. DOMAIN rows = 1 .. Len(rows) /\ Len(rows) \in Nat  BY LenProperties
<1>2. CASE bad = {}
  <2>1. ValidPart(rows, stored) = rows  BY <1>2 DEF ValidPart
  <2> QED  BY <2>1, <1>1
<1>3. CASE bad # {}
  <2>1. \E i \in bad : \A j \in bad : i <= j
    <3>1. bad \subseteq Nat  BY <1>1
    <3>2. PICK m \in bad : \A k \in bad : <<k, m>> \notin OpToRel(<, Nat)
      BY <1>3, <3>1, NatLessThanWellFounded, WFMin, Zenon
    <3>3. \A k \in bad : ~ (k < m)  BY <3>1, <3>2, Zenon DEF OpToRel
    <3> QED  BY <3>1, <3>3
  <2> DEFINE k == CHOOSE i \in bad : \A j \in bad : i <= j
  <2>2. k \in bad  BY <2>1
  <2>3. ValidPart(rows, stored) = SubSeq(rows, 1, k - 1)  BY <1>3 DEF ValidPart
  <2>4. k \in 1 .. Len(rows) /\ k > stored /\ ~Valid(rows[k])  BY <2>2, <1>1
  <2> HIDE DEF k, bad
  <2>5. k - 1 \in 0 .. Len(rows) /\ k - 1 + 1 = k  BY <2>4, <1>1
  <2>6. /\ SubSeq(rows, 1, k - 1) \in Seq(Row)
        /\ Len(SubSeq(rows, 1, k - 1)) = k - 1
        /\ \A i \in 1 .. k - 1 : SubSeq(rows, 1, k - 1)[i] = rows[i]
    BY <2>5, PartType
  <2> QED  BY <1>1, <2>3, <2>4, <2>5, <2>6
<1> QED  BY <1>2, <1>3

-----------------------------------------------------------------------------
(* The store *)

(* The store holds nothing of the session, or exactly the main record and  *)
(* one configuration, as replace and append leave it.                      *)
StoreSound(s) ==
  /\ s \in Store
  /\ s.generation # None =>
       /\ s.generation[Main] \in Seq(Row)
       /\ s.generation[ConfigSubpath][1] \in Config
       /\ s.generation =
            WholeGeneration(s.generation[Main], s.generation[ConfigSubpath][1])

(* The two subpaths that Mirror.replace publishes.                         *)
LEMMA GenerationParts ==
  ASSUME NEW rows \in Seq(Row), NEW c \in Config
  PROVE  /\ WholeGeneration(rows, c) \in Generation
         /\ WholeGeneration(rows, c)[Main] = rows
         /\ WholeGeneration(rows, c)[ConfigSubpath][1] = c
         /\ WholeGeneration(rows, c) # None
<1>1. Main # ConfigSubpath  BY DEF Main, ConfigSubpath
<1>2. <<c>> \in Seq(Row \cup Config) /\ <<c>>[1] = c  OBVIOUS
<1>3. rows \in Seq(Row \cup Config)  BY SeqMonotonic
<1>4. WholeGeneration(rows, c) \in Generation
  BY <1>1, <1>2, <1>3 DEF WholeGeneration, Generation
<1>5. WholeGeneration(rows, c)[Main] = rows  BY <1>1 DEF WholeGeneration
<1>6. WholeGeneration(rows, c)[ConfigSubpath] = <<c>>  BY <1>1 DEF WholeGeneration
<1> QED  BY <1>2, <1>4, <1>5, <1>6, NoneIsNoGeneration

(* The store with this generation published.                               *)
Published(s, rows, c) == [s EXCEPT !.generation = WholeGeneration(rows, c)]

(* The configuration an append leaves in the store: the old one unless it  *)
(* was replaced.                                                           *)
AppendedConfig(s, m, c) ==
  IF c = m.record THEN s.generation[ConfigSubpath][1] ELSE c

(* Whatever a store that is sound publishes leaves it sound (Store.Replace *)
(* called by Mirror.replace).                                              *)
LEMMA PublishedSound ==
  ASSUME NEW s, StoreSound(s), NEW rows \in Seq(Row), NEW c \in Config
  PROVE  /\ StoreSound(Published(s, rows, c))
         /\ Published(s, rows, c).generation = WholeGeneration(rows, c)
         /\ Published(s, rows, c).deleted = s.deleted
<1>1. Published(s, rows, c).generation = WholeGeneration(rows, c)
  BY DEF StoreSound, Store, Published
<1>2. Published(s, rows, c) \in Store
  BY GenerationParts DEF StoreSound, Store, Published
<1>3. Published(s, rows, c).deleted = s.deleted
  BY DEF StoreSound, Store, Published
<1> QED  BY <1>1, <1>2, <1>3, GenerationParts DEF StoreSound

(* A replacement publishes the generation or is ignored (Store.Replace).   *)
LEMMA ReplaceSound ==
  ASSUME NEW s, StoreSound(s), NEW rows \in Seq(Row), NEW c \in Config
  PROVE  /\ StoreReplace(s, WholeGeneration(rows, c)) = IF s.deleted THEN s ELSE Published(s, rows, c)
         /\ StoreSound(StoreReplace(s, WholeGeneration(rows, c)))
<1>1. StoreReplace(s, WholeGeneration(rows, c)) = IF s.deleted THEN s ELSE Published(s, rows, c)
  BY DEF StoreReplace, Published
<1> QED  BY <1>1, PublishedSound

(* An append that the store takes leaves the old rows and the new ones,    *)
(* and the configuration if it was replaced (Store.Append called by        *)
(* Mirror.append).                                                         *)
LEMMA AppendWhole ==
  ASSUME NEW s, StoreSound(s), NEW m, NEW base, ~AppendRefused(s, base), ~s.deleted,
         NEW rows \in Seq(Row), NEW c \in Config
  PROVE  /\ s.generation # None
         /\ s.generation[Main] \in Seq(Row) /\ Len(s.generation[Main]) = base
         /\ s.generation[ConfigSubpath][1] \in Config
         /\ StoreAppend(s, rows, Replacements(m, c)) =
              Published(s, s.generation[Main] \o rows, AppendedConfig(s, m, c))
<1>1. s.generation # None /\ Len(s.generation[Main]) = base  BY DEF AppendRefused
<1>2. s.generation[Main] \in Seq(Row) /\ s.generation[ConfigSubpath][1] \in Config
  BY <1>1 DEF StoreSound
<1> DEFINE g == s.generation
<1> DEFINE R == Replacements(m, c)
<1> DEFINE new == [p \in DOMAIN g \cup DOMAIN R |->
                     IF p \in DOMAIN R THEN R[p] ELSE IF p = Main THEN g[Main] \o rows ELSE g[p]]
<1>3. g = WholeGeneration(g[Main], g[ConfigSubpath][1])  BY <1>1 DEF StoreSound
<1>4. Main # ConfigSubpath  BY DEF Main, ConfigSubpath
<1> HIDE DEF g
<1>5. DOMAIN g = {Main, ConfigSubpath}  BY <1>3 DEF WholeGeneration
<1>6. g[ConfigSubpath] = <<g[ConfigSubpath][1]>>  BY <1>3, <1>4 DEF WholeGeneration
<1>7. CASE c = m.record
  <2>1. DOMAIN R = {}  BY <1>7 DEF Replacements
  <2>2. new = [p \in {Main, ConfigSubpath} |-> IF p = Main THEN g[Main] \o rows ELSE g[p]]
    BY <2>1, <1>5
  <2>3. new = WholeGeneration(g[Main] \o rows, g[ConfigSubpath][1])
    BY <2>2, <1>4, <1>6 DEF WholeGeneration
  <2> QED  BY <1>1, <1>2, <1>7, <2>3 DEF g, StoreAppend, Published, AppendedConfig
<1>8. CASE c # m.record
  <2>1. DOMAIN R = {ConfigSubpath} /\ R[ConfigSubpath] = <<c>>  BY <1>8 DEF Replacements
  <2>2. new = [p \in {Main, ConfigSubpath} |->
                 IF p = ConfigSubpath THEN <<c>> ELSE g[Main] \o rows]
    BY <2>1, <1>4, <1>5
  <2>3. new = WholeGeneration(g[Main] \o rows, c)
    BY <2>2, <1>4 DEF WholeGeneration
  <2> QED  BY <1>1, <1>2, <1>8, <2>3 DEF g, StoreAppend, Published, AppendedConfig
<1> QED  BY <1>7, <1>8

(* So does an append leave it sound.                                       *)
LEMMA AppendSound ==
  ASSUME NEW s, StoreSound(s), NEW m, NEW base, ~AppendRefused(s, base),
         NEW rows \in Seq(Row), NEW c \in Config
  PROVE  StoreSound(StoreAppend(s, rows, Replacements(m, c)))
<1>1. CASE s.deleted
  BY <1>1 DEF StoreAppend
<1>2. CASE ~s.deleted
  <2>1. s.generation[Main] \o rows \in Seq(Row)  BY <1>2, AppendWhole, ConcatProperties
  <2>2. AppendedConfig(s, m, c) \in Config  BY <1>2, AppendWhole DEF AppendedConfig
  <2>3. StoreAppend(s, rows, Replacements(m, c))
          = Published(s, s.generation[Main] \o rows, AppendedConfig(s, m, c))
    BY <1>2, AppendWhole
  <2> QED  BY <2>1, <2>2, <2>3, PublishedSound
<1> QED  BY <1>1, <1>2

-----------------------------------------------------------------------------
(* Types *)

(* TypeOK, and what the types do not say: a file that does not exist is    *)
(* empty, the unterminated line is the harness's last, a mirror that holds *)
(* nothing holds the zero values, and what Hydrate writes was adopted.     *)
Typed ==
  /\ TypeOK
  /\ StoreSound(store)
  /\ file.id = 0 => file.rows = <<>>
  /\ file.tail # None => file.tail.row = minted /\ file.id # 0
  /\ IF mirror.committed THEN mirror.record \in Config ELSE mirror = Forgotten
  /\ (call # None /\ call.at = "write") => mirror.committed

(* Mirror.forget and Mirror.adopt leave a well-typed memory.               *)
LEMMA ForgottenType == Forgotten \in Memory /\ ~Forgotten.committed
BY StartType, EmptySeq DEF Forgotten, Memory

(* Mirror.adopt leaves a memory of what it is given.                       *)
LEMMA AdoptedType ==
  ASSUME NEW rows \in Seq(Row), NEW c \in Config, NEW next \in Cursor
  PROVE  /\ Adopted(rows, c, next) \in Memory /\ Adopted(rows, c, next).committed
         /\ Adopted(rows, c, next).rows = rows /\ Adopted(rows, c, next).record = c
         /\ Adopted(rows, c, next).cursor = next
BY DEF Adopted, Memory

(* appendTail's update of the memory is the adoption of the longer rows.   *)
LEMMA ExtendedType ==
  ASSUME NEW m \in Memory, NEW rows \in Seq(Row), NEW c \in Config, NEW next \in Cursor
  PROVE  /\ m.rows \o rows \in Seq(Row)
         /\ Extended(m, rows, c, next) = Adopted(m.rows \o rows, c, next)
BY ConcatProperties DEF Extended, Adopted, Memory

(* A method that begins holds what it is given (Mirror.Commit).            *)
LEMMA RunningType ==
  ASSUME NEW at \in Place, NEW tail \in ReadTail, NEW c \in Config, NEW failed \in BOOLEAN
  PROVE  /\ Running(at, tail, c, failed) \in RunningCall
         /\ Running(at, tail, c, failed) # None
         /\ Running(at, tail, c, failed).at = at /\ Running(at, tail, c, failed).tail = tail
         /\ Running(at, tail, c, failed).config = c
BY NoneIsNoRecord DEF Running, RunningCall

(* A call that goes on to its next access (Mirror.Commit, Mirror.Hydrate). *)
Moved(k, at) == [k EXCEPT !.at = at]

(* It keeps what it holds until it ends.                                   *)
LEMMA MovedType ==
  ASSUME NEW k \in RunningCall, NEW at \in Place
  PROVE  /\ Moved(k, at) \in RunningCall /\ Moved(k, at) # None
         /\ Moved(k, at).at = at /\ Moved(k, at).tail = k.tail
         /\ Moved(k, at).config = k.config
BY NoneIsNoRecord DEF RunningCall, Moved

(* The history a call reads is a snapshot.                                 *)
LEMMA SnapType ==
  ASSUME NEW rows \in Seq(Row), NEW c \in Config
  PROVE  [rows |-> rows, config |-> c] \in Snapshot /\ [rows |-> rows, config |-> c] # None
BY NoneIsNoRecord DEF Snapshot

(* Replacing the row at a place, cutting an end off, or adding a row.      *)
LEMMA EditsType ==
  ASSUME Typed, minted < MaxRow, NEW rows \in Edits(file.rows)
  PROVE  /\ rows \in Seq(Row) /\ Len(rows) <= Len(file.rows)
         /\ file.rows # <<>>
         /\ \A i \in 1 .. Len(rows) : rows[i] = file.rows[i] \/ rows[i] = minted + 1
<1>1. file.rows \in Seq(Row) /\ Len(file.rows) \in Nat /\ DOMAIN file.rows = 1 .. Len(file.rows)
  BY LenProperties DEF Typed, TypeOK, LogFile
<1>2. minted + 1 \in Row  BY MirrorAssumption DEF Typed, TypeOK
<1>3. ASSUME NEW k \in 0 .. Len(file.rows) - 1, rows = SubSeq(file.rows, 1, k)
      PROVE  /\ rows \in Seq(Row) /\ Len(rows) <= Len(file.rows) /\ file.rows # <<>>
             /\ \A i \in 1 .. Len(rows) : rows[i] = file.rows[i]
  <2>1. k \in 0 .. Len(file.rows) /\ Len(file.rows) # 0  BY <1>1
  <2>2. file.rows # <<>>  BY <2>1, EmptySeq
  <2>3. /\ rows \in Seq(Row) /\ Len(rows) = k
        /\ \A i \in 1 .. k : rows[i] = file.rows[i]
    BY <1>1, <1>3, <2>1, PartType
  <2> QED  BY <1>1, <2>2, <2>3
<1>4. ASSUME NEW i \in DOMAIN file.rows, rows = [file.rows EXCEPT ![i] = minted + 1]
      PROVE  /\ rows \in Seq(Row) /\ Len(rows) <= Len(file.rows) /\ file.rows # <<>>
             /\ \A j \in 1 .. Len(rows) : rows[j] = file.rows[j] \/ rows[j] = minted + 1
  <2>1. i \in 1 .. Len(file.rows)  BY <1>1
  <2>2. file.rows # <<>>  BY <2>1, <1>1, EmptySeq
  <2>3. /\ rows \in Seq(Row) /\ Len(rows) = Len(file.rows)
        /\ \A j \in 1 .. Len(file.rows) : rows[j] = IF j = i THEN minted + 1 ELSE file.rows[j]
    BY <1>1, <1>2, <1>4, <2>1, ExceptSeq
  <2> QED  BY <1>1, <2>2, <2>3
<1> QED  BY <1>3, <1>4 DEF Edits

(* The initial state is well typed (NewMirror).                            *)
LEMMA TypedInit == Init => Typed
<1> SUFFICES ASSUME Init PROVE Typed  OBVIOUS
<1>1. file \in LogFile /\ file.rows = <<>> /\ file.tail = None
  BY EmptySeq, MirrorAssumption DEF Init, NoFile, LogFile
<1>2. store \in Store /\ store.generation = None  BY DEF Init, NewStore, Store
<1>3. mirror \in Memory /\ ~mirror.committed /\ mirror = Forgotten  BY ForgottenType DEF Init
<1>4. minted \in 0 .. MaxRow  BY MirrorAssumption DEF Init
<1> QED  BY <1>1, <1>2, <1>3, <1>4 DEF Init, Typed, TypeOK, StoreSound

(* What Mirror.Commit decides of the history it read: commitFull's verdict *)
(* or appendTail's.                                                        *)
Verdict ==
  IF call.tail.full THEN FullVerdict(mirror, call.tail, call.config, call.failed)
  ELSE TailVerdict(mirror, call.tail, call.config)

(* Judging ends the call, or names what it writes.                         *)
LEMMA JudgeCases ==
  ASSUME Judge
  PROVE  /\ call # None /\ call.at = "judge" /\ UNCHANGED <<file, minted, store>>
         /\ \/ Verdict = "refuse" /\ EndFailed /\ UNCHANGED mirror
            \/ /\ Verdict = "nothing" /\ EndOk
               /\ mirror' = [mirror EXCEPT !.cursor = call.tail.next]
            \/ /\ Verdict \in {"append", "replace"}
               /\ call' = Moved(call, Verdict)
               /\ UNCHANGED <<mirror, open, snap, outcome>>
BY DEF Judge, Verdict, Moved

(* What each verdict rests on (commitFull, appendTail).                    *)
LEMMA NothingMeans ==
  ASSUME Verdict = "nothing"
  PROVE  /\ call.config = mirror.record
         /\ call.tail.full => ExtendsCommitted(mirror, call.tail.rows)
                              /\ Len(call.tail.rows) = Len(mirror.rows)
         /\ ~call.tail.full => call.tail.rows = <<>>
BY DEF Verdict, FullVerdict, TailVerdict

(* The steps of a running commit keep the types. *)
LEMMA CommitTypes ==
  ASSUME Typed, UNCHANGED orderly,
         \/ \E c \in Config, wholly \in BOOLEAN : Commit(c, wholly)
         \/ \E c \in Config : CommitRereads(c)
         \/ Judge \/ Appends \/ AppendFails \/ Replaces \/ ReplaceFails \/ Reset
  PROVE  Typed'
<1> USE DEF Typed, TypeOK
<1>1. ASSUME NEW c \in Config, NEW wholly \in BOOLEAN, Commit(c, wholly)  PROVE Typed'
  <2> DEFINE from == IF mirror.committed THEN mirror.cursor ELSE Start
  <2>1. from \in Cursor  BY StartType DEF Memory
  <2>2. call' = Running("judge", ReadJSONL(file, from, wholly), c, FALSE)  BY <1>1 DEF Commit
  <2> HIDE DEF from
  <2>3. ReadJSONL(file, from, wholly) \in ReadTail  BY <2>1, ReadType
  <2>4. call' \in RunningCall /\ call'.at = "judge"
    <3>1. call' \in RunningCall  BY <2>2, <2>3, RunningType DEF Place
    <3> QED  BY <2>2, <3>1 DEF Running
  <2>5. snap' \in Snapshot  BY <1>1, SnapType DEF Commit, SnapOfFile, LogFile
  <2> QED  BY <1>1, <2>4, <2>5 DEF Commit
<1>2. ASSUME NEW c \in Config, CommitRereads(c)  PROVE Typed'
  <2>1. ReadJSONL(file, Start, TRUE) \in ReadTail  BY StartType, ReadType
  <2>2. call' \in RunningCall /\ call'.at = "judge"
    <3>1. call' \in RunningCall  BY <1>2, <2>1, RunningType DEF CommitRereads, Place
    <3> QED  BY <1>2, <3>1 DEF CommitRereads, Running
  <2>3. snap' \in Snapshot  BY <1>2, SnapType DEF CommitRereads, SnapOfFile, LogFile
  <2> QED  BY <1>2, <2>2, <2>3 DEF CommitRereads
<1>3. CASE Judge
  <2>1. call \in RunningCall /\ call.tail.next \in Cursor /\ UNCHANGED <<file, minted, store, orderly>>
    BY <1>3 DEF Judge, RunningCall, ReadTail
  <2>2. CASE EndFailed /\ UNCHANGED mirror
    BY <2>1, <2>2 DEF EndFailed
  <2>3. CASE Verdict = "nothing" /\ EndOk /\ mirror' = [mirror EXCEPT !.cursor = call.tail.next]
    <3>1. mirror' \in Memory /\ mirror'.committed = mirror.committed /\ mirror'.record = mirror.record
      BY <2>1, <2>3 DEF Memory
    <3>2. mirror.committed
      <4>1. mirror.record # None
        BY <2>1, <2>3, NothingMeans, NoneIsNoGeneration DEF RunningCall
      <4> QED  BY <4>1 DEF Forgotten
    <3> QED  BY <2>1, <2>3, <3>1, <3>2 DEF EndOk
  <2>4. CASE \E v \in {"append", "replace"} :
               call' = Moved(call, v) /\ UNCHANGED <<mirror, open, snap, outcome>>
    <3>1. call' \in RunningCall /\ call'.at \in {"append", "replace"}
      BY <2>1, <2>4, MovedType DEF Place
    <3> QED  BY <2>1, <2>4, <3>1
  <2> QED  BY <1>3, <2>2, <2>3, <2>4, JudgeCases
<1>4. CASE Appends
  <2>1. call \in RunningCall /\ call.tail \in ReadTail /\ call.tail.next \in Cursor /\ call.config \in Config
    BY <1>4 DEF Appends, RunningCall, ReadTail
  <2>2. Added(mirror, call.tail) \in Seq(Row)  BY <2>1, AddedType
  <2>3. StoreSound(store')  BY <1>4, <2>1, <2>2, AppendSound DEF Appends, AppendedStore
  <2>4. mirror' = Adopted(mirror.rows \o Added(mirror, call.tail), call.config, call.tail.next)
    BY <1>4, <2>1, <2>2, ExtendedType DEF Appends
  <2>5. mirror.rows \o Added(mirror, call.tail) \in Seq(Row)  BY <2>1, <2>2, ExtendedType
  <2> DEFINE rows == mirror.rows \o Added(mirror, call.tail)
  <2>6. mirror' \in Memory /\ mirror'.committed /\ mirror'.record = call.config
    <3>1. rows \in Seq(Row)  BY <2>5
    <3>2. mirror' = Adopted(rows, call.config, call.tail.next)  BY <2>4
    <3> HIDE DEF rows
    <3> QED  BY <2>1, <3>1, <3>2, AdoptedType
  <2>7. store' \in Store  BY <2>3 DEF StoreSound
  <2>8. UNCHANGED <<file, minted>> /\ EndOk  BY <1>4 DEF Appends
  <2> QED  BY <2>1, <2>3, <2>6, <2>7, <2>8 DEF EndOk
<1>5. CASE AppendFails
  <2>1. call \in RunningCall /\ call.tail \in ReadTail /\ call.config \in Config
    BY <1>5 DEF AppendFails, RunningCall
  <2>2. Added(mirror, call.tail) \in Seq(Row)  BY <2>1, AddedType
  <2>3. StoreSound(store')
    <3>1. store' = store \/ (~AppendRefused(store, Len(mirror.rows)) /\ store' = AppendedStore)
      BY <1>5 DEF AppendFails
    <3> QED  BY <2>1, <2>2, <3>1, AppendSound DEF AppendedStore
  <2>4. call' \in RunningCall  BY <1>5, <2>1 DEF AppendFails, RunningCall, Place
  <2> QED  BY <1>5, <2>3, <2>4 DEF AppendFails, StoreSound
<1>6. CASE Replaces
  <2>1. call \in RunningCall /\ call.tail.rows \in Seq(Row) /\ call.tail.next \in Cursor /\ call.config \in Config
    BY <1>6 DEF Replaces, RunningCall, ReadTail
  <2>2. StoreSound(store')  BY <1>6, <2>1, ReplaceSound DEF Replaces, ReplacedStore
  <2>3. mirror' \in Memory /\ mirror'.committed /\ mirror'.record = call.config
    BY <1>6, <2>1, AdoptedType DEF Replaces
  <2> QED  BY <1>6, <2>1, <2>2, <2>3 DEF Replaces, EndOk, StoreSound
<1>7. CASE ReplaceFails
  <2>1. call.tail.rows \in Seq(Row) /\ call.config \in Config
    BY <1>7 DEF ReplaceFails, RunningCall, ReadTail
  <2>2. store' = store \/ store' = ReplacedStore  BY <1>7 DEF ReplaceFails
  <2>3. StoreSound(store')  BY <2>1, <2>2, ReplaceSound DEF ReplacedStore
  <2> QED  BY <1>7, <2>3 DEF ReplaceFails, EndFailed, StoreSound
<1>8. CASE Reset
  BY <1>8, ForgottenType DEF Reset
<1> QED  BY <1>1, <1>2, <1>3, <1>4, <1>5, <1>6, <1>7, <1>8

(* The configuration that is in the store.                                 *)
StoredConfig == store.generation[ConfigSubpath][1]

(* A load begins with what the store holds (Mirror.Hydrate).               *)
LEMMA HydrateBegins ==
  ASSUME Typed, Hydrate
  PROVE  /\ call' \in RunningCall /\ call' # None /\ call'.at = "cut"
         /\ call'.tail.rows = store.generation[Main] /\ call'.config = StoredConfig
         /\ store.generation # None /\ call'.tail.rows \in Seq(Row) /\ StoredConfig \in Config
<1> DEFINE tail == [rows |-> store.generation[Main], next |-> Start, full |-> TRUE]
<1>1. /\ store.generation # None /\ store.generation[Main] \in Seq(Row)
      /\ StoredConfig \in Config
  BY DEF Hydrate, Loads, Typed, StoreSound, StoredConfig
<1>2. tail \in ReadTail  BY <1>1, StartType DEF ReadTail
<1>3. call' = Running("cut", tail, StoredConfig, FALSE)  BY DEF Hydrate, StoredConfig
<1>4. tail.rows = store.generation[Main]  OBVIOUS
<1> HIDE DEF tail
<1>5. call' \in RunningCall
  BY <1>1, <1>2, <1>3, RunningType DEF Place
<1>6. call'.at = "cut" /\ call'.tail = tail /\ call'.config = StoredConfig  BY <1>3 DEF Running
<1> QED  BY <1>1, <1>4, <1>5, <1>6, NoneIsNoRecord

(* The steps of a load keep the types. *)
LEMMA LoadTypes ==
  ASSUME Typed, UNCHANGED orderly,
         \/ NewSession \/ Adopt \/ Hydrate \/ HydrateCuts \/ HydrateTrims
         \/ HydrateAdoptsNative \/ HydrateAdoptsStored \/ HydrateRefused
         \/ HydrateWrites \/ HydrateFails
  PROVE  Typed'
<1> USE DEF Typed, TypeOK
<1>a. file.rows \in Seq(Row) /\ Len(file.rows) \in Nat /\ <<>> \in Seq(Row)
  BY LenProperties, EmptySeq DEF LogFile
<1>b. Loads => /\ store.generation[Main] \in Seq(Row)
               /\ store.generation[ConfigSubpath][1] \in Config
  BY DEF Loads, StoreSound
<1>1. CASE NewSession
  <2>1. NoFile \in LogFile /\ NoFile.rows = <<>> /\ NoFile.tail = None
    BY <1>a, MirrorAssumption DEF NoFile, LogFile
  <2> QED  BY <1>1, <2>1, ForgottenType DEF NewSession
<1>2. CASE Adopt
  <2>1. CursorAfter(file.id, file.rows) \in Cursor  BY <1>a, CursorAfterType DEF LogFile
  <2>2. mirror' \in Memory /\ mirror'.committed /\ mirror'.record \in Config
    BY <1>2, <1>a, <1>b, <2>1, AdoptedType DEF Adopt
  <2> QED  BY <1>2, <2>2 DEF Adopt
<1>3. CASE Hydrate
  BY <1>3, HydrateBegins, ForgottenType DEF Hydrate
<1>4. CASE HydrateCuts
  <2>1. call' \in RunningCall  BY <1>4 DEF HydrateCuts, RunningCall, Place
  <2>2. file.tail # None => file.tail.row \in Row
    BY MirrorAssumption DEF LogFile
  <2>3. file.tail # None => Append(file.rows, file.tail.row) \in Seq(Row)
    BY <1>a, <2>2, AppendProperties
  <2>4. file' \in LogFile /\ file'.tail = None /\ file'.id = file.id
    BY <1>4, <1>a, <2>3 DEF HydrateCuts, LogFile
  <2>5. file.id = 0 => file'.rows = <<>>
    BY <1>4 DEF HydrateCuts
  <2> QED  BY <1>4, <2>1, <2>4, <2>5 DEF HydrateCuts
<1>5. CASE HydrateTrims
  <2>1. call' \in RunningCall /\ call.tail.rows \in Seq(Row)
    BY <1>5 DEF HydrateTrims, RunningCall, Place, ReadTail
  <2> DEFINE kept == ValidPart(file.rows, Len(call.tail.rows))
  <2>2. Len(call.tail.rows) \in Nat  BY <2>1, LenProperties
  <2>3. kept \in Seq(Row) /\ Len(kept) <= Len(file.rows)
    BY <1>a, <2>2, ValidPartCuts
  <2>4. file' = [file EXCEPT !.rows = kept]  BY <1>5 DEF HydrateTrims
  <2> HIDE DEF kept
  <2>5. file' \in LogFile /\ file'.rows = kept /\ file'.tail = file.tail /\ file'.id = file.id
    BY <2>3, <2>4 DEF LogFile
  <2>6. file.id = 0 => kept = <<>>
    <3>1. file.rows = <<>> => Len(kept) = 0  BY <2>3, LenProperties
    <3> QED  BY <2>3, <3>1, EmptySeq
  <2> QED  BY <1>5, <2>1, <2>5, <2>6 DEF HydrateTrims
<1>6. CASE HydrateAdoptsNative
  <2>1. call.tail.rows \in Seq(Row) /\ call.config \in Config
    BY <1>6 DEF HydrateAdoptsNative, RunningCall, ReadTail
  <2>2. mirror' \in Memory /\ mirror'.committed /\ mirror'.record = call.config
    BY <1>6, <2>1, StartType, AdoptedType DEF HydrateAdoptsNative
  <2>3. ReadJSONL(file, Start, TRUE) \in ReadTail  BY StartType, ReadType
  <2>4. call' \in RunningCall
    BY <1>6, <2>1, <2>3, RunningType DEF HydrateAdoptsNative, Place
  <2>5. snap' \in Snapshot
    BY <1>6, <1>a, <2>1, SnapType DEF HydrateAdoptsNative, SnapOfFile
  <2> QED  BY <1>6, <2>1, <2>2, <2>4, <2>5 DEF HydrateAdoptsNative
<1>7. CASE HydrateAdoptsStored
  <2>1. call.tail.rows \in Seq(Row) /\ call.config \in Config /\ call' \in RunningCall
    BY <1>7 DEF HydrateAdoptsStored, RunningCall, ReadTail, Place
  <2>2. mirror' \in Memory /\ mirror'.committed /\ mirror'.record = call.config
    BY <1>7, <2>1, StartType, AdoptedType DEF HydrateAdoptsStored
  <2> QED  BY <1>7, <2>1, <2>2 DEF HydrateAdoptsStored
<1>8. CASE HydrateRefused
  BY <1>8 DEF HydrateRefused, EndFailed
<1>9. CASE HydrateWrites
  <2>1. call.tail.rows \in Seq(Row)
    BY <1>9 DEF HydrateWrites, RunningCall, ReadTail
  <2>2. file' \in LogFile /\ file'.tail = None /\ file'.id # 0 /\ file'.id \in 0 .. MaxFile
    BY <1>9, <2>1, MirrorAssumption DEF HydrateWrites, LogFile
  <2>3. CursorAfter(file'.id, call.tail.rows) \in Cursor  BY <2>1, <2>2, CursorAfterType
  <2>4. mirror' \in Memory /\ mirror'.committed = mirror.committed /\ mirror'.record = mirror.record
    BY <1>9, <2>3 DEF HydrateWrites, Memory
  <2> QED  BY <1>9, <2>2, <2>4 DEF HydrateWrites, EndOk
<1>10. CASE HydrateFails
  BY <1>10 DEF HydrateFails, EndFailed
<1> QED  BY <1>1, <1>2, <1>3, <1>4, <1>5, <1>6, <1>7, <1>8, <1>9, <1>10

(* What the harness writes leaves a log and the number of its last row.    *)
LEMMA HarnessTypes ==
  ASSUME Typed, UNCHANGED orderly, HarnessWrites \/ HarnessEndsLine \/ HarnessRewrites
  PROVE  Typed'
<1> USE DEF Typed, TypeOK
<1>a. file.rows \in Seq(Row) /\ file.id \in 0 .. MaxFile  BY DEF LogFile
<1>b. RowBound <= MaxRow /\ RowBound \in Nat  BY MirrorAssumption DEF RowBound
<1>1. CASE HarnessWrites
  <2>1. minted' = minted + 1 /\ minted' \in 1 .. MaxRow
    BY <1>1, <1>b, MirrorAssumption DEF HarnessWrites
  <2>2. minted' \in Row /\ -minted' \in Row  BY <2>1, MirrorAssumption
  <2> DEFINE id == IF Present THEN file.id ELSE 1
  <2>3. id \in 1 .. MaxFile  BY <1>a, MirrorAssumption DEF Present
  <2>4. PICK rows, tail :
          /\ file' = [id |-> id, rows |-> rows, tail |-> tail]
          /\ \/ (\E r \in {minted', -minted'} : rows = Append(file.rows, r)) /\ tail = None
             \/ rows = file.rows
                /\ \E object \in BOOLEAN : tail = [row |-> minted', object |-> object]
    BY <1>1 DEF HarnessWrites
  <2> HIDE DEF id
  <2>5. rows \in Seq(Row)
    <3>1. Append(file.rows, minted') \in Seq(Row) /\ Append(file.rows, -minted') \in Seq(Row)
      BY <1>a, <2>2, AppendProperties
    <3> QED  BY <1>a, <2>4, <3>1
  <2>6. tail # None => tail.row = minted'  BY <2>4
  <2>7. tail \in {None} \cup [row : 1 .. MaxRow, object : BOOLEAN]  BY <2>1, <2>4
  <2>8. file' \in LogFile /\ file'.id = id /\ file'.tail = tail
    BY <2>3, <2>4, <2>5, <2>7, MirrorAssumption DEF LogFile
  <2>9. minted' \in 0 .. MaxRow /\ id # 0  BY <2>1, <2>3
  <2> QED  BY <1>1, <2>6, <2>8, <2>9 DEF HarnessWrites
<1>2. CASE HarnessEndsLine
  <2>1. file.tail.row \in Row  BY <1>2, MirrorAssumption DEF HarnessEndsLine, LogFile
  <2>2. Append(file.rows, file.tail.row) \in Seq(Row)  BY <1>a, <2>1, AppendProperties
  <2>3. file' \in LogFile /\ file'.tail = None /\ file'.id # 0
    BY <1>2, <2>2 DEF HarnessEndsLine, LogFile
  <2> QED  BY <1>2, <2>3 DEF HarnessEndsLine
<1>3. CASE HarnessRewrites
  <2>a. minted < RowBound /\ minted' = minted + 1 /\ file.tail = None
    BY <1>3 DEF HarnessRewrites
  <2>1. minted' \in 0 .. MaxRow /\ minted < MaxRow  BY <2>a, <1>b, MirrorAssumption
  <2>2. PICK rows \in Edits(file.rows), id \in {file.id, file.id + 1} :
          /\ id # file.id => file.id < MaxFile
          /\ file' = [id |-> id, rows |-> rows, tail |-> None]
          /\ mirror' = mirror \/ (call = None /\ mirror' = Forgotten)
    <3>1. file = [id |-> file.id, rows |-> file.rows, tail |-> None]  BY <2>a DEF LogFile
    <3> QED  BY <1>3, <1>a, <3>1 DEF HarnessRewrites
  <2>3. rows \in Seq(Row) /\ file.rows # <<>>  BY <2>1, EditsType
  <2>4. id \in 1 .. MaxFile  BY <1>a, <2>2, <2>3, MirrorAssumption
  <2>5. file' \in LogFile /\ file'.tail = None /\ file'.id = id
    BY <2>2, <2>3, <2>4, MirrorAssumption DEF LogFile
  <2>6. UNCHANGED <<store, open, call, snap, outcome>>  BY <1>3 DEF HarnessRewrites
  <2> QED  BY <2>1, <2>2, <2>4, <2>5, <2>6, ForgottenType
<1> QED  BY <1>1, <1>2, <1>3

(* Another writer of the store publishes some rows, more or fewer than the *)
(* mirror counts, with the configuration that is there (Store.Append and   *)
(* Store.Replace called past the mirror).                                  *)
LEMMA BypassPublishes ==
  ASSUME Typed, Bypass
  PROVE  /\ StoredConfig \in Config
         /\ \E rows \in Seq(Row) :
              /\ Len(rows) # Len(mirror.rows)
              /\ Hydrating => Len(rows) # Len(call.tail.rows)
              /\ store' = Published(store, rows, StoredConfig)
<1> DEFINE old == store.generation[Main]
<1> DEFINE c == StoredConfig
<1>1. old \in Seq(Row) /\ c \in Config /\ store.generation = WholeGeneration(old, c)
  BY DEF Bypass, Typed, StoreSound, StoredConfig
<1>2. PICK rows \in {Append(old, Foreign), SubSeq(old, 1, Len(old) - 1)} :
        /\ Len(rows) # Len(mirror.rows)
        /\ Hydrating => Len(rows) # Len(call.tail.rows)
        /\ store' = [store EXCEPT !.generation[Main] = rows]
  BY DEF Bypass
<1>3. rows \in Seq(Row)
  <2>1. Foreign \in Row  BY MirrorAssumption DEF Foreign
  <2>2. Append(old, Foreign) \in Seq(Row)  BY <1>1, <2>1, AppendProperties
  <2>3. Len(old) \in Nat  BY <1>1, LenProperties
  <2>4. CASE Len(old) = 0
    <3>1. Len(old) - 1 < 1 /\ Len(old) - 1 \in Int /\ 1 \in Int  BY <2>4
    <3>2. SubSeq(old, 1, Len(old) - 1) = <<>>  BY <3>1, SubSeqEmpty
    <3> QED  BY <2>2, <3>2, EmptySeq
  <2>5. CASE Len(old) # 0
    <3>1. Len(old) - 1 \in 0 .. Len(old) /\ 1 \in Nat \ {0}  BY <2>3, <2>5
    <3>2. SubSeq(old, 1, Len(old) - 1) \in Seq(Row)  BY <1>1, <3>1, PartType
    <3> QED  BY <2>2, <3>2
  <2> QED  BY <2>4, <2>5
<1>4. store' = Published(store, rows, c)
  <2>1. store.generation = [p \in {Main, ConfigSubpath} |-> IF p = Main THEN old ELSE <<c>>]
    BY <1>1 DEF WholeGeneration
  <2> HIDE DEF old, c
  <2>2. Main # ConfigSubpath  BY DEF Main, ConfigSubpath
  <2>3. [store.generation EXCEPT ![Main] = rows] = WholeGeneration(rows, c)
    BY <2>1, <2>2 DEF WholeGeneration
  <2>4. store' = [store EXCEPT !.generation = [store.generation EXCEPT ![Main] = rows]]
    BY <1>2 DEF Typed, TypeOK, Store
  <2> QED  BY <2>3, <2>4 DEF Published
<1> QED  BY <1>1, <1>2, <1>3, <1>4

(* A crash, the loss of the native log, a deletion and the writes of       *)
(* others leave well-typed state.                                          *)
LEMMA OutsideTypes ==
  ASSUME Typed, UNCHANGED orderly, Crash \/ NativeStateLost \/ HostDeletes \/ Bypass
  PROVE  Typed'
<1> USE DEF Typed, TypeOK
<1>1. CASE Crash
  <2>1. StoreSound(store')
    <3>1. \/ store' = store
          \/ /\ call # None /\ call.at = "append"
             /\ ~AppendRefused(store, Len(mirror.rows)) /\ store' = AppendedStore
          \/ call # None /\ call.at = "replace" /\ store' = ReplacedStore
      BY <1>1 DEF Crash
    <3>2. ASSUME call # None
          PROVE  /\ call.tail \in ReadTail /\ call.tail.rows \in Seq(Row) /\ call.config \in Config
                 /\ Added(mirror, call.tail) \in Seq(Row)
      BY <3>2, AddedType DEF RunningCall, ReadTail
    <3> QED  BY <3>1, <3>2, AppendSound, ReplaceSound DEF AppendedStore, ReplacedStore
  <2>2. store' \in Store  BY <2>1 DEF StoreSound
  <2> QED  BY <1>1, <2>1, <2>2, ForgottenType DEF Crash
<1>2. CASE NativeStateLost
  <2>1. NoFile \in LogFile /\ NoFile.rows = <<>> /\ NoFile.tail = None
    BY EmptySeq, MirrorAssumption DEF NoFile, LogFile
  <2> QED  BY <1>2, <2>1 DEF NativeStateLost
<1>3. CASE HostDeletes
  <2>1. StoreSound(store')  BY <1>3 DEF HostDeletes, StoreDelete, StoreSound, Store
  <2>2. store' \in Store  BY <2>1 DEF StoreSound
  <2> QED  BY <1>3, <2>1, <2>2 DEF HostDeletes
<1>4. CASE Bypass
  <2>1. PICK rows \in Seq(Row) : store' = Published(store, rows, StoredConfig)
    BY <1>4, BypassPublishes
  <2>2. StoredConfig \in Config  BY <1>4, BypassPublishes
  <2>3. StoreSound(store')  BY <2>1, <2>2, PublishedSound
  <2>4. store' \in Store  BY <2>3 DEF StoreSound
  <2> QED  BY <1>4, <2>3, <2>4 DEF Bypass
<1> QED  BY <1>1, <1>2, <1>3, <1>4

(* Every step keeps the types. *)
LEMMA TypedNext == Typed /\ [Next]_vars => Typed'
<1>1. CASE UNCHANGED vars  BY <1>1 DEF vars, Typed, TypeOK
<1>2. Typed /\ Next => Typed'
  BY CommitTypes, LoadTypes, HarnessTypes, OutsideTypes DEF Next, Method, Continue, Environment
<1> QED  BY <1>1, <1>2

(* The mirror, the log and the store hold values of their types (Mirror,   *)
(* the log file, the store) in every reachable state.                      *)
THEOREM MirrorTypes == Spec => []TypeOK
<1>1. Typed => TypeOK  BY DEF Typed
<1> QED  BY <1>1, TypedInit, TypedNext, PTL DEF Spec

-----------------------------------------------------------------------------
(* Rows are written once *)

(* The number of the last completed line.                                  *)
Old == IF file.tail = None THEN minted ELSE minted - 1

Recent == -Old .. Old

(* Each row of the new log stood there before or is one that no copy of    *)
(* the log holds.                                                          *)
Grown(rows, new, known) ==
  \A i \in 1 .. Len(new) : (i <= Len(rows) /\ new[i] = rows[i]) \/ new[i] \notin known

(* The number of completed lines is one, and never falls.                  *)
LEMMA OldType ==
  /\ Typed => Old \in 0 .. MaxRow
  /\ (Typed /\ Typed' /\ Old <= Old') => Recent \subseteq Recent'
<1>1. ASSUME Typed  PROVE Old \in 0 .. MaxRow
  <2>1. file.tail # None => minted \in 1 .. MaxRow  BY <1>1 DEF Typed, TypeOK, LogFile
  <2>2. minted \in 0 .. MaxRow /\ MaxRow \in Nat  BY <1>1, MirrorAssumption DEF Typed, TypeOK
  <2> QED  BY <2>1, <2>2 DEF Old
<1>2. ASSUME Typed'  PROVE Old' \in 0 .. MaxRow
  <2>1. file'.tail # None => minted' \in 1 .. MaxRow  BY <1>2 DEF Typed, TypeOK, LogFile
  <2>2. minted' \in 0 .. MaxRow /\ MaxRow \in Nat  BY <1>2, MirrorAssumption DEF Typed, TypeOK
  <2>3. CASE file'.tail = None  BY <2>2, <2>3 DEF Old
  <2>4. CASE file'.tail # None
    <3>1. Old' = minted' - 1  BY <2>4 DEF Old
    <3>2. minted' \in 1 .. MaxRow  BY <2>1, <2>4
    <3>3. \A n \in 1 .. MaxRow : n - 1 \in 0 .. MaxRow  BY MirrorAssumption
    <3> HIDE DEF Old
    <3> QED  BY <3>1, <3>2, <3>3
  <2> QED  BY <2>3, <2>4
<1> QED  BY <1>1, <1>2 DEF Recent

(* What becomes of the log in a step that writes no stored rows to it: it  *)
(* grows by a new row, is rewritten with one, or loses an end.             *)
GrownStep ==
  /\ Old <= Old'
  /\ Grown(file.rows, file'.rows, Recent)
  /\ file.rows \in Seq(Recent) => file'.rows \in Seq(Recent')

(* A log that loses its end has grown by nothing (CutTornTail,             *)
(* cutInvalidRows, a log that is gone).                                    *)
LEMMA ShorterGrown ==
  ASSUME Typed, Typed', Old <= Old', Len(file'.rows) <= Len(file.rows),
         \A i \in 1 .. Len(file'.rows) : file'.rows[i] = file.rows[i]
  PROVE  GrownStep
<1>1. /\ file.rows \in Seq(Row) /\ file'.rows \in Seq(Row)
      /\ Len(file.rows) \in Nat /\ Len(file'.rows) \in Nat
  BY LenProperties DEF Typed, TypeOK, LogFile
<1>2. Grown(file.rows, file'.rows, Recent)  BY <1>1 DEF Grown
<1>3. ASSUME file.rows \in Seq(Recent)  PROVE file'.rows \in Seq(Recent')
  <2>1. \A i \in 1 .. Len(file.rows) : file.rows[i] \in Recent  BY <1>3, ElementOfSeq
  <2>2. Recent \subseteq Recent'  BY OldType
  <2>3. \A i \in 1 .. Len(file'.rows) : file'.rows[i] \in Recent'  BY <1>1, <2>1, <2>2
  <2> QED  BY <1>1, <2>3, SeqOver
<1> QED  BY <1>2, <1>3 DEF GrownStep

(* A log that one new row was appended to has grown.                       *)
LEMMA AppendGrown ==
  ASSUME Typed, Typed', Old <= Old', NEW r \in Row,
         file'.rows = Append(file.rows, r), r \notin Recent, r \in Recent'
  PROVE  GrownStep
<1>1. /\ file.rows \in Seq(Row) /\ file'.rows \in Seq(Row)
      /\ Len(file.rows) \in Nat /\ Len(file'.rows) = Len(file.rows) + 1
      /\ \A i \in 1 .. Len(file.rows) : file'.rows[i] = file.rows[i]
      /\ file'.rows[Len(file.rows) + 1] = r
  BY LenProperties, AppendProperties DEF Typed, TypeOK, LogFile
<1>2. Grown(file.rows, file'.rows, Recent)  BY <1>1 DEF Grown
<1>3. ASSUME file.rows \in Seq(Recent)  PROVE file'.rows \in Seq(Recent')
  <2>1. \A i \in 1 .. Len(file.rows) : file.rows[i] \in Recent  BY <1>3, ElementOfSeq
  <2>2. Recent \subseteq Recent'  BY OldType
  <2>3. \A i \in 1 .. Len(file'.rows) : file'.rows[i] \in Recent'  BY <1>1, <2>1, <2>2
  <2> QED  BY <1>1, <2>3, SeqOver
<1> QED  BY <1>2, <1>3 DEF GrownStep

(* Every step but the restoring one (WriteJSONL) leaves a grown log.       *)
LEMMA LogGrows ==
  ASSUME Typed, Typed', [Next]_vars, ~HydrateWrites
  PROVE  GrownStep
<1> USE DEF Typed, TypeOK
<1>a. /\ file.rows \in Seq(Row) /\ Len(file.rows) \in Nat /\ minted \in Nat
      /\ file.tail # None => file.tail.row = minted /\ minted \in 1 .. MaxRow
  BY LenProperties, MirrorAssumption DEF LogFile
<1>1. CASE UNCHANGED <<file, minted>>
  <2>1. Old' = Old  BY <1>1 DEF Old
  <2> QED  BY <1>1, <1>a, <2>1, OldType, ShorterGrown
<1>2. CASE file' = NoFile /\ minted' = minted
  <2>1. Len(file'.rows) = 0 /\ file'.tail = None  BY <1>2, EmptySeq DEF NoFile
  <2>2. Old <= Old'  BY <1>2, <1>a, <2>1 DEF Old
  <2> QED  BY <1>a, <2>1, <2>2, ShorterGrown
<1>3. CASE HydrateCuts
  <2>1. CASE file.tail = None
    BY <1>1, <1>3, <2>1 DEF HydrateCuts
  <2>2. CASE file.tail # None
    <3>1. file'.tail = None /\ minted' = minted  BY <1>3 DEF HydrateCuts, LogFile
    <3>2. Old = minted - 1 /\ Old' = minted  BY <2>2, <3>1 DEF Old
    <3>3. Old <= Old'  BY <1>a, <3>2
    <3>4. CASE file.tail.object
      <4>1. file'.rows = Append(file.rows, file.tail.row)
        BY <1>3, <2>2, <3>4 DEF HydrateCuts, LogFile
      <4>2. file.tail.row \in Row /\ file.tail.row \notin Recent /\ file.tail.row \in Recent'
        BY <1>a, <2>2, <3>2, MirrorAssumption DEF Recent
      <4> QED  BY <3>3, <4>1, <4>2, AppendGrown
    <3>5. CASE ~file.tail.object
      <4>1. file'.rows = file.rows  BY <1>3, <2>2, <3>5 DEF HydrateCuts, LogFile
      <4> QED  BY <1>a, <3>3, <4>1, ShorterGrown
    <3> QED  BY <3>4, <3>5
  <2> QED  BY <2>1, <2>2
<1>4. CASE HydrateTrims
  <2>1. Len(call.tail.rows) \in Nat
    BY <1>4, LenProperties DEF HydrateTrims, RunningCall, ReadTail
  <2>2. /\ file'.rows = ValidPart(file.rows, Len(call.tail.rows))
        /\ file'.tail = file.tail /\ minted' = minted
    BY <1>4 DEF HydrateTrims, LogFile
  <2>3. Old' = Old  BY <2>2 DEF Old
  <2> QED  BY <1>a, <2>1, <2>2, <2>3, OldType, ValidPartCuts, ShorterGrown
<1>5. CASE HarnessWrites
  <2>1. file.tail = None /\ minted' = minted + 1  BY <1>5 DEF HarnessWrites
  <2>2. CASE \E r \in {minted', -minted'} : file'.rows = Append(file.rows, r) /\ file'.tail = None
    <3>1. Old = minted /\ Old' = minted + 1  BY <2>1, <2>2 DEF Old
    <3>2. PICK r \in {minted', -minted'} : file'.rows = Append(file.rows, r)  BY <2>2
    <3>3. r \in Row /\ r \notin Recent /\ r \in Recent' /\ Old <= Old'
      BY <1>a, <2>1, <3>1, <3>2, MirrorAssumption DEF Recent
    <3> QED  BY <3>2, <3>3, AppendGrown
  <2>3. CASE file'.rows = file.rows /\ file'.tail # None
    <3>1. Old = minted /\ Old' = minted  BY <1>a, <2>1, <2>3 DEF Old
    <3> QED  BY <1>a, <2>3, <3>1, ShorterGrown
  <2>4. file'.tail \in {None} \cup [row : 1 .. MaxRow, object : BOOLEAN]  BY DEF LogFile
  <2> QED  BY <1>5, <2>2, <2>3, NoneIsNoRecord DEF HarnessWrites, LogFile
<1>6. CASE HarnessEndsLine
  <2>1. file'.tail = None /\ minted' = minted /\ file'.rows = Append(file.rows, file.tail.row)
        /\ file.tail # None
    BY <1>6 DEF HarnessEndsLine, LogFile
  <2>2. Old = minted - 1 /\ Old' = minted  BY <2>1 DEF Old
  <2>3. file.tail.row \in Row /\ file.tail.row \notin Recent /\ file.tail.row \in Recent' /\ Old <= Old'
    BY <1>a, <2>1, <2>2, MirrorAssumption DEF Recent
  <2> QED  BY <2>1, <2>3, AppendGrown
<1>7. CASE HarnessRewrites
  <2>1. minted < MaxRow /\ minted' = minted + 1 /\ file.tail = None
    BY <1>7, MirrorAssumption DEF HarnessRewrites, RowBound
  <2>2. PICK rows \in Edits(file.rows) : file'.rows = rows /\ file'.tail = None
    BY <1>7, <2>1 DEF HarnessRewrites, LogFile
  <2>3. /\ rows \in Seq(Row) /\ Len(rows) <= Len(file.rows) /\ Len(rows) \in Nat
        /\ \A i \in 1 .. Len(rows) : rows[i] = file.rows[i] \/ rows[i] = minted + 1
    BY <2>1, EditsType, LenProperties
  <2>4. Old = minted /\ Old' = minted + 1  BY <2>1, <2>2 DEF Old
  <2>5. /\ Old <= Old' /\ minted + 1 \notin Recent /\ minted + 1 \in Recent'
        /\ Recent \subseteq Recent'
    BY <1>a, <2>4 DEF Recent
  <2>6. Grown(file.rows, rows, Recent)
    BY <1>a, <2>3, <2>5 DEF Grown
  <2>7. ASSUME file.rows \in Seq(Recent)  PROVE rows \in Seq(Recent')
    <3>1. \A i \in 1 .. Len(file.rows) : file.rows[i] \in Recent  BY <2>7, ElementOfSeq
    <3>2. \A i \in 1 .. Len(rows) : rows[i] \in Recent'  BY <1>a, <2>3, <2>5, <3>1
    <3> QED  BY <2>3, <3>2, SeqOver
  <2> QED  BY <2>2, <2>5, <2>6, <2>7 DEF GrownStep
<1>8. CASE UNCHANGED vars  BY <1>1, <1>8 DEF vars
<1>9. CASE Next
  <2>1. Method => UNCHANGED <<file, minted>> \/ (file' = NoFile /\ minted' = minted)
    BY DEF Method, Commit, Reset, NewSession, Adopt, Hydrate
  <2>2. Continue => UNCHANGED <<file, minted>> \/ HydrateCuts \/ HydrateTrims
    BY DEF Continue, CommitRereads, Judge, Appends, AppendFails, Replaces, ReplaceFails,
           HydrateAdoptsNative, HydrateAdoptsStored, HydrateRefused, HydrateFails
  <2>3. Environment => \/ UNCHANGED <<file, minted>> \/ (file' = NoFile /\ minted' = minted)
                       \/ HarnessWrites \/ HarnessEndsLine \/ HarnessRewrites
    BY DEF Environment, Crash, NativeStateLost, HostDeletes, Bypass
  <2> QED  BY <1>1, <1>2, <1>3, <1>4, <1>5, <1>6, <1>7, <1>9, <2>1, <2>2, <2>3 DEF Next
<1> QED  BY <1>8, <1>9

(* The rows of every copy of the log are from a set.                       *)
CopiesOver(S) ==
  /\ mirror.rows \in Seq(S)
  /\ snap # None => snap.rows \in Seq(S)
  /\ call # None => call.tail.rows \in Seq(S)
  /\ store.generation # None => store.generation[Main] \in Seq(S)

(* Only completed lines were ever copied.                                  *)
Fresh == file.rows \in Seq(Recent) /\ CopiesOver(Recent)

(* An append to the store writes rows of the history that was read.        *)
LEMMA AddedOver ==
  ASSUME NEW S, NEW m \in Memory, NEW tail \in ReadTail, tail.rows \in Seq(S)
  PROVE  Added(m, tail) \in Seq(S)
<1>1. /\ Len(tail.rows) \in 0 .. Len(tail.rows) /\ Len(m.rows) + 1 \in Nat \ {0}
  BY LenProperties DEF Memory, ReadTail
<1>2. SubSeq(tail.rows, Len(m.rows) + 1, Len(tail.rows)) \in Seq(S)  BY <1>1, PartOf
<1> QED  BY <1>2 DEF Added

(* What an append or a replacement leaves in the store comes from what the *)
(* store held and what the call read.                                      *)
LEMMA WrittenOver ==
  ASSUME NEW S, Typed, CopiesOver(S), call # None
  PROVE  /\ (~AppendRefused(store, Len(mirror.rows)) /\ AppendedStore.generation # None) =>
              AppendedStore.generation[Main] \in Seq(S)
         /\ ReplacedStore.generation # None => ReplacedStore.generation[Main] \in Seq(S)
<1>1. /\ call.tail \in ReadTail /\ call.tail.rows \in Seq(Row) /\ call.config \in Config
      /\ mirror \in Memory /\ StoreSound(store)
  BY DEF Typed, TypeOK, RunningCall, ReadTail
<1>2. Added(mirror, call.tail) \in Seq(Row) /\ Added(mirror, call.tail) \in Seq(S)
  BY <1>1, AddedType, AddedOver DEF CopiesOver
<1>3. CASE store.deleted
  BY <1>3 DEF AppendedStore, ReplacedStore, StoreAppend, StoreReplace, CopiesOver
<1>4. CASE ~store.deleted
  <2>1. ReplacedStore = Published(store, call.tail.rows, call.config)
    BY <1>1, <1>4, ReplaceSound DEF ReplacedStore
  <2>2. ReplacedStore.generation[Main] \in Seq(S)
    BY <1>1, <2>1, PublishedSound, GenerationParts DEF CopiesOver
  <2>3. ASSUME ~AppendRefused(store, Len(mirror.rows))
        PROVE  AppendedStore.generation[Main] \in Seq(S)
    <3> DEFINE old == store.generation[Main]
    <3> DEFINE c == AppendedConfig(store, mirror, call.config)
    <3> DEFINE new == old \o Added(mirror, call.tail)
    <3>1. /\ store.generation # None /\ old \in Seq(Row)
          /\ store.generation[ConfigSubpath][1] \in Config
          /\ AppendedStore = Published(store, new, c)
      BY <1>1, <1>2, <1>4, <2>3, AppendWhole DEF AppendedStore
    <3>2. c \in Config  BY <1>1, <3>1 DEF AppendedConfig
    <3>3. old \in Seq(S)  BY <3>1 DEF CopiesOver
    <3>4. new \in Seq(Row) /\ new \in Seq(S)
      <4>1. new \in Seq(Row)  BY <1>2, <3>1, ConcatProperties
      <4>2. new \in Seq(S)  BY <1>2, <3>3, ConcatProperties
      <4> QED  BY <4>1, <4>2
    <3> HIDE DEF new, c
    <3>5. AppendedStore.generation = WholeGeneration(new, c)
      BY <1>1, <3>1, <3>2, <3>4, PublishedSound
    <3>6. AppendedStore.generation[Main] = new  BY <3>2, <3>4, <3>5, GenerationParts
    <3> QED  BY <3>4, <3>6
  <2> QED  BY <2>2, <2>3
<1> QED  BY <1>3, <1>4

(* Calls copy rows from copies and from the log.                           *)
LEMMA CommitCopies ==
  ASSUME NEW S, Typed, Typed', file.rows \in Seq(S), CopiesOver(S),
         \/ \E c \in Config, wholly \in BOOLEAN : Commit(c, wholly)
         \/ \E c \in Config : CommitRereads(c)
         \/ Judge \/ Appends \/ AppendFails \/ Replaces \/ ReplaceFails \/ Reset
  PROVE  CopiesOver(S)'
<1>a. /\ <<>> \in Seq(S) /\ file \in LogFile /\ mirror \in Memory /\ call \in {None} \cup RunningCall
      /\ Start \in Cursor
  BY EmptySeq, StartType DEF Typed, TypeOK
<1>b. ASSUME NEW from \in Cursor, NEW wholly \in BOOLEAN
      PROVE  ReadJSONL(file, from, wholly).rows \in Seq(S)
  <2>1. Len(file.rows) \in 0 .. Len(file.rows) /\ from.offset + 1 \in Nat \ {0}
    BY LenProperties DEF Cursor
  <2>2. SubSeq(file.rows, from.offset + 1, Len(file.rows)) \in Seq(S)  BY <2>1, PartOf
  <2> QED  BY <1>a, <2>2, ReadType
<1>1. ASSUME NEW c \in Config, NEW wholly \in BOOLEAN, Commit(c, wholly)
      PROVE  CopiesOver(S)'
  <2> DEFINE from == IF mirror.committed THEN mirror.cursor ELSE Start
  <2>1. from \in Cursor  BY <1>a DEF Memory
  <2>2. call' = Running("judge", ReadJSONL(file, from, wholly), c, FALSE)  BY <1>1 DEF Commit
  <2> HIDE DEF from
  <2>3. ReadJSONL(file, from, wholly).rows \in Seq(S)  BY <1>b, <2>1
  <2>4. call'.tail.rows \in Seq(S)  BY <2>2, <2>3 DEF Running
  <2>5. snap'.rows \in Seq(S)  BY <1>1 DEF Commit, SnapOfFile
  <2> QED  BY <1>1, <2>4, <2>5 DEF Commit, CopiesOver
<1>2. ASSUME NEW c \in Config, CommitRereads(c)  PROVE CopiesOver(S)'
  <2>1. ReadJSONL(file, Start, TRUE).rows \in Seq(S)  BY <1>a, <1>b
  <2>2. call'.tail.rows \in Seq(S)  BY <1>2, <2>1 DEF CommitRereads, Running
  <2>3. snap'.rows \in Seq(S)  BY <1>2 DEF CommitRereads, SnapOfFile
  <2> QED  BY <1>2, <2>2, <2>3 DEF CommitRereads, CopiesOver
<1>3. CASE Judge
  <2>1. mirror'.rows = mirror.rows /\ UNCHANGED store  BY <1>3, <1>a DEF Judge, Memory, EndFailed, EndOk
  <2>2. \/ call' = None /\ snap' = None
        \/ snap' = snap /\ call # None /\ call'.tail = call.tail
    BY <1>3, <1>a DEF Judge, EndFailed, EndOk, RunningCall
  <2> QED  BY <2>1, <2>2 DEF CopiesOver
<1>4. CASE Appends
  <2>1. /\ call # None /\ call.tail \in ReadTail /\ call.tail.next \in Cursor /\ call.config \in Config
        /\ store' = AppendedStore /\ ~AppendRefused(store, Len(mirror.rows))
        /\ mirror' = Extended(mirror, Added(mirror, call.tail), call.config, call.tail.next)
    BY <1>4, <1>a DEF Appends, RunningCall, ReadTail
  <2>2. Added(mirror, call.tail) \in Seq(S)  BY <1>a, <2>1, AddedOver DEF CopiesOver
  <2>3. mirror.rows \o Added(mirror, call.tail) \in Seq(S)
    BY <2>2, ConcatProperties DEF CopiesOver
  <2>4. mirror'.rows \in Seq(S)  BY <2>1, <2>3 DEF Extended
  <2>5. call' = None /\ snap' = None  BY <1>4 DEF Appends, EndOk
  <2>6. store'.generation # None => store'.generation[Main] \in Seq(S)  BY <2>1, WrittenOver
  <2> QED  BY <2>4, <2>5, <2>6 DEF CopiesOver
<1>5. CASE AppendFails
  <2>1. \/ store' = store
        \/ store' = AppendedStore /\ ~AppendRefused(store, Len(mirror.rows))
    BY <1>5 DEF AppendFails
  <2>2. call # None /\ call'.tail = call.tail /\ UNCHANGED <<mirror, snap>>
    BY <1>5, <1>a DEF AppendFails, RunningCall
  <2>3. store'.generation # None => store'.generation[Main] \in Seq(S)
    BY <2>1, <2>2, WrittenOver DEF CopiesOver
  <2> QED  BY <2>2, <2>3 DEF CopiesOver
<1>6. CASE Replaces
  <2>1. call # None /\ store' = ReplacedStore /\ mirror'.rows = call.tail.rows
    BY <1>6 DEF Replaces, Adopted
  <2>2. call' = None /\ snap' = None  BY <1>6 DEF Replaces, EndOk
  <2> QED  BY <2>1, <2>2, WrittenOver DEF CopiesOver
<1>7. CASE ReplaceFails
  <2>1. call # None /\ (store' = store \/ store' = ReplacedStore) /\ UNCHANGED mirror
    BY <1>7 DEF ReplaceFails
  <2>2. call' = None /\ snap' = None  BY <1>7 DEF ReplaceFails, EndFailed
  <2> QED  BY <2>1, <2>2, WrittenOver DEF CopiesOver
<1>8. CASE Reset
  BY <1>8, <1>a DEF Reset, CopiesOver, Forgotten
<1> QED  BY <1>1, <1>2, <1>3, <1>4, <1>5, <1>6, <1>7, <1>8

(* So do loads. *)
LEMMA LoadCopies ==
  ASSUME NEW S, Typed, Typed', file.rows \in Seq(S), CopiesOver(S),
         \/ NewSession \/ Adopt \/ Hydrate \/ HydrateCuts \/ HydrateTrims
         \/ HydrateAdoptsNative \/ HydrateAdoptsStored \/ HydrateRefused
         \/ HydrateWrites \/ HydrateFails
  PROVE  CopiesOver(S)'
<1>a. /\ <<>> \in Seq(S) /\ Forgotten.rows = <<>> /\ mirror \in Memory
      /\ call \in {None} \cup RunningCall /\ file \in LogFile /\ Start \in Cursor
  BY EmptySeq, StartType DEF Forgotten, Typed, TypeOK
<1>1. CASE NewSession
  BY <1>1, <1>a DEF NewSession, CopiesOver
<1>2. CASE Adopt
  <2>1. mirror'.rows = file.rows /\ snap' = None /\ UNCHANGED <<store, call>>
    BY <1>2 DEF Adopt, Adopted
  <2> QED  BY <2>1 DEF CopiesOver
<1>3. CASE Hydrate
  <2>1. call'.tail.rows = store.generation[Main] /\ store.generation # None
    BY <1>3 DEF Hydrate, Loads, Running
  <2>2. mirror'.rows = <<>> /\ snap' = None /\ UNCHANGED store  BY <1>3, <1>a DEF Hydrate
  <2> QED  BY <1>a, <2>1, <2>2 DEF CopiesOver
<1>4. CASE HydrateCuts \/ HydrateTrims
  <2>1. call # None /\ call'.tail = call.tail /\ UNCHANGED <<store, mirror, snap>>
    BY <1>4, <1>a DEF HydrateCuts, HydrateTrims, RunningCall
  <2> QED  BY <2>1 DEF CopiesOver
<1>5. CASE HydrateAdoptsNative
  <2>1. ReadJSONL(file, Start, TRUE).rows \in Seq(S)
    BY <1>a, ReadType DEF ReadJSONL, Extends
  <2>2. call'.tail.rows \in Seq(S)  BY <1>5, <2>1 DEF HydrateAdoptsNative, Running
  <2>3. snap'.rows \in Seq(S)  BY <1>5 DEF HydrateAdoptsNative, SnapOfFile
  <2>4. mirror'.rows = call.tail.rows /\ call # None /\ UNCHANGED store
    BY <1>5 DEF HydrateAdoptsNative, Adopted
  <2> QED  BY <2>2, <2>3, <2>4 DEF CopiesOver
<1>6. CASE HydrateAdoptsStored
  <2>1. mirror'.rows = call.tail.rows /\ call # None /\ call'.tail = call.tail
        /\ UNCHANGED <<store, snap>>
    BY <1>6, <1>a DEF HydrateAdoptsStored, Adopted, RunningCall
  <2> QED  BY <2>1 DEF CopiesOver
<1>7. CASE HydrateRefused \/ HydrateFails
  BY <1>7 DEF HydrateRefused, HydrateFails, EndFailed, CopiesOver
<1>8. CASE HydrateWrites
  <2>1. mirror'.rows = mirror.rows /\ call' = None /\ snap' = None /\ UNCHANGED store
    BY <1>8, <1>a DEF HydrateWrites, EndOk, Memory
  <2> QED  BY <2>1 DEF CopiesOver
<1> QED  BY <1>1, <1>2, <1>3, <1>4, <1>5, <1>6, <1>7, <1>8

(* What others write to the store is no line of the log's, and no later    *)
(* one (Store.Append and Store.Replace called past the mirror).            *)
LEMMA OutsideCopies ==
  ASSUME NEW S, Foreign \in S, Typed, Typed', file.rows \in Seq(S), CopiesOver(S), Environment
  PROVE  CopiesOver(S)'
<1>a. <<>> \in Seq(S) /\ Forgotten.rows = <<>>  BY EmptySeq DEF Forgotten
<1>1. CASE HarnessWrites \/ HarnessEndsLine \/ NativeStateLost
  BY <1>1 DEF HarnessWrites, HarnessEndsLine, NativeStateLost, CopiesOver
<1>2. CASE HarnessRewrites
  BY <1>2, <1>a DEF HarnessRewrites, CopiesOver
<1>3. CASE Crash
  <2>1. mirror'.rows = <<>> /\ snap' = None /\ call' = None  BY <1>3, <1>a DEF Crash
  <2>2. \/ store' = store
        \/ call # None /\ ~AppendRefused(store, Len(mirror.rows)) /\ store' = AppendedStore
        \/ call # None /\ store' = ReplacedStore
    BY <1>3 DEF Crash
  <2> QED  BY <1>a, <2>1, <2>2, WrittenOver DEF CopiesOver
<1>4. CASE HostDeletes
  BY <1>4 DEF HostDeletes, StoreDelete, CopiesOver
<1>5. CASE Bypass
  <2> DEFINE old == store.generation[Main]
  <2>1. /\ store.generation # None /\ UNCHANGED <<mirror, snap, call>>
        /\ store' \in {[store EXCEPT !.generation[Main] = rows] :
                         rows \in {Append(old, Foreign), SubSeq(old, 1, Len(old) - 1)}}
    BY <1>5 DEF Bypass
  <2>2. old \in Seq(S) /\ Len(old) \in Nat  BY <2>1, LenProperties DEF CopiesOver
  <2>3. Append(old, Foreign) \in Seq(S)  BY <2>2, AppendProperties
  <2>4. SubSeq(old, 1, Len(old) - 1) \in Seq(S)
    <3>1. CASE Len(old) = 0
      <4>1. Len(old) - 1 < 1 /\ Len(old) - 1 \in Int /\ 1 \in Int  BY <3>1
      <4>2. SubSeq(old, 1, Len(old) - 1) = <<>>  BY <4>1, SubSeqEmpty
      <4> QED  BY <4>2, EmptySeq
    <3>2. CASE Len(old) # 0
      <4>1. Len(old) - 1 \in 0 .. Len(old) /\ 1 \in Nat \ {0}  BY <2>2, <3>2
      <4> QED  BY <2>2, <4>1, PartOf
    <3> QED  BY <3>1, <3>2
  <2>5. PICK rows \in {Append(old, Foreign), SubSeq(old, 1, Len(old) - 1)} :
          store' = [store EXCEPT !.generation[Main] = rows]
    BY <2>1
  <2>6. store'.generation[Main] = rows
    BY <2>1, <2>5 DEF Typed, StoreSound, Store, Generation
  <2> HIDE DEF old
  <2> QED  BY <2>1, <2>3, <2>4, <2>5, <2>6 DEF CopiesOver
<1> QED  BY <1>1, <1>2, <1>3, <1>4, <1>5 DEF Environment

(* Only completed lines are ever copied, whatever happens to the log. *)
LEMMA FreshInit == Init => Fresh
BY EmptySeq DEF Init, Fresh, CopiesOver, NoFile, Forgotten, NewStore

(* Every step copies rows that were completed before it.                   *)
LEMMA FreshNext ==
  ASSUME Typed, Typed', Fresh, [Next]_vars
  PROVE  Fresh' /\ Recent \subseteq Recent'
<1>1. Old <= Old' /\ Recent \subseteq Recent'
  <2>1. Old <= Old'
    <3>1. CASE ~HydrateWrites  BY <3>1, LogGrows DEF GrownStep
    <3>2. CASE HydrateWrites
      <4>1. minted' = minted /\ file'.tail = None  BY <3>2 DEF HydrateWrites
      <4>2. Old' = minted  BY <4>1 DEF Old
      <4>3. minted \in Nat  BY DEF Typed, TypeOK
      <4>4. Old <= minted  BY <4>3 DEF Old
      <4> HIDE DEF Old
      <4> QED  BY <4>2, <4>4
    <3> QED  BY <3>1, <3>2
  <2> QED  BY <2>1, OldType
<1>2. PICK n \in 0 .. MaxRow : n = Old  BY OldType
<1>3. CopiesOver(-n .. n)'
  <2>1. Foreign \in -n .. n  BY MirrorAssumption DEF Foreign
  <2>2. file.rows \in Seq(-n .. n) /\ CopiesOver(-n .. n)
    BY <1>2 DEF Fresh, CopiesOver, Recent
  <2>3. CASE UNCHANGED vars  BY <2>2, <2>3 DEF vars, CopiesOver
  <2>4. CASE Next
    BY <2>1, <2>2, <2>4, CommitCopies, LoadCopies, OutsideCopies DEF Next, Method, Continue
  <2> QED  BY <2>3, <2>4
<1>4. -n .. n \subseteq Recent'  BY <1>1, <1>2 DEF Recent
<1>5. \A s \in Seq(-n .. n) : s \in Seq(Recent')  BY <1>4, SeqMonotonic
<1>6. CopiesOver(-n .. n)' => (CopiesOver(Recent))'  BY <1>5 DEF CopiesOver
<1>7. file'.rows \in Seq(Recent')
  <2>1. CASE ~HydrateWrites  BY <2>1, LogGrows DEF GrownStep, Fresh
  <2>2. CASE HydrateWrites
    <3>1. file'.rows = call.tail.rows /\ call # None  BY <2>2 DEF HydrateWrites
    <3>2. call.tail.rows \in Seq(-n .. n)  BY <1>2, <3>1 DEF Fresh, CopiesOver, Recent
    <3> QED  BY <1>5, <3>1, <3>2
  <2> QED  BY <2>1, <2>2
<1> QED  BY <1>1, <1>3, <1>6, <1>7 DEF Fresh

-----------------------------------------------------------------------------
(* Where a call stands *)

(* A commit, or the commit a load ends with, has read the history.         *)
Reading == call # None /\ call.at \in {"judge", "append", "replace"}

(* A call that runs has no outcome yet, and one that has read remembers    *)
(* what.  No read starts from a cursor until the session is open, and a    *)
(* load that has begun found something in the store, or it was deleted.    *)
ControlSound ==
  /\ call = None => snap = None
  /\ call # None => outcome = "none"
  /\ Reading => snap # None /\ snap.config = call.config
  /\ Hydrating => ~open /\ snap = None
  /\ ~open => mirror.cursor.offset = 0
  /\ (~open /\ (call # None \/ outcome # "none")) => store # NewStore

(* The ways the store's record changes: not at all, by a deletion, or to a *)
(* published generation, which a deleted session never gets (Store.Append, *)
(* Store.Replace, Store.Delete).                                           *)
LEMMA StoreMoves ==
  ASSUME Typed, [Next]_vars
  PROVE  \/ store' = store
         \/ store' = StoreDelete(store)
         \/ /\ ~store.deleted \/ store.generation # None
            /\ \E rows \in Seq(Row), c \in Config : store' = Published(store, rows, c)
<1> DEFINE Moves == \/ store' = store
                    \/ store' = StoreDelete(store)
                    \/ /\ ~store.deleted \/ store.generation # None
                       /\ \E rows \in Seq(Row), c \in Config : store' = Published(store, rows, c)
<1>1. CASE store' = store \/ store' = StoreDelete(store)  BY <1>1
<1>2. CASE call # None /\ store' = ReplacedStore
  <2>1. /\ call.tail.rows \in Seq(Row) /\ call.config \in Config /\ StoreSound(store)
    BY <1>2 DEF Typed, TypeOK, RunningCall, ReadTail
  <2>2. CASE store.deleted  BY <1>2, <2>2 DEF ReplacedStore, StoreReplace
  <2>3. CASE ~store.deleted
    <3>1. store' = Published(store, call.tail.rows, call.config)
      BY <1>2, <2>1, <2>3, ReplaceSound DEF ReplacedStore
    <3> QED  BY <2>1, <2>3, <3>1
  <2> QED  BY <2>2, <2>3
<1>3. CASE call # None /\ ~AppendRefused(store, Len(mirror.rows)) /\ store' = AppendedStore
  <2>1. /\ call.tail \in ReadTail /\ call.config \in Config /\ StoreSound(store) /\ mirror \in Memory
    BY <1>3 DEF Typed, TypeOK, RunningCall
  <2>2. Added(mirror, call.tail) \in Seq(Row)  BY <2>1, AddedType
  <2>3. CASE store.deleted  BY <1>3, <2>3 DEF AppendedStore, StoreAppend
  <2>4. CASE ~store.deleted
    <3> DEFINE new == store.generation[Main] \o Added(mirror, call.tail)
    <3> DEFINE c == AppendedConfig(store, mirror, call.config)
    <3>1. /\ store.generation[Main] \in Seq(Row) /\ store.generation[ConfigSubpath][1] \in Config
          /\ store' = Published(store, new, c)
      BY <1>3, <2>1, <2>2, <2>4, AppendWhole DEF AppendedStore
    <3>2. new \in Seq(Row) /\ c \in Config
      BY <2>1, <2>2, <3>1, ConcatProperties DEF AppendedConfig
    <3> HIDE DEF new, c
    <3> QED  BY <2>4, <3>1, <3>2
  <2> QED  BY <2>3, <2>4
<1>4. CASE Bypass
  <2>1. StoredConfig \in Config /\ store.generation # None  BY <1>4, BypassPublishes DEF Bypass
  <2>2. PICK rows \in Seq(Row) : store' = Published(store, rows, StoredConfig)
    BY <1>4, BypassPublishes
  <2> QED  BY <2>1, <2>2
<1>5. CASE UNCHANGED vars  BY <1>1, <1>5 DEF vars
<1>6. CASE Next
  <2>1. Method => store' = store
    BY DEF Method, Commit, Reset, NewSession, Adopt, Hydrate
  <2>2. Continue => \/ store' = store \/ (call # None /\ store' = ReplacedStore)
                    \/ /\ call # None /\ ~AppendRefused(store, Len(mirror.rows))
                       /\ store' = AppendedStore
    BY DEF Continue, CommitRereads, Judge, Appends, AppendFails, Replaces, ReplaceFails,
           HydrateCuts, HydrateTrims, HydrateAdoptsNative, HydrateAdoptsStored,
           HydrateRefused, HydrateWrites, HydrateFails
  <2>3. Environment => \/ store' = store \/ (call # None /\ store' = ReplacedStore)
                       \/ /\ call # None /\ ~AppendRefused(store, Len(mirror.rows))
                          /\ store' = AppendedStore
                       \/ store' = StoreDelete(store) \/ Bypass
    BY DEF Environment, Crash, NativeStateLost, HostDeletes, HarnessWrites, HarnessEndsLine,
           HarnessRewrites
  <2> HIDE DEF Moves
  <2> QED  BY <1>1, <1>2, <1>3, <1>4, <1>6, <2>1, <2>2, <2>3 DEF Next
<1> QED  BY <1>5, <1>6

(* Once the session has been written it is never new again.                *)
LEMMA StoreStays ==
  ASSUME Typed, [Next]_vars, store # NewStore
  PROVE  store' # NewStore
<1>1. CASE store' = store  BY <1>1
<1>2. CASE store' = StoreDelete(store)  BY <1>2 DEF StoreDelete, NewStore
<1>3. ASSUME NEW rows \in Seq(Row), NEW c \in Config, store' = Published(store, rows, c)
      PROVE  store' # NewStore
  <2>1. store'.generation = WholeGeneration(rows, c)  BY <1>3, PublishedSound DEF Typed
  <2>2. store'.generation # None  BY <2>1, GenerationParts
  <2> QED  BY <2>2 DEF NewStore
<1> QED  BY <1>1, <1>2, <1>3, StoreMoves

(* A deleted session holds nothing (Store.Delete).                         *)
DeletedEmpty == store.deleted => store.generation = None

(* A deleted session holds nothing ever after (Store.Replace, Append).     *)
LEMMA DeletedNext ==
  ASSUME Typed, DeletedEmpty, [Next]_vars
  PROVE  DeletedEmpty'
<1>1. CASE store' = store  BY <1>1 DEF DeletedEmpty
<1>2. CASE store' = StoreDelete(store)  BY <1>2 DEF StoreDelete, DeletedEmpty
<1>3. ASSUME NEW rows \in Seq(Row), NEW c \in Config, store' = Published(store, rows, c),
             ~store.deleted \/ store.generation # None
      PROVE  DeletedEmpty'
  BY <1>3, PublishedSound DEF Typed, DeletedEmpty
<1> QED  BY <1>1, <1>2, <1>3, StoreMoves

(* No call runs at first (NewMirror).                                      *)
LEMMA ControlInit == Init => ControlSound
BY DEF Init, ControlSound, Reading, Hydrating, Forgotten, Start

(* A call ends with an outcome, in every case an open session or a store   *)
(* that is no longer new.                                                  *)
LEMMA ControlNext ==
  ASSUME Typed, Typed', ControlSound, [Next]_vars
  PROVE  ControlSound'
<1>a. store # NewStore => store' # NewStore  BY StoreStays
<1>b. /\ call \in {None} \cup RunningCall /\ call' \in {None} \cup RunningCall /\ mirror \in Memory
      /\ Start.offset = 0 /\ Forgotten.cursor = Start
  BY DEF Typed, TypeOK, Start, Forgotten
<1> USE DEF ControlSound, Reading, Hydrating
<1>1. ASSUME NEW c \in Config, NEW tail \in ReadTail, NEW failed \in BOOLEAN,
             call' = Running("judge", tail, c, failed), snap' = SnapOfFile(c),
             outcome' = "none", ~open' => mirror'.cursor.offset = 0,
             ~open' => store' # NewStore
      PROVE  ControlSound'
  <2>1. call' # None /\ call'.at = "judge" /\ call'.config = c
    BY <1>1, RunningType DEF Place
  <2>2. snap' # None /\ snap'.config = c
    BY <1>1, SnapType DEF SnapOfFile, Typed, TypeOK, LogFile
  <2> QED  BY <1>1, <2>1, <2>2
<1>2. ASSUME NEW c \in Config, NEW wholly \in BOOLEAN, Commit(c, wholly)  PROVE ControlSound'
  <2> DEFINE from == IF mirror.committed THEN mirror.cursor ELSE Start
  <2> DEFINE tail == ReadJSONL(file, from, wholly)
  <2>1. from \in Cursor  BY <1>b, StartType DEF Memory
  <2>2. tail \in ReadTail
    <3> HIDE DEF from
    <3> QED  BY <2>1, ReadType DEF Typed, TypeOK
  <2>3. /\ call' = Running("judge", tail, c, FALSE) /\ snap' = SnapOfFile(c)
        /\ outcome' = "none" /\ open'
    BY <1>2 DEF Commit
  <2> HIDE DEF tail
  <2> QED  BY <1>1, <2>2, <2>3
<1>3. ASSUME NEW c \in Config, CommitRereads(c)  PROVE ControlSound'
  <2> DEFINE tail == ReadJSONL(file, Start, TRUE)
  <2>1. tail \in ReadTail  BY StartType, ReadType DEF Typed, TypeOK
  <2>2. /\ call' = Running("judge", tail, c, TRUE) /\ snap' = SnapOfFile(c)
        /\ outcome' = "none" /\ UNCHANGED <<open, mirror, store>> /\ call # None
    BY <1>3 DEF CommitRereads
  <2> HIDE DEF tail
  <2> QED  BY <1>1, <2>1, <2>2
<1>4. CASE Judge
  <2>1. CASE Verdict \in {"append", "replace"} /\ call' = Moved(call, Verdict)
             /\ UNCHANGED <<mirror, open, snap, outcome, store>>
    <3>1. call' # None /\ call'.at \in {"append", "replace"} /\ call'.config = call.config
          /\ call # None /\ call.at = "judge"
      BY <1>4, <1>b, <2>1, JudgeCases, MovedType DEF Place
    <3> QED  BY <2>1, <3>1
  <2>2. CASE EndFailed /\ UNCHANGED <<mirror, store>>
    BY <1>4, <1>a, <2>2, JudgeCases DEF EndFailed
  <2>3. CASE EndOk /\ UNCHANGED store
    BY <2>3 DEF EndOk
  <2> QED  BY <1>4, <2>1, <2>2, <2>3, JudgeCases
<1>5. CASE Appends \/ Replaces \/ HydrateWrites
  BY <1>5 DEF Appends, Replaces, HydrateWrites, EndOk
<1>6. CASE AppendFails
  <2>1. /\ call # None /\ call.at = "append" /\ call'.at \in {"replace", "reread"}
        /\ call'.config = call.config /\ UNCHANGED <<mirror, open, snap, outcome>>
    BY <1>6, <1>b DEF AppendFails, RunningCall
  <2>2. call' # None  BY <1>6, <1>b, NoneIsNoRecord DEF AppendFails, RunningCall, Place
  <2> QED  BY <1>a, <2>1, <2>2
<1>7. CASE ReplaceFails \/ HydrateRefused \/ HydrateFails
  BY <1>7, <1>a DEF ReplaceFails, HydrateRefused, HydrateFails, EndFailed
<1>8. CASE Reset
  BY <1>8, <1>b DEF Reset
<1>9. CASE NewSession \/ Adopt
  BY <1>9 DEF NewSession, Adopt
<1>10. CASE Hydrate
  <2>1. call'.at = "cut" /\ call' # None /\ store # NewStore
    BY <1>10, HydrateBegins DEF NewStore
  <2> QED  BY <1>10, <1>b, <2>1 DEF Hydrate
<1>11. CASE HydrateCuts \/ HydrateTrims
  <2>1. /\ call # None /\ call.at \in {"cut", "trim"}
        /\ UNCHANGED <<store, mirror, open, snap, outcome>>
        /\ call' = Moved(call, "trim") \/ call' = Moved(call, "reconcile")
    BY <1>11 DEF HydrateCuts, HydrateTrims, Moved
  <2>2. call' # None /\ call'.at \in {"trim", "reconcile"}
    BY <1>b, <2>1, MovedType DEF Place
  <2> QED  BY <2>1, <2>2
<1>12. CASE HydrateAdoptsNative
  <2> DEFINE tail == ReadJSONL(file, Start, TRUE)
  <2>1. tail \in ReadTail  BY StartType, ReadType DEF Typed, TypeOK
  <2>2. /\ call' = Running("judge", tail, call.config, FALSE) /\ snap' = SnapOfFile(call.config)
        /\ outcome' = "none" /\ UNCHANGED <<open, store>> /\ call # None
        /\ mirror'.cursor = Start
    BY <1>12 DEF HydrateAdoptsNative, Adopted
  <2>3. call.config \in Config  BY <1>b, <2>2 DEF RunningCall
  <2> HIDE DEF tail
  <2> QED  BY <1>1, <1>b, <2>1, <2>2, <2>3
<1>13. CASE HydrateAdoptsStored
  <2>1. /\ call # None /\ call.at = "reconcile" /\ UNCHANGED <<store, open, snap, outcome>>
        /\ mirror'.cursor = Start /\ call' = Moved(call, "write")
    BY <1>13 DEF HydrateAdoptsStored, Adopted, Moved
  <2>2. call' # None /\ call'.at = "write"  BY <1>b, <2>1, MovedType DEF Place
  <2> QED  BY <1>b, <2>1, <2>2
<1>14. CASE HarnessWrites \/ HarnessEndsLine \/ NativeStateLost
  BY <1>14 DEF HarnessWrites, HarnessEndsLine, NativeStateLost
<1>15. CASE HarnessRewrites
  BY <1>15 DEF HarnessRewrites
<1>16. CASE Crash
  BY <1>16, <1>b DEF Crash
<1>17. CASE HostDeletes \/ Bypass
  BY <1>17, <1>a DEF HostDeletes, Bypass
<1>18. CASE UNCHANGED vars  BY <1>18 DEF vars
<1> QED
  BY <1>2, <1>3, <1>4, <1>5, <1>6, <1>7, <1>8, <1>9, <1>10, <1>11, <1>12, <1>13, <1>14, <1>15,
     <1>16, <1>17, <1>18
     DEF Next, Method, Continue, Environment

-----------------------------------------------------------------------------
(* What a call has read and judged *)

Prefix(p, s) == Len(p) <= Len(s) /\ \A i \in 1 .. Len(p) : s[i] = p[i]

(* Rows that were validated, all of them or those past the committed ones. *)
ValidPast(rows) ==
  \/ ~Invalid(rows, 0)
  \/ /\ mirror.committed /\ Prefix(mirror.rows, rows)
     /\ ~Invalid(rows, Len(mirror.rows))

(* The tail that was read and what was committed make the history that was *)
(* read; so do the committed rows and those an append adds.                *)
ReadSound ==
  Reading =>
    /\ call.tail.full => call.tail.rows = snap.rows
    /\ ~call.tail.full => mirror.committed /\ snap.rows = mirror.rows \o call.tail.rows
    /\ call.at # "judge" => ValidPast(snap.rows)
    /\ call.at = "append" =>
         mirror.committed /\ snap.rows = mirror.rows \o Added(mirror, call.tail)
    /\ call.at = "replace" => call.tail.full

(* A history that extends the committed rows is them and what it adds      *)
(* (Mirror.extendsCommitted).                                              *)
LEMMA ExtendsIsPrefix ==
  ASSUME NEW m \in Memory, NEW rows \in Seq(Row), ExtendsCommitted(m, rows),
         Len(m.rows) <= Len(rows)
  PROVE  /\ m.committed /\ Prefix(m.rows, rows)
         /\ m.rows \o SubSeq(rows, Len(m.rows) + 1, Len(rows)) = rows
         /\ Len(rows) = Len(m.rows) => rows = m.rows
<1>1. /\ m.committed /\ SubSeq(rows, 1, Len(m.rows)) = m.rows
      /\ m.rows \in Seq(Row) /\ Len(m.rows) \in Nat /\ Len(rows) \in Nat
  BY LenProperties DEF ExtendsCommitted, Memory
<1>2. Len(m.rows) \in 0 .. Len(rows) /\ 1 \in Nat \ {0}  BY <1>1
<1>3. SubSeq(rows, 1, Len(m.rows)) \o SubSeq(rows, Len(m.rows) + 1, Len(rows)) = rows
  BY <1>2, PartsMakeWhole
<1>4. \A i \in 1 .. Len(m.rows) - 1 + 1 : SubSeq(rows, 1, Len(m.rows))[i] = rows[1 + i - 1]
  BY <1>2, PartType
<1>5. \A i \in 1 .. Len(m.rows) : m.rows[i] = rows[i]  BY <1>1, <1>4
<1>6. Prefix(m.rows, rows)  BY <1>5 DEF Prefix
<1>7. Len(rows) = Len(m.rows) => rows = m.rows  BY <1>1, SubSeqFull
<1> QED  BY <1>1, <1>3, <1>6, <1>7

(* Rows added to others are what follows them.                             *)
LEMMA ConcatPrefix ==
  ASSUME NEW p \in Seq(Row), NEW s \in Seq(Row)
  PROVE  /\ Prefix(p, p \o s) /\ p \o s \in Seq(Row) /\ Len(p \o s) = Len(p) + Len(s)
         /\ ~Invalid(s, 0) => ~Invalid(p \o s, Len(p))
<1>1. Len(p) \in Nat /\ Len(s) \in Nat  BY LenProperties
<1>2. /\ p \o s \in Seq(Row) /\ Len(p \o s) = Len(p) + Len(s)
      /\ \A i \in 1 .. Len(p) + Len(s) :
           (p \o s)[i] = IF i <= Len(p) THEN p[i] ELSE s[i - Len(p)]
  BY ConcatProperties
<1> DEFINE w == p \o s
<1>3. /\ w \in Seq(Row) /\ Len(w) = Len(p) + Len(s)
      /\ \A i \in 1 .. Len(p) + Len(s) : w[i] = IF i <= Len(p) THEN p[i] ELSE s[i - Len(p)]
  BY <1>2
<1> HIDE DEF w
<1>4. Prefix(p, w)  BY <1>1, <1>3 DEF Prefix
<1>5. ASSUME ~Invalid(s, 0)  PROVE ~Invalid(w, Len(p))
  <2>1. \A i \in 1 .. Len(s) : Valid(s[i])  BY <1>1, <1>5 DEF Invalid
  <2>2. ASSUME NEW i \in Len(p) + 1 .. Len(w)  PROVE Valid(w[i])
    <3>1. i \in 1 .. Len(p) + Len(s) /\ ~ (i <= Len(p)) /\ i - Len(p) \in 1 .. Len(s)
      BY <1>1, <1>3, <2>2
    <3> QED  BY <1>3, <2>1, <3>1
  <2> QED  BY <2>2 DEF Invalid
<1> QED  BY <1>3, <1>4, <1>5 DEF w

(* What each verdict of a commit establishes (commitFull, appendTail).     *)
LEMMA VerdictMeans ==
  ASSUME Typed, ControlSound, ReadSound, call # None, call.at = "judge"
  PROVE  /\ Verdict = "nothing" =>
              mirror.committed /\ snap.rows = mirror.rows /\ call.config = mirror.record
         /\ Verdict = "append" =>
              /\ mirror.committed /\ snap.rows = mirror.rows \o Added(mirror, call.tail)
              /\ ValidPast(snap.rows)
         /\ Verdict = "replace" => call.tail.full /\ ValidPast(snap.rows)
<1>a. /\ call \in RunningCall /\ mirror \in Memory /\ call.tail \in ReadTail
      /\ call.tail.rows \in Seq(Row) /\ Len(call.tail.rows) \in Nat
      /\ mirror.rows \in Seq(Row) /\ Len(mirror.rows) \in Nat /\ call.tail.full \in BOOLEAN
  BY LenProperties DEF Typed, TypeOK, RunningCall, ReadTail, Memory
<1>b. /\ call.tail.full => call.tail.rows = snap.rows
      /\ ~call.tail.full => mirror.committed /\ snap.rows = mirror.rows \o call.tail.rows
  BY DEF ReadSound, Reading
<1>1. CASE call.tail.full
  <2> DEFINE extends == ExtendsCommitted(mirror, call.tail.rows)
  <2>1. Added(mirror, call.tail)
          = SubSeq(call.tail.rows, Len(mirror.rows) + 1, Len(call.tail.rows))
    BY <1>1 DEF Added
  <2>2. Verdict # "refuse" => ~(mirror.committed /\ Len(call.tail.rows) < Len(mirror.rows))
                              /\ ~Invalid(call.tail.rows, IF extends THEN Len(mirror.rows) ELSE 0)
    BY <1>1 DEF Verdict, FullVerdict
  <2>3. /\ Verdict = "nothing" => extends /\ Len(call.tail.rows) = Len(mirror.rows)
                                   /\ call.config = mirror.record
        /\ Verdict = "append" => extends
    BY <1>1 DEF Verdict, FullVerdict
  <2>4. extends => mirror.committed  BY DEF ExtendsCommitted
  <2>5. (Verdict # "refuse" /\ extends) =>
           /\ mirror.committed /\ Prefix(mirror.rows, call.tail.rows)
           /\ mirror.rows \o Added(mirror, call.tail) = call.tail.rows
           /\ Len(call.tail.rows) = Len(mirror.rows) => call.tail.rows = mirror.rows
           /\ ~Invalid(call.tail.rows, Len(mirror.rows))
    <3>1. SUFFICES ASSUME Verdict # "refuse", extends
          PROVE  /\ mirror.committed /\ Prefix(mirror.rows, call.tail.rows)
                 /\ mirror.rows \o Added(mirror, call.tail) = call.tail.rows
                 /\ Len(call.tail.rows) = Len(mirror.rows) => call.tail.rows = mirror.rows
                 /\ ~Invalid(call.tail.rows, Len(mirror.rows))
      OBVIOUS
    <3>2. Len(mirror.rows) <= Len(call.tail.rows)  BY <1>a, <2>2, <2>4, <3>1
    <3>3. ~Invalid(call.tail.rows, Len(mirror.rows))  BY <2>2, <3>1
    <3> QED  BY <1>a, <2>1, <3>1, <3>2, <3>3, ExtendsIsPrefix
  <2>6. (Verdict # "refuse" /\ ~extends) => ~Invalid(call.tail.rows, 0)  BY <2>2
  <2> HIDE DEF extends
  <2>7. Verdict # "refuse" => ValidPast(call.tail.rows)  BY <2>5, <2>6 DEF ValidPast
  <2> QED  BY <1>1, <1>b, <2>3, <2>5, <2>7
<1>2. CASE ~call.tail.full
  <2>1. Added(mirror, call.tail) = call.tail.rows  BY <1>2 DEF Added
  <2>2. /\ Verdict # "replace"
        /\ Verdict = "nothing" => call.tail.rows = <<>> /\ call.config = mirror.record
        /\ Verdict = "append" => ~Invalid(call.tail.rows, 0)
    BY <1>2 DEF Verdict, TailVerdict
  <2>3. mirror.rows \o <<>> = mirror.rows  BY <1>a, ConcatEmptySeq
  <2>4. /\ Prefix(mirror.rows, snap.rows)
        /\ ~Invalid(call.tail.rows, 0) => ~Invalid(snap.rows, Len(mirror.rows))
    BY <1>a, <1>b, <1>2, ConcatPrefix
  <2> QED  BY <1>b, <1>2, <2>1, <2>2, <2>3, <2>4 DEF ValidPast
<1> QED  BY <1>a, <1>1, <1>2

-----------------------------------------------------------------------------
(* Cursors *)

(* If a read of the log goes on from the cursor, it goes on from the rows. *)
Follows(f, c, rows) ==
  c.offset > 0 =>
    /\ c.offset = Len(rows) /\ c.id \in 1 .. f.id
    /\ c.sums = Checksums(rows, Len(rows))
    /\ Extends(f, c) => SubSeq(f.rows, 1, c.offset) = rows

CursorSound ==
  /\ Follows(file, mirror.cursor, mirror.rows)
  /\ Reading => Follows(file, call.tail.next, snap.rows)

(* Equal beginnings have equal checksums, and equal checksums equal last   *)
(* rows (checksum).                                                        *)
LEMMA ChecksumsSame ==
  ASSUME NEW r \in Seq(Row), NEW s \in Seq(Row), NEW n \in 0 .. Len(r), n \in 0 .. Len(s),
         SubSeq(r, 1, n) = SubSeq(s, 1, n)
  PROVE  Checksums(r, n) = Checksums(s, n)
<1>1. Len(r) \in Nat /\ Len(s) \in Nat /\ Window \in Nat \ {0} /\ 1 \in Nat \ {0}
  BY LenProperties, MirrorAssumption
<1>2. /\ \A i \in 1 .. n - 1 + 1 : SubSeq(r, 1, n)[i] = r[1 + i - 1]
      /\ \A i \in 1 .. n - 1 + 1 : SubSeq(s, 1, n)[i] = s[1 + i - 1]
  BY <1>1, PartType
<1>3. \A i \in 1 .. n : r[i] = s[i]  BY <1>1, <1>2
<1>4. ASSUME NEW a \in Nat \ {0}, NEW b \in 0 .. n
      PROVE  SubSeq(r, a, b) = SubSeq(s, a, b)
  <2>1. b \in 0 .. Len(r) /\ b \in 0 .. Len(s)  BY <1>1
  <2>2. /\ SubSeq(r, a, b) \in Seq(Row) /\ Len(SubSeq(r, a, b)) = IF a <= b THEN b - a + 1 ELSE 0
        /\ \A i \in 1 .. b - a + 1 : SubSeq(r, a, b)[i] = r[a + i - 1]
    BY <2>1, PartType
  <2>3. /\ SubSeq(s, a, b) \in Seq(Row) /\ Len(SubSeq(s, a, b)) = IF a <= b THEN b - a + 1 ELSE 0
        /\ \A i \in 1 .. b - a + 1 : SubSeq(s, a, b)[i] = s[a + i - 1]
    BY <2>1, PartType
  <2>4. \A i \in 1 .. b - a + 1 : a + i - 1 \in 1 .. n  BY <1>1
  <2>5. \A i \in 1 .. b - a + 1 : SubSeq(r, a, b)[i] = SubSeq(s, a, b)[i]
    BY <1>3, <2>2, <2>3, <2>4
  <2>6. \A i \in 1 .. Len(SubSeq(r, a, b)) : i \in 1 .. b - a + 1
    BY <2>2
  <2> QED  BY <2>2, <2>3, <2>5, <2>6, SeqEqual
<1>5. LeastOf(n, Window) \in 0 .. n  BY <1>1 DEF LeastOf
<1>6. MostOf(n - Window, 0) + 1 \in Nat \ {0} /\ n \in 0 .. n  BY <1>1 DEF MostOf
<1>7. SubSeq(r, 1, LeastOf(n, Window)) = SubSeq(s, 1, LeastOf(n, Window))
  BY <1>1, <1>4, <1>5
<1>8. SubSeq(r, MostOf(n - Window, 0) + 1, n) = SubSeq(s, MostOf(n - Window, 0) + 1, n)
  BY <1>4, <1>6
<1> QED  BY <1>7, <1>8 DEF Checksums

(* The check window ends with the last line before the offset.             *)
LEMMA ChecksumsLast ==
  ASSUME NEW r \in Seq(Row), NEW s \in Seq(Row), NEW n \in 1 .. Len(r), n \in 1 .. Len(s),
         Checksums(r, n) = Checksums(s, n)
  PROVE  r[n] = s[n]
<1>1. Len(r) \in Nat /\ Len(s) \in Nat /\ Window \in Nat \ {0}
  BY LenProperties, MirrorAssumption
<1> DEFINE a == MostOf(n - Window, 0) + 1
<1>2. a \in 1 .. n /\ a \in Nat \ {0}  BY <1>1 DEF MostOf
<1>3. SubSeq(r, a, n) = SubSeq(s, a, n)  BY DEF Checksums
<1> HIDE DEF a
<1>4. n \in 0 .. Len(r) /\ n \in 0 .. Len(s)  BY <1>1
<1>5. /\ \A i \in 1 .. n - a + 1 : SubSeq(r, a, n)[i] = r[a + i - 1]
      /\ \A i \in 1 .. n - a + 1 : SubSeq(s, a, n)[i] = s[a + i - 1]
  BY <1>2, <1>4, PartType
<1>6. n - a + 1 \in 1 .. n - a + 1 /\ a + (n - a + 1) - 1 = n  BY <1>1, <1>2
<1> QED  BY <1>3, <1>5, <1>6

(* The cursor after a read follows what was read (readJSONL).              *)
LEMMA ReadFollows ==
  ASSUME NEW f \in LogFile, f.id = 0 => f.rows = <<>>
  PROVE  Follows(f, CursorAfter(f.id, f.rows), f.rows)
<1>1. f.rows \in Seq(Row) /\ Len(f.rows) \in Nat /\ f.id \in 0 .. MaxFile /\ Len(<<>>) = 0
  BY LenProperties, EmptySeq DEF LogFile
<1>2. SubSeq(f.rows, 1, Len(f.rows)) = f.rows  BY <1>1, SubSeqFull
<1>3. f.rows # <<>> => f.id \in 1 .. f.id  BY <1>1, MirrorAssumption
<1> QED  BY <1>1, <1>2, <1>3 DEF Follows, CursorAfter

(* Beginnings that did not change: the cursor still follows.               *)
LEMMA FollowsSame ==
  ASSUME NEW f \in LogFile, NEW g \in LogFile, NEW c \in Cursor, NEW rows,
         Follows(f, c, rows), f.id = 0 \/ g.id = f.id, Extends(g, c) => c.offset <= Len(f.rows),
         Extends(g, c) => SubSeq(g.rows, 1, c.offset) = SubSeq(f.rows, 1, c.offset)
  PROVE  Follows(g, c, rows)
<1>1. SUFFICES ASSUME c.offset > 0
      PROVE  /\ c.offset = Len(rows) /\ c.id \in 1 .. g.id
             /\ c.sums = Checksums(rows, Len(rows))
             /\ Extends(g, c) => SubSeq(g.rows, 1, c.offset) = rows
  BY DEF Follows
<1>2. /\ c.offset = Len(rows) /\ c.id \in 1 .. f.id
      /\ c.sums = Checksums(rows, Len(rows))
      /\ Extends(f, c) => SubSeq(f.rows, 1, c.offset) = rows
  BY <1>1 DEF Follows
<1>3. g.id = f.id  BY <1>2, MirrorAssumption DEF LogFile
<1>4. ASSUME Extends(g, c)  PROVE Extends(f, c)
  <2>1. /\ c.offset <= Len(g.rows) /\ c.id = g.id /\ Checksums(g.rows, c.offset) = c.sums
    BY <1>4 DEF Extends
  <2>2. /\ c.offset \in 0 .. Len(f.rows) /\ c.offset \in 0 .. Len(g.rows)
        /\ f.rows \in Seq(Row) /\ g.rows \in Seq(Row)
    BY <1>4, <2>1, LenProperties DEF Cursor, LogFile
  <2>3. Checksums(f.rows, c.offset) = Checksums(g.rows, c.offset)
    BY <1>4, <2>2, ChecksumsSame
  <2> QED  BY <1>1, <1>3, <1>4, <2>1, <2>3 DEF Extends
<1> QED  BY <1>2, <1>3, <1>4

(* A line is added that no copy holds: the cursor still follows.           *)
LEMMA FollowsAppend ==
  ASSUME NEW f \in LogFile, NEW g \in LogFile, NEW c \in Cursor, NEW rows \in Seq(Row),
         NEW r \in Row, Follows(f, c, rows), f.id = 0 \/ g.id = f.id,
         g.rows = Append(f.rows, r), \A i \in 1 .. Len(rows) : rows[i] # r
  PROVE  Follows(g, c, rows)
<1>1. /\ f.rows \in Seq(Row) /\ Len(f.rows) \in Nat /\ g.rows \in Seq(Row)
      /\ Len(g.rows) = Len(f.rows) + 1 /\ g.rows[Len(f.rows) + 1] = r
      /\ \A i \in 1 .. Len(f.rows) : g.rows[i] = f.rows[i]
      /\ c.offset \in Nat /\ Len(rows) \in Nat
  BY LenProperties, AppendProperties DEF LogFile, Cursor
<1>2. ASSUME Extends(g, c)  PROVE c.offset <= Len(f.rows)
  <2>1. /\ c.offset > 0 /\ c.offset <= Len(g.rows) /\ Checksums(g.rows, c.offset) = c.sums
    BY <1>2 DEF Extends
  <2>2. c.offset = Len(rows) /\ c.sums = Checksums(rows, Len(rows))  BY <2>1 DEF Follows
  <2>3. SUFFICES ASSUME c.offset = Len(f.rows) + 1  PROVE FALSE  BY <1>1, <2>1
  <2>4. c.offset \in 1 .. Len(g.rows) /\ c.offset \in 1 .. Len(rows)
    BY <1>1, <2>1, <2>2
  <2>5. Checksums(g.rows, c.offset) = Checksums(rows, c.offset)  BY <2>1, <2>2
  <2>6. g.rows[c.offset] = rows[c.offset]  BY <1>1, <2>4, <2>5, ChecksumsLast
  <2> QED  BY <1>1, <2>3, <2>4, <2>6
<1>3. ASSUME Extends(g, c)
      PROVE  SubSeq(g.rows, 1, c.offset) = SubSeq(f.rows, 1, c.offset)
  <2>1. c.offset \in 0 .. Len(f.rows) /\ c.offset \in 0 .. Len(g.rows) /\ 1 \in Nat \ {0}
    BY <1>1, <1>2, <1>3
  <2>2. /\ SubSeq(f.rows, 1, c.offset) \in Seq(Row)
        /\ Len(SubSeq(f.rows, 1, c.offset)) = IF 1 <= c.offset THEN c.offset - 1 + 1 ELSE 0
        /\ \A i \in 1 .. c.offset - 1 + 1 : SubSeq(f.rows, 1, c.offset)[i] = f.rows[1 + i - 1]
    BY <1>1, <2>1, PartType
  <2>3. /\ SubSeq(g.rows, 1, c.offset) \in Seq(Row)
        /\ Len(SubSeq(g.rows, 1, c.offset)) = IF 1 <= c.offset THEN c.offset - 1 + 1 ELSE 0
        /\ \A i \in 1 .. c.offset - 1 + 1 : SubSeq(g.rows, 1, c.offset)[i] = g.rows[1 + i - 1]
    BY <1>1, <2>1, PartType
  <2>4. Len(SubSeq(f.rows, 1, c.offset)) = c.offset /\ Len(SubSeq(g.rows, 1, c.offset)) = c.offset
    BY <1>1, <2>2, <2>3
  <2>5. \A i \in 1 .. c.offset : SubSeq(f.rows, 1, c.offset)[i] = SubSeq(g.rows, 1, c.offset)[i]
    BY <1>1, <2>1, <2>2, <2>3
  <2> QED  BY <2>2, <2>3, <2>4, <2>5, SeqEqual
<1> QED  BY <1>2, <1>3, FollowsSame

(* A new file is not the one a cursor is of.                               *)
LEMMA FollowsNewFile ==
  ASSUME NEW f \in LogFile, NEW g \in LogFile, NEW c \in Cursor, NEW rows,
         Follows(f, c, rows), g.id = f.id + 1
  PROVE  Follows(g, c, rows)
<1>1. c.offset > 0 => c.id \in 1 .. g.id /\ c.id # g.id
  BY MirrorAssumption DEF Follows, LogFile
<1> QED  BY <1>1 DEF Follows, Extends

-----------------------------------------------------------------------------
(* Loads *)

(* A load holds nothing until it adopts what it was handed, and writes the *)
(* log only when that is longer and goes on from it (Mirror.Hydrate).      *)
LoadSound ==
  /\ (call # None /\ call.at \in {"cut", "trim", "reconcile"}) => mirror = Forgotten
  /\ (call # None /\ call.at = "write") =>
       /\ mirror = Adopted(call.tail.rows, call.config, Start)
       /\ Agree(file.rows, call.tail.rows) /\ Len(file.rows) < Len(call.tail.rows)

(* The steps in which a call reads the history.                            *)
ReadsFrom(from, wholly, c) ==
  /\ call' # None /\ call'.at = "judge" /\ call'.config = c
  /\ call'.tail = ReadJSONL(file, from, wholly)
  /\ snap' # None /\ snap'.rows = file.rows /\ snap'.config = c
  /\ file' = file /\ store' = store /\ outcome' = "none"

(* A call that reads the log goes on to judge what it read (ReadJSONL).    *)
LEMMA ReadStep ==
  ASSUME Typed, NEW from \in Cursor, NEW wholly \in BOOLEAN, NEW c \in Config,
         NEW failed \in BOOLEAN, call' = Running("judge", ReadJSONL(file, from, wholly), c, failed),
         snap' = SnapOfFile(c), UNCHANGED <<file, store>>, outcome' = "none"
  PROVE  ReadsFrom(from, wholly, c)
<1>1. ReadJSONL(file, from, wholly) \in ReadTail  BY ReadType DEF Typed, TypeOK
<1> DEFINE tail == ReadJSONL(file, from, wholly)
<1>2. call' = Running("judge", tail, c, failed)  OBVIOUS
<1>3. tail \in ReadTail  BY <1>1
<1> HIDE DEF tail
<1>4. call' # None /\ call'.at = "judge" /\ call'.config = c /\ call'.tail = tail
  BY <1>2, <1>3, RunningType DEF Place
<1>5. snap' # None /\ snap'.rows = file.rows /\ snap'.config = c
  BY SnapType DEF SnapOfFile, Typed, TypeOK, LogFile
<1> QED  BY <1>4, <1>5 DEF ReadsFrom, tail

(* Who reads: a commit from its cursor, the others from the start.         *)
LEMMA CommitReads ==
  ASSUME Typed, NEW c \in Config, NEW wholly \in BOOLEAN, Commit(c, wholly)
  PROVE  /\ ReadsFrom(IF mirror.committed THEN mirror.cursor ELSE Start, wholly, c)
         /\ UNCHANGED <<mirror, open, minted>> /\ open /\ call = None
<1> DEFINE from == IF mirror.committed THEN mirror.cursor ELSE Start
<1>1. from \in Cursor  BY StartType DEF Typed, TypeOK, Memory
<1>2. /\ call' = Running("judge", ReadJSONL(file, from, wholly), c, FALSE)
      /\ snap' = SnapOfFile(c) /\ UNCHANGED <<file, store>> /\ outcome' = "none"
  BY DEF Commit
<1> HIDE DEF from
<1>3. ReadsFrom(from, wholly, c)  BY <1>1, <1>2, ReadStep
<1> QED  BY <1>3 DEF from, Commit

(* A commit whose append failed reads the whole history.                   *)
LEMMA CommitRereadsAll ==
  ASSUME Typed, NEW c \in Config, CommitRereads(c)
  PROVE  /\ ReadsFrom(Start, TRUE, c) /\ UNCHANGED <<mirror, open, minted>>
         /\ call # None /\ call.at = "reread"
<1>1. /\ call' = Running("judge", ReadJSONL(file, Start, TRUE), c, TRUE)
      /\ snap' = SnapOfFile(c) /\ UNCHANGED <<file, store>> /\ outcome' = "none"
  BY DEF CommitRereads
<1>2. ReadsFrom(Start, TRUE, c)  BY <1>1, StartType, ReadStep
<1> QED  BY <1>2 DEF CommitRereads

(* So does a load that finds the log no shorter than the copy.             *)
LEMMA NativeIsRead ==
  ASSUME Typed, HydrateAdoptsNative
  PROVE  /\ ReadsFrom(Start, TRUE, call.config) /\ UNCHANGED <<open, minted>>
         /\ call # None /\ call.at = "reconcile"
         /\ mirror' = Adopted(call.tail.rows, call.config, Start)
         /\ call.tail.rows \in Seq(Row) /\ call.config \in Config
<1>1. /\ call' = Running("judge", ReadJSONL(file, Start, TRUE), call.config, FALSE)
      /\ snap' = SnapOfFile(call.config) /\ UNCHANGED <<file, store>> /\ outcome' = "none"
      /\ call # None
  BY DEF HydrateAdoptsNative
<1>2. call.config \in Config /\ call.tail.rows \in Seq(Row)
  BY <1>1 DEF Typed, TypeOK, RunningCall, ReadTail
<1>3. ReadsFrom(Start, TRUE, call.config)  BY <1>1, <1>2, StartType, ReadStep
<1> QED  BY <1>2, <1>3 DEF HydrateAdoptsNative

(* What the steps of a load do to the call.                                *)
LEMMA LoadMoves ==
  ASSUME Typed
  PROVE  /\ HydrateCuts => call # None /\ call.at = "cut" /\ call' # None /\ call'.at = "trim"
         /\ HydrateTrims => call # None /\ call.at = "trim" /\ call' # None /\ call'.at = "reconcile"
         /\ HydrateAdoptsStored =>
              call # None /\ call.at = "reconcile" /\ call' # None /\ call'.at = "write"
         /\ (HydrateCuts \/ HydrateTrims \/ HydrateAdoptsStored) =>
              call'.tail = call.tail /\ call'.config = call.config
<1>1. call \in {None} \cup RunningCall  BY DEF Typed, TypeOK
<1>2. /\ HydrateCuts => call # None /\ call.at = "cut" /\ call' = Moved(call, "trim")
      /\ HydrateTrims => call # None /\ call.at = "trim" /\ call' = Moved(call, "reconcile")
      /\ HydrateAdoptsStored => call # None /\ call.at = "reconcile" /\ call' = Moved(call, "write")
  BY DEF HydrateCuts, HydrateTrims, HydrateAdoptsStored, Moved
<1>3. "trim" \in Place /\ "reconcile" \in Place /\ "write" \in Place  BY DEF Place
<1> QED  BY <1>1, <1>2, <1>3, MovedType

(* An append that failed leaves what was read.                             *)
LEMMA AppendFailsMoves ==
  ASSUME Typed, AppendFails
  PROVE  /\ call # None /\ call.at = "append" /\ call' # None
         /\ call'.at = (IF call.tail.full THEN "replace" ELSE "reread")
         /\ call'.tail = call.tail /\ call'.config = call.config
         /\ UNCHANGED <<file, minted, mirror, open, snap, outcome>>
<1>1. call \in RunningCall  BY DEF Typed, TypeOK, AppendFails
<1>2. call' \in RunningCall  BY <1>1 DEF AppendFails, RunningCall, Place
<1> QED  BY <1>1, <1>2, NoneIsNoRecord DEF AppendFails, RunningCall

(* What judging does to the call: it ends, or goes on to the store.        *)
LEMMA JudgeMoves ==
  ASSUME Typed, Judge
  PROVE  /\ call # None /\ call.at = "judge" /\ UNCHANGED <<file, minted, store>>
         /\ \/ call' = None /\ snap' = None /\ outcome' = "failed" /\ UNCHANGED <<mirror, open>>
            \/ /\ Verdict = "nothing" /\ call' = None /\ snap' = None /\ outcome' = "ok" /\ open'
               /\ mirror' = [mirror EXCEPT !.cursor = call.tail.next]
            \/ /\ Verdict \in {"append", "replace"} /\ call' # None /\ call'.at = Verdict
               /\ call'.tail = call.tail /\ call'.config = call.config
               /\ UNCHANGED <<mirror, open, snap, outcome>>
<1>1. call \in {None} \cup RunningCall  BY DEF Typed, TypeOK
<1>2. "append" \in Place /\ "replace" \in Place  BY DEF Place
<1>3. ASSUME call # None, Verdict \in {"append", "replace"}, call' = Moved(call, Verdict)
      PROVE  /\ call' # None /\ call'.at = Verdict
             /\ call'.tail = call.tail /\ call'.config = call.config
  BY <1>1, <1>2, <1>3, MovedType
<1> QED  BY <1>3, JudgeCases DEF EndFailed, EndOk

(* No load runs at first (NewMirror).                                      *)
LEMMA LoadInit == Init => LoadSound
BY DEF Init, LoadSound

(* Nothing touches the log or the memory while a load holds them.          *)
LEMMA LoadNext ==
  ASSUME Typed, ControlSound, LoadSound, [Next]_vars
  PROVE  LoadSound'
<1> USE DEF LoadSound
<1>1. ASSUME NEW c \in Config, NEW wholly \in BOOLEAN, Commit(c, wholly)  PROVE LoadSound'
  BY <1>1, CommitReads DEF ReadsFrom
<1>2. ASSUME NEW c \in Config, CommitRereads(c)  PROVE LoadSound'
  BY <1>2, CommitRereadsAll DEF ReadsFrom
<1>3. CASE HydrateAdoptsNative
  BY <1>3, NativeIsRead DEF ReadsFrom
<1>4. CASE Judge
  <2>1. call' = None \/ call'.at \in {"append", "replace"}  BY <1>4, JudgeMoves
  <2> QED  BY <2>1
<1>5. CASE Appends \/ Replaces \/ ReplaceFails \/ HydrateRefused \/ HydrateWrites \/ HydrateFails
  BY <1>5 DEF Appends, Replaces, ReplaceFails, HydrateRefused, HydrateWrites, HydrateFails,
              EndOk, EndFailed
<1>6. CASE AppendFails
  BY <1>6, AppendFailsMoves
<1>7. CASE Reset \/ NewSession \/ Adopt
  BY <1>7 DEF Reset, NewSession, Adopt
<1>8. CASE Hydrate
  BY <1>8, HydrateBegins DEF Hydrate
<1>9. CASE HydrateCuts \/ HydrateTrims
  <2>1. UNCHANGED mirror  BY <1>9 DEF HydrateCuts, HydrateTrims
  <2> QED  BY <1>9, <2>1, LoadMoves
<1>10. CASE HydrateAdoptsStored
  <2>1. /\ mirror' = Adopted(call.tail.rows, call.config, Start) /\ file' = file
        /\ Agree(file.rows, call.tail.rows) /\ Len(file.rows) < Len(call.tail.rows)
    BY <1>10 DEF HydrateAdoptsStored
  <2> QED  BY <1>10, <2>1, LoadMoves
<1>11. CASE HarnessWrites \/ HarnessEndsLine \/ NativeStateLost \/ HostDeletes \/ Bypass
  BY <1>11 DEF HarnessWrites, HarnessEndsLine, NativeStateLost, HostDeletes, Bypass,
               ControlSound, Hydrating
<1>12. CASE HarnessRewrites
  BY <1>12 DEF HarnessRewrites, ControlSound, Hydrating
<1>13. CASE Crash
  BY <1>13 DEF Crash
<1>14. CASE UNCHANGED vars  BY <1>14 DEF vars
<1> QED
  BY <1>1, <1>2, <1>3, <1>4, <1>5, <1>6, <1>7, <1>8, <1>9, <1>10, <1>11, <1>12, <1>13, <1>14
     DEF Next, Method, Continue, Environment

-----------------------------------------------------------------------------
(* What was read stays what was read *)

(* Nothing has been read at first (NewMirror).                             *)
LEMMA ReadInit == Init => ReadSound
BY DEF Init, ReadSound, Reading

(* A read that goes on from the cursor finds the committed rows before it  *)
(* (ReadJSONL).                                                            *)
LEMMA TailReadFits ==
  ASSUME Typed, CursorSound, Extends(file, mirror.cursor)
  PROVE  file.rows = mirror.rows \o SubSeq(file.rows, mirror.cursor.offset + 1, Len(file.rows))
<1>1. /\ file.rows \in Seq(Row) /\ Len(file.rows) \in Nat /\ mirror.cursor.offset \in Nat
  BY LenProperties DEF Typed, TypeOK, LogFile, Memory, Cursor
<1>2. mirror.cursor.offset > 0 /\ mirror.cursor.offset <= Len(file.rows)  BY DEF Extends
<1>3. mirror.cursor.offset \in 0 .. Len(file.rows)  BY <1>1, <1>2
<1>4. SubSeq(file.rows, 1, mirror.cursor.offset) = mirror.rows
  BY <1>2 DEF CursorSound, Follows
<1> QED  BY <1>1, <1>3, <1>4, PartsMakeWhole

(* What a call holds between its steps stays sound (Mirror.Commit).        *)
LEMMA ReadNext ==
  ASSUME Typed, ControlSound, CursorSound, ReadSound, [Next]_vars
  PROVE  ReadSound'
<1>a. ~Extends(file, Start)  BY DEF Extends, Start
<1>1. ASSUME NEW from \in Cursor, NEW wholly \in BOOLEAN, NEW c \in Config,
             ReadsFrom(from, wholly, c),
             Extends(file, from) /\ ~wholly =>
               /\ mirror.committed /\ from = mirror.cursor /\ UNCHANGED mirror
      PROVE  ReadSound'
  <2> DEFINE R == ReadJSONL(file, from, wholly)
  <2>1. /\ call'.tail = R /\ call'.at = "judge" /\ snap'.rows = file.rows
    BY <1>1 DEF ReadsFrom
  <2>2. /\ R.full => R.rows = file.rows
        /\ ~R.full => /\ Extends(file, from)
                      /\ R.rows = SubSeq(file.rows, from.offset + 1, Len(file.rows))
    BY ReadType DEF Typed, TypeOK
  <2>3. wholly => R.full  BY DEF ReadJSONL
  <2> HIDE DEF R
  <2>4. ASSUME ~R.full  PROVE mirror'.committed /\ file.rows = mirror'.rows \o R.rows
    <3>1. /\ mirror.committed /\ from = mirror.cursor /\ UNCHANGED mirror
          /\ Extends(file, mirror.cursor)
          /\ R.rows = SubSeq(file.rows, mirror.cursor.offset + 1, Len(file.rows))
      BY <1>1, <2>2, <2>3, <2>4
    <3>2. file.rows = mirror.rows \o R.rows  BY <3>1, TailReadFits
    <3> QED  BY <3>1, <3>2
  <2> QED  BY <2>1, <2>2, <2>4 DEF ReadSound, Reading
<1>2. ASSUME NEW c \in Config, NEW wholly \in BOOLEAN, Commit(c, wholly)  PROVE ReadSound'
  <2> DEFINE from == IF mirror.committed THEN mirror.cursor ELSE Start
  <2>1. from \in Cursor  BY StartType DEF Typed, TypeOK, Memory
  <2>2. ReadsFrom(from, wholly, c) /\ UNCHANGED mirror  BY <1>2, CommitReads
  <2>3. Extends(file, from) => mirror.committed /\ from = mirror.cursor  BY <1>a
  <2> HIDE DEF from
  <2> QED  BY <1>1, <2>1, <2>2, <2>3
<1>3. ASSUME NEW c \in Config, CommitRereads(c)  PROVE ReadSound'
  BY <1>1, <1>3, CommitRereadsAll, StartType
<1>4. CASE HydrateAdoptsNative
  BY <1>1, <1>4, NativeIsRead, StartType
<1>5. CASE Judge
  <2>1. CASE call' = None  BY <2>1 DEF ReadSound, Reading
  <2>2. CASE call' # None
    <3>1. /\ call # None /\ call.at = "judge"
          /\ Verdict \in {"append", "replace"} /\ call'.at = Verdict
          /\ call'.tail = call.tail /\ UNCHANGED <<mirror, snap>>
      BY <1>5, <2>2, JudgeMoves
    <3>2. ValidPast(snap.rows) /\ (ValidPast(snap.rows) <=> ValidPast(snap.rows)')
      BY <3>1, VerdictMeans DEF ValidPast
    <3>3. /\ call.tail.full => call.tail.rows = snap.rows
          /\ ~call.tail.full => mirror.committed /\ snap.rows = mirror.rows \o call.tail.rows
      BY <3>1 DEF ReadSound, Reading
    <3>4. Added(mirror, call.tail) = Added(mirror, call.tail)'  BY <3>1 DEF Added
    <3>5. /\ Verdict = "append" =>
               mirror.committed /\ snap.rows = mirror.rows \o Added(mirror, call.tail)
          /\ Verdict = "replace" => call.tail.full
      BY <3>1, VerdictMeans
    <3> QED  BY <3>1, <3>2, <3>3, <3>4, <3>5 DEF ReadSound
  <2> QED  BY <2>1, <2>2
<1>6. CASE AppendFails
  <2>1. /\ call # None /\ call.at = "append"
        /\ call'.at = (IF call.tail.full THEN "replace" ELSE "reread")
        /\ call'.tail = call.tail /\ UNCHANGED <<mirror, snap>>
    BY <1>6, AppendFailsMoves
  <2>2. /\ ValidPast(snap.rows) /\ (ValidPast(snap.rows) <=> ValidPast(snap.rows)')
        /\ call.tail.full => call.tail.rows = snap.rows
    BY <2>1 DEF ReadSound, Reading, ValidPast
  <2>3. CASE call.tail.full  BY <2>1, <2>2, <2>3 DEF ReadSound
  <2>4. CASE ~call.tail.full  BY <2>1, <2>4 DEF ReadSound, Reading
  <2> QED  BY <2>3, <2>4
<1>7. CASE UNCHANGED <<call, snap, mirror>>
  <2>1. ValidPast(snap.rows) <=> ValidPast(snap.rows)'  BY <1>7 DEF ValidPast
  <2>2. Added(mirror, call.tail) = Added(mirror, call.tail)'  BY <1>7 DEF Added
  <2> QED  BY <1>7, <2>1, <2>2 DEF ReadSound, Reading
<1>8. CASE call' = None
  BY <1>8 DEF ReadSound, Reading
<1>9. CASE HydrateCuts \/ HydrateTrims \/ HydrateAdoptsStored
  <2>1. call'.at \in {"trim", "reconcile", "write"}  BY <1>9, LoadMoves
  <2> QED  BY <2>1 DEF ReadSound, Reading
<1>10. CASE Hydrate
  BY <1>10, HydrateBegins DEF ReadSound, Reading
<1>11. CASE Reset \/ NewSession \/ Adopt
  BY <1>8, <1>11 DEF Reset, NewSession, Adopt
<1>12. CASE \/ Appends \/ Replaces \/ ReplaceFails \/ HydrateRefused \/ HydrateWrites
            \/ HydrateFails \/ Crash
  BY <1>8, <1>12 DEF Appends, Replaces, ReplaceFails, HydrateRefused, HydrateWrites, HydrateFails,
                     Crash, EndOk, EndFailed
<1>13. CASE HarnessWrites \/ HarnessEndsLine \/ NativeStateLost \/ HostDeletes \/ Bypass
  BY <1>7, <1>13 DEF HarnessWrites, HarnessEndsLine, NativeStateLost, HostDeletes, Bypass
<1>14. CASE HarnessRewrites
  BY <1>7, <1>8, <1>14 DEF HarnessRewrites
<1>15. CASE UNCHANGED vars  BY <1>7, <1>15 DEF vars
<1> QED
  BY <1>2, <1>3, <1>4, <1>5, <1>6, <1>9, <1>10, <1>11, <1>12, <1>13, <1>14, <1>15
     DEF Next, Method, Continue, Environment

-----------------------------------------------------------------------------
(* Cursors follow what was read and committed *)

(* The first cursor is the zero one (NewMirror).                           *)
LEMMA CursorInit == Init => CursorSound
BY DEF Init, CursorSound, Reading, Follows, Forgotten, Start

(* The next cursor of a read follows what was read.                        *)
LEMMA ReadIsFollowed ==
  ASSUME Typed, NEW from \in Cursor, NEW wholly \in BOOLEAN, NEW c, ReadsFrom(from, wholly, c)
  PROVE  Follows(file', call'.tail.next, snap'.rows)
<1>1. call'.tail.next = CursorAfter(file.id, file.rows)
  BY ReadType DEF ReadsFrom, Typed, TypeOK
<1>2. Follows(file, CursorAfter(file.id, file.rows), file.rows)  BY ReadFollows DEF Typed, TypeOK
<1> QED  BY <1>1, <1>2 DEF ReadsFrom

(* A zero cursor promises nothing.                                         *)
LEMMA ZeroFollows ==
  ASSUME NEW f, NEW c, c.offset = 0, NEW rows
  PROVE  Follows(f, c, rows)
BY DEF Follows

(* Whatever the harness does to its log, a cursor that follows a copy of   *)
(* it still does: a line appended is no line of a copy, a rewrite in place *)
(* is noticed, and a new file is a new one (checksum, fileIdentity).       *)
LEMMA HarnessFollows ==
  ASSUME Typed, Typed', HarnessWrites \/ HarnessEndsLine,
         NEW c \in Cursor, NEW rows \in Seq(Row), rows \in Seq(Recent), Follows(file, c, rows)
  PROVE  Follows(file', c, rows)
<1>a. /\ file \in LogFile /\ file' \in LogFile /\ minted \in Nat /\ file.rows \in Seq(Row)
      /\ file.tail # None => file.tail.row = minted
      /\ \A i \in 1 .. Len(rows) : rows[i] \in Recent
      /\ Len(file.rows) \in Nat /\ c.offset \in Nat
  BY LenProperties, ElementOfSeq DEF Typed, TypeOK, LogFile, Cursor
<1>1. ASSUME NEW r \in Row, r \notin Recent, file'.rows = Append(file.rows, r),
             file.id = 0 \/ file'.id = file.id
      PROVE  Follows(file', c, rows)
  BY <1>a, <1>1, FollowsAppend
<1>2. CASE HarnessWrites
  <2>0. file.tail = None /\ minted' = minted + 1 /\ minted < RowBound  BY <1>2 DEF HarnessWrites
  <2>a. minted < MaxRow  BY <2>0, <1>a, MirrorAssumption DEF RowBound
  <2>b. file.id = 0 \/ file'.id = file.id  BY <1>2 DEF HarnessWrites, Present
  <2>1. /\ file.tail = None /\ minted' = minted + 1 /\ minted < MaxRow
        /\ file.id = 0 \/ file'.id = file.id
    BY <2>0, <2>a, <2>b
  <2>2. Old = minted  BY <2>1 DEF Old
  <2>3. CASE \E r \in {minted', -minted'} : file'.rows = Append(file.rows, r)
    <3>1. PICK r \in {minted', -minted'} : file'.rows = Append(file.rows, r)  BY <2>3
    <3>2. r \in Row /\ r \notin Recent  BY <1>a, <2>1, <2>2, <3>1, MirrorAssumption DEF Recent
    <3> QED  BY <1>1, <2>1, <3>1, <3>2
  <2>4. CASE file'.rows = file.rows
    <3>1. Extends(file', c) => c.offset <= Len(file.rows)  BY <2>4 DEF Extends
    <3> QED  BY <1>a, <2>1, <2>4, <3>1, FollowsSame
  <2> QED  BY <1>2, <2>3, <2>4 DEF HarnessWrites
<1>3. CASE HarnessEndsLine
  <2>1. /\ file.tail # None /\ file'.id = file.id
        /\ file'.rows = Append(file.rows, file.tail.row)
    BY <1>3, <1>a DEF HarnessEndsLine, LogFile
  <2>2. Old = minted - 1 /\ minted \in 1 .. MaxRow  BY <1>a, <2>1 DEF Old, LogFile
  <2>3. file.tail.row \in Row /\ file.tail.row \notin Recent
    BY <1>a, <2>1, <2>2, MirrorAssumption DEF Recent
  <2> QED  BY <1>1, <2>1, <2>3
<1> QED  BY <1>2, <1>3

(* The three ways of a rewrite (a staged file, in place, and a reset).     *)
LEMMA RewriteCases ==
  ASSUME Typed, HarnessRewrites
  PROVE  \E rows \in Seq(Row) :
           /\ Len(rows) <= Len(file.rows) /\ file'.rows = rows
           /\ UNCHANGED <<store, open, call, snap, outcome>>
           /\ \/ file'.id = file.id + 1 /\ mirror' = mirror
              \/ file'.id = file.id /\ Noticed(rows) /\ mirror' = mirror
              \/ file'.id = file.id /\ call = None /\ mirror' = Forgotten
<1>1. minted < MaxRow /\ file \in LogFile
  BY MirrorAssumption DEF HarnessRewrites, RowBound, Typed, TypeOK
<1>2. PICK rows \in Edits(file.rows) :
         /\ file'.rows = rows
         /\ \/ file'.id = file.id + 1 /\ mirror' = mirror
            \/ file'.id = file.id /\ Noticed(rows) /\ mirror' = mirror
            \/ file'.id = file.id /\ call = None /\ mirror' = Forgotten
  BY <1>1 DEF HarnessRewrites, LogFile
<1>3. rows \in Seq(Row) /\ Len(rows) <= Len(file.rows)  BY <1>1, EditsType
<1>4. UNCHANGED <<store, open, call, snap, outcome>>  BY DEF HarnessRewrites
<1> QED  BY <1>2, <1>3, <1>4

(* A rewrite in place that a checksum notices leaves a cursor sound.       *)
LEMMA NoticedFollows ==
  ASSUME Typed, Typed', NEW c \in Cursor, c \in Cursors, NEW rows, Follows(file, c, rows),
         NEW edited \in Seq(Row), file'.rows = edited, file'.id = file.id, Noticed(edited),
         Len(edited) <= Len(file.rows)
  PROVE  Follows(file', c, rows)
<1>1. /\ file \in LogFile /\ file' \in LogFile /\ Len(file.rows) \in Nat
      /\ Len(edited) \in Nat /\ c.offset \in Nat
  BY LenProperties DEF Typed, TypeOK, LogFile, Cursor
<1>2. ASSUME Extends(file', c)
      PROVE  /\ c.offset <= Len(file.rows)
             /\ SubSeq(file'.rows, 1, c.offset) = SubSeq(file.rows, 1, c.offset)
  BY <1>1, <1>2 DEF Extends, Noticed
<1> QED  BY <1>1, <1>2, FollowsSame

(* What the harness does to its log leaves every cursor sound.             *)
LEMMA CursorUndisturbed ==
  ASSUME Typed, Typed', ControlSound, CursorSound, Fresh,
         HarnessWrites \/ HarnessEndsLine \/ HarnessRewrites
  PROVE  CursorSound'
<1>a. /\ mirror \in Memory /\ mirror.cursor \in Cursor /\ mirror.rows \in Seq(Row)
      /\ mirror.rows \in Seq(Recent) /\ mirror.cursor \in Cursors
      /\ Follows(file, mirror.cursor, mirror.rows)
  BY DEF Typed, TypeOK, Memory, Fresh, CopiesOver, Cursors, CursorSound
<1>b. ASSUME Reading
      PROVE  /\ call.tail.next \in Cursor /\ call.tail.next \in Cursors
             /\ snap.rows \in Seq(Row) /\ snap.rows \in Seq(Recent)
             /\ Follows(file, call.tail.next, snap.rows)
  <2>1. call # None /\ snap # None  BY <1>b DEF Reading, ControlSound
  <2> QED  BY <1>b, <2>1 DEF Typed, TypeOK, RunningCall, ReadTail, Snapshot, Fresh, CopiesOver,
                             Cursors, CursorSound
<1>1. CASE HarnessWrites \/ HarnessEndsLine
  <2>1. UNCHANGED <<call, snap, mirror>>  BY <1>1 DEF HarnessWrites, HarnessEndsLine
  <2>2. Follows(file', mirror.cursor, mirror.rows)  BY <1>1, <1>a, HarnessFollows
  <2>3. Reading => Follows(file', call.tail.next, snap.rows)
    BY <1>1, <1>b, HarnessFollows
  <2> QED  BY <2>1, <2>2, <2>3 DEF CursorSound, Reading
<1>2. CASE HarnessRewrites
  <2>1. PICK rows \in Seq(Row) :
           /\ Len(rows) <= Len(file.rows) /\ file'.rows = rows
           /\ UNCHANGED <<call, snap>>
           /\ \/ file'.id = file.id + 1 /\ mirror' = mirror
              \/ file'.id = file.id /\ Noticed(rows) /\ mirror' = mirror
              \/ file'.id = file.id /\ call = None /\ mirror' = Forgotten
    BY <1>2, RewriteCases
  <2>a. file \in LogFile /\ file' \in LogFile  BY DEF Typed, TypeOK
  <2>2. CASE file'.id = file.id + 1 /\ mirror' = mirror
    <3>1. Follows(file', mirror.cursor, mirror.rows)  BY <1>a, <2>2, <2>a, FollowsNewFile
    <3>2. Reading => Follows(file', call.tail.next, snap.rows)
      BY <1>b, <2>2, <2>a, FollowsNewFile
    <3> QED  BY <2>1, <2>2, <3>1, <3>2 DEF CursorSound, Reading
  <2>3. CASE file'.id = file.id /\ Noticed(rows) /\ mirror' = mirror
    <3>1. Follows(file', mirror.cursor, mirror.rows)  BY <1>a, <2>1, <2>3, NoticedFollows
    <3>2. Reading => Follows(file', call.tail.next, snap.rows)
      BY <1>b, <2>1, <2>3, NoticedFollows
    <3> QED  BY <2>1, <2>3, <3>1, <3>2 DEF CursorSound, Reading
  <2>4. CASE call = None /\ mirror' = Forgotten
    <3>1. mirror'.cursor.offset = 0  BY <2>4 DEF Forgotten, Start
    <3> QED  BY <2>1, <2>4, <3>1, ZeroFollows DEF CursorSound, Reading
  <2> QED  BY <2>1, <2>2, <2>3, <2>4
<1> QED  BY <1>1, <1>2

(* A cursor that is kept between calls, or carried by one, never makes a   *)
(* later read start behind other rows than were committed (ReadJSONL).     *)
LEMMA CursorNext ==
  ASSUME Typed, Typed', ControlSound, CursorSound, Fresh, ReadSound, LoadSound, [Next]_vars
  PROVE  CursorSound'
<1>1. CASE /\ UNCHANGED <<file, mirror>>
           /\ Reading' => Reading /\ call'.tail = call.tail /\ snap' = snap
  BY <1>1 DEF CursorSound
<1>2. CASE mirror'.cursor.offset = 0 /\ ~Reading'
  BY <1>2, ZeroFollows DEF CursorSound
<1>3. ASSUME NEW c \in Config, NEW wholly \in BOOLEAN, Commit(c, wholly)  PROVE CursorSound'
  <2> DEFINE from == IF mirror.committed THEN mirror.cursor ELSE Start
  <2>1. from \in Cursor  BY StartType DEF Typed, TypeOK, Memory
  <2>2. ReadsFrom(from, wholly, c) /\ UNCHANGED mirror  BY <1>3, CommitReads
  <2> HIDE DEF from
  <2>3. Follows(file', call'.tail.next, snap'.rows)  BY <2>1, <2>2, ReadIsFollowed
  <2>4. file' = file  BY <2>2 DEF ReadsFrom
  <2> QED  BY <2>2, <2>3, <2>4 DEF CursorSound
<1>4. ASSUME NEW c \in Config, CommitRereads(c)  PROVE CursorSound'
  <2>1. ReadsFrom(Start, TRUE, c) /\ UNCHANGED mirror  BY <1>4, CommitRereadsAll
  <2>2. Follows(file', call'.tail.next, snap'.rows)  BY <2>1, StartType, ReadIsFollowed
  <2>3. file' = file  BY <2>1 DEF ReadsFrom
  <2> QED  BY <2>1, <2>2, <2>3 DEF CursorSound
<1>5. CASE HydrateAdoptsNative
  <2>1. ReadsFrom(Start, TRUE, call.config) /\ mirror' = Adopted(call.tail.rows, call.config, Start)
    BY <1>5, NativeIsRead
  <2>2. Follows(file', call'.tail.next, snap'.rows)  BY <2>1, StartType, ReadIsFollowed
  <2>3. mirror'.cursor.offset = 0  BY <2>1 DEF Adopted, Start
  <2> QED  BY <2>2, <2>3, ZeroFollows DEF CursorSound
<1>6. CASE Judge
  <2>1. CASE Verdict = "nothing" /\ mirror' = [mirror EXCEPT !.cursor = call.tail.next]
             /\ call' = None
    <3>1. call # None /\ call.at = "judge" /\ file' = file  BY <1>6, JudgeMoves
    <3>2. snap.rows = mirror.rows  BY <2>1, <3>1, VerdictMeans
    <3>3. mirror'.cursor = call.tail.next /\ mirror'.rows = mirror.rows
      BY <2>1 DEF Typed, TypeOK, Memory
    <3>4. Follows(file, call.tail.next, snap.rows)  BY <3>1 DEF CursorSound, Reading
    <3> QED  BY <2>1, <3>1, <3>2, <3>3, <3>4 DEF CursorSound, Reading
  <2>2. CASE UNCHANGED <<mirror, file>> /\ (call' = None \/ (call'.tail = call.tail /\ snap' = snap))
    BY <1>1, <1>6, <2>2, JudgeMoves DEF Reading
  <2> QED  BY <1>6, <2>1, <2>2, JudgeMoves
<1>7. CASE Appends
  <2>1. /\ call # None /\ call.at = "append" /\ file' = file /\ call' = None
        /\ mirror' = Extended(mirror, Added(mirror, call.tail), call.config, call.tail.next)
    BY <1>7 DEF Appends, EndOk
  <2>2. mirror'.cursor = call.tail.next /\ mirror'.rows = mirror.rows \o Added(mirror, call.tail)
    BY <2>1 DEF Extended
  <2>3. snap.rows = mirror.rows \o Added(mirror, call.tail)
        /\ Follows(file, call.tail.next, snap.rows)
    BY <2>1 DEF ReadSound, CursorSound, Reading
  <2>4. mirror'.rows = snap.rows  BY <2>2, <2>3
  <2>5. Follows(file', mirror'.cursor, mirror'.rows)  BY <2>1, <2>2, <2>3, <2>4
  <2> QED  BY <2>1, <2>5 DEF CursorSound, Reading
<1>8. CASE Replaces
  <2>1. /\ call # None /\ call.at = "replace" /\ file' = file /\ call' = None
        /\ mirror'.cursor = call.tail.next /\ mirror'.rows = call.tail.rows
    BY <1>8 DEF Replaces, EndOk, Adopted
  <2>2. snap.rows = call.tail.rows /\ Follows(file, call.tail.next, snap.rows)
    BY <2>1 DEF ReadSound, CursorSound, Reading
  <2> QED  BY <2>1, <2>2 DEF CursorSound, Reading
<1>9. CASE AppendFails
  BY <1>1, <1>9, AppendFailsMoves DEF Reading
<1>10. CASE ReplaceFails \/ HydrateRefused \/ HydrateFails
  BY <1>1, <1>10 DEF ReplaceFails, HydrateRefused, HydrateFails, EndFailed, Reading
<1>11. CASE Reset \/ NewSession \/ Crash
  BY <1>2, <1>11 DEF Reset, NewSession, Crash, Reading, Forgotten, Start
<1>12. CASE Adopt
  <2>1. /\ call' = None /\ mirror'.rows = file.rows /\ file' = file
        /\ mirror'.cursor = CursorAfter(file.id, file.rows)
    BY <1>12 DEF Adopt, Adopted
  <2>2. Follows(file, CursorAfter(file.id, file.rows), file.rows)  BY ReadFollows DEF Typed, TypeOK
  <2> QED  BY <2>1, <2>2 DEF CursorSound, Reading
<1>13. CASE Hydrate
  <2>1. mirror'.cursor.offset = 0  BY <1>13 DEF Hydrate, Forgotten, Start
  <2> QED  BY <1>2, <1>13, <2>1, HydrateBegins DEF Reading
<1>14. CASE HydrateCuts \/ HydrateTrims
  <2>1. mirror' = mirror /\ call # None /\ call.at \in {"cut", "trim"}
    BY <1>14 DEF HydrateCuts, HydrateTrims
  <2>2. mirror.cursor.offset = 0  BY <2>1 DEF LoadSound, Forgotten, Start
  <2> QED  BY <1>2, <1>14, <2>1, <2>2, LoadMoves DEF Reading
<1>15. CASE HydrateAdoptsStored
  <2>1. mirror'.cursor.offset = 0  BY <1>15 DEF HydrateAdoptsStored, Adopted, Start
  <2> QED  BY <1>2, <1>15, <2>1, LoadMoves DEF Reading
<1>16. CASE HydrateWrites
  <2>1. /\ call # None /\ call.at = "write" /\ call' = None /\ file'.rows = call.tail.rows
        /\ file' \in LogFile /\ file'.id = file.id + 1
        /\ mirror' = [mirror EXCEPT !.cursor = CursorAfter(file'.id, call.tail.rows)]
    BY <1>16 DEF HydrateWrites, EndOk, Typed, TypeOK
  <2>2. mirror.rows = call.tail.rows  BY <2>1 DEF LoadSound, Adopted
  <2>3. mirror'.cursor = CursorAfter(file'.id, file'.rows) /\ mirror'.rows = file'.rows
    BY <2>1, <2>2 DEF Typed, TypeOK, Memory
  <2>4. file'.id = 0 => file'.rows = <<>>  BY DEF Typed
  <2>5. Follows(file', CursorAfter(file'.id, file'.rows), file'.rows)
    BY <2>1, <2>4, ReadFollows
  <2> QED  BY <2>1, <2>3, <2>5 DEF CursorSound, Reading
<1>17. CASE NativeStateLost
  <2>1. mirror'.cursor.offset = 0 /\ call' = None  BY <1>17 DEF NativeStateLost, ControlSound
  <2> QED  BY <1>2, <2>1 DEF Reading
<1>18. CASE HarnessWrites \/ HarnessEndsLine \/ HarnessRewrites
  BY <1>18, CursorUndisturbed
<1>19. CASE HostDeletes \/ Bypass
  BY <1>1, <1>19 DEF HostDeletes, Bypass, Reading
<1>20. CASE UNCHANGED vars  BY <1>1, <1>20 DEF vars, Reading
<1> QED
  BY <1>3, <1>4, <1>5, <1>6, <1>7, <1>8, <1>9, <1>10, <1>11, <1>12, <1>13, <1>14, <1>15, <1>16,
     <1>17, <1>18, <1>19, <1>20
     DEF Next, Method, Continue, Environment

-----------------------------------------------------------------------------
(* A mirror that is the only writer *)

(* As long as nothing else writes, what was committed is what the store    *)
(* holds, in the middle of a call too; so is what a load was handed.       *)
OrderlySound ==
  orderly =>
    /\ (mirror.committed /\ ~store.deleted) =>
         store.generation = WholeGeneration(mirror.rows, mirror.record)
    /\ (Hydrating /\ ~store.deleted) =>
         store.generation = WholeGeneration(call.tail.rows, call.config)
    /\ store.generation # None => ~Invalid(store.generation[Main], 0)

(* Valid rows and those validated past them are valid rows (validateRows). *)
LEMMA ValidTogether ==
  ASSUME NEW p \in Seq(Row), NEW s \in Seq(Row), Prefix(p, s), ~Invalid(p, 0), ~Invalid(s, Len(p))
  PROVE  ~Invalid(s, 0)
<1>1. Len(p) \in Nat /\ Len(s) \in Nat  BY LenProperties
<1>2. ASSUME NEW i \in 0 + 1 .. Len(s)  PROVE Valid(s[i])
  <2>1. CASE i <= Len(p)
    <3>1. i \in 1 .. Len(p) /\ i \in 0 + 1 .. Len(p)  BY <1>1, <2>1
    <3>2. s[i] = p[i] /\ Valid(p[i])  BY <3>1 DEF Prefix, Invalid
    <3> QED  BY <3>2
  <2>2. CASE ~(i <= Len(p))
    <3>1. i \in Len(p) + 1 .. Len(s)  BY <1>1, <2>2
    <3> QED  BY <3>1 DEF Invalid
  <2> QED  BY <2>1, <2>2
<1> QED  BY <1>2 DEF Invalid

(* What an orderly mirror is about to write is valid (commitFull's and     *)
(* appendTail's validation, and the digest of the committed rows).         *)
LEMMA WritesValidRows ==
  ASSUME Typed, ControlSound, ReadSound, OrderlySound, orderly, ~store.deleted,
         call # None, call.at \in {"append", "replace"}
  PROVE  /\ ~Invalid(snap.rows, 0) /\ snap.rows \in Seq(Row) /\ call.config \in Config
         /\ snap.config = call.config
<1>1. snap # None /\ ValidPast(snap.rows) /\ snap.config = call.config
  BY DEF ControlSound, ReadSound, Reading
<1>2. snap.rows \in Seq(Row) /\ mirror.rows \in Seq(Row) /\ call.config \in Config
  BY <1>1 DEF Typed, TypeOK, Snapshot, Memory, RunningCall
<1>3. ASSUME mirror.committed  PROVE ~Invalid(mirror.rows, 0)
  <2>1. store.generation = WholeGeneration(mirror.rows, mirror.record)
    BY <1>3 DEF OrderlySound
  <2>2. mirror.record \in Config  BY <1>3 DEF Typed
  <2>3. store.generation # None /\ store.generation[Main] = mirror.rows
    BY <1>2, <2>1, <2>2, GenerationParts
  <2> QED  BY <2>3 DEF OrderlySound
<1>4. ~Invalid(snap.rows, 0)  BY <1>1, <1>2, <1>3, ValidTogether DEF ValidPast
<1> QED  BY <1>1, <1>2, <1>4

(* An append of an orderly mirror publishes the history that was read.     *)
LEMMA OrderlyAppends ==
  ASSUME Typed, ControlSound, ReadSound, OrderlySound, orderly, ~store.deleted,
         call # None, call.at = "append", ~AppendRefused(store, Len(mirror.rows))
  PROVE  AppendedStore = Published(store, snap.rows, call.config)
<1>1. mirror.committed /\ snap.rows = mirror.rows \o Added(mirror, call.tail)
  BY DEF ReadSound, Reading
<1>2. /\ mirror.rows \in Seq(Row) /\ mirror \in Memory /\ call.tail \in ReadTail
      /\ call.config \in Config /\ mirror.record \in Config /\ StoreSound(store)
  BY <1>1 DEF Typed, TypeOK, Memory, RunningCall
<1>3. store.generation = WholeGeneration(mirror.rows, mirror.record)  BY <1>1 DEF OrderlySound
<1>4. store.generation[Main] = mirror.rows /\ store.generation[ConfigSubpath][1] = mirror.record
  BY <1>2, <1>3, GenerationParts
<1>5. Added(mirror, call.tail) \in Seq(Row)  BY <1>2, AddedType
<1>6. AppendedStore = Published(store, store.generation[Main] \o Added(mirror, call.tail),
                                AppendedConfig(store, mirror, call.config))
  BY <1>2, <1>5, AppendWhole DEF AppendedStore
<1>7. AppendedConfig(store, mirror, call.config) = call.config  BY <1>4 DEF AppendedConfig
<1>8. store.generation[Main] \o Added(mirror, call.tail) = snap.rows  BY <1>1, <1>4
<1> QED  BY <1>6, <1>7, <1>8

(* So does a replacement, whoever else writes.                             *)
LEMMA ReplacePublishes ==
  ASSUME Typed, ReadSound, ~store.deleted, call # None, call.at = "replace"
  PROVE  /\ ReplacedStore = Published(store, snap.rows, call.config)
         /\ snap.rows = call.tail.rows
<1>1. call.tail.rows = snap.rows  BY DEF ReadSound, Reading
<1>2. call.tail.rows \in Seq(Row) /\ call.config \in Config /\ StoreSound(store)
  BY DEF Typed, TypeOK, RunningCall, ReadTail
<1>3. ReplacedStore = Published(store, call.tail.rows, call.config)
  BY <1>2, ReplaceSound DEF ReplacedStore
<1> QED  BY <1>1, <1>3

(* The two writes of an orderly mirror.                                    *)
LEMMA OrderlyWrites ==
  ASSUME Typed, ControlSound, ReadSound, OrderlySound, orderly, call # None,
         NEW s, \/ call.at = "append" /\ ~AppendRefused(store, Len(mirror.rows)) /\ s = AppendedStore
                \/ call.at = "replace" /\ s = ReplacedStore
  PROVE  /\ ~s.deleted => /\ s.generation = WholeGeneration(snap.rows, call.config)
                          /\ ~store.deleted
         /\ s.generation # None => ~Invalid(s.generation[Main], 0)
<1>1. CASE store.deleted
  <2>1. s = store  BY <1>1 DEF AppendedStore, ReplacedStore, StoreAppend, StoreReplace
  <2> QED  BY <1>1, <2>1 DEF OrderlySound
<1>2. CASE ~store.deleted
  <2>1. s = Published(store, snap.rows, call.config)
    BY <1>2, OrderlyAppends, ReplacePublishes
  <2>2. /\ ~Invalid(snap.rows, 0) /\ snap.rows \in Seq(Row) /\ call.config \in Config
    BY <1>2, WritesValidRows
  <2>3. s.generation = WholeGeneration(snap.rows, call.config)
    BY <2>1, <2>2, PublishedSound DEF Typed
  <2>4. s.generation[Main] = snap.rows  BY <2>2, <2>3, GenerationParts
  <2> QED  BY <1>2, <2>2, <2>3, <2>4
<1> QED  BY <1>1, <1>2

(* Nothing is committed or stored at first (NewMirror).                    *)
LEMMA OrderlyInit == Init => OrderlySound
BY DEF Init, OrderlySound, Hydrating, Forgotten, NewStore

(* No interleaving of commits, failures, crashes and loads separates what  *)
(* is remembered from what is stored (Mirror.Commit, Mirror.Hydrate).      *)
LEMMA OrderlyNext ==
  ASSUME Typed, Typed', ControlSound, ReadSound, LoadSound, OrderlySound, [Next]_vars
  PROVE  OrderlySound'
<1> SUFFICES ASSUME orderly'  PROVE OrderlySound'  BY DEF OrderlySound
<1>a. orderly  BY DEF Next, vars
<1>1. CASE /\ store' = store
           /\ mirror'.committed => mirror.committed /\ mirror'.rows = mirror.rows
                                   /\ mirror'.record = mirror.record
           /\ Hydrating' => Hydrating /\ call'.tail = call.tail /\ call'.config = call.config
  BY <1>a, <1>1 DEF OrderlySound
<1>2. ASSUME NEW c \in Config, NEW wholly \in BOOLEAN, Commit(c, wholly)  PROVE OrderlySound'
  BY <1>1, <1>2, CommitReads DEF ReadsFrom, Hydrating
<1>3. ASSUME NEW c \in Config, CommitRereads(c)  PROVE OrderlySound'
  BY <1>1, <1>3, CommitRereadsAll DEF ReadsFrom, Hydrating
<1>4. CASE HydrateAdoptsNative \/ HydrateAdoptsStored
  <2>0. /\ call # None /\ call.at = "reconcile" /\ store' = store
        /\ mirror' = Adopted(call.tail.rows, call.config, Start)
    BY <1>4 DEF HydrateAdoptsNative, HydrateAdoptsStored
  <2>1. mirror'.committed /\ mirror'.rows = call.tail.rows /\ mirror'.record = call.config
    BY <2>0 DEF Adopted
  <2>2. ~store.deleted => store.generation = WholeGeneration(call.tail.rows, call.config)
    BY <1>a, <2>0 DEF OrderlySound, Hydrating
  <2>3. Hydrating' => call'.tail = call.tail /\ call'.config = call.config
    <3>1. CASE HydrateAdoptsNative  BY <3>1, NativeIsRead DEF ReadsFrom, Hydrating
    <3>2. CASE HydrateAdoptsStored  BY <3>2, LoadMoves
    <3> QED  BY <1>4, <3>1, <3>2
  <2> QED  BY <1>a, <2>0, <2>1, <2>2, <2>3 DEF OrderlySound
<1>5. CASE Judge
  <2>1. store' = store /\ (call' = None \/ call'.at \in {"append", "replace"})
    BY <1>5, JudgeMoves
  <2>2. mirror' = mirror \/ mirror' = [mirror EXCEPT !.cursor = call.tail.next]
    BY <1>5, JudgeMoves
  <2>3. /\ mirror'.committed = mirror.committed /\ mirror'.rows = mirror.rows
        /\ mirror'.record = mirror.record
    BY <2>2 DEF Typed, TypeOK, Memory
  <2> QED  BY <1>1, <2>1, <2>3 DEF Hydrating
<1>6. CASE Appends \/ Replaces
  <2>1. /\ call # None /\ call' = None
        /\ \/ call.at = "append" /\ ~AppendRefused(store, Len(mirror.rows)) /\ store' = AppendedStore
           \/ call.at = "replace" /\ store' = ReplacedStore
    BY <1>6 DEF Appends, Replaces, EndOk
  <2>2. /\ ~store'.deleted => store'.generation = WholeGeneration(snap.rows, call.config)
        /\ store'.generation # None => ~Invalid(store'.generation[Main], 0)
    BY <1>a, <2>1, OrderlyWrites
  <2>3. mirror'.rows = snap.rows /\ mirror'.record = call.config
    <3>1. CASE Appends
      <4>1. /\ call.at = "append" /\ mirror'.rows = mirror.rows \o Added(mirror, call.tail)
            /\ mirror'.record = call.config
        BY <3>1 DEF Appends, Extended
      <4> QED  BY <2>1, <4>1 DEF ReadSound, Reading
    <3>2. CASE Replaces
      <4>1. call.at = "replace" /\ mirror'.rows = call.tail.rows /\ mirror'.record = call.config
        BY <3>2 DEF Replaces, Adopted
      <4> QED  BY <2>1, <4>1 DEF ReadSound, Reading
    <3> QED  BY <1>6, <3>1, <3>2
  <2> QED  BY <2>1, <2>2, <2>3 DEF OrderlySound, Hydrating
<1>7. CASE AppendFails
  BY <1>1, <1>7, <1>a, AppendFailsMoves DEF AppendFails, Hydrating
<1>8. CASE ReplaceFails \/ HydrateRefused \/ HydrateFails
  BY <1>1, <1>8, <1>a DEF ReplaceFails, HydrateRefused, HydrateFails, EndFailed, Hydrating
<1>9. CASE Reset \/ NewSession
  BY <1>1, <1>9, ForgottenType DEF Reset, NewSession, Hydrating
<1>10. CASE Adopt
  <2>1. /\ store' = store /\ call' = None /\ store.generation # None
        /\ mirror'.rows = store.generation[Main]
        /\ mirror'.record = store.generation[ConfigSubpath][1]
    BY <1>10 DEF Adopt, Loads, Adopted
  <2>2. store.generation = WholeGeneration(mirror'.rows, mirror'.record)
    BY <2>1 DEF Typed, StoreSound
  <2> QED  BY <1>a, <2>1, <2>2 DEF OrderlySound, Hydrating
<1>11. CASE Hydrate
  <2>1. /\ call'.tail.rows = store.generation[Main] /\ call'.config = StoredConfig
        /\ store.generation # None
    BY <1>11, HydrateBegins
  <2>2. store.generation = WholeGeneration(call'.tail.rows, call'.config)
    BY <2>1 DEF Typed, StoreSound, StoredConfig
  <2>3. store' = store /\ ~mirror'.committed  BY <1>11, ForgottenType DEF Hydrate
  <2> QED  BY <1>a, <2>2, <2>3 DEF OrderlySound
<1>12. CASE HydrateCuts \/ HydrateTrims
  <2>1. store' = store /\ mirror' = mirror  BY <1>12 DEF HydrateCuts, HydrateTrims
  <2> QED  BY <1>1, <1>12, <2>1, LoadMoves DEF Hydrating
<1>13. CASE HydrateWrites
  <2>1. store' = store /\ call' = None /\ mirror'.committed = mirror.committed
        /\ mirror'.rows = mirror.rows /\ mirror'.record = mirror.record
    BY <1>13 DEF HydrateWrites, EndOk, Typed, TypeOK, Memory
  <2> QED  BY <1>1, <2>1 DEF Hydrating
<1>14. CASE HarnessWrites \/ HarnessEndsLine \/ NativeStateLost
  BY <1>1, <1>14 DEF HarnessWrites, HarnessEndsLine, NativeStateLost, Hydrating
<1>15. CASE HarnessRewrites
  <2>1. store' = store /\ call' = call /\ (mirror' = mirror \/ mirror' = Forgotten)
    BY <1>15 DEF HarnessRewrites
  <2> QED  BY <1>1, <2>1, ForgottenType DEF Hydrating
<1>16. CASE Crash
  <2>1. ~mirror'.committed /\ call' = None  BY <1>16, ForgottenType DEF Crash
  <2>2. CASE store' = store  BY <1>1, <2>1, <2>2 DEF Hydrating
  <2>3. CASE store' # store
    <3>1. /\ call # None
          /\ \/ call.at = "append" /\ ~AppendRefused(store, Len(mirror.rows)) /\ store' = AppendedStore
             \/ call.at = "replace" /\ store' = ReplacedStore
      BY <1>16, <2>3 DEF Crash
    <3>2. store'.generation # None => ~Invalid(store'.generation[Main], 0)
      BY <1>a, <3>1, OrderlyWrites
    <3> QED  BY <2>1, <3>2 DEF OrderlySound, Hydrating
  <2> QED  BY <2>2, <2>3
<1>17. CASE HostDeletes
  BY <1>17 DEF HostDeletes, StoreDelete, OrderlySound
<1>18. CASE Bypass
  BY <1>18, <1>a DEF Bypass
<1>19. CASE UNCHANGED vars  BY <1>1, <1>19 DEF vars, Hydrating
<1> QED
  BY <1>2, <1>3, <1>4, <1>5, <1>6, <1>7, <1>8, <1>9, <1>10, <1>11, <1>12, <1>13, <1>14, <1>15,
     <1>16, <1>17, <1>18, <1>19
     DEF Next, Method, Continue, Environment

-----------------------------------------------------------------------------
(* A store that has other writers *)

(* The store compares an append's base by its count only (Store.Append).   *)
Counted(rows) ==
  (~store.deleted /\ store.generation # None /\ Len(store.generation[Main]) = Len(rows)) =>
    store.generation[Main] = rows

(* What the running call has read, or the next one will.                   *)
History == IF Reading THEN snap.rows ELSE file.rows

(* As long as the committed rows begin the history, a stored generation of *)
(* their number is them: a failed write that took effect has another       *)
(* number of rows, or another beginning.                                   *)
Undisturbed ==
  /\ (mirror.committed /\ Prefix(mirror.rows, History)) => Counted(mirror.rows)
  /\ (Reading /\ mirror.committed /\ Prefix(mirror.rows, file.rows)) =>
       Prefix(mirror.rows, snap.rows)
  /\ Hydrating => Counted(call.tail.rows)

(* Rows that begin a log that has grown began it before: no line the       *)
(* harness adds is a copied one (HarnessWrites, HarnessRewrites).          *)
LEMMA PrefixBefore ==
  ASSUME Typed, Typed', GrownStep, NEW p \in Seq(Row), p \in Seq(Recent), Prefix(p, file'.rows)
  PROVE  Prefix(p, file.rows)
<1>1. /\ Len(p) \in Nat /\ Len(file.rows) \in Nat /\ Len(file'.rows) \in Nat
      /\ \A i \in 1 .. Len(p) : p[i] \in Recent
  BY LenProperties, ElementOfSeq DEF Typed, TypeOK, LogFile
<1>2. \A i \in 1 .. Len(p) : i \in 1 .. Len(file'.rows) /\ file'.rows[i] = p[i]
  BY <1>1 DEF Prefix
<1>3. \A i \in 1 .. Len(p) : i <= Len(file.rows) /\ file.rows[i] = p[i]
  BY <1>1, <1>2 DEF GrownStep, Grown
<1>4. Len(p) <= Len(file.rows)
  <2>1. CASE Len(p) = 0  BY <1>1, <2>1
  <2>2. CASE Len(p) # 0  BY <1>1, <1>3, <2>2
  <2> QED  BY <2>1, <2>2
<1> QED  BY <1>3, <1>4 DEF Prefix

(* A prefix of the same length is the whole.                               *)
LEMMA WholePrefix ==
  ASSUME NEW p \in Seq(Row), NEW s \in Seq(Row), Prefix(p, s), Len(p) = Len(s)
  PROVE  p = s
<1>1. Len(p) \in Nat /\ \A i \in 1 .. Len(p) : p[i] = s[i]  BY LenProperties DEF Prefix
<1> QED  BY <1>1, SeqEqual

(* An append that the store takes publishes the history that was read,     *)
(* whoever else wrote (Mirror.appendTail).                                 *)
LEMMA AppendPublishes ==
  ASSUME Typed, ControlSound, ReadSound, Undisturbed, ~store.deleted,
         call # None, call.at = "append", ~AppendRefused(store, Len(mirror.rows))
  PROVE  /\ AppendedStore
              = Published(store, snap.rows, AppendedConfig(store, mirror, call.config))
         /\ AppendedConfig(store, mirror, call.config) \in Config
         /\ Prefix(mirror.rows, snap.rows) /\ mirror.committed
<1>0. snap # None  BY DEF ControlSound, Reading
<1>1. mirror.committed /\ snap.rows = mirror.rows \o Added(mirror, call.tail)
  BY DEF ReadSound, Reading
<1>2. /\ mirror.rows \in Seq(Row) /\ mirror \in Memory /\ call.tail \in ReadTail
      /\ call.config \in Config /\ StoreSound(store)
  BY <1>0 DEF Typed, TypeOK, Memory, RunningCall
<1>3. Added(mirror, call.tail) \in Seq(Row)  BY <1>2, AddedType
<1>4. Prefix(mirror.rows, mirror.rows \o Added(mirror, call.tail))  BY <1>2, <1>3, ConcatPrefix
<1>5. Prefix(mirror.rows, snap.rows)  BY <1>1, <1>4
<1>6. store.generation # None /\ Len(store.generation[Main]) = Len(mirror.rows)
  BY DEF AppendRefused
<1>7. store.generation[Main] = mirror.rows
  BY <1>1, <1>5, <1>6 DEF Undisturbed, History, Counted, Reading
<1>8. /\ AppendedStore = Published(store, store.generation[Main] \o Added(mirror, call.tail),
                                   AppendedConfig(store, mirror, call.config))
      /\ store.generation[ConfigSubpath][1] \in Config
  BY <1>2, <1>3, AppendWhole DEF AppendedStore
<1>9. store.generation[Main] \o Added(mirror, call.tail) = snap.rows  BY <1>1, <1>7
<1>10. AppendedConfig(store, mirror, call.config) \in Config  BY <1>2, <1>8 DEF AppendedConfig
<1> QED  BY <1>1, <1>5, <1>8, <1>9, <1>10

(* A write of the mirror publishes the history it read, and a              *)
(* configuration.                                                          *)
LEMMA WritePublishes ==
  ASSUME Typed, ControlSound, ReadSound, Undisturbed, call # None, ~store.deleted,
         NEW s, \/ call.at = "append" /\ ~AppendRefused(store, Len(mirror.rows)) /\ s = AppendedStore
                \/ call.at = "replace" /\ s = ReplacedStore
  PROVE  /\ snap # None /\ snap.rows \in Seq(Row) /\ snap.config = call.config
         /\ call.config \in Config /\ ~s.deleted
         /\ \E c \in Config : /\ s.generation = WholeGeneration(snap.rows, c)
                              /\ call.at = "replace" => c = call.config
<1>1. snap # None /\ snap.config = call.config  BY DEF ControlSound, Reading
<1>2. snap.rows \in Seq(Row) /\ call.config \in Config /\ StoreSound(store)
  BY <1>1 DEF Typed, TypeOK, Snapshot, RunningCall
<1>3. \E c \in Config : s = Published(store, snap.rows, c) /\ (call.at = "replace" => c = call.config)
  BY <1>2, AppendPublishes, ReplacePublishes
<1>4. PICK c \in Config : s = Published(store, snap.rows, c) /\ (call.at = "replace" => c = call.config)
  BY <1>3
<1>5. s.generation = WholeGeneration(snap.rows, c) /\ s.deleted = store.deleted
  BY <1>2, <1>4, PublishedSound
<1> QED  BY <1>1, <1>2, <1>4, <1>5

(* A generation of the history that was read is counted by it.             *)
LEMMA WrittenIsCounted ==
  ASSUME Typed, ControlSound, ReadSound, Undisturbed, call # None,
         NEW s,
         \/ call.at = "append" /\ ~AppendRefused(store, Len(mirror.rows)) /\ s = AppendedStore
         \/ call.at = "replace" /\ s = ReplacedStore
  PROVE  ~s.deleted => s.generation[Main] = snap.rows /\ snap.rows \in Seq(Row)
<1>1. CASE store.deleted
  BY <1>1 DEF AppendedStore, ReplacedStore, StoreAppend, StoreReplace
<1>2. CASE ~store.deleted
  <2>1. PICK c \in Config : s.generation = WholeGeneration(snap.rows, c)
    BY <1>2, WritePublishes
  <2>2. snap.rows \in Seq(Row)  BY <1>2, WritePublishes
  <2> QED  BY <2>1, <2>2, GenerationParts
<1> QED  BY <1>1, <1>2

(* Nothing is committed at first (NewMirror).                              *)
LEMMA UndisturbedInit == Init => Undisturbed
BY DEF Init, Undisturbed, Reading, Hydrating, Forgotten

(* Nothing that the harness, other writers, failures or crashes do makes   *)
(* the stored generation pass for the committed rows.                      *)
LEMMA UndisturbedNext ==
  ASSUME Typed, Typed', Fresh, ControlSound, ReadSound, LoadSound, Undisturbed, [Next]_vars
  PROVE  Undisturbed'
<1>a. /\ mirror \in Memory /\ mirror' \in Memory /\ mirror.rows \in Seq(Row)
      /\ mirror.rows \in Seq(Recent) /\ StoreSound(store)
  BY DEF Typed, TypeOK, Memory, Fresh, CopiesOver
<1>b. Reading => snap # None /\ snap.rows \in Seq(Row)
  BY DEF ControlSound, Typed, TypeOK, Snapshot
<1>1. CASE /\ store' = store /\ ~HydrateWrites
           /\ mirror'.committed => mirror.committed /\ mirror'.rows = mirror.rows
           /\ Reading' => Reading /\ snap' = snap
           /\ Hydrating' => Hydrating /\ call'.tail = call.tail
  <2>1. GrownStep  BY <1>1, LogGrows
  <2>2. mirror.committed /\ Prefix(mirror.rows, file'.rows) => Prefix(mirror.rows, file.rows)
    BY <1>a, <2>1, PrefixBefore
  <2>3. Hydrating' => Counted(call.tail.rows)'  BY <1>1 DEF Undisturbed, Counted
  <2>4. ASSUME Reading', mirror'.committed, Prefix(mirror'.rows, file'.rows)
        PROVE  Prefix(mirror'.rows, snap'.rows)
    BY <1>1, <2>2, <2>4 DEF Undisturbed
  <2>5. ASSUME mirror'.committed, Prefix(mirror'.rows, History')
        PROVE  Counted(mirror.rows)
    <3>1. mirror.committed /\ mirror'.rows = mirror.rows  BY <1>1, <2>5
    <3>2. CASE Reading'
      <4>1. Prefix(mirror.rows, History)  BY <1>1, <2>5, <3>1, <3>2 DEF History
      <4> QED  BY <3>1, <4>1 DEF Undisturbed
    <3>3. CASE ~Reading'
      <4>1. Prefix(mirror.rows, file.rows)  BY <2>2, <2>5, <3>1, <3>3 DEF History
      <4>2. Prefix(mirror.rows, History)  BY <3>1, <4>1 DEF Undisturbed, History
      <4> QED  BY <3>1, <4>2 DEF Undisturbed
    <3> QED  BY <3>2, <3>3
  <2>6. ASSUME mirror'.committed, Prefix(mirror'.rows, History')
        PROVE  Counted(mirror.rows)'
    BY <1>1, <2>5, <2>6 DEF Counted
  <2> QED  BY <2>3, <2>4, <2>6 DEF Undisturbed
<1>2. ASSUME NEW c, NEW from \in Cursor, NEW wholly \in BOOLEAN, ReadsFrom(from, wholly, c),
             mirror'.committed /\ Prefix(mirror'.rows, file.rows) => Counted(mirror'.rows)
      PROVE  Undisturbed'
  <2>1. /\ call'.at = "judge" /\ snap'.rows = file.rows /\ file' = file /\ store' = store
    BY <1>2 DEF ReadsFrom
  <2>2. mirror'.committed /\ Prefix(mirror'.rows, History') => Counted(mirror.rows)'
    BY <1>2, <2>1 DEF History, Reading, Counted, ReadsFrom
  <2> QED  BY <2>1, <2>2 DEF Undisturbed, Hydrating
<1>3. ASSUME NEW c \in Config, NEW wholly \in BOOLEAN, Commit(c, wholly)  PROVE Undisturbed'
  <2> DEFINE from == IF mirror.committed THEN mirror.cursor ELSE Start
  <2>1. from \in Cursor  BY <1>a, StartType DEF Memory
  <2>2. ReadsFrom(from, wholly, c) /\ UNCHANGED mirror /\ call = None  BY <1>3, CommitReads
  <2> HIDE DEF from
  <2>3. mirror.committed /\ Prefix(mirror.rows, file.rows) => Counted(mirror.rows)
    BY <2>2 DEF Undisturbed, History, Reading
  <2> QED  BY <1>2, <2>1, <2>2, <2>3
<1>4. ASSUME NEW c \in Config, CommitRereads(c)  PROVE Undisturbed'
  <2>1. ReadsFrom(Start, TRUE, c) /\ UNCHANGED mirror /\ call.at = "reread"
    BY <1>4, CommitRereadsAll
  <2>2. mirror.committed /\ Prefix(mirror.rows, file.rows) => Counted(mirror.rows)
    BY <2>1 DEF Undisturbed, History, Reading
  <2> QED  BY <1>2, <2>1, <2>2, StartType
<1>5. CASE HydrateAdoptsNative
  <2>1. /\ ReadsFrom(Start, TRUE, call.config) /\ call # None /\ call.at = "reconcile"
        /\ mirror' = Adopted(call.tail.rows, call.config, Start)
    BY <1>5, NativeIsRead
  <2>2. mirror'.rows = call.tail.rows  BY <2>1 DEF Adopted
  <2>3. Counted(call.tail.rows)  BY <2>1 DEF Undisturbed, Hydrating
  <2> QED  BY <1>2, <2>1, <2>2, <2>3, StartType
<1>6. CASE HydrateAdoptsStored
  <2>1. /\ call # None /\ call.at = "reconcile" /\ store' = store
        /\ mirror' = Adopted(call.tail.rows, call.config, Start)
    BY <1>6 DEF HydrateAdoptsStored
  <2>2. mirror'.rows = call.tail.rows  BY <2>1 DEF Adopted
  <2>3. call'.tail = call.tail /\ call'.at = "write"  BY <1>6, LoadMoves
  <2>4. Counted(call.tail.rows)' /\ Counted(mirror.rows)'
    BY <2>1, <2>2, <2>3 DEF Undisturbed, Hydrating, Counted
  <2> QED  BY <2>3, <2>4 DEF Undisturbed, Reading
<1>7. ASSUME Counted(mirror.rows)', call' = None  PROVE Undisturbed'
  BY <1>7 DEF Undisturbed, Reading, Hydrating
<1>8. CASE Judge
  <2>1. store' = store /\ (call' = None \/ (call'.at \in {"append", "replace"} /\ snap' = snap
                                            /\ call # None /\ call.at = "judge"))
    BY <1>8, JudgeMoves
  <2>2. mirror' = mirror \/ mirror' = [mirror EXCEPT !.cursor = call.tail.next]
    BY <1>8, JudgeMoves
  <2>3. mirror'.committed = mirror.committed /\ mirror'.rows = mirror.rows
    BY <1>a, <2>2 DEF Memory
  <2>4. ~HydrateWrites  BY <1>8 DEF Judge, HydrateWrites
  <2> QED  BY <1>1, <2>1, <2>3, <2>4 DEF Hydrating, Reading
<1>9. CASE Appends \/ Replaces
  <2>1. /\ call # None /\ call' = None
        /\ \/ call.at = "append" /\ ~AppendRefused(store, Len(mirror.rows)) /\ store' = AppendedStore
           \/ call.at = "replace" /\ store' = ReplacedStore
    BY <1>9 DEF Appends, Replaces, EndOk
  <2>2. ~store'.deleted => store'.generation[Main] = snap.rows  BY <2>1, WrittenIsCounted
  <2>3. mirror'.rows = snap.rows
    <3>1. CASE Appends
      <4>1. call.at = "append" /\ mirror'.rows = mirror.rows \o Added(mirror, call.tail)
        BY <3>1 DEF Appends, Extended
      <4> QED  BY <2>1, <4>1 DEF ReadSound, Reading
    <3>2. CASE Replaces
      <4>1. call.at = "replace" /\ mirror'.rows = call.tail.rows  BY <3>2 DEF Replaces, Adopted
      <4> QED  BY <2>1, <4>1 DEF ReadSound, Reading
    <3> QED  BY <1>9, <3>1, <3>2
  <2>4. Counted(mirror.rows)'  BY <2>2, <2>3 DEF Counted
  <2> QED  BY <1>7, <2>1, <2>4
<1>10. CASE AppendFails
  <2>1. /\ call # None /\ call.at = "append" /\ call'.tail = call.tail
        /\ call'.at \in {"replace", "reread"}
        /\ UNCHANGED <<file, mirror, snap>>
    BY <1>10, AppendFailsMoves
  <2>2. CASE store' = store
    BY <1>1, <2>1, <2>2 DEF HydrateWrites, Reading, Hydrating
  <2>3. CASE store' # store
    <3>1. ~AppendRefused(store, Len(mirror.rows)) /\ store' = AppendedStore
      BY <1>10, <2>3 DEF AppendFails
    <3>2. ~store.deleted  BY <2>3, <3>1 DEF AppendedStore, StoreAppend
    <3>3. Prefix(mirror.rows, snap.rows)  BY <2>1, <3>1, <3>2, AppendPublishes
    <3>4. ~store'.deleted => store'.generation[Main] = snap.rows
      BY <2>1, <3>1, WrittenIsCounted
    <3>5. ~store'.deleted /\ Len(store'.generation[Main]) = Len(mirror.rows) =>
            store'.generation[Main] = mirror.rows
      BY <1>a, <1>b, <2>1, <3>3, <3>4, WholePrefix DEF Reading
    <3>6. Counted(mirror.rows)'  BY <2>1, <3>5 DEF Counted
    <3> QED  BY <2>1, <3>3, <3>6 DEF Undisturbed, Hydrating
  <2> QED  BY <2>2, <2>3
<1>11. CASE ReplaceFails
  <2>1. /\ call # None /\ call.at = "replace" /\ call' = None /\ UNCHANGED <<file, mirror>>
    BY <1>11 DEF ReplaceFails, EndFailed
  <2>2. CASE store' = store
    BY <1>1, <2>1, <2>2 DEF HydrateWrites, Reading, Hydrating
  <2>3. CASE store' # store
    <3>1. store' = ReplacedStore  BY <1>11, <2>3 DEF ReplaceFails
    <3>2. ~store'.deleted => store'.generation[Main] = snap.rows
      BY <2>1, <3>1, WrittenIsCounted
    <3>3. mirror.committed /\ Prefix(mirror.rows, file.rows) => Prefix(mirror.rows, snap.rows)
      BY <2>1 DEF Undisturbed, Reading
    <3>4. mirror.committed /\ Prefix(mirror.rows, file.rows) /\ Len(snap.rows) = Len(mirror.rows) =>
            snap.rows = mirror.rows
      BY <1>a, <1>b, <2>1, <3>3, WholePrefix DEF Reading
    <3>5. mirror.committed /\ Prefix(mirror.rows, file.rows) => Counted(mirror.rows)'
      BY <2>1, <3>2, <3>4 DEF Counted
    <3> QED  BY <2>1, <3>5 DEF Undisturbed, History, Reading, Hydrating
  <2> QED  BY <2>2, <2>3
<1>12. CASE HydrateRefused \/ HydrateFails
  <2>1. store' = store /\ mirror' = mirror /\ call' = None /\ ~HydrateWrites
    BY <1>12 DEF HydrateRefused, HydrateFails, HydrateWrites, EndFailed, EndOk
  <2> QED  BY <1>1, <2>1 DEF Reading, Hydrating
<1>13. CASE Reset \/ NewSession
  BY <1>13, ForgottenType DEF Reset, NewSession, Undisturbed, Reading, Hydrating
<1>14. CASE Adopt
  <2>1. /\ store' = store /\ call' = None /\ mirror'.rows = store.generation[Main]
    BY <1>14 DEF Adopt, Adopted
  <2> QED  BY <1>7, <2>1 DEF Counted
<1>15. CASE Hydrate
  <2>1. call'.tail.rows = store.generation[Main] /\ call'.at = "cut"  BY <1>15, HydrateBegins
  <2>2. store' = store /\ ~mirror'.committed  BY <1>15, ForgottenType DEF Hydrate
  <2>3. Counted(call.tail.rows)'  BY <2>1, <2>2 DEF Counted
  <2> QED  BY <2>1, <2>2, <2>3 DEF Undisturbed, Reading
<1>16. CASE HydrateCuts \/ HydrateTrims
  <2>1. store' = store /\ mirror' = mirror /\ ~HydrateWrites
    BY <1>16 DEF HydrateCuts, HydrateTrims, HydrateWrites
  <2> QED  BY <1>1, <1>16, <2>1, LoadMoves DEF Reading, Hydrating
<1>17. CASE HydrateWrites
  <2>1. /\ call # None /\ call.at = "write" /\ store' = store /\ call' = None
        /\ mirror'.rows = mirror.rows
    BY <1>17, <1>a DEF HydrateWrites, EndOk, Memory
  <2>2. mirror.rows = call.tail.rows  BY <2>1 DEF LoadSound, Adopted
  <2>3. Counted(call.tail.rows)  BY <2>1 DEF Undisturbed, Hydrating
  <2> QED  BY <1>7, <2>1, <2>2, <2>3 DEF Counted
<1>18. CASE Crash
  <2>1. ~mirror'.committed /\ call' = None  BY <1>18, ForgottenType DEF Crash
  <2> QED  BY <2>1 DEF Undisturbed, Reading, Hydrating
<1>19. CASE HostDeletes
  <2>1. store'.deleted /\ UNCHANGED <<file, mirror, call, snap>>
    BY <1>19 DEF HostDeletes, StoreDelete
  <2> QED  BY <2>1 DEF Undisturbed, Reading, Hydrating, Counted
<1>20. CASE Bypass
  <2>1. PICK rows \in Seq(Row) :
          /\ Len(rows) # Len(mirror.rows) /\ (Hydrating => Len(rows) # Len(call.tail.rows))
          /\ store' = Published(store, rows, StoredConfig)
    BY <1>20, BypassPublishes
  <2>2. StoredConfig \in Config /\ UNCHANGED <<file, mirror, call, snap>>
    BY <1>20, BypassPublishes DEF Bypass
  <2>3. store'.generation = WholeGeneration(rows, StoredConfig)
    BY <1>a, <2>1, <2>2, PublishedSound
  <2>4. store'.generation[Main] = rows  BY <2>2, <2>3, GenerationParts
  <2>5. Counted(mirror.rows)' /\ (Hydrating => Counted(call.tail.rows)')
    BY <2>1, <2>2, <2>4 DEF Counted
  <2> QED  BY <2>2, <2>5 DEF Undisturbed, Reading, Hydrating
<1>21. CASE HarnessWrites \/ HarnessEndsLine \/ NativeStateLost
  <2>1. UNCHANGED <<store, mirror, call, snap>>
    BY <1>21 DEF HarnessWrites, HarnessEndsLine, NativeStateLost
  <2>2. ~HydrateWrites
    BY <1>21 DEF HarnessWrites, HarnessEndsLine, NativeStateLost, HydrateWrites, ControlSound, Hydrating
  <2> QED  BY <1>1, <2>1, <2>2 DEF Reading, Hydrating
<1>22. CASE HarnessRewrites
  <2>1. UNCHANGED <<store, call, snap>> /\ (mirror' = mirror \/ mirror' = Forgotten)
    BY <1>22 DEF HarnessRewrites
  <2>2. ~HydrateWrites  BY <1>22 DEF HarnessRewrites, HydrateWrites, ControlSound, Hydrating
  <2> QED  BY <1>1, <2>1, <2>2, ForgottenType DEF Reading, Hydrating
<1>23. CASE UNCHANGED vars  BY <1>23 DEF vars, Undisturbed, History, Reading, Hydrating, Counted
<1> QED
  BY <1>3, <1>4, <1>5, <1>6, <1>8, <1>9, <1>10, <1>11, <1>12, <1>13, <1>14, <1>15, <1>16,
     <1>17, <1>18, <1>19, <1>20, <1>21, <1>22, <1>23
     DEF Next, Method, Continue, Environment

-----------------------------------------------------------------------------
(* Everything together *)

(* What holds in every state: the parts lean on one another, so they are   *)
(* kept together.                                                          *)
Sound ==
  /\ Typed /\ Fresh /\ DeletedEmpty /\ ControlSound /\ ReadSound /\ CursorSound /\ LoadSound
  /\ OrderlySound /\ Undisturbed

(* The new mirror, its log and its store (NewMirror).                      *)
LEMMA SoundInit == Init => Sound
<1>1. Init => DeletedEmpty  BY DEF Init, NewStore, DeletedEmpty
<1> QED
  BY <1>1, TypedInit, FreshInit, ControlInit, ReadInit, CursorInit, LoadInit, OrderlyInit,
     UndisturbedInit DEF Sound

(* Every step of a call, of the harness, of the host and of a crash.       *)
LEMMA SoundNext == Sound /\ [Next]_vars => Sound'
<1> SUFFICES ASSUME Sound, [Next]_vars PROVE Sound'  OBVIOUS
<1>1. /\ Typed /\ Fresh /\ DeletedEmpty /\ ControlSound /\ ReadSound /\ CursorSound /\ LoadSound
      /\ OrderlySound /\ Undisturbed
  BY DEF Sound
<1>2. Typed'  BY <1>1, TypedNext
<1>3. Fresh'  BY <1>1, <1>2, FreshNext
<1>4. ControlSound'  BY <1>1, <1>2, ControlNext
<1>5. ReadSound'  BY <1>1, ReadNext
<1>6. CursorSound'  BY <1>1, <1>2, CursorNext
<1>7. LoadSound'  BY <1>1, LoadNext
<1>8. OrderlySound'  BY <1>1, <1>2, OrderlyNext
<1>9. Undisturbed'  BY <1>1, <1>2, UndisturbedNext
<1>10. DeletedEmpty'  BY <1>1, DeletedNext
<1> QED  BY <1>2, <1>3, <1>4, <1>5, <1>6, <1>7, <1>8, <1>9, <1>10 DEF Sound

(* Between calls the mirror's memory is what the store holds, a read that  *)
(* goes on from the cursor goes on from the committed rows, and every      *)
(* stored row is a JSON object (Mirror.Commit, ReadJSONL, Mirror.Hydrate), *)
(* whatever the harness, crashes and failed writes did in between.         *)
THEOREM MemoryStaysSound == Spec => []MemoryIsSound
<1>1. ASSUME Sound  PROVE MemoryIsSound
  <2>1. RemembersStore  BY <1>1 DEF Sound, OrderlySound, RemembersStore
  <2>2. CursorFollowsCommitted
    BY <1>1 DEF Sound, CursorSound, Follows, CursorFollowsCommitted, Extends
  <2>3. StoredRowsAreValid  BY <1>1 DEF Sound, OrderlySound, StoredRowsAreValid
  <2> QED  BY <2>1, <2>2, <2>3 DEF MemoryIsSound
<1> QED  BY <1>1, SoundInit, SoundNext, PTL DEF Spec

-----------------------------------------------------------------------------
(* The mirror implements the one without a memory *)

(* What FullMirror sees of the store's record.                             *)
Held(s) == IF s.generation = None THEN None ELSE Generations(s.generation)

(* A whole generation is its rows and its configuration.                   *)
LEMMA HeldIs ==
  ASSUME NEW s, NEW rows \in Seq(Row), NEW c \in Config, s.generation = WholeGeneration(rows, c)
  PROVE  /\ Held(s) = [rows |-> rows, config |-> c] /\ Held(s) \in Snapshot /\ Held(s) # None
         /\ s.generation # None
<1>1. /\ s.generation # None /\ s.generation[Main] = rows
      /\ s.generation[ConfigSubpath][1] = c
  BY GenerationParts
<1>2. Held(s) = [rows |-> rows, config |-> c]  BY <1>1 DEF Held, Generations
<1> QED  BY <1>1, <1>2, SnapType

(* What the running call has read is its rows and its configuration.       *)
LEMMA SnapIs ==
  ASSUME Typed, snap # None
  PROVE  snap = [rows |-> snap.rows, config |-> snap.config] /\ snap.rows \in Seq(Row)
BY DEF Typed, TypeOK, Snapshot

(* The rows of the log are rows.                                           *)
LEMMA NativeType == Typed => file.rows \in Seq(Row)
BY DEF Typed, TypeOK, LogFile

(* A write of the mirror, seen from the abstract one: what it read, with a *)
(* configuration; with that of the call when it replaces or when nobody    *)
(* else writes.                                                            *)
LEMMA HeldWrites ==
  ASSUME Sound, call # None, ~store.deleted,
         NEW s, \/ call.at = "append" /\ ~AppendRefused(store, Len(mirror.rows)) /\ s = AppendedStore
                \/ call.at = "replace" /\ s = ReplacedStore
  PROVE  /\ snap # None /\ ~s.deleted /\ Held(s) \in Snapshot
         /\ \E c \in Config : Held(s) = [rows |-> snap.rows, config |-> c]
         /\ (orderly \/ call.at = "replace") => Held(s) = snap
<1>0. Typed /\ ControlSound /\ ReadSound /\ OrderlySound /\ Undisturbed  BY DEF Sound
<1>1. /\ snap # None /\ snap.rows \in Seq(Row) /\ snap.config = call.config
      /\ call.config \in Config /\ ~s.deleted
      /\ \E c \in Config : /\ s.generation = WholeGeneration(snap.rows, c)
                           /\ call.at = "replace" => c = call.config
  BY <1>0, WritePublishes
<1>2. PICK c \in Config : /\ s.generation = WholeGeneration(snap.rows, c)
                          /\ call.at = "replace" => c = call.config
  BY <1>1
<1>3. Held(s) = [rows |-> snap.rows, config |-> c] /\ Held(s) \in Snapshot
  BY <1>1, <1>2, HeldIs
<1>4. snap = [rows |-> snap.rows, config |-> call.config]  BY <1>0, <1>1, SnapIs
<1>5. ASSUME orderly  PROVE Held(s) = snap
  <2>1. s.generation = WholeGeneration(snap.rows, call.config)
    BY <1>0, <1>1, <1>5, OrderlyWrites
  <2> QED  BY <1>1, <1>4, <2>1, HeldIs
<1>6. call.at = "replace" => Held(s) = snap  BY <1>2, <1>3, <1>4
<1> QED  BY <1>1, <1>2, <1>3, <1>5, <1>6

(* The initial state is an initial state of the abstract mirror.           *)
LEMMA FullInit == Init => Full!Init
BY DEF Init, Full!Init, NoFile, NewStore

(* A session that is not deleted has the same mark as any other.           *)
LEMMA MarkStays ==
  ASSUME Typed, Typed', ~store.deleted, ~store'.deleted
  PROVE  store'.deleted = store.deleted
<1>1. store.deleted \in BOOLEAN /\ store'.deleted \in BOOLEAN  BY DEF Typed, TypeOK, Store
<1>2. store.deleted = FALSE /\ store'.deleted = FALSE  BY <1>1
<1> QED  BY <1>2

(* A commit reads, publishes, finds nothing to write, or fails.            *)
LEMMA CommitRefines ==
  ASSUME Sound, Sound',
         \/ \E c \in Config, wholly \in BOOLEAN : Commit(c, wholly)
         \/ \E c \in Config : CommitRereads(c)
         \/ Judge \/ Appends \/ AppendFails \/ Replaces \/ ReplaceFails \/ Reset,
         orderly' = orderly
  PROVE  Full!Call \/ UNCHANGED Full!vars
<1>0. Typed /\ Typed' /\ ControlSound /\ ReadSound /\ OrderlySound /\ Undisturbed  BY DEF Sound
<1>1. ASSUME NEW c \in Config, UNCHANGED <<file, store>>, snap' = SnapOfFile(c), outcome' = "none"
      PROVE  Full!Call
  BY <1>1 DEF SnapOfFile, Full!Call, Full!Read
<1>2. CASE \E c \in Config, wholly \in BOOLEAN : Commit(c, wholly)
  BY <1>1, <1>2 DEF Commit
<1>3. CASE \E c \in Config : CommitRereads(c)
  BY <1>1, <1>3 DEF CommitRereads
<1>4. ASSUME UNCHANGED <<file, store, snap, outcome>>  PROVE UNCHANGED Full!vars
  BY <1>4 DEF Full!vars
<1>5. ASSUME UNCHANGED <<file, store>>, snap' = None, outcome' = "failed"  PROVE Full!Call
  BY <1>5 DEF Full!Call, Full!Fail
<1>6. CASE Judge
  <2>1. CASE Verdict = "nothing" /\ snap' = None /\ outcome' = "ok"
    <3>1. call # None /\ call.at = "judge" /\ UNCHANGED <<file, store>>  BY <1>6, <1>0, JudgeMoves
    <3>2. snap # None /\ snap.config = call.config  BY <1>0, <3>1 DEF ControlSound, Reading
    <3>3. mirror.committed /\ snap.rows = mirror.rows /\ call.config = mirror.record
      BY <1>0, <2>1, <3>1, VerdictMeans
    <3>4. ASSUME orderly, ~store.deleted  PROVE Held(store) = snap
      <4>1. store.generation = WholeGeneration(snap.rows, snap.config)
        BY <1>0, <3>2, <3>3, <3>4 DEF OrderlySound
      <4>2. snap = [rows |-> snap.rows, config |-> snap.config] /\ snap.rows \in Seq(Row)
        BY <1>0, <3>2, SnapIs
      <4>3. snap.config \in Config  BY <1>0, <3>2, <3>3 DEF Typed
      <4> QED  BY <4>1, <4>2, <4>3, HeldIs
    <3> QED  BY <2>1, <3>1, <3>2, <3>4 DEF Full!Call, Full!AlreadyHeld, Held
  <2> QED  BY <1>0, <1>4, <1>5, <1>6, <2>1, JudgeMoves
<1>7. CASE Appends \/ Replaces
  <2>1. /\ call # None /\ file' = file /\ snap' = None /\ outcome' = "ok"
        /\ \/ call.at = "append" /\ ~AppendRefused(store, Len(mirror.rows)) /\ store' = AppendedStore
           \/ call.at = "replace" /\ store' = ReplacedStore
    BY <1>7 DEF Appends, Replaces, EndOk
  <2>2. snap # None  BY <1>0, <2>1 DEF ControlSound, Reading
  <2>3. CASE store.deleted
    <3>1. store' = store
      BY <2>1, <2>3 DEF AppendedStore, ReplacedStore, StoreAppend, StoreReplace
    <3> QED  BY <2>1, <2>2, <2>3, <3>1 DEF Full!Call, Full!Publish
  <2>4. CASE ~store.deleted
    <3>1. /\ ~store'.deleted
          /\ \E c \in Config : Held(store') = [rows |-> snap.rows, config |-> c]
          /\ orderly => Held(store') = snap
      BY <2>1, <2>4, HeldWrites
    <3>2. snap = [rows |-> snap.rows, config |-> snap.config]  BY <1>0, <2>2, SnapIs
    <3>3. Held(store') \in [rows : {snap.rows},
                            config : IF orderly THEN {snap.config} ELSE Config]
      <4>1. CASE orderly  BY <3>1, <3>2, <4>1
      <4>2. CASE ~orderly  BY <3>1, <4>2
      <4> QED  BY <4>1, <4>2
    <3>4. store'.deleted = store.deleted  BY <1>0, <2>4, <3>1, MarkStays
    <3> QED  BY <2>1, <2>2, <2>4, <3>3, <3>4 DEF Full!Call, Full!Publish, Held
  <2> QED  BY <2>3, <2>4
<1>8. ASSUME store' # store, ~orderly, call # None, file' = file,
             \/ call.at = "append" /\ ~AppendRefused(store, Len(mirror.rows)) /\ store' = AppendedStore
             \/ call.at = "replace" /\ store' = ReplacedStore,
             snap' \in {snap, None}, outcome' \in {outcome, "failed"}
      PROVE  Full!Call
  <2>1. ~store.deleted
    BY <1>8 DEF AppendedStore, ReplacedStore, StoreAppend, StoreReplace
  <2>2. ~store'.deleted /\ Held(store') \in Snapshot  BY <1>8, <2>1, HeldWrites
  <2>3. store'.deleted = store.deleted  BY <1>0, <2>1, <2>2, MarkStays
  <2> QED  BY <1>8, <2>1, <2>2, <2>3 DEF Full!Call, Full!Interfere, Full!Snap, Snapshot, Held
<1>9. CASE AppendFails
  <2>1. call # None /\ call.at = "append" /\ UNCHANGED <<file, snap, outcome>>
    BY <1>9 DEF AppendFails
  <2>2. store' # store =>
          ~orderly /\ ~AppendRefused(store, Len(mirror.rows)) /\ store' = AppendedStore
    BY <1>9 DEF AppendFails
  <2> QED  BY <1>4, <1>8, <2>1, <2>2
<1>10. CASE ReplaceFails
  <2>1. /\ call # None /\ call.at = "replace" /\ file' = file
        /\ snap' = None /\ outcome' = "failed"
    BY <1>10 DEF ReplaceFails, EndFailed
  <2>2. store' # store => ~orderly /\ store' = ReplacedStore  BY <1>10 DEF ReplaceFails
  <2> QED  BY <1>5, <1>8, <2>1, <2>2
<1>11. CASE Reset
  BY <1>4, <1>11 DEF Reset
<1> QED  BY <1>2, <1>3, <1>6, <1>7, <1>9, <1>10, <1>11

(* A load begins, changes the log, reads it, restores it, or fails.        *)
LEMMA LoadRefines ==
  ASSUME Sound, Sound',
         \/ NewSession \/ Adopt \/ Hydrate \/ HydrateCuts \/ HydrateTrims
         \/ HydrateAdoptsNative \/ HydrateAdoptsStored \/ HydrateRefused
         \/ HydrateWrites \/ HydrateFails,
         orderly' = orderly
  PROVE  Full!Call \/ UNCHANGED Full!vars
<1>0. /\ Typed /\ Typed' /\ ControlSound /\ OrderlySound /\ LoadSound
      /\ file'.rows \in Seq(Row)
  BY DEF Sound, Typed, TypeOK, LogFile
<1>1. ASSUME UNCHANGED <<store, snap, outcome>>  PROVE Full!Call
  BY <1>0, <1>1 DEF Full!Call, Full!NativeChanges
<1>2. CASE NewSession
  <2>1. snap = None /\ outcome = "none"  BY <1>0, <1>2 DEF NewSession, ControlSound, Typed, TypeOK
  <2> QED  BY <1>1, <1>2, <2>1 DEF NewSession
<1>3. CASE Adopt \/ Hydrate
  BY <1>3 DEF Adopt, Hydrate, Full!Call, Full!Begin
<1>4. CASE HydrateCuts \/ HydrateTrims \/ HydrateAdoptsStored
  BY <1>1, <1>4 DEF HydrateCuts, HydrateTrims, HydrateAdoptsStored
<1>5. CASE HydrateAdoptsNative
  <2>1. call.config \in Config  BY <1>0, <1>5, NativeIsRead
  <2>2. UNCHANGED <<file, store>> /\ snap' = SnapOfFile(call.config) /\ outcome' = "none"
    BY <1>5 DEF HydrateAdoptsNative
  <2> QED  BY <2>1, <2>2 DEF SnapOfFile, Full!Call, Full!Read
<1>6. CASE HydrateRefused \/ HydrateFails
  BY <1>6 DEF HydrateRefused, HydrateFails, EndFailed, Full!Call, Full!Fail
<1>7. CASE HydrateWrites
  <2>1. /\ call # None /\ call.at = "write" /\ store' = store /\ snap' = None /\ outcome' = "ok"
        /\ file'.rows = call.tail.rows
    BY <1>7 DEF HydrateWrites, EndOk
  <2>2. call.tail.rows \in Seq(Row) /\ call.config \in Config
    BY <1>0, <2>1 DEF Typed, TypeOK, RunningCall, ReadTail
  <2>3. ASSUME orderly, ~store.deleted
        PROVE  Held(store) # None /\ file'.rows = Held(store).rows
    <3>1. store.generation = WholeGeneration(call.tail.rows, call.config)
      BY <1>0, <2>1, <2>3 DEF OrderlySound, Hydrating
    <3>2. Held(store) # None /\ Held(store) = [rows |-> call.tail.rows, config |-> call.config]
      BY <2>2, <3>1, HeldIs
    <3> QED  BY <2>1, <3>2
  <2> QED  BY <1>0, <2>1, <2>3 DEF Full!Call, Full!Restore, Held
<1> QED  BY <1>2, <1>3, <1>4, <1>5, <1>6, <1>7

(* The harness changes the log; a crash, a deletion and other writers are  *)
(* what the abstract mirror allows them to be.                             *)
LEMMA OutsideRefines ==
  ASSUME Sound, Sound', Environment, orderly' = orderly
  PROVE  Full!Call \/ UNCHANGED Full!vars
<1>0. /\ Typed /\ Typed' /\ ControlSound /\ DeletedEmpty /\ file'.rows \in Seq(Row)
  BY DEF Sound, Typed, TypeOK, LogFile
<1>1. CASE HarnessWrites \/ HarnessEndsLine \/ HarnessRewrites \/ NativeStateLost
  <2>1. UNCHANGED <<store, snap, outcome>>
    BY <1>1 DEF HarnessWrites, HarnessEndsLine, HarnessRewrites, NativeStateLost
  <2> QED  BY <1>0, <2>1 DEF Full!Call, Full!NativeChanges
<1>2. CASE HostDeletes
  BY <1>2 DEF HostDeletes, StoreDelete, Full!Call, Full!Delete
<1>3. CASE Bypass
  <2>1. PICK rows \in Seq(Row) : store' = Published(store, rows, StoredConfig)
    BY <1>0, <1>3, BypassPublishes
  <2>2. StoredConfig \in Config  BY <1>0, <1>3, BypassPublishes
  <2>3. /\ store'.generation = WholeGeneration(rows, StoredConfig)
        /\ store'.deleted = store.deleted
    BY <1>0, <2>1, <2>2, PublishedSound DEF Typed
  <2>4. Held(store') \in Snapshot  BY <2>2, <2>3, HeldIs
  <2>5. ~orderly /\ ~store.deleted /\ UNCHANGED <<file, snap, outcome>>
    BY <1>0, <1>3 DEF Bypass, DeletedEmpty
  <2> QED  BY <2>3, <2>4, <2>5 DEF Full!Call, Full!Interfere, Full!Snap, Snapshot, Held
<1>4. CASE Crash
  <2>1. snap' = None /\ outcome' = "none" /\ file' = file  BY <1>4 DEF Crash
  <2>2. CASE store' = store
    BY <2>1, <2>2 DEF Full!Call, Full!Crash
  <2>3. CASE store' # store
    <3>1. /\ call # None
          /\ \/ call.at = "append" /\ ~AppendRefused(store, Len(mirror.rows)) /\ store' = AppendedStore
             \/ call.at = "replace" /\ store' = ReplacedStore
      BY <1>4, <2>3 DEF Crash
    <3>2. ~store.deleted
      BY <2>3, <3>1 DEF AppendedStore, ReplacedStore, StoreAppend, StoreReplace
    <3>3. /\ snap # None /\ ~store'.deleted /\ Held(store') \in Snapshot
          /\ (orderly \/ call.at = "replace") => Held(store') = snap
      BY <3>1, <3>2, HeldWrites
    <3>4. store'.deleted = store.deleted  BY <1>0, <3>2, <3>3, MarkStays
    <3>5. CASE orderly \/ call.at = "replace"
      BY <2>1, <3>2, <3>3, <3>4, <3>5 DEF Full!Call, Full!Crash, Held
    <3>6. CASE ~orderly
      <4>1. outcome = "none"  BY <1>0, <3>1 DEF ControlSound
      <4> QED
        BY <2>1, <3>2, <3>3, <3>4, <3>6, <4>1
           DEF Full!Call, Full!Interfere, Full!Snap, Snapshot, Held
    <3> QED  BY <3>5, <3>6
  <2> QED  BY <2>2, <2>3
<1> QED  BY <1>1, <1>2, <1>3, <1>4 DEF Environment

(* The mirror that remembers rows, a digest and a cursor, appends tails    *)
(* and skips writes publishes exactly what one would that reads and        *)
(* publishes everything, in every interleaving with the harness, other     *)
(* writers, failures, deletions and crashes (Mirror.Commit, Mirror.Hydrate,*)
(* Store).                                                                 *)
THEOREM MirrorImplementsFull == Spec => ImplementsFullMirror
<1>1. Sound /\ Sound' /\ [Next]_vars => [Full!Next]_(Full!vars)
  <2> SUFFICES ASSUME Sound, Sound', [Next]_vars  PROVE [Full!Next]_(Full!vars)  OBVIOUS
  <2>1. orderly' = orderly  BY DEF Next, vars
  <2>2. CASE UNCHANGED vars  BY <2>2 DEF vars, Full!vars
  <2>3. CASE Next
    <3>1. Full!Call \/ UNCHANGED Full!vars
      BY <2>1, <2>3, CommitRefines, LoadRefines, OutsideRefines DEF Next, Method, Continue
    <3> QED  BY <2>1, <3>1 DEF Full!Next
  <2> QED  BY <2>2, <2>3
<1> QED
  BY <1>1, FullInit, SoundInit, SoundNext, PTL DEF Spec, ImplementsFullMirror, Full!Spec

-----------------------------------------------------------------------------
(* Loads lose no row *)

(* A log that grew, or was cut before an invalid row, keeps every          *)
(* beginning that is valid.                                                *)
LEMMA SoundRowsKept ==
  ASSUME NEW rows \in Seq(Row), NEW new \in Seq(Row),
         \A i \in 1 .. Len(rows) : i <= Len(new) => new[i] = rows[i],
         Len(new) < Len(rows) => ~Valid(rows[Len(new) + 1]),
         NEW k \in 1 .. Len(rows), ~Invalid(SubSeq(rows, 1, k), 0)
  PROVE  Len(new) >= k /\ SubSeq(new, 1, k) = SubSeq(rows, 1, k)
<1>1. Len(rows) \in Nat /\ Len(new) \in Nat /\ k \in 0 .. Len(rows) /\ 1 \in Nat \ {0} /\ k \in Nat
  BY LenProperties
<1>2. /\ SubSeq(rows, 1, k) \in Seq(Row) /\ Len(SubSeq(rows, 1, k)) = k
      /\ \A i \in 1 .. k : SubSeq(rows, 1, k)[i] = rows[i]
  <2>1. /\ SubSeq(rows, 1, k) \in Seq(Row)
        /\ Len(SubSeq(rows, 1, k)) = IF 1 <= k THEN k - 1 + 1 ELSE 0
        /\ \A i \in 1 .. k - 1 + 1 : SubSeq(rows, 1, k)[i] = rows[1 + i - 1]
    BY <1>1, PartType
  <2>2. 1 <= k /\ k - 1 + 1 = k /\ \A i \in 1 .. k : 1 + i - 1 = i  BY <1>1
  <2> QED  BY <2>1, <2>2
<1>3. \A i \in 1 .. k : Valid(rows[i])
  <2>1. \A i \in 0 + 1 .. k : Valid(SubSeq(rows, 1, k)[i])  BY <1>2 DEF Invalid
  <2> QED  BY <1>1, <1>2, <2>1
<1>4. Len(new) >= k
  <2>1. SUFFICES ASSUME Len(new) < k  PROVE FALSE  BY <1>1
  <2>2. Len(new) < Len(rows) /\ Len(new) + 1 \in 1 .. k  BY <1>1, <2>1
  <2> QED  BY <1>3, <2>2
<1>5. /\ SubSeq(new, 1, k) \in Seq(Row) /\ Len(SubSeq(new, 1, k)) = k
      /\ \A i \in 1 .. k : SubSeq(new, 1, k)[i] = new[i]
  <2>1. k \in 0 .. Len(new)  BY <1>1, <1>4
  <2>2. /\ SubSeq(new, 1, k) \in Seq(Row)
        /\ Len(SubSeq(new, 1, k)) = IF 1 <= k THEN k - 1 + 1 ELSE 0
        /\ \A i \in 1 .. k - 1 + 1 : SubSeq(new, 1, k)[i] = new[1 + i - 1]
    BY <1>1, <2>1, PartType
  <2>3. 1 <= k /\ k - 1 + 1 = k /\ \A i \in 1 .. k : 1 + i - 1 = i  BY <1>1
  <2> QED  BY <2>2, <2>3
<1>6. \A i \in 1 .. k : new[i] = rows[i]  BY <1>1, <1>4
<1>7. \A i \in 1 .. k : SubSeq(new, 1, k)[i] = SubSeq(rows, 1, k)[i]  BY <1>2, <1>5, <1>6
<1> QED  BY <1>2, <1>4, <1>5, <1>7, SeqEqual

(* What a step of a load, or anything else while it runs, leaves of the    *)
(* log: it completes the torn line, cuts before an invalid row, or writes  *)
(* rows that go on from it (CutTornTail, cutInvalidRows, WriteJSONL).      *)
LEMMA LoadKeepsPart ==
  ASSUME Sound, Sound', [Next]_vars, Hydrating
  PROVE  /\ file.rows \in Seq(Row) /\ file'.rows \in Seq(Row)
         /\ \A i \in 1 .. Len(file.rows) : i <= Len(file'.rows) => file'.rows[i] = file.rows[i]
         /\ Len(file'.rows) < Len(file.rows) => ~Valid(file.rows[Len(file'.rows) + 1])
<1>0. /\ Typed /\ ControlSound /\ LoadSound /\ file \in LogFile
      /\ file.rows \in Seq(Row) /\ file'.rows \in Seq(Row)
      /\ Len(file.rows) \in Nat /\ Len(file'.rows) \in Nat
  BY LenProperties DEF Sound, Typed, TypeOK, LogFile
<1>1. CASE file'.rows = file.rows  BY <1>0, <1>1
<1>2. CASE HydrateCuts
  <2>1. CASE file.tail = None  BY <1>1, <1>2, <2>1 DEF HydrateCuts
  <2>2. CASE file.tail # None
    <3>1. CASE file.tail.object
      <4>1. file'.rows = Append(file.rows, file.tail.row)
        BY <1>0, <1>2, <2>2, <3>1 DEF HydrateCuts, LogFile
      <4>2. file.tail.row \in Row  BY <1>0, <2>2, MirrorAssumption DEF LogFile
      <4>3. /\ Len(file'.rows) = Len(file.rows) + 1
            /\ \A i \in 1 .. Len(file.rows) : file'.rows[i] = file.rows[i]
        BY <1>0, <4>1, <4>2, AppendProperties
      <4> QED  BY <1>0, <4>3
    <3>2. CASE ~file.tail.object
      BY <1>0, <1>1, <1>2, <2>2, <3>2 DEF HydrateCuts, LogFile
    <3> QED  BY <3>1, <3>2
  <2> QED  BY <2>1, <2>2
<1>3. CASE HydrateTrims
  <2>1. call.tail.rows \in Seq(Row)
    BY <1>0, <1>3 DEF HydrateTrims, Typed, TypeOK, RunningCall, ReadTail
  <2>2. Len(call.tail.rows) \in Nat  BY <2>1, LenProperties
  <2>3. file'.rows = ValidPart(file.rows, Len(call.tail.rows))
    BY <1>0, <1>3 DEF HydrateTrims, LogFile
  <2>4. /\ Len(file'.rows) <= Len(file.rows)
        /\ \A i \in 1 .. Len(file'.rows) : file'.rows[i] = file.rows[i]
        /\ Len(file'.rows) < Len(file.rows) => ~Valid(file.rows[Len(file'.rows) + 1])
    BY <1>0, <2>2, <2>3, ValidPartCuts
  <2> QED  BY <1>0, <2>4
<1>4. CASE HydrateWrites
  <2>1. call # None /\ call.at = "write" /\ file'.rows = call.tail.rows
    BY <1>4 DEF HydrateWrites
  <2>2. Agree(file.rows, call.tail.rows) /\ Len(file.rows) < Len(call.tail.rows)
    BY <1>0, <2>1 DEF LoadSound
  <2>3. \A i \in 1 .. Len(file.rows) : file.rows[i] = call.tail.rows[i]
    BY <1>0, <2>1, <2>2 DEF Agree, LeastOf
  <2> QED  BY <1>0, <2>1, <2>2, <2>3
<1>5. ~open /\ call # None  BY <1>0 DEF ControlSound, Hydrating
<1>6. CASE UNCHANGED vars  BY <1>1, <1>6 DEF vars
<1>7. CASE Next
  <2>1. Method => file' = file
    BY <1>5 DEF Method, Commit, Reset, NewSession, Adopt, Hydrate
  <2>2. Continue => file' = file \/ HydrateCuts \/ HydrateTrims \/ HydrateWrites
    BY DEF Continue, CommitRereads, Judge, Appends, AppendFails, Replaces, ReplaceFails,
           HydrateAdoptsNative, HydrateAdoptsStored, HydrateRefused, HydrateFails
  <2>3. Environment => file' = file
    BY <1>5 DEF Environment, Crash, NativeStateLost, HostDeletes, Bypass, HarnessWrites,
                HarnessEndsLine, HarnessRewrites
  <2> QED  BY <1>1, <1>2, <1>3, <1>4, <1>7, <2>1, <2>2, <2>3 DEF Next
<1> QED  BY <1>6, <1>7

(* A load loses no row that was ever complete and valid, and whatever ends *)
(* it in the middle leaves the log as whole (CutTornTail, cutInvalidRows,  *)
(* WriteJSONL).                                                            *)
THEOREM LoadsKeepSoundRows == Spec => LoadKeepsSoundRows
<1>1. Sound /\ Sound' /\ [Next]_vars =>
        [(orderly /\ Hydrating) =>
           \A k \in 1 .. Len(file.rows) :
             ~Invalid(SubSeq(file.rows, 1, k), 0) =>
               /\ Len(file'.rows) >= k
               /\ SubSeq(file'.rows, 1, k) = SubSeq(file.rows, 1, k)]_vars
  BY LoadKeepsPart, SoundRowsKept
<1> QED  BY <1>1, SoundInit, SoundNext, PTL DEF Spec, LoadKeepsSoundRows

=============================================================================
