-------------------------------- MODULE Mirror --------------------------------
(***************************************************************************)
(* The mirror of one session (sessionlog/mirror.go, record.go, jsonl.go),  *)
(* the JSONL file the harness writes, the store it is mirrored in, and the *)
(* process that holds the mirror, which may die at any time.               *)
(*                                                                         *)
(* The file is a sequence of complete lines and perhaps an unterminated    *)
(* one; offsets count lines.  A row is a number, negative when it is no    *)
(* JSON object.  A digest is what was digested.  call is the method that   *)
(* holds the mirror's lock and where it is: everything up to its next      *)
(* access to the file or the store is one step, and the harness, the host  *)
(* and the other writers of the store run in between.                      *)
(***************************************************************************)
EXTENDS SessionStore

CONSTANTS
  MaxRow,    \* bound on the rows ever written,
  MaxBypassed,  \* and on those of a store that has other writers
  MaxFile,   \* bound on the files that ever had the log's name
  Window     \* lines that each end's checksum covers (4 KiB in the code)

ASSUME MirrorAssumption ==
  /\ MaxRow \in Nat /\ MaxFile \in Nat \ {0} /\ Window \in Nat \ {0}
  /\ Row = (-MaxRow .. MaxRow)
  /\ MaxBypassed \in 0 .. MaxRow

VARIABLES
  file,     \* the native log
  minted,   \* the last row the harness produced
  store,    \* the session's record in the store
  mirror,   \* Mirror's committed, rows, digest, record, cursor
  open,     \* the session is loaded: the harness runs, commits are made
  call,     \* the running method, or None
  snap,     \* what it read last, for the refinement only
  outcome,  \* how the last call ended
  orderly   \* no writer but the mirror, and a failed write wrote nothing

vars == <<file, minted, store, mirror, open, call, snap, outcome, orderly>>

RowBound == IF orderly THEN MaxRow ELSE MaxBypassed

Valid(row) == row >= 0
Foreign == 0  \* a row that no harness wrote

-----------------------------------------------------------------------------
(* The file and its cursors *)

NoFile == [id |-> 0, rows |-> <<>>, tail |-> None]
Present == file.id # 0

LeastOf(a, b) == IF a < b THEN a ELSE b
MostOf(a, b) == IF a > b THEN a ELSE b

Checksums(rows, offset) ==
  [head |-> SubSeq(rows, 1, LeastOf(offset, Window)),
   check |-> SubSeq(rows, MostOf(offset - Window, 0) + 1, offset)]

Start == [offset |-> 0, id |-> 0, sums |-> Checksums(<<>>, 0)]

CursorAfter(id, rows) ==
  [offset |-> Len(rows), id |-> IF rows = <<>> THEN 0 ELSE id,
   sums |-> Checksums(rows, Len(rows))]

(* Faulty variant: a file of the same length is taken for the same. *)
ExtendsUnchecked(f, from) == from.offset > 0 /\ from.offset <= Len(f.rows) /\ from.id = f.id

(* Whether a read goes on from the cursor. *)
Extends(f, from) ==
  /\ from.offset > 0
  /\ from.offset <= Len(f.rows)
  /\ from.id = f.id
  /\ Checksums(f.rows, from.offset) = from.sums

(* ReadJSONL; a Source may always choose to return the full history.       *)
ReadJSONL(f, from, wholly) ==
  LET first == IF ~wholly /\ Extends(f, from) THEN from.offset ELSE 0
  IN  [rows |-> SubSeq(f.rows, first + 1, Len(f.rows)),
       next |-> CursorAfter(f.id, f.rows),
       full |-> first = 0]

-----------------------------------------------------------------------------
(* Types *)

LogFile ==
  [id : 0 .. MaxFile, rows : Seq(Row),
   tail : {None} \cup [row : 1 .. MaxRow, object : BOOLEAN]]

Cursor == [offset : Nat, id : 0 .. MaxFile, sums : [head : Seq(Row), check : Seq(Row)]]

ReadTail == [rows : Seq(Row), next : Cursor, full : BOOLEAN]

Memory ==
  [committed : BOOLEAN, rows : Seq(Row), record : Config \cup {None}, cursor : Cursor]

Place == {"judge", "append", "replace", "reread", "cut", "trim", "reconcile", "write"}

RunningCall == [at : Place, tail : ReadTail, config : Config, failed : BOOLEAN]

Snapshot == [rows : Seq(Row), config : Config]

ASSUME NoneIsNoRecord ==
  /\ None \notin [row : 1 .. MaxRow, object : BOOLEAN]
  /\ None \notin RunningCall
  /\ None \notin Snapshot

-----------------------------------------------------------------------------
(* The mirror's memory *)

Forgotten == [committed |-> FALSE, rows |-> <<>>, record |-> None, cursor |-> Start]

Adopted(rows, config, next) ==
  [committed |-> TRUE, rows |-> rows, record |-> config, cursor |-> next]

Extended(m, rows, config, next) ==
  [committed |-> TRUE, rows |-> m.rows \o rows, record |-> config, cursor |-> next]

Invalid(rows, from) == \E i \in from + 1 .. Len(rows) : ~Valid(rows[i])

ExtendsCommitted(m, rows) ==
  m.committed /\ SubSeq(rows, 1, Len(m.rows)) = m.rows

(* What commitFull does with a complete history. *)
FullVerdict(m, tail, config, failed) ==
  LET extends == ExtendsCommitted(m, tail.rows)
      from == IF extends THEN Len(m.rows) ELSE 0
  IN  IF m.committed /\ Len(tail.rows) < Len(m.rows) THEN "refuse"
      ELSE IF Invalid(tail.rows, from) THEN "refuse"
      ELSE IF extends /\ Len(tail.rows) = Len(m.rows) /\ config = m.record THEN "nothing"
      ELSE IF extends /\ ~failed THEN "append"
      ELSE "replace"

(* Faulty variant: a change of the configuration alone is not written. *)
TailVerdictRowsOnly(m, tail, config) ==
  IF Invalid(tail.rows, 0) THEN "refuse"
  ELSE IF tail.rows = <<>> THEN "nothing"
  ELSE "append"

(* What appendTail does with a continuation. *)
TailVerdict(m, tail, config) ==
  IF Invalid(tail.rows, 0) THEN "refuse"
  ELSE IF tail.rows = <<>> /\ config = m.record THEN "nothing"
  ELSE "append"

(* The rows that an append adds: of a full history, those past the committed. *)
Added(m, tail) ==
  IF tail.full THEN SubSeq(tail.rows, Len(m.rows) + 1, Len(tail.rows)) ELSE tail.rows

(* configReplacement is listed only when the encoding changed. *)
Replacements(m, config) ==
  [p \in (IF config = m.record THEN {} ELSE {ConfigSubpath}) |-> <<config>>]

WholeGeneration(rows, config) ==
  [p \in {Main, ConfigSubpath} |-> IF p = Main THEN rows ELSE <<config>>]

-----------------------------------------------------------------------------
(* Methods *)

(* failed: an append of this call has failed, so it no longer tries one.   *)
Running(at, tail, config, failed) ==
  [at |-> at, tail |-> tail, config |-> config, failed |-> failed]

EndOk ==
  /\ call' = None /\ snap' = None /\ outcome' = "ok" /\ open' = TRUE

EndFailed ==
  /\ call' = None /\ snap' = None /\ outcome' = "failed"
  /\ UNCHANGED open

SnapOfFile(config) == [rows |-> file.rows, config |-> config]

(* Commit takes the lock, reads from the cursor and computes the record.   *)
Commit(config, wholly) ==
  /\ open /\ call = None
  /\ LET from == IF mirror.committed THEN mirror.cursor ELSE Start
     IN  call' = Running("judge", ReadJSONL(file, from, wholly), config, FALSE)
  /\ snap' = SnapOfFile(config)
  /\ outcome' = "none"
  /\ UNCHANGED <<file, minted, store, mirror, open>>

(* An append failed: the whole history is read again. *)
CommitRereads(config) ==
  /\ call # None /\ call.at = "reread"
  /\ call' = Running("judge", ReadJSONL(file, Start, TRUE), config, TRUE)
  /\ snap' = SnapOfFile(config)
  /\ outcome' = "none"
  /\ UNCHANGED <<file, minted, store, mirror, open>>

Judge ==
  /\ call # None /\ call.at = "judge"
  /\ LET verdict == IF call.tail.full
                    THEN FullVerdict(mirror, call.tail, call.config, call.failed)
                    ELSE TailVerdict(mirror, call.tail, call.config)
     IN  \/ verdict = "refuse" /\ EndFailed /\ UNCHANGED mirror
         \/ /\ verdict = "nothing" /\ EndOk
            /\ mirror' = [mirror EXCEPT !.cursor = call.tail.next]
         \/ /\ verdict \in {"append", "replace"}
            /\ call' = [call EXCEPT !.at = verdict]
            /\ UNCHANGED <<mirror, open, snap, outcome>>
  /\ UNCHANGED <<file, minted, store>>

AppendedStore ==
  StoreAppend(store, Added(mirror, call.tail), Replacements(mirror, call.config))

Appends ==
  /\ call # None /\ call.at = "append"
  /\ ~AppendRefused(store, Len(mirror.rows))
  /\ store' = AppendedStore
  /\ mirror' = Extended(mirror, Added(mirror, call.tail), call.config, call.tail.next)
  /\ EndOk
  /\ UNCHANGED <<file, minted>>

(* Faulty variant: an append that failed is tried again. *)
AppendFailsRetrying ==
  /\ call # None /\ call.at = "append"
  /\ store' \in {store} \cup
                (IF orderly \/ AppendRefused(store, Len(mirror.rows)) THEN {}
                 ELSE {AppendedStore})
  /\ call' = [call EXCEPT !.at = "judge"]
  /\ UNCHANGED <<file, minted, mirror, open, snap, outcome>>

(* The store refuses the append, or fails or times out; a store that does  *)
(* not keep its contract may have written all the same.                    *)
AppendFails ==
  /\ call # None /\ call.at = "append"
  /\ store' \in {store} \cup
                (IF orderly \/ AppendRefused(store, Len(mirror.rows)) THEN {}
                 ELSE {AppendedStore})
  /\ call' = [call EXCEPT !.at = IF call.tail.full THEN "replace" ELSE "reread",
                          !.failed = TRUE]
  /\ UNCHANGED <<file, minted, mirror, open, snap, outcome>>

(* Faulty variant: the configuration is left out of the generation. *)
ReplacedStoreRowsOnly == StoreReplace(store, [p \in {Main} |-> call.tail.rows])

ReplacedStore == StoreReplace(store, WholeGeneration(call.tail.rows, call.config))

Replaces ==
  /\ call # None /\ call.at = "replace"
  /\ store' = ReplacedStore
  /\ mirror' = Adopted(call.tail.rows, call.config, call.tail.next)
  /\ EndOk
  /\ UNCHANGED <<file, minted>>

ReplaceFails ==
  /\ call # None /\ call.at = "replace"
  /\ store' \in {store} \cup (IF orderly THEN {} ELSE {ReplacedStore})
  /\ EndFailed
  /\ UNCHANGED <<file, minted, mirror>>

Reset ==
  /\ open /\ call = None
  /\ mirror' = Forgotten
  /\ UNCHANGED <<file, minted, store, open, call, snap, outcome>>

-----------------------------------------------------------------------------
(* Opening a session *)

Hydrating == call # None /\ call.at \in {"cut", "trim", "reconcile", "write"}

(* A new session has no history yet. *)
NewSession ==
  /\ ~open /\ call = None
  /\ store = NewStore
  /\ open' = TRUE
  /\ file' = NoFile
  /\ mirror' = Forgotten
  /\ outcome' = "none" /\ snap' = None
  /\ UNCHANGED <<minted, store, call>>

(* Load finds a generation and can read it. *)
Loads == store.generation # None /\ ~Invalid(store.generation[Main], 0)

(* Load finds a generation that the native history already is. *)
Adopt ==
  /\ ~open /\ call = None
  /\ Loads
  /\ file.tail = None /\ file.rows = store.generation[Main]
  /\ mirror' = Adopted(file.rows, store.generation[ConfigSubpath][1],
                       CursorAfter(file.id, file.rows))
  /\ open' = TRUE
  /\ outcome' = "none" /\ snap' = None
  /\ UNCHANGED <<file, minted, store, call>>

(* Load finds a generation; Hydrate is handed it. *)
Hydrate ==
  /\ ~open /\ call = None
  /\ Loads
  /\ call' = Running("cut", [rows |-> store.generation[Main], next |-> Start, full |-> TRUE],
                     store.generation[ConfigSubpath][1], FALSE)
  /\ outcome' = "none" /\ snap' = None
  /\ mirror' = Forgotten
  /\ UNCHANGED <<file, minted, store, open>>

(* CutTornTail *)
HydrateCuts ==
  /\ call # None /\ call.at = "cut"
  /\ call' = [call EXCEPT !.at = "trim"]
  /\ file' = IF file.tail = None THEN file
             ELSE [file EXCEPT !.tail = None,
                               !.rows = IF file.tail.object
                                        THEN Append(@, file.tail.row) ELSE @]
  /\ UNCHANGED <<minted, store, mirror, open, snap, outcome>>

(* Faulty variant: the log is cut to the stored rows. *)
StoredPart(rows, stored) ==
  IF \E i \in DOMAIN rows : i > stored /\ ~Valid(rows[i]) THEN SubSeq(rows, 1, stored) ELSE rows

(* cutInvalidRows: the log ends before its first invalid row past the stored. *)
ValidPart(rows, stored) ==
  LET bad == {i \in DOMAIN rows : i > stored /\ ~Valid(rows[i])}
  IN  IF bad = {} THEN rows
      ELSE SubSeq(rows, 1, (CHOOSE i \in bad : \A j \in bad : i <= j) - 1)

HydrateTrims ==
  /\ call # None /\ call.at = "trim"
  /\ call' = [call EXCEPT !.at = "reconcile"]
  /\ file' = [file EXCEPT !.rows = ValidPart(@, Len(call.tail.rows))]
  /\ UNCHANGED <<minted, store, mirror, open, snap, outcome>>

Agree(native, stored) ==
  \A i \in 1 .. LeastOf(Len(native), Len(stored)) : native[i] = stored[i]

(* The log is at least as long as the store's copy: it is judged as a      *)
(* commit of the whole history is, by a mirror that adopted the copy.      *)
HydrateAdoptsNative ==
  /\ call # None /\ call.at = "reconcile"
  /\ Agree(file.rows, call.tail.rows)
  /\ Len(file.rows) >= Len(call.tail.rows)
  /\ mirror' = Adopted(call.tail.rows, call.config, Start)
  /\ call' = Running("judge", ReadJSONL(file, Start, TRUE), call.config, FALSE)
  /\ snap' = SnapOfFile(call.config)
  /\ outcome' = "none"
  /\ UNCHANGED <<file, minted, store, open>>

HydrateAdoptsStored ==
  /\ call # None /\ call.at = "reconcile"
  /\ Agree(file.rows, call.tail.rows)
  /\ Len(file.rows) < Len(call.tail.rows)
  /\ mirror' = Adopted(call.tail.rows, call.config, Start)
  /\ call' = [call EXCEPT !.at = "write"]
  /\ UNCHANGED <<file, minted, store, open, snap, outcome>>

HydrateRefused ==
  /\ call # None /\ call.at = "reconcile"
  /\ ~Agree(file.rows, call.tail.rows)
  /\ EndFailed
  /\ UNCHANGED <<file, minted, store, mirror>>

(* WriteJSONL: staged and renamed, so a new file at once. *)
HydrateWrites ==
  /\ call # None /\ call.at = "write"
  /\ file.id < MaxFile
  /\ file' = [id |-> file.id + 1, rows |-> call.tail.rows, tail |-> None]
  /\ mirror' = [mirror EXCEPT !.cursor = CursorAfter(file'.id, call.tail.rows)]
  /\ EndOk
  /\ UNCHANGED <<minted, store>>

(* A file operation fails, or validate does. *)
HydrateFails ==
  /\ Hydrating
  /\ EndFailed
  /\ UNCHANGED <<file, minted, store, mirror>>

-----------------------------------------------------------------------------
(* The environment *)

(* The harness writes a whole line, or begins one and ends it later.  A    *)
(* line is a JSON object or not; an unterminated one may lack its newline  *)
(* only.                                                                   *)
HarnessWrites ==
  /\ open /\ file.tail = None /\ minted < RowBound
  /\ minted' = minted + 1
  /\ LET id == IF Present THEN file.id ELSE 1
     IN  \/ \E r \in {minted', -minted'} :
              file' = [id |-> id, rows |-> Append(file.rows, r), tail |-> None]
         \/ \E object \in BOOLEAN :
              file' = [id |-> id, rows |-> file.rows,
                       tail |-> [row |-> minted', object |-> object]]
  /\ UNCHANGED <<store, mirror, open, call, snap, outcome>>

HarnessEndsLine ==
  /\ open /\ file.tail # None
  /\ file' = [file EXCEPT !.rows = Append(@, file.tail.row), !.tail = None]
  /\ UNCHANGED <<minted, store, mirror, open, call, snap, outcome>>

(* What a rewrite may make of the log: an end cut off, a row replaced by a *)
(* new one.                                                                *)
Edits(rows) ==
  {SubSeq(rows, 1, k) : k \in 0 .. Len(rows) - 1}
  \cup {[rows EXCEPT ![i] = minted + 1] : i \in DOMAIN rows}

(* Cursors that a later read may go on from. *)
Cursors == {mirror.cursor} \cup (IF call = None THEN {} ELSE {call.tail.next})

(* A rewrite in place is noticed by its length or by a checksum.           *)
Noticed(rows) ==
  \A c \in Cursors :
    (/\ c.offset > 0 /\ c.id = file.id /\ c.offset <= Len(rows)
     /\ SubSeq(rows, 1, c.offset) # SubSeq(file.rows, 1, c.offset))
    => Checksums(rows, c.offset) # c.sums

(* A harness that rewrites its log where no checksum looks resets the      *)
(* mirror; any other rewrite it may make at any time.                      *)
HarnessRewrites ==
  /\ open /\ file.tail = None /\ minted < RowBound
  /\ minted' = minted + 1
  /\ \E rows \in Edits(file.rows) :
       \/ /\ file.id < MaxFile
          /\ file' = [file EXCEPT !.id = @ + 1, !.rows = rows]
          /\ UNCHANGED mirror
       \/ /\ file' = [file EXCEPT !.rows = rows]
          /\ Noticed(rows)
          /\ UNCHANGED mirror
       \/ /\ file' = [file EXCEPT !.rows = rows]
          /\ call = None
          /\ mirror' = Forgotten
  /\ UNCHANGED <<store, open, call, snap, outcome>>

(* The process dies, and its harness: a request under way reaches the      *)
(* store or does not, and the native log may be lost.                      *)
Crash ==
  /\ open \/ call # None
  /\ open' = FALSE /\ call' = None /\ snap' = None /\ outcome' = "none"
  /\ mirror' = Forgotten
  /\ store' \in {store} \cup
       (IF call = None THEN {}
        ELSE IF call.at = "append" /\ ~AppendRefused(store, Len(mirror.rows)) THEN {AppendedStore}
        ELSE IF call.at = "replace" THEN {ReplacedStore}
        ELSE {})
  /\ UNCHANGED <<file, minted>>

NativeStateLost ==
  /\ ~open /\ call = None
  /\ file' = NoFile
  /\ UNCHANGED <<minted, store, mirror, open, call, snap, outcome>>

(* The host deletes the session. *)
HostDeletes ==
  /\ store' = StoreDelete(store)
  /\ UNCHANGED <<file, minted, mirror, open, call, snap, outcome>>

(* A write that bypasses the mirror, with another row count than it holds  *)
(* or was handed to adopt.                                                 *)
Bypass ==
  /\ ~orderly /\ store.generation # None
  /\ \E rows \in {Append(store.generation[Main], Foreign),
                  SubSeq(store.generation[Main], 1, Len(store.generation[Main]) - 1)} :
       /\ Len(rows) # Len(mirror.rows)
       /\ Hydrating => Len(rows) # Len(call.tail.rows)
       /\ Len(rows) <= RowBound
       /\ store' = [store EXCEPT !.generation[Main] = rows]
  /\ UNCHANGED <<file, minted, mirror, open, call, snap, outcome>>

Init ==
  /\ file = NoFile /\ minted = 0
  /\ store = NewStore
  /\ mirror = Forgotten
  /\ open = FALSE /\ call = None /\ snap = None /\ outcome = "none"
  /\ orderly \in BOOLEAN

Method ==
  \/ \E c \in Config, wholly \in BOOLEAN : Commit(c, wholly)
  \/ Reset \/ NewSession \/ Adopt \/ Hydrate

(* The running method goes on. *)
Continue ==
  \/ \E c \in Config : CommitRereads(c)
  \/ Judge \/ Appends \/ AppendFails \/ Replaces \/ ReplaceFails
  \/ HydrateCuts \/ HydrateTrims \/ HydrateAdoptsNative \/ HydrateAdoptsStored
  \/ HydrateRefused \/ HydrateWrites \/ HydrateFails

Environment ==
  \/ HarnessWrites \/ HarnessEndsLine \/ HarnessRewrites
  \/ Crash \/ NativeStateLost \/ HostDeletes \/ Bypass

Next == (Method \/ Continue \/ Environment) /\ UNCHANGED orderly

Spec == Init /\ [][Next]_vars

(* File operations return, and a store call ends within its timeout. *)
FairSpec == Spec /\ WF_vars(Continue /\ UNCHANGED orderly)

-----------------------------------------------------------------------------
(* Properties *)

Generations(g) == [rows |-> g[Main], config |-> g[ConfigSubpath][1]]

(* The mirror that remembers implements the mirror that reads everything   *)
(* and publishes everything: appending the tail to what was committed is   *)
(* publishing the whole history, a commit that writes nothing had nothing  *)
(* to write, a failure changes nothing, a deleted session stays deleted.   *)
Full == INSTANCE FullMirror WITH
  native <- file.rows,
  generation <- IF store.generation = None THEN None ELSE Generations(store.generation),
  deleted <- store.deleted

ImplementsFullMirror == Full!Spec

(* The variables have their types (Mirror, the log file, the store).      *)
TypeOK ==
  /\ store \in Store
  /\ minted \in 0 .. MaxRow
  /\ file \in LogFile
  /\ mirror \in Memory
  /\ call \in {None} \cup RunningCall
  /\ snap \in {None} \cup Snapshot
  /\ open \in BOOLEAN
  /\ outcome \in {"none", "ok", "failed"}
  /\ orderly \in BOOLEAN

(* Between calls the mirror's memory (rows, digest, record) is what the    *)
(* store holds, whichever calls failed before.  A read that goes on from   *)
(* the cursor goes on from the committed rows, whatever became of the file *)
(* (ReadJSONL, checksums).  Every row the store holds is a JSON object,    *)
(* although a commit validates only the rows past a committed prefix, so   *)
(* that a later load can read it.                                          *)
RemembersStore ==
  (orderly /\ call = None /\ mirror.committed /\ ~store.deleted) =>
    store.generation = WholeGeneration(mirror.rows, mirror.record)

CursorFollowsCommitted ==
  (mirror.committed /\ Extends(file, mirror.cursor)) =>
    SubSeq(file.rows, 1, mirror.cursor.offset) = mirror.rows

StoredRowsAreValid ==
  (orderly /\ store.generation # None) => ~Invalid(store.generation[Main], 0)

MemoryIsSound == RemembersStore /\ CursorFollowsCommitted /\ StoredRowsAreValid

(* A load loses no row: what it cuts begins with a row that is no JSON     *)
(* object and that was never committed, or was never completed             *)
(* (CutTornTail, cutInvalidRows, WriteJSONL).                              *)
LoadKeepsSoundRows ==
  [][(orderly /\ Hydrating) =>
       \A k \in 1 .. Len(file.rows) :
         ~Invalid(SubSeq(file.rows, 1, k), 0) =>
           /\ Len(file'.rows) >= k
           /\ SubSeq(file'.rows, 1, k) = SubSeq(file.rows, 1, k)]_vars

(* Every commit and every load returns, however often the store fails: the *)
(* prompt that awaits the commit is answered.                              *)
CallsReturn == call # None ~> call = None

=============================================================================
