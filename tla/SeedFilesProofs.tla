--------------------------- MODULE SeedFilesProofs ---------------------------
(***************************************************************************)
(* What the manifest and the lock of the seed files guarantee, for every   *)
(* number of launches and files, whatever the operator does and wherever a *)
(* launch is interrupted.                                                  *)
(***************************************************************************)
EXTENDS SeedFiles, TLAPS

Holds(p) == call[p].at \notin {"idle", "waiting"}
Writing(p) == call[p].at \in {"comparing", "publishing"}

(* What a launch knows of the manifest.                                    *)
InOrder(p) ==
  /\ call[p].left \subseteq Targets(p)
  /\ call[p].exist \subseteq call[p].known
  /\ call[p].at = "checking" =>
       call[p].known = manifest /\ call[p].exist \cap call[p].left = {}
  /\ Writing(p) => Targets(p) \subseteq manifest

Checked(p) == Targets(p) \ (IF call[p].at = "checking" THEN call[p].left ELSE {})

(* Targets nobody touched are still as they were found, or written.        *)
AsFound(p) ==
  \A name \in Checked(p) \ touched :
    /\ name \in call[p].exist => file[name] # None /\ file[name].content # Link
    /\ name \notin call[p].exist => file[name] = None \/ file[name].by = "adapter"

Written(p) ==
  Writing(p) =>
    \A name \in Targets(p) \ (call[p].left \cup touched) :
      file[name] # None /\ file[name].content = call[p].files[name]

LaunchInv(p) == Holds(p) => InOrder(p) /\ AsFound(p) /\ Written(p)

SeedInv ==
  /\ TypeOK
  /\ ManagedFilesOnly
  /\ \A p \in Launches : LaunchInv(p)

-----------------------------------------------------------------------------
(* What a launch is asked to write maps names to contents (WriteSeedFiles).*)
LEMMA RequestTyped ==
  ASSUME NEW files \in Requests
  PROVE  /\ DOMAIN files \subseteq Names
         /\ \A name \in DOMAIN files : files[name] \in Contents
<1>1. PICK names \in SUBSET Names : files \in [names -> Contents]
  BY RequestsAssumption
<1> QED
  BY <1>1

(* A launch that is past waiting has something to write (WriteSeedFiles).  *)
LEMMA TargetsTyped ==
  ASSUME TypeOK, NEW p \in Launches, call[p].at # "idle"
  PROVE  /\ Targets(p) \subseteq Names
         /\ \A name \in Targets(p) : call[p].files[name] \in Contents
<1>1. call[p].files \in Requests
  BY DEF TypeOK
<1> QED
  BY <1>1, RequestTyped DEF Targets

(* A home that was not seeded yet: its manifest is empty and every file is *)
(* its operator's (loadSeedManifest).                                      *)
LEMMA SeedInit == Init => SeedInv
<1> SUFFICES ASSUME Init PROVE SeedInv
  OBVIOUS
<1> USE NamesAssumption, BoundsAssumption, NoneIsNothing
<1>1. TypeOK
  <2>1. Idle \in Call
    BY DEF Idle, Call
  <2>2. file \in [Names -> File \cup {None}]
    <3>1. [content : Contents, by : {"operator"}] \subseteq File
      BY DEF File
    <3> QED
      BY <3>1 DEF Init
  <2>3. \A p \in Launches : call[p].at = "idle" /\ lock # p
    BY DEF Init, Idle
  <2> QED
    BY <2>1, <2>2, <2>3 DEF Init, TypeOK
<1>2. ManagedFilesOnly
  BY DEF Init, ManagedFilesOnly
<1>3. \A p \in Launches : LaunchInv(p)
  BY DEF Init, LaunchInv, Holds, Idle
<1> QED
  BY <1>1, <1>2, <1>3 DEF SeedInv

-----------------------------------------------------------------------------
(* One launch takes a step, the rest stand by. *)

(* Nothing changes for a launch that took no step and does not hold the    *)
(* lock (lockSeedRoot).                                                    *)
LEMMA BystanderKept ==
  ASSUME TypeOK, NEW q \in Launches, lock # q, call'[q] = call[q]
  PROVE  LaunchInv(q)'
BY DEF TypeOK, LaunchInv, Holds

(* A launch begins, returns, is interrupted, or nothing happens but that   *)
(* others go on: its files and the manifest stay (WriteSeedFiles).         *)
LEMMA TypesOfCall ==
  ASSUME TypeOK, NEW p \in Launches, NEW c \in Call,
         call' = [call EXCEPT ![p] = c],
         file' \in [Names -> File \cup {None}], manifest' \subseteq Names,
         touched' \subseteq Names, calls' \in 0 .. MaxCalls, touches' = touches,
         lock' = IF c.at \notin {"idle", "waiting"} THEN p
                 ELSE IF lock = p THEN None ELSE lock,
         lock = p \/ lock = None \/ lock' = lock,
         c.at # "idle" => c.files \in Requests
  PROVE  TypeOK'
<1> USE NoneIsNothing
<1>1. call' \in [Launches -> Call]
  BY DEF TypeOK
<1>2. lock' \in Launches \cup {None}
  BY DEF TypeOK
<1>3. ASSUME NEW q \in Launches
      PROVE  /\ call'[q].at # "idle" => call'[q].files \in Requests
             /\ lock' = q <=> call'[q].at \notin {"idle", "waiting"}
  <2>1. CASE q = p
    <3>1. call'[q] = c
      BY <2>1 DEF TypeOK
    <3> QED
      BY <2>1, <3>1 DEF TypeOK
  <2>2. CASE q # p
    <3>1. call'[q] = call[q]
      BY <2>2 DEF TypeOK
    <3>2. lock' = q <=> lock = q
      BY <2>2 DEF TypeOK
    <3> QED
      BY <3>1, <3>2 DEF TypeOK
  <2> QED
    BY <2>1, <2>2
<1> QED
  BY <1>1, <1>2, <1>3 DEF TypeOK

(* A launch that is idle or waiting afterwards took nothing along          *)
(* (FileLock.Close).                                                       *)
LEMMA LeftBehind ==
  ASSUME SeedInv, NEW p \in Launches, NEW c \in Call, c.at \in {"idle", "waiting"},
         call' = [call EXCEPT ![p] = c], UNCHANGED <<directory, touched, touches>>,
         lock' = (IF lock = p THEN None ELSE lock), calls' \in 0 .. MaxCalls,
         c.at # "idle" => c.files \in Requests
  PROVE  SeedInv'
<1> USE DEF SeedInv
<1>1. TypeOK'
  <2>1. /\ file' \in [Names -> File \cup {None}] /\ manifest' \subseteq Names
        /\ touched' \subseteq Names /\ touches' = touches
    BY DEF directory, TypeOK
  <2>2. lock = p \/ lock' = lock
    OBVIOUS
  <2> QED
    BY <2>1, <2>2, TypesOfCall
<1>2. ManagedFilesOnly'
  BY DEF ManagedFilesOnly, directory
<1>3. ASSUME NEW q \in Launches
      PROVE  LaunchInv(q)'
  <2>1. CASE q = p
    BY <2>1 DEF LaunchInv, Holds, TypeOK
  <2>2. CASE q # p
    <3>1. call'[q] = call[q]
      BY <2>2 DEF TypeOK
    <3> QED
      BY <3>1 DEF LaunchInv, Holds, InOrder, AsFound, Written, Checked, Writing, Targets,
                  directory
  <2> QED
    BY <2>1, <2>2
<1> QED
  BY <1>1, <1>2, <1>3

(* The launch that holds the lock goes on: its own part of the invariant   *)
(* is what is left to show (WriteSeedFiles).                               *)
LEMMA HolderMoves ==
  ASSUME SeedInv, NEW p \in Launches, NEW c \in Call, c.at \notin {"idle", "waiting"},
         lock \in {p, None}, lock' = p, call' = [call EXCEPT ![p] = c],
         c.files \in Requests, touched' \subseteq Names,
         UNCHANGED <<calls, touches>>,
         file' \in [Names -> File \cup {None}], manifest' \subseteq Names,
         ManagedFilesOnly',
         call'[p] = c => LaunchInv(p)'
  PROVE  SeedInv'
<1> USE DEF SeedInv
<1>1. TypeOK'
  <2>1. calls' \in 0 .. MaxCalls /\ touches' = touches
    BY DEF TypeOK
  <2> QED
    BY <2>1, TypesOfCall
<1>2. ASSUME NEW q \in Launches
      PROVE  LaunchInv(q)'
  <2>1. CASE q = p
    BY <2>1 DEF TypeOK
  <2>2. CASE q # p
    <3>1. call'[q] = call[q] /\ lock # q
      BY <2>2, NoneIsNothing DEF TypeOK
    <3> QED
      BY <3>1, BystanderKept
  <2> QED
    BY <2>1, <2>2
<1> QED
  BY <1>1, <1>2

-----------------------------------------------------------------------------
(* The steps. *)

(* The holder of the lock, with what TypeOK says of its call.              *)
LEMMA HolderTyped ==
  ASSUME TypeOK, NEW p \in Launches, Holds(p)
  PROVE  /\ lock = p /\ call[p] \in Call /\ call[p].files \in Requests
         /\ Targets(p) \subseteq Names
         /\ \A name \in Targets(p) : call[p].files[name] \in Contents
BY TargetsTyped DEF TypeOK, Holds

(* A launch that returns, at whatever point and for whatever reason, or    *)
(* dies, leaves what it wrote listed (WriteSeedFiles, FileLock.Close).     *)
LEMMA LeaveStep ==
  ASSUME SeedInv, NEW p \in Launches,
         \/ Interrupted(p) \/ Succeed(p)
         \/ \E name \in Names : CheckRefused(p, name) \/ CompareFails(p, name)
  PROVE  SeedInv'
<1>1. Idle \in Call /\ Idle.at = "idle"
  BY DEF Idle, Call
<1>2. CASE Interrupted(p)
  BY <1>1, <1>2, LeftBehind DEF Interrupted, SeedInv, TypeOK
<1>3. CASE Return(p) /\ Holds(p)
  <2>1. lock = p
    BY <1>3, HolderTyped DEF SeedInv
  <2> QED
    BY <1>1, <1>3, <2>1, LeftBehind DEF Return, SeedInv, TypeOK
<1> QED
  BY <1>2, <1>3 DEF Succeed, CheckRefused, CompareFails, Refuse, Holds

(* A call that begins waits for the lock (WriteSeedFiles).                 *)
LEMMA BeginStep ==
  ASSUME SeedInv, NEW p \in Launches, NEW files \in Requests, Begin(p, files)
  PROVE  SeedInv'
<1> DEFINE c == [Idle EXCEPT !.at = "waiting", !.files = files]
<1>1. c \in Call /\ c.at = "waiting" /\ c.files = files
  BY DEF Idle, Call
<1>2. lock # p
  BY DEF Begin, SeedInv, TypeOK
<1>3. calls' \in 0 .. MaxCalls
  BY BoundsAssumption DEF Begin, SeedInv, TypeOK
<1>4. call' = [call EXCEPT ![p] = c] /\ UNCHANGED <<directory, lock, touched, touches>>
  BY DEF Begin
<1> HIDE DEF c
<1> QED
  BY <1>1, <1>2, <1>3, <1>4, LeftBehind

(* The manifest is read once the lock is held (loadSeedManifest).          *)
LEMMA LockStep ==
  ASSUME SeedInv, NEW p \in Launches, Lock(p)
  PROVE  SeedInv'
<1> USE NoneIsNothing DEF SeedInv
<1> DEFINE c == [call[p] EXCEPT !.at = "checking", !.known = manifest,
                                !.exist = {}, !.left = Targets(p)]
<1>1. call[p] \in Call /\ call[p].at = "waiting" /\ lock = None
  BY DEF Lock, LockFree, TypeOK
<1>2. Targets(p) \subseteq Names /\ call[p].files \in Requests
  BY <1>1, TargetsTyped DEF TypeOK
<1>3. /\ c \in Call /\ c.at = "checking" /\ c.known = manifest /\ c.left = Targets(p)
      /\ c.files = call[p].files /\ c.exist = {}
  BY <1>1, <1>2 DEF Call, TypeOK
<1>4. call' = [call EXCEPT ![p] = c]
  BY DEF Lock
<1>5. UNCHANGED <<file, manifest, calls, touches>> /\ touched' = {} /\ lock' = p
  BY DEF Lock, directory
<1> HIDE DEF c
<1>6. ASSUME call'[p] = c PROVE LaunchInv(p)'
  BY <1>3, <1>5, <1>6
  DEF LaunchInv, Holds, InOrder, AsFound, Written, Writing, Checked, Targets
<1>7. ManagedFilesOnly'
  BY <1>5 DEF ManagedFilesOnly
<1>8. /\ c.at \notin {"idle", "waiting"} /\ lock \in {p, None} /\ c.files \in Requests
      /\ touched' \subseteq Names /\ UNCHANGED <<calls, touches>>
      /\ file' \in [Names -> File \cup {None}] /\ manifest' \subseteq Names
  BY <1>1, <1>2, <1>3, <1>5 DEF TypeOK
<1> QED
  BY <1>3, <1>4, <1>5, <1>6, <1>7, <1>8, HolderMoves

(* A target that passes is remembered as it was found (WriteSeedFiles).    *)
LEMMA CheckStep ==
  ASSUME SeedInv, NEW p \in Launches, NEW name \in Names, Check(p, name)
  PROVE  SeedInv'
<1> USE NoneIsNothing DEF SeedInv
<1> DEFINE found == IF file[name] = None THEN call[p].exist ELSE call[p].exist \cup {name}
           c == [call[p] EXCEPT !.left = call[p].left \ {name}, !.exist = found]
<1>1. Holds(p) /\ call[p].at = "checking" /\ name \in call[p].left
  BY DEF Check, Holds, IsNext
<1>2. lock = p /\ call[p] \in Call /\ call[p].files \in Requests
  BY <1>1, HolderTyped
<1>3. /\ c \in Call /\ c.at = "checking" /\ c.known = call[p].known
      /\ c.left = call[p].left \ {name} /\ c.exist = found /\ c.files = call[p].files
  BY <1>1, <1>2 DEF Call
<1>4. call' = [call EXCEPT ![p] = c]
  BY DEF Check, TypeOK
<1>5. UNCHANGED <<file, manifest, lock, touched, calls, touches>>
  BY DEF Check, directory
<1> HIDE DEF c
<1>6. ASSUME call'[p] = c PROVE LaunchInv(p)'
  <2>1. InOrder(p) /\ AsFound(p)
    BY <1>1 DEF LaunchInv
  <2>2. InOrder(p)'
    <3>1. found \subseteq call[p].exist \cup {name}
      OBVIOUS
    <3>2. found \subseteq call[p].known
      BY <2>1 DEF InOrder, Check, MayWrite
    <3>3. c.left \subseteq Targets(p) /\ c.exist \subseteq c.known /\ c.known = manifest
      BY <1>1, <1>3, <2>1, <3>2 DEF InOrder
    <3>4. c.exist \cap c.left = {}
      BY <1>1, <1>3, <2>1, <3>1 DEF InOrder
    <3>5. Targets(p)' = Targets(p) /\ ~Writing(p)'
      BY <1>3, <1>6 DEF Targets, Writing
    <3> QED
      BY <1>3, <1>5, <1>6, <3>3, <3>4, <3>5 DEF InOrder
  <2>3. AsFound(p)'
    <3>1. file[name] # None => file[name].content # Link
      BY DEF Check, MayWrite
    <3>2. name \in c.exist <=> file[name] # None
      BY <1>1, <1>3, <2>1 DEF InOrder
    <3>3. ASSUME NEW other, other \in (Checked(p) \ touched)', other # name
          PROVE  /\ other \in Checked(p) \ touched
                 /\ other \in c.exist <=> other \in call[p].exist
      BY <1>1, <1>3, <1>5, <1>6, <3>3 DEF Checked, Targets
    <3>4. ASSUME NEW other, other \in (Checked(p) \ touched)'
          PROVE  /\ other \in c.exist => file[other] # None /\ file[other].content # Link
                 /\ other \notin c.exist =>
                      file[other] = None \/ file[other].by = "adapter"
      <4>1. CASE other = name
        BY <4>1, <3>1, <3>2
      <4>2. CASE other # name
        BY <4>2, <3>3, <3>4, <2>1 DEF AsFound
      <4> QED
        BY <4>1, <4>2
    <3> QED
      BY <1>5, <1>6, <3>4 DEF AsFound
  <2> QED
    BY <1>3, <1>6, <2>2, <2>3 DEF LaunchInv, Written, Writing
<1>7. ManagedFilesOnly'
  BY <1>5 DEF ManagedFilesOnly
<1> QED
  BY <1>2, <1>3, <1>4, <1>5, <1>6, <1>7, HolderMoves DEF TypeOK

(* Every target is listed before any is written (saveSeedManifest).        *)
LEMMA RecordStep ==
  ASSUME SeedInv, NEW p \in Launches, Record(p)
  PROVE  SeedInv'
<1> USE NoneIsNothing DEF SeedInv
<1> DEFINE c == [call[p] EXCEPT !.at = "comparing", !.left = Targets(p)]
<1>1. Holds(p) /\ call[p].at = "checking" /\ call[p].left = {}
  BY DEF Record, Holds
<1>2. /\ lock = p /\ call[p] \in Call /\ call[p].files \in Requests
      /\ Targets(p) \subseteq Names
  BY <1>1, HolderTyped
<1>3. /\ c \in Call /\ c.at = "comparing" /\ c.known = call[p].known
      /\ c.left = Targets(p) /\ c.exist = call[p].exist /\ c.files = call[p].files
  BY <1>1, <1>2 DEF Call
<1>4. call' = [call EXCEPT ![p] = c]
  BY DEF Record, TypeOK
<1>5. UNCHANGED <<file, lock, touched, calls, touches>>
  BY DEF Record
<1>6. InOrder(p) /\ AsFound(p)
  BY <1>1 DEF LaunchInv
<1>7. manifest' = manifest \cup Targets(p)
  BY <1>1, <1>6 DEF Record, Listed, InOrder
<1> HIDE DEF c
<1>8. ASSUME call'[p] = c PROVE LaunchInv(p)'
  <2>1. Targets(p)' = Targets(p) /\ Checked(p)' = Checked(p)
    BY <1>1, <1>3, <1>8 DEF Targets, Checked
  <2>2. InOrder(p)'
    BY <1>3, <1>6, <1>7, <1>8, <2>1 DEF InOrder
  <2>3. AsFound(p)'
    BY <1>3, <1>5, <1>6, <1>8, <2>1 DEF AsFound
  <2>4. Written(p)'
    BY <1>3, <1>8, <2>1 DEF Written
  <2> QED
    BY <2>2, <2>3, <2>4 DEF LaunchInv
<1>9. ManagedFilesOnly'
  BY <1>5, <1>7 DEF ManagedFilesOnly
<1> QED
  BY <1>2, <1>3, <1>4, <1>5, <1>7, <1>8, <1>9, HolderMoves DEF TypeOK

(* A launch that writes moves on with a set of targets left, which is that *)
(* of before or, without the one that is in place now, smaller             *)
(* (WriteSeedFiles).                                                       *)
LEMMA WriterMoves ==
  ASSUME SeedInv, NEW p \in Launches, Writing(p), NEW c \in Call,
         c.at \in {"comparing", "publishing"}, c.files = call[p].files,
         c.known = call[p].known, c.exist = call[p].exist,
         c.left \subseteq call[p].left,
         call' = [call EXCEPT ![p] = c],
         UNCHANGED <<manifest, lock, touched, calls, touches>>,
         file' \in [Names -> File \cup {None}],
         \A name \in Names :
           file'[name] = file[name] \/
             /\ name \in Targets(p)
             /\ file'[name] = [content |-> call[p].files[name], by |-> "adapter"],
         \A name \in (call[p].left \ c.left) \ touched :
           file'[name] # None /\ file'[name].content = call[p].files[name]
  PROVE  SeedInv'
<1> USE NoneIsNothing DEF SeedInv
<1>1. Holds(p)
  BY DEF Writing, Holds
<1>2. /\ lock = p /\ call[p].files \in Requests /\ Targets(p) \subseteq Names
      /\ \A name \in Targets(p) : call[p].files[name] \in Contents
  BY <1>1, HolderTyped
<1>3. InOrder(p) /\ AsFound(p) /\ Written(p) /\ Targets(p) \subseteq manifest
  BY <1>1 DEF LaunchInv, InOrder
<1>4. ManagedFilesOnly'
  BY <1>2, <1>3 DEF ManagedFilesOnly
<1>5. ASSUME NEW name \in Targets(p), file'[name] # file[name]
      PROVE  /\ file'[name] # None /\ file'[name].content = call[p].files[name]
             /\ file'[name].content # Link /\ file'[name].by = "adapter"
  <2>1. /\ file'[name] = [content |-> call[p].files[name], by |-> "adapter"]
        /\ call[p].files[name] \in Contents
    BY <1>2, <1>5
  <2>2. file'[name] \in File
    BY <2>1 DEF File
  <2> QED
    BY <2>1, <2>2 DEF File
<1>6. ASSUME call'[p] = c PROVE LaunchInv(p)'
  <2>1. /\ Targets(p)' = Targets(p) /\ Writing(p)'
        /\ Checked(p) = Targets(p) /\ Checked(p)' = Targets(p)
    BY <1>6 DEF Targets, Checked, Writing
  <2>2. InOrder(p)'
    BY <1>3, <1>6, <2>1 DEF InOrder
  <2>3. AsFound(p)'
    BY <1>3, <1>5, <1>6, <2>1 DEF AsFound
  <2>4. Written(p)'
    <3>1. ASSUME NEW name \in Targets(p) \ (c.left \cup touched)
          PROVE  file'[name] # None /\ file'[name].content = call[p].files[name]
      <4>1. CASE name \in call[p].left
        BY <4>1, <3>1
      <4>2. CASE name \notin call[p].left
        <5>1. file[name] # None /\ file[name].content = call[p].files[name]
          BY <4>2, <3>1, <1>3 DEF Written
        <5> QED
          BY <5>1, <1>5, <3>1
      <4> QED
        BY <4>1, <4>2
    <3> QED
      BY <1>6, <2>1, <3>1 DEF Written
  <2> QED
    BY <2>2, <2>3, <2>4 DEF LaunchInv
<1>7. /\ c.at \notin {"idle", "waiting"} /\ c.files \in Requests /\ lock' = p
      /\ touched' \subseteq Names /\ manifest' \subseteq Names
  BY <1>2 DEF TypeOK
<1> QED
  BY <1>2, <1>4, <1>6, <1>7, HolderMoves

(* A target that holds what it should is left alone, and any other is      *)
(* written next (WriteSeedFiles).                                          *)
LEMMA CompareStep ==
  ASSUME SeedInv, NEW p \in Launches, NEW name \in Names, Compare(p, name)
  PROVE  SeedInv'
<1> USE DEF SeedInv
<1>1. Writing(p) /\ Holds(p) /\ call[p].at = "comparing" /\ name \in call[p].left
  BY DEF Compare, Writing, Holds, IsNext
<1>2. call[p] \in Call
  BY <1>1, HolderTyped
<1>3. UNCHANGED <<file, manifest, lock, touched, calls, touches>>
  BY DEF Compare, directory
<1>4. file' \in [Names -> File \cup {None}]
  BY <1>3 DEF TypeOK
<1>5. CASE name \in call[p].exist /\ UpToDate(p, name) /\ call' = Skip(p, name)
  <2> DEFINE c == [call[p] EXCEPT !.at = "comparing", !.left = call[p].left \ {name}]
  <2>1. /\ c \in Call /\ c.at = "comparing" /\ c.known = call[p].known
        /\ c.left = call[p].left \ {name} /\ c.exist = call[p].exist
        /\ c.files = call[p].files
    BY <1>2 DEF Call
  <2>2. call' = [call EXCEPT ![p] = c]
    BY <1>5 DEF Skip, TypeOK
  <2> HIDE DEF c
  <2>3. ASSUME name \notin touched
        PROVE  file[name] # None /\ file[name].content = call[p].files[name]
    <3>1. name \in Checked(p) /\ AsFound(p)
      BY <1>1 DEF LaunchInv, InOrder, Checked
    <3> QED
      BY <1>5, <2>3, <3>1 DEF AsFound, UpToDate
  <2>4. \A other \in (call[p].left \ c.left) \ touched :
          file'[other] # None /\ file'[other].content = call[p].files[other]
    BY <1>3, <2>1, <2>3
  <2> QED
    BY <1>1, <1>3, <1>4, <2>1, <2>2, <2>4, WriterMoves
<1>6. CASE call' = [call EXCEPT ![p].at = "publishing"]
  <2> DEFINE c == [call[p] EXCEPT !.at = "publishing"]
  <2>1. /\ c \in Call /\ c.at = "publishing" /\ c.known = call[p].known
        /\ c.left = call[p].left /\ c.exist = call[p].exist /\ c.files = call[p].files
    BY <1>2 DEF Call
  <2>2. call' = [call EXCEPT ![p] = c]
    BY <1>6
  <2> HIDE DEF c
  <2> QED
    BY <1>1, <1>3, <1>4, <2>1, <2>2, WriterMoves
<1> QED
  BY <1>5, <1>6 DEF Compare

(* A target is put in place as a whole (renameNoFollow).                   *)
LEMMA PublishStep ==
  ASSUME SeedInv, NEW p \in Launches, NEW name \in Names, Publish(p, name)
  PROVE  SeedInv'
<1> USE DEF SeedInv
<1> DEFINE c == [call[p] EXCEPT !.at = "comparing", !.left = call[p].left \ {name}]
           new == [content |-> call[p].files[name], by |-> "adapter"]
<1>1. Writing(p) /\ Holds(p) /\ name \in call[p].left
  BY DEF Publish, Writing, Holds, IsNext
<1>2. name \in Targets(p) /\ call[p] \in Call /\ call[p].files[name] \in Contents
  BY <1>1, HolderTyped DEF LaunchInv, InOrder
<1>3. /\ c \in Call /\ c.at = "comparing" /\ c.known = call[p].known
      /\ c.left = call[p].left \ {name} /\ c.exist = call[p].exist
      /\ c.files = call[p].files
  BY <1>2 DEF Call
<1>4. call' = [call EXCEPT ![p] = c]
  BY DEF Publish, Skip, TypeOK
<1>5. UNCHANGED <<manifest, lock, touched, calls, touches>>
  BY DEF Publish
<1>6. new \in File /\ new # None /\ new.content = call[p].files[name]
  <2>1. new \in File
    BY <1>2 DEF File
  <2> QED
    BY <2>1, NoneIsNothing DEF File
<1>7. file' = [file EXCEPT ![name] = new]
  BY DEF Publish
<1> HIDE DEF c, new
<1>8. file' \in [Names -> File \cup {None}] /\ file'[name] = new
  BY <1>6, <1>7 DEF TypeOK
<1>9. \A other \in Names :
        file'[other] = file[other] \/
          /\ other \in Targets(p)
          /\ file'[other] = [content |-> call[p].files[other], by |-> "adapter"]
  BY <1>2, <1>7, <1>8 DEF TypeOK, new
<1> QED
  BY <1>1, <1>3, <1>4, <1>5, <1>6, <1>8, <1>9, WriterMoves

(* What the operator does disturbs no claim but those about the name it    *)
(* touches (WriteSeedFiles).                                               *)
LEMMA OperatorStep ==
  ASSUME SeedInv, NEW name \in Names,
         \/ OperatorRemoves(name)
         \/ \E content \in Contents \cup {Link} : OperatorWrites(name, content)
  PROVE  SeedInv'
<1> USE DEF SeedInv
<1>1. Touch(name)
  BY DEF OperatorRemoves, OperatorWrites
<1>2. PICK new \in File \cup {None} :
        /\ file' = [file EXCEPT ![name] = new]
        /\ new # None =>
             (file[name] # None /\ new.by = file[name].by) \/ new.by = "operator"
  <2>1. CASE OperatorRemoves(name)
    BY <2>1 DEF OperatorRemoves
  <2>2. ASSUME NEW content \in Contents \cup {Link}, OperatorWrites(name, content)
        PROVE  /\ Edited(name, content) \in File
               /\ \/ file[name] # None /\ Edited(name, content).by = file[name].by
                  \/ Edited(name, content).by = "operator"
    BY DEF Edited, File, TypeOK
  <2> QED
    BY <2>1, <2>2 DEF OperatorWrites
<1>3. /\ UNCHANGED <<manifest, lock, call, calls>> /\ touched' = touched \cup {name}
      /\ touches' \in 0 .. MaxTouches
  BY <1>1, BoundsAssumption DEF Touch, TypeOK
<1>4. /\ file' \in [Names -> File \cup {None}] /\ file'[name] = new
      /\ \A other \in Names \ {name} : file'[other] = file[other]
  BY <1>2 DEF TypeOK
<1>5. TypeOK'
  BY <1>3, <1>4 DEF TypeOK
<1>6. ManagedFilesOnly'
  BY <1>2, <1>3, <1>4 DEF ManagedFilesOnly
<1>7. ASSUME NEW q \in Launches
      PROVE  LaunchInv(q)'
  <2>1. CASE Holds(q)
    <3>1. Targets(q) \subseteq Names
      BY <2>1, HolderTyped
    <3>2. InOrder(q) /\ AsFound(q) /\ Written(q)
      BY <2>1 DEF LaunchInv
    <3>3. InOrder(q)'
      BY <1>3, <3>2 DEF InOrder, Targets, Writing
    <3>4. AsFound(q)'
      BY <1>3, <1>4, <3>1, <3>2 DEF AsFound, Checked, Targets
    <3>5. Written(q)'
      BY <1>3, <1>4, <3>1, <3>2 DEF Written, Targets, Writing
    <3> QED
      BY <3>3, <3>4, <3>5 DEF LaunchInv
  <2>2. CASE ~Holds(q)
    BY <2>2, <1>3 DEF LaunchInv, Holds
  <2> QED
    BY <2>1, <2>2
<1> QED
  BY <1>5, <1>6, <1>7

(* Every step of a launch or of the operator keeps the invariant           *)
(* (WriteSeedFiles).                                                       *)
LEMMA SeedStep == SeedInv /\ [Next]_vars => SeedInv'
<1> SUFFICES ASSUME SeedInv, [Next]_vars PROVE SeedInv'
  OBVIOUS
<1>1. CASE UNCHANGED vars
  BY <1>1 DEF vars, directory, SeedInv, TypeOK, ManagedFilesOnly, LaunchInv, Holds, Writing,
              InOrder, Checked, AsFound, Written, Targets
<1>2. ASSUME NEW p \in Launches, NEW files \in Requests, Begin(p, files)
      PROVE  SeedInv'
  BY <1>2, BeginStep
<1>3. ASSUME NEW p \in Launches, Proceed(p)
      PROVE  SeedInv'
  BY <1>3, LockStep, RecordStep, LeaveStep, CheckStep, CompareStep, PublishStep DEF Proceed
<1>4. ASSUME NEW p \in Launches, Interrupted(p)
      PROVE  SeedInv'
  BY <1>4, LeaveStep
<1>5. ASSUME NEW name \in Names,
             \/ OperatorRemoves(name)
             \/ \E content \in Contents \cup {Link} : OperatorWrites(name, content)
      PROVE  SeedInv'
  BY <1>5, OperatorStep
<1> QED
  BY <1>1, <1>2, <1>3, <1>4, <1>5 DEF Next

(* What the launches rely on is so at all times (WriteSeedFiles).          *)
THEOREM SeedInvHolds == Spec => []SeedInv
BY SeedInit, SeedStep, PTL DEF Spec

(* One launch at a time is past the lock, and each keeps to its types      *)
(* (lockSeedRoot, FileLock.Close).                                         *)
THEOREM SeedTypes == Spec => []TypeOK
<1>1. SeedInv => TypeOK
  BY DEF SeedInv
<1> QED
  BY <1>1, SeedInvHolds, PTL

(* No launch is ever refused for what an earlier one left behind: every    *)
(* file that a launch created is listed (WriteSeedFiles).                  *)
THEOREM LeftoversAreListed == Spec => []ManagedFilesOnly
<1>1. SeedInv => ManagedFilesOnly
  BY DEF SeedInv
<1> QED
  BY <1>1, SeedInvHolds, PTL

(* A call that succeeds wrote every file it was asked to, or found it so   *)
(* (WriteSeedFiles).                                                       *)
THEOREM SuccessIsWritten == Spec => []SuccessMeansWritten
<1>1. SeedInv => SuccessMeansWritten
  <2> SUFFICES ASSUME SeedInv, NEW p \in Launches,
                      call[p].at = "comparing", call[p].left = {},
                      NEW name \in Targets(p) \ touched
               PROVE  file[name] # None /\ file[name].content = call[p].files[name]
    BY DEF SuccessMeansWritten
  <2>1. Written(p)
    BY DEF SeedInv, LaunchInv, Holds
  <2>2. Writing(p)
    BY DEF Writing
  <2>3. name \in Targets(p) \ (call[p].left \cup touched)
    OBVIOUS
  <2> QED
    BY <2>1, <2>2, <2>3, Zenon DEF Written
<1> QED
  BY <1>1, SeedInvHolds, PTL

(* Only a publication makes an operator's file a launch's, and it reaches  *)
(* such a file only where the manifest lists its name or the operator was  *)
(* at it meanwhile (WriteSeedFiles).                                       *)
LEMMA StandingStep ==
  ASSUME SeedInv, [Next]_vars, NEW name \in Names, Overwritten(name)
  PROVE  name \in touched \/ name \in call[lock].known
<1> USE DEF SeedInv
<1>1. file' # file
  BY DEF Overwritten
<1>2. CASE \E p \in Launches, other \in Names : Publish(p, other)
  <2>1. PICK p \in Launches, other \in Names : Publish(p, other)
    BY <1>2
  <2>2. Holds(p) /\ Writing(p) /\ other \in call[p].left
    BY <2>1 DEF Publish, Holds, Writing, IsNext
  <2>3. lock = p /\ InOrder(p) /\ AsFound(p)
    BY <2>2, HolderTyped DEF LaunchInv
  <2>4. other = name
    BY <2>1 DEF Publish, Overwritten, TypeOK
  <2>5. name \in Checked(p)
    BY <2>2, <2>3, <2>4 DEF InOrder, Checked, Writing
  <2>6. name \in touched \/ name \in call[p].exist
    BY <2>3, <2>5 DEF AsFound, Overwritten
  <2> QED
    BY <2>3, <2>6 DEF InOrder
<1>3. ASSUME NEW other \in Names,
             \/ OperatorRemoves(other)
             \/ \E content \in Contents \cup {Link} : OperatorWrites(other, content)
      PROVE  FALSE
  <2>1. CASE OperatorRemoves(other)
    BY <2>1 DEF OperatorRemoves, Overwritten, TypeOK
  <2>2. ASSUME NEW content \in Contents \cup {Link}, OperatorWrites(other, content)
        PROVE  FALSE
    <3>1. other = name /\ file'[name] = Edited(name, content)
      BY <2>2 DEF OperatorWrites, Overwritten, TypeOK
    <3>2. Edited(name, content).by = "operator"
      BY DEF Edited, Overwritten
    <3> QED
      BY <3>1, <3>2 DEF Overwritten
  <2> QED
    BY <1>3, <2>1, <2>2
<1> QED
  BY <1>1, <1>2, <1>3, ZenonT(30)
  DEF Next, vars, directory, Begin, Proceed, Lock, Record, Succeed, Return, Check,
      CheckRefused, Refuse, Compare, CompareFails, Interrupted

(* The promise of docs/01-public-api.md:174-176, that a file which is not  *)
(* in the manifest is never overwritten, holds for every file that the     *)
(* operator leaves alone during the call (WriteSeedFiles).                 *)
THEOREM StandingFilesAreSafe == Spec => StandingFilesSurvive
<1>1. SeedInv /\ [Next]_vars =>
        [\A name \in Names :
           Overwritten(name) => name \in touched \/ name \in call[lock].known]_vars
  BY StandingStep
<1> QED
  BY <1>1, SeedInvHolds, PTL DEF Spec, StandingFilesSurvive

=============================================================================
