------------------------------ MODULE SeedFiles ------------------------------
(***************************************************************************)
(* The seed files of one native home (WriteSeedFiles of process/seed.go):  *)
(* several launches write files into a directory that its operator writes  *)
(* as well.  A manifest lists the names that the launches manage, and a    *)
(* file lock admits one launch at a time.                                  *)
(*                                                                         *)
(* A file is published by a rename, so what is under a name is always a    *)
(* whole file, and the staging file is left out.  Every access of a launch *)
(* is a step of its own: the operator may act, and the launch die, between *)
(* any two.  A rename outlives the process that made it.                   *)
(***************************************************************************)
EXTENDS Naturals

CONSTANTS
  None,
  Launches,
  Names,       \* paths relative to the root, in the order of sorting
  Contents,
  Link,        \* content of a name that is no regular file
  Requests,    \* what a launch may be asked to write
  MaxCalls,    \* bounds on the calls of WriteSeedFiles,
  MaxTouches   \* and on what the operator does

ASSUME NamesAssumption == Names \subseteq Nat

(* No launch is asked to write nothing: WriteSeedFiles returns at once.    *)
ASSUME RequestsAssumption ==
  Requests \subseteq UNION {[names -> Contents] : names \in (SUBSET Names) \ {{}}}

ASSUME BoundsAssumption == MaxCalls \in Nat /\ MaxTouches \in Nat

ASSUME NoneIsNothing ==
  /\ None \notin Launches
  /\ None \notin [content : Contents \cup {Link}, by : {"adapter", "operator"}]
  /\ Link \notin Contents

VARIABLES
  file,      \* what stands under each name, and who created it
  manifest,  \* the names in .seed-manifest.json
  lock,      \* the launch that holds the lock
  call,      \* each launch's call of WriteSeedFiles
  touched,   \* history: names the operator touched since the lock was taken
  calls, touches

directory == <<file, manifest>>
vars == <<file, manifest, lock, call, touched, calls, touches>>

File == [content : Contents \cup {Link}, by : {"adapter", "operator"}]

(* files: what to write; known: the manifest as it was read; exist: the    *)
(* targets that were there; left: the targets that remain to be checked,   *)
(* or to be written.                                                       *)
Call == [at : {"idle", "waiting", "checking", "comparing", "publishing"},
         files : Requests \cup {None}, known : SUBSET Names,
         exist : SUBSET Names, left : SUBSET Names]

Idle == [at |-> "idle", files |-> None, known |-> {}, exist |-> {}, left |-> {}]

Init ==
  /\ file \in [Names -> [content : Contents, by : {"operator"}] \cup {None}]
  /\ manifest = {}
  /\ lock = None
  /\ call = [p \in Launches |-> Idle]
  /\ touched = {}
  /\ calls = 0
  /\ touches = 0

-----------------------------------------------------------------------------
(* WriteSeedFiles *)

Targets(p) == DOMAIN call[p].files

IsNext(p, name) ==
  name \in call[p].left /\ \A other \in call[p].left : name <= other

Begin(p, files) ==
  /\ call[p].at = "idle" /\ calls < MaxCalls
  /\ call' = [call EXCEPT ![p] = [Idle EXCEPT !.at = "waiting", !.files = files]]
  /\ calls' = calls + 1
  /\ UNCHANGED <<directory, lock, touched, touches>>

(* Faulty variant: the lock keeps nobody out. *)
LockIgnored == TRUE

LockFree == lock = None

(* The lock is taken and the manifest read. *)
Lock(p) ==
  /\ call[p].at = "waiting" /\ LockFree
  /\ lock' = p
  /\ call' = [call EXCEPT ![p].at = "checking", ![p].known = manifest,
                          ![p].exist = {}, ![p].left = Targets(p)]
  /\ touched' = {}
  /\ UNCHANGED <<directory, calls, touches>>

Return(p) ==
  /\ call' = [call EXCEPT ![p] = Idle]
  /\ lock' = None
  /\ UNCHANGED <<directory, touched, calls, touches>>

(* Faulty variant: a refusal leaves the lock to the process. *)
ReturnLocked(p) ==
  /\ call' = [call EXCEPT ![p] = Idle]
  /\ UNCHANGED <<directory, lock, touched, calls, touches>>

Refuse(p) == Return(p)

(* Faulty variant: the manifest is not consulted. *)
MayWriteAny(p, name) == file[name] # None => file[name].content # Link

(* A target that is there is a regular file that the manifest lists.       *)
MayWrite(p, name) ==
  file[name] # None => file[name].content # Link /\ name \in call[p].known

Check(p, name) ==
  /\ call[p].at = "checking" /\ IsNext(p, name)
  /\ MayWrite(p, name)
  /\ call' = [call EXCEPT
                ![p].left = @ \ {name},
                ![p].exist = IF file[name] = None THEN @ ELSE @ \cup {name}]
  /\ UNCHANGED <<directory, lock, touched, calls, touches>>

CheckRefused(p, name) ==
  /\ call[p].at = "checking" /\ IsNext(p, name)
  /\ ~MayWrite(p, name)
  /\ Refuse(p)

(* The manifest lists every target before any is written. *)
Listed(p) == call[p].known \cup Targets(p)

Record(p) ==
  /\ call[p].at = "checking" /\ call[p].left = {}
  /\ manifest' = Listed(p)
  /\ call' = [call EXCEPT ![p].at = "comparing", ![p].left = Targets(p)]
  /\ UNCHANGED <<file, lock, touched, calls, touches>>

Skip(p, name) == [call EXCEPT ![p].at = "comparing", ![p].left = @ \ {name}]

(* Faulty variant: a target that is there is taken to be up to date.       *)
AlreadyThere(p, name) == file[name] # None

UpToDate(p, name) ==
  file[name] # None /\ file[name].content \in {call[p].files[name], Link}

(* A target that was there is read, and stays if it holds what it should;  *)
(* what a link leads to may be that or not.                                *)
Compare(p, name) ==
  /\ call[p].at = "comparing" /\ IsNext(p, name)
  /\ \/ /\ name \in call[p].exist /\ UpToDate(p, name)
        /\ call' = Skip(p, name)
     \/ /\ \/ name \notin call[p].exist
           \/ file[name] # None /\ file[name].content # call[p].files[name]
        /\ call' = [call EXCEPT ![p].at = "publishing"]
  /\ UNCHANGED <<directory, lock, touched, calls, touches>>

(* Faulty variant: a target that is gone is read again. *)
CompareAgain(p, name) ==
  /\ call[p].at = "comparing" /\ IsNext(p, name)
  /\ name \in call[p].exist /\ file[name] = None
  /\ UNCHANGED vars

(* The target was there and is gone. *)
CompareFails(p, name) ==
  /\ call[p].at = "comparing" /\ IsNext(p, name)
  /\ name \in call[p].exist /\ file[name] = None
  /\ Return(p)

Publish(p, name) ==
  /\ call[p].at = "publishing" /\ IsNext(p, name)
  /\ file' = [file EXCEPT ![name] = [content |-> call[p].files[name], by |-> "adapter"]]
  /\ call' = Skip(p, name)
  /\ UNCHANGED <<manifest, lock, touched, calls, touches>>

Succeed(p) == call[p].at = "comparing" /\ call[p].left = {} /\ Return(p)

(* An access fails, or the process dies; its lock goes with it. *)
Interrupted(p) ==
  /\ call[p].at # "idle"
  /\ call' = [call EXCEPT ![p] = Idle]
  /\ lock' = IF lock = p THEN None ELSE lock
  /\ UNCHANGED <<directory, touched, calls, touches>>

-----------------------------------------------------------------------------
(* The operator, who creates files, edits those that are there, and        *)
(* removes any.                                                            *)

Edited(name, content) ==
  [content |-> content, by |-> IF file[name] = None THEN "operator" ELSE file[name].by]

Touch(name) ==
  /\ touches < MaxTouches
  /\ touches' = touches + 1
  /\ touched' = touched \cup {name}
  /\ UNCHANGED <<manifest, lock, call, calls>>

OperatorWrites(name, content) ==
  /\ file' = [file EXCEPT ![name] = Edited(name, content)]
  /\ Touch(name)

OperatorRemoves(name) ==
  /\ file[name] # None
  /\ file' = [file EXCEPT ![name] = None]
  /\ Touch(name)

-----------------------------------------------------------------------------
Proceed(p) ==
  \/ Lock(p) \/ Record(p) \/ Succeed(p)
  \/ \E name \in Names :
       \/ Check(p, name) \/ CheckRefused(p, name)
       \/ Compare(p, name) \/ CompareFails(p, name)
       \/ Publish(p, name)

Next ==
  \/ \E p \in Launches :
       \/ \E files \in Requests : Begin(p, files)
       \/ Proceed(p)
       \/ Interrupted(p)
  \/ \E name \in Names :
       \/ \E content \in Contents \cup {Link} : OperatorWrites(name, content)
       \/ OperatorRemoves(name)

Spec == Init /\ [][Next]_vars

(* File accesses return, and a lock that is free is taken by one of those  *)
(* that wait for it.                                                       *)
FairSpec == Spec /\ \A p \in Launches : WF_vars(Proceed(p))

-----------------------------------------------------------------------------
(* Properties *)

(* Types; a launch is past waiting exactly while it holds the lock         *)
(* (lockSeedRoot, FileLock.Close).                                         *)
TypeOK ==
  /\ file \in [Names -> File \cup {None}]
  /\ manifest \subseteq Names
  /\ lock \in Launches \cup {None}
  /\ call \in [Launches -> Call]
  /\ touched \subseteq Names
  /\ calls \in 0 .. MaxCalls
  /\ touches \in 0 .. MaxTouches
  /\ \A p \in Launches :
       /\ call[p].at # "idle" => call[p].files \in Requests
       /\ lock = p <=> call[p].at \notin {"idle", "waiting"}

(* However launches follow, overlap and die, every file that one of them   *)
(* created is listed in the manifest, so that none is ever refused for     *)
(* what another left behind (WriteSeedFiles).                              *)
ManagedFilesOnly ==
  \A name \in Names :
    file[name] # None /\ file[name].by = "adapter" => name \in manifest

(* A call that succeeds leaves every file as it was asked to, but for what *)
(* the operator touched meanwhile (WriteSeedFiles).                        *)
SuccessMeansWritten ==
  \A p \in Launches :
    call[p].at = "comparing" /\ call[p].left = {} =>
      \A name \in Targets(p) \ touched :
        file[name] # None /\ file[name].content = call[p].files[name]

(* What an operator created does not become a launch's.                    *)
Overwritten(name) ==
  /\ file[name] # None /\ file[name].by = "operator"
  /\ file'[name] # None /\ file'[name].by = "adapter"

(* A file that its operator created is safe from a call, unless the        *)
(* manifest listed its name when the call began, or the operator was at it *)
(* during the call (WriteSeedFiles).                                       *)
StandingFilesSurvive ==
  [][\A name \in Names :
       Overwritten(name) => name \in touched \/ name \in call[lock].known]_vars

(* process/seed.go:73 promises more: "the adapter never overwrites a file  *)
(* it did not create".                                                     *)
NeverOverwritesOthers == [][\A name \in Names : ~Overwritten(name)]_vars

(* Every call ends, whoever else dies, fails or is refused meanwhile       *)
(* (lockSeedRoot).                                                         *)
CallsEnd ==
  \A p \in Launches : call[p].at = "waiting" ~> call[p].at = "idle"

=============================================================================
