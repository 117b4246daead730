-------------------------------- MODULE Store --------------------------------
(***************************************************************************)
(* One JSON file, the writers that read it, change it and write it back,    *)
(* and the lock file some of them hold while they do.                       *)
(*                                                                         *)
(* A lock file is a name and an inode: flock locks what was opened, unlink  *)
(* takes away the name.  LockFile.release unlocks first and unlinks then.   *)
(* JsonStore writes one temporary file with a fixed name and renames it;    *)
(* claudesprint-tools and StateManager make a temporary file of their own.  *)
(* Between any two system calls another process may run, and any process    *)
(* may be killed: the kernel drops its lock, its files stay.                *)
(*                                                                         *)
(* Who takes which lock and which kind of temporary file is the scheme: the *)
(* code has three, for current_issue.json (IssueLock), for sprint.json (no  *)
(* lock) and for StateManager (state.lock and a version check).             *)
(***************************************************************************)
EXTENDS Naturals, FiniteSets

CONSTANTS
    Writers,     \* threads that update the file
    Processes,   \* processes they may belong to
    Schemes,     \* how each of them goes about it
    Inodes,      \* what a lock file's name may stand for
    MaxTries,    \* attempts of IssueLock.locked before its timeout
    MaxUpdates   \* bound: updates begun, by all writers together

NoInode == "no_inode"

\* lock: "retry" is IssueLock.locked, "once" StateManager.acquire_lock;
\* temp: "fixed" is JsonStore.write, "own" is mkstemp;
\* check: _write_json_file compares the version first.
Kind == [process : Processes, lock : {"none", "once", "retry"},
         temp : {"fixed", "own"}, check : BOOLEAN]

ASSUME StoreAssumption ==
    /\ IsFiniteSet(Writers)
    /\ Schemes \subseteq [Writers -> Kind]
    /\ NoInode \notin Inodes
    /\ MaxTries \in Nat \ {0} /\ MaxUpdates \in Nat

VARIABLES
    scheme,     \* fixed at the start
    pc,         \* where each writer stands
    lock_file,  \* the inode the lock file's name stands for
    fd,         \* the lock file each writer has open
    depth,      \* FileLock's counter, per thread: above 0 it holds the lock
    acquired,   \* LockFile._acquired, one per process
    tries,      \* failed attempts of this locked()
    read,       \* the data each writer has read and will write back
    file,       \* the text of the file
    temp,       \* the text of the temporary file with the fixed name, if any
    handle,     \* what a writer with an open temporary file writes into
    updates,    \* what MaxUpdates counts
    \* History, for the properties only.
    reported,   \* writers told that their update was written
    stolen      \* an unlink took the name of a lock file somebody had open

locking == <<lock_file, fd, depth, acquired, tries, stolen>>
data    == <<read, file, temp, handle, reported>>
vars    == <<scheme, pc, locking, data, updates>>

-----------------------------------------------------------------------------
(* State.                                                                   *)

\* The data is the set of updates in it; a text that is empty or a mixture does
\* not parse.
Text == [data : SUBSET Writers, whole : BOOLEAN]

Whole(d) == [data |-> d, whole |-> TRUE]
Broken   == [data |-> {}, whole |-> FALSE]

PC == {"idle", "try", "wait", "held", "read", "modify", "open", "fill", "rename",
       "unlock", "unlink"}

TypeOK ==
    /\ scheme \in Schemes
    /\ pc \in [Writers -> PC]
    /\ lock_file \in Inodes \cup {NoInode}
    /\ fd \in [Writers -> Inodes \cup {NoInode}]
    /\ depth \in [Writers -> Nat]
    /\ acquired \in [Processes -> BOOLEAN]
    /\ tries \in [Writers -> 0 .. MaxTries - 1]
    /\ read \in [Writers -> SUBSET Writers]
    /\ file \in Text
    /\ temp \subseteq Text /\ \A s, t \in temp : s = t
    /\ handle \in [Writers -> {"none", "own", "temp", "file", "gone"}]
    /\ updates \in Nat
    /\ reported \subseteq Writers /\ stolen \in BOOLEAN

Init ==
    /\ scheme \in Schemes
    /\ pc = [w \in Writers |-> "idle"]
    /\ lock_file = NoInode
    /\ fd = [w \in Writers |-> NoInode]
    /\ depth = [w \in Writers |-> 0]
    /\ acquired = [p \in Processes |-> FALSE]
    /\ tries = [w \in Writers |-> 0]
    /\ read = [w \in Writers |-> {}]
    /\ file = Whole({}) /\ temp = {}
    /\ handle = [w \in Writers |-> "none"]
    /\ updates = 0
    /\ reported = {} /\ stolen = FALSE

-----------------------------------------------------------------------------
(* Helpers of the actions.                                                  *)

Goto(w, place) == pc' = [pc EXCEPT ![w] = place]

Locks(w) == scheme[w].lock # "none"

Holds(w) == depth[w] > 0

\* The temporary file with the fixed name is between two of its steps.
Fixed(w) == scheme[w].temp = "fixed"

\* The update is over, well or not: a locked one goes through release().
Leave(w) == Goto(w, IF Locks(w) THEN "unlock" ELSE "idle")

\* Nothing of these inodes is left anywhere.
Unused(i) == i # lock_file /\ \A w \in Writers : fd[w] # i

\* Opening a path creates the file if the name is not there.
Opened(i) == IF lock_file = NoInode THEN Unused(i) ELSE i = lock_file

\* A text written over what is there: of a longer one the tail stays.
Over(old, new) == IF old = Broken THEN {new} ELSE {new, Broken}

\* Renaming over the file: who has the old file open writes into nothing, who
\* has the fixed temporary file open writes into the published one if it was
\* that which was renamed.
Publish(text, was_temp) ==
    /\ file' = text
    /\ handle' = [w \in Writers |->
            IF handle[w] = "file" THEN "gone"
            ELSE IF was_temp /\ handle[w] = "temp" THEN "file" ELSE handle[w]]

-----------------------------------------------------------------------------
(* LockFile.acquire, and the loop of IssueLock.locked around it.            *)

Begin(w) == pc[w] = "idle" /\ updates < MaxUpdates /\ updates' = updates + 1

BeginUnlocked(w) ==
    /\ Begin(w) /\ ~Locks(w)
    /\ Goto(w, "read")
    /\ UNCHANGED <<scheme, locking, data>>

\* FileLock opens the lock file.  A thread whose earlier release did nothing
\* still holds the lock: its counter goes up and no system call is made.
OpenLock(w) ==
    /\ Begin(w) /\ Locks(w)
    /\ \/ /\ Holds(w)
          /\ depth' = [depth EXCEPT ![w] = @ + 1]
          /\ acquired' = [acquired EXCEPT ![scheme[w].process] = TRUE]
          /\ Goto(w, "held")
          /\ UNCHANGED <<lock_file, fd>>
       \/ /\ ~Holds(w)
          /\ \E i \in Inodes :
                Opened(i) /\ lock_file' = i /\ fd' = [fd EXCEPT ![w] = i]
          /\ Goto(w, "try")
          /\ UNCHANGED <<depth, acquired>>
    /\ tries' = [tries EXCEPT ![w] = 0]
    /\ UNCHANGED <<scheme, data, stolen>>

\* flock on the open file would not block.
Free(w) == \A v \in Writers : Holds(v) => fd[v] # fd[w]

Flock(w) ==
    /\ pc[w] = "try" /\ Free(w)
    /\ depth' = [depth EXCEPT ![w] = 1]
    /\ acquired' = [acquired EXCEPT ![scheme[w].process] = TRUE]
    /\ Goto(w, "held")
    /\ UNCHANGED <<scheme, lock_file, fd, tries, stolen, data, updates>>

MayRetry(w) == scheme[w].lock = "retry" /\ tries[w] + 1 < MaxTries

\* Mutant: a lock that cannot be had is taken for a stale one and removed.
WaitBreaksLock(w) ==
    /\ pc[w] = "try" /\ ~Free(w) /\ MayRetry(w)
    /\ tries' = [tries EXCEPT ![w] = @ + 1]
    /\ fd' = [fd EXCEPT ![w] = NoInode]
    /\ lock_file' = NoInode
    /\ Goto(w, "wait")
    /\ UNCHANGED <<scheme, depth, acquired, stolen, data, updates>>

\* The lock is taken: the file is closed, and opened anew after a while.
Wait(w) ==
    /\ pc[w] = "try" /\ ~Free(w) /\ MayRetry(w)
    /\ tries' = [tries EXCEPT ![w] = @ + 1]
    /\ fd' = [fd EXCEPT ![w] = NoInode]
    /\ Goto(w, "wait")
    /\ UNCHANGED <<scheme, lock_file, depth, acquired, stolen, data, updates>>

Retry(w) ==
    /\ pc[w] = "wait"
    /\ \E i \in Inodes :
        Opened(i) /\ lock_file' = i /\ fd' = [fd EXCEPT ![w] = i]
    /\ Goto(w, "try")
    /\ UNCHANGED <<scheme, depth, acquired, tries, stolen, data, updates>>

\* LockAcquisitionError or FileLockError.
GiveUp(w) ==
    /\ pc[w] = "try" /\ ~Free(w) /\ ~MayRetry(w)
    /\ fd' = [fd EXCEPT ![w] = NoInode]
    /\ Goto(w, "idle")
    /\ UNCHANGED <<scheme, lock_file, depth, acquired, tries, stolen, data, updates>>

\* The pid goes into whatever the name stands for by now; if the name is gone, a
\* new file nobody has locked takes it.
WritePid(w) ==
    /\ pc[w] = "held"
    /\ \E i \in Inodes : Opened(i) /\ lock_file' = i
    /\ Goto(w, "read")
    /\ UNCHANGED <<scheme, fd, depth, acquired, tries, stolen, data, updates>>

-----------------------------------------------------------------------------
(* The update.                                                              *)

\* Mutant: what a writer once read it does not read again.
ReadOnce(w) ==
    /\ pc[w] = "read"
    /\ read' = [read EXCEPT ![w] = IF w \in reported THEN @ ELSE file.data]
    /\ Goto(w, "modify")
    /\ UNCHANGED <<scheme, locking, file, temp, handle, reported, updates>>

\* A file that does not parse ends the update: None, an empty dict, or an
\* exception.
Read(w) ==
    /\ pc[w] = "read"
    /\ IF file.whole
       THEN read' = [read EXCEPT ![w] = file.data] /\ Goto(w, "modify")
       ELSE UNCHANGED read /\ Leave(w)
    /\ UNCHANGED <<scheme, locking, file, temp, handle, reported, updates>>

\* A file that cannot be read any more passes the check.
SameVersion(w) == scheme[w].check => ~file.whole \/ file.data = read[w]

\* Mutant: the exception of a version that differs skips the release.
ModifyWithoutFinally(w) ==
    /\ pc[w] = "modify"
    /\ Goto(w, IF SameVersion(w) THEN "open" ELSE "idle")
    /\ UNCHANGED <<scheme, locking, data, updates>>

\* The caller is done with the data; StateManager reads the version once more.
Modify(w) ==
    /\ pc[w] = "modify"
    /\ IF SameVersion(w) THEN Goto(w, "open") ELSE Leave(w)
    /\ UNCHANGED <<scheme, locking, data, updates>>

\* Mutant: the text is written into the file itself.
OpenInPlace(w) ==
    /\ pc[w] = "open"
    /\ file' = Broken
    /\ handle' = [handle EXCEPT ![w] = "file"]
    /\ Goto(w, "fill")
    /\ UNCHANGED <<scheme, locking, read, temp, reported, updates>>

\* Opening the fixed name truncates what another writer has there.
OpenTemp(w) ==
    /\ pc[w] = "open"
    /\ IF Fixed(w)
       THEN temp' = {Broken} /\ handle' = [handle EXCEPT ![w] = "temp"]
       ELSE UNCHANGED temp /\ handle' = [handle EXCEPT ![w] = "own"]
    /\ Goto(w, "fill")
    /\ UNCHANGED <<scheme, locking, read, file, reported, updates>>

FillTemp(w) ==
    /\ pc[w] = "fill"
    /\ LET text == Whole(read[w] \cup {w})
       IN  \/ /\ handle[w] = "temp"
              /\ \E old \in temp : \E new \in Over(old, text) : temp' = {new}
              /\ UNCHANGED file
           \/ /\ handle[w] = "file"
              /\ file' \in Over(file, text) /\ UNCHANGED temp
           \/ /\ handle[w] \in {"own", "gone"}
              /\ UNCHANGED <<file, temp>>
    /\ handle' = [handle EXCEPT ![w] = "none"]
    /\ Goto(w, "rename")
    /\ UNCHANGED <<scheme, locking, read, reported, updates>>

\* The rename fails if another writer's rename took the temporary file.
Rename(w) ==
    /\ pc[w] = "rename"
    /\ \/ /\ ~Fixed(w)
          /\ Publish(Whole(read[w] \cup {w}), FALSE)
          /\ reported' = reported \cup {w}
          /\ UNCHANGED temp
       \/ /\ Fixed(w)
          /\ \E text \in temp : Publish(text, TRUE)
          /\ temp' = {}
          /\ reported' = reported \cup {w}
       \/ /\ Fixed(w) /\ temp = {}
          /\ UNCHANGED <<file, temp, handle, reported>>
    /\ Leave(w)
    /\ UNCHANGED <<scheme, locking, read, updates>>

-----------------------------------------------------------------------------
(* LockFile.release.                                                        *)

\* Another thread of the process has set _acquired to False: nothing happens.
ReleaseNothing(w) ==
    /\ pc[w] = "unlock" /\ ~acquired[scheme[w].process]
    /\ Goto(w, "idle")
    /\ UNCHANGED <<scheme, locking, data, updates>>

\* Mutant: to remove the file is thought to release the lock.
UnlockByUnlink(w) ==
    /\ pc[w] = "unlock" /\ acquired[scheme[w].process]
    /\ Goto(w, "unlink")
    /\ UNCHANGED <<scheme, locking, data, updates>>

Unlock(w) ==
    /\ pc[w] = "unlock" /\ acquired[scheme[w].process]
    /\ depth' = [depth EXCEPT ![w] = @ - 1]
    /\ fd' = [fd EXCEPT ![w] = IF depth[w] = 1 THEN NoInode ELSE @]
    /\ Goto(w, "unlink")
    /\ UNCHANGED <<scheme, lock_file, acquired, tries, stolen, data, updates>>

\* The name is removed whoever has opened the file under it meanwhile.
Unlink(w) ==
    /\ pc[w] = "unlink"
    /\ acquired' = [acquired EXCEPT ![scheme[w].process] = FALSE]
    /\ lock_file' = NoInode
    /\ stolen' = (stolen \/ \E v \in Writers : fd[v] # NoInode)
    /\ Goto(w, "idle")
    /\ UNCHANGED <<scheme, fd, depth, tries, data, updates>>

-----------------------------------------------------------------------------
\* The kernel closes the files of a killed process; lock file and temporary
\* file stay where they are.
Crash(p) ==
    LET dead == {w \in Writers : scheme[w].process = p}
    IN  /\ \E w \in dead : pc[w] # "idle"
        /\ pc' = [w \in Writers |-> IF w \in dead THEN "idle" ELSE pc[w]]
        /\ fd' = [w \in Writers |-> IF w \in dead THEN NoInode ELSE fd[w]]
        /\ depth' = [w \in Writers |-> IF w \in dead THEN 0 ELSE depth[w]]
        /\ handle' = [w \in Writers |-> IF w \in dead THEN "none" ELSE handle[w]]
        /\ acquired' = [acquired EXCEPT ![p] = FALSE]
        /\ UNCHANGED <<scheme, lock_file, tries, stolen, read, file, temp,
                       reported, updates>>

Step(w) == \/ Flock(w) \/ Wait(w) \/ Retry(w) \/ GiveUp(w) \/ WritePid(w)
           \/ Read(w) \/ Modify(w) \/ OpenTemp(w) \/ FillTemp(w) \/ Rename(w)
           \/ ReleaseNothing(w) \/ Unlock(w) \/ Unlink(w)

Next == \/ \E w \in Writers : BeginUnlocked(w) \/ OpenLock(w) \/ Step(w)
        \/ \E p \in Processes : Crash(p)

Spec == Init /\ [][Next]_vars

-----------------------------------------------------------------------------
(* Properties.                                                              *)

Holders == {w \in Writers : Holds(w)}

\* Two writers hold the lock at once only after a release unlinked a lock file
\* that another one had already opened.
ExclusionUnlessStolen == ~stolen => Cardinality(Holders) <= 1

AllLock == \A w \in Writers : Locks(w)

Alone(w) == \A v \in Writers \ {w} : scheme[v].process # scheme[w].process

\* Whatever dies where, the file is never seen empty or mixed, if its writers
\* exclude each other or at most one of them uses the fixed temporary name.
FileStaysWhole ==
    \/ AllLock /\ ~stolen /\ (\A w \in Writers : Alone(w))
    \/ \A v, w \in Writers : Fixed(v) /\ Fixed(w) => v = w
    => file.whole

\* An update that was reported as written stays, if every writer takes the lock
\* and no lock file was stolen.
UpdatesStay ==
    AllLock /\ ~stolen /\ (\A w \in Writers : Alone(w)) => reported \subseteq file.data

\* A thread that has left locked() holds nothing, unless it shares the lock
\* object with another thread.
LockNotLeaked == \A w \in Writers : pc[w] = "idle" /\ Alone(w) => ~Holds(w)

\* Who is refused the lock is refused it by a writer at work, or by a thread
\* that shares its lock object: no file left behind by a dead process refuses it.
RefusedByLivingHolder ==
    \A w \in Writers : pc[w] = "try" /\ ~Free(w) =>
        \E v \in Holders : fd[v] = fd[w] /\ (pc[v] # "idle" \/ ~Alone(v))

-----------------------------------------------------------------------------
(* What the docs say, and the code does not do.                             *)

\* "Lock file management to prevent concurrent instances" (lock.py:1).
MutualExclusion == Cardinality(Holders) <= 1
=============================================================================
