----------------------------- MODULE StoreProofs -----------------------------
(***************************************************************************)
(* Theorems about Store, for any finite set of writers and processes, every *)
(* scheme and every number of attempts and updates.                         *)
(***************************************************************************)
EXTENDS Store, FiniteSetTheorems, TLAPS

\* Between taking the lock and giving it back.
Busy == {"held", "read", "modify", "open", "fill", "rename", "unlock"}

\* What a writer's place says of the lock.
Place(w) ==
    /\ pc[w] \in {"try", "wait", "held", "unlock", "unlink"} => Locks(w)
    /\ pc[w] \in {"try", "wait"} => ~Holds(w)
    /\ pc[w] = "try" => fd[w] # NoInode
    /\ pc[w] \in Busy /\ Locks(w) => Holds(w)
    /\ Holds(w) => fd[w] # NoInode /\ Locks(w)

\* A writer that shares its lock object with nobody.
Lonely(w) ==
    Alone(w) => /\ Holds(w) => pc[w] \in Busy /\ depth[w] = 1
                /\ pc[w] \in Busy /\ Locks(w) => acquired[scheme[w].process]

\* flock: an inode has one holder.
OneHolder == \A v, w \in Writers : Holds(v) /\ Holds(w) /\ fd[v] = fd[w] => v = w

\* Until a name is stolen, it stands for whatever lock file is open.
Named == ~stolen => \A w \in Writers : fd[w] # NoInode => fd[w] = lock_file

LockInv == /\ \A w \in Writers : Place(w) /\ Lonely(w)
           /\ OneHolder /\ Named

-----------------------------------------------------------------------------
(* Types.                                                                   *)

LEMMA SchemeType == ASSUME StoreAssumption, TypeOK PROVE scheme \in [Writers -> Kind]
  BY DEF StoreAssumption, TypeOK

LEMMA WholeType == ASSUME NEW d, d \subseteq Writers PROVE Whole(d) \in Text
  BY DEF Whole, Text

LEMMA BrokenType == Broken \in Text
  BY DEF Broken, Text

LEMMA OverType ==
  ASSUME NEW old, NEW new \in Text PROVE Over(old, new) \subseteq Text
  BY BrokenType DEF Over

LEMMA InitType == ASSUME StoreAssumption, Init PROVE TypeOK
<1>1. Whole({}) \in Text
  BY WholeType
<1>2. 0 \in 0 .. MaxTries - 1
  BY DEF StoreAssumption
<1> QED BY <1>1, <1>2 DEF Init, TypeOK, PC

LEMMA StepType ==
  ASSUME StoreAssumption, TypeOK, NEW w \in Writers, Place(w),
         BeginUnlocked(w) \/ OpenLock(w) \/ Step(w)
  PROVE  TypeOK'
<1> USE DEF TypeOK
<1>s. scheme \in [Writers -> Kind] /\ scheme[w].process \in Processes
  BY SchemeType DEF Kind
<1>0. /\ "read" \in PC /\ "held" \in PC /\ "try" \in PC /\ "wait" \in PC
      /\ "idle" \in PC /\ "modify" \in PC /\ "open" \in PC /\ "fill" \in PC
      /\ "rename" \in PC /\ "unlock" \in PC /\ "unlink" \in PC
  BY DEF PC
<1>l. Leave(w) => pc' \in [Writers -> PC]
  BY <1>0 DEF Leave, Goto
<1>1. CASE BeginUnlocked(w)
  BY <1>1, <1>0 DEF BeginUnlocked, Begin, Goto, locking, data
<1>2. CASE OpenLock(w)
  <2>1. pc' \in [Writers -> PC]
    BY <1>2, <1>0 DEF OpenLock, Goto
  <2>2. /\ lock_file' \in Inodes \cup {NoInode}
        /\ fd' \in [Writers -> Inodes \cup {NoInode}]
    BY <1>2 DEF OpenLock
  <2>3. depth' \in [Writers -> Nat] /\ acquired' \in [Processes -> BOOLEAN]
    <3>1. depth' \in [Writers -> Nat]
      <4>1. CASE depth' = [depth EXCEPT ![w] = @ + 1]
        BY <4>1
      <4> QED BY <1>2, <4>1 DEF OpenLock
    <3>2. acquired' \in [Processes -> BOOLEAN]
      <4>1. CASE acquired' = [acquired EXCEPT ![scheme[w].process] = TRUE]
        BY <4>1
      <4> QED BY <1>2, <4>1 DEF OpenLock
    <3> QED BY <3>1, <3>2
  <2>4. tries' \in [Writers -> 0 .. MaxTries - 1]
    BY <1>2 DEF OpenLock, StoreAssumption
  <2>5. updates' \in Nat
    BY <1>2 DEF OpenLock, Begin
  <2> QED BY <1>2, <2>1, <2>2, <2>3, <2>4, <2>5 DEF OpenLock, data
<1>3. CASE Flock(w)
  BY <1>3, <1>0 DEF Flock, Goto, data
<1>4. CASE Wait(w)
  <2>1. tries' \in [Writers -> 0 .. MaxTries - 1]
    BY <1>4 DEF Wait, MayRetry, StoreAssumption
  <2> QED BY <1>4, <1>0, <2>1 DEF Wait, Goto, data
<1>5. CASE Retry(w)
  BY <1>5, <1>0 DEF Retry, Goto, data
<1>6. CASE GiveUp(w)
  BY <1>6, <1>0 DEF GiveUp, Goto, data
<1>7. CASE WritePid(w)
  BY <1>7, <1>0 DEF WritePid, Goto, data
<1>8. CASE Read(w)
  <2>1. file.data \subseteq Writers
    BY DEF Text
  <2>2. read' \in [Writers -> SUBSET Writers] /\ pc' \in [Writers -> PC]
    BY <1>8, <1>0, <1>l, <2>1 DEF Read, Goto
  <2> QED BY <1>8, <2>2 DEF Read, locking
<1>9. CASE Modify(w)
  BY <1>9, <1>0, <1>l DEF Modify, Goto, locking, data
<1>10. CASE OpenTemp(w)
  BY <1>10, <1>0, BrokenType DEF OpenTemp, Goto, locking
<1>11. CASE FillTemp(w)
  <2> DEFINE text == Whole(read[w] \cup {w})
  <2>1. text \in Text
    BY WholeType
  <2>2. /\ pc' \in [Writers -> PC]
        /\ handle' \in [Writers -> {"none", "own", "temp", "file", "gone"}]
    BY <1>11, <1>0 DEF FillTemp, Goto
  <2>3. temp' \subseteq Text /\ \A s, t \in temp' : s = t
    <3> HIDE DEF text
    <3>1. CASE UNCHANGED temp
      BY <3>1
    <3>2. CASE \E old \in temp : \E new \in Over(old, text) : temp' = {new}
      BY <3>2, <2>1, OverType
    <3> QED BY <1>11, <3>1, <3>2 DEF FillTemp, text
  <2>4. file' \in Text
    <3> HIDE DEF text
    <3>1. CASE UNCHANGED file
      BY <3>1
    <3>2. CASE file' \in Over(file, text)
      BY <3>2, <2>1, OverType
    <3> QED BY <1>11, <3>1, <3>2 DEF FillTemp, text
  <2> QED BY <1>11, <2>2, <2>3, <2>4 DEF FillTemp, locking
<1>12. CASE Rename(w)
  <2>1. pc' \in [Writers -> PC]
    BY <1>12, <1>l DEF Rename
  <2>2. file' \in Text
    BY <1>12, WholeType DEF Rename, Publish
  <2>3. handle' \in [Writers -> {"none", "own", "temp", "file", "gone"}]
    <3>1. CASE UNCHANGED handle
      BY <3>1
    <3>2. ASSUME NEW text, NEW b, Publish(text, b) 
                 PROVE handle' \in [Writers -> {"none", "own", "temp", "file", "gone"}]
      BY <3>2 DEF Publish
    <3> QED BY <1>12, <3>1, <3>2 DEF Rename
  <2>4. /\ temp' \subseteq Text /\ \A s, t \in temp' : s = t
        /\ reported' \subseteq Writers
    BY <1>12 DEF Rename
  <2> QED BY <1>12, <2>1, <2>2, <2>3, <2>4 DEF Rename, locking
<1>13. CASE ReleaseNothing(w)
  BY <1>13, <1>0 DEF ReleaseNothing, Goto, locking, data
<1>14. CASE Unlock(w)
  <2>1. depth[w] \in Nat \ {0}
    BY <1>14, <1>s DEF Unlock, Place, Busy, Holds
  <2>2. depth' \in [Writers -> Nat]
    BY <1>14, <2>1 DEF Unlock
  <2> QED BY <1>14, <1>0, <2>2 DEF Unlock, Goto, data
<1>15. CASE Unlink(w)
  <2>1. stolen' \in BOOLEAN
    BY <1>15 DEF Unlink
  <2>2. acquired' \in [Processes -> BOOLEAN]
    BY <1>15, <1>s DEF Unlink
  <2> QED BY <1>15, <1>0, <2>1, <2>2 DEF Unlink, Goto, data
<1> QED BY <1>1, <1>2, <1>3, <1>4, <1>5, <1>6, <1>7, <1>8, <1>9, <1>10, <1>11, <1>12,
           <1>13, <1>14, <1>15 DEF Step

LEMMA CrashType ==
  ASSUME StoreAssumption, TypeOK, NEW p \in Processes, Crash(p)
  PROVE  TypeOK'
<1>1. /\ pc' \in [Writers -> PC]
      /\ fd' \in [Writers -> Inodes \cup {NoInode}]
      /\ handle' \in [Writers -> {"none", "own", "temp", "file", "gone"}]
  BY DEF Crash, TypeOK, PC
<1>2. depth' \in [Writers -> Nat] /\ acquired' \in [Processes -> BOOLEAN]
  BY DEF Crash, TypeOK
<1> QED BY <1>1, <1>2 DEF Crash, TypeOK

-----------------------------------------------------------------------------
(* The lock.                                                                *)

LEMMA InitLock == ASSUME StoreAssumption, Init PROVE LockInv
<1>1. \A w \in Writers : Place(w) /\ Lonely(w)
  BY DEF Init, Place, Lonely, Holds, Busy
<1> QED BY <1>1 DEF Init, LockInv, OneHolder, Named, Holds

\* Whoever shares a lock object, and who uses a lock, is settled by the scheme.
LEMMA SchemeFixed ==
  ASSUME UNCHANGED scheme
  PROVE  \A w \in Writers : (Alone(w))' = Alone(w) /\ (Locks(w))' = Locks(w)
  BY DEF Alone, Locks

\* A step inside the update, or out of it for who holds nothing.
LEMMA MovesOn ==
  ASSUME TypeOK, LockInv, NEW w \in Writers, NEW place,
         Goto(w, place), UNCHANGED <<scheme, locking>>,
         \/ pc[w] \in Busy /\ place \in Busy /\ (place \in {"held", "unlock"} => Locks(w))
         \/ ~Locks(w) /\ place \in {"idle", "read"}
  PROVE  LockInv'
<1> USE DEF TypeOK
<1>1. \A v \in Writers : Holds(v)' = Holds(v) /\ pc'[v] = IF v = w THEN place ELSE pc[v]
  BY DEF Goto, Holds, locking
<1>2. ASSUME NEW v \in Writers PROVE (Place(v) /\ Lonely(v))'
  <2>1. Place(v)'
    BY <1>1, SchemeFixed DEF LockInv, Place, Busy, locking
  <2>2. Lonely(v)'
    BY <1>1, SchemeFixed DEF LockInv, Place, Lonely, Busy, locking
  <2> QED BY <2>1, <2>2
<1>3. OneHolder' /\ Named'
  BY <1>1 DEF LockInv, OneHolder, Named, locking
<1> QED BY <1>2, <1>3 DEF LockInv

LEMMA LockStep ==
  ASSUME StoreAssumption, TypeOK, LockInv, NEW w \in Writers,
         BeginUnlocked(w) \/ OpenLock(w) \/ Step(w)
  PROVE  LockInv'
<1> USE DEF TypeOK
<1>s. UNCHANGED scheme
  BY DEF BeginUnlocked, OpenLock, Step, Flock, Wait, Retry, GiveUp, WritePid, Read,
         Modify, OpenTemp, FillTemp, Rename, ReleaseNothing, Unlock, Unlink
<1>p. scheme[w].process \in Processes
  BY SchemeType DEF Kind
<1>w. Place(w) /\ Lonely(w)
  BY DEF LockInv
<1>l. ASSUME Leave(w), UNCHANGED locking, pc[w] \in Busy
      PROVE  LockInv'
  <2>1. CASE Locks(w)
    BY <1>l, <1>s, <2>1, MovesOn DEF Leave, Busy
  <2>2. CASE ~Locks(w)
    BY <1>l, <1>s, <2>2, MovesOn DEF Leave
  <2> QED BY <2>1, <2>2
<1>m. ASSUME NEW place \in Busy \ {"held", "unlock"}, Goto(w, place), UNCHANGED locking,
             pc[w] \in Busy
      PROVE  LockInv'
  BY <1>m, <1>s, MovesOn
<1>1. CASE BeginUnlocked(w)
  BY <1>1, MovesOn DEF BeginUnlocked
<1>2. CASE OpenLock(w)
  <2>1. CASE Holds(w)
    <3>1. /\ pc' = [pc EXCEPT ![w] = "held"]
          /\ depth' = [depth EXCEPT ![w] = @ + 1]
          /\ acquired' = [acquired EXCEPT ![scheme[w].process] = TRUE]
          /\ UNCHANGED <<lock_file, fd, stolen>>
      BY <1>2, <2>1 DEF OpenLock, Goto
    <3>2. \A v \in Writers : Holds(v)' = Holds(v)
      BY <2>1, <3>1 DEF Holds
    <3>3. pc[w] = "idle" /\ Locks(w) /\ ~Alone(w)
      BY <1>2, <2>1, <1>w DEF OpenLock, Begin, Lonely, Busy
    <3>4. ASSUME NEW v \in Writers PROVE (Place(v) /\ Lonely(v))'
      <4>1. Place(v)'
        BY <1>s, SchemeFixed, <2>1, <3>1, <3>2, <3>3 DEF LockInv, Place, Busy
      <4>2. Lonely(v)'
        BY <1>s, <1>p, SchemeFixed, <3>1, <3>2, <3>3 DEF LockInv, Lonely, Busy
      <4> QED BY <4>1, <4>2
    <3>5. OneHolder' /\ Named'
      BY <3>1, <3>2 DEF LockInv, OneHolder, Named
    <3> QED BY <3>4, <3>5 DEF LockInv
  <2>2. CASE ~Holds(w)
    <3>1. PICK i \in Inodes :
            /\ Opened(i) /\ lock_file' = i /\ fd' = [fd EXCEPT ![w] = i]
            /\ pc' = [pc EXCEPT ![w] = "try"]
            /\ UNCHANGED <<depth, acquired, stolen>>
      BY <1>2, <2>2 DEF OpenLock, Goto
    <3>2. \A v \in Writers : Holds(v)' = Holds(v)
      BY <3>1 DEF Holds
    <3>3. Locks(w) /\ i # NoInode
      BY <1>2 DEF OpenLock, StoreAssumption
    <3>4. ASSUME NEW v \in Writers PROVE (Place(v) /\ Lonely(v))'
      <4>1. Place(v)'
        BY <1>s, SchemeFixed, <2>2, <3>1, <3>2, <3>3 DEF LockInv, Place, Busy
      <4>2. Lonely(v)'
        BY <1>s, SchemeFixed, <2>2, <3>1, <3>2 DEF LockInv, Lonely, Busy
      <4> QED BY <4>1, <4>2
    <3>5. OneHolder'
      BY <2>2, <3>1, <3>2 DEF LockInv, OneHolder
    <3>6. Named'
      BY <3>1 DEF LockInv, Named, Opened
    <3> QED BY <3>4, <3>5, <3>6 DEF LockInv
  <2> QED BY <2>1, <2>2
<1>3. CASE Flock(w)
  <2>1. /\ pc[w] = "try" /\ Free(w)
        /\ depth' = [depth EXCEPT ![w] = 1]
        /\ acquired' = [acquired EXCEPT ![scheme[w].process] = TRUE]
        /\ pc' = [pc EXCEPT ![w] = "held"]
        /\ UNCHANGED <<lock_file, fd, stolen>>
    BY <1>3 DEF Flock, Goto
  <2>2. /\ Holds(w)' /\ depth'[w] = 1
        /\ \A v \in Writers \ {w} : Holds(v)' = Holds(v) /\ depth'[v] = depth[v]
    BY <2>1 DEF Holds
  <2>3. Locks(w) /\ fd[w] # NoInode
    BY <1>w, <2>1 DEF Place
  <2>4. ASSUME NEW v \in Writers PROVE (Place(v) /\ Lonely(v))'
    <3>1. Place(v)'
      BY <1>s, SchemeFixed, <2>1, <2>2, <2>3 DEF LockInv, Place, Busy
    <3>2. Lonely(v)'
      BY <1>s, <1>p, SchemeFixed, <2>1, <2>2, <2>3 DEF LockInv, Lonely, Busy
    <3> QED BY <3>1, <3>2
  <2>5. OneHolder'
    BY <2>1, <2>2 DEF LockInv, OneHolder, Free
  <2>6. Named'
    BY <2>1 DEF LockInv, Named
  <2> QED BY <2>4, <2>5, <2>6 DEF LockInv
\* Steps of a writer without the lock: its lock file is closed or opened anew.
<1>a. ASSUME NEW place \in {"idle", "wait", "try"}, Goto(w, place),
             pc[w] \in {"try", "wait"}, UNCHANGED <<depth, acquired, stolen>>,
             NEW i, fd' = [fd EXCEPT ![w] = i],
             place = "try" => i # NoInode,
             Named'
      PROVE  LockInv'
  <2>1. /\ \A v \in Writers : Holds(v)' = Holds(v)
        /\ ~Holds(w) /\ Locks(w) /\ pc' = [pc EXCEPT ![w] = place]
    BY <1>a, <1>w DEF Holds, Place, Goto
  <2>2. ASSUME NEW v \in Writers PROVE (Place(v) /\ Lonely(v))'
    <3>1. Place(v)'
      BY <1>a, <1>s, SchemeFixed, <2>1 DEF LockInv, Place, Busy
    <3>2. Lonely(v)'
      BY <1>a, <1>s, SchemeFixed, <2>1 DEF LockInv, Lonely, Busy
    <3> QED BY <3>1, <3>2
  <2>3. OneHolder'
    BY <1>a, <2>1 DEF LockInv, OneHolder
  <2> QED BY <1>a, <2>2, <2>3 DEF LockInv
<1>4. CASE Wait(w)
  <2>1. Named'
    BY <1>4 DEF Wait, LockInv, Named
  <2> QED BY <1>4, <1>a, <2>1 DEF Wait
<1>5. CASE Retry(w)
  <2>1. PICK i \in Inodes : Opened(i) /\ lock_file' = i /\ fd' = [fd EXCEPT ![w] = i]
    BY <1>5 DEF Retry
  <2>2. i # NoInode
    BY DEF StoreAssumption
  <2>3. Named'
    BY <1>5, <2>1 DEF Retry, LockInv, Named, Opened
  <2> QED BY <1>5, <1>a, <2>1, <2>2, <2>3 DEF Retry
<1>6. CASE GiveUp(w)
  <2>1. Named'
    BY <1>6 DEF GiveUp, LockInv, Named
  <2> QED BY <1>6, <1>a, <2>1 DEF GiveUp
<1>7. CASE WritePid(w)
  <2>1. PICK i \in Inodes :
          /\ Opened(i) /\ lock_file' = i
          /\ pc' = [pc EXCEPT ![w] = "read"] /\ pc[w] = "held"
          /\ UNCHANGED <<fd, depth, acquired, stolen>>
    BY <1>7 DEF WritePid, Goto
  <2>2. \A v \in Writers : Holds(v)' = Holds(v)
    BY <2>1 DEF Holds
  <2>3. ASSUME NEW v \in Writers PROVE (Place(v) /\ Lonely(v))'
    <3>1. Place(v)'
      BY <1>s, SchemeFixed, <2>1, <2>2 DEF LockInv, Place, Busy
    <3>2. Lonely(v)'
      BY <1>s, SchemeFixed, <2>1, <2>2 DEF LockInv, Lonely, Busy
    <3> QED BY <3>1, <3>2
  <2>4. OneHolder' /\ Named'
    BY <2>1, <2>2 DEF LockInv, OneHolder, Named, Opened
  <2> QED BY <2>3, <2>4 DEF LockInv
<1>8. CASE Read(w)
  <2>1. pc[w] \in Busy /\ UNCHANGED locking
    BY <1>8 DEF Read, Busy
  <2> QED BY <1>8, <1>l, <1>m, <2>1 DEF Read, Busy
<1>9. CASE Modify(w)
  <2>1. pc[w] \in Busy /\ UNCHANGED locking
    BY <1>9 DEF Modify, Busy
  <2> QED BY <1>9, <1>l, <1>m, <2>1 DEF Modify, Busy
<1>10. CASE OpenTemp(w)
  BY <1>10, <1>m DEF OpenTemp, Busy
<1>11. CASE FillTemp(w)
  BY <1>11, <1>m DEF FillTemp, Busy
<1>12. CASE Rename(w)
  BY <1>12, <1>l DEF Rename, Busy
<1>13. CASE ReleaseNothing(w)
  <2>1. /\ pc[w] = "unlock" /\ ~acquired[scheme[w].process]
        /\ pc' = [pc EXCEPT ![w] = "idle"]
        /\ UNCHANGED <<lock_file, fd, depth, acquired, stolen>>
    BY <1>13 DEF ReleaseNothing, Goto, locking
  <2>2. \A v \in Writers : Holds(v)' = Holds(v)
    BY <2>1 DEF Holds
  <2>3. ~Alone(w)
    BY <1>w, <2>1 DEF Place, Lonely, Busy
  <2>4. ASSUME NEW v \in Writers PROVE (Place(v) /\ Lonely(v))'
    <3>1. Place(v)'
      BY <1>s, SchemeFixed, <2>1, <2>2 DEF LockInv, Place, Busy
    <3>2. Lonely(v)'
      BY <1>s, SchemeFixed, <2>1, <2>2, <2>3 DEF LockInv, Lonely, Busy
    <3> QED BY <3>1, <3>2
  <2>5. OneHolder' /\ Named'
    BY <2>1, <2>2 DEF LockInv, OneHolder, Named
  <2> QED BY <2>4, <2>5 DEF LockInv
<1>14. CASE Unlock(w)
  <2>1. /\ pc[w] = "unlock"
        /\ depth' = [depth EXCEPT ![w] = @ - 1]
        /\ fd' = [fd EXCEPT ![w] = IF depth[w] = 1 THEN NoInode ELSE @]
        /\ pc' = [pc EXCEPT ![w] = "unlink"]
        /\ UNCHANGED <<lock_file, acquired, stolen>>
    BY <1>14 DEF Unlock, Goto
  <2>2. /\ Holds(w) /\ Locks(w) /\ fd[w] # NoInode
        /\ Alone(w) => depth[w] = 1
    BY <1>w, <2>1 DEF Place, Lonely, Busy
  <2>3. /\ Holds(w)' <=> depth[w] # 1
        /\ \A v \in Writers \ {w} : Holds(v)' = Holds(v) /\ depth'[v] = depth[v]
    BY <2>1, <2>2 DEF Holds
  <2>4. ASSUME NEW v \in Writers PROVE (Place(v) /\ Lonely(v))'
    <3>1. Place(v)'
      BY <1>s, SchemeFixed, <2>1, <2>2, <2>3 DEF LockInv, Place, Busy
    <3>2. Lonely(v)'
      BY <1>s, SchemeFixed, <2>1, <2>2, <2>3 DEF LockInv, Lonely, Busy
    <3> QED BY <3>1, <3>2
  <2>5. OneHolder'
    BY <2>1, <2>2, <2>3 DEF LockInv, OneHolder
  <2>6. Named'
    BY <2>1 DEF LockInv, Named
  <2> QED BY <2>4, <2>5, <2>6 DEF LockInv
<1>15. CASE Unlink(w)
  <2>1. /\ pc[w] = "unlink" /\ lock_file' = NoInode
        /\ acquired' = [acquired EXCEPT ![scheme[w].process] = FALSE]
        /\ pc' = [pc EXCEPT ![w] = "idle"]
        /\ UNCHANGED <<fd, depth>>
    BY <1>15 DEF Unlink, Goto
  <2>2. \A v \in Writers : Holds(v)' = Holds(v)
    BY <2>1 DEF Holds
  <2>3. ASSUME NEW v \in Writers PROVE (Place(v) /\ Lonely(v))'
    <3>1. Place(v)'
      BY <1>s, SchemeFixed, <2>1, <2>2 DEF LockInv, Place, Busy
    <3>2. Lonely(v)'
      <4>1. CASE v = w
        BY <1>s, SchemeFixed, <2>1, <2>2, <4>1 DEF LockInv, Lonely, Busy
      <4>2. CASE v # w
        <5>1. Alone(v) => scheme[w].process # scheme[v].process
          BY <4>2 DEF Alone
        <5> QED BY <1>s, <1>p, SchemeFixed, <2>1, <2>2, <4>2, <5>1 DEF LockInv, Lonely, Busy
      <4> QED BY <4>1, <4>2
    <3> QED BY <3>1, <3>2
  <2>4. OneHolder'
    BY <2>1, <2>2 DEF LockInv, OneHolder
  <2>5. Named'
    BY <1>15 DEF Unlink, Named
  <2> QED BY <2>3, <2>4, <2>5 DEF LockInv
<1> QED BY <1>1, <1>2, <1>3, <1>4, <1>5, <1>6, <1>7, <1>8, <1>9, <1>10, <1>11, <1>12,
           <1>13, <1>14, <1>15 DEF Step

LEMMA LockCrash ==
  ASSUME StoreAssumption, TypeOK, LockInv, NEW p \in Processes, Crash(p)
  PROVE  LockInv'
<1> USE DEF TypeOK
<1>1. UNCHANGED <<scheme, lock_file, stolen>>
  BY DEF Crash
<1>2. ASSUME NEW w \in Writers, scheme[w].process = p
      PROVE  pc'[w] = "idle" /\ fd'[w] = NoInode /\ depth'[w] = 0
  BY <1>2 DEF Crash
<1>3. ASSUME NEW w \in Writers, scheme[w].process # p
      PROVE  /\ pc'[w] = pc[w] /\ fd'[w] = fd[w] /\ depth'[w] = depth[w]
             /\ acquired'[scheme[w].process] = acquired[scheme[w].process]
  BY <1>3 DEF Crash
<1>4. ASSUME NEW w \in Writers PROVE (Place(w) /\ Lonely(w))'
  <2>1. CASE scheme[w].process = p
    BY <1>1, <1>2, <2>1, SchemeFixed DEF Place, Lonely, Holds, Busy
  <2>2. CASE scheme[w].process # p
    <3>1. Place(w)'
      BY <1>1, <1>3, <2>2, SchemeFixed DEF LockInv, Place, Holds
    <3>2. Lonely(w)'
      BY <1>1, <1>3, <2>2, SchemeFixed DEF LockInv, Lonely, Holds
    <3> QED BY <3>1, <3>2
  <2> QED BY <2>1, <2>2
<1>5. \A w \in Writers : Holds(w)' => Holds(w) /\ fd'[w] = fd[w]
  BY <1>2, <1>3 DEF Holds
<1>6. OneHolder'
  BY <1>5 DEF LockInv, OneHolder
<1>7. \A w \in Writers : fd'[w] = fd[w] \/ fd'[w] = NoInode
  BY <1>2, <1>3
<1>8. Named'
  BY <1>1, <1>7 DEF LockInv, Named
<1> QED BY <1>4, <1>6, <1>8 DEF LockInv

-----------------------------------------------------------------------------
(* The file.                                                                *)

\* Every writer takes the lock, each with a lock object of its own.
Careful == AllLock /\ \A w \in Writers : Alone(w)

OneFixed == \A v, w \in Writers : Fixed(v) /\ Fixed(w) => v = w

Sound == (Careful /\ ~stolen) \/ OneFixed

\* What stands in the fixed temporary file is what its writer left there.
TempInv ==
    Sound =>
        /\ file.whole
        /\ \A w \in Writers :
            /\ handle[w] # "file"
            /\ handle[w] = "temp" => pc[w] = "fill" /\ Fixed(w)
            /\ pc[w] = "fill" /\ Fixed(w) => handle[w] = "temp" /\ temp = {Broken}
            /\ pc[w] = "rename" /\ Fixed(w) => temp = {Whole(read[w] \cup {w})}

\* What a writer at work has read is what the file still says.
UpdateInv ==
    Careful /\ ~stolen =>
        /\ reported \subseteq file.data
        /\ \A w \in Writers :
            pc[w] \in {"modify", "open", "fill", "rename"} => read[w] = file.data

FileInv == TempInv /\ UpdateInv

LEMMA OneBusy ==
  ASSUME LockInv, Careful, ~stolen, NEW v \in Writers, NEW w \in Writers,
         pc[v] \in Busy, pc[w] \in Busy
  PROVE  v = w
<1>1. Holds(v) /\ Holds(w)
  BY DEF LockInv, Place, Careful, AllLock
<1>2. fd[v] = lock_file /\ fd[w] = lock_file
  BY <1>1 DEF LockInv, Place, Named
<1> QED BY <1>1, <1>2 DEF LockInv, OneHolder

\* Two writers never use the fixed temporary file at once.
LEMMA OneTemp ==
  ASSUME LockInv, Sound, NEW v \in Writers, NEW w \in Writers, Fixed(v), Fixed(w),
         pc[v] \in Busy, pc[w] \in Busy
  PROVE  v = w
  BY OneBusy DEF Sound, OneFixed

LEMMA SoundFixed ==
  ASSUME UNCHANGED scheme, stolen => stolen'
  PROVE  /\ Sound' => Sound
         /\ (Careful /\ ~stolen)' => Careful /\ ~stolen
         /\ \A w \in Writers : Fixed(w)' = Fixed(w)
  BY DEF Sound, Careful, AllLock, Alone, Locks, OneFixed, Fixed

LEMMA InitFile == ASSUME Init PROVE FileInv
<1>1. file.whole /\ reported = {}
  BY DEF Init, Whole
<1> QED BY <1>1 DEF Init, FileInv, TempInv, UpdateInv

\* Steps that leave the data alone, and do not go on to use what is not there.
LEMMA DataStands ==
  ASSUME TypeOK, FileInv, UNCHANGED <<scheme, data>>, stolen => stolen',
         NEW w \in Writers, NEW place, Goto(w, place),
         \/ place \notin {"modify", "open", "fill", "rename"}
         \/ place = "open" /\ pc[w] = "modify",
         pc[w] # "fill"
  PROVE  FileInv'
<1>1. \A v \in Writers : pc'[v] = IF v = w THEN place ELSE pc[v]
  BY DEF TypeOK, Goto
<1>2. TempInv'
  BY <1>1, SoundFixed DEF FileInv, TempInv, data
<1>3. UpdateInv'
  BY <1>1, SoundFixed DEF FileInv, UpdateInv, data
<1> QED BY <1>2, <1>3 DEF FileInv

LEMMA FileStep ==
  ASSUME StoreAssumption, TypeOK, LockInv, FileInv, NEW w \in Writers,
         BeginUnlocked(w) \/ OpenLock(w) \/ Step(w)
  PROVE  FileInv'
<1> USE DEF TypeOK
<1>s. UNCHANGED scheme /\ (stolen => stolen')
  BY DEF BeginUnlocked, OpenLock, Step, Flock, Wait, Retry, GiveUp, WritePid, Read,
         Modify, OpenTemp, FillTemp, Rename, ReleaseNothing, Unlock, Unlink, locking
<1>f. /\ Sound' => Sound
      /\ (Careful /\ ~stolen)' => Careful /\ ~stolen
      /\ \A v \in Writers : Fixed(v)' = Fixed(v)
  BY <1>s, SoundFixed
<1>1. CASE BeginUnlocked(w)
  BY <1>1, <1>s, DataStands DEF BeginUnlocked, Begin
<1>2. CASE OpenLock(w)
  <2>1. UNCHANGED data /\ pc[w] = "idle" /\ (Goto(w, "held") \/ Goto(w, "try"))
    BY <1>2 DEF OpenLock, Begin
  <2> QED BY <1>s, <2>1, DataStands
<1>3. CASE Flock(w) \/ Wait(w) \/ Retry(w) \/ GiveUp(w) \/ WritePid(w)
  <2>1. /\ UNCHANGED data /\ pc[w] # "fill"
        /\ \E place \in {"held", "wait", "try", "idle", "read"} : Goto(w, place)
    BY <1>3 DEF Flock, Wait, Retry, GiveUp, WritePid
  <2> QED BY <1>s, <2>1, DataStands
<1>4. CASE ReleaseNothing(w) \/ Unlock(w) \/ Unlink(w)
  <2>1. /\ UNCHANGED data /\ pc[w] # "fill"
        /\ Goto(w, "idle") \/ Goto(w, "unlink")
    BY <1>4 DEF ReleaseNothing, Unlock, Unlink
  <2> QED BY <1>s, <2>1, DataStands
<1>5. CASE Modify(w)
  <2>1. /\ UNCHANGED data /\ pc[w] = "modify"
        /\ Goto(w, "open") \/ Goto(w, "idle") \/ Goto(w, "unlock")
    BY <1>5 DEF Modify, Leave
  <2> QED BY <1>s, <2>1, DataStands
<1>6. CASE Read(w)
  <2>1. CASE ~file.whole
    <3>1. UNCHANGED data /\ (Goto(w, "idle") \/ Goto(w, "unlock")) /\ pc[w] = "read"
      BY <1>6, <2>1 DEF Read, Leave, data
    <3> QED BY <1>s, <3>1, DataStands
  <2>2. CASE file.whole
    <3>1. /\ read' = [read EXCEPT ![w] = file.data]
          /\ pc' = [pc EXCEPT ![w] = "modify"] /\ pc[w] = "read"
          /\ UNCHANGED <<file, temp, handle, reported>>
      BY <1>6, <2>2 DEF Read, Goto
    <3>2. TempInv'
      BY <1>f, <3>1 DEF FileInv, TempInv
    <3>3. UpdateInv'
      BY <1>f, <3>1 DEF FileInv, UpdateInv
    <3> QED BY <3>2, <3>3 DEF FileInv
  <2> QED BY <2>1, <2>2
<1>7. CASE OpenTemp(w)
  <2>1. /\ pc[w] = "open" /\ pc' = [pc EXCEPT ![w] = "fill"]
        /\ UNCHANGED <<read, file, reported>>
        /\ Fixed(w) => temp' = {Broken} /\ handle' = [handle EXCEPT ![w] = "temp"]
        /\ ~Fixed(w) => UNCHANGED temp /\ handle' = [handle EXCEPT ![w] = "own"]
    BY <1>7 DEF OpenTemp, Goto
  <2>2. ASSUME Sound, Fixed(w), NEW v \in Writers \ {w}, Fixed(v)
        PROVE  pc[v] \notin Busy
    BY <2>1, <2>2, OneTemp DEF Busy
  <2>3. TempInv'
    <3>1. CASE Fixed(w)
      <4> SUFFICES ASSUME Sound, NEW v \in Writers
                   PROVE  /\ handle'[v] # "file"
                          /\ handle'[v] = "temp" => pc'[v] = "fill" /\ Fixed(v)
                          /\ pc'[v] = "fill" /\ Fixed(v) =>
                                 handle'[v] = "temp" /\ temp' = {Broken}
                          /\ pc'[v] = "rename" /\ Fixed(v) =>
                                 temp' = {Whole(read[v] \cup {v})}
        BY <1>f, <2>1 DEF FileInv, TempInv
      <4>1. CASE v = w
        BY <2>1, <3>1, <4>1 DEF FileInv, TempInv
      <4>2. CASE v # w
        <5>1. Fixed(v) => pc'[v] \notin {"fill", "rename"} /\ pc[v] \notin {"fill", "rename"}
          BY <2>1, <3>1, <4>2, <2>2 DEF Busy
        <5>2. handle'[v] = handle[v]
          BY <2>1, <3>1, <4>2
        <5> QED BY <5>1, <5>2, <4>2, <2>1 DEF FileInv, TempInv
      <4> QED BY <4>1, <4>2
    <3>2. CASE ~Fixed(w)
      BY <1>f, <2>1, <3>2 DEF FileInv, TempInv
    <3> QED BY <3>1, <3>2
  <2>4. UpdateInv'
    BY <1>f, <2>1 DEF FileInv, UpdateInv
  <2> QED BY <2>3, <2>4 DEF FileInv
<1>8. CASE FillTemp(w)
  <2> DEFINE text == Whole(read[w] \cup {w})
  <2>1. /\ pc[w] = "fill" /\ pc' = [pc EXCEPT ![w] = "rename"]
        /\ handle' = [handle EXCEPT ![w] = "none"]
        /\ UNCHANGED <<read, reported>>
    BY <1>8 DEF FillTemp, Goto
  <2>2. Sound => UNCHANGED file
    BY <1>8 DEF FillTemp, FileInv, TempInv
  <2>3. Sound /\ Fixed(w) => temp' = {text}
    <3> SUFFICES ASSUME Sound, Fixed(w) PROVE temp' = {text}
      OBVIOUS
    <3>1. handle[w] = "temp" /\ temp = {Broken}
      BY <2>1 DEF FileInv, TempInv
    <3>2. \E old \in temp : \E new \in Over(old, text) : temp' = {new}
      BY <1>8, <3>1 DEF FillTemp
    <3> QED BY <3>1, <3>2 DEF Over
  <2>4. Sound /\ ~Fixed(w) => UNCHANGED temp
    BY <1>8 DEF FillTemp, FileInv, TempInv
  <2>5. ASSUME Sound, Fixed(w), NEW v \in Writers \ {w}, Fixed(v)
        PROVE  pc[v] \notin Busy
    BY <2>1, <2>5, OneTemp DEF Busy
  <2>6. TempInv'
    <3> HIDE DEF text
    <3>1. CASE Fixed(w)
      BY <1>f, <2>1, <2>2, <2>3, <2>5, <3>1 DEF FileInv, TempInv, Busy, text
    <3>2. CASE ~Fixed(w)
      BY <1>f, <2>1, <2>2, <2>4, <3>2 DEF FileInv, TempInv
    <3> QED BY <3>1, <3>2
  <2>7. UpdateInv'
    BY <1>f, <2>1, <2>2 DEF FileInv, UpdateInv, Sound
  <2> QED BY <2>6, <2>7 DEF FileInv
<1>9. CASE Rename(w)
  <2> DEFINE text == Whole(read[w] \cup {w})
  <2>1. /\ pc[w] = "rename" /\ UNCHANGED <<read, stolen>>
        /\ \/ pc' = [pc EXCEPT ![w] = "idle"]
           \/ pc' = [pc EXCEPT ![w] = "unlock"]
    BY <1>9 DEF Rename, Leave, Goto, locking
  <2>2. text.whole /\ text.data = read[w] \cup {w}
    BY DEF Whole
  <2>3. ASSUME Sound
        PROVE  /\ file' = text /\ reported' = reported \cup {w}
               /\ temp' = IF Fixed(w) THEN {} ELSE temp
               /\ handle' = handle
    <3>1. CASE ~Fixed(w)
      <4>1. /\ Publish(text, FALSE) /\ UNCHANGED temp
            /\ reported' = reported \cup {w}
        BY <1>9, <3>1 DEF Rename
      <4>2. \A v \in Writers : handle'[v] = handle[v]
        BY <2>3, <4>1 DEF Publish, FileInv, TempInv
      <4>3. handle' = [v \in Writers |-> handle'[v]]
        BY <4>1 DEF Publish
      <4> QED BY <3>1, <4>1, <4>2, <4>3 DEF Publish
    <3>2. CASE Fixed(w)
      <4>1. temp = {text}
        BY <2>1, <2>3, <3>2 DEF FileInv, TempInv
      <4>2. /\ Publish(text, TRUE) /\ temp' = {}
            /\ reported' = reported \cup {w}
        BY <1>9, <3>2, <4>1 DEF Rename
      <4>3. ASSUME NEW v \in Writers PROVE handle[v] \notin {"file", "temp"}
        <5>1. handle[v] = "temp" => v = w
          BY <2>1, <2>3, <3>2, OneTemp DEF FileInv, TempInv, Busy
        <5> QED BY <2>1, <2>3, <5>1 DEF FileInv, TempInv
      <4>4. \A v \in Writers : handle'[v] = handle[v]
        BY <4>2, <4>3 DEF Publish
      <4>5. handle' = [v \in Writers |-> handle'[v]]
        BY <4>2 DEF Publish
      <4> QED BY <3>2, <4>2, <4>4, <4>5 DEF Publish
    <3> QED BY <3>1, <3>2
  <2>4. ASSUME Sound, Fixed(w), NEW v \in Writers \ {w}, Fixed(v)
        PROVE  pc[v] \notin Busy
    BY <2>1, <2>4, OneTemp DEF Busy
  <2>5. TempInv'
    <3> HIDE DEF text
    <3> SUFFICES ASSUME Sound PROVE TempInv'
      BY <1>f DEF TempInv
    <3>1. CASE Fixed(w)
      <4> SUFFICES ASSUME Sound, NEW v \in Writers
                   PROVE  /\ handle'[v] # "file"
                          /\ handle'[v] = "temp" => pc'[v] = "fill" /\ Fixed(v)
                          /\ pc'[v] = "fill" /\ Fixed(v) =>
                                 handle'[v] = "temp" /\ temp' = {Broken}
                          /\ pc'[v] = "rename" /\ Fixed(v) =>
                                 temp' = {Whole(read[v] \cup {v})}
        BY <1>f, <2>1, <2>2, <2>3 DEF FileInv, TempInv
      <4>1. CASE v = w
        BY <2>1, <2>3, <3>1, <4>1 DEF FileInv, TempInv
      <4>2. CASE v # w
        <5>1. Fixed(v) => pc'[v] \notin {"fill", "rename"} /\ pc[v] \notin {"fill", "rename"}
          BY <2>1, <2>2, <2>3, <3>1, <4>2, <2>4 DEF Busy
        <5>2. handle'[v] = handle[v]
          BY <2>1, <2>2, <2>3, <3>1, <4>2
        <5> QED BY <5>1, <5>2, <4>2, <2>1, <2>2, <2>3 DEF FileInv, TempInv
      <4> QED BY <4>1, <4>2
    <3>2. CASE ~Fixed(w)
      BY <1>f, <2>1, <2>2, <2>3, <3>2 DEF FileInv, TempInv
    <3> QED BY <3>1, <3>2
  <2>6. UpdateInv'
    <3> HIDE DEF text
    <3> SUFFICES ASSUME Careful, ~stolen PROVE UpdateInv'
      BY <1>f DEF UpdateInv
    <3>1. \A v \in Writers \ {w} : pc[v] \notin Busy
      BY <2>1, OneBusy DEF Busy
    <3>2. reported' \subseteq file'.data
      BY <2>1, <2>2, <2>3 DEF FileInv, UpdateInv, Sound
    <3>3. \A v \in Writers : pc'[v] \notin {"modify", "open", "fill", "rename"}
      BY <2>1, <3>1 DEF Busy
    <3> QED BY <3>2, <3>3 DEF UpdateInv
  <2> QED BY <2>5, <2>6 DEF FileInv
<1> QED BY <1>1, <1>2, <1>3, <1>4, <1>5, <1>6, <1>7, <1>8, <1>9 DEF Step

LEMMA FileCrash ==
  ASSUME TypeOK, FileInv, NEW p \in Processes, Crash(p)
  PROVE  FileInv'
<1>1. UNCHANGED <<scheme, stolen, read, file, temp, reported>>
  BY DEF Crash
<1>2. \A w \in Writers : \/ pc'[w] = "idle" /\ handle'[w] = "none"
                         \/ pc'[w] = pc[w] /\ handle'[w] = handle[w]
  <2> SUFFICES ASSUME NEW w \in Writers
               PROVE  \/ pc'[w] = "idle" /\ handle'[w] = "none"
                      \/ pc'[w] = pc[w] /\ handle'[w] = handle[w]
    OBVIOUS
  <2>1. CASE scheme[w].process = p
    BY <2>1 DEF Crash
  <2>2. CASE scheme[w].process # p
    BY <2>2 DEF Crash
  <2> QED BY <2>1, <2>2
<1>3. TempInv'
  BY <1>1, <1>2, SoundFixed DEF FileInv, TempInv
<1>4. UpdateInv'
  BY <1>1, <1>2, SoundFixed DEF FileInv, UpdateInv
<1> QED BY <1>3, <1>4 DEF FileInv

-----------------------------------------------------------------------------
IInv == TypeOK /\ LockInv /\ FileInv

LEMMA Preserved == ASSUME StoreAssumption, IInv, [Next]_vars PROVE IInv'
<1> USE DEF IInv
<1>1. ASSUME NEW w \in Writers, BeginUnlocked(w) \/ OpenLock(w) \/ Step(w) PROVE IInv'
  <2>1. Place(w)
    BY DEF LockInv
  <2> QED BY <1>1, <2>1, StepType, LockStep, FileStep
<1>2. ASSUME NEW p \in Processes, Crash(p) PROVE IInv'
  BY <1>2, CrashType, LockCrash, FileCrash
<1>3. CASE UNCHANGED vars
  <2>1. UNCHANGED <<scheme, pc, lock_file, fd, depth, acquired, tries, stolen, read, file,
                    temp, handle, reported, updates>>
    BY <1>3 DEF vars, locking, data
  <2>2. TypeOK'
    BY <2>1 DEF TypeOK
  <2>3. LockInv'
    BY <2>1 DEF LockInv, Place, Lonely, OneHolder, Named, Holds, Locks, Alone
  <2>4. FileInv'
    BY <2>1 DEF FileInv, TempInv, UpdateInv, Sound, Careful, OneFixed, AllLock, Alone,
                Locks, Fixed
  <2> QED BY <2>2, <2>3, <2>4
<1> QED BY <1>1, <1>2, <1>3 DEF Next

\* Every reachable state of the file, its lock file and its writers satisfies the
\* invariant the theorems below follow from.
THEOREM Invariant == Spec => []IInv
<1>1. Init => IInv
  BY StoreAssumption, InitType, InitLock, InitFile DEF IInv
<1>2. IInv /\ [Next]_vars => IInv'
  BY StoreAssumption, Preserved
<1> QED BY <1>1, <1>2, PTL DEF Spec

\* The variables of the store keep their types.
THEOREM Typed == Spec => []TypeOK
<1>1. IInv => TypeOK
  BY DEF IInv
<1> QED BY <1>1, Invariant, PTL

\* LockFile excludes: until release() unlinks a lock file that another process has
\* open, at most one thread holds it.
THEOREM Exclusion == Spec => []ExclusionUnlessStolen
<1>1. IInv => ExclusionUnlessStolen
  <2> SUFFICES ASSUME IInv, ~stolen PROVE Cardinality(Holders) <= 1
    BY DEF ExclusionUnlessStolen
  <2>1. \A v, w \in Holders : v = w
    BY DEF IInv, LockInv, Place, OneHolder, Named, Holders
  <2>2. CASE Holders = {}
    BY <2>2, FS_EmptySet
  <2>3. CASE Holders # {}
    <3>1. PICK w : Holders = {w}
      BY <2>1, <2>3
    <3> QED BY <3>1, FS_Singleton
  <2> QED BY <2>2, <2>3
<1> QED BY <1>1, Invariant, PTL

\* release(), and the finally around it, leave no lock behind in a thread with a lock
\* object of its own.
THEOREM NotLeaked == Spec => []LockNotLeaked
<1>1. IInv => LockNotLeaked
  <2> SUFFICES ASSUME IInv, NEW w \in Writers, pc[w] = "idle", Alone(w)
               PROVE  ~Holds(w)
    BY DEF LockNotLeaked
  <2>1. Lonely(w)
    BY DEF IInv, LockInv
  <2> QED BY <2>1 DEF Lonely, Busy
<1> QED BY <1>1, Invariant, PTL

\* A lock file that a killed process left behind refuses nobody.
THEOREM Refused == Spec => []RefusedByLivingHolder
<1>1. IInv => RefusedByLivingHolder
  <2> SUFFICES ASSUME IInv, NEW w \in Writers, ~Free(w)
               PROVE  \E v \in Holders : fd[v] = fd[w] /\ (pc[v] # "idle" \/ ~Alone(v))
    BY DEF RefusedByLivingHolder
  <2>1. PICK v \in Writers : Holds(v) /\ fd[v] = fd[w]
    BY DEF Free
  <2>2. pc[v] # "idle" \/ ~Alone(v)
    BY <2>1 DEF IInv, LockInv, Lonely, Busy
  <2> QED BY <2>1, <2>2 DEF Holders
<1> QED BY <1>1, Invariant, PTL

\* JsonStore.write: whatever dies where, no reader sees an empty or a mixed file, if
\* the writers exclude each other or one of them uses the fixed temporary name.
THEOREM StaysWhole == Spec => []FileStaysWhole
<1>1. IInv => FileStaysWhole
  BY DEF IInv, FileInv, TempInv, Sound, Careful, OneFixed, FileStaysWhole
<1> QED BY <1>1, Invariant, PTL

\* IssueLock.locked: an update reported as written is not lost to another one.
THEOREM Stay == Spec => []UpdatesStay
<1>1. IInv => UpdatesStay
  BY DEF IInv, FileInv, UpdateInv, Careful, UpdatesStay
<1> QED BY <1>1, Invariant, PTL
=============================================================================
