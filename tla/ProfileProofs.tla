----------------------------- MODULE ProfileProofs -----------------------------
(* Proofs about Profile: for every number of processes, profiles and changes,   *)
(* and whatever crashes, two processes run one profile only if somebody has     *)
(* deleted a lock file; and the types of the files, the locks and the database   *)
(* threads, which ProfileHistoryProofs goes on from.                            *)
EXTENDS Profile, TLAPS

-----------------------------------------------------------------------------
(* The inductive invariant *)

Places == {"login", "loggedOut", "running", "relocking", "password", "renaming", "renamingDb",
           "removing", "removingDb", "aborted"}
Renaming == {"renaming", "renamingDb"}

\* The types that the steps rely on.
TypeInv ==
    /\ LockTypeOK
    /\ tox \in [Names -> ToxFile \cup {Absent}]
    /\ prof \in [Procs -> ProfileObject \cup {NoProfile}]
    /\ at \in [Procs -> Places]
    /\ newName \in [Procs -> Names \cup {NoName}]
    /\ \A p \in Procs : AtWork(p) => prof[p] \in ProfileObject

\* Every process finds its lock file, as long as nobody deletes one.
LocksSound == \A p \in Procs : HasLock(p) => lockFile[curLock[p]] = p

\* Which lock a process holds depends on what its GUI thread is at.
PlacesInv ==
    \A p \in Procs :
      /\ at[p] \in {"running", "password"} => curLock[p] = prof[p].name
      /\ at[p] \in Renaming => curLock[p] = newName[p] /\ newName[p] \in Names
      /\ at[p] \notin Renaming => newName[p] = NoName
      /\ at[p] = "relocking" => lost = TRUE

IInv == TypeInv /\ PlacesInv /\ (lost = TRUE \/ LocksSound)
-----------------------------------------------------------------------------
(* The operations of ProfileLocker *)

\* Whoever gets a lock has no other, and takes nobody's.
LEMMA LockTaken ==
  ASSUME LockTypeOK, NEW p \in Procs, NEW n \in Names, Lock(p, n)
  PROVE  /\ LockTypeOK'
         /\ curLock'[p] = n
         /\ \A q \in Procs \ {p} : curLock'[q] = curLock[q]
         /\ LocksSound => LocksSound'
<1>1. CASE curLock[p] = n /\ UNCHANGED lockVars
  BY <1>1 DEF lockVars, LockTypeOK, LocksSound, HasLock
<1>2. CASE /\ curLock[p] # n /\ lockFile[n] = Nobody
           /\ lockFile' = [Released(p) EXCEPT ![n] = p]
           /\ curLock' = [curLock EXCEPT ![p] = n]
  <2>1. LockTypeOK'
    BY <1>2 DEF LockTypeOK, Released
  <2>2. curLock'[p] = n /\ \A q \in Procs \ {p} : curLock'[q] = curLock[q]
    BY <1>2 DEF LockTypeOK
  <2>3. ASSUME LocksSound, NEW q \in Procs, HasLock(q)'
        PROVE  lockFile'[curLock'[q]] = q
    <3>1. CASE q = p
      BY <1>2, <2>2, <3>1 DEF LockTypeOK, Released
    <3>2. CASE q # p
      <4>1. curLock'[q] = curLock[q] /\ curLock[q] \in Names /\ lockFile[curLock[q]] = q
        BY <2>2, <2>3, <3>2 DEF LockTypeOK, LocksSound, HasLock
      <4>2. curLock[q] # n /\ curLock[q] # curLock[p]
        BY <1>2, <2>3, <3>2, <4>1, LockerAssumption DEF LockTypeOK, LocksSound, HasLock
      <4> QED BY <1>2, <4>1, <4>2 DEF LockTypeOK, Released
    <3> QED BY <3>1, <3>2
  <2> QED BY <2>1, <2>2, <2>3 DEF LocksSound
<1> QED BY <1>1, <1>2 DEF Lock

\* Releasing a lock, also in a crash, leaves the others theirs.
LEMMA LockReleased ==
  ASSUME LockTypeOK, NEW p \in Procs, Unlock(p) \/ Abandon(p)
  PROVE  /\ LockTypeOK'
         /\ \A q \in Procs \ {p} : curLock'[q] = curLock[q]
         /\ LocksSound => LocksSound'
<1>1. LockTypeOK' /\ curLock' = [curLock EXCEPT ![p] = NoName]
  BY DEF LockTypeOK, Unlock, Abandon, Released
<1>2. ASSUME LocksSound, NEW q \in Procs, HasLock(q)'
      PROVE  lockFile'[curLock'[q]] = q
  <2>1. q # p /\ curLock'[q] = curLock[q] /\ curLock[q] \in Names /\ lockFile[curLock[q]] = q
    BY <1>1, <1>2 DEF LockTypeOK, LocksSound, HasLock
  <2>2. curLock[q] # curLock[p]
    BY <1>2, <2>1, LockerAssumption DEF LockTypeOK, LocksSound, HasLock
  <2> QED BY <2>1, <2>2 DEF Unlock, Abandon, Released, LockTypeOK
<1> QED BY <1>1, <1>2 DEF LocksSound, LockTypeOK
-----------------------------------------------------------------------------
(* The invariant is inductive *)

LEMMA InitInv == Init => IInv
<1> SUFFICES ASSUME Init PROVE IInv
  OBVIOUS
<1>1. LockTypeOK /\ LocksSound
  BY DEF Init, LockInit, LockTypeOK, LocksSound, HasLock
<1>2. tox \in [Names -> ToxFile \cup {Absent}]
  <2>1. CASE NoProfiles
    BY <2>1 DEF NoProfiles
  <2>2. CASE \E n \in Names, i \in Ids, q \in Passwords : \E s \in {i, StaticSalt} : OldProfile(n, i, q, s)
    <3>1. PICK n \in Names, i \in Ids, q \in Passwords : \E s \in {i, StaticSalt} : OldProfile(n, i, q, s)
      BY <2>2
    <3>2. tox = [m \in Names |-> IF m = n THEN [id |-> i, password |-> q] ELSE Absent]
      BY <3>1 DEF OldProfile
    <3> QED BY <3>2 DEF ToxFile
  <2> QED BY <2>1, <2>2 DEF Init
<1>3. /\ prof = [p \in Procs |-> NoProfile]
      /\ at = [p \in Procs |-> "login"]
      /\ newName = [p \in Procs |-> NoName]
  BY DEF Init
<1>4. /\ prof \in [Procs -> ProfileObject \cup {NoProfile}]
      /\ at \in [Procs -> Places]
      /\ newName \in [Procs -> Names \cup {NoName}]
  BY <1>3 DEF Places
<1>5. \A p \in Procs : at[p] = "login" /\ newName[p] = NoName
  BY <1>3
<1>6. PlacesInv /\ \A p \in Procs : AtWork(p) => prof[p] \in ProfileObject
  BY <1>5 DEF PlacesInv, Renaming, AtWork, AtLogin
<1> QED BY <1>1, <1>2, <1>4, <1>6 DEF IInv, TypeInv

\* What has to be shown of a step of process p: the others' state stays, and p's own lock
\* fits the place it has come to.
PlaceOK(p) ==
    /\ AtWork(p) => prof[p] \in ProfileObject
    /\ at[p] \in {"running", "password"} => curLock[p] = prof[p].name
    /\ at[p] \in Renaming => curLock[p] = newName[p] /\ newName[p] \in Names
    /\ at[p] \notin Renaming => newName[p] = NoName
    /\ at[p] = "relocking" => lost = TRUE

LEMMA ProcessStep ==
  ASSUME IInv, NEW p \in Procs,
         LockTypeOK', LocksSound => LocksSound',
         tox' \in [Names -> ToxFile \cup {Absent}],
         prof' \in [Procs -> ProfileObject \cup {NoProfile}],
         at' \in [Procs -> Places],
         newName' \in [Procs -> Names \cup {NoName}],
         lost' = lost,
         \A q \in Procs \ {p} : /\ curLock'[q] = curLock[q] /\ prof'[q] = prof[q]
                                /\ at'[q] = at[q] /\ newName'[q] = newName[q],
         PlaceOK(p)'
  PROVE  IInv'
<1>1. ASSUME NEW q \in Procs PROVE PlaceOK(q)'
  <2>1. CASE q = p
    BY <2>1
  <2>2. CASE q # p
    BY <2>2 DEF IInv, TypeInv, PlacesInv, PlaceOK, AtWork, AtLogin
  <2> QED BY <2>1, <2>2
<1>2. PlacesInv' /\ \A q \in Procs : (AtWork(q) => prof[q] \in ProfileObject)'
  BY <1>1 DEF PlacesInv, PlaceOK
<1> QED BY <1>2 DEF IInv, TypeInv

\* A step of p that leaves the locks alone.
LEMMA StepWithLocks ==
  ASSUME IInv, NEW p \in Procs, UNCHANGED <<lockVars, lost>>,
         tox' \in [Names -> ToxFile \cup {Absent}],
         prof' \in [Procs -> ProfileObject \cup {NoProfile}],
         at' \in [Procs -> Places],
         newName' \in [Procs -> Names \cup {NoName}],
         \A q \in Procs \ {p} : prof'[q] = prof[q] /\ at'[q] = at[q] /\ newName'[q] = newName[q],
         PlaceOK(p)'
  PROVE  IInv'
<1>1. LockTypeOK' /\ (LocksSound => LocksSound')
  BY DEF IInv, TypeInv, LockTypeOK, LocksSound, HasLock, lockVars
<1>2. curLock' = curLock /\ lost' = lost
  BY DEF lockVars
<1> QED BY <1>1, <1>2, ProcessStep

\* A step that changes nothing the invariant speaks of.
LEMMA StepElsewhere ==
  ASSUME IInv, UNCHANGED <<lockVars, tox, prof, at, newName, lost>>
  PROVE  IInv'
BY DEF IInv, TypeInv, PlacesInv, LockTypeOK, LocksSound, HasLock, lockVars, AtWork, AtLogin
-----------------------------------------------------------------------------
(* One lemma for each kind of step *)

LEMMA TakingInv ==
  ASSUME IInv, NEW p \in Procs, NEW n \in Names,
         \/ LoadProfile(p, n)
         \/ \E i \in Ids, q \in Passwords \cup {NoPassword} : CreateProfile(p, n, i, q)
  PROVE  IInv'
<1> USE DEF IInv, TypeInv
<1>1. Lock(p, n) /\ lost' = lost /\ newName' = newName
  BY DEF LoadProfile, CreateProfile
<1>2. /\ LockTypeOK' /\ (LocksSound => LocksSound') /\ curLock'[p] = n
      /\ \A q \in Procs \ {p} : curLock'[q] = curLock[q]
  BY <1>1, LockTaken
<1>3. tox' \in [Names -> ToxFile \cup {Absent}]
  BY DEF LoadProfile, CreateProfile, ToxFile
<1>4. PICK i \in Ids, q \in Passwords \cup {NoPassword} :
        prof' = [prof EXCEPT ![p] = NewProfile(n, i, q)]
  <2>1. CASE LoadProfile(p, n)
    <3>1. tox[n] \in ToxFile /\ prof' = [prof EXCEPT ![p] = NewProfile(n, tox[n].id, tox[n].password)]
      BY <2>1 DEF LoadProfile
    <3> QED BY <3>1 DEF ToxFile
  <2> QED BY <2>1 DEF CreateProfile
<1>5. at' = [at EXCEPT ![p] = "running"]
  BY DEF LoadProfile, CreateProfile, Goto
<1>6. NewProfile(n, i, q) \in ProfileObject /\ NewProfile(n, i, q).name = n
  BY DEF NewProfile, ProfileObject
<1>7. /\ prof' \in [Procs -> ProfileObject \cup {NoProfile}]
      /\ prof'[p] \in ProfileObject /\ prof'[p].name = n
      /\ \A r \in Procs \ {p} : prof'[r] = prof[r]
  BY <1>4, <1>6
<1>8. /\ at' \in [Procs -> Places] /\ at'[p] = "running"
      /\ \A r \in Procs \ {p} : at'[r] = at[r]
  BY <1>5 DEF Places
<1>9. newName'[p] = NoName
  BY <1>1 DEF LoadProfile, CreateProfile, AtLogin, PlacesInv, Renaming
<1>10. PlaceOK(p)'
  BY <1>2, <1>7, <1>8, <1>9 DEF PlaceOK, Renaming
<1> QED BY <1>1, <1>2, <1>3, <1>7, <1>8, <1>10, ProcessStep

\* A process that leaves its profile, or begins to remove it, gives up its lock.
LEMMA LeavingInv ==
  ASSUME IInv, NEW p \in Procs, Remove(p) \/ Logout(p) \/ Crash(p) \/ LockFileLost(p)
  PROVE  IInv'
<1> USE DEF IInv, TypeInv
<1>1. /\ Unlock(p) \/ Abandon(p)
      /\ lost' = lost
  BY DEF Remove, Logout, Crash, LockFileLost, history
<1>2. /\ LockTypeOK' /\ (LocksSound => LocksSound')
      /\ \A q \in Procs \ {p} : curLock'[q] = curLock[q]
  BY <1>1, LockReleased
<1>3. tox' \in [Names -> ToxFile \cup {Absent}]
  BY DEF Remove, Logout, Crash, LockFileLost, Saved, GuiFree, AtWork, AtLogin, ToxFile, ProfileObject
<1>4. /\ prof' \in [Procs -> ProfileObject \cup {NoProfile}]
      /\ \A q \in Procs \ {p} : prof'[q] = prof[q]
  BY DEF Remove, Logout, Crash, LockFileLost
<1>5. /\ newName' \in [Procs -> Names \cup {NoName}] /\ newName'[p] = NoName
      /\ \A q \in Procs \ {p} : newName'[q] = newName[q]
  BY DEF Remove, Logout, Crash, LockFileLost, GuiFree, PlacesInv, Renaming
<1>6. /\ at' \in [Procs -> Places]
      /\ \A q \in Procs \ {p} : at'[q] = at[q]
  BY DEF Remove, Logout, Crash, LockFileLost, Goto, Places
<1>7. at'[p] \in {"login", "loggedOut"} \/ (at'[p] \in {"removing", "relocking"} /\ prof'[p] \in ProfileObject)
  BY DEF Remove, Logout, Crash, LockFileLost, Goto, GuiFree, AtWork, AtLogin
<1>8. at'[p] = "relocking" => lost = TRUE
  <2>1. CASE LockFileLost(p)
    <3>1. ~LocksSound
      BY <2>1, LockerAssumption DEF LockFileLost, LockFileExists, LocksSound
    <3> QED BY <3>1
  <2> QED BY <2>1 DEF Remove, Logout, Crash, Goto
<1>9. PlaceOK(p)'
  BY <1>1, <1>5, <1>7, <1>8 DEF PlaceOK, Renaming, AtWork, AtLogin
<1> QED BY <1>1, <1>2, <1>3, <1>4, <1>5, <1>6, <1>9, ProcessStep

LEMMA RelockInv ==
  ASSUME IInv, NEW p \in Procs, AssertLock(p)
  PROVE  IInv'
<1> USE DEF IInv, TypeInv
<1>1. /\ lost' = lost /\ tox' = tox /\ newName' = newName
      /\ at[p] = "relocking" /\ newName[p] = NoName /\ prof[p] \in ProfileObject
  BY DEF AssertLock, PlacesInv, Renaming, AtWork, AtLogin
<1>2. CASE Lock(p, prof[p].name) /\ Goto(p, "running") /\ prof' = prof
  <2>1. prof[p].name \in Names
    BY <1>1 DEF ProfileObject
  <2>2. /\ LockTypeOK' /\ (LocksSound => LocksSound') /\ curLock'[p] = prof[p].name
        /\ \A q \in Procs \ {p} : curLock'[q] = curLock[q]
    BY <1>2, <2>1, LockTaken
  <2>3. /\ at' \in [Procs -> Places] /\ at'[p] = "running"
        /\ \A q \in Procs \ {p} : at'[q] = at[q]
    BY <1>2 DEF Goto, Places
  <2>4. PlaceOK(p)'
    BY <1>1, <1>2, <2>2, <2>3 DEF PlaceOK, Renaming
  <2> QED BY <1>1, <1>2, <2>2, <2>3, <2>4, ProcessStep
<1>3. CASE Goto(p, "aborted") /\ prof' = [prof EXCEPT ![p] = NoProfile] /\ UNCHANGED lockVars
  <2>1. /\ at' \in [Procs -> Places] /\ at'[p] = "aborted"
        /\ \A q \in Procs \ {p} : at'[q] = at[q] /\ prof'[q] = prof[q]
        /\ prof' \in [Procs -> ProfileObject \cup {NoProfile}]
    BY <1>3 DEF Goto, Places
  <2>2. PlaceOK(p)'
    BY <1>1, <2>1 DEF PlaceOK, Renaming, AtWork, AtLogin
  <2> QED BY <1>1, <1>3, <2>1, <2>2, StepWithLocks
<1> QED BY <1>2, <1>3 DEF AssertLock

LEMMA PasswordInv ==
  ASSUME IInv, NEW p \in Procs, NEW q \in Passwords \cup {NoPassword}, SetPassword(p, q)
  PROVE  IInv'
<1> USE DEF IInv, TypeInv
<1>1. prof[p] \in ProfileObject /\ curLock[p] = prof[p].name /\ newName[p] = NoName
  BY DEF SetPassword, GuiFree, AtWork, AtLogin, PlacesInv, Renaming
<1>2. UNCHANGED <<lockVars, newName, lost>>
  BY DEF SetPassword, history
<1>3. prof' = [prof EXCEPT ![p].password = q]
  BY DEF SetPassword
<1>4. /\ prof'[p] \in ProfileObject /\ prof'[p].name = prof[p].name
      /\ prof' \in [Procs -> ProfileObject \cup {NoProfile}]
      /\ \A r \in Procs \ {p} : prof'[r] = prof[r]
  BY <1>1, <1>3 DEF ProfileObject
<1>5. tox' \in [Names -> ToxFile \cup {Absent}]
  BY <1>1 DEF SetPassword, Saved, ToxFile, ProfileObject
<1>6. /\ at' \in [Procs -> Places] /\ at'[p] = "password"
      /\ \A r \in Procs \ {p} : at'[r] = at[r]
  BY DEF SetPassword, Goto, Places
<1>7. PlaceOK(p)'
  BY <1>1, <1>2, <1>4, <1>6 DEF PlaceOK, Renaming, lockVars
<1> QED BY <1>2, <1>4, <1>5, <1>6, <1>7, StepWithLocks

LEMMA RenameInv ==
  ASSUME IInv, NEW p \in Procs, NEW n \in Names, Rename(p, n)
  PROVE  IInv'
<1> USE DEF IInv, TypeInv
<1>1. Lock(p, n) /\ lost' = lost /\ tox' = tox /\ prof' = prof /\ prof[p] \in ProfileObject
  BY DEF Rename, GuiFree, AtWork, AtLogin
<1>2. /\ LockTypeOK' /\ (LocksSound => LocksSound') /\ curLock'[p] = n
      /\ \A q \in Procs \ {p} : curLock'[q] = curLock[q]
  BY <1>1, LockTaken
<1>3. /\ at' \in [Procs -> Places] /\ at'[p] = "renaming"
      /\ newName' \in [Procs -> Names \cup {NoName}] /\ newName'[p] = n
      /\ \A q \in Procs \ {p} : at'[q] = at[q] /\ newName'[q] = newName[q]
  BY DEF Rename, Goto, Places
<1>4. PlaceOK(p)'
  BY <1>1, <1>2, <1>3 DEF PlaceOK, Renaming
<1> QED BY <1>1, <1>2, <1>3, <1>4, ProcessStep

LEMMA RenameDatabaseInv ==
  ASSUME IInv, NEW p \in Procs, RenameDatabase(p)
  PROVE  IInv'
<1> USE DEF IInv, TypeInv
<1>1. /\ UNCHANGED <<lockVars, tox, lost>>
      /\ prof[p] \in ProfileObject /\ curLock[p] = newName[p] /\ newName[p] \in Names
  BY DEF RenameDatabase, AtWork, AtLogin, PlacesInv, Renaming
<1>2. prof' = [prof EXCEPT ![p].name = newName[p], ![p].renamed = TRUE]
  BY DEF RenameDatabase
<1>3. /\ prof'[p] \in ProfileObject /\ prof'[p].name = newName[p]
      /\ prof' \in [Procs -> ProfileObject \cup {NoProfile}]
      /\ \A q \in Procs \ {p} : prof'[q] = prof[q]
  BY <1>1, <1>2 DEF ProfileObject
<1>4. /\ at' \in [Procs -> Places] /\ at'[p] = "running"
      /\ newName' \in [Procs -> Names \cup {NoName}] /\ newName'[p] = NoName
      /\ \A q \in Procs \ {p} : at'[q] = at[q] /\ newName'[q] = newName[q]
  BY DEF RenameDatabase, Goto, Places
<1>5. PlaceOK(p)'
  BY <1>1, <1>3, <1>4 DEF PlaceOK, Renaming, lockVars
<1> QED BY <1>1, <1>3, <1>4, <1>5, StepWithLocks

\* The other steps of the GUI thread: only its place, or the files, or both.
LEMMA PlaceStepInv ==
  ASSUME IInv, NEW p \in Procs,
         \/ ChangeDbPassword(p) \/ RenameTox(p) \/ RemoveTox(p) \/ RemoveDatabase(p)
         \/ SaveAfterLogout(p) \/ Restart(p)
  PROVE  IInv'
<1> USE DEF IInv, TypeInv
<1>1. UNCHANGED <<lockVars, newName, lost>>
  BY DEF ChangeDbPassword, RenameTox, RemoveTox, RemoveDatabase, SaveAfterLogout, Restart, history
<1>2. /\ at' \in [Procs -> Places]
      /\ \A q \in Procs \ {p} : at'[q] = at[q]
  BY DEF ChangeDbPassword, RenameTox, RemoveTox, RemoveDatabase, SaveAfterLogout, Restart, Goto, Places
<1>3. /\ prof' \in [Procs -> ProfileObject \cup {NoProfile}]
      /\ \A q \in Procs \ {p} : prof'[q] = prof[q]
  BY DEF ChangeDbPassword, RenameTox, RemoveTox, RemoveDatabase, SaveAfterLogout, Restart
<1>4. tox' \in [Names -> ToxFile \cup {Absent}]
  <2>1. CASE RenameTox(p)
    <3>1. prof[p].name \in Names /\ newName[p] \in Names
      BY <2>1 DEF RenameTox, AtWork, AtLogin, ProfileObject, PlacesInv, Renaming
    <3> QED BY <2>1, <3>1 DEF RenameTox
  <2>2. CASE RemoveTox(p)
    BY <2>2 DEF RemoveTox
  <2> QED BY <2>1, <2>2 DEF ChangeDbPassword, RemoveDatabase, SaveAfterLogout, Restart
<1>5. \/ at[p] = "password" /\ at'[p] = "running" /\ prof'[p] = prof[p]
      \/ at[p] = "renaming" /\ at'[p] = "renamingDb" /\ prof'[p] = prof[p]
      \/ at[p] = "removing" /\ at'[p] = "removingDb" /\ prof'[p] = prof[p]
      \/ at[p] \notin Renaming /\ at'[p] \in {"loggedOut", "aborted", "login"}
  BY DEF ChangeDbPassword, RenameTox, RemoveTox, RemoveDatabase, SaveAfterLogout, Restart, Goto, Renaming
<1>6. PlaceOK(p)
  BY DEF PlacesInv, PlaceOK
<1>7. PlaceOK(p)'
  BY <1>1, <1>5, <1>6 DEF PlaceOK, Renaming, AtWork, AtLogin, lockVars
<1> QED BY <1>1, <1>2, <1>3, <1>4, <1>7, StepWithLocks

\* The worker thread's steps and the messages change only the database.
LEMMA DatabaseInv ==
  ASSUME IInv, NEW p \in Procs,
         OpenFirstTime(p) \/ DatabaseStep(p) \/ DatabaseFails(p) \/ AddNewMessage(p)
  PROVE  IInv'
<1>1. UNCHANGED <<lockVars, tox, prof, at, newName, lost>>
  BY DEF OpenFirstTime, DatabaseStep, DatabaseFails, AddNewMessage, history
<1> QED BY <1>1, StepElsewhere

LEMMA SaveInv ==
  ASSUME IInv, NEW p \in Procs, SaveToxSave(p)
  PROVE  IInv'
<1> USE DEF IInv, TypeInv
<1>1. UNCHANGED <<lockVars, prof, at, newName, lost>>
  BY DEF SaveToxSave, history
<1>2. tox' \in [Names -> ToxFile \cup {Absent}]
  BY DEF SaveToxSave, Saved, GuiFree, AtWork, AtLogin, ToxFile, ProfileObject
<1> QED BY <1>1, <1>2 DEF PlacesInv, LockTypeOK, LocksSound, HasLock, lockVars, AtWork, AtLogin

\* Somebody deletes a lock file: from now on lost excuses everything.
LEMMA DeletedInv ==
  ASSUME IInv, NEW n \in Names, LockFileDeleted(n)
  PROVE  IInv'
<1> USE DEF IInv, TypeInv
<1>1. lost' = TRUE /\ UNCHANGED <<curLock, tox, prof, at, newName>>
  BY DEF LockFileDeleted, LoseLockFile
<1>2. LockTypeOK'
  BY DEF LockFileDeleted, LoseLockFile, LockTypeOK
<1> QED BY <1>1, <1>2 DEF PlacesInv, AtWork, AtLogin

LEMMA NextInv == IInv /\ [Next]_vars => IInv'
<1> SUFFICES ASSUME IInv, [Next]_vars PROVE IInv'
  OBVIOUS
<1>1. ASSUME NEW p \in Procs, NEW n \in Names,
             \/ LoadProfile(p, n)
             \/ \E i \in Ids, q \in Passwords \cup {NoPassword} : CreateProfile(p, n, i, q)
      PROVE  IInv'
  BY <1>1, TakingInv
<1>2. ASSUME NEW p \in Procs, ProfileStep(p)
      PROVE  IInv'
  <2>1. CASE OpenFirstTime(p) \/ DatabaseStep(p) \/ DatabaseFails(p) \/ AddNewMessage(p)
    BY <2>1, DatabaseInv
  <2>2. CASE SaveToxSave(p)
    BY <2>2, SaveInv
  <2>3. CASE AssertLock(p)
    BY <2>3, RelockInv
  <2>4. CASE \E q \in Passwords \cup {NoPassword} : SetPassword(p, q)
    BY <2>4, PasswordInv
  <2>5. CASE \E n \in Names : Rename(p, n)
    BY <2>5, RenameInv
  <2>6. CASE RenameDatabase(p)
    BY <2>6, RenameDatabaseInv
  <2>7. CASE Remove(p) \/ Logout(p) \/ LockFileLost(p)
    BY <2>7, LeavingInv
  <2>8. CASE ChangeDbPassword(p) \/ RenameTox(p) \/ RemoveTox(p) \/ RemoveDatabase(p)
    BY <2>8, PlaceStepInv
  <2> QED BY <1>2, <2>1, <2>2, <2>3, <2>4, <2>5, <2>6, <2>7, <2>8 DEF ProfileStep
<1>3. ASSUME NEW p \in Procs, SaveAfterLogout(p) \/ Restart(p)
      PROVE  IInv'
  BY <1>3, PlaceStepInv
<1>4. ASSUME NEW p \in Procs, Crash(p)
      PROVE  IInv'
  BY <1>4, LeavingInv
<1>5. ASSUME NEW n \in Names, LockFileDeleted(n)
      PROVE  IInv'
  BY <1>5, DeletedInv
<1>6. CASE UNCHANGED vars
  BY <1>6, StepElsewhere DEF vars, history
<1>7. CASE Next
  BY <1>1, <1>2, <1>3, <1>4, <1>5, <1>7 DEF Next
<1> QED BY <1>6, <1>7

THEOREM IInvHolds == Spec => []IInv
BY InitInv, NextInv, PTL DEF Spec
-----------------------------------------------------------------------------
(* The theorems *)

\* ProfileLocker: "multiple instances can not use the same profile".
LEMMA ExclusiveUseFromIInv == IInv => ExclusiveUse
<1> SUFFICES ASSUME IInv, lost # TRUE, NEW p \in Procs, NEW q \in Procs,
                    at[p] \in {"running", "password"}, at[q] \in {"running", "password"}, p # q
             PROVE  prof[p].name # prof[q].name
  BY DEF ExclusiveUse
<1>1. /\ curLock[p] = prof[p].name /\ curLock[q] = prof[q].name
      /\ prof[p].name \in Names /\ prof[q].name \in Names
  BY DEF IInv, TypeInv, PlacesInv, AtWork, AtLogin, ProfileObject
<1>2. lockFile[curLock[p]] = p /\ lockFile[curLock[q]] = q
  BY <1>1, LockerAssumption DEF IInv, LocksSound, HasLock
<1> QED BY <1>1, <1>2

\* For any processes, profiles and identities, whatever is renamed, removed or crashes in
\* between: as long as nobody deletes a lock file no two processes run one profile.
THEOREM ExclusiveUseHolds == Spec => []ExclusiveUse
BY IInvHolds, ExclusiveUseFromIInv, PTL

\* A lock is free only if no sound process holds it.
LEMMA TakenFree ==
  ASSUME IInv, lost # TRUE, NEW p \in Procs, NEW q \in Procs, p # q, NEW n \in Names,
         Lock(p, n), curLock[p] # n
  PROVE  curLock[q] # n
BY LockerAssumption DEF IInv, LocksSound, HasLock, Lock

\* Locks change in the three operations of ProfileLocker only.
LEMMA LockSteps ==
  ASSUME IInv, [Next]_vars
  PROVE  \/ UNCHANGED curLock
         \/ \E r \in Procs, n \in Names : Lock(r, n)
         \/ \E r \in Procs : Unlock(r) \/ Abandon(r)
<1>1. ASSUME NEW r \in Procs, ProfileStep(r)
      PROVE  \/ UNCHANGED curLock
             \/ \E n \in Names : Lock(r, n)
             \/ Unlock(r)
  <2>1. CASE AssertLock(r)
    <3>1. prof[r].name \in Names
      BY <2>1 DEF AssertLock, IInv, TypeInv, AtWork, AtLogin, ProfileObject
    <3> QED BY <2>1, <3>1 DEF AssertLock, lockVars
  <2>2. CASE LockFileLost(r) \/ Remove(r) \/ Logout(r) \/ \E n \in Names : Rename(r, n)
    BY <2>2 DEF LockFileLost, Remove, Logout, Rename
  <2>3. CASE OpenFirstTime(r) \/ DatabaseStep(r) \/ DatabaseFails(r) \/ AddNewMessage(r)
    BY <2>3 DEF OpenFirstTime, DatabaseStep, DatabaseFails, AddNewMessage, lockVars
  <2>4. CASE \/ SaveToxSave(r) \/ ChangeDbPassword(r) \/ RenameTox(r) \/ RenameDatabase(r)
             \/ RemoveTox(r) \/ RemoveDatabase(r)
             \/ \E w \in Passwords \cup {NoPassword} : SetPassword(r, w)
    BY <2>4 DEF SaveToxSave, ChangeDbPassword, RenameTox, RenameDatabase, RemoveTox,
                RemoveDatabase, SetPassword, lockVars
  <2> QED BY <1>1, <2>1, <2>2, <2>3, <2>4 DEF ProfileStep
<1>2. ASSUME NEW r \in Procs, NEW n \in Names,
             \/ LoadProfile(r, n)
             \/ \E i \in Ids, w \in Passwords \cup {NoPassword} : CreateProfile(r, n, i, w)
      PROVE  Lock(r, n)
  BY <1>2 DEF LoadProfile, CreateProfile
<1>3. ASSUME NEW r \in Procs, SaveAfterLogout(r) \/ Crash(r) \/ Restart(r)
      PROVE  UNCHANGED curLock \/ Abandon(r)
  BY <1>3 DEF SaveAfterLogout, Crash, Restart, lockVars
<1>4. ASSUME NEW n \in Names, LockFileDeleted(n)
      PROVE  UNCHANGED curLock
  BY <1>4 DEF LockFileDeleted, LoseLockFile
<1>5. CASE UNCHANGED vars
  BY <1>5 DEF vars, lockVars
<1>6. CASE Next
  BY <1>1, <1>2, <1>3, <1>4, <1>6 DEF Next
<1> QED BY <1>5, <1>6

LEMMA TakenStep ==
  ASSUME IInv, [Next]_vars, lost # TRUE, NEW p \in Procs, NEW q \in Procs, p # q,
         AtLogin(p), curLock'[p] \in Uses(q), HasLock(p)'
  PROVE  \/ at[q] \in {"renaming", "renamingDb", "removing", "removingDb"}
         \/ path[q] # prof[q].name
<1> USE DEF IInv, TypeInv
<1>1. SUFFICES ASSUME AtWork(q), path[q] = prof[q].name
               PROVE  at[q] \in {"renaming", "renamingDb", "removing", "removingDb"}
  BY DEF Uses
<1>2. prof[q] \in ProfileObject /\ curLock'[p] \in Names
  <2>1. LockTypeOK'
    BY NextInv
  <2> QED BY <1>1, <2>1 DEF HasLock, LockTypeOK
<1>3. at[q] \in {"running", "password"} => curLock'[p] = curLock[q]
  BY <1>1, <1>2, LockerAssumption DEF Uses, PlacesInv, Renaming
<1>4. at[q] # "relocking"
  BY DEF PlacesInv
<1>5. SUFFICES ASSUME curLock'[p] = curLock[q]
               PROVE  FALSE
  BY <1>1, <1>3, <1>4 DEF AtWork, AtLogin, Places
<1>6. curLock[q] \in Names /\ lockFile[curLock[q]] = q
  BY <1>2, <1>5, LockerAssumption DEF LocksSound, HasLock
<1>7. CASE curLock'[p] = curLock[p]
  BY <1>5, <1>6, <1>7, LockerAssumption DEF LocksSound, HasLock
<1>8. CASE \E r \in Procs, n \in Names : Lock(r, n)
  <2>1. PICK r \in Procs, n \in Names : Lock(r, n)
    BY <1>8
  <2>2. curLock'[r] = n /\ \A o \in Procs \ {r} : curLock'[o] = curLock[o]
    BY <2>1, LockTaken
  <2>3. r = p => curLock[p] = n \/ curLock[q] # n
    BY <2>1, TakenFree
  <2> QED BY <1>5, <1>7, <2>2, <2>3
<1>9. CASE \E r \in Procs : Unlock(r) \/ Abandon(r)
  <2>1. PICK r \in Procs : Unlock(r) \/ Abandon(r)
    BY <1>9
  <2>2. \A o \in Procs \ {r} : curLock'[o] = curLock[o]
    BY <2>1, LockReleased
  <2>3. r = p => curLock'[p] = NoName
    BY <2>1 DEF Unlock, Abandon, LockTypeOK
  <2> QED BY <1>7, <2>2, <2>3 DEF HasLock
<1> QED BY <1>7, <1>8, <1>9, LockSteps

\* A profile that a process is using is given to nobody else, except in the windows that the
\* code leaves: its owner is renaming or removing it, or its database has kept another name.
THEOREM TakenOnlyUnlockedHolds == Spec => TakenOnlyUnlocked
<1> DEFINE Unlocked ==
      \A p, q \in Procs :
          AtLogin(p) /\ curLock'[p] \in Uses(q) /\ p # q /\ ~lost /\ HasLock(p)' =>
              \/ at[q] \in {"renaming", "renamingDb", "removing", "removingDb"}
              \/ path[q] # prof[q].name
<1>1. IInv /\ [Next]_vars => Unlocked
  BY TakenStep
<1>2. Spec => [][Unlocked]_vars
  BY <1>1, IInvHolds, PTL DEF Spec
<1> QED BY <1>2 DEF TakenOnlyUnlocked
-----------------------------------------------------------------------------
(* Types *)

WorkPlaces == {"idle", "opening", "fallback", "exporting", "swapping", "swapped", "rekeying"}
WorkType == [at : WorkPlaces, key : Keys, upgrade : BOOLEAN]

\* The database of a process, and what its worker thread is at: a process without a
\* profile has none.
DbOf(p) ==
    /\ Busy(p) => at[p] = "running"
    /\ IsOpen(p) \/ Busy(p) => AtWork(p)
    /\ AtWork(p) => path[p] \in Names

DbInv ==
    /\ db \in [Names -> File \cup {Absent}] /\ tmp \in [Names -> File \cup {Absent}]
    /\ bak \in [Names -> Backup \cup {Absent}]
    /\ path \in [Procs -> Names \cup {NoName}]
    /\ hexKey \in [Procs -> Keys]
    /\ conn \in [Procs -> {"closed", "open", "usable"}]
    /\ work \in [Procs -> WorkType]
    /\ \A p \in Procs : DbOf(p)

HistoryInv ==
    /\ life \in [Ids -> {"unused", "created", "started", "removed"}]
    /\ harmed \subseteq Ids /\ strayed \subseteq Ids /\ shared \subseteq Ids
    /\ changes \in 0..MaxChanges /\ faults \in 0..MaxFaults /\ lost \in BOOLEAN

LEMMA KeyType ==
  ASSUME NEW q \in Passwords \cup {NoPassword}, NEW s \in Ids \cup {StaticSalt}
  PROVE  Key(q, s) \in Keys
BY DEF Keys

LEMMA NoKeyType == NoKey \in Keys
BY KeyType DEF NoKey

LEMMA NewFileType ==
  ASSUME NEW key \in Keys, NEW of \in SUBSET Ids
  PROVE  NewFile(key, of) \in File
BY DEF NewFile, File

LEMMA KeysOf ==
  ASSUME NEW key \in Keys
  PROVE  /\ key.password \in Passwords \cup {NoPassword}
         /\ Key(key.password, StaticSalt) \in Keys
<1>1. PICK q \in Passwords \cup {NoPassword}, s \in Ids \cup {StaticSalt} : key = Key(q, s)
  BY DEF Keys
<1>2. key.password = q
  BY <1>1 DEF Key
<1> QED BY <1>2, KeyType

\* What a step of p on the database keeps, whatever the GUI threads do.
DbTypes ==
    /\ db \in [Names -> File \cup {Absent}] /\ tmp \in [Names -> File \cup {Absent}]
    /\ bak \in [Names -> Backup \cup {Absent}]
    /\ path \in [Procs -> Names \cup {NoName}]
    /\ hexKey \in [Procs -> Keys]
    /\ conn \in [Procs -> {"closed", "open", "usable"}]
    /\ work \in [Procs -> WorkType]

DbStepOf(p) ==
    /\ DbTypes'
    /\ \A q \in Procs \ {p} : /\ path'[q] = path[q] /\ hexKey'[q] = hexKey[q]
                              /\ conn'[q] = conn[q] /\ work'[q] = work[q]

LEMMA WorkChange ==
  ASSUME DbTypes, NEW p \in Procs
  PROVE  /\ [work EXCEPT ![p] = Idle] \in [Procs -> WorkType]
         /\ \A place \in WorkPlaces : [work EXCEPT ![p].at = place] \in [Procs -> WorkType]
         /\ \A place \in WorkPlaces, key \in Keys, upgrade \in BOOLEAN :
              [work EXCEPT ![p] = [at |-> place, key |-> key, upgrade |-> upgrade]] \in [Procs -> WorkType]
<1>1. Idle \in WorkType
  BY NoKeyType DEF Idle, WorkType, WorkPlaces
<1>2. [work EXCEPT ![p] = Idle] \in [Procs -> WorkType]
  BY <1>1 DEF DbTypes
<1>3. ASSUME NEW place \in WorkPlaces
      PROVE  [work EXCEPT ![p].at = place] \in [Procs -> WorkType]
  BY DEF DbTypes, WorkType
<1>4. ASSUME NEW place \in WorkPlaces, NEW key \in Keys, NEW upgrade \in BOOLEAN
      PROVE  [work EXCEPT ![p] = [at |-> place, key |-> key, upgrade |-> upgrade]] \in [Procs -> WorkType]
  BY DEF DbTypes, WorkType
<1> QED BY <1>2, <1>3, <1>4

LEMMA ExportTypes ==
  ASSUME DbTypes, NEW p \in Procs, path[p] \in Names, NEW key \in Keys, NEW upgrade \in BOOLEAN,
         StartExport(p, key, upgrade)
  PROVE  /\ tmp' \in [Names -> File \cup {Absent}] /\ work' \in [Procs -> WorkType]
         /\ \A q \in Procs \ {p} : work'[q] = work[q]
<1>1. [NewFile(key, {}) EXCEPT !.whole = FALSE] \in File
  BY DEF NewFile, File
<1>2. tmp' \in [Names -> File \cup {Absent}]
  BY <1>1 DEF StartExport, DbTypes
<1>3. work' = [work EXCEPT ![p] = [at |-> "exporting", key |-> key, upgrade |-> upgrade]]
  BY DEF StartExport
<1> QED BY <1>2, <1>3, WorkChange DEF WorkPlaces, DbTypes

LEMMA FoundType ==
  ASSUME DbTypes, NEW p \in Procs, path[p] \in Names, NEW new \in File
  PROVE  /\ Found(p, new) \in File
         /\ Export(p) \in File \cup {Absent}
<1>1. db[path[p]] \in File \cup {Absent} /\ tmp[path[p]] \in File \cup {Absent}
  BY DEF DbTypes
<1>2. tmp[path[p]] # Absent => [tmp[path[p]] EXCEPT !.whole = TRUE] \in File
  BY <1>1 DEF File
<1>3. Found(p, new) \in File
  BY <1>1, <1>2 DEF Found
<1>4. Export(p) \in File \cup {Absent}
  BY <1>1 DEF Export
<1> QED BY <1>3, <1>4

LEMMA OpenTypes ==
  ASSUME DbTypes, NEW p \in Procs, path[p] \in Names, NEW key \in Keys, NEW file \in File,
         NEW upgrade \in BOOLEAN, Open(p, key, file, upgrade)
  PROVE  /\ db' \in [Names -> File \cup {Absent}] /\ tmp' \in [Names -> File \cup {Absent}]
         /\ conn' \in [Procs -> {"closed", "open", "usable"}] /\ work' \in [Procs -> WorkType]
         /\ \A q \in Procs \ {p} : conn'[q] = conn[q] /\ work'[q] = work[q]
<1>1. db' \in [Names -> File \cup {Absent}]
  BY DEF Open, DbTypes
<1>2. conn' \in [Procs -> {"closed", "open", "usable"}]
      /\ \A q \in Procs \ {p} : conn'[q] = conn[q]
  BY DEF Open, DbTypes
<1>3. Export(p) \in File \cup {Absent}
  BY FoundType
<1>4. CASE StartExport(p, key, upgrade)
  BY <1>1, <1>2, <1>4, ExportTypes
<1>5. CASE tmp' = [tmp EXCEPT ![path[p]] = Export(p)] /\ Stop(p)
  BY <1>1, <1>2, <1>3, <1>5, WorkChange DEF DbTypes, Stop
<1>6. CASE /\ tmp' = [tmp EXCEPT ![path[p]] = Export(p)]
           /\ work' = [work EXCEPT ![p] = IF upgrade THEN [@ EXCEPT !.at = "rekeying"] ELSE Idle]
  <2>1. tmp' \in [Names -> File \cup {Absent}]
    BY <1>3, <1>6 DEF DbTypes
  <2>2. work' \in [Procs -> WorkType] /\ \A q \in Procs \ {p} : work'[q] = work[q]
    <3>1. CASE upgrade
      <4>1. work' = [work EXCEPT ![p].at = "rekeying"]
        BY <1>6, <3>1
      <4> QED BY <4>1, WorkChange DEF WorkPlaces, DbTypes
    <3>2. CASE ~upgrade
      <4>1. work' = [work EXCEPT ![p] = Idle]
        BY <1>6, <3>2
      <4> QED BY <4>1, WorkChange DEF DbTypes
    <3> QED BY <3>1, <3>2
  <2> QED BY <1>1, <1>2, <2>1, <2>2
<1> QED BY <1>4, <1>5, <1>6 DEF Open

LEMMA BackupType ==
  ASSUME DbTypes, NEW p \in Procs, path[p] \in Names, OpenWithOldSalt(p)
  PROVE  bak' \in [Names -> Backup \cup {Absent}]
<1>1. CanBackup(p) => [of |-> db[path[p]].of] \in Backup
  BY DEF CanBackup, DbTypes, File, Backup
<1> QED BY <1>1 DEF OpenWithOldSalt, DbTypes

\* The constructor.
LEMMA OpeningTypes ==
  ASSUME DbTypes, NEW p \in Procs, path[p] \in Names, NEW first \in SUBSET Ids,
         OpenFirst(p, NewFile(hexKey[p], first)) \/ OpenWithOldSalt(p)
  PROVE  DbStepOf(p) /\ path' = path
<1>1. hexKey[p] \in Keys
  BY DEF DbTypes
<1>2. CASE OpenFirst(p, NewFile(hexKey[p], first))
  <2> DEFINE file == Found(p, NewFile(hexKey[p], first))
  <2>1. file \in File /\ Export(p) \in File \cup {Absent}
    BY <1>1, NewFileType, FoundType
  <2>2. CASE Open(p, hexKey[p], file, FALSE) /\ UNCHANGED bak
    <3> HIDE DEF file
    <3> QED BY <1>1, <1>2, <2>1, <2>2, OpenTypes DEF OpenFirst, DbStepOf, DbTypes
  <2>3. CASE /\ db' = [db EXCEPT ![path[p]] = file]
             /\ tmp' = [tmp EXCEPT ![path[p]] = Export(p)]
             /\ work' = [work EXCEPT ![p].at = "fallback"]
             /\ UNCHANGED <<bak, conn>>
    <3> HIDE DEF file
    <3>1. work' \in [Procs -> WorkType] /\ \A q \in Procs \ {p} : work'[q] = work[q]
      BY <2>3, WorkChange DEF WorkPlaces, DbTypes
    <3> QED BY <1>2, <2>1, <2>3, <3>1 DEF OpenFirst, DbStepOf, DbTypes
  <2> QED BY <1>2, <2>2, <2>3 DEF OpenFirst
<1>3. CASE OpenWithOldSalt(p)
  <2> DEFINE old == Key(hexKey[p].password, StaticSalt)
             file == Found(p, NewFile(old, {}))
  <2>1. old \in Keys
    BY <1>1, KeysOf
  <2>2. file \in File
    BY <2>1, NewFileType, FoundType
  <2>3. /\ bak' \in [Names -> Backup \cup {Absent}] /\ hexKey' \in [Procs -> Keys] /\ path' = path
        /\ \A q \in Procs \ {p} : hexKey'[q] = hexKey[q]
    BY <1>3, <2>1, BackupType DEF OpenWithOldSalt, DbTypes
  <2>4. CanBackup(p) \in BOOLEAN
    BY DEF CanBackup
  <2>5. CASE Open(p, old, file, CanBackup(p))
    <3> HIDE DEF file, old
    <3> QED BY <2>1, <2>2, <2>3, <2>4, <2>5, OpenTypes DEF DbStepOf, DbTypes
  <2>6. CASE Stop(p) /\ UNCHANGED <<db, tmp, conn>>
    <3> HIDE DEF file, old
    <3>1. work' \in [Procs -> WorkType] /\ \A q \in Procs \ {p} : work'[q] = work[q]
      BY <2>6, WorkChange DEF Stop, DbTypes
    <3> QED BY <2>3, <2>6, <3>1 DEF DbStepOf, DbTypes
  <2> QED BY <1>3, <2>5, <2>6 DEF OpenWithOldSalt
<1> QED BY <1>2, <1>3

\* An export, and the swap of the files.
LEMMA SwapTypes ==
  ASSUME DbTypes, NEW p \in Procs, path[p] \in Names,
         FinishExport(p) \/ FailExport(p) \/ RemoveOld(p) \/ RenameExport(p)
  PROVE  DbStepOf(p) /\ path' = path
<1>1. CASE FinishExport(p)
  <2>1. work' \in [Procs -> WorkType] /\ \A q \in Procs \ {p} : work'[q] = work[q]
    BY <1>1, WorkChange DEF FinishExport, WorkPlaces, DbTypes
  <2>2. tmp' \in [Names -> File \cup {Absent}]
    <3>1. CASE tmp[path[p]] = Absent \/ db[path[p]] = Absent
      BY <1>1, <3>1 DEF FinishExport, DbTypes
    <3>2. CASE tmp[path[p]] # Absent /\ db[path[p]] # Absent
      <4>1. tmp[path[p]] \in File /\ db[path[p]] \in File
        BY <3>2 DEF DbTypes
      <4>2. tmp' = [tmp EXCEPT ![path[p]] = [tmp[path[p]] EXCEPT !.whole = TRUE, !.of = db[path[p]].of]]
        BY <1>1, <3>2, <4>1 DEF FinishExport, DbTypes, File
      <4>3. [tmp[path[p]] EXCEPT !.whole = TRUE, !.of = db[path[p]].of] \in File
        BY <4>1 DEF File
      <4> QED BY <4>2, <4>3 DEF DbTypes
    <3> QED BY <3>1, <3>2
  <2> QED BY <1>1, <2>1, <2>2 DEF FinishExport, DbStepOf, DbTypes
<1>2. CASE FailExport(p)
  <2>1. work' = [work EXCEPT ![p].at = "fallback"] \/ work' = [work EXCEPT ![p] = Idle]
    BY <1>2 DEF FailExport, Stop
  <2>2. work' \in [Procs -> WorkType] /\ \A q \in Procs \ {p} : work'[q] = work[q]
    <3>1. "fallback" \in WorkPlaces
      BY DEF WorkPlaces
    <3> QED BY <2>1, <3>1, WorkChange DEF DbTypes
  <2> QED BY <1>2, <2>2 DEF FailExport, Close, DbStepOf, DbTypes
<1>3. CASE RemoveOld(p)
  <2>1. work' \in [Procs -> WorkType] /\ \A q \in Procs \ {p} : work'[q] = work[q]
    BY <1>3, WorkChange DEF RemoveOld, WorkPlaces, DbTypes
  <2> QED BY <1>3, <2>1 DEF RemoveOld, Close, DbStepOf, DbTypes
<1>4. CASE RenameExport(p)
  <2> DEFINE file == Found(p, NewFile(work[p].key, {}))
             opened == Fits(work[p].key, file)
  <2>1. work[p].key \in Keys
    BY DEF DbTypes, WorkType
  <2>2. file \in File /\ Export(p) \in File \cup {Absent}
    BY <2>1, NewFileType, FoundType
  <2>3. work' \in [Procs -> WorkType] /\ \A q \in Procs \ {p} : work'[q] = work[q]
    <3>1. work' = [work EXCEPT ![p].at = "rekeying"] \/ work' = [work EXCEPT ![p] = Idle]
      BY <1>4 DEF RenameExport
    <3>2. "rekeying" \in WorkPlaces
      BY DEF WorkPlaces
    <3> QED BY <3>1, <3>2, WorkChange DEF DbTypes
  <2>4. /\ db' = [db EXCEPT ![path[p]] = file]
        /\ tmp' = [tmp EXCEPT ![path[p]] = Export(p)]
        /\ hexKey' = [hexKey EXCEPT ![p] = work[p].key]
        /\ conn' = [conn EXCEPT ![p] = IF opened THEN "usable" ELSE "closed"]
        /\ UNCHANGED <<bak, path>>
    BY <1>4 DEF RenameExport
  <2> HIDE DEF file, opened
  <2> QED BY <2>1, <2>2, <2>3, <2>4 DEF DbStepOf, DbTypes
<1> QED BY <1>1, <1>2, <1>3, <1>4

\* Changes of the key.
LEMMA RekeyTypes ==
  ASSUME DbTypes, NEW p \in Procs, path[p] \in Names, NEW key \in Keys,
         UpgradeSalt(p, key) \/ SetDbPassword(p, key) \/ FailRekey(p)
  PROVE  DbStepOf(p) /\ path' = path
<1>1. Usable(p) => [db[path[p]] EXCEPT !.key = key] \in File
  BY DEF Usable, DbTypes, File
<1>2. Usable(p) => [db EXCEPT ![path[p]].key = key] \in [Names -> File \cup {Absent}]
  <2>1. [db EXCEPT ![path[p]].key = key] = [db EXCEPT ![path[p]] = [db[path[p]] EXCEPT !.key = key]]
    OBVIOUS
  <2> QED BY <1>1, <2>1 DEF DbTypes
<1>3. [tmp EXCEPT ![path[p]] = Absent] \in [Names -> File \cup {Absent}]
  BY DEF DbTypes
<1>4. CASE UpgradeSalt(p, key)
  <2>1. work' \in [Procs -> WorkType] /\ \A q \in Procs \ {p} : work'[q] = work[q]
    BY <1>4, WorkChange DEF UpgradeSalt, Stop, DbTypes
  <2> QED BY <1>2, <1>3, <1>4, <2>1 DEF UpgradeSalt, DbStepOf, DbTypes
<1>5. CASE FailRekey(p)
  <2>1. work' \in [Procs -> WorkType] /\ \A q \in Procs \ {p} : work'[q] = work[q]
    BY <1>5, WorkChange DEF FailRekey, Stop, DbTypes
  <2> QED BY <1>3, <1>5, <2>1 DEF FailRekey, Close, DbStepOf, DbTypes
<1>6. CASE SetDbPassword(p, key)
  <2>1. CASE Usable(p) /\ Rekey(p, key)
    BY <1>2, <1>3, <2>1 DEF Rekey, DbStepOf, DbTypes
  <2>2. CASE ChangeEncryption(p, key)
    BY <2>2, ExportTypes DEF ChangeEncryption, DbStepOf, DbTypes
  <2>3. CASE /\ tmp' = [tmp EXCEPT ![path[p]] = Absent]
             /\ UNCHANGED <<db, bak, path, hexKey, work>>
             /\ UNCHANGED conn \/ Close(p)
    BY <1>3, <2>3 DEF Close, DbStepOf, DbTypes
  <2> QED BY <1>6, <2>1, <2>2, <2>3 DEF SetDbPassword
<1> QED BY <1>4, <1>5, <1>6

LEMMA RenameDbTypes ==
  ASSUME DbTypes, NEW p \in Procs, path[p] \in Names, NEW m \in Names, RenameDb(p, m)
  PROVE  /\ DbStepOf(p) /\ path'[p] \in Names /\ work' = work
         /\ path'[p] = m \/ path' = path
<1>1. CASE UNCHANGED dbVars
  BY <1>1 DEF dbVars, DbStepOf, DbTypes
<1>2. CASE Close(p) /\ UNCHANGED <<db, tmp, bak, path, hexKey, work>>
  BY <1>2 DEF Close, DbStepOf, DbTypes
<1>3. CASE /\ db' = [db EXCEPT ![m] = db[path[p]], ![path[p]] = Absent]
           /\ path' = [path EXCEPT ![p] = m]
           /\ conn' = [conn EXCEPT ![p] = IF Fits(hexKey[p], db[path[p]]) THEN "usable"
                                          ELSE IF hexKey[p] = NoKey THEN "open" ELSE "closed"]
           /\ UNCHANGED <<tmp, bak, hexKey, work>>
  BY <1>3 DEF DbStepOf, DbTypes
<1> QED BY <1>1, <1>2, <1>3 DEF RenameDb

LEMMA ForgetTypes ==
  ASSUME DbTypes, NEW p \in Procs, Forget(p), UNCHANGED <<db, tmp, bak>> \/ RemoveDb(p)
  PROVE  DbStepOf(p) /\ ~IsOpen(p)' /\ ~Busy(p)'
<1>1. hexKey' \in [Procs -> Keys]
  BY NoKeyType DEF Forget, DbTypes
<1>2. /\ work' \in [Procs -> WorkType] /\ ~Busy(p)'
      /\ \A q \in Procs \ {p} : work'[q] = work[q]
  BY WorkChange DEF Forget, DbTypes, Busy, Idle
<1> QED BY <1>1, <1>2 DEF Forget, RemoveDb, DbStepOf, DbTypes, IsOpen

LEMMA OpenDatabaseTypes ==
  ASSUME DbTypes, NEW p \in Procs, NEW n \in Names, NEW key \in Keys, OpenDatabase(p, n, key)
  PROVE  DbStepOf(p) /\ path'[p] = n
<1>1. work' \in [Procs -> WorkType] /\ \A q \in Procs \ {p} : work'[q] = work[q]
  BY WorkChange DEF OpenDatabase, WorkPlaces, DbTypes
<1> QED BY <1>1 DEF OpenDatabase, DbStepOf, DbTypes

LEMMA DbOfOthers ==
  ASSUME DbInv, NEW p \in Procs, DbStepOf(p), DbOf(p)',
         \A q \in Procs \ {p} : at'[q] = at[q]
  PROVE  DbInv'
<1>1. ASSUME NEW q \in Procs PROVE DbOf(q)'
  <2>1. CASE q # p
    <3>1. DbOf(q)
      BY DEF DbInv
    <3>2. path'[q] = path[q] /\ conn'[q] = conn[q] /\ work'[q] = work[q] /\ at'[q] = at[q]
      BY <2>1 DEF DbStepOf
    <3> QED BY <3>1, <3>2 DEF DbOf, Busy, IsOpen, AtWork, AtLogin
  <2> QED BY <2>1
<1> QED BY <1>1 DEF DbStepOf, DbTypes, DbInv

LEMMA DbTypesOf == DbInv => DbTypes
BY DEF DbInv, DbTypes

\* The password and the identity of a profile give a key.
LEMMA DbKeyType ==
  ASSUME NEW p \in Procs, prof[p] \in ProfileObject
  PROVE  DbKey(p) \in Keys
BY KeyType DEF DbKey, ProfileObject

LEMMA TakingTypes ==
  ASSUME IInv, DbInv, NEW p \in Procs, NEW n \in Names,
         \/ LoadProfile(p, n)
         \/ \E i \in Ids, q \in Passwords \cup {NoPassword} : CreateProfile(p, n, i, q)
  PROVE  DbInv'
<1> USE DEF IInv, TypeInv
<1>1. DbTypes
  BY DbTypesOf
<1>2. PICK key \in Keys : OpenDatabase(p, n, key)
  <2>1. CASE LoadProfile(p, n)
    <3>1. tox[n] \in ToxFile
      BY <2>1 DEF LoadProfile
    <3>2. Key(tox[n].password, tox[n].id) \in Keys
      BY <3>1, KeyType DEF ToxFile
    <3> QED BY <2>1, <3>2 DEF LoadProfile
  <2>2. CASE \E i \in Ids, q \in Passwords \cup {NoPassword} : CreateProfile(p, n, i, q)
    BY <2>2, KeyType DEF CreateProfile
  <2> QED BY <2>1, <2>2
<1>3. DbStepOf(p) /\ path'[p] = n
  BY <1>1, <1>2, OpenDatabaseTypes
<1>4. at'[p] = "running" /\ \A q \in Procs \ {p} : at'[q] = at[q]
  BY DEF LoadProfile, CreateProfile, Goto
<1>5. DbOf(p)'
  BY <1>3, <1>4 DEF DbOf, AtWork, AtLogin
<1> QED BY <1>3, <1>4, <1>5, DbOfOthers

\* The worker thread's steps.
LEMMA WorkerTypes ==
  ASSUME IInv, DbInv, NEW p \in Procs,
         OpenFirstTime(p) \/ DatabaseStep(p) \/ DatabaseFails(p) \/ ChangeDbPassword(p)
  PROVE  DbInv' /\ DbStepOf(p) /\ path' = path
<1> USE DEF IInv, TypeInv
<1>1. DbTypes
  BY DbTypesOf
<1>2. DbOf(p)
  BY DEF DbInv
<1>3. AtWork(p)
  <2>1. CASE ChangeDbPassword(p)
    BY <2>1 DEF ChangeDbPassword, AtWork, AtLogin
  <2>2. CASE OpenFirstTime(p) \/ DatabaseStep(p) \/ DatabaseFails(p)
    <3>1. Busy(p)
      BY <2>2 DEF OpenFirstTime, DatabaseStep, DatabaseFails, OpenFirst, OpenWithOldSalt, UpgradeSalt,
                  FinishExport, RemoveOld, RenameExport, FailExport, Busy
    <3> QED BY <1>2, <3>1 DEF DbOf
  <2> QED BY <2>1, <2>2
<1>4. path[p] \in Names /\ prof[p] \in ProfileObject /\ prof[p].id \in Ids /\ DbKey(p) \in Keys
  BY <1>2, <1>3, DbKeyType DEF DbOf, ProfileObject
<1>5. DbStepOf(p) /\ path' = path
  <2>1. CASE OpenFirstTime(p)
    BY <1>1, <1>4, <2>1, OpeningTypes DEF OpenFirstTime
  <2>2. CASE DatabaseStep(p)
    BY <1>1, <1>4, <2>2, OpeningTypes, SwapTypes, RekeyTypes DEF DatabaseStep
  <2>3. CASE DatabaseFails(p)
    BY <1>1, <1>4, <2>3, SwapTypes, RekeyTypes DEF DatabaseFails
  <2>4. CASE ChangeDbPassword(p)
    <3>1. CASE UNCHANGED dbVars
      BY <1>1, <3>1 DEF DbStepOf, DbTypes, dbVars
    <3> QED BY <1>1, <1>4, <2>4, <3>1, RekeyTypes DEF ChangeDbPassword
  <2> QED BY <2>1, <2>2, <2>3, <2>4
<1>6. at'[p] = "running" /\ \A q \in Procs \ {p} : at'[q] = at[q]
  <2>1. CASE ChangeDbPassword(p)
    BY <2>1 DEF ChangeDbPassword, Goto
  <2>2. CASE OpenFirstTime(p) \/ DatabaseStep(p) \/ DatabaseFails(p)
    <3>1. Busy(p)
      BY <2>2 DEF OpenFirstTime, DatabaseStep, DatabaseFails, OpenFirst, OpenWithOldSalt, UpgradeSalt,
                  FinishExport, RemoveOld, RenameExport, FailExport, Busy
    <3>2. at' = at
      BY <2>2 DEF OpenFirstTime, DatabaseStep, DatabaseFails, history
    <3> QED BY <1>2, <3>1, <3>2 DEF DbOf
  <2> QED BY <2>1, <2>2
<1>7. DbOf(p)'
  BY <1>4, <1>5, <1>6 DEF DbOf, AtWork, AtLogin
<1> QED BY <1>5, <1>6, <1>7, DbOfOthers

LEMMA MessageTypes ==
  ASSUME IInv, DbInv, NEW p \in Procs, AddNewMessage(p)
  PROVE  DbInv'
<1> USE DEF IInv, TypeInv
<1>1. path[p] \in Names /\ prof[p].id \in Ids /\ db[path[p]] \in File
  <2>1. AtWork(p) /\ DbOf(p)
    BY DEF AddNewMessage, GuiFree, AtWork, AtLogin, DbInv
  <2> QED BY <2>1 DEF AddNewMessage, Usable, DbOf, DbInv, ProfileObject
<1>2. [db[path[p]] EXCEPT !.of = @ \cup {prof[p].id}] \in File
  BY <1>1 DEF File
<1>3. db' = [db EXCEPT ![path[p]] = [db[path[p]] EXCEPT !.of = @ \cup {prof[p].id}]]
  BY DEF AddNewMessage
<1>4. db' \in [Names -> File \cup {Absent}]
  BY <1>2, <1>3 DEF DbInv
<1>5. UNCHANGED <<tmp, bak, path, hexKey, conn, work, at>>
  BY DEF AddNewMessage
<1> QED BY <1>4, <1>5 DEF DbInv, DbOf, Busy, IsOpen, AtWork, AtLogin

\* Steps that take the GUI thread on, with the database as it is.
LEMMA PlaceTypes ==
  ASSUME IInv, DbInv, NEW p \in Procs, UNCHANGED dbVars,
         \A q \in Procs \ {p} : at'[q] = at[q],
         \/ at'[p] = at[p]
         \/ ~Busy(p) /\ (AtWork(p)' <=> AtWork(p))
  PROVE  DbInv'
<1>1. DbTypes'
  BY DbTypesOf DEF dbVars, DbTypes
<1>2. DbStepOf(p)
  BY <1>1 DEF dbVars, DbStepOf
<1>3. DbOf(p)
  BY DEF DbInv
<1>4. DbOf(p)'
  BY <1>3 DEF dbVars, DbOf, Busy, IsOpen, AtWork, AtLogin
<1> QED BY <1>2, <1>4, DbOfOthers

LEMMA RenameDatabaseTypes ==
  ASSUME IInv, DbInv, NEW p \in Procs, RenameDatabase(p)
  PROVE  DbInv' /\ DbStepOf(p) /\ path'[p] \in {path[p], newName[p]}
<1> USE DEF IInv, TypeInv
<1>1. DbTypes /\ DbOf(p)
  BY DbTypesOf DEF DbInv
<1>2. AtWork(p) /\ ~Busy(p) /\ path[p] \in Names /\ newName[p] \in Names
  BY <1>1 DEF RenameDatabase, DbOf, AtWork, AtLogin, PlacesInv, Renaming
<1>3. DbStepOf(p) /\ path'[p] \in Names /\ work' = work /\ path'[p] \in {path[p], newName[p]}
  <2>1. CASE UNCHANGED dbVars
    BY <1>1, <1>2, <2>1 DEF DbStepOf, DbTypes, dbVars
  <2> QED BY <1>1, <1>2, <2>1, RenameDbTypes DEF RenameDatabase
<1>4. at'[p] = "running" /\ \A q \in Procs \ {p} : at'[q] = at[q]
  BY DEF RenameDatabase, Goto
<1>5. DbOf(p)'
  BY <1>2, <1>3, <1>4 DEF DbOf, AtWork, AtLogin, Busy
<1> QED BY <1>3, <1>4, <1>5, DbOfOthers

\* A process that leaves its profile.
LEMMA LeavingTypes ==
  ASSUME IInv, DbInv, NEW p \in Procs, Forget(p), UNCHANGED <<db, tmp, bak>> \/ RemoveDb(p),
         \A q \in Procs \ {p} : at'[q] = at[q], ~AtWork(p)'
  PROVE  DbInv'
<1>1. DbStepOf(p) /\ ~IsOpen(p)' /\ ~Busy(p)'
  BY DbTypesOf, ForgetTypes
<1> QED BY <1>1, DbOfOthers DEF DbOf

LEMMA NextDb == IInv /\ DbInv /\ [Next]_vars => DbInv'
<1> SUFFICES ASSUME IInv, DbInv, [Next]_vars PROVE DbInv'
  OBVIOUS
<1> USE DEF IInv, TypeInv
<1>1. ASSUME NEW p \in Procs, NEW n \in Names,
             \/ LoadProfile(p, n)
             \/ \E i \in Ids, q \in Passwords \cup {NoPassword} : CreateProfile(p, n, i, q)
      PROVE  DbInv'
  BY <1>1, TakingTypes
<1>2. ASSUME NEW p \in Procs, ProfileStep(p)
      PROVE  DbInv'
  <2>0. DbOf(p)
    BY DEF DbInv
  <2>1. CASE OpenFirstTime(p) \/ DatabaseStep(p) \/ DatabaseFails(p) \/ ChangeDbPassword(p)
    BY <2>1, WorkerTypes
  <2>2. CASE AddNewMessage(p)
    BY <2>2, MessageTypes
  <2>3. CASE SaveToxSave(p)
    BY <2>3, PlaceTypes DEF SaveToxSave
  <2>4. CASE \/ LockFileLost(p) \/ Remove(p)
             \/ \E q \in Passwords \cup {NoPassword} : SetPassword(p, q)
             \/ \E n \in Names : Rename(p, n)
    <3>1. /\ UNCHANGED dbVars /\ GuiFree(p) /\ at'[p] \in {"relocking", "removing", "password", "renaming"}
          /\ \A q \in Procs \ {p} : at'[q] = at[q]
      BY <2>4 DEF LockFileLost, Remove, SetPassword, Rename, Goto
    <3> QED BY <3>1, PlaceTypes DEF GuiFree, AtWork, AtLogin
  <2>5. CASE RenameTox(p) \/ RemoveTox(p)
    <3>1. /\ UNCHANGED dbVars /\ at[p] \in {"renaming", "removing"} /\ at'[p] \in {"renamingDb", "removingDb"}
          /\ \A q \in Procs \ {p} : at'[q] = at[q]
      BY <2>5 DEF RenameTox, RemoveTox, Goto
    <3> QED BY <2>0, <3>1, PlaceTypes DEF DbOf, AtWork, AtLogin
  <2>6. CASE AssertLock(p)
    <3>1. CASE Goto(p, "running") /\ UNCHANGED dbVars
      <4>1. at[p] = "relocking" /\ at'[p] = "running" /\ \A q \in Procs \ {p} : at'[q] = at[q]
        BY <2>6, <3>1 DEF AssertLock, Goto
      <4> QED BY <2>0, <3>1, <4>1, PlaceTypes DEF DbOf, AtWork, AtLogin
    <3>2. CASE Goto(p, "aborted") /\ Forget(p) /\ UNCHANGED <<db, tmp, bak>>
      BY <3>2, LeavingTypes DEF Goto, AtWork, AtLogin
    <3> QED BY <2>6, <3>1, <3>2 DEF AssertLock
  <2>7. CASE RenameDatabase(p)
    BY <2>7, RenameDatabaseTypes
  <2>8. CASE RemoveDatabase(p)
    <3>1. Forget(p) /\ (UNCHANGED <<db, tmp, bak>> \/ RemoveDb(p))
      BY <2>8 DEF RemoveDatabase, RemoveDb
    <3> QED BY <2>8, <3>1, LeavingTypes DEF RemoveDatabase, Goto, AtWork, AtLogin
  <2>9. CASE Logout(p)
    BY <2>9, LeavingTypes DEF Logout, Goto, AtWork, AtLogin
  <2> QED BY <1>2, <2>1, <2>2, <2>3, <2>4, <2>5, <2>6, <2>7, <2>8, <2>9 DEF ProfileStep
<1>3. ASSUME NEW p \in Procs, SaveAfterLogout(p) \/ Restart(p)
      PROVE  DbInv'
  <2>1. /\ UNCHANGED dbVars /\ ~AtWork(p) /\ ~AtWork(p)'
        /\ \A q \in Procs \ {p} : at'[q] = at[q]
    BY <1>3 DEF SaveAfterLogout, Restart, Goto, AtWork, AtLogin
  <2>2. ~Busy(p)
    BY <2>1 DEF DbInv, DbOf
  <2> QED BY <2>1, <2>2, PlaceTypes
<1>4. ASSUME NEW p \in Procs, Crash(p)
      PROVE  DbInv'
  BY <1>4, LeavingTypes DEF Crash, Goto, AtWork, AtLogin
<1>5. CASE UNCHANGED <<dbVars, at>>
  BY <1>5 DEF dbVars, DbInv, DbOf, Busy, IsOpen, AtWork, AtLogin
<1>6. CASE Next
  BY <1>1, <1>2, <1>3, <1>4, <1>5, <1>6 DEF Next, LockFileDeleted
<1> QED BY <1>5, <1>6 DEF vars

\* A process that works has an identity, and what is cut short is a change of it.
LEMMA NextHistory == IInv /\ DbInv /\ HistoryInv /\ [Next]_vars => HistoryInv'
<1> SUFFICES ASSUME IInv, DbInv, HistoryInv, [Next]_vars PROVE HistoryInv'
  OBVIOUS
<1> USE DEF IInv, TypeInv
<1>1. ASSUME NEW p \in Procs, AtWork(p)
      PROVE  prof[p].id \in Ids
  BY <1>1 DEF ProfileObject
<1>2. ASSUME NEW p \in Procs, NEW n, NEW i \in Ids
      PROVE  Disturbed(p, n, i) \subseteq Ids
  <2>1. ASSUME NEW q \in Procs, n \in Uses(q)
        PROVE  prof[q].id \in Ids
    BY <1>1, <2>1 DEF Uses
  <2> QED BY <2>1 DEF Disturbed
<1>3. Change \/ Fault \/ UNCHANGED counters =>
        changes' \in 0..MaxChanges /\ faults' \in 0..MaxFaults
  BY ProfileAssumption DEF Change, Fault, counters, HistoryInv
<1>4. ASSUME NEW p \in Procs, NEW n \in Names, LoadProfile(p, n)
      PROVE  HistoryInv'
  <2>1. tox[n].id \in Ids
    BY <1>4 DEF LoadProfile, ToxFile
  <2>2. shared' = shared \cup Disturbed(p, n, tox[n].id) /\ UNCHANGED <<counters, life, harmed, strayed, lost>>
    BY <1>4 DEF LoadProfile
  <2> QED BY <1>2, <1>3, <2>1, <2>2 DEF HistoryInv
<1>5. ASSUME NEW p \in Procs, NEW n \in Names, NEW i \in Ids,
             NEW q \in Passwords \cup {NoPassword}, CreateProfile(p, n, i, q)
      PROVE  HistoryInv'
  <2>1. /\ shared' = shared \cup Disturbed(p, n, i) /\ UNCHANGED <<counters, harmed, strayed, lost>>
        /\ life' = [life EXCEPT ![i] = "created"]
    BY <1>5 DEF CreateProfile
  <2> QED BY <1>2, <1>3, <2>1 DEF HistoryInv
<1>6. ASSUME NEW p \in Procs, ProfileStep(p)
      PROVE  HistoryInv'
  <2>1. CASE DatabaseStep(p) \/ SaveToxSave(p) \/ LockFileLost(p) \/ RenameTox(p) \/ RemoveTox(p) \/ Logout(p)
    <3>1. UNCHANGED <<counters, history>>
      BY <2>1 DEF DatabaseStep, SaveToxSave, LockFileLost, RenameTox, RemoveTox, Logout
    <3> QED BY <1>3, <3>1 DEF HistoryInv, history
  <2>2. CASE OpenFirstTime(p)
    <3>1. /\ UNCHANGED <<counters, harmed, strayed, shared, lost>>
          /\ life' = life \/ life' = [life EXCEPT ![prof[p].id] = "started"]
      BY <2>2 DEF OpenFirstTime, HistoryInv
    <3> QED BY <1>3, <3>1 DEF HistoryInv
  <2>3. CASE AddNewMessage(p)
    BY <1>3, <2>3 DEF AddNewMessage, HistoryInv
  <2>4. CASE DatabaseFails(p)
    <3>1. AtWork(p)
      <4>1. Busy(p)
        BY <2>4 DEF DatabaseFails, FailExport, Busy
      <4> QED BY <4>1 DEF DbInv, DbOf
    <3> QED BY <1>1, <1>3, <2>4, <3>1 DEF DatabaseFails, Harm, HistoryInv
  <2>5. CASE ChangeDbPassword(p)
    <3>1. AtWork(p)
      BY <2>5 DEF ChangeDbPassword, AtWork, AtLogin
    <3>2. changes' \in 0..MaxChanges /\ faults' \in 0..MaxFaults
      BY <1>3, <2>5 DEF ChangeDbPassword
    <3>3. harmed' \subseteq Ids
      BY <1>1, <2>5, <3>1 DEF ChangeDbPassword, HarmUnlessUsable, Harm, HistoryInv
    <3> QED BY <2>5, <3>2, <3>3 DEF ChangeDbPassword, HistoryInv
  <2>6. CASE \E q \in Passwords \cup {NoPassword} : SetPassword(p, q)
    BY <1>3, <2>6 DEF SetPassword, HistoryInv, history
  <2>7. CASE \E n \in Names : Rename(p, n)
    <3>1. PICK n \in Names : Rename(p, n)
      BY <2>7
    <3>2. AtWork(p)
      BY <3>1 DEF Rename, GuiFree, AtWork, AtLogin
    <3> QED BY <1>1, <1>2, <1>3, <3>1, <3>2 DEF Rename, HistoryInv
  <2>8. CASE RenameDatabase(p)
    <3>1. AtWork(p)
      BY <2>8 DEF RenameDatabase, AtWork, AtLogin
    <3>2. strayed' \subseteq Ids
      BY <1>1, <2>8, <3>1 DEF RenameDatabase, Stray, HistoryInv
    <3>3. UNCHANGED <<counters, life, harmed, shared, lost>>
      BY <2>8 DEF RenameDatabase
    <3> QED BY <1>3, <3>2, <3>3 DEF HistoryInv
  <2>9. CASE Remove(p)
    BY <1>3, <2>9 DEF Remove, HistoryInv
  <2>10. CASE RemoveDatabase(p)
    <3>1. AtWork(p)
      BY <2>10 DEF RemoveDatabase, AtWork, AtLogin
    <3>2. harmed' \subseteq Ids
      BY <1>1, <2>10, <3>1 DEF RemoveDatabase, HarmUnlessUsable, Harm, HistoryInv
    <3>3. UNCHANGED <<counters, life, strayed, shared, lost>>
      BY <2>10 DEF RemoveDatabase
    <3> QED BY <1>3, <3>2, <3>3 DEF HistoryInv
  <2>11. CASE AssertLock(p)
    <3>1. AtWork(p)
      BY <2>11 DEF AssertLock, AtWork, AtLogin
    <3>2. shared' \subseteq Ids
      BY <1>1, <1>2, <2>11, <3>1 DEF AssertLock, HistoryInv
    <3>3. UNCHANGED <<counters, life, harmed, strayed, lost>>
      BY <2>11 DEF AssertLock
    <3> QED BY <1>3, <3>2, <3>3 DEF HistoryInv
  <2> QED BY <1>6, <2>1, <2>2, <2>3, <2>4, <2>5, <2>6, <2>7, <2>8, <2>9, <2>10, <2>11 DEF ProfileStep
<1>7. ASSUME NEW p \in Procs, Crash(p)
      PROVE  HistoryInv'
  <2>1. harmed' \subseteq Ids /\ strayed' \subseteq Ids
    BY <1>1, <1>7 DEF Crash, Harm, Stray, HistoryInv
  <2> QED BY <1>3, <1>7, <2>1 DEF Crash, HistoryInv
<1>8. ASSUME NEW n \in Names, LockFileDeleted(n)
      PROVE  HistoryInv'
  BY <1>3, <1>8 DEF LockFileDeleted, HistoryInv
<1>9. CASE UNCHANGED <<counters, history>>
  BY <1>3, <1>9 DEF HistoryInv, history
<1>10. ASSUME NEW p \in Procs, SaveAfterLogout(p) \/ Restart(p)
       PROVE  HistoryInv'
  BY <1>9, <1>10 DEF SaveAfterLogout, Restart
<1>11. CASE Next
  BY <1>4, <1>5, <1>6, <1>7, <1>8, <1>10, <1>11 DEF Next
<1> QED BY <1>9, <1>11 DEF vars

LEMMA InitTypes == Init => DbInv /\ HistoryInv
<1> SUFFICES ASSUME Init PROVE DbInv /\ HistoryInv
  OBVIOUS
<1>1. /\ db \in [Names -> File \cup {Absent}]
      /\ life \in [Ids -> {"unused", "created", "started", "removed"}]
  <2>1. CASE NoProfiles
    BY <2>1 DEF NoProfiles
  <2>2. CASE \E n \in Names, i \in Ids, q \in Passwords : \E s \in {i, StaticSalt} : OldProfile(n, i, q, s)
    <3>1. PICK n \in Names, i \in Ids, q \in Passwords : \E s \in {i, StaticSalt} : OldProfile(n, i, q, s)
      BY <2>2
    <3>2. PICK s \in {i, StaticSalt} : OldProfile(n, i, q, s)
      BY <3>1
    <3>3. OldFile(i, q, s, FALSE) \in File
      <4>1. NewFile(Key(q, s), {i}) \in File
        BY KeyType, NewFileType
      <4> QED BY <4>1 DEF OldFile, File
    <3>4. /\ db = [m \in Names |-> IF m = n THEN OldFile(i, q, s, FALSE) ELSE Absent]
          /\ life = [j \in Ids |-> IF j = i THEN "started" ELSE "unused"]
      BY <3>2 DEF OldProfile
    <3> QED BY <3>3, <3>4
  <2> QED BY <2>1, <2>2 DEF Init
<1>2. HistoryInv
  <2>1. changes \in 0..MaxChanges /\ faults \in 0..MaxFaults
    BY ProfileAssumption DEF Init
  <2> QED BY <1>1, <2>1 DEF Init, HistoryInv
<1>3. Idle \in WorkType /\ Idle.at = "idle"
  BY NoKeyType DEF Idle, WorkType, WorkPlaces
<1>4. DbInv
  BY <1>1, <1>3, NoKeyType DEF Init, DbInit, DbInv, DbOf, Busy, IsOpen, AtWork, AtLogin
<1> QED BY <1>2, <1>4

LEMMA TypesHold == Spec => [](IInv /\ DbInv /\ HistoryInv)
<1>1. Init => IInv /\ DbInv /\ HistoryInv
  BY InitInv, InitTypes
<1>2. IInv /\ DbInv /\ HistoryInv /\ [Next]_vars => IInv' /\ DbInv' /\ HistoryInv'
  BY NextInv, NextDb, NextHistory
<1> QED BY <1>1, <1>2, PTL DEF Spec

\* For any processes, names and identities: the files and the state of every process have
\* their types, the worker thread is at work only for a profile that is running, and a process
\* keeps a second name only while it renames.
THEOREM TypeOKHolds == Spec => []TypeOK
<1>1. IInv /\ DbInv /\ HistoryInv => TypeOK
  <2> SUFFICES ASSUME IInv, DbInv, HistoryInv PROVE TypeOK
    OBVIOUS
  <2>1. DbTypeOK
    <3>1. ASSUME NEW p \in Procs
          PROVE  /\ work[p].at \in WorkPlaces /\ work[p].key \in Keys /\ work[p].upgrade \in BOOLEAN
                 /\ IsOpen(p) \/ Busy(p) => path[p] # NoName
      BY LockerAssumption DEF DbInv, DbOf, WorkType
    <3> QED BY <3>1 DEF DbInv, DbTypeOK, WorkPlaces
  <2>2. ASSUME NEW p \in Procs
        PROVE  /\ at[p] \in Places
               /\ AtWork(p) => prof[p] # NoProfile /\ path[p] # NoName
               /\ Busy(p) => at[p] = "running"
               /\ newName[p] # NoName => at[p] \in Renaming
    BY LockerAssumption, ProfileAssumption DEF IInv, TypeInv, PlacesInv, DbInv, DbOf
  <2>3. LockTypeOK /\ tox \in [Names -> ToxFile \cup {Absent}] /\ newName \in [Procs -> Names \cup {NoName}]
    BY DEF IInv, TypeInv
  <2> QED BY <2>1, <2>2, <2>3 DEF TypeOK, HistoryInv, Places, Renaming
<1> QED BY <1>1, TypesHold, PTL
=============================================================================
