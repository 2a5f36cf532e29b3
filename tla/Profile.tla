-------------------------------- MODULE Profile --------------------------------
(* Profile and ProfileLocker with the database: several qTox processes over one *)
(* directory of profiles.  A profile is its <name>.tox file, which holds the    *)
(* identity, and its database; the two are changed one after the other, and a   *)
(* process can stop between any two steps.                                      *)
EXTENDS RawDatabase, Naturals
CONSTANTS
    NoProfile,
    MaxChanges,     \* passwords set, profiles renamed and removed
    MaxFaults       \* crashes, failing statements, lock files that somebody deletes

\* A <name>.tox file, and the Profile object.
ToxFile == [id : Ids, password : Passwords \union {NoPassword}]
ProfileObject == [name : Names, id : Ids, password : Passwords \union {NoPassword}, renamed : BOOLEAN]

ASSUME ProfileAssumption ==
    /\ MaxChanges \in Nat /\ MaxFaults \in Nat
    /\ Absent \notin ToxFile /\ NoProfile \notin ProfileObject

VARIABLES
    tox,        \* the files <name>.tox
    prof,       \* the Profile object of each process
    at,         \* what the GUI thread of each process is at
    newName,    \* the argument of rename
    changes, faults,
    \* History variables:
    life,       \* of each identity: "unused", "created", "started" (has a history), "removed"
    harmed,     \* identities a change of which was cut short
    strayed,    \* identities whose database did not follow a new name
    shared,     \* identities that two processes had at once
    lost        \* has somebody deleted a lock file

counters == <<changes, faults>>
history == <<life, harmed, strayed, shared, lost>>
vars == <<lockVars, dbVars, tox, prof, at, newName, counters, history>>
-----------------------------------------------------------------------------
Goto(p, place) == at' = [at EXCEPT ![p] = place]
\* After a profile is removed or logged out its object and its Core live behind the login
\* screen ("loggedOut") until the next profile is there.
AtLogin(p) == at[p] \in {"login", "loggedOut"}
AtWork(p) == ~AtLogin(p) /\ at[p] # "aborted"
GuiFree(p) == at[p] = "running" /\ ~Busy(p)
DbKey(p) == Key(prof[p].password, prof[p].id)
NewProfile(n, id, password) ==
    [name |-> n, id |-> id, password |-> password, renamed |-> FALSE]

\* Names with files that p may still change.
Uses(p) ==
    IF AtWork(p) THEN {prof[p].name, newName[p]} \union {n \in {path[p]} : IsOpen(p) \/ Busy(p)}
    ELSE {}

\* The identities that p and others have at once when p takes name n for id.
Disturbed(p, n, id) ==
    LET others == {q \in Procs \ {p} : n \in Uses(q)}
    IN IF others = {} THEN {} ELSE {id} \union {prof[q].id : q \in others}

Change == changes < MaxChanges /\ changes' = changes + 1 /\ UNCHANGED faults
Fault == faults < MaxFaults /\ faults' = faults + 1 /\ UNCHANGED changes

Harm(p) == harmed' = harmed \union {prof[p].id}
Stray(p) == strayed' = strayed \union {prof[p].id}
HarmUnlessUsable(p) == IF Usable(p) THEN UNCHANGED harmed ELSE Harm(p)
-----------------------------------------------------------------------------
(* The login screen. *)

\* loadProfile: the profile is locked, its tox file is read, its database is opened.  A wrong
\* password has the lock released at once.
LoadProfile(p, n) ==
    /\ AtLogin(p) /\ ~HasLock(p) /\ tox[n] # Absent
    /\ Lock(p, n)
    /\ prof' = [prof EXCEPT ![p] = NewProfile(n, tox[n].id, tox[n].password)]
    /\ OpenDatabase(p, n, Key(tox[n].password, tox[n].id))
    /\ shared' = shared \union Disturbed(p, n, tox[n].id)
    /\ Goto(p, "running")
    /\ UNCHANGED <<tox, newName, counters, life, harmed, strayed, lost>>

\* createProfile: the tox file is written once the Core is there (initCore).
CreateProfile(p, n, id, password) ==
    /\ AtLogin(p) /\ ~HasLock(p) /\ tox[n] = Absent
    /\ life[id] = "unused"
    /\ Lock(p, n)
    /\ prof' = [prof EXCEPT ![p] = NewProfile(n, id, password)]
    /\ tox' = [tox EXCEPT ![n] = [id |-> id, password |-> password]]
    /\ OpenDatabase(p, n, Key(password, id))
    /\ life' = [life EXCEPT ![id] = "created"]
    /\ shared' = shared \union Disturbed(p, n, id)
    /\ Goto(p, "running")
    /\ UNCHANGED <<newName, counters, harmed, strayed, lost>>

\* loadDatabase.  The database that is new has all the history of an identity that had none.
OpenFirstTime(p) ==
  LET id == prof[p].id
      first == IF life[id] = "created" THEN {id} ELSE {}
  IN /\ OpenFirst(p, NewFile(hexKey[p], first))
     /\ life' = [life EXCEPT ![id] = IF id \in first /\ id \in db'[path[p]].of THEN "started" ELSE @]
     /\ UNCHANGED <<lockVars, tox, prof, at, newName, counters, harmed, strayed, shared, lost>>

DatabaseStep(p) ==
    /\ \/ OpenWithOldSalt(p) \/ UpgradeSalt(p, DbKey(p))
       \/ FinishExport(p) \/ RemoveOld(p) \/ RenameExport(p)
    /\ UNCHANGED <<lockVars, tox, prof, at, newName, counters, history>>

\* The first message of an identity that has been given a database it did not make.
AddNewMessage(p) ==
    /\ GuiFree(p) /\ Usable(p)
    /\ life[prof[p].id] = "created"
    /\ db' = [db EXCEPT ![path[p]].of = @ \union {prof[p].id}]
    /\ life' = [life EXCEPT ![prof[p].id] = "started"]
    /\ UNCHANGED <<lockVars, tmp, bak, path, hexKey, conn, work, tox, prof, at, newName, counters,
                   harmed, strayed, shared, lost>>
-----------------------------------------------------------------------------
(* A profile that is running. *)

\* saveToxSave with the lock in place.
Saved(p, password) == tox' = [tox EXCEPT ![prof[p].name] = [id |-> prof[p].id, password |-> password]]

\* Core::saveRequest
SaveToxSave(p) ==
    /\ GuiFree(p) /\ LockFileExists(p)
    /\ Saved(p, prof[p].password)
    /\ UNCHANGED <<lockVars, dbVars, prof, at, newName, counters, history>>

\* assertLock, where any save begins, misses the lock file: it is released
LockFileLost(p) ==
    /\ GuiFree(p) /\ HasLock(p) /\ ~LockFileExists(p)
    /\ Unlock(p)
    /\ Goto(p, "relocking")
    /\ UNCHANGED <<dbVars, tox, prof, newName, counters, history>>

\* and taken again, or the process aborts.
AssertLock(p) ==
    /\ at[p] = "relocking"
    /\ \/ /\ Lock(p, prof[p].name)
          /\ Goto(p, "running")
          /\ shared' = shared \union Disturbed(p, prof[p].name, prof[p].id)
          /\ UNCHANGED <<dbVars, prof>>
       \/ /\ lockFile[prof[p].name] # Nobody
          /\ Goto(p, "aborted")
          /\ Forget(p)
          /\ prof' = [prof EXCEPT ![p] = NoProfile]
          /\ UNCHANGED <<lockVars, db, tmp, bak, shared>>
    /\ UNCHANGED <<tox, newName, counters, life, harmed, strayed, lost>>

\* setPassword saves the tox file,
SetPassword(p, password) ==
    /\ GuiFree(p) /\ LockFileExists(p) /\ Change
    /\ prof' = [prof EXCEPT ![p].password = password]
    /\ Saved(p, password)
    /\ Goto(p, "password")
    /\ UNCHANGED <<lockVars, dbVars, newName, history>>

\* then has the database changed, which may fail.
ChangeDbPassword(p) ==
    /\ at[p] = "password"
    /\ Goto(p, "running")
    /\ \/ /\ IsOpen(p) /\ SetDbPassword(p, DbKey(p))
          /\ HarmUnlessUsable(p)
          /\ UNCHANGED counters
       \/ /\ ~IsOpen(p)
          /\ Harm(p)
          /\ UNCHANGED <<dbVars, counters>>
       \/ /\ IsOpen(p) /\ FailRekey(p)
          /\ Fault /\ Harm(p)
    /\ UNCHANGED <<lockVars, tox, prof, newName, life, strayed, shared, lost>>

DatabaseFails(p) ==
    /\ FailExport(p) \/ (work[p].at = "rekeying" /\ FailRekey(p))
    /\ Fault /\ Harm(p)
    /\ UNCHANGED <<lockVars, tox, prof, at, newName, life, strayed, shared, lost>>

\* Mutant: the new name is not locked.
RenameUnlocked(p, n) ==
    /\ GuiFree(p) /\ Change
    /\ tox[n] = Absent
    /\ newName' = [newName EXCEPT ![p] = n]
    /\ shared' = shared \union Disturbed(p, n, prof[p].id)
    /\ Goto(p, "renaming")
    /\ UNCHANGED <<lockVars, dbVars, tox, prof, life, harmed, strayed, lost>>

\* renameProfile: the new name is locked and the old one released,
Rename(p, n) ==
    /\ GuiFree(p) /\ Change
    /\ tox[n] = Absent
    /\ Lock(p, n)
    /\ newName' = [newName EXCEPT ![p] = n]
    /\ shared' = shared \union Disturbed(p, n, prof[p].id)
    /\ Goto(p, "renaming")
    /\ UNCHANGED <<dbVars, tox, prof, life, harmed, strayed, lost>>

\* then the tox file gets the new name, unless there is one,
RenameTox(p) ==
    /\ at[p] = "renaming"
    /\ tox' = IF tox[newName[p]] # Absent THEN tox
              ELSE [tox EXCEPT ![newName[p]] = tox[prof[p].name], ![prof[p].name] = Absent]
    /\ Goto(p, "renamingDb")
    /\ UNCHANGED <<lockVars, dbVars, prof, newName, counters, history>>

\* then the database, if it is open and the name is free; whether it worked is not asked.
RenameDatabase(p) ==
    /\ at[p] = "renamingDb"
    /\ IF IsOpen(p) THEN RenameDb(p, newName[p]) ELSE UNCHANGED dbVars
    /\ IF path'[p] = newName[p] THEN UNCHANGED strayed ELSE Stray(p)
    /\ prof' = [prof EXCEPT ![p].name = newName[p], ![p].renamed = TRUE]
    /\ newName' = [newName EXCEPT ![p] = NoName]
    /\ Goto(p, "running")
    /\ UNCHANGED <<lockVars, tox, counters, life, harmed, shared, lost>>

\* remove: the lock is released first,
Remove(p) ==
    /\ GuiFree(p) /\ Change
    /\ life' = [life EXCEPT ![prof[p].id] = "removed"]
    /\ Unlock(p)
    /\ Goto(p, "removing")
    /\ UNCHANGED <<dbVars, tox, prof, newName, harmed, strayed, shared, lost>>

\* then the tox file goes,
RemoveTox(p) ==
    /\ at[p] = "removing"
    /\ tox' = [tox EXCEPT ![prof[p].name] = Absent]
    /\ Goto(p, "removingDb")
    /\ UNCHANGED <<lockVars, dbVars, prof, newName, counters, history>>

\* then the database, if it is open.  showLogin follows and finds nothing to save.
RemoveDatabase(p) ==
    /\ at[p] = "removingDb"
    /\ IF IsOpen(p) THEN RemoveDb(p) ELSE Forget(p) /\ UNCHANGED <<db, tmp, bak>>
    /\ HarmUnlessUsable(p)
    /\ prof' = [prof EXCEPT ![p] = NoProfile]
    /\ Goto(p, "loggedOut")
    /\ UNCHANGED <<lockVars, tox, newName, counters, life, strayed, shared, lost>>

\* Mutant: the profile is logged out while its database is being opened.
LogoutWhileOpening(p) ==
    /\ at[p] = "running" /\ LockFileExists(p)
    /\ Saved(p, prof[p].password)
    /\ Unlock(p)
    /\ prof' = [prof EXCEPT ![p] = NoProfile]
    /\ Goto(p, "loggedOut")
    /\ UNCHANGED <<dbVars, newName, counters, history>>

\* showLogin: the profile is saved and unlocked.  Its database takes no part any more.
Logout(p) ==
    /\ GuiFree(p) /\ LockFileExists(p)
    /\ Saved(p, prof[p].password)
    /\ Unlock(p)
    /\ Forget(p)
    /\ prof' = [prof EXCEPT ![p] = NoProfile]
    /\ Goto(p, "loggedOut")
    /\ UNCHANGED <<db, tmp, bak, newName, counters, history>>

\* A save request of the Core of a profile that is removed or logged out: an assertion, or
\* assertLock, which finds no lock, aborts the process.
SaveAfterLogout(p) ==
    /\ at[p] = "loggedOut"
    /\ Goto(p, "aborted")
    /\ UNCHANGED <<lockVars, dbVars, tox, prof, newName, counters, history>>
-----------------------------------------------------------------------------
(* What happens to a process. *)

\* The steps after which a crash leaves a profile between two states.  A crash while the
\* tox file is about to be renamed, while the database is opened (but for an export) or
\* between the two steps of the swap is not among them.
CutShort(p) ==
    \/ at[p] \in {"password", "removing", "removingDb"}
    \/ work[p].at \in {"exporting", "swapping"}

Crash(p) ==
    /\ AtWork(p) /\ Fault
    /\ IF CutShort(p) THEN Harm(p) ELSE UNCHANGED harmed
    /\ IF at[p] = "renamingDb" THEN Stray(p) ELSE UNCHANGED strayed
    /\ Abandon(p)
    /\ Forget(p)
    /\ prof' = [prof EXCEPT ![p] = NoProfile]
    /\ newName' = [newName EXCEPT ![p] = NoName]
    /\ Goto(p, "login")
    /\ UNCHANGED <<db, tmp, bak, tox, life, shared, lost>>

Restart(p) ==
    /\ at[p] = "aborted"
    /\ Goto(p, "login")
    /\ UNCHANGED <<lockVars, dbVars, tox, prof, newName, counters, history>>

LockFileDeleted(n) ==
    /\ LoseLockFile(n) /\ Fault
    /\ lost' = TRUE
    /\ UNCHANGED <<dbVars, tox, prof, at, newName, life, harmed, strayed, shared>>
-----------------------------------------------------------------------------
\* Profiles of older versions, with files that await one upgrade or both.
OldFile(id, password, salt, latest) ==
    [NewFile(Key(password, salt), {id}) EXCEPT !.latest = latest]

NoProfiles ==
    /\ tox = [n \in Names |-> Absent]
    /\ db = [n \in Names |-> Absent]
    /\ life = [i \in Ids |-> "unused"]

OldProfile(n, i, q, s) ==
    /\ tox = [m \in Names |-> IF m = n THEN [id |-> i, password |-> q] ELSE Absent]
    /\ db = [m \in Names |-> IF m = n THEN OldFile(i, q, s, FALSE) ELSE Absent]
    /\ life = [j \in Ids |-> IF j = i THEN "started" ELSE "unused"]

Init ==
    /\ LockInit /\ DbInit
    /\ prof = [p \in Procs |-> NoProfile]
    /\ at = [p \in Procs |-> "login"]
    /\ newName = [p \in Procs |-> NoName]
    /\ changes = 0 /\ faults = 0
    /\ harmed = {} /\ strayed = {} /\ shared = {} /\ lost = FALSE
    /\ \/ NoProfiles
       \/ \E n \in Names, i \in Ids, q \in Passwords : \E s \in {i, StaticSalt} : OldProfile(n, i, q, s)

ProfileStep(p) ==
    \/ OpenFirstTime(p) \/ DatabaseStep(p) \/ DatabaseFails(p) \/ AddNewMessage(p)
    \/ SaveToxSave(p) \/ LockFileLost(p) \/ AssertLock(p)
    \/ \E q \in Passwords \union {NoPassword} : SetPassword(p, q)
    \/ ChangeDbPassword(p)
    \/ \E n \in Names : Rename(p, n)
    \/ RenameTox(p) \/ RenameDatabase(p)
    \/ Remove(p) \/ RemoveTox(p) \/ RemoveDatabase(p)
    \/ Logout(p)

Next ==
    \/ \E p \in Procs :
         \/ \E n \in Names : LoadProfile(p, n)
         \/ \E n \in Names, i \in Ids, q \in Passwords \union {NoPassword} :
               CreateProfile(p, n, i, q)
         \/ ProfileStep(p)
         \/ SaveAfterLogout(p) \/ Crash(p) \/ Restart(p)
    \/ \E n \in Names : LockFileDeleted(n)

Spec == Init /\ [][Next]_vars
-----------------------------------------------------------------------------
(* Properties. *)

\* Types; the worker thread is at work only for a profile that is running.
TypeOK ==
    /\ LockTypeOK /\ DbTypeOK
    /\ tox \in [Names -> ToxFile \union {Absent}]
    /\ newName \in [Procs -> Names \union {NoName}]
    /\ life \in [Ids -> {"unused", "created", "started", "removed"}]
    /\ harmed \subseteq Ids /\ strayed \subseteq Ids /\ shared \subseteq Ids
    /\ changes \in 0..MaxChanges /\ faults \in 0..MaxFaults /\ lost \in BOOLEAN
    /\ \A p \in Procs :
         /\ at[p] \in {"login", "loggedOut", "running", "relocking", "password", "renaming", "renamingDb",
                       "removing", "removingDb", "aborted"}
         /\ AtWork(p) => prof[p] # NoProfile /\ path[p] # NoName
         /\ Busy(p) => at[p] = "running"
         /\ newName[p] # NoName => at[p] \in {"renaming", "renamingDb"}

\* No process is between the two parts of a change of identity i.
Quiet(i) == \A p \in Procs : AtWork(p) /\ prof[p].id = i => GuiFree(p)

Excused == harmed \union strayed \union shared

\* Where the history of n is, for the next one to open it.
OnDisk(n) == IF db[n] # Absent THEN db[n] ELSE tmp[n]

\* The password that opens a profile opens its history (profile.cpp:957).
HistoryFoundAgain ==
    \A n \in Names : tox[n] # Absent =>
      LET id == tox[n].id
      IN life[id] = "started" /\ id \notin Excused /\ Quiet(id) =>
           /\ OnDisk(n) # Absent /\ id \in OnDisk(n).of
           /\ OnDisk(n).key \in {Key(tox[n].password, id), Key(tox[n].password, StaticSalt)}

\* commitDbSwap: "we can recover no matter what".  Whatever was cut short, an export and
\* its swap included, the history of a profile that nobody removed is on the disk, where the
\* next one to open it finds it, unless two processes had the profile or its database did
\* not follow its name.
HistoryKept ==
    \A i \in Ids \ (strayed \union shared) : life[i] = "started" =>
        \E n \in Names : OnDisk(n) # Absent /\ i \in OnDisk(n).of

\* A profile that is running has its history, unless it was renamed with a key that was not
\* up to date.
HistoryOpens ==
    \A p \in Procs : GuiFree(p) /\ life[prof[p].id] = "started" /\ prof[p].id \notin Excused =>
      \/ Usable(p)
      \/ prof[p].renamed /\ db[path[p]] # Absent /\ db[path[p]].key # hexKey[p]

\* Nobody sees the history of somebody else.
NoForeignHistory ==
    \A p \in Procs : AtWork(p) /\ Usable(p) =>
        db[path[p]].of \subseteq {prof[p].id} \union Excused

\* Whoever was removed, nothing that is opened again has the profile or its history, under
\* any name: no tox file, no database, and no export, which open would restore.  The backup
\* of a salt upgrade is not among them: see RemovedPermanently.
NothingLeftToOpen ==
    \A i \in Ids \ Excused : life[i] = "removed" /\ Quiet(i) =>
      \A n \in Names : /\ tox[n] # Absent => tox[n].id # i
                       /\ db[n] # Absent => i \notin db[n].of
                       /\ tmp[n] # Absent => i \notin tmp[n].of

\* ProfileLocker: "multiple instances can not use the same profile".
ExclusiveUse ==
    ~lost => \A p, q \in Procs :
      at[p] \in {"running", "password"} /\ at[q] \in {"running", "password"} /\ p # q =>
          prof[p].name # prof[q].name

\* A name that another process still uses is taken only from one that renames or removes
\* its profile, which has released its lock first, or whose database did not follow it.
TakenOnlyUnlocked ==
    [][\A p, q \in Procs :
          AtLogin(p) /\ curLock'[p] \in Uses(q) /\ p # q /\ ~lost /\ HasLock(p)' =>
              \/ at[q] \in {"renaming", "renamingDb", "removing", "removingDb"}
              \/ path[q] # prof[q].name]_vars
-----------------------------------------------------------------------------
(* What the code says of itself, and does not keep. *)

\* Profile::remove "Removes the profile permanently" (profile.cpp:842).
RemovedPermanently ==
    \A i \in Ids \ Excused : life[i] = "removed" /\ Quiet(i) =>
      \A n \in Names : \A file \in {db[n], tmp[n], bak[n]} \ {Absent} : i \notin file.of

\* Profile::saveToxSave asserts that the profile is not removed and that its lock is held.
SavesWithLock == \A p \in Procs : at[p] # "aborted"
=============================================================================
