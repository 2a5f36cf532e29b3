------------------------------ MODULE RawDatabase ------------------------------
(* RawDatabaseImpl: the file of a profile's chat history, the key it is         *)
(* encrypted with, and the changes of the file that replace it as a whole:      *)
(* opening it (with two upgrades), changing its password, renaming, removing.   *)
(* Each runs in the worker thread with the GUI thread waiting for it.  Its      *)
(* comments rely on the profile lock, hence ProfileLocker.                      *)
EXTENDS ProfileLocker
CONSTANTS
    Ids,            \* identities: public keys, which are the salts of new keys
    StaticSalt,     \* the salt of keys of old versions
    Passwords,      \* not empty
    NoPassword,
    Absent          \* no such file

ASSUME DatabaseAssumption ==
    StaticSalt \notin Ids /\ NoPassword \notin Passwords

VARIABLES
    db, tmp,    \* the files <name>.db and <name>.db.tmp
    bak,        \* the files <name>.db.bak, which nothing opens or removes
    path, hexKey, conn,     \* RawDatabaseImpl of each process: path, currentHexKey, sqlite
    work        \* what the worker thread of each process is at

dbVars == <<db, tmp, bak, path, hexKey, conn, work>>

\* deriveKey: an empty password gives the empty key, for which there is no encryption.
Key(password, salt) ==
    [password |-> password, salt |-> IF password = NoPassword THEN StaticSalt ELSE salt]
NoKey == Key(NoPassword, StaticSalt)
Keys == {Key(q, s) : q \in Passwords \union {NoPassword}, s \in Ids \union {StaticSalt}}

\* A database file: its key, whether its cipher parameters are those of SQLCipher 4, the
\* identities all of whose history is in it, and, of an export, whether it has ended.
File == [key : Keys, latest : BOOLEAN, of : SUBSET Ids, whole : BOOLEAN]
NewFile(key, of) == [key |-> key, latest |-> TRUE, of |-> of, whole |-> TRUE]
\* Of a backup nothing is asked but whose history is in it.
Backup == [of : SUBSET Ids]

ASSUME FileAssumption == Absent \notin File \union Backup

\* key is that of the export or of the rekeying, upgrade whether the rekeying of the
\* constructor follows.
Idle == [at |-> "idle", key |-> NoKey, upgrade |-> FALSE]
Busy(p) == work[p].at # "idle"
IsOpen(p) == conn[p] # "closed"
\* A file that another process has removed is lost for the one that has it open.
Usable(p) == conn[p] = "usable" /\ db[path[p]] # Absent

\* The key opens the file, if its cipher parameters are set right.
Fits(key, file) == file.key = key

Stop(p) == work' = [work EXCEPT ![p] = Idle]
Close(p) == conn' = [conn EXCEPT ![p] = "closed"]
-----------------------------------------------------------------------------
(* Opening: the constructor. *)

DbInit ==
    /\ tmp = [n \in Names |-> Absent]
    /\ bak = [n \in Names |-> Absent]
    /\ path = [p \in Procs |-> NoName]
    /\ hexKey = [p \in Procs |-> NoKey]
    /\ conn = [p \in Procs |-> "closed"]
    /\ work = [p \in Procs |-> Idle]

\* The constructor is called with a profile's password and salt.
OpenDatabase(p, n, key) ==
    /\ path' = [path EXCEPT ![p] = n]
    /\ hexKey' = [hexKey EXCEPT ![p] = key]
    /\ work' = [work EXCEPT ![p] = [at |-> "opening", key |-> key, upgrade |-> FALSE]]
    /\ conn' = [conn EXCEPT ![p] = "closed"]
    /\ UNCHANGED <<db, tmp, bak>>

\* Mutant: an export is not looked for.
FoundDatabase(p, new) == IF db[path[p]] # Absent THEN db[path[p]] ELSE new

\* The file that open finds, an export that was left in place of the database included,
\* or the new one that SQLite creates.
Found(p, new) ==
    CASE db[path[p]] # Absent -> db[path[p]]
      [] db[path[p]] = Absent /\ tmp[path[p]] # Absent -> [tmp[path[p]] EXCEPT !.whole = TRUE]
      [] OTHER -> new

\* The export that open has not taken for the database.
Export(p) == IF db[path[p]] = Absent THEN Absent ELSE tmp[path[p]]

\* updateSavedCipherParameters attaches <path>.tmp, and fails if there is a file with
\* tables in it; one that a crash left unfinished may be empty.
CanAttach(p) == Export(p) # Absent => ~Export(p).whole

StartExport(p, key, upgrade) ==
    /\ tmp' = [tmp EXCEPT ![path[p]] = [NewFile(key, {}) EXCEPT !.whole = FALSE]]
    /\ work' = [work EXCEPT ![p] = [at |-> "exporting", key |-> key, upgrade |-> upgrade]]

\* open with a key, and whether to upgrade the salt then.  Without a key nothing is read,
\* and a file that is encrypted is found unusable by History.
Open(p, key, file, upgrade) ==
    /\ db' = [db EXCEPT ![path[p]] = file]
    /\ \/ /\ key = NoKey
          /\ conn' = [conn EXCEPT ![p] = IF Fits(key, file) THEN "usable" ELSE "open"]
          /\ tmp' = [tmp EXCEPT ![path[p]] = Export(p)]
          /\ Stop(p)
       \/ /\ key # NoKey /\ Fits(key, file) /\ file.latest
          /\ conn' = [conn EXCEPT ![p] = "usable"]
          /\ tmp' = [tmp EXCEPT ![path[p]] = Export(p)]
          /\ work' = [work EXCEPT ![p] = IF upgrade THEN [@ EXCEPT !.at = "rekeying"] ELSE Idle]
       \/ /\ key # NoKey /\ Fits(key, file) /\ ~file.latest /\ CanAttach(p)
          /\ conn' = [conn EXCEPT ![p] = "open"]
          /\ StartExport(p, key, upgrade)

\* open returns false.
CannotOpen(p, key, file) == key # NoKey /\ (Fits(key, file) => ~file.latest /\ Export(p) # Absent)

OpenFirst(p, new) ==
    /\ work[p].at = "opening"
    /\ \/ /\ Open(p, hexKey[p], Found(p, new), FALSE)
          /\ UNCHANGED bak
       \/ /\ CannotOpen(p, hexKey[p], Found(p, new))
          /\ db' = [db EXCEPT ![path[p]] = Found(p, new)]
          /\ tmp' = [tmp EXCEPT ![path[p]] = Export(p)]
          /\ work' = [work EXCEPT ![p].at = "fallback"]
          /\ UNCHANGED <<bak, conn>>
    /\ UNCHANGED <<path, hexKey>>

\* QFile::copy to <path>.bak fails if there is one, or nothing to copy.
CanBackup(p) == db[path[p]] # Absent /\ bak[path[p]] = Absent

\* The backup is made, and the key of old versions is tried, which is upgraded if it was.
OpenWithOldSalt(p) ==
  LET old == Key(hexKey[p].password, StaticSalt)
      file == Found(p, NewFile(old, {}))
  IN /\ work[p].at = "fallback"
     /\ bak' = IF CanBackup(p) THEN [bak EXCEPT ![path[p]] = [of |-> db[path[p]].of]] ELSE bak
     /\ hexKey' = [hexKey EXCEPT ![p] = old]
     /\ \/ Open(p, old, file, CanBackup(p))
        \/ /\ CannotOpen(p, old, file)
           /\ Stop(p)
           /\ UNCHANGED <<db, tmp, conn>>
     /\ UNCHANGED path

\* setPassword at the end of the constructor: the key with the salt of the profile.
UpgradeSalt(p, key) ==
    /\ work[p].at = "rekeying"
    /\ db' = IF Usable(p) THEN [db EXCEPT ![path[p]].key = key] ELSE db
    /\ tmp' = [tmp EXCEPT ![path[p]] = Absent]
    /\ Stop(p)
    /\ UNCHANGED <<bak, path, hexKey, conn>>
-----------------------------------------------------------------------------
(* An export: of encryptDatabase, decryptDatabase, updateSavedCipherParameters. *)

FinishExport(p) ==
    /\ work[p].at = "exporting"
    /\ tmp' = IF tmp[path[p]] = Absent \/ db[path[p]] = Absent THEN tmp
              ELSE [tmp EXCEPT ![path[p]].whole = TRUE, ![path[p]].of = db[path[p]].of]
    /\ work' = [work EXCEPT ![p].at = "swapping"]
    /\ UNCHANGED <<db, bak, path, hexKey, conn>>

\* A statement fails, and the database is closed; the constructor then tries the old salt.
FailExport(p) ==
    /\ work[p].at = "exporting"
    /\ Close(p)
    /\ IF work[p].key = hexKey[p] /\ hexKey[p].salt # StaticSalt
       THEN work' = [work EXCEPT ![p].at = "fallback"]
       ELSE Stop(p)
    /\ UNCHANGED <<db, tmp, bak, path, hexKey>>

\* Mutant: the swap begins before the export has ended.
RemoveOldEarly(p) ==
    /\ work[p].at \in {"exporting", "swapping"}
    /\ Close(p)
    /\ db' = [db EXCEPT ![path[p]] = Absent]
    /\ work' = [work EXCEPT ![p].at = "swapped"]
    /\ UNCHANGED <<tmp, bak, path, hexKey>>

\* commitDbSwap: the database is removed,
RemoveOld(p) ==
    /\ work[p].at = "swapping"
    /\ Close(p)
    /\ db' = [db EXCEPT ![path[p]] = Absent]
    /\ work' = [work EXCEPT ![p].at = "swapped"]
    /\ UNCHANGED <<tmp, bak, path, hexKey>>

\* Mutant: the export is opened with the key of the database it replaces.
RenameExportOldKey(p) ==
  LET file == Found(p, NewFile(work[p].key, {}))
  IN /\ work[p].at = "swapped"
     /\ db' = [db EXCEPT ![path[p]] = file]
     /\ tmp' = [tmp EXCEPT ![path[p]] = Export(p)]
     /\ conn' = [conn EXCEPT ![p] = IF Fits(hexKey[p], file) THEN "usable" ELSE "closed"]
     /\ Stop(p)
     /\ UNCHANGED <<bak, path, hexKey>>

\* then its export takes its name, and is opened.
RenameExport(p) ==
  LET file == Found(p, NewFile(work[p].key, {}))
      opened == Fits(work[p].key, file)
  IN /\ work[p].at = "swapped"
     /\ db' = [db EXCEPT ![path[p]] = file]
     /\ tmp' = [tmp EXCEPT ![path[p]] = Export(p)]
     /\ hexKey' = [hexKey EXCEPT ![p] = work[p].key]
     /\ conn' = [conn EXCEPT ![p] = IF opened THEN "usable" ELSE "closed"]
     /\ work' = [work EXCEPT ![p] = IF opened /\ @.upgrade THEN [@ EXCEPT !.at = "rekeying"] ELSE Idle]
     /\ UNCHANGED <<bak, path>>
-----------------------------------------------------------------------------
(* setPassword, rename, remove. *)

\* A password in place of another: PRAGMA rekey.  currentHexKey is not changed.
Rekey(p, key) ==
    /\ db' = [db EXCEPT ![path[p]].key = key]
    /\ tmp' = [tmp EXCEPT ![path[p]] = Absent]
    /\ UNCHANGED <<bak, path, hexKey, conn, work>>

\* A first password, or none any more.
ChangeEncryption(p, key) ==
    /\ StartExport(p, key, FALSE)
    /\ UNCHANGED <<db, bak, path, hexKey, conn>>

\* setPassword of an open database; one that History could not use cannot be exported.
SetDbPassword(p, key) ==
    CASE hexKey[p] # NoKey /\ key # NoKey /\ Usable(p) -> Rekey(p, key)
      [] (hexKey[p] = NoKey) # (key = NoKey) /\ Usable(p) -> ChangeEncryption(p, key)
      [] hexKey[p] = NoKey /\ key = NoKey ->
             /\ tmp' = [tmp EXCEPT ![path[p]] = Absent]
             /\ UNCHANGED <<db, bak, path, hexKey, conn, work>>
      [] OTHER ->
             /\ tmp' = [tmp EXCEPT ![path[p]] = Absent]
             /\ Close(p)
             /\ UNCHANGED <<db, bak, path, hexKey, work>>

\* The statement that changes the key fails.
FailRekey(p) ==
    /\ tmp' = [tmp EXCEPT ![path[p]] = Absent]
    /\ Close(p) /\ Stop(p)
    /\ UNCHANGED <<db, bak, path, hexKey>>

\* Mutant: the database is copied.
RenameDbCopied(p, m) ==
    /\ db' = [db EXCEPT ![m] = db[path[p]]]
    /\ path' = [path EXCEPT ![p] = m]
    /\ UNCHANGED <<tmp, bak, hexKey, conn, work>>

\* rename, of an open database: opened again with currentHexKey.
RenameDb(p, m) ==
    \/ /\ path[p] = m \/ db[m] # Absent
       /\ UNCHANGED dbVars
    \/ /\ path[p] # m /\ db[m] = Absent /\ db[path[p]] = Absent
       /\ Close(p)
       /\ UNCHANGED <<db, tmp, bak, path, hexKey, work>>
    \/ /\ path[p] # m /\ db[m] = Absent /\ db[path[p]] # Absent
       /\ db' = [db EXCEPT ![m] = db[path[p]], ![path[p]] = Absent]
       /\ path' = [path EXCEPT ![p] = m]
       /\ conn' = [conn EXCEPT ![p] = IF Fits(hexKey[p], db[path[p]]) THEN "usable"
                                      ELSE IF hexKey[p] = NoKey THEN "open" ELSE "closed"]
       /\ UNCHANGED <<tmp, bak, hexKey, work>>

\* The object is deleted: with its profile, or in a crash.
Forget(p) ==
    /\ path' = [path EXCEPT ![p] = NoName]
    /\ hexKey' = [hexKey EXCEPT ![p] = NoKey]
    /\ conn' = [conn EXCEPT ![p] = "closed"]
    /\ work' = [work EXCEPT ![p] = Idle]

\* Mutant: the database is only closed.
RemoveDbClosed(p) ==
    /\ Forget(p)
    /\ UNCHANGED <<db, tmp, bak>>

\* remove, of an open database.  Exports and backups are left.
RemoveDb(p) ==
    /\ db' = [db EXCEPT ![path[p]] = Absent]
    /\ Forget(p)
    /\ UNCHANGED <<tmp, bak>>
-----------------------------------------------------------------------------
DbTypeOK ==
    /\ db \in [Names -> File \union {Absent}] /\ tmp \in [Names -> File \union {Absent}]
    /\ bak \in [Names -> Backup \union {Absent}]
    /\ path \in [Procs -> Names \union {NoName}]
    /\ hexKey \in [Procs -> Keys]
    /\ conn \in [Procs -> {"closed", "open", "usable"}]
    /\ \A p \in Procs :
         /\ work[p].at \in {"idle", "opening", "fallback", "exporting", "swapping", "swapped", "rekeying"}
         /\ work[p].key \in Keys /\ work[p].upgrade \in BOOLEAN
         /\ IsOpen(p) \/ Busy(p) => path[p] # NoName
=============================================================================
