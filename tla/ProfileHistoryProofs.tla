------------------------- MODULE ProfileHistoryProofs -------------------------
(* Proofs about Profile: whose history is where.  As long as no two processes  *)
(* have had an identity at once, its files are changed by the process that has *)
(* it and by no other (NamesInv).  What is left is what one process does to     *)
(* them, step by step, and in what state it leaves them when it crashes: that    *)
(* the history is somewhere (KeptInv), nowhere else (LocInv), and under a key    *)
(* that the password of the profile gives (KeyInv).                             *)
EXTENDS ProfileProofs

-----------------------------------------------------------------------------
(* Who uses which names *)

Base == IInv /\ DbInv /\ HistoryInv

HasId(n, i) == tox[n] # Absent /\ tox[n].id = i
Runs(p, i) == AtWork(p) /\ prof[p].id = i
RunBySomeone(i) == \E p \in Procs : Runs(p, i)
Holds(file, i) == file # Absent /\ i \in file.of
\* The name that the tox file of p has.
ToxName(p) == IF at[p] = "renamingDb" THEN newName[p] ELSE prof[p].name
OwnToxFile(p) == [id |-> prof[p].id, password |-> prof[p].password]
Removing(p) == at[p] \in {"removing", "removingDb"}

\* Two processes use one name only if both have been seen to share it,
ApartInv ==
    \A p, q \in Procs, n \in Names :
        p # q /\ n \in Uses(p) /\ n \in Uses(q) => prof[p].id \in shared /\ prof[q].id \in shared

\* and a tox file under a name that a process uses is its own.
ToxApartInv ==
    \A q \in Procs, n \in Names :
        n \in Uses(q) /\ tox[n] # Absent => HasId(n, prof[q].id) \/ tox[n].id \in shared

OnceOf(i) == \A n, m \in Names : HasId(n, i) /\ HasId(m, i) => n = m
RunOnceOf(i) == \A p, q \in Procs : Runs(p, i) /\ Runs(q, i) => p = q
ExistsOf(i) == life[i] \in {"created", "started"} => \E n \in Names : HasId(n, i)
OnceInv == \A i \in Ids \ shared : OnceOf(i) /\ RunOnceOf(i) /\ ExistsOf(i)

UnusedOf(i) ==
    life[i] = "unused" =>
      /\ ~RunBySomeone(i)
      /\ \A n \in Names : ~HasId(n, i) /\ ~Holds(db[n], i) /\ ~Holds(tmp[n], i)
UnusedInv == \A i \in Ids : UnusedOf(i)

\* The database is under the name of the profile, and so is the tox file.
OwnNames(p) ==
    AtWork(p) =>
      /\ prof[p].id \notin strayed => path[p] = prof[p].name
      /\ Removing(p) => life[prof[p].id] = "removed"
      /\ prof[p].id \notin shared =>
           /\ at[p] # "removingDb" => tox[ToxName(p)] = OwnToxFile(p)
           /\ at[p] = "renaming" => tox[newName[p]] = Absent
           /\ \A n \in Names : HasId(n, prof[p].id) => n = ToxName(p) /\ at[p] # "removingDb"

NamesInv ==
    /\ ApartInv /\ ToxApartInv /\ OnceInv /\ UnusedInv
    /\ \A p \in Procs : OwnNames(p)
-----------------------------------------------------------------------------
(* The steps of a process that has identity i, or gets it *)

Local(p) ==
    \A q \in Procs \ {p} :
        /\ at'[q] = at[q] /\ prof'[q] = prof[q] /\ newName'[q] = newName[q] /\ path'[q] = path[q]
        /\ hexKey'[q] = hexKey[q] /\ conn'[q] = conn[q] /\ work'[q] = work[q]

IdStep(p, i) ==
    /\ AtWork(p) => prof[p].id = i
    /\ AtWork(p)' => prof'[p].id = i
    /\ AtWork(p) \/ AtWork(p)'
    /\ \A j \in Ids \ {i} : life'[j] = life[j]
    /\ life[i] = "removed" => life'[i] = "removed"
    /\ shared \subseteq shared' /\ strayed \subseteq strayed' /\ harmed \subseteq harmed'

\* A tox file that changes is under a name of p's, and is p's if it is there afterwards.
ToxStep(p, i) ==
    \A n \in Names : tox'[n] # tox[n] =>
        /\ n \in Uses(p) \/ (tox[n] = Absent /\ n \in Uses(p)')
        /\ tox'[n] # Absent =>
             \/ tox'[n].id = i
             \/ tox'[n].id \in shared /\ \E m \in Names : HasId(m, tox'[n].id)

\* Whoever uses a name that p takes is disturbed.
TakeStep(p, i) ==
    \A n \in Names : n \in Uses(p)' /\ n \notin Uses(p) =>
        /\ \A q \in Procs \ {p} : n \in Uses(q) => i \in shared' /\ prof[q].id \in shared'
        /\ tox'[n] # Absent => tox'[n].id = i

\* Files of databases change under names of p's, and get their histories from such files.
DbStep(p, i) ==
    \A m \in Names : db'[m] # db[m] \/ tmp'[m] # tmp[m] =>
        /\ m \in Uses(p)
        /\ \A j \in Ids \ {i} :
             \/ db'[m] # db[m] /\ Holds(db'[m], j)
             \/ tmp'[m] # tmp[m] /\ Holds(tmp'[m], j)
             => \E x \in Names : x \in Uses(p) /\ (Holds(db[x], j) \/ Holds(tmp[x], j))

Step(p, i) == Local(p) /\ IdStep(p, i) /\ ToxStep(p, i) /\ TakeStep(p, i) /\ DbStep(p, i)

\* What is left to show of the step for the names, after that.
NamesStep(p, i) ==
    /\ OwnNames(p)'
    /\ life'[i] # "unused"
    /\ i \notin shared' =>
         /\ OnceOf(i)' /\ ExistsOf(i)'
         /\ AtWork(p)' => \A q \in Procs \ {p} : ~Runs(q, i)

LEMMA OthersKeep ==
  ASSUME NEW p \in Procs, NEW q \in Procs \ {p}, Local(p)
  PROVE  /\ AtWork(q)' <=> AtWork(q)
         /\ Uses(q)' = Uses(q) /\ ToxName(q)' = ToxName(q) /\ OwnToxFile(q)' = OwnToxFile(q)
         /\ prof'[q] = prof[q] /\ at'[q] = at[q] /\ path'[q] = path[q]
         /\ Removing(q)' <=> Removing(q)
<1>1. /\ at'[q] = at[q] /\ prof'[q] = prof[q] /\ newName'[q] = newName[q] /\ path'[q] = path[q]
      /\ conn'[q] = conn[q] /\ work'[q] = work[q]
  BY DEF Local
<1>2. AtWork(q)' <=> AtWork(q)
  BY <1>1 DEF AtWork, AtLogin
<1>3. Uses(q)' = Uses(q)
  BY <1>1, <1>2 DEF Uses, IsOpen, Busy
<1> QED BY <1>1, <1>2, <1>3 DEF ToxName, OwnToxFile, Removing

LEMMA UsesAtWork ==
  ASSUME NEW p \in Procs, NEW n \in Uses(p)
  PROVE  AtWork(p)
BY DEF Uses

LEMMA NamesStepInv ==
  ASSUME Base, Base', NamesInv, NEW p \in Procs, NEW i \in Ids, Step(p, i), NamesStep(p, i)
  PROVE  NamesInv'
<1> USE DEF Step
<1>0. \A q \in Procs : AtWork(q) => prof[q].id \in Ids
  BY DEF Base, IInv, TypeInv, ProfileObject
<1>1. ApartInv'
  <2> SUFFICES ASSUME NEW q \in Procs \ {p}, NEW n \in Names, n \in Uses(p)', n \in Uses(q)
               PROVE  i \in shared' /\ prof[q].id \in shared'
    <3>1. ASSUME NEW q \in Procs, NEW r \in Procs, NEW n \in Names, q # r, n \in Uses(q)', n \in Uses(r)',
                 q # p, r # p
          PROVE  prof'[q].id \in shared' /\ prof'[r].id \in shared'
      BY <3>1, OthersKeep DEF NamesInv, ApartInv, IdStep
    <3>2. \A q \in Procs \ {p}, n \in Names : n \in Uses(p)' /\ n \in Uses(q)' =>
              prof'[p].id \in shared' /\ prof'[q].id \in shared'
      BY UsesAtWork, OthersKeep DEF IdStep, Uses
    <3> QED BY <3>1, <3>2 DEF ApartInv
  <2>1. CASE n \in Uses(p)
    BY <2>1, UsesAtWork DEF NamesInv, ApartInv, IdStep
  <2>2. CASE n \notin Uses(p)
    BY <2>2 DEF TakeStep
  <2> QED BY <2>1, <2>2
\* A tox file that appears belongs to p, and whoever uses its name has been disturbed.
<1>2. ASSUME NEW n \in Names, NEW q \in Procs \ {p}, tox'[n] # tox[n], n \in Uses(q)
      PROVE  i \in shared' /\ prof[q].id \in shared'
  <2>1. CASE n \in Uses(p)
    BY <1>2, <2>1, UsesAtWork DEF NamesInv, ApartInv, IdStep
  <2>2. CASE n \in Uses(p)' /\ n \notin Uses(p)
    BY <1>2, <2>2 DEF TakeStep
  <2> QED BY <1>2, <2>1, <2>2 DEF ToxStep
<1>3. ToxApartInv'
  <2> SUFFICES ASSUME NEW q \in Procs, NEW n \in Names, n \in Uses(q)', tox'[n] # Absent
               PROVE  tox'[n].id = prof'[q].id \/ tox'[n].id \in shared'
    BY DEF ToxApartInv, HasId
  <2>1. CASE q = p
    <3>1. AtWork(p)' /\ prof'[p].id = i
      BY <2>1 DEF Uses, IdStep
    <3>2. CASE tox'[n] # tox[n]
      BY <2>1, <3>1, <3>2 DEF ToxStep, IdStep
    <3>3. CASE tox'[n] = tox[n] /\ n \in Uses(p)
      BY <2>1, <3>1, <3>3, UsesAtWork DEF NamesInv, ToxApartInv, HasId, IdStep
    <3>4. CASE n \notin Uses(p)
      BY <2>1, <3>1, <3>4 DEF TakeStep
    <3> QED BY <3>2, <3>3, <3>4
  <2>2. CASE q # p
    <3>1. n \in Uses(q) /\ prof'[q] = prof[q]
      BY <2>2, OthersKeep
    <3>2. CASE tox'[n] # tox[n]
      BY <1>2, <2>2, <3>1, <3>2 DEF ToxStep, IdStep
    <3>3. CASE tox'[n] = tox[n]
      BY <3>1, <3>3 DEF NamesInv, ToxApartInv, HasId, IdStep
    <3> QED BY <3>2, <3>3
  <2> QED BY <2>1, <2>2
\* The files of the others are where they were.
<1>4. ASSUME NEW j \in Ids \ {i}, j \notin shared', NEW n \in Names
      PROVE  HasId(n, j)' <=> HasId(n, j)
  <2>1. CASE tox'[n] = tox[n]
    BY <2>1 DEF HasId
  <2>2. CASE tox'[n] # tox[n]
    <3>1. ~HasId(n, j)'
      BY <1>4, <2>2 DEF ToxStep, IdStep, HasId
    <3>2. ~HasId(n, j)
      <4>1. CASE n \in Uses(p)
        BY <1>4, <4>1, UsesAtWork DEF NamesInv, ToxApartInv, HasId, IdStep
      <4>2. CASE tox[n] = Absent
        BY <4>2 DEF HasId
      <4> QED BY <2>2, <4>1, <4>2 DEF ToxStep
    <3> QED BY <3>1, <3>2
  <2> QED BY <2>1, <2>2
<1>5. ASSUME NEW j \in Ids \ {i}, NEW q \in Procs
      PROVE  Runs(q, j)' <=> Runs(q, j)
  <2>1. CASE q = p
    BY <2>1 DEF Runs, IdStep
  <2>2. CASE q # p
    BY <2>2, OthersKeep DEF Runs
  <2> QED BY <2>1, <2>2
<1>6. OnceInv'
  <2> SUFFICES ASSUME NEW j \in Ids, j \notin shared' PROVE (OnceOf(j) /\ RunOnceOf(j) /\ ExistsOf(j))'
    BY DEF OnceInv
  <2>1. CASE j = i
    <3>1. OnceOf(i)' /\ ExistsOf(i)'
      BY <2>1 DEF NamesStep
    <3>2. RunOnceOf(i)'
      <4>1. ASSUME NEW q \in Procs \ {p}, Runs(q, i)' PROVE ~Runs(p, i)' /\ Runs(q, i)
        BY <2>1, <4>1, OthersKeep DEF NamesStep, Runs
      <4>2. RunOnceOf(i)
        BY <2>1 DEF NamesInv, OnceInv, IdStep
      <4> QED BY <4>1, <4>2 DEF RunOnceOf
    <3> QED BY <2>1, <3>1, <3>2
  <2>2. CASE j # i
    <3>1. OnceOf(j) /\ RunOnceOf(j) /\ ExistsOf(j)
      BY DEF NamesInv, OnceInv, IdStep
    <3>2. life'[j] = life[j]
      BY <2>2 DEF IdStep
    <3>3. OnceOf(j)' /\ ExistsOf(j)'
      BY <1>4, <2>2, <3>1, <3>2 DEF OnceOf, ExistsOf
    <3>4. RunOnceOf(j)'
      BY <1>5, <2>2, <3>1 DEF RunOnceOf
    <3> QED BY <3>3, <3>4
  <2> QED BY <2>1, <2>2
<1>7. UnusedInv'
  <2> SUFFICES ASSUME NEW j \in Ids, life'[j] = "unused"
               PROVE  /\ ~RunBySomeone(j)'
                      /\ \A n \in Names : ~HasId(n, j)' /\ ~Holds(db'[n], j) /\ ~Holds(tmp'[n], j)
    BY DEF UnusedInv, UnusedOf
  <2>1. j # i /\ life[j] = "unused"
    BY DEF NamesStep, IdStep
  <2>2. ~RunBySomeone(j) /\ \A n \in Names : ~HasId(n, j) /\ ~Holds(db[n], j) /\ ~Holds(tmp[n], j)
    BY <2>1 DEF NamesInv, UnusedInv, UnusedOf
  <2>3. ~RunBySomeone(j)'
    BY <1>5, <2>1, <2>2 DEF RunBySomeone
  <2>4. ASSUME NEW n \in Names PROVE ~Holds(db'[n], j) /\ ~Holds(tmp'[n], j)
    BY <2>1, <2>2 DEF DbStep
  <2>5. ASSUME NEW n \in Names PROVE ~HasId(n, j)'
    <3>1. shared' \subseteq Ids
      BY DEF Base, HistoryInv
    <3>2. CASE tox'[n] = tox[n]
      BY <2>2, <3>2 DEF HasId
    <3>3. CASE tox'[n] # tox[n]
      BY <2>1, <2>2, <3>3 DEF ToxStep, HasId
    <3> QED BY <3>2, <3>3
  <2> QED BY <2>3, <2>4, <2>5
<1>8. ASSUME NEW q \in Procs PROVE OwnNames(q)'
  <2>1. CASE q = p
    BY <2>1 DEF NamesStep
  <2>2. CASE q # p
    <3> DEFINE j == prof[q].id
    <3> SUFFICES ASSUME AtWork(q) PROVE OwnNames(q)'
      BY <2>2, OthersKeep DEF OwnNames
    <3>1. OwnNames(q) /\ j \in Ids
      BY <1>0 DEF NamesInv
    <3>2. /\ prof'[q] = prof[q] /\ at'[q] = at[q] /\ newName'[q] = newName[q] /\ path'[q] = path[q]
          /\ ToxName(q)' = ToxName(q) /\ OwnToxFile(q)' = OwnToxFile(q) /\ Uses(q)' = Uses(q)
          /\ Removing(q)' <=> Removing(q)
      BY <2>2, OthersKeep DEF Local
    <3>3. Removing(q) => life'[j] = "removed"
      <4>1. CASE j # i
        BY <3>1, <4>1 DEF OwnNames, IdStep
      <4>2. CASE j = i
        BY <3>1, <4>2 DEF OwnNames, IdStep
      <4> QED BY <4>1, <4>2
    <3>4. ASSUME j \notin shared'
          PROVE  /\ at[q] # "removingDb" => tox'[ToxName(q)] = OwnToxFile(q)
                 /\ at[q] = "renaming" => tox'[newName[q]] = Absent
                 /\ \A n \in Names : HasId(n, j)' => n = ToxName(q) /\ at[q] # "removingDb"
      <4>1. j \notin shared
        BY <3>4 DEF IdStep
      <4>2. j # i
        <5>1. CASE AtWork(p)
          BY <2>2, <4>1, <5>1 DEF NamesInv, OnceInv, RunOnceOf, Runs, IdStep
        <5>2. CASE AtWork(p)'
          BY <2>2, <3>4, <5>2 DEF NamesStep, Runs
        <5> QED BY <5>1, <5>2 DEF IdStep
      <4>3. \A n \in Names : n \in Uses(q) => tox'[n] = tox[n]
        BY <1>2, <2>2, <3>4
      <4>4. /\ ToxName(q) \in Names /\ ToxName(q) \in Uses(q)
            /\ at[q] = "renaming" => newName[q] \in Names /\ newName[q] \in Uses(q)
        BY DEF Base, IInv, TypeInv, PlacesInv, Renaming, ProfileObject, ToxName, Uses
      <4>5. /\ at[q] # "removingDb" => tox'[ToxName(q)] = OwnToxFile(q)
            /\ at[q] = "renaming" => tox'[newName[q]] = Absent
        BY <3>1, <4>1, <4>3, <4>4 DEF OwnNames
      <4>6. ASSUME NEW n \in Names, HasId(n, j)' PROVE n = ToxName(q) /\ at[q] # "removingDb"
        <5>1. tox'[n] # Absent /\ tox'[n].id = j
          BY <3>2, <4>6 DEF HasId
        <5>2. HasId(n, j)
          <6> HIDE DEF j
          <6> QED BY <1>4, <3>1, <3>4, <4>2, <5>1 DEF HasId
        <5> QED BY <3>1, <4>1, <5>2 DEF OwnNames
      <4> QED BY <4>5, <4>6
    <3>5. j \notin strayed' => path[q] = prof[q].name
      BY <3>1 DEF OwnNames, IdStep
    <3> QED BY <3>2, <3>3, <3>4, <3>5 DEF OwnNames
  <2> QED BY <2>1, <2>2
<1> QED BY <1>1, <1>3, <1>6, <1>7, <1>8 DEF NamesInv
-----------------------------------------------------------------------------
(* What the operations of the database do to the files under its path *)

\* Only the files under the path of p change, and they have no history but what was there
\* and that of i.
Within(p, i) ==
    /\ \A m \in Names \ {path[p]} : db'[m] = db[m] /\ tmp'[m] = tmp[m]
    /\ \A j \in Ids \ {i} :
         Holds(db'[path[p]], j) \/ Holds(tmp'[path[p]], j) =>
             Holds(db[path[p]], j) \/ Holds(tmp[path[p]], j)

LEMMA FoundHolds ==
  ASSUME NEW p \in Procs, NEW new \in File, NEW j \in Ids, DbInv, path[p] \in Names
  PROVE  /\ Holds(Found(p, new), j) => Holds(db[path[p]], j) \/ Holds(tmp[path[p]], j) \/ j \in new.of
         /\ Holds(Export(p), j) => Holds(tmp[path[p]], j)
<1>1. tmp[path[p]] # Absent => [tmp[path[p]] EXCEPT !.whole = TRUE].of = tmp[path[p]].of
  BY DEF DbInv, File
<1> QED BY <1>1 DEF Found, Export, Holds

LEMMA StartExportWithin ==
  ASSUME DbInv, NEW p \in Procs, path[p] \in Names, NEW key \in Keys, NEW upgrade, StartExport(p, key, upgrade)
  PROVE  /\ \A m \in Names \ {path[p]} : tmp'[m] = tmp[m]
         /\ \A j \in Ids : ~Holds(tmp'[path[p]], j)
         /\ tmp'[path[p]] = [NewFile(key, {}) EXCEPT !.whole = FALSE]
<1>1. tmp' = [tmp EXCEPT ![path[p]] = [NewFile(key, {}) EXCEPT !.whole = FALSE]]
  BY DEF StartExport
<1>2. [NewFile(key, {}) EXCEPT !.whole = FALSE].of = {}
  BY DEF NewFile
<1> QED BY <1>1, <1>2 DEF DbInv, Holds

LEMMA OpenWithin ==
  ASSUME DbInv, NEW p \in Procs, path[p] \in Names, NEW key \in Keys, NEW file \in File,
         NEW upgrade, Open(p, key, file, upgrade), NEW i,
         \A j \in Ids \ {i} : Holds(file, j) => Holds(db[path[p]], j) \/ Holds(tmp[path[p]], j)
  PROVE  Within(p, i)
<1>1. db' = [db EXCEPT ![path[p]] = file]
  BY DEF Open
<1>2. \/ tmp' = [tmp EXCEPT ![path[p]] = Export(p)]
      \/ StartExport(p, key, upgrade)
  BY DEF Open
<1>3. \A m \in Names \ {path[p]} : tmp'[m] = tmp[m]
  BY <1>2, StartExportWithin DEF DbInv
<1>4. ASSUME NEW j \in Ids, Holds(tmp'[path[p]], j)
      PROVE  Holds(tmp[path[p]], j)
  <2>1. tmp' = [tmp EXCEPT ![path[p]] = Export(p)]
    BY <1>2, <1>4, StartExportWithin
  <2>2. Holds(Export(p), j)
    BY <1>4, <2>1 DEF DbInv
  <2> QED BY <2>2 DEF Export, Holds
<1> QED BY <1>1, <1>3, <1>4 DEF Within, DbInv

LEMMA OpeningWithin ==
  ASSUME DbInv, NEW p \in Procs, path[p] \in Names, NEW i \in Ids, NEW first \in SUBSET {i},
         OpenFirst(p, NewFile(hexKey[p], first)) \/ OpenWithOldSalt(p)
  PROVE  Within(p, i)
<1>0. hexKey[p] \in Keys
  BY DEF DbInv
<1>1. CASE OpenFirst(p, NewFile(hexKey[p], first))
  <2> DEFINE file == Found(p, NewFile(hexKey[p], first))
  <2>1. NewFile(hexKey[p], first) \in File /\ NewFile(hexKey[p], first).of = first
    BY <1>0, NewFileType DEF NewFile
  <2>2. file \in File
    BY <2>1, DbTypesOf, FoundType
  <2>3. \A j \in Ids \ {i} : Holds(file, j) => Holds(db[path[p]], j) \/ Holds(tmp[path[p]], j)
    BY <2>1, FoundHolds
  <2> HIDE DEF file
  <2>4. CASE Open(p, hexKey[p], file, FALSE)
    BY <1>0, <2>2, <2>3, <2>4, OpenWithin
  <2>5. CASE db' = [db EXCEPT ![path[p]] = file] /\ tmp' = [tmp EXCEPT ![path[p]] = Export(p)]
    BY <2>3, <2>5 DEF Within, DbInv, Export, Holds
  <2> QED BY <1>1, <2>4, <2>5 DEF OpenFirst, file
<1>2. CASE OpenWithOldSalt(p)
  <2> DEFINE old == Key(hexKey[p].password, StaticSalt)
             file == Found(p, NewFile(old, {}))
  <2>1. old \in Keys /\ NewFile(old, {}) \in File /\ NewFile(old, {}).of = {}
    BY <1>0, KeysOf, NewFileType DEF NewFile
  <2>2. file \in File
    BY <2>1, DbTypesOf, FoundType
  <2>3. \A j \in Ids \ {i} : Holds(file, j) => Holds(db[path[p]], j) \/ Holds(tmp[path[p]], j)
    BY <2>1, FoundHolds
  <2>4. CASE Open(p, old, file, CanBackup(p))
    <3> HIDE DEF file, old
    <3> QED BY <2>1, <2>2, <2>3, <2>4, OpenWithin DEF old
  <2>5. CASE UNCHANGED <<db, tmp>>
    BY <2>5 DEF Within
  <2> QED BY <1>2, <2>4, <2>5 DEF OpenWithOldSalt
<1> QED BY <1>1, <1>2

LEMMA SwapWithin ==
  ASSUME DbInv, NEW p \in Procs, path[p] \in Names, NEW i \in Ids,
         FinishExport(p) \/ FailExport(p) \/ RemoveOld(p) \/ RenameExport(p)
  PROVE  Within(p, i)
<1>1. CASE FinishExport(p)
  <2>1. \A m \in Names \ {path[p]} : tmp'[m] = tmp[m]
    BY <1>1 DEF FinishExport, DbInv
  <2>2. ASSUME NEW j \in Ids, Holds(tmp'[path[p]], j)
        PROVE  Holds(db[path[p]], j) \/ Holds(tmp[path[p]], j)
    <3>1. CASE tmp[path[p]] = Absent \/ db[path[p]] = Absent
      BY <1>1, <2>2, <3>1 DEF FinishExport
    <3>2. CASE tmp[path[p]] # Absent /\ db[path[p]] # Absent
      <4>1. tmp[path[p]] \in File
        BY <3>2 DEF DbInv
      <4>2. tmp'[path[p]].of = db[path[p]].of
        BY <1>1, <3>2, <4>1 DEF FinishExport, DbInv, File
      <4> QED BY <2>2, <3>2, <4>2 DEF Holds
    <3> QED BY <3>1, <3>2
  <2>3. db' = db
    BY <1>1 DEF FinishExport
  <2> QED BY <2>1, <2>2, <2>3 DEF Within
<1>2. CASE FailExport(p)
  BY <1>2 DEF FailExport, Within
<1>3. CASE RemoveOld(p)
  BY <1>3 DEF RemoveOld, Within, DbInv, Holds
<1>4. CASE RenameExport(p)
  <2> DEFINE file == Found(p, NewFile(work[p].key, {}))
  <2>1. work[p].key \in Keys
    BY DEF DbInv, WorkType
  <2>2. NewFile(work[p].key, {}) \in File /\ NewFile(work[p].key, {}).of = {}
    BY <2>1, NewFileType DEF NewFile
  <2>3. \A j \in Ids : Holds(file, j) => Holds(db[path[p]], j) \/ Holds(tmp[path[p]], j)
    BY <2>2, FoundHolds
  <2>4. db' = [db EXCEPT ![path[p]] = file] /\ tmp' = [tmp EXCEPT ![path[p]] = Export(p)]
    BY <1>4 DEF RenameExport
  <2> HIDE DEF file
  <2> QED BY <2>3, <2>4 DEF Within, DbInv, Export, Holds
<1> QED BY <1>1, <1>2, <1>3, <1>4

LEMMA RekeyWithin ==
  ASSUME DbInv, NEW p \in Procs, path[p] \in Names, NEW i \in Ids, NEW key \in Keys,
         UpgradeSalt(p, key) \/ SetDbPassword(p, key) \/ FailRekey(p)
  PROVE  Within(p, i)
<1>1. ASSUME db' = [db EXCEPT ![path[p]].key = key], Usable(p)
      PROVE  /\ \A m \in Names \ {path[p]} : db'[m] = db[m]
             /\ \A j \in Ids : Holds(db'[path[p]], j) => Holds(db[path[p]], j)
  <2>1. db[path[p]] \in File
    BY <1>1 DEF Usable, DbInv
  <2> QED BY <1>1, <2>1 DEF DbInv, File, Usable, Holds
<1>2. ASSUME tmp' = [tmp EXCEPT ![path[p]] = Absent] \/ tmp' = tmp
      PROVE  /\ \A m \in Names \ {path[p]} : tmp'[m] = tmp[m]
             /\ \A j \in Ids : Holds(tmp'[path[p]], j) => Holds(tmp[path[p]], j)
  BY <1>2 DEF DbInv, Holds
<1>3. ASSUME \/ db' = db
             \/ db' = [db EXCEPT ![path[p]].key = key] /\ Usable(p),
             tmp' = [tmp EXCEPT ![path[p]] = Absent] \/ tmp' = tmp
      PROVE  Within(p, i)
  BY <1>1, <1>2, <1>3 DEF Within
<1>4. CASE ChangeEncryption(p, key)
  BY <1>4, StartExportWithin DEF ChangeEncryption, Within
<1>5. CASE \/ UpgradeSalt(p, key) \/ FailRekey(p)
           \/ SetDbPassword(p, key) /\ ~ChangeEncryption(p, key)
  BY <1>3, <1>5 DEF UpgradeSalt, FailRekey, SetDbPassword, Rekey
<1> QED BY <1>4, <1>5
-----------------------------------------------------------------------------
(* Every step is one of a process with its identity *)

LEMMA LocalStep ==
  ASSUME NEW p \in Procs, DbStepOf(p),
         \A q \in Procs \ {p} : at'[q] = at[q] /\ prof'[q] = prof[q] /\ newName'[q] = newName[q]
  PROVE  Local(p)
BY DEF DbStepOf, Local

LEMMA SameDb ==
  ASSUME DbInv, NEW p \in Procs, UNCHANGED dbVars
  PROVE  DbStepOf(p)
BY DbTypesOf DEF DbStepOf, dbVars, DbTypes

\* A process that goes on under the same names takes none.
LEMMA UsesLess ==
  ASSUME NEW p \in Procs, AtWork(p),
         ~AtWork(p)' \/ /\ prof'[p].name = prof[p].name /\ newName'[p] = newName[p] /\ path'[p] = path[p]
                        /\ IsOpen(p)' \/ Busy(p)' => IsOpen(p) \/ Busy(p)
  PROVE  Uses(p)' \subseteq Uses(p)
BY DEF Uses

LEMMA PathUsed ==
  ASSUME NEW p \in Procs, AtWork(p), IsOpen(p) \/ Busy(p)
  PROVE  path[p] \in Uses(p)
BY DEF Uses

LEMMA DbStepWithin ==
  ASSUME NEW p \in Procs, NEW i \in Ids, path[p] \in Uses(p), path[p] \in Names, Within(p, i)
  PROVE  DbStep(p, i)
BY DEF DbStep, Within

\* The worker thread's steps, and what is recorded of them.
LEMMA WorkerStep ==
  ASSUME Base, NamesInv, NEW p \in Procs,
         \/ OpenFirstTime(p) \/ DatabaseStep(p) \/ DatabaseFails(p) \/ AddNewMessage(p)
         \/ ChangeDbPassword(p)
  PROVE  /\ Step(p, prof[p].id) /\ AtWork(p) /\ prof[p].id \in Ids
         /\ UNCHANGED <<tox, prof, newName, path, shared, strayed>>
         /\ at' = at \/ (at[p] = "password" /\ at'[p] = "running")
         /\ AtWork(p)'
<1> USE DEF Base, IInv, TypeInv
<1> DEFINE i == prof[p].id
<1>1. DbOf(p)
  BY DEF DbInv
<1>2. AtWork(p) /\ (IsOpen(p) \/ Busy(p) \/ UNCHANGED dbVars)
  <2>1. CASE OpenFirstTime(p) \/ DatabaseStep(p) \/ DatabaseFails(p)
    <3>1. Busy(p)
      BY <2>1 DEF OpenFirstTime, DatabaseStep, DatabaseFails, OpenFirst, OpenWithOldSalt, UpgradeSalt,
                  FinishExport, RemoveOld, RenameExport, FailExport, Busy
    <3> QED BY <1>1, <3>1 DEF DbOf
  <2>2. CASE AddNewMessage(p)
    BY <2>2 DEF AddNewMessage, GuiFree, Usable, IsOpen, AtWork, AtLogin
  <2>3. CASE ChangeDbPassword(p)
    BY <2>3 DEF ChangeDbPassword, AtWork, AtLogin
  <2> QED BY <2>1, <2>2, <2>3
<1>3. path[p] \in Names /\ i \in Ids /\ DbKey(p) \in Keys
  BY <1>1, <1>2, DbKeyType DEF DbOf, ProfileObject
<1>4. /\ UNCHANGED <<tox, prof, newName, path, shared, strayed>>
      /\ at' = at \/ (at[p] = "password" /\ at' = [at EXCEPT ![p] = "running"])
      /\ harmed \subseteq harmed'
  <2>1. path' = path
    BY WorkerTypes DEF AddNewMessage
  <2>2. harmed \subseteq harmed'
    BY DEF OpenFirstTime, DatabaseStep, DatabaseFails, AddNewMessage, ChangeDbPassword, history,
           Harm, HarmUnlessUsable
  <2> QED BY <2>1, <2>2 DEF OpenFirstTime, DatabaseStep, DatabaseFails, AddNewMessage, ChangeDbPassword,
             history, Goto
<1>5. DbStepOf(p)
  <2>1. CASE AddNewMessage(p)
    BY <2>1, MessageTypes DEF AddNewMessage, DbStepOf, DbInv, DbTypes
  <2> QED BY <2>1, WorkerTypes
<1>6. Local(p)
  BY <1>4, <1>5, LocalStep
<1>7. AtWork(p)'
  BY <1>2, <1>4 DEF AtWork, AtLogin
<1>8. IdStep(p, i)
  <2>1. \/ life' = life
        \/ life[i] = "created" /\ life' = [life EXCEPT ![i] = "started"]
    <3>1. CASE OpenFirstTime(p)
      BY <3>1 DEF OpenFirstTime, HistoryInv
    <3> QED BY <3>1 DEF DatabaseStep, DatabaseFails, AddNewMessage, ChangeDbPassword, history
  <2> QED BY <1>2, <1>3, <1>4, <1>7, <2>1 DEF IdStep, HistoryInv
<1>9. Within(p, i)
  <2>1. CASE OpenFirstTime(p)
    <3>1. PICK first \in SUBSET {i} : OpenFirst(p, NewFile(hexKey[p], first))
      BY <2>1 DEF OpenFirstTime
    <3> QED BY <1>3, <3>1, OpeningWithin
  <2>2. CASE DatabaseStep(p)
    BY <1>3, <2>2, OpeningWithin, SwapWithin, RekeyWithin DEF DatabaseStep
  <2>3. CASE DatabaseFails(p)
    BY <1>3, <2>3, SwapWithin, RekeyWithin DEF DatabaseFails
  <2>4. CASE AddNewMessage(p)
    <3>1. db[path[p]] \in File
      BY <1>3, <2>4 DEF AddNewMessage, Usable, DbInv
    <3>2. db' = [db EXCEPT ![path[p]] = [db[path[p]] EXCEPT !.of = @ \cup {i}]] /\ tmp' = tmp
      BY <2>4 DEF AddNewMessage
    <3>3. [db[path[p]] EXCEPT !.of = @ \cup {i}].of = db[path[p]].of \cup {i}
      BY <3>1 DEF File
    <3> QED BY <1>3, <2>4, <3>2, <3>3 DEF Within, DbInv, Holds, AddNewMessage, Usable
  <2>5. CASE ChangeDbPassword(p)
    <3>1. CASE UNCHANGED dbVars
      BY <3>1 DEF Within, dbVars
    <3> QED BY <1>3, <2>5, <3>1, RekeyWithin DEF ChangeDbPassword
  <2> QED BY <2>1, <2>2, <2>3, <2>4, <2>5
<1>10. DbStep(p, i)
  <2>1. CASE UNCHANGED dbVars
    BY <2>1 DEF DbStep, dbVars
  <2> QED BY <1>2, <1>3, <1>9, <2>1, PathUsed, DbStepWithin
<1>11. ToxStep(p, i)
  BY <1>4 DEF ToxStep
<1>12. TakeStep(p, i)
  <2>1. Uses(p)' \subseteq Uses(p)
    <3>1. CASE UNCHANGED dbVars
      BY <1>2, <1>4, <3>1, UsesLess DEF dbVars, IsOpen, Busy
    <3> QED BY <1>2, <1>4, <3>1, UsesLess
  <2> QED BY <2>1 DEF TakeStep
<1>13. Step(p, i)
  BY <1>6, <1>8, <1>10, <1>11, <1>12 DEF Step
<1> QED BY <1>2, <1>3, <1>4, <1>7, <1>13

\* Steps that keep the database and the names, or give up the profile with them.
LEMMA KeepStep ==
  ASSUME Base, NamesInv, NEW p \in Procs, AtWork(p), DbStepOf(p), UNCHANGED <<db, tmp>>,
         \A q \in Procs \ {p} : at'[q] = at[q] /\ prof'[q] = prof[q] /\ newName'[q] = newName[q],
         \/ ~AtWork(p)'
         \/ /\ AtWork(p)' /\ UNCHANGED dbVars /\ newName' = newName
            /\ prof'[p].name = prof[p].name /\ prof'[p].id = prof[p].id,
         ToxStep(p, prof[p].id),
         life' = life \/ life' = [life EXCEPT ![prof[p].id] = "removed"],
         shared \subseteq shared', strayed \subseteq strayed', harmed \subseteq harmed'
  PROVE  Step(p, prof[p].id) /\ prof[p].id \in Ids
<1>1. Local(p)
  BY LocalStep
<1>2. prof[p].id \in Ids
  BY DEF Base, IInv, TypeInv, ProfileObject
<1>3. IdStep(p, prof[p].id)
  BY <1>2 DEF IdStep, Base, HistoryInv
<1>4. Uses(p)' \subseteq Uses(p)
  BY UsesLess DEF dbVars, IsOpen, Busy
<1> QED BY <1>1, <1>2, <1>3, <1>4 DEF Step, TakeStep, DbStep

\* A save of the tox file.
LEMMA SavedTox ==
  ASSUME Base, NEW p \in Procs, AtWork(p), NEW password \in Passwords \cup {NoPassword}, Saved(p, password)
  PROVE  /\ ToxStep(p, prof[p].id)
         /\ \A n \in Names \ {prof[p].name} : tox'[n] = tox[n]
         /\ prof[p].name \in Names
         /\ tox'[prof[p].name] = [id |-> prof[p].id, password |-> password]
         /\ tox'[prof[p].name] # Absent
<1>1. prof[p].name \in Names /\ prof[p].id \in Ids /\ prof[p].name \in Uses(p)
  BY DEF Base, IInv, TypeInv, ProfileObject, Uses
<1>2. tox' = [tox EXCEPT ![prof[p].name] = [id |-> prof[p].id, password |-> password]]
  BY DEF Saved
<1>3. [id |-> prof[p].id, password |-> password] # Absent
  BY <1>1, ProfileAssumption DEF ToxFile
<1> QED BY <1>1, <1>2, <1>3 DEF ToxStep, Base, IInv, TypeInv
-----------------------------------------------------------------------------
(* The names: one lemma for each kind of step *)

LEMMA OwnFacts ==
  ASSUME Base, NamesInv, NEW p \in Procs, AtWork(p)
  PROVE  /\ prof[p] \in ProfileObject /\ prof[p].id \in Ids /\ prof[p].name \in Names
         /\ prof[p].name \in Uses(p) /\ newName[p] \in Uses(p)
         /\ ToxName(p) \in Names
         /\ OwnNames(p)
         /\ prof[p].id \notin shared => OnceOf(prof[p].id) /\ ExistsOf(prof[p].id) /\ RunOnceOf(prof[p].id)
         /\ UnusedOf(prof[p].id) /\ life[prof[p].id] # "unused"
         /\ OwnToxFile(p) # Absent
<1>1. prof[p] \in ProfileObject /\ prof[p].id \in Ids /\ prof[p].name \in Names
  BY DEF Base, IInv, TypeInv, ProfileObject
<1>2. ToxName(p) \in Names
  BY <1>1 DEF Base, IInv, PlacesInv, Renaming, ToxName
<1>3. UnusedOf(prof[p].id) /\ life[prof[p].id] # "unused"
  BY <1>1 DEF NamesInv, UnusedInv, UnusedOf, RunBySomeone, Runs
<1>4. OwnToxFile(p) # Absent
  BY <1>1, ProfileAssumption DEF OwnToxFile, ToxFile, ProfileObject
<1> QED BY <1>1, <1>2, <1>3, <1>4 DEF NamesInv, OnceInv, Uses

\* Steps that leave the tox files and the names of the profile.
LEMMA SameNames ==
  ASSUME Base, Base', NamesInv, NEW p \in Procs, AtWork(p), Step(p, prof[p].id),
         UNCHANGED <<tox, newName, path>>, AtWork(p)', prof'[p] = prof[p],
         at'[p] # "renaming" /\ at'[p] # "removingDb",
         at[p] # "renamingDb" /\ at'[p] # "renamingDb",
         at[p] # "removingDb",
         Removing(p)' => life'[prof[p].id] = "removed",
         life'[prof[p].id] \in {"created", "started"} => life[prof[p].id] \in {"created", "started"},
         life'[prof[p].id] # "unused"
  PROVE  NamesInv'
<1>0. PICK i \in Ids : i = prof[p].id
  BY OwnFacts
<1>1. /\ OwnNames(p)
      /\ i \notin shared => OnceOf(i) /\ ExistsOf(i) /\ RunOnceOf(i)
  BY <1>0, OwnFacts
<1>2. shared \subseteq shared' /\ strayed \subseteq strayed'
  BY <1>0 DEF Step, IdStep
<1>3. ToxName(p)' = ToxName(p) /\ OwnToxFile(p)' = OwnToxFile(p)
  BY DEF ToxName, OwnToxFile
<1>4. OwnNames(p)'
  BY <1>0, <1>1, <1>2, <1>3 DEF OwnNames, HasId, Removing
<1>5. i \notin shared' =>
        /\ OnceOf(i)' /\ ExistsOf(i)'
        /\ \A q \in Procs \ {p} : ~Runs(q, i)
  BY <1>0, <1>1, <1>2 DEF OnceOf, ExistsOf, RunOnceOf, Runs, HasId
<1>6. NamesStep(p, i)
  BY <1>0, <1>4, <1>5 DEF NamesStep
<1> QED BY <1>0, <1>6, NamesStepInv

LEMMA WorkerNames ==
  ASSUME Base, Base', NamesInv, NEW p \in Procs,
         \/ OpenFirstTime(p) \/ DatabaseStep(p) \/ DatabaseFails(p) \/ AddNewMessage(p)
         \/ ChangeDbPassword(p)
  PROVE  NamesInv' /\ Step(p, prof[p].id)
<1> DEFINE i == prof[p].id
<1>1. /\ Step(p, i) /\ AtWork(p) /\ i \in Ids
      /\ UNCHANGED <<tox, prof, newName, path, shared, strayed>>
      /\ at' = at \/ (at[p] = "password" /\ at'[p] = "running")
      /\ AtWork(p)'
  BY WorkerStep
<1>2. at[p] \in {"running", "password"} /\ at'[p] = "running"
  <2>1. CASE ChangeDbPassword(p)
    BY <2>1 DEF ChangeDbPassword, Goto, Base, IInv, TypeInv
  <2>2. CASE AddNewMessage(p)
    BY <2>2 DEF AddNewMessage, GuiFree
  <2>3. CASE OpenFirstTime(p) \/ DatabaseStep(p) \/ DatabaseFails(p)
    <3>1. Busy(p) /\ at' = at
      BY <2>3 DEF OpenFirstTime, DatabaseStep, DatabaseFails, OpenFirst, OpenWithOldSalt, UpgradeSalt,
                  FinishExport, RemoveOld, RenameExport, FailExport, Busy, history
    <3> QED BY <3>1 DEF Base, DbInv, DbOf
  <2> QED BY <2>1, <2>2, <2>3
<1>3. \/ life' = life
      \/ life[i] = "created" /\ life'[i] = "started"
  <2>1. CASE OpenFirstTime(p)
    BY <1>1, <2>1 DEF OpenFirstTime, Base, HistoryInv
  <2> QED BY <1>1, <2>1 DEF DatabaseStep, DatabaseFails, AddNewMessage, ChangeDbPassword, history, Base, HistoryInv
<1>4. life[i] # "unused"
  BY <1>1, OwnFacts
<1> QED BY <1>1, <1>2, <1>3, <1>4, SameNames DEF Removing

\* The GUI thread's steps that leave the files alone.
LEMMA PlaceNames ==
  ASSUME Base, Base', NamesInv, NEW p \in Procs,
         \/ LockFileLost(p) \/ Remove(p)
         \/ AssertLock(p) /\ Goto(p, "running")
  PROVE  NamesInv' /\ Step(p, prof[p].id)
<1> USE DEF Base, IInv, TypeInv
<1> DEFINE i == prof[p].id
<1>1. /\ AtWork(p) /\ AtWork(p)' /\ at[p] \in {"running", "relocking"} /\ at'[p] \in {"running", "relocking", "removing"}
      /\ UNCHANGED <<dbVars, tox, prof, newName>>
      /\ at' = [at EXCEPT ![p] = at'[p]]
  BY DEF LockFileLost, Remove, AssertLock, GuiFree, Goto, AtWork, AtLogin
<1>2. /\ life' = life \/ (life' = [life EXCEPT ![i] = "removed"] /\ at'[p] = "removing")
      /\ at'[p] = "removing" => life' = [life EXCEPT ![i] = "removed"]
      /\ shared \subseteq shared' /\ strayed \subseteq strayed' /\ harmed \subseteq harmed'
  BY <1>1 DEF LockFileLost, Remove, AssertLock, Goto, history
<1>3. ToxStep(p, i)
  BY <1>1 DEF ToxStep
<1>4. Step(p, i)
  BY <1>1, <1>2, <1>3, SameDb, KeepStep DEF dbVars
<1>5. i \in Ids /\ life[i] # "unused"
  BY <1>1, OwnFacts
<1>6. life'[i] = life[i] \/ life'[i] = "removed"
  BY <1>2, <1>5 DEF HistoryInv
<1>7. Removing(p)' => life'[i] = "removed"
  BY <1>1, <1>2, <1>5 DEF Removing, HistoryInv
<1> QED BY <1>1, <1>4, <1>5, <1>6, <1>7, SameNames DEF dbVars

LEMMA SaveNames ==
  ASSUME Base, Base', NamesInv, NEW p \in Procs,
         SaveToxSave(p) \/ \E password \in Passwords \cup {NoPassword} : SetPassword(p, password)
  PROVE  NamesInv' /\ Step(p, prof[p].id) /\ at'[p] \in {"running", "password"}
<1> USE DEF Base, IInv, TypeInv
<1>1. AtWork(p) /\ at[p] = "running"
  BY DEF SaveToxSave, SetPassword, GuiFree, AtWork, AtLogin
<1>0. PICK i \in Ids : i = prof[p].id
  BY <1>1, OwnFacts
<1>2. prof[p] \in ProfileObject /\ prof[p].name \in Names
  BY <1>1, OwnFacts
<1>3. PICK password \in Passwords \cup {NoPassword} :
        /\ Saved(p, password)
        /\ prof'[p] = [prof[p] EXCEPT !.password = password]
        /\ \A q \in Procs \ {p} : prof'[q] = prof[q]
  <2>1. CASE SaveToxSave(p)
    BY <1>2, <2>1 DEF SaveToxSave, ProfileObject
  <2>2. CASE \E password \in Passwords \cup {NoPassword} : SetPassword(p, password)
    BY <2>2 DEF SetPassword
  <2> QED BY <2>1, <2>2
<1>4. prof'[p].name = prof[p].name /\ prof'[p].id = i /\ prof'[p].password = password
  BY <1>0, <1>2, <1>3 DEF ProfileObject
<1>5. /\ UNCHANGED <<dbVars, newName, life, shared, strayed, harmed>>
      /\ at'[p] \in {"running", "password"} /\ \A q \in Procs \ {p} : at'[q] = at[q]
  BY <1>1 DEF SaveToxSave, SetPassword, Goto, history
<1>6. /\ ToxStep(p, i)
      /\ \A n \in Names \ {prof[p].name} : tox'[n] = tox[n]
      /\ tox'[prof[p].name] = [id |-> i, password |-> password] /\ tox'[prof[p].name] # Absent
  BY <1>0, <1>1, <1>3, SavedTox
<1>7. AtWork(p)'
  BY <1>5 DEF AtWork, AtLogin
<1>8. Step(p, i)
  BY <1>0, <1>1, <1>3, <1>4, <1>5, <1>6, <1>7, SameDb, KeepStep DEF dbVars
<1>9. /\ OwnNames(p) /\ life[i] # "unused"
      /\ i \notin shared => OnceOf(i) /\ ExistsOf(i) /\ RunOnceOf(i)
  BY <1>0, <1>1, OwnFacts
<1>10. ASSUME i \notin shared, NEW n \in Names
       PROVE  (tox'[n] # Absent /\ tox'[n].id = i) <=> n = prof[p].name
  <2>1. CASE n = prof[p].name
    BY <1>6, <2>1
  <2>2. CASE n # prof[p].name
    <3>1. ~HasId(n, i)
      BY <1>0, <1>1, <1>9, <1>10, <2>2 DEF OwnNames, ToxName
    <3> QED BY <1>6, <2>2, <3>1 DEF HasId
  <2> QED BY <2>1, <2>2
<1>11. OwnNames(p)'
  BY <1>0, <1>1, <1>4, <1>5, <1>6, <1>9, <1>10 DEF OwnNames, HasId, ToxName, OwnToxFile, Removing, dbVars
<1>12. NamesStep(p, i)
  BY <1>0, <1>1, <1>2, <1>4, <1>5, <1>9, <1>10, <1>11 DEF NamesStep, OnceOf, ExistsOf, RunOnceOf, Runs, HasId
<1> QED BY <1>0, <1>5, <1>8, <1>12, NamesStepInv

\* The login screen.
LEMMA TakingStep ==
  ASSUME Base, NamesInv, NEW p \in Procs, NEW n \in Names, NEW i \in Ids,
         NEW password \in Passwords \cup {NoPassword},
         \/ LoadProfile(p, n) /\ tox[n] = [id |-> i, password |-> password]
         \/ CreateProfile(p, n, i, password)
  PROVE  /\ Step(p, i) /\ ~AtWork(p) /\ AtWork(p)' /\ at'[p] = "running"
         /\ prof'[p] = NewProfile(n, i, password) /\ OpenDatabase(p, n, Key(password, i))
         /\ Uses(p)' \cap Names = {n}
         /\ tox'[n] = [id |-> i, password |-> password] /\ tox'[n] # Absent
         /\ \A m \in Names \ {n} : tox'[m] = tox[m]
         /\ shared' = shared \cup Disturbed(p, n, i) /\ UNCHANGED <<harmed, strayed>>
<1> USE DEF Base, IInv, TypeInv
<1>1. [id |-> i, password |-> password] # Absent
  BY ProfileAssumption DEF ToxFile
<1>2. /\ OpenDatabase(p, n, Key(password, i))
      /\ prof' = [prof EXCEPT ![p] = NewProfile(n, i, password)]
      /\ shared' = shared \cup Disturbed(p, n, i)
      /\ UNCHANGED <<newName, harmed, strayed>> /\ Goto(p, "running") /\ AtLogin(p)
  BY DEF LoadProfile, CreateProfile
<1>3. /\ tox'[n] = [id |-> i, password |-> password]
      /\ \A m \in Names \ {n} : tox'[m] = tox[m]
  BY DEF LoadProfile, CreateProfile
<1>4. life' = life \/ life[i] = "unused"
  BY DEF LoadProfile, CreateProfile
<1>5. \A j \in Ids \ {i} : life'[j] = life[j]
  BY DEF LoadProfile, CreateProfile, HistoryInv
<1>6. ~AtWork(p) /\ AtWork(p)' /\ at'[p] = "running" /\ newName[p] = NoName
  BY <1>2 DEF Goto, AtWork, AtLogin, PlacesInv, Renaming
<1>7. Key(password, i) \in Keys
  BY KeyType
<1>8. DbStepOf(p) /\ path'[p] = n
  BY <1>2, <1>7, DbTypesOf, OpenDatabaseTypes
<1>9. Local(p)
  BY <1>2, <1>8, LocalStep DEF Goto
<1>10. prof'[p] = NewProfile(n, i, password) /\ prof'[p].name = n /\ prof'[p].id = i
  BY <1>2 DEF NewProfile
<1>11. n \in Uses(p)' /\ Uses(p)' \subseteq {n, NoName} /\ Uses(p) = {}
  BY <1>2, <1>6, <1>8, <1>10 DEF Uses
<1>12. IdStep(p, i)
  BY <1>2, <1>4, <1>5, <1>6, <1>10 DEF IdStep
<1>13. ToxStep(p, i)
  <2>1. tox'[n] # tox[n] => tox[n] = Absent
    BY <1>3 DEF LoadProfile, CreateProfile
  <2> QED BY <1>3, <1>11, <2>1 DEF ToxStep
<1>14. Uses(p)' \cap Names = {n}
  BY <1>11, LockerAssumption
<1>15. TakeStep(p, i)
  <2>1. ASSUME NEW q \in Procs \ {p}, n \in Uses(q)
        PROVE  i \in shared' /\ prof[q].id \in shared'
    BY <1>2, <2>1 DEF Disturbed
  <2> QED BY <1>3, <1>14, <2>1 DEF TakeStep
<1>16. DbStep(p, i)
  BY <1>2 DEF OpenDatabase, DbStep
<1> QED BY <1>1, <1>2, <1>3, <1>6, <1>9, <1>10, <1>12, <1>13, <1>14, <1>15, <1>16 DEF Step

\* Nobody has the identity that is loaded or created, but for those that are disturbed.
LEMMA TakingAlone ==
  ASSUME Base, NamesInv, NEW p \in Procs, NEW n \in Names, NEW i \in Ids,
         NEW password \in Passwords \cup {NoPassword},
         \/ LoadProfile(p, n) /\ tox[n] = [id |-> i, password |-> password]
         \/ CreateProfile(p, n, i, password),
         i \notin shared'
  PROVE  /\ ~RunBySomeone(i)
         /\ \A m \in Names : HasId(m, i)' <=> m = n
         /\ life'[i] # "unused"
<1>1. /\ Step(p, i) /\ ~AtWork(p)
      /\ tox'[n] = [id |-> i, password |-> password] /\ tox'[n] # Absent
      /\ \A m \in Names \ {n} : tox'[m] = tox[m]
      /\ shared' = shared \cup Disturbed(p, n, i)
  BY TakingStep
<1>2. i \notin shared
  BY <1>1
<1>3. CASE CreateProfile(p, n, i, password)
  <2>1. life[i] = "unused" /\ life'[i] = "created"
    BY <1>3 DEF CreateProfile, Base, HistoryInv
  <2>2. UnusedOf(i)
    BY DEF NamesInv, UnusedInv
  <2> QED BY <1>1, <2>1, <2>2 DEF UnusedOf, HasId
<1>4. CASE LoadProfile(p, n) /\ tox[n] = [id |-> i, password |-> password]
  <2>1. HasId(n, i) /\ tox' = tox /\ life' = life
    BY <1>1, <1>4 DEF LoadProfile, HasId
  <2>2. OnceOf(i) /\ UnusedOf(i)
    BY <1>2 DEF NamesInv, OnceInv, UnusedInv
  <2>3. ASSUME NEW q \in Procs, Runs(q, i) PROVE FALSE
    <3>1. q # p /\ AtWork(q) /\ prof[q].id = i
      BY <1>1, <2>3 DEF Runs
    <3>2. n = ToxName(q)
      BY <1>2, <2>1, <3>1, OwnFacts DEF OwnNames
    <3>3. n \in Uses(q)
      BY <3>1, <3>2 DEF Uses, ToxName
    <3> QED BY <1>1, <3>1, <3>3 DEF Disturbed
  <2> QED BY <2>1, <2>2, <2>3 DEF RunBySomeone, OnceOf, UnusedOf, HasId
<1> QED BY <1>3, <1>4

LEMMA TakingNames ==
  ASSUME Base, Base', NamesInv, NEW p \in Procs, NEW n \in Names, NEW i \in Ids,
         NEW password \in Passwords \cup {NoPassword},
         \/ LoadProfile(p, n) /\ tox[n] = [id |-> i, password |-> password]
         \/ CreateProfile(p, n, i, password)
  PROVE  NamesInv' /\ Step(p, i)
<1>1. /\ Step(p, i) /\ ~AtWork(p) /\ AtWork(p)' /\ at'[p] = "running"
      /\ prof'[p] = NewProfile(n, i, password) /\ OpenDatabase(p, n, Key(password, i))
      /\ tox'[n] = [id |-> i, password |-> password]
  BY TakingStep
<1>2. path'[p] = n /\ prof'[p].name = n /\ prof'[p].id = i /\ prof'[p].password = password
  BY <1>1 DEF OpenDatabase, Base, DbInv, NewProfile
<1>3. i \notin shared' =>
        /\ \A q \in Procs : ~Runs(q, i)
        /\ \A m \in Names : HasId(m, i)' <=> m = n
  BY TakingAlone DEF RunBySomeone
<1>4. life'[i] # "unused"
  <2>1. CASE CreateProfile(p, n, i, password)
    BY <2>1 DEF CreateProfile, Base, HistoryInv
  <2>2. CASE LoadProfile(p, n) /\ tox[n] = [id |-> i, password |-> password]
    <3>1. HasId(n, i) /\ life' = life /\ UnusedOf(i)
      BY <2>2 DEF LoadProfile, HasId, NamesInv, UnusedInv
    <3> QED BY <3>1 DEF UnusedOf
  <2> QED BY <2>1, <2>2
<1>5. OwnNames(p)'
  BY <1>1, <1>2, <1>3 DEF OwnNames, Removing, ToxName, OwnToxFile
<1>6. NamesStep(p, i)
  BY <1>3, <1>4, <1>5 DEF NamesStep, OnceOf, ExistsOf
<1> QED BY <1>1, <1>6, NamesStepInv

\* The steps of renaming and removing a profile.
LEMMA RenameNames ==
  ASSUME Base, Base', NamesInv, NEW p \in Procs, NEW n \in Names, Rename(p, n)
  PROVE  NamesInv' /\ Step(p, prof[p].id)
<1> USE DEF Base, IInv, TypeInv
<1>0. AtWork(p) /\ at[p] = "running"
  BY DEF Rename, GuiFree, AtWork, AtLogin
<1>1. PICK i \in Ids : i = prof[p].id
  BY <1>0, OwnFacts
<1>2. /\ UNCHANGED <<dbVars, tox, prof, life, harmed, strayed>> /\ tox[n] = Absent
      /\ newName' = [newName EXCEPT ![p] = n] /\ at' = [at EXCEPT ![p] = "renaming"]
      /\ shared' = shared \cup Disturbed(p, n, i)
  BY <1>1 DEF Rename, Goto
<1>3. AtWork(p)'
  BY <1>2 DEF AtWork, AtLogin
<1>4. Local(p)
  BY <1>2, SameDb, LocalStep
<1>5. IdStep(p, i)
  BY <1>0, <1>1, <1>2, <1>3 DEF IdStep
<1>6. ToxStep(p, i) /\ DbStep(p, i)
  BY <1>2 DEF ToxStep, DbStep, dbVars
<1>7. Uses(p)' \subseteq Uses(p) \cup {n}
  BY <1>0, <1>2 DEF Uses, IsOpen, Busy, dbVars
<1>8. TakeStep(p, i)
  <2>1. ASSUME NEW q \in Procs \ {p}, n \in Uses(q)
        PROVE  i \in shared' /\ prof[q].id \in shared'
    BY <1>2, <2>1 DEF Disturbed
  <2> QED BY <1>2, <1>7, <2>1 DEF TakeStep
<1>9. Step(p, i)
  BY <1>4, <1>5, <1>6, <1>8 DEF Step
<1>10. /\ OwnNames(p) /\ life[i] # "unused"
       /\ i \notin shared => OnceOf(i) /\ ExistsOf(i) /\ RunOnceOf(i)
  BY <1>0, <1>1, OwnFacts
<1>11. ToxName(p)' = ToxName(p) /\ OwnToxFile(p)' = OwnToxFile(p) /\ path'[p] = path[p]
  BY <1>0, <1>2 DEF ToxName, OwnToxFile, dbVars
<1>12. OwnNames(p)'
  BY <1>0, <1>1, <1>2, <1>10, <1>11 DEF OwnNames, HasId, Removing
<1>13. NamesStep(p, i)
  BY <1>0, <1>1, <1>2, <1>10, <1>12 DEF NamesStep, OnceOf, ExistsOf, RunOnceOf, Runs, HasId
<1> QED BY <1>1, <1>9, <1>13, NamesStepInv

LEMMA RenameToxNames ==
  ASSUME Base, Base', NamesInv, NEW p \in Procs, RenameTox(p)
  PROVE  NamesInv' /\ Step(p, prof[p].id)
<1> USE DEF Base, IInv, TypeInv
<1>0. AtWork(p) /\ at[p] = "renaming"
  BY DEF RenameTox, AtWork, AtLogin
<1>1. PICK i \in Ids : i = prof[p].id
  BY <1>0, OwnFacts
<1> DEFINE n == prof[p].name
           m == newName[p]
<1>2. n \in Names /\ m \in Names /\ n \in Uses(p) /\ m \in Uses(p) /\ OwnToxFile(p) # Absent
  BY <1>0, OwnFacts DEF PlacesInv, Renaming
<1>3. /\ UNCHANGED <<dbVars, prof, newName, life, harmed, shared, strayed>>
      /\ at' = [at EXCEPT ![p] = "renamingDb"]
  BY DEF RenameTox, Goto, history
<1>4. AtWork(p)'
  BY <1>3 DEF AtWork, AtLogin
<1>5. \/ tox' = tox /\ tox[m] # Absent
      \/ tox[m] = Absent /\ tox' = [tox EXCEPT ![m] = tox[n], ![n] = Absent]
  BY DEF RenameTox
<1>6. Local(p)
  BY <1>3, SameDb, LocalStep
<1>7. IdStep(p, i)
  BY <1>0, <1>1, <1>3, <1>4 DEF IdStep
<1>8. ToxStep(p, i)
  <2>1. CASE tox' = tox
    BY <2>1 DEF ToxStep
  <2>2. CASE tox[m] = Absent /\ tox' = [tox EXCEPT ![m] = tox[n], ![n] = Absent]
    <3>1. \A k \in Names : tox'[k] # tox[k] => k \in {n, m}
      BY <2>2
    <3>2. /\ tox'[n] = Absent
          /\ tox'[m] \in {Absent, tox[n]}
      BY <1>2, <2>2
    <3>3. tox[n] # Absent => HasId(n, i) \/ tox[n].id \in shared
      BY <1>1, <1>2 DEF NamesInv, ToxApartInv
    <3>4. tox[n] # Absent => HasId(n, tox[n].id)
      BY DEF HasId
    <3>5. tox'[m] # Absent => \/ tox'[m].id = i
                              \/ tox'[m].id \in shared /\ \E k \in Names : HasId(k, tox'[m].id)
      BY <1>2, <3>2, <3>3, <3>4 DEF HasId
    <3> QED BY <1>2, <3>1, <3>2, <3>5 DEF ToxStep
  <2> QED BY <1>5, <2>1, <2>2
<1>9. Uses(p)' \subseteq Uses(p)
  BY <1>0, <1>3, UsesLess DEF dbVars, IsOpen, Busy
<1>10. TakeStep(p, i) /\ DbStep(p, i)
  BY <1>3, <1>9 DEF TakeStep, DbStep, dbVars
<1>11. Step(p, i)
  BY <1>6, <1>7, <1>8, <1>10 DEF Step
<1>12. /\ OwnNames(p) /\ life[i] # "unused"
       /\ i \notin shared => OnceOf(i) /\ ExistsOf(i) /\ RunOnceOf(i)
  BY <1>0, <1>1, OwnFacts
<1>13. ASSUME i \notin shared
       PROVE  /\ tox'[m] = OwnToxFile(p)
              /\ \A k \in Names : (tox'[k] # Absent /\ tox'[k].id = i) <=> k = m
  <2>1. /\ tox[n] = OwnToxFile(p) /\ tox[m] = Absent
        /\ \A k \in Names : HasId(k, i) => k = n
    BY <1>0, <1>1, <1>12, <1>13 DEF OwnNames, ToxName
  <2>2. n # m /\ tox' = [tox EXCEPT ![m] = tox[n], ![n] = Absent]
    BY <1>2, <1>5, <2>1
  <2>3. tox'[m] = OwnToxFile(p) /\ tox'[n] = Absent /\ \A k \in Names \ {n, m} : tox'[k] = tox[k]
    BY <1>2, <2>1, <2>2
  <2>4. OwnToxFile(p).id = i
    BY <1>1 DEF OwnToxFile
  <2> QED BY <1>2, <2>1, <2>3, <2>4 DEF HasId
<1>14. ToxName(p)' = m /\ OwnToxFile(p)' = OwnToxFile(p) /\ path'[p] = path[p] /\ prof'[p].id = i
  BY <1>0, <1>1, <1>3 DEF ToxName, OwnToxFile, dbVars
<1>15. OwnNames(p)'
  BY <1>0, <1>1, <1>3, <1>12, <1>13, <1>14 DEF OwnNames, HasId, Removing
<1>16. NamesStep(p, i)
  BY <1>0, <1>1, <1>2, <1>3, <1>12, <1>13, <1>15 DEF NamesStep, OnceOf, ExistsOf, RunOnceOf, Runs, HasId
<1> QED BY <1>1, <1>11, <1>16, NamesStepInv

LEMMA RenameDatabaseNames ==
  ASSUME Base, Base', NamesInv, NEW p \in Procs, RenameDatabase(p)
  PROVE  NamesInv' /\ Step(p, prof[p].id)
<1> USE DEF Base, IInv, TypeInv
<1>0. AtWork(p) /\ at[p] = "renamingDb"
  BY DEF RenameDatabase, AtWork, AtLogin
<1>1. PICK i \in Ids : i = prof[p].id
  BY <1>0, OwnFacts
<1> DEFINE m == newName[p]
<1>2. m \in Names /\ m \in Uses(p) /\ path[p] \in Names /\ prof[p] \in ProfileObject
  BY <1>0, OwnFacts DEF PlacesInv, Renaming, DbInv, DbOf
<1>3. /\ UNCHANGED <<tox, life, harmed, shared>> /\ at' = [at EXCEPT ![p] = "running"]
      /\ prof' = [prof EXCEPT ![p].name = m, ![p].renamed = TRUE]
      /\ newName' = [newName EXCEPT ![p] = NoName]
      /\ IF IsOpen(p) THEN RenameDb(p, m) ELSE UNCHANGED dbVars
      /\ strayed' = strayed \/ strayed' = strayed \cup {i}
      /\ path'[p] # m => i \in strayed'
  BY <1>1 DEF RenameDatabase, Goto, Stray
<1>4. /\ prof'[p].name = m /\ prof'[p].id = i /\ prof'[p].password = prof[p].password
      /\ \A q \in Procs \ {p} : prof'[q] = prof[q]
  BY <1>1, <1>2, <1>3 DEF ProfileObject
<1>5. AtWork(p)'
  BY <1>3 DEF AtWork, AtLogin
<1>6. DbStepOf(p) /\ path'[p] \in {path[p], m} /\ DbOf(p)
  BY RenameDatabaseTypes DEF DbInv
<1>7. Local(p)
  BY <1>3, <1>4, <1>6, LocalStep
<1>8. IdStep(p, i)
  BY <1>0, <1>1, <1>3, <1>4, <1>5 DEF IdStep
<1>9. ToxStep(p, i)
  BY <1>3 DEF ToxStep
<1>10. work' = work /\ (IsOpen(p)' => IsOpen(p)) /\ ~Busy(p)
  <2>1. ~Busy(p)
    BY <1>0, <1>6 DEF DbOf
  <2>2. CASE IsOpen(p)
    BY <1>3, <2>1, <2>2 DEF RenameDb, dbVars
  <2>3. CASE ~IsOpen(p)
    BY <1>3, <2>1, <2>3 DEF dbVars, IsOpen
  <2> QED BY <2>2, <2>3
<1>11. Uses(p)' \subseteq {m, path[p], NoName} /\ (path[p] \in Uses(p)' => path[p] = m \/ IsOpen(p))
  BY <1>3, <1>4, <1>6, <1>10, <1>2, LockerAssumption DEF Uses, Busy
<1>12. TakeStep(p, i)
  BY <1>0, <1>2, <1>11, PathUsed, LockerAssumption DEF TakeStep
<1>13. DbStep(p, i)
  <2>1. CASE UNCHANGED <<db, tmp>>
    BY <2>1 DEF DbStep
  <2>2. CASE IsOpen(p) /\ db' = [db EXCEPT ![m] = db[path[p]], ![path[p]] = Absent] /\ tmp' = tmp
    BY <1>0, <1>2, <2>2, PathUsed DEF DbStep, Holds, DbInv
  <2> QED BY <1>3, <2>1, <2>2 DEF RenameDb, dbVars
<1>14. Step(p, i)
  BY <1>7, <1>8, <1>9, <1>12, <1>13 DEF Step
<1>15. /\ OwnNames(p) /\ life[i] # "unused"
       /\ i \notin shared => OnceOf(i) /\ ExistsOf(i) /\ RunOnceOf(i)
  BY <1>0, <1>1, OwnFacts
<1>16. ToxName(p) = m /\ ToxName(p)' = m /\ OwnToxFile(p)' = OwnToxFile(p) /\ at'[p] = "running"
  BY <1>0, <1>1, <1>3, <1>4 DEF ToxName, OwnToxFile
<1>17. OwnNames(p)'
  BY <1>0, <1>1, <1>3, <1>4, <1>15, <1>16 DEF OwnNames, HasId, Removing
<1>18. NamesStep(p, i)
  BY <1>0, <1>1, <1>3, <1>15, <1>17 DEF NamesStep, OnceOf, ExistsOf, RunOnceOf, Runs, HasId
<1> QED BY <1>1, <1>14, <1>18, NamesStepInv

LEMMA RemoveToxNames ==
  ASSUME Base, Base', NamesInv, NEW p \in Procs, RemoveTox(p)
  PROVE  NamesInv' /\ Step(p, prof[p].id)
<1> USE DEF Base, IInv, TypeInv
<1>0. AtWork(p) /\ at[p] = "removing"
  BY DEF RemoveTox, AtWork, AtLogin
<1>1. PICK i \in Ids : i = prof[p].id
  BY <1>0, OwnFacts
<1>2. /\ UNCHANGED <<dbVars, prof, newName, life, harmed, shared, strayed>>
      /\ at' = [at EXCEPT ![p] = "removingDb"]
      /\ tox' = [tox EXCEPT ![prof[p].name] = Absent]
  BY DEF RemoveTox, Goto, history
<1>3. AtWork(p)'
  BY <1>2 DEF AtWork, AtLogin
<1>4. /\ OwnNames(p) /\ life[i] # "unused" /\ prof[p].name \in Uses(p) /\ prof[p].name \in Names
      /\ i \notin shared => OnceOf(i) /\ RunOnceOf(i)
  BY <1>0, <1>1, OwnFacts
<1>5. ToxStep(p, i)
  BY <1>2, <1>4 DEF ToxStep
<1>6. Step(p, i)
  BY <1>0, <1>1, <1>2, <1>3, <1>5, SameDb, KeepStep DEF dbVars
<1>7. life'[i] = "removed" /\ path'[p] = path[p] /\ at'[p] = "removingDb" /\ prof'[p] = prof[p]
  BY <1>0, <1>1, <1>2, <1>4 DEF OwnNames, Removing, dbVars
<1>8. ASSUME i \notin shared, NEW n \in Names
      PROVE  ~(tox'[n] # Absent /\ tox'[n].id = i)
  BY <1>0, <1>1, <1>2, <1>4, <1>8 DEF OwnNames, ToxName, HasId
<1>9. OwnNames(p)'
  BY <1>0, <1>1, <1>2, <1>4, <1>7, <1>8 DEF OwnNames, HasId, Removing
<1>10. NamesStep(p, i)
  BY <1>0, <1>1, <1>2, <1>4, <1>7, <1>8, <1>9 DEF NamesStep, OnceOf, ExistsOf, RunOnceOf, Runs, HasId
<1> QED BY <1>1, <1>6, <1>10, NamesStepInv

\* A process that leaves its profile takes nothing with it.
LEMMA LeavingNames ==
  ASSUME Base, Base', NamesInv, NEW p \in Procs, NEW i \in Ids, i = prof[p].id, AtWork(p), ~AtWork(p)',
         Step(p, i), life' = life,
         \/ tox' = tox
         \/ at[p] = "running" /\ Saved(p, prof[p].password)
  PROVE  NamesInv'
<1>1. /\ OwnNames(p) /\ life[i] # "unused"
      /\ i \notin shared => OnceOf(i) /\ ExistsOf(i)
  BY OwnFacts
<1>2. shared \subseteq shared'
  BY DEF Step, IdStep
<1>3. ASSUME i \notin shared PROVE OnceOf(i)' /\ ExistsOf(i)'
  <2>1. CASE tox' = tox
    BY <1>1, <1>3, <2>1 DEF OnceOf, ExistsOf, HasId
  <2>2. CASE at[p] = "running" /\ Saved(p, prof[p].password)
    <3>1. prof[p].password \in Passwords \cup {NoPassword}
      BY OwnFacts DEF ProfileObject
    <3>2. /\ \A n \in Names \ {prof[p].name} : tox'[n] = tox[n]
          /\ prof[p].name \in Names
          /\ tox'[prof[p].name] = [id |-> prof[p].id, password |-> prof[p].password]
          /\ tox'[prof[p].name] # Absent
      BY <2>2, <3>1, SavedTox
    <3>3. \A n \in Names : HasId(n, i) => n = prof[p].name
      BY <1>1, <1>3, <2>2 DEF OwnNames, ToxName
    <3> QED BY <3>2, <3>3 DEF OnceOf, ExistsOf, HasId
  <2> QED BY <2>1, <2>2
<1>4. OwnNames(p)'
  BY DEF OwnNames
<1>5. NamesStep(p, i)
  BY <1>1, <1>2, <1>3, <1>4 DEF NamesStep
<1> QED BY <1>5, NamesStepInv

LEMMA GoneNames ==
  ASSUME Base, Base', NamesInv, NEW p \in Procs,
         \/ AssertLock(p) /\ Goto(p, "aborted")
         \/ RemoveDatabase(p) \/ Logout(p) \/ Crash(p)
  PROVE  NamesInv' /\ Step(p, prof[p].id)
<1> USE DEF Base, IInv, TypeInv
<1>0. AtWork(p)
  BY DEF AssertLock, RemoveDatabase, Logout, GuiFree, Crash, AtWork, AtLogin
<1>1. PICK i \in Ids : i = prof[p].id
  BY <1>0, OwnFacts
<1>2. /\ ~AtWork(p)' /\ \A q \in Procs \ {p} : at'[q] = at[q] /\ prof'[q] = prof[q] /\ newName'[q] = newName[q]
      /\ life' = life /\ shared \subseteq shared' /\ strayed \subseteq strayed' /\ harmed \subseteq harmed'
  <2>1. CASE AssertLock(p) /\ Goto(p, "aborted")
    <3>1. at'[p] = "aborted" /\ \A q \in Procs \ {p} : at'[q] = at[q]
      BY <2>1 DEF Goto
    <3>2. ~Goto(p, "running")
      BY <3>1 DEF Goto
    <3> QED BY <2>1, <3>1, <3>2 DEF AssertLock, AtWork
  <2>2. CASE RemoveDatabase(p)
    BY <2>2 DEF RemoveDatabase, Goto, AtWork, AtLogin, HarmUnlessUsable, Harm
  <2>3. CASE Logout(p)
    BY <2>3 DEF Logout, Goto, AtWork, AtLogin, history
  <2>4. CASE Crash(p)
    BY <2>4 DEF Crash, Goto, AtWork, AtLogin, Harm, Stray
  <2> QED BY <2>1, <2>2, <2>3, <2>4
<1>3. Forget(p) /\ (UNCHANGED <<db, tmp, bak>> \/ (RemoveDb(p) /\ IsOpen(p)))
  <2>1. CASE AssertLock(p) /\ Goto(p, "aborted")
    BY <2>1 DEF AssertLock, Goto
  <2> QED BY <2>1 DEF RemoveDatabase, RemoveDb, Logout, Crash
<1>4. DbStepOf(p)
  BY <1>3, DbTypesOf, ForgetTypes
<1>5. /\ ToxStep(p, i)
      /\ \/ tox' = tox
         \/ at[p] = "running" /\ Saved(p, prof[p].password)
  <2>1. CASE Logout(p)
    <3>1. prof[p].password \in Passwords \cup {NoPassword}
      BY <1>0, OwnFacts DEF ProfileObject
    <3> QED BY <1>0, <1>1, <2>1, <3>1, SavedTox DEF Logout, GuiFree
  <2>2. CASE ~Logout(p)
    BY <2>2 DEF AssertLock, RemoveDatabase, Crash, ToxStep
  <2> QED BY <2>1, <2>2
<1>6. Step(p, i)
  <2>1. CASE UNCHANGED <<db, tmp, bak>>
    BY <1>0, <1>1, <1>2, <1>4, <1>5, <2>1, KeepStep
  <2>2. CASE RemoveDb(p) /\ IsOpen(p)
    <3>1. Local(p)
      BY <1>2, <1>4, LocalStep
    <3>2. IdStep(p, i)
      BY <1>0, <1>1, <1>2 DEF IdStep
    <3>3. TakeStep(p, i)
      BY <1>2, UsesAtWork DEF TakeStep, Uses
    <3>4. path[p] \in Uses(p) /\ path[p] \in Names
      BY <1>0, <2>2, PathUsed DEF DbInv, DbOf
    <3>5. DbStep(p, i)
      BY <2>2, <3>4 DEF RemoveDb, DbStep, DbInv, Holds
    <3> QED BY <1>5, <3>1, <3>2, <3>3, <3>5 DEF Step
  <2> QED BY <1>3, <2>1, <2>2
<1> QED BY <1>0, <1>1, <1>2, <1>5, <1>6, LeavingNames

\* Steps that nobody with a profile takes.
Unseen ==
    /\ UNCHANGED <<dbVars, tox, prof, newName, life, strayed, shared, harmed>>
    /\ \A q \in Procs : at'[q] = at[q] \/ (~AtWork(q) /\ ~AtWork(q)')

LEMMA UnseenSame ==
  ASSUME Unseen, NEW q \in Procs
  PROVE  /\ AtWork(q)' <=> AtWork(q)
         /\ Uses(q)' = Uses(q)
         /\ AtWork(q) => at'[q] = at[q]
<1>1. (AtWork(q)' <=> AtWork(q)) /\ (AtWork(q) => at'[q] = at[q])
  BY DEF Unseen, AtWork, AtLogin
<1> QED BY <1>1 DEF Unseen, Uses, IsOpen, Busy, dbVars

LEMMA UnseenNames ==
  ASSUME NamesInv, Unseen
  PROVE  NamesInv'
<1>1. UNCHANGED <<db, tmp, path, tox, prof, newName, life, strayed, shared, harmed>>
  BY DEF Unseen, dbVars
<1>2. ApartInv' /\ ToxApartInv'
  BY <1>1, UnseenSame DEF NamesInv, ApartInv, ToxApartInv, HasId
<1>3. \A q \in Procs, j \in Ids : Runs(q, j)' <=> Runs(q, j)
  BY <1>1, UnseenSame DEF Runs
<1>4. OnceInv'
  BY <1>1, <1>3 DEF NamesInv, OnceInv, OnceOf, RunOnceOf, ExistsOf, HasId
<1>5. UnusedInv'
  BY <1>1, <1>3 DEF NamesInv, UnusedInv, UnusedOf, RunBySomeone, HasId, Holds
<1>6. ASSUME NEW q \in Procs PROVE OwnNames(q)'
  <2>1. OwnNames(q)
    BY DEF NamesInv
  <2> QED BY <1>1, <2>1, UnseenSame DEF OwnNames, Removing, ToxName, OwnToxFile, HasId
<1> QED BY <1>2, <1>4, <1>5, <1>6 DEF NamesInv

LEMMA InitNames == Init => NamesInv
<1> SUFFICES ASSUME Init PROVE NamesInv
  OBVIOUS
<1>1. \A p \in Procs : ~AtWork(p)
  BY DEF Init, AtWork, AtLogin
<1>2. \A n \in Names : tmp[n] = Absent
  BY DEF Init, DbInit
<1>3. ApartInv /\ ToxApartInv /\ \A p \in Procs : OwnNames(p)
  BY <1>1 DEF ApartInv, ToxApartInv, OwnNames, Uses
<1>4. CASE NoProfiles
  BY <1>1, <1>2, <1>3, <1>4 DEF NoProfiles, NamesInv, OnceInv, OnceOf, RunOnceOf, ExistsOf, UnusedInv, UnusedOf,
     RunBySomeone, Runs, HasId, Holds
<1>5. ASSUME NEW n \in Names, NEW i \in Ids, NEW q \in Passwords, NEW s \in {i, StaticSalt}, OldProfile(n, i, q, s)
      PROVE  NamesInv
  <2>1. [id |-> i, password |-> q] # Absent
    BY ProfileAssumption DEF ToxFile
  <2>2. \A j \in Ids, m \in Names : HasId(m, j) <=> m = n /\ j = i
    BY <1>5, <2>1 DEF OldProfile, HasId
  <2>3. OldFile(i, q, s, FALSE).of = {i}
    BY DEF OldFile, NewFile
  <2>4. \A j \in Ids, m \in Names : Holds(db[m], j) => m = n /\ j = i
    BY <1>5, <2>3 DEF OldProfile, Holds
  <2>5. \A j \in Ids : life[j] = IF j = i THEN "started" ELSE "unused"
    BY <1>5 DEF OldProfile
  <2>6. OnceInv
    BY <1>1, <2>2, <2>5 DEF OnceInv, OnceOf, RunOnceOf, ExistsOf, Runs
  <2>7. UnusedInv
    BY <1>1, <1>2, <2>2, <2>4, <2>5 DEF UnusedInv, UnusedOf, RunBySomeone, Runs, Holds
  <2> QED BY <1>3, <2>6, <2>7 DEF NamesInv
<1> QED BY <1>4, <1>5 DEF Init

\* What a step of Next is: somebody with a profile takes it, or it is not seen.
OwnStep(p) ==
    \/ OpenFirstTime(p) \/ DatabaseStep(p) \/ DatabaseFails(p) \/ AddNewMessage(p)
    \/ ChangeDbPassword(p)
    \/ LockFileLost(p) \/ Remove(p)
    \/ AssertLock(p) /\ Goto(p, "running")
    \/ SaveToxSave(p)
    \/ \E password \in Passwords \cup {NoPassword} : SetPassword(p, password)
    \/ \E n \in Names : Rename(p, n)
    \/ RenameTox(p) \/ RenameDatabase(p) \/ RemoveTox(p)
    \/ AssertLock(p) /\ Goto(p, "aborted")
    \/ RemoveDatabase(p) \/ Logout(p) \/ Crash(p)

TakingOf(p, n, i, password) ==
    \/ LoadProfile(p, n) /\ tox[n] = [id |-> i, password |-> password]
    \/ CreateProfile(p, n, i, password)

LEMMA Steps ==
  ASSUME Base, [Next]_vars
  PROVE  \/ \E p \in Procs : OwnStep(p)
         \/ \E p \in Procs, n \in Names, i \in Ids, password \in Passwords \cup {NoPassword} :
               TakingOf(p, n, i, password)
         \/ Unseen
<1>1. CASE UNCHANGED vars
  BY <1>1 DEF vars, history, Unseen
<1>2. ASSUME NEW p \in Procs, ProfileStep(p) PROVE OwnStep(p)
  <2>1. AssertLock(p) => Goto(p, "running") \/ Goto(p, "aborted")
    BY DEF AssertLock
  <2>2. CASE \E q \in Passwords \cup {NoPassword} : SetPassword(p, q)
    BY <2>2 DEF OwnStep
  <2>3. CASE \E n \in Names : Rename(p, n)
    BY <2>3 DEF OwnStep
  <2> QED BY <1>2, <2>1, <2>2, <2>3 DEF ProfileStep, OwnStep
<1>3. ASSUME NEW p \in Procs, SaveAfterLogout(p) \/ Restart(p) PROVE Unseen
  BY <1>3 DEF SaveAfterLogout, Restart, Unseen, Goto, AtWork, AtLogin, history, Base, IInv, TypeInv
<1>4. ASSUME NEW n \in Names, LockFileDeleted(n) PROVE Unseen
  BY <1>4 DEF LockFileDeleted, Unseen
<1>5. ASSUME NEW p \in Procs, NEW n \in Names, LoadProfile(p, n)
      PROVE  \E i \in Ids, password \in Passwords \cup {NoPassword} : TakingOf(p, n, i, password)
  <2>1. tox[n] \in ToxFile
    BY <1>5 DEF LoadProfile, Base, IInv, TypeInv
  <2>2. /\ tox[n].id \in Ids /\ tox[n].password \in Passwords \cup {NoPassword}
        /\ tox[n] = [id |-> tox[n].id, password |-> tox[n].password]
    BY <2>1 DEF ToxFile
  <2> QED BY <1>5, <2>2 DEF TakingOf
<1>6. CASE Next
  BY <1>2, <1>3, <1>4, <1>5, <1>6 DEF Next, OwnStep, TakingOf
<1> QED BY <1>1, <1>6

LEMMA OwnNamesStep ==
  ASSUME Base, Base', NamesInv, NEW p \in Procs, OwnStep(p)
  PROVE  NamesInv' /\ Step(p, prof[p].id) /\ prof[p].id \in Ids /\ AtWork(p)
<1>1. NamesInv' /\ Step(p, prof[p].id)
  BY WorkerNames, PlaceNames, SaveNames, RenameNames, RenameToxNames, RenameDatabaseNames,
     RemoveToxNames, GoneNames DEF OwnStep
<1>2. AtWork(p)
  <2>1. CASE \/ OpenFirstTime(p) \/ DatabaseStep(p) \/ DatabaseFails(p) \/ AddNewMessage(p)
             \/ ChangeDbPassword(p)
    BY <2>1, WorkerStep
  <2>2. CASE Crash(p)
    BY <2>2 DEF Crash
  <2>3. CASE at[p] \in {"running", "relocking", "renaming", "renamingDb", "removing", "removingDb"}
    BY <2>3 DEF AtWork, AtLogin
  <2> QED BY <2>1, <2>2, <2>3 DEF OwnStep, LockFileLost, Remove, AssertLock, SaveToxSave, SetPassword,
             Rename, RenameTox, RenameDatabase, RemoveTox, RemoveDatabase, Logout, GuiFree
<1> QED BY <1>1, <1>2, OwnFacts

LEMMA NextNames ==
  ASSUME Base, Base', NamesInv, [Next]_vars
  PROVE  NamesInv'
BY Steps, OwnNamesStep, TakingNames, UnseenNames DEF TakingOf
-----------------------------------------------------------------------------
(* What a step of p leaves alone *)

\* Of an identity that p does not have and that nobody shares, no file changes, nor what
\* the process that has it is at.
LEMMA OthersFiles ==
  ASSUME Base, Base', NamesInv, NEW p \in Procs, NEW i \in Ids, Step(p, i),
         NEW j \in Ids \ {i}, j \notin shared'
  PROVE  /\ j \notin shared /\ life'[j] = life[j]
         /\ \A n \in Names : HasId(n, j)' <=> HasId(n, j)
         /\ \A n \in Names : HasId(n, j) => tox'[n] = tox[n] /\ db'[n] = db[n] /\ tmp'[n] = tmp[n]
         /\ \A q \in Procs : Runs(q, j)' <=> Runs(q, j)
         /\ \A q \in Procs : Runs(q, j) =>
              /\ q # p
              /\ \A n \in Names : n \in Uses(q) => db'[n] = db[n] /\ tmp'[n] = tmp[n]
<1> USE DEF Step
<1>1. j \notin shared /\ life'[j] = life[j]
  BY DEF IdStep
<1>2. ASSUME NEW n \in Names, HasId(n, j)
      PROVE  n \notin Uses(p) /\ tox[n] # Absent
  BY <1>1, <1>2, UsesAtWork DEF NamesInv, ToxApartInv, HasId, IdStep
<1>3. ASSUME NEW n \in Names, HasId(n, j)
      PROVE  tox'[n] = tox[n] /\ db'[n] = db[n] /\ tmp'[n] = tmp[n]
  BY <1>2, <1>3 DEF ToxStep, DbStep
<1>4. ASSUME NEW n \in Names, tox'[n] # tox[n], tox'[n] # Absent
      PROVE  tox'[n].id # j
  BY <1>1, <1>4 DEF ToxStep
<1>5. \A n \in Names : HasId(n, j)' <=> HasId(n, j)
  BY <1>3, <1>4 DEF HasId
<1>6. ASSUME NEW q \in Procs, q # p
      PROVE  Runs(q, j)' <=> Runs(q, j)
  BY <1>6, OthersKeep DEF Runs
<1>7. ~Runs(p, j) /\ ~Runs(p, j)'
  BY DEF Runs, IdStep
<1>8. ASSUME NEW q \in Procs, Runs(q, j), NEW n \in Names, n \in Uses(q)
      PROVE  n \notin Uses(p)
  BY <1>1, <1>7, <1>8 DEF NamesInv, ApartInv, Runs
<1>9. ASSUME NEW q \in Procs, Runs(q, j), NEW n \in Names, n \in Uses(q)
      PROVE  db'[n] = db[n] /\ tmp'[n] = tmp[n]
  BY <1>8, <1>9 DEF DbStep
<1> QED BY <1>1, <1>3, <1>5, <1>6, <1>7, <1>9

\* The one who has an identity is the one whose step it is.
LEMMA OthersHaveNot ==
  ASSUME Base, Base', NamesInv, NamesInv', NEW p \in Procs, NEW i \in Ids, Step(p, i), i \notin shared',
         NEW q \in Procs \ {p}
  PROVE  ~Runs(q, i) /\ ~Runs(q, i)'
<1>1. Runs(q, i)' <=> Runs(q, i)
  BY OthersKeep DEF Runs, Step
<1>2. RunOnceOf(i) /\ RunOnceOf(i)'
  BY DEF NamesInv, OnceInv, Step, IdStep
<1>3. Runs(p, i) \/ Runs(p, i)'
  BY DEF Step, IdStep, Runs
<1> QED BY <1>1, <1>2, <1>3 DEF RunOnceOf
-----------------------------------------------------------------------------
(* The history is kept *)

Odd == shared \cup strayed

\* The history of i is where the next one to open the files of n finds it.
Has(n, i) == Holds(OnDisk(n), i)

\* Which files there are while the worker thread of p is at it.
DbThere(p) ==
    /\ IsOpen(p) \/ work[p].at \in {"fallback", "exporting", "swapping", "rekeying"} => db[path[p]] # Absent
    /\ work[p].at \in {"exporting", "swapping", "swapped"} => tmp[path[p]] # Absent
    /\ work[p].at = "swapped" => db[path[p]] = Absent
    /\ work[p].at = "swapping" => tmp[path[p]].of = db[path[p]].of

KeptAtWork(p) ==
    AtWork(p) /\ prof[p].id \notin Odd =>
        DbThere(p) /\ (life[prof[p].id] = "started" => Has(path[p], prof[p].id))
KeptIdle(i) ==
    life[i] = "started" /\ ~RunBySomeone(i) => \A n \in Names : HasId(n, i) => Has(n, i)

KeptInv ==
    /\ \A p \in Procs : KeptAtWork(p)
    /\ \A i \in Ids \ Odd : KeptIdle(i)

\* What is left to show of a step: that p keeps its own history.
KeptStep(p, i) ==
    i \notin Odd' =>
        /\ AtWork(p)' => DbThere(p)' /\ (life'[i] = "started" => Has(path[p], i)')
        /\ ~AtWork(p)' /\ life'[i] = "started" => \A n \in Names : HasId(n, i)' => Has(n, i)'

LEMMA KeptStepInv ==
  ASSUME Base, Base', NamesInv, NamesInv', KeptInv, NEW p \in Procs, NEW i \in Ids, Step(p, i), KeptStep(p, i)
  PROVE  KeptInv'
<1>1. \A q \in Procs : AtWork(q)' => prof'[q].id \in Ids
  BY DEF Base, IInv, TypeInv, ProfileObject
<1>2. Odd \subseteq Odd' /\ shared' \subseteq Odd'
  BY DEF Step, IdStep, Odd
<1>3. \A q \in Procs \ {p} : AtWork(q)' =>
        /\ AtWork(q) /\ prof'[q] = prof[q] /\ path'[q] = path[q] /\ conn'[q] = conn[q] /\ work'[q] = work[q]
  BY OthersKeep DEF Step, Local
<1>4. ASSUME NEW q \in Procs, AtWork(q)', NEW j \in Ids, prof'[q].id = j, j \notin Odd'
      PROVE  DbThere(q)' /\ (life'[j] = "started" => Has(path[q], j)')
  <2>1. CASE q = p
    <3>1. j = i
      BY <1>4, <2>1 DEF Step, IdStep
    <3> QED BY <1>4, <2>1, <3>1 DEF KeptStep
  <2>2. CASE q # p
    <3>1. AtWork(q) /\ j = prof[q].id /\ Runs(q, j) /\ j \notin shared' /\ j \notin Odd
      BY <1>2, <1>3, <1>4, <2>2 DEF Runs
    <3>2. j # i
      BY <2>2, <3>1, OthersHaveNot
    <3>3. path[q] \in Names /\ path[q] \in Uses(q)
      <4>1. path[q] = prof[q].name
        BY <3>1 DEF NamesInv, OwnNames, Odd
      <4> QED BY <3>1, <4>1, OwnFacts
    <3>4. db'[path[q]] = db[path[q]] /\ tmp'[path[q]] = tmp[path[q]] /\ life'[j] = life[j]
      BY <3>1, <3>2, <3>3, OthersFiles
    <3>5. DbThere(q) /\ (life[j] = "started" => Has(path[q], j))
      BY <3>1 DEF KeptInv, KeptAtWork
    <3>6. path'[q] = path[q] /\ conn'[q] = conn[q] /\ work'[q] = work[q]
      BY <1>3, <1>4, <2>2
    <3>7. DbThere(q)'
      BY <3>4, <3>5, <3>6 DEF DbThere, IsOpen
    <3> QED BY <3>4, <3>5, <3>6, <3>7 DEF Has, OnDisk
  <2> QED BY <2>1, <2>2
<1>5. ASSUME NEW j \in Ids, j \notin Odd', life'[j] = "started", ~RunBySomeone(j)', NEW n \in Names, HasId(n, j)'
      PROVE  Has(n, j)'
  <2>1. CASE j = i
    <3>1. ~AtWork(p)'
      BY <1>5, <2>1 DEF RunBySomeone, Runs, Step, IdStep
    <3> QED BY <1>5, <2>1, <3>1 DEF KeptStep
  <2>2. CASE j # i
    <3>1. j \notin shared' /\ j \notin Odd
      BY <1>2, <1>5
    <3>2. /\ life[j] = "started" /\ ~RunBySomeone(j) /\ HasId(n, j)
          /\ db'[n] = db[n] /\ tmp'[n] = tmp[n]
      BY <1>5, <2>2, <3>1, OthersFiles DEF RunBySomeone
    <3>3. Has(n, j)
      BY <3>1, <3>2 DEF KeptInv, KeptIdle
    <3> QED BY <3>2, <3>3 DEF Has, OnDisk
  <2> QED BY <2>1, <2>2
<1>6. ASSUME NEW q \in Procs PROVE KeptAtWork(q)'
  <2> SUFFICES ASSUME AtWork(q)', NEW j \in Ids, prof'[q].id = j, j \notin Odd'
               PROVE  DbThere(q)' /\ (life'[j] = "started" => Has(path[q], j)')
    BY <1>1 DEF KeptAtWork, Has, OnDisk
  <2> QED BY <1>4
<1> QED BY <1>5, <1>6 DEF KeptInv, KeptIdle
-----------------------------------------------------------------------------
(* What the operations of the database do, seen from the process *)

Db(p) == db[path[p]]
Tmp(p) == tmp[path[p]]
NewExport(key) == [NewFile(key, {}) EXCEPT !.whole = FALSE]

LEMMA NewExportType ==
  ASSUME NEW key \in Keys
  PROVE  /\ NewExport(key) \in File /\ NewExport(key) # Absent
         /\ NewExport(key).key = key /\ NewExport(key).latest = TRUE /\ NewExport(key).of = {}
<1>1. NewExport(key) \in File
  BY DEF NewExport, NewFile, File
<1> QED BY <1>1, FileAssumption DEF NewExport, NewFile

LEMMA PlaceOf ==
  ASSUME DbInv, NEW p \in Procs, NEW place, work'[p] = [work[p] EXCEPT !.at = place]
  PROVE  work'[p].at = place /\ work'[p].key = work[p].key /\ work'[p].upgrade = work[p].upgrade
<1>1. work[p] \in WorkType
  BY DEF DbInv
<1> QED BY <1>1 DEF WorkType

LEMMA IdleAt == Idle.at = "idle" /\ Idle.key = NoKey /\ Idle.upgrade = FALSE
BY DEF Idle

\* What open makes of the files and of the process.
Opened(p, key, file, upgrade) ==
    /\ Db(p)' = file
    /\ \/ /\ key = NoKey
          /\ conn'[p] = IF file.key = key THEN "usable" ELSE "open"
          /\ Tmp(p)' = Export(p)
          /\ work'[p] = Idle
       \/ /\ key # NoKey /\ file.key = key /\ file.latest
          /\ conn'[p] = "usable"
          /\ Tmp(p)' = Export(p)
          /\ work'[p] = IF upgrade THEN [work[p] EXCEPT !.at = "rekeying"] ELSE Idle
       \/ /\ key # NoKey /\ file.key = key /\ ~file.latest /\ CanAttach(p)
          /\ conn'[p] = "open"
          /\ Tmp(p)' = NewExport(key)
          /\ work'[p] = [at |-> "exporting", key |-> key, upgrade |-> upgrade]

LEMMA OpenEffect ==
  ASSUME DbInv, NEW p \in Procs, path[p] \in Names, path' = path, NEW key \in Keys, NEW file \in File,
         NEW upgrade \in BOOLEAN, Open(p, key, file, upgrade)
  PROVE  Opened(p, key, file, upgrade)
<1>1. db'[path[p]] = file
  BY DEF Open, DbInv
<1>2. CASE key = NoKey /\ Stop(p)
  BY <1>1, <1>2 DEF Open, Opened, Stop, Fits, Db, Tmp, DbInv
<1>3. CASE /\ key # NoKey /\ Fits(key, file) /\ file.latest
           /\ conn' = [conn EXCEPT ![p] = "usable"]
           /\ tmp' = [tmp EXCEPT ![path[p]] = Export(p)]
           /\ work' = [work EXCEPT ![p] = IF upgrade THEN [@ EXCEPT !.at = "rekeying"] ELSE Idle]
  BY <1>1, <1>3 DEF Opened, Fits, Db, Tmp, DbInv
<1>4. CASE /\ key # NoKey /\ Fits(key, file) /\ ~file.latest /\ CanAttach(p)
           /\ conn' = [conn EXCEPT ![p] = "open"]
           /\ StartExport(p, key, upgrade)
  BY <1>1, <1>4 DEF StartExport, Opened, NewExport, Fits, Db, Tmp, DbInv
<1> QED BY <1>2, <1>3, <1>4 DEF Open

LEMMA FoundFacts ==
  ASSUME DbInv, NEW p \in Procs, path[p] \in Names, NEW new \in File
  PROVE  /\ Found(p, new) \in File /\ Found(p, new) # Absent
         /\ Db(p) # Absent => Found(p, new) = Db(p)
         /\ Db(p) = Absent /\ Tmp(p) # Absent =>
              /\ Found(p, new).key = Tmp(p).key /\ Found(p, new).latest = Tmp(p).latest
              /\ Found(p, new).of = Tmp(p).of
         /\ Db(p) = Absent /\ Tmp(p) = Absent => Found(p, new) = new
         /\ Export(p) = IF Db(p) = Absent THEN Absent ELSE Tmp(p)
<1>1. Found(p, new) \in File
  BY DbTypesOf, FoundType
<1>2. Tmp(p) # Absent => Tmp(p) \in File
  BY DEF DbInv, Tmp
<1> QED BY <1>1, <1>2, FileAssumption DEF Found, Export, Db, Tmp, File

LEMMA OpenFirstEffect ==
  ASSUME DbInv, NEW p \in Procs, path[p] \in Names, NEW new \in File, OpenFirst(p, new)
  PROVE  /\ work[p].at = "opening" /\ path' = path /\ hexKey' = hexKey
         /\ Db(p)' = Found(p, new)
         /\ \/ Opened(p, hexKey[p], Found(p, new), FALSE)
            \/ /\ CannotOpen(p, hexKey[p], Found(p, new))
               /\ Tmp(p)' = Export(p)
               /\ conn' = conn
               /\ work'[p] = [work[p] EXCEPT !.at = "fallback"]
<1> DEFINE file == Found(p, new)
<1>1. file \in File /\ hexKey[p] \in Keys
  BY FoundFacts DEF DbInv
<1>2. path' = path /\ hexKey' = hexKey /\ work[p].at = "opening"
  BY DEF OpenFirst
<1>3. CASE Open(p, hexKey[p], file, FALSE)
  <2>1. Opened(p, hexKey[p], file, FALSE)
    <3> HIDE DEF file
    <3> QED BY <1>1, <1>2, <1>3, OpenEffect
  <2> QED BY <1>2, <2>1 DEF Opened
<1>4. CASE /\ CannotOpen(p, hexKey[p], file)
           /\ db' = [db EXCEPT ![path[p]] = file]
           /\ tmp' = [tmp EXCEPT ![path[p]] = Export(p)]
           /\ work' = [work EXCEPT ![p].at = "fallback"]
           /\ UNCHANGED <<bak, conn>>
  BY <1>2, <1>4 DEF Db, Tmp, DbInv
<1> QED BY <1>3, <1>4 DEF OpenFirst

LEMMA OldSaltEffect ==
  ASSUME DbInv, NEW p \in Procs, path[p] \in Names, OpenWithOldSalt(p)
  PROVE  LET old == Key(hexKey[p].password, StaticSalt)
             file == Found(p, NewFile(old, {}))
         IN /\ work[p].at = "fallback" /\ path' = path /\ hexKey'[p] = old
            /\ \/ \E upgrade \in BOOLEAN : Opened(p, old, file, upgrade)
               \/ /\ CannotOpen(p, old, file)
                  /\ UNCHANGED <<db, tmp, conn>>
                  /\ work'[p] = Idle
<1> DEFINE old == Key(hexKey[p].password, StaticSalt)
           file == Found(p, NewFile(old, {}))
<1>1. old \in Keys /\ file \in File
  <2>1. old \in Keys
    BY KeysOf DEF DbInv
  <2> QED BY <2>1, NewFileType, FoundFacts
<1>2. path' = path /\ hexKey'[p] = old /\ work[p].at = "fallback" /\ CanBackup(p) \in BOOLEAN
  BY DEF OpenWithOldSalt, DbInv, CanBackup
<1>3. CASE Open(p, old, file, CanBackup(p))
  <2>1. \E upgrade \in BOOLEAN : Opened(p, old, file, upgrade)
    <3> HIDE DEF file, old
    <3> QED BY <1>1, <1>2, <1>3, OpenEffect
  <2> QED BY <1>2, <2>1
<1>4. CASE CannotOpen(p, old, file) /\ Stop(p) /\ UNCHANGED <<db, tmp, conn>>
  BY <1>2, <1>4 DEF Stop, DbInv
<1> QED BY <1>3, <1>4 DEF OpenWithOldSalt

LEMMA UpgradeEffect ==
  ASSUME DbInv, NEW p \in Procs, path[p] \in Names, NEW key \in Keys, UpgradeSalt(p, key)
  PROVE  /\ work[p].at = "rekeying" /\ path' = path /\ UNCHANGED <<hexKey, conn>>
         /\ Db(p)' = IF Usable(p) THEN [Db(p) EXCEPT !.key = key] ELSE Db(p)
         /\ Tmp(p)' = Absent /\ work'[p] = Idle
BY DEF UpgradeSalt, Stop, Db, Tmp, DbInv

LEMMA FinishEffect ==
  ASSUME DbInv, NEW p \in Procs, path[p] \in Names, FinishExport(p)
  PROVE  /\ work[p].at = "exporting" /\ path' = path /\ UNCHANGED <<db, hexKey, conn>>
         /\ work'[p] = [work[p] EXCEPT !.at = "swapping"]
         /\ Tmp(p) # Absent /\ Db(p) # Absent =>
              /\ Tmp(p)' # Absent /\ Tmp(p)'.of = Db(p).of
              /\ Tmp(p)'.key = Tmp(p).key /\ Tmp(p)'.latest = Tmp(p).latest
<1>1. /\ work[p].at = "exporting" /\ path' = path /\ UNCHANGED <<db, hexKey, conn>>
      /\ work'[p] = [work[p] EXCEPT !.at = "swapping"]
  BY DEF FinishExport, DbInv
<1>2. ASSUME Tmp(p) # Absent, Db(p) # Absent
      PROVE  /\ Tmp(p)' # Absent /\ Tmp(p)'.of = Db(p).of
             /\ Tmp(p)'.key = Tmp(p).key /\ Tmp(p)'.latest = Tmp(p).latest
  <2>1. Tmp(p) \in File /\ Db(p) \in File
    BY <1>2 DEF DbInv, Tmp, Db
  <2>2. tmp'[path[p]] = [tmp[path[p]] EXCEPT !.whole = TRUE, !.of = db[path[p]].of]
    BY <1>2, <2>1 DEF FinishExport, DbInv, Tmp, Db, File
  <2>3. [tmp[path[p]] EXCEPT !.whole = TRUE, !.of = db[path[p]].of] \in File
    BY <2>1 DEF Tmp, Db, File
  <2> QED BY <1>1, <2>1, <2>2, <2>3, FileAssumption DEF Tmp, Db, File
<1> QED BY <1>1, <1>2

LEMMA RemoveOldEffect ==
  ASSUME DbInv, NEW p \in Procs, path[p] \in Names, RemoveOld(p)
  PROVE  /\ work[p].at = "swapping" /\ path' = path /\ UNCHANGED <<tmp, hexKey>>
         /\ conn'[p] = "closed" /\ Db(p)' = Absent
         /\ work'[p] = [work[p] EXCEPT !.at = "swapped"]
BY DEF RemoveOld, Close, Db, DbInv

LEMMA RenameExportEffect ==
  ASSUME DbInv, NEW p \in Procs, path[p] \in Names, RenameExport(p)
  PROVE  LET file == Found(p, NewFile(work[p].key, {}))
             opened == file.key = work[p].key
         IN /\ work[p].at = "swapped" /\ path' = path /\ work[p].key \in Keys
            /\ Db(p)' = file /\ Tmp(p)' = Export(p)
            /\ hexKey'[p] = work[p].key
            /\ conn'[p] = IF opened THEN "usable" ELSE "closed"
            /\ work'[p] = IF opened /\ work[p].upgrade THEN [work[p] EXCEPT !.at = "rekeying"] ELSE Idle
<1>1. work[p].key \in Keys
  BY DEF DbInv, WorkType
<1>2. /\ work[p].at = "swapped" /\ path' = path
      /\ Db(p)' = Found(p, NewFile(work[p].key, {})) /\ Tmp(p)' = Export(p)
      /\ hexKey'[p] = work[p].key
  BY DEF RenameExport, Db, Tmp, DbInv
<1> DEFINE file == Found(p, NewFile(work[p].key, {}))
           opened == Fits(work[p].key, file)
<1>3. /\ conn'[p] = IF opened THEN "usable" ELSE "closed"
      /\ work'[p] = IF opened /\ work[p].upgrade THEN [work[p] EXCEPT !.at = "rekeying"] ELSE Idle
  <2>1. /\ conn' = [conn EXCEPT ![p] = IF opened THEN "usable" ELSE "closed"]
        /\ work' = [work EXCEPT ![p] = IF opened /\ @.upgrade THEN [@ EXCEPT !.at = "rekeying"] ELSE Idle]
    BY DEF RenameExport
  <2> HIDE DEF opened
  <2> QED BY <2>1 DEF DbInv
<1> QED BY <1>1, <1>2, <1>3 DEF Fits

LEMMA SetPasswordEffect ==
  ASSUME DbInv, NEW p \in Procs, path[p] \in Names, NEW key \in Keys, SetDbPassword(p, key)
  PROVE  /\ path' = path /\ hexKey' = hexKey
         /\ \/ /\ hexKey[p] # NoKey /\ key # NoKey /\ Usable(p)
               /\ Db(p)' = [Db(p) EXCEPT !.key = key] /\ Tmp(p)' = Absent
               /\ UNCHANGED <<conn, work>>
            \/ /\ (hexKey[p] = NoKey) # (key = NoKey) /\ Usable(p)
               /\ db' = db /\ Tmp(p)' = NewExport(key) /\ conn' = conn
               /\ work'[p] = [at |-> "exporting", key |-> key, upgrade |-> FALSE]
            \/ /\ hexKey[p] = NoKey /\ key = NoKey
               /\ db' = db /\ Tmp(p)' = Absent /\ UNCHANGED <<conn, work>>
            \/ /\ ~Usable(p)
               /\ db' = db /\ Tmp(p)' = Absent /\ conn'[p] = "closed" /\ work' = work
<1>1. CASE hexKey[p] # NoKey /\ key # NoKey /\ Usable(p) /\ Rekey(p, key)
  BY <1>1 DEF Rekey, Db, Tmp, DbInv
<1>2. CASE (hexKey[p] = NoKey) # (key = NoKey) /\ Usable(p) /\ ChangeEncryption(p, key)
  BY <1>2 DEF ChangeEncryption, StartExport, NewExport, Db, Tmp, DbInv
<1>3. CASE /\ hexKey[p] = NoKey /\ key = NoKey
           /\ tmp' = [tmp EXCEPT ![path[p]] = Absent]
           /\ UNCHANGED <<db, bak, path, hexKey, conn, work>>
  BY <1>3 DEF Tmp, DbInv
<1>4. CASE /\ ~Usable(p)
           /\ tmp' = [tmp EXCEPT ![path[p]] = Absent]
           /\ Close(p)
           /\ UNCHANGED <<db, bak, path, hexKey, work>>
  BY <1>4 DEF Close, Tmp, DbInv
<1> QED BY <1>1, <1>2, <1>3, <1>4 DEF SetDbPassword

LEMMA FailEffect ==
  ASSUME DbInv, NEW p \in Procs, path[p] \in Names, FailExport(p) \/ FailRekey(p)
  PROVE  /\ db' = db /\ path' = path /\ conn'[p] = "closed"
         /\ \/ /\ work[p].at = "exporting" /\ tmp' = tmp
               /\ work'[p] = Idle \/ work'[p] = [work[p] EXCEPT !.at = "fallback"]
            \/ Tmp(p)' = Absent /\ work'[p] = Idle
<1>1. CASE FailExport(p)
  BY <1>1 DEF FailExport, Close, Stop, DbInv
<1>2. CASE FailRekey(p)
  BY <1>2 DEF FailRekey, Close, Stop, Tmp, DbInv
<1> QED BY <1>1, <1>2
-----------------------------------------------------------------------------
(* What each step makes of the history *)

LEMMA OpenedKeeps ==
  ASSUME DbInv, NEW p \in Procs, path[p] \in Names, path' = path, NEW key \in Keys, NEW file \in File,
         NEW upgrade \in BOOLEAN, Opened(p, key, file, upgrade)
  PROVE  DbThere(p)' /\ Db(p)' = file /\ Db(p)' # Absent
<1>1. file # Absent /\ NewExport(key) # Absent
  BY NewExportType, FileAssumption
<1>2. \/ work'[p].at \in {"idle", "rekeying"}
      \/ work'[p].at = "exporting" /\ Tmp(p)' # Absent
  BY <1>1, PlaceOf, IdleAt DEF Opened
<1>3. Db(p)' = file
  BY DEF Opened
<1> QED BY <1>1, <1>2, <1>3 DEF DbThere, Db, Tmp

\* The steps of the worker thread.
LEMMA OpeningKeeps ==
  ASSUME DbInv, NEW p \in Procs, path[p] \in Names, DbThere(p), NEW i \in Ids, NEW first \in SUBSET {i},
         OpenFirst(p, NewFile(hexKey[p], first)) \/ OpenWithOldSalt(p)
  PROVE  /\ DbThere(p)' /\ Db(p)' # Absent /\ path' = path
         /\ Has(path[p], i) => Holds(Db(p)', i)
<1>0. work[p] \in WorkType /\ hexKey[p] \in Keys
  BY DEF DbInv
<1>1. ASSUME NEW new \in File, Has(path[p], i)
      PROVE  Holds(Found(p, new), i)
  BY <1>1, FoundFacts DEF Has, OnDisk, Holds, Db, Tmp
<1>2. CASE OpenFirst(p, NewFile(hexKey[p], first))
  <2> DEFINE file == Found(p, NewFile(hexKey[p], first))
  <2>1. NewFile(hexKey[p], first) \in File
    BY <1>0, NewFileType
  <2>2. file \in File /\ file # Absent
    BY <2>1, FoundFacts
  <2>3. Has(path[p], i) => Holds(file, i)
    BY <1>1, <2>1
  <2>4. /\ path' = path /\ Db(p)' = file
        /\ \/ Opened(p, hexKey[p], file, FALSE)
           \/ work'[p] = [work[p] EXCEPT !.at = "fallback"]
    BY <1>2, <2>1, OpenFirstEffect
  <2>5. DbThere(p)'
    <3> HIDE DEF file
    <3>1. CASE Opened(p, hexKey[p], file, FALSE)
      BY <1>0, <2>2, <2>4, <3>1, OpenedKeeps
    <3>2. CASE work'[p] = [work[p] EXCEPT !.at = "fallback"]
      <4>1. work'[p].at = "fallback"
        BY <1>0, <3>2 DEF WorkType
      <4> QED BY <2>2, <2>4, <4>1 DEF DbThere, Db, IsOpen
    <3> QED BY <2>4, <3>1, <3>2
  <2> QED BY <2>2, <2>3, <2>4, <2>5
<1>3. CASE OpenWithOldSalt(p)
  <2> DEFINE old == Key(hexKey[p].password, StaticSalt)
             file == Found(p, NewFile(old, {}))
  <2>1. old \in Keys
    BY <1>0, KeysOf
  <2>2. NewFile(old, {}) \in File
    BY <2>1, NewFileType
  <2>3. file \in File /\ (Has(path[p], i) => Holds(file, i)) /\ (Db(p) # Absent => file = Db(p))
    BY <1>1, <2>2, FoundFacts
  <2>4. /\ path' = path /\ work[p].at = "fallback"
        /\ \/ \E upgrade \in BOOLEAN : Opened(p, old, file, upgrade)
           \/ UNCHANGED <<db, tmp, conn>> /\ work'[p] = Idle
    BY <1>3, OldSaltEffect
  <2> HIDE DEF file, old
  <2>5. CASE \E upgrade \in BOOLEAN : Opened(p, old, file, upgrade)
    BY <2>1, <2>3, <2>4, <2>5, OpenedKeeps
  <2>6. CASE UNCHANGED <<db, tmp, conn>> /\ work'[p] = Idle
    BY <2>3, <2>4, <2>6 DEF DbThere, Db, Tmp, Idle, IsOpen
  <2> QED BY <2>4, <2>5, <2>6
<1> QED BY <1>2, <1>3

LEMMA SwapKeeps ==
  ASSUME DbInv, NEW p \in Procs, path[p] \in Names, DbThere(p), NEW i \in Ids, NEW key \in Keys,
         \/ FinishExport(p) \/ RemoveOld(p) \/ RenameExport(p) \/ FailExport(p)
         \/ UpgradeSalt(p, key)
         \/ FailRekey(p) /\ Db(p) # Absent
  PROVE  /\ DbThere(p)' /\ path' = path
         /\ Has(path[p], i) => Has(path[p], i)'
<1>1. CASE FinishExport(p)
  <2>1. Db(p) # Absent /\ Tmp(p) # Absent
    BY <1>1, FinishEffect DEF DbThere, Db, Tmp
  <2>2. work'[p].at = "swapping"
    <3>1. work'[p] = [work[p] EXCEPT !.at = "swapping"]
      BY <1>1, FinishEffect
    <3> QED BY <3>1, PlaceOf
  <2> QED BY <1>1, <2>1, <2>2, FinishEffect DEF DbThere, Has, OnDisk, Db, Tmp
<1>2. CASE RemoveOld(p)
  <2>1. work'[p].at = "swapped"
    <3>1. work'[p] = [work[p] EXCEPT !.at = "swapped"]
      BY <1>2, RemoveOldEffect
    <3> QED BY <3>1, PlaceOf
  <2> QED BY <1>2, <2>1, RemoveOldEffect DEF DbThere, IsOpen, Has, OnDisk, Holds, Db, Tmp
<1>3. CASE RenameExport(p)
  <2> DEFINE new == NewFile(work[p].key, {})
  <2>1. new \in File
    BY <1>3, RenameExportEffect, NewFileType
  <2>2. Db(p) = Absent /\ Tmp(p) # Absent
    BY <1>3, RenameExportEffect DEF DbThere, Db, Tmp
  <2>3. /\ Found(p, new) # Absent /\ Found(p, new).of = Tmp(p).of
    BY <2>1, <2>2, FoundFacts
  <2>4. Db(p)' = Found(p, new) /\ path' = path
    BY <1>3, RenameExportEffect
  <2>5. work'[p] = Idle \/ work'[p] = [work[p] EXCEPT !.at = "rekeying"]
    BY <1>3, RenameExportEffect
  <2>6. work'[p].at \in {"idle", "rekeying"}
    BY <2>5, PlaceOf, IdleAt
  <2> HIDE DEF new
  <2> QED BY <2>2, <2>3, <2>4, <2>6 DEF DbThere, Has, OnDisk, Holds, Db, Tmp
<1>4. CASE FailExport(p) \/ (FailRekey(p) /\ Db(p) # Absent)
  <2>1. Db(p) # Absent
    BY <1>4 DEF DbThere, FailExport, Db
  <2>2. db' = db /\ path' = path /\ conn'[p] = "closed"
    BY <1>4, FailEffect
  <2>3. work'[p].at \in {"idle", "fallback"}
    <3>1. work'[p] = Idle \/ work'[p] = [work[p] EXCEPT !.at = "fallback"]
      BY <1>4, FailEffect
    <3> QED BY <3>1, PlaceOf, IdleAt
  <2> QED BY <2>1, <2>2, <2>3 DEF DbThere, IsOpen, Has, OnDisk, Holds, Db
<1>5. CASE UpgradeSalt(p, key)
  <2>1. Db(p) # Absent /\ Db(p) \in File
    BY <1>5, UpgradeEffect DEF DbThere, Db, DbInv
  <2>2. Db(p)' \in File /\ Db(p)'.of = Db(p).of /\ path' = path /\ work'[p] = Idle
    BY <1>5, <2>1, UpgradeEffect DEF File
  <2> QED BY <2>1, <2>2, FileAssumption DEF DbThere, Idle, Has, OnDisk, Holds, Db
<1> QED BY <1>1, <1>2, <1>3, <1>4, <1>5

LEMMA PasswordKeeps ==
  ASSUME DbInv, NEW p \in Procs, path[p] \in Names, DbThere(p), Db(p) # Absent, ~Busy(p),
         NEW i \in Ids, NEW key \in Keys, SetDbPassword(p, key)
  PROVE  /\ DbThere(p)' /\ path' = path
         /\ Has(path[p], i) => Has(path[p], i)'
<1>1. /\ Db(p) \in File /\ [Db(p) EXCEPT !.key = key] \in File /\ [Db(p) EXCEPT !.key = key].of = Db(p).of
      /\ [Db(p) EXCEPT !.key = key] # Absent
  BY FileAssumption DEF Db, DbInv, File
<1>2. path' = path
  BY SetPasswordEffect
<1>3. Db(p)' # Absent /\ Db(p)'.of = Db(p).of
  <2>1. Db(p)' = [Db(p) EXCEPT !.key = key] \/ db' = db
    BY SetPasswordEffect
  <2> QED BY <1>1, <1>2, <2>1 DEF Db
<1>4. DbThere(p)'
  <2>1. \/ work' = work
        \/ work'[p].at = "exporting" /\ Tmp(p)' # Absent
    <3>1. NewExport(key) # Absent
      BY NewExportType
    <3>2. \/ work' = work
          \/ /\ Tmp(p)' = NewExport(key)
             /\ work'[p] = [at |-> "exporting", key |-> key, upgrade |-> FALSE]
      BY SetPasswordEffect
    <3> QED BY <3>1, <3>2
  <2> QED BY <1>2, <1>3, <2>1 DEF DbThere, Busy, Db, Tmp
<1> QED BY <1>2, <1>3, <1>4 DEF Has, OnDisk, Holds, Db

LEMMA WorkerKept ==
  ASSUME Base, Base', NamesInv, KeptInv, NEW p \in Procs, NEW i \in Ids, i = prof[p].id,
         \/ OpenFirstTime(p) \/ DatabaseStep(p) \/ DatabaseFails(p) \/ AddNewMessage(p)
         \/ ChangeDbPassword(p)
  PROVE  KeptStep(p, i)
<1> USE DEF Base, IInv, TypeInv
<1>0. /\ AtWork(p) /\ AtWork(p)' /\ path' = path /\ shared' = shared /\ strayed' = strayed
  BY WorkerStep
<1>1. i = prof[p].id
  OBVIOUS
<1> SUFFICES ASSUME i \notin Odd
             PROVE  DbThere(p)' /\ (life'[i] = "started" => Has(path[p], i)')
  BY <1>0 DEF KeptStep, Odd
<1>2. path[p] \in Names /\ DbKey(p) \in Keys
  BY <1>0, OwnFacts, DbKeyType DEF DbInv, DbOf
<1>3. DbThere(p) /\ (life[i] = "started" => Has(path[p], i))
  BY <1>0, <1>1 DEF KeptInv, KeptAtWork
<1>4. CASE OpenFirstTime(p)
  <2> DEFINE first == IF life[i] = "created" THEN {i} ELSE {}
  <2>1. /\ OpenFirst(p, NewFile(hexKey[p], first))
        /\ life' = [life EXCEPT ![i] = IF i \in first /\ i \in db'[path[p]].of THEN "started" ELSE @]
        /\ first \in SUBSET {i}
    BY <1>1, <1>0, <1>4 DEF OpenFirstTime
  <2> HIDE DEF first
  <2>2. /\ DbThere(p)' /\ Db(p)' # Absent
        /\ Has(path[p], i) => Holds(Db(p)', i)
    BY <1>2, <1>3, <2>1, OpeningKeeps
  <2>3. life'[i] = "started" => life[i] = "started" \/ i \in db'[path[p]].of
    BY <2>1 DEF HistoryInv
  <2> QED BY <1>0, <1>3, <2>2, <2>3 DEF Has, OnDisk, Holds, Db
<1>5. CASE DatabaseStep(p)
  <2>1. life' = life
    BY <1>5 DEF DatabaseStep, history
  <2>2. CASE OpenWithOldSalt(p)
    <3>1. DbThere(p)' /\ Db(p)' # Absent /\ (Has(path[p], i) => Holds(Db(p)', i))
      BY <1>2, <1>3, <2>2, OpeningKeeps
    <3> QED BY <1>0, <1>3, <2>1, <3>1 DEF Has, OnDisk, Holds, Db
  <2>3. CASE UpgradeSalt(p, DbKey(p)) \/ FinishExport(p) \/ RemoveOld(p) \/ RenameExport(p)
    BY <1>2, <1>3, <2>1, <2>3, SwapKeeps
  <2> QED BY <1>5, <2>2, <2>3 DEF DatabaseStep
<1>6. CASE DatabaseFails(p)
  <2>1. life' = life
    BY <1>6 DEF DatabaseFails
  <2>2. FailExport(p) \/ (FailRekey(p) /\ Db(p) # Absent)
    BY <1>3, <1>6 DEF DatabaseFails, DbThere, Db
  <2> QED BY <1>2, <1>3, <2>1, <2>2, SwapKeeps
<1>7. CASE AddNewMessage(p)
  <2>1. /\ db' = [db EXCEPT ![path[p]] = [db[path[p]] EXCEPT !.of = @ \cup {i}]]
        /\ UNCHANGED <<tmp, conn, work>>
    BY <1>1, <1>7 DEF AddNewMessage
  <2>2. db[path[p]] \in File /\ ~Busy(p)
    BY <1>2, <1>7 DEF AddNewMessage, GuiFree, Usable, DbInv
  <2>3. [db[path[p]] EXCEPT !.of = @ \cup {i}] \in File /\ i \in [db[path[p]] EXCEPT !.of = @ \cup {i}].of
    BY <2>2 DEF File
  <2>4. Db(p)' # Absent /\ i \in Db(p)'.of
    BY <1>0, <1>2, <2>1, <2>3, FileAssumption DEF Db, DbInv
  <2> QED BY <1>0, <2>1, <2>2, <2>4 DEF Has, OnDisk, Holds, Db, DbThere, Busy
<1>8. CASE ChangeDbPassword(p)
  <2>1. life' = life /\ ~Busy(p)
    <3>1. at[p] # "running" /\ DbOf(p)
      BY <1>8 DEF ChangeDbPassword, DbInv
    <3> QED BY <1>8, <3>1 DEF ChangeDbPassword, DbOf
  <2>2. CASE ~IsOpen(p) /\ UNCHANGED dbVars
    BY <1>3, <2>1, <2>2 DEF dbVars, DbThere, IsOpen, Has, OnDisk
  <2>3. CASE IsOpen(p) /\ SetDbPassword(p, DbKey(p))
    <3>1. Db(p) # Absent
      BY <1>3, <2>3 DEF DbThere, Db
    <3> QED BY <1>2, <1>3, <2>1, <2>3, <3>1, PasswordKeeps
  <2>4. CASE IsOpen(p) /\ FailRekey(p)
    <3>1. Db(p) # Absent
      BY <1>3, <2>4 DEF DbThere, Db
    <3> QED BY <1>2, <1>3, <2>1, <2>4, <3>1, SwapKeeps
  <2> QED BY <1>8, <2>2, <2>3, <2>4 DEF ChangeDbPassword
<1> QED BY <1>4, <1>5, <1>6, <1>7, <1>8

\* The steps of the GUI thread that keep the database.
LEMMA SameKept ==
  ASSUME Base, Base', NamesInv, NamesInv', KeptInv, NEW p \in Procs, NEW i \in Ids, i = prof[p].id, AtWork(p), AtWork(p)', UNCHANGED dbVars,
         Step(p, i), life'[i] = "started" => life[i] = "started"
  PROVE  KeptStep(p, i)
<1>2. Odd \subseteq Odd'
  BY DEF Step, IdStep, Odd
<1>3. i \notin Odd' => DbThere(p) /\ (life[i] = "started" => Has(path[p], i))
  BY <1>2 DEF KeptInv, KeptAtWork
<1>4. /\ DbThere(p)' <=> DbThere(p)
      /\ Has(path[p], i)' <=> Has(path[p], i)
  BY DEF dbVars, DbThere, IsOpen, Has, OnDisk
<1> QED BY <1>3, <1>4 DEF KeptStep

LEMMA RenameDatabaseKept ==
  ASSUME Base, Base', NamesInv, KeptInv, NEW p \in Procs, NEW i \in Ids, i = prof[p].id, RenameDatabase(p)
  PROVE  KeptStep(p, i)
<1> USE DEF Base, IInv, TypeInv
<1> DEFINE m == newName[p]
<1>0. AtWork(p) /\ at[p] = "renamingDb"
  BY DEF RenameDatabase, AtWork, AtLogin
<1>1. i = prof[p].id
  OBVIOUS
<1>2. AtWork(p)' /\ life' = life /\ shared' = shared
  BY DEF RenameDatabase, Goto, AtWork, AtLogin
<1> SUFFICES ASSUME i \notin Odd'
             PROVE  DbThere(p)' /\ (life[i] = "started" => Has(path[p], i)')
  <2>1. prof'[p].id = i
    BY <1>0, <1>1, OwnFacts DEF RenameDatabase, ProfileObject
  <2> QED BY <1>1, <1>2, <2>1 DEF KeptStep
<1>3. path'[p] = m /\ strayed' = strayed
  BY <1>1 DEF RenameDatabase, Stray, Odd
<1>4. /\ ~Busy(p) /\ path[p] \in Names /\ m \in Names /\ DbThere(p)
      /\ life[i] = "started" => Has(path[p], i)
  BY <1>0, <1>1, <1>2, <1>3 DEF PlacesInv, Renaming, DbInv, DbOf, KeptInv, KeptAtWork, Odd
<1>5. CASE UNCHANGED dbVars
  BY <1>3, <1>4, <1>5 DEF dbVars, DbThere, IsOpen, Has, OnDisk
<1>6. CASE /\ IsOpen(p)
           /\ path[p] # m /\ db[path[p]] # Absent
           /\ db' = [db EXCEPT ![m] = db[path[p]], ![path[p]] = Absent]
           /\ UNCHANGED <<tmp, bak, hexKey, work>>
  <2>1. db'[m] = db[path[p]]
    BY <1>4, <1>6 DEF DbInv
  <2> QED BY <1>3, <1>4, <1>6, <2>1 DEF DbThere, Busy, Has, OnDisk, Holds
<1>7. CASE path[p] # m /\ UNCHANGED path
  BY <1>3, <1>7
<1> QED BY <1>5, <1>6, <1>7 DEF RenameDatabase, RenameDb

\* A process that leaves its profile.
LEMMA GoneKept ==
  ASSUME Base, Base', NamesInv, NamesInv', KeptInv, NEW p \in Procs, NEW i \in Ids, i = prof[p].id,
         \/ AssertLock(p) /\ Goto(p, "aborted")
         \/ RemoveDatabase(p) \/ Logout(p) \/ Crash(p)
  PROVE  KeptStep(p, i)
<1> USE DEF Base, IInv, TypeInv
<1>0. AtWork(p) /\ ~AtWork(p)'
  <2>1. CASE AssertLock(p) /\ Goto(p, "aborted")
    BY <2>1 DEF AssertLock, Goto, AtWork, AtLogin
  <2> QED BY <2>1 DEF RemoveDatabase, Logout, GuiFree, Crash, Goto, AtWork, AtLogin
<1>1. i = prof[p].id
  OBVIOUS
<1> SUFFICES ASSUME i \notin Odd', life'[i] = "started", NEW n \in Names, HasId(n, i)'
             PROVE  Has(n, i)'
  BY <1>0, <1>1 DEF KeptStep
<1>2. Step(p, i) /\ life' = life
  BY <1>1, GoneNames DEF AssertLock, RemoveDatabase, Logout, Crash, history
<1>3. i \notin Odd /\ i \notin shared' /\ i \notin strayed'
  BY <1>2 DEF Step, IdStep, Odd
<1>4. /\ OwnNames(p) /\ path[p] = prof[p].name /\ ~Removing(p)
      /\ life[i] = "started" /\ Has(path[p], i)
      /\ \A k \in Names : HasId(k, i) => k = ToxName(p)
  BY <1>0, <1>1, <1>2, <1>3, OwnFacts DEF OwnNames, KeptInv, KeptAtWork, Odd
<1>5. at[p] # "renamingDb"
  BY <1>1, <1>3 DEF AssertLock, RemoveDatabase, Logout, GuiFree, Crash, Stray
<1>6. ~RemoveDatabase(p)
  BY <1>4 DEF RemoveDatabase, Removing
<1>7. UNCHANGED <<db, tmp>>
  <2>1. CASE AssertLock(p) /\ Goto(p, "aborted")
    <3>1. ~Goto(p, "running")
      BY <2>1 DEF Goto
    <3> QED BY <2>1, <3>1 DEF AssertLock
  <2> QED BY <1>6, <2>1 DEF Logout, Crash
<1>8. n = prof[p].name
  <2>1. CASE tox' = tox
    BY <1>4, <1>5, <2>1 DEF HasId, ToxName
  <2>2. CASE Logout(p)
    <3>1. prof[p].password \in Passwords \cup {NoPassword}
      BY <1>0, OwnFacts DEF ProfileObject
    <3>2. \A k \in Names \ {prof[p].name} : tox'[k] = tox[k]
      <4>1. Saved(p, prof[p].password)
        BY <2>2 DEF Logout
      <4> QED BY <1>0, <3>1, <4>1, SavedTox
    <3> QED BY <1>4, <1>5, <3>2 DEF HasId, ToxName
  <2> QED BY <1>6, <2>1, <2>2 DEF AssertLock, Crash
<1> QED BY <1>4, <1>7, <1>8 DEF Has, OnDisk

LEMMA OwnKept ==
  ASSUME Base, Base', NamesInv, NamesInv', KeptInv, NEW p \in Procs, NEW i \in Ids, i = prof[p].id, OwnStep(p)
  PROVE  KeptStep(p, i)
<1>1. Step(p, i) /\ AtWork(p)
  BY OwnNamesStep
<1>2. CASE /\ UNCHANGED dbVars /\ AtWork(p)'
           /\ life' = life \/ life' = [life EXCEPT ![i] = "removed"]
  <2>1. life'[i] = "started" => life[i] = "started"
    BY <1>1, <1>2 DEF Base, HistoryInv
  <2> QED BY <1>1, <1>2, <2>1, SameKept
<1>3. CASE \/ LockFileLost(p) \/ Remove(p) \/ SaveToxSave(p)
           \/ \E n \in Names : Rename(p, n)
           \/ RenameTox(p) \/ RemoveTox(p)
  <2>1. /\ UNCHANGED <<dbVars, prof>>
        /\ life' = life \/ life' = [life EXCEPT ![i] = "removed"]
        /\ at'[p] \in {"running", "relocking", "removing", "renaming", "renamingDb", "removingDb"}
    BY <1>3 DEF LockFileLost, Remove, SaveToxSave, Rename, RenameTox, RemoveTox, GuiFree, Goto, history, Base, IInv, TypeInv
  <2> QED BY <1>2, <2>1 DEF AtWork, AtLogin
<1>4. CASE AssertLock(p) /\ Goto(p, "running")
  <2>1. ~Goto(p, "aborted") /\ at'[p] = "running"
    BY <1>4 DEF Goto, Base, IInv, TypeInv
  <2> QED BY <1>2, <1>4, <2>1 DEF AssertLock, AtWork, AtLogin
<1>5. CASE \E password \in Passwords \cup {NoPassword} : SetPassword(p, password)
  <2>1. /\ UNCHANGED dbVars /\ life' = life /\ at'[p] = "password"
    BY <1>5 DEF SetPassword, Goto, history, Base, IInv, TypeInv
  <2> QED BY <1>2, <2>1 DEF AtWork, AtLogin
<1>6. CASE \/ OpenFirstTime(p) \/ DatabaseStep(p) \/ DatabaseFails(p) \/ AddNewMessage(p)
           \/ ChangeDbPassword(p)
  BY <1>6, WorkerKept
<1>7. CASE \/ AssertLock(p) /\ Goto(p, "aborted")
           \/ RemoveDatabase(p) \/ Logout(p) \/ Crash(p)
  BY <1>7, GoneKept
<1> QED BY <1>3, <1>4, <1>5, <1>6, <1>7, RenameDatabaseKept DEF OwnStep

LEMMA TakingKept ==
  ASSUME Base, Base', NamesInv, NamesInv', KeptInv, NEW p \in Procs, NEW n \in Names, NEW i \in Ids,
         NEW password \in Passwords \cup {NoPassword}, TakingOf(p, n, i, password)
  PROVE  KeptStep(p, i)
<1>1. /\ Step(p, i) /\ ~AtWork(p) /\ AtWork(p)'
      /\ OpenDatabase(p, n, Key(password, i))
      /\ UNCHANGED <<harmed, strayed>>
  BY TakingStep DEF TakingOf
<1> SUFFICES ASSUME i \notin Odd'
             PROVE  DbThere(p)' /\ (life'[i] = "started" => Has(path[p], i)')
  BY <1>1 DEF KeptStep
<1>2. path'[p] = n /\ db' = db /\ tmp' = tmp /\ work'[p].at = "opening" /\ conn'[p] = "closed"
  BY <1>1 DEF OpenDatabase, Base, DbInv
<1>3. DbThere(p)'
  BY <1>2 DEF DbThere, IsOpen
<1>4. ASSUME life'[i] = "started" PROVE Has(n, i)
  <2>1. LoadProfile(p, n) /\ HasId(n, i) /\ life' = life
    <3>1. ~CreateProfile(p, n, i, password)
      BY <1>4 DEF CreateProfile, Base, HistoryInv
    <3>2. [id |-> i, password |-> password] # Absent
      BY ProfileAssumption DEF ToxFile
    <3> QED BY <3>1, <3>2 DEF TakingOf, LoadProfile, HasId
  <2>2. ~RunBySomeone(i) /\ i \notin Odd
    BY <1>1, TakingAlone DEF TakingOf, Odd, Step, IdStep
  <2> QED BY <1>4, <2>1, <2>2 DEF KeptInv, KeptIdle
<1> QED BY <1>2, <1>3, <1>4 DEF Has, OnDisk

LEMMA NextKept ==
  ASSUME Base, Base', NamesInv, NamesInv', KeptInv, [Next]_vars
  PROVE  KeptInv'
<1>1. ASSUME NEW p \in Procs, OwnStep(p) PROVE KeptInv'
  <2>1. PICK i \in Ids : i = prof[p].id /\ Step(p, i)
    BY <1>1, OwnNamesStep
  <2>2. KeptStep(p, i)
    BY <1>1, <2>1, OwnKept
  <2> QED BY <2>1, <2>2, KeptStepInv
<1>2. ASSUME NEW p \in Procs, NEW n \in Names, NEW i \in Ids, NEW password \in Passwords \cup {NoPassword},
             TakingOf(p, n, i, password)
      PROVE  KeptInv'
  <2>1. Step(p, i)
    BY <1>2, TakingStep DEF TakingOf
  <2> QED BY <1>2, <2>1, TakingKept, KeptStepInv
<1>3. CASE Unseen
  <2>1. UNCHANGED <<db, tmp, path, conn, work, tox, prof, life, strayed, shared>>
    BY <1>3 DEF Unseen, dbVars
  <2>2. ASSUME NEW q \in Procs PROVE KeptAtWork(q)'
    <3>1. KeptAtWork(q)
      BY DEF KeptInv
    <3> QED BY <1>3, <2>1, <3>1, UnseenSame DEF KeptAtWork, Odd, DbThere, IsOpen, Has, OnDisk
  <2>3. \A i \in Ids : RunBySomeone(i)' <=> RunBySomeone(i)
    BY <1>3, <2>1, UnseenSame DEF RunBySomeone, Runs
  <2> QED BY <2>1, <2>2, <2>3 DEF KeptInv, KeptIdle, Odd, HasId, Has, OnDisk
<1> QED BY <1>1, <1>2, <1>3, Steps

LEMMA InitKept == Init => KeptInv
<1> SUFFICES ASSUME Init PROVE KeptInv
  OBVIOUS
<1>1. \A p \in Procs : ~AtWork(p)
  BY DEF Init, AtWork, AtLogin
<1>2. CASE NoProfiles
  BY <1>1, <1>2 DEF KeptInv, KeptAtWork, KeptIdle, NoProfiles
<1>3. ASSUME NEW n \in Names, NEW i \in Ids, NEW q \in Passwords, NEW s \in {i, StaticSalt}, OldProfile(n, i, q, s)
      PROVE  KeptInv
  <2>1. Key(q, s) \in Keys
    BY KeyType
  <2>2. OldFile(i, q, s, FALSE) \in File /\ OldFile(i, q, s, FALSE).of = {i}
    BY <2>1 DEF OldFile, NewFile, File
  <2>3. db[n] = OldFile(i, q, s, FALSE) /\ db[n] # Absent
    BY <1>3, <2>2, FileAssumption DEF OldProfile
  <2>4. \A m \in Names, j \in Ids : HasId(m, j) => m = n /\ j = i
    BY <1>3 DEF OldProfile, HasId
  <2> QED BY <1>1, <2>2, <2>3, <2>4 DEF KeptInv, KeptAtWork, KeptIdle, Has, OnDisk, Holds
<1> QED BY <1>2, <1>3 DEF Init

\* The history of an identity is under the name of its profile.
LEMMA KeptWhere ==
  ASSUME Base, NamesInv, KeptInv, NEW i \in Ids, i \notin Odd, life[i] = "started"
  PROVE  \E n \in Names : Has(n, i)
<1>1. CASE RunBySomeone(i)
  <2>1. PICK p \in Procs : Runs(p, i)
    BY <1>1 DEF RunBySomeone
  <2>2. path[p] \in Names /\ Has(path[p], i)
    BY <2>1 DEF Runs, Base, DbInv, DbOf, KeptInv, KeptAtWork
  <2> QED BY <2>2
<1>2. CASE ~RunBySomeone(i)
  <2>1. PICK n \in Names : HasId(n, i)
    BY DEF NamesInv, OnceInv, ExistsOf, Odd
  <2> QED BY <1>2, <2>1 DEF KeptInv, KeptIdle
<1> QED BY <1>1, <1>2

LEMMA KeptHolds == Spec => [](Base /\ NamesInv /\ KeptInv)
<1>1. Init => NamesInv /\ KeptInv
  BY InitNames, InitKept
<1>2. Base /\ Base' /\ NamesInv /\ KeptInv /\ [Next]_vars => NamesInv' /\ KeptInv'
  BY NextNames, NextKept
<1>3. Spec => []Base
  BY TypesHold DEF Base
<1> QED BY <1>1, <1>2, <1>3, PTL DEF Spec

\* Whatever was cut short, the history of a profile that nobody removed is where the next
\* one to open it finds it.
THEOREM HistoryKeptHolds == Spec => []HistoryKept
<1>1. Base /\ NamesInv /\ KeptInv => HistoryKept
  <2> SUFFICES ASSUME Base, NamesInv, KeptInv, NEW i \in Ids \ (strayed \cup shared), life[i] = "started"
               PROVE  \E n \in Names : OnDisk(n) # Absent /\ i \in OnDisk(n).of
    BY DEF HistoryKept
  <2> QED BY KeptWhere DEF Odd, Has, Holds
<1> QED BY <1>1, KeptHolds, PTL
-----------------------------------------------------------------------------
(* Where a history is, and where it is not *)

\* An export has the history only while it is about to take the place of the database.
HasExport(p) == work[p].at \in {"swapping", "swapped"} \/ (work[p].at = "opening" /\ db[path[p]] = Absent)

Located(p, i) ==
    /\ life[i] = "removed" => Removing(p)
    /\ \A m \in Names : Holds(db[m], i) => m = path[p]
    /\ \A m \in Names : Holds(tmp[m], i) => m = path[p] /\ HasExport(p)
AtRest(i) ==
    /\ life[i] = "removed" => \A m \in Names : ~HasId(m, i)
    /\ \A m \in Names : Holds(db[m], i) => HasId(m, i)
    /\ \A m \in Names : Holds(tmp[m], i) => HasId(m, i) /\ db[m] = Absent

LocInv ==
    \A i \in Ids \ Excused :
      /\ \A p \in Procs : Runs(p, i) => Located(p, i)
      /\ ~RunBySomeone(i) => AtRest(i)

LocStep(p, i) ==
    i \notin Excused' =>
      /\ AtWork(p)' => Located(p, i)'
      /\ ~AtWork(p)' => AtRest(i)'

\* The histories of the others stay where they are.
LEMMA OthersHistories ==
  ASSUME Base, Base', NamesInv, LocInv, NEW p \in Procs, NEW i \in Ids, Step(p, i),
         NEW j \in Ids \ {i}, j \notin Excused', NEW m \in Names
  PROVE  /\ Holds(db'[m], j) => db'[m] = db[m]
         /\ Holds(tmp'[m], j) => tmp'[m] = tmp[m]
<1>1. j \notin Excused /\ j \notin shared /\ j \notin strayed
  BY DEF Step, IdStep, Excused
<1>2. ASSUME NEW x \in Names, x \in Uses(p), Holds(db[x], j) \/ Holds(tmp[x], j)
      PROVE  FALSE
  <2>1. CASE RunBySomeone(j)
    <3>1. PICK q \in Procs : Runs(q, j)
      BY <2>1 DEF RunBySomeone
    <3>2. x = path[q] /\ path[q] = prof[q].name
      BY <1>1, <1>2, <3>1 DEF LocInv, Located, NamesInv, OwnNames, Runs
    <3>3. x \in Uses(q)
      BY <3>1, <3>2, OwnFacts DEF Runs
    <3>4. q # p
      BY <3>1, <1>2, UsesAtWork DEF Runs, Step, IdStep
    <3> QED BY <1>1, <1>2, <3>1, <3>3, <3>4 DEF NamesInv, ApartInv, Runs
  <2>2. CASE ~RunBySomeone(j)
    <3>1. HasId(x, j)
      BY <1>1, <1>2, <2>2 DEF LocInv, AtRest
    <3>2. AtWork(p) /\ prof[p].id = i
      BY <1>2, UsesAtWork DEF Step, IdStep
    <3> QED BY <1>1, <1>2, <3>1, <3>2 DEF NamesInv, ToxApartInv, HasId
  <2> QED BY <2>1, <2>2
<1>3. \/ ~(db'[m] # db[m] /\ Holds(db'[m], j))
  BY <1>2 DEF Step, DbStep
<1>4. \/ ~(tmp'[m] # tmp[m] /\ Holds(tmp'[m], j))
  BY <1>2 DEF Step, DbStep
<1> QED BY <1>3, <1>4

LEMMA LocStepInv ==
  ASSUME Base, Base', NamesInv, NamesInv', LocInv, NEW p \in Procs, NEW i \in Ids, Step(p, i), LocStep(p, i)
  PROVE  LocInv'
<1>1. Excused \subseteq Excused' /\ shared' \subseteq Excused' /\ strayed' \subseteq Excused'
  BY DEF Step, IdStep, Excused
<1>2. ASSUME NEW j \in Ids, j \notin Excused', NEW q \in Procs, Runs(q, j)'
      PROVE  Located(q, j)'
  <2>1. CASE q = p
    <3>1. j = i /\ AtWork(p)'
      BY <1>2, <2>1 DEF Runs, Step, IdStep
    <3> QED BY <1>2, <2>1, <3>1 DEF LocStep
  <2>2. CASE q # p
    <3>1. j # i
      BY <1>1, <1>2, <2>2, OthersHaveNot
    <3>2. Runs(q, j) /\ life'[j] = life[j] /\ j \notin Excused
      BY <1>1, <1>2, <3>1, OthersFiles
    <3>3. Located(q, j)
      BY <3>2 DEF LocInv
    <3>4. path'[q] = path[q] /\ work'[q] = work[q] /\ (Removing(q)' <=> Removing(q))
      BY <2>2, OthersKeep DEF Step, Local
    <3>5. db'[path[q]] = db[path[q]]
      <4>1. path[q] = prof[q].name
        BY <3>2, <1>1 DEF NamesInv, OwnNames, Runs, Excused
      <4>2. path[q] \in Uses(q) /\ path[q] \in Names
        BY <3>2, <4>1, OwnFacts DEF Runs
      <4> QED BY <1>1, <1>2, <3>1, <3>2, <4>2, OthersFiles
    <3>6. \A m \in Names : /\ Holds(db'[m], j) => Holds(db[m], j)
                           /\ Holds(tmp'[m], j) => Holds(tmp[m], j)
      BY <1>2, <3>1, OthersHistories
    <3> QED BY <3>2, <3>3, <3>4, <3>5, <3>6 DEF Located, HasExport
  <2> QED BY <2>1, <2>2
<1>3. ASSUME NEW j \in Ids, j \notin Excused', ~RunBySomeone(j)'
      PROVE  AtRest(j)'
  <2>1. CASE j = i
    <3>1. ~AtWork(p)'
      BY <1>3, <2>1 DEF RunBySomeone, Runs, Step, IdStep
    <3> QED BY <1>3, <2>1, <3>1 DEF LocStep
  <2>2. CASE j # i
    <3>1. /\ ~RunBySomeone(j) /\ life'[j] = life[j] /\ j \notin Excused
          /\ \A n \in Names : HasId(n, j)' <=> HasId(n, j)
          /\ \A n \in Names : HasId(n, j) => db'[n] = db[n]
      BY <1>1, <1>3, <2>2, OthersFiles DEF RunBySomeone
    <3>2. AtRest(j)
      BY <3>1 DEF LocInv
    <3>3. \A m \in Names : /\ Holds(db'[m], j) => Holds(db[m], j)
                           /\ Holds(tmp'[m], j) => Holds(tmp[m], j)
      BY <1>3, <2>2, OthersHistories
    <3> QED BY <3>1, <3>2, <3>3 DEF AtRest
  <2> QED BY <2>1, <2>2
<1> QED BY <1>2, <1>3 DEF LocInv
-----------------------------------------------------------------------------
(* What each step makes of where the history is *)

\* The files under the path of p, seen from there.
LEMMA LocatedAfter ==
  ASSUME NEW p \in Procs, NEW i \in Ids, Located(p, i), path' = path,
         \A m \in Names \ {path[p]} : db'[m] = db[m] /\ tmp'[m] = tmp[m],
         life'[i] = "removed" => Removing(p)',
         Holds(Tmp(p)', i) => HasExport(p)'
  PROVE  Located(p, i)'
BY DEF Located, Tmp

LEMMA OpenedLocated ==
  ASSUME DbInv, NEW p \in Procs, path[p] \in Names, path' = path, NEW i \in Ids, Located(p, i), NEW key \in Keys,
         NEW file \in File, NEW upgrade \in BOOLEAN,
         Tmp(p)' = Export(p) \/ Opened(p, key, file, upgrade),
         work[p].at \in {"opening", "fallback"}
  PROVE  ~Holds(Tmp(p)', i)
<1>1. NewExport(key).of = {}
  BY NewExportType
<1>2. ~Holds(Export(p), i)
  BY DEF Located, HasExport, Export, Holds
<1> QED BY <1>1, <1>2 DEF Opened, Holds

LEMMA WorkerLocated ==
  ASSUME Base, Base', NamesInv, KeptInv, LocInv, NEW p \in Procs, NEW i \in Ids, i = prof[p].id,
         \/ OpenFirstTime(p) \/ DatabaseStep(p) \/ DatabaseFails(p) \/ AddNewMessage(p)
         \/ ChangeDbPassword(p)
  PROVE  LocStep(p, i)
<1> USE DEF Base, IInv, TypeInv
<1>0. /\ Step(p, i) /\ AtWork(p) /\ AtWork(p)' /\ path' = path
      /\ at' = at \/ at[p] = "password"
  BY WorkerStep
<1> SUFFICES ASSUME i \notin Excused'
             PROVE  Located(p, i)'
  BY <1>0 DEF LocStep
<1>1. i \notin Excused /\ i \notin harmed' /\ i \notin Odd
  BY <1>0 DEF Step, IdStep, Excused, Odd
<1>2. path[p] \in Names /\ DbKey(p) \in Keys /\ DbThere(p)
  BY <1>0, <1>1, OwnFacts, DbKeyType DEF DbInv, DbOf, KeptInv, KeptAtWork
<1>3. Located(p, i)
  BY <1>0, <1>1 DEF LocInv, Runs
<1>4. life'[i] = "removed" => Removing(p)'
  <2>1. life'[i] = "removed" => life[i] = "removed"
    BY DEF OpenFirstTime, DatabaseStep, DatabaseFails, AddNewMessage, ChangeDbPassword, history, HistoryInv
  <2>2. at' = at \/ ~Removing(p)
    BY <1>0 DEF Removing
  <2> QED BY <1>3, <2>1, <2>2 DEF Located, Removing
<1>5. ASSUME \A m \in Names \ {path[p]} : db'[m] = db[m] /\ tmp'[m] = tmp[m],
             Holds(Tmp(p)', i) => HasExport(p)'
      PROVE  Located(p, i)'
  BY <1>0, <1>3, <1>4, <1>5, LocatedAfter
<1>6. CASE OpenFirstTime(p) \/ OpenWithOldSalt(p)
  <2>1. PICK first \in SUBSET {i} : OpenFirst(p, NewFile(hexKey[p], first)) \/ OpenWithOldSalt(p)
    BY <1>6 DEF OpenFirstTime
  <2>2. Within(p, i)
    BY <1>2, <2>1, OpeningWithin
  <2>3. hexKey[p] \in Keys /\ NewFile(hexKey[p], first) \in File
    BY NewFileType DEF DbInv
  <2>4. ~Holds(Tmp(p)', i) \/ (tmp' = tmp /\ ~Holds(Tmp(p), i))
    <3>1. CASE OpenFirst(p, NewFile(hexKey[p], first))
      <4>1. Found(p, NewFile(hexKey[p], first)) \in File
        BY <1>2, <2>3, FoundFacts
      <4>2. /\ Tmp(p)' = Export(p) \/ Opened(p, hexKey[p], Found(p, NewFile(hexKey[p], first)), FALSE)
            /\ work[p].at = "opening"
        BY <1>2, <2>3, <3>1, OpenFirstEffect
      <4> QED BY <1>0, <1>2, <1>3, <2>3, <4>1, <4>2, OpenedLocated
    <3>2. CASE OpenWithOldSalt(p)
      <4> DEFINE old == Key(hexKey[p].password, StaticSalt)
                 file == Found(p, NewFile(old, {}))
      <4>1. old \in Keys
        BY <2>3, KeysOf
      <4>2. file \in File
        BY <1>2, <4>1, NewFileType, FoundFacts
      <4>3. /\ work[p].at = "fallback"
            /\ \/ \E upgrade \in BOOLEAN : Opened(p, old, file, upgrade)
               \/ tmp' = tmp
        BY <1>2, <3>2, OldSaltEffect
      <4>4. CASE \E upgrade \in BOOLEAN : Opened(p, old, file, upgrade)
        <5> HIDE DEF old, file
        <5> QED BY <1>0, <1>2, <1>3, <4>1, <4>2, <4>3, <4>4, OpenedLocated
      <4>5. CASE tmp' = tmp
        BY <1>2, <1>3, <4>3, <4>5 DEF Located, HasExport, Tmp
      <4> QED BY <4>3, <4>4, <4>5
    <3> QED BY <2>1, <3>1, <3>2
  <2>5. ~Holds(Tmp(p)', i)
    BY <1>0, <2>4 DEF Tmp
  <2> QED BY <1>5, <2>2, <2>5 DEF Within
<1>7. CASE FinishExport(p) \/ RemoveOld(p)
  <2>1. Within(p, i)
    BY <1>2, <1>7, SwapWithin
  <2>2. work'[p].at \in {"swapping", "swapped"}
    <3>1. work'[p] = [work[p] EXCEPT !.at = "swapping"] \/ work'[p] = [work[p] EXCEPT !.at = "swapped"]
      BY <1>2, <1>7, FinishEffect, RemoveOldEffect
    <3> QED BY <3>1, PlaceOf
  <2> QED BY <1>5, <2>1, <2>2 DEF Within, HasExport
<1>8. CASE RenameExport(p)
  <2>1. Within(p, i)
    BY <1>2, <1>8, SwapWithin
  <2>2. Db(p) = Absent
    BY <1>2, <1>8, RenameExportEffect DEF DbThere, Db
  <2>3. Tmp(p)' = Absent
    BY <1>2, <1>8, <2>2, RenameExportEffect DEF Export, Db
  <2> QED BY <1>5, <2>1, <2>3 DEF Within, Holds
<1>9. CASE UpgradeSalt(p, DbKey(p))
  <2>1. Within(p, i)
    BY <1>2, <1>9, RekeyWithin
  <2>2. Tmp(p)' = Absent
    BY <1>2, <1>9, UpgradeEffect
  <2> QED BY <1>5, <2>1, <2>2 DEF Within, Holds
<1>10. CASE AddNewMessage(p)
  <2>1. /\ db' = [db EXCEPT ![path[p]].of = @ \cup {i}]
        /\ UNCHANGED <<tmp, work>> /\ ~Busy(p)
    BY <1>10 DEF AddNewMessage, GuiFree
  <2>2. ~Holds(Tmp(p)', i)
    BY <1>0, <1>2, <1>3, <2>1 DEF Located, HasExport, Busy, Tmp
  <2> QED BY <1>5, <2>1, <2>2 DEF DbInv
<1>11. CASE ChangeDbPassword(p)
  <2>1. IsOpen(p) /\ SetDbPassword(p, DbKey(p)) /\ ~Busy(p)
    <3>1. ~Harm(p)
      BY <1>1 DEF Harm
    <3>2. ~Busy(p)
      BY <1>11 DEF ChangeDbPassword, DbInv, DbOf
    <3> QED BY <1>11, <3>1, <3>2 DEF ChangeDbPassword
  <2>2. Within(p, i)
    BY <1>2, <2>1, RekeyWithin
  <2>3. Tmp(p)' = Absent \/ Tmp(p)' = NewExport(DbKey(p))
    BY <1>2, <2>1, SetPasswordEffect
  <2>4. ~Holds(Tmp(p)', i)
    BY <1>2, <2>3, NewExportType DEF Holds
  <2> QED BY <1>5, <2>2, <2>4 DEF Within
<1>12. ~DatabaseFails(p)
  BY <1>1 DEF DatabaseFails, Harm
<1> QED BY <1>6, <1>7, <1>8, <1>9, <1>10, <1>11, <1>12 DEF DatabaseStep

LEMMA SameLocated ==
  ASSUME Base, Base', NamesInv, NamesInv', LocInv, NEW p \in Procs, NEW i \in Ids, i = prof[p].id,
         AtWork(p), AtWork(p)', UNCHANGED dbVars, Step(p, i),
         \/ Removing(p)'
         \/ ~Removing(p) /\ life' = life
  PROVE  LocStep(p, i)
<1>1. Excused \subseteq Excused'
  BY DEF Step, IdStep, Excused
<1>2. i \notin Excused' => Located(p, i)
  BY <1>1 DEF LocInv, Runs
<1>3. UNCHANGED <<db, tmp, path, work>>
  BY DEF dbVars
<1>4. HasExport(p)' <=> HasExport(p)
  BY <1>3 DEF HasExport
<1>5. Located(p, i) => Located(p, i)'
  BY <1>3, <1>4 DEF Located
<1> QED BY <1>2, <1>5 DEF LocStep

LEMMA RenameDatabaseLocated ==
  ASSUME Base, Base', NamesInv, LocInv, NEW p \in Procs, NEW i \in Ids, i = prof[p].id, RenameDatabase(p)
  PROVE  LocStep(p, i)
<1> USE DEF Base, IInv, TypeInv
<1> DEFINE m == newName[p]
<1>0. AtWork(p) /\ at[p] = "renamingDb"
  BY DEF RenameDatabase, AtWork, AtLogin
<1>1. AtWork(p)' /\ life' = life /\ shared' = shared /\ harmed' = harmed
  BY DEF RenameDatabase, Goto, AtWork, AtLogin
<1> SUFFICES ASSUME i \notin Excused'
             PROVE  Located(p, i)'
  BY <1>1 DEF LocStep
<1>2. path'[p] = m /\ strayed' = strayed /\ i \notin Excused
  BY <1>1 DEF RenameDatabase, Stray, Excused
<1>3. /\ ~Busy(p) /\ path[p] \in Names /\ m \in Names /\ Located(p, i)
  BY <1>0, <1>2 DEF PlacesInv, Renaming, DbInv, DbOf, LocInv, Runs
<1>4. life[i] # "removed" /\ \A n \in Names : ~Holds(tmp[n], i)
  BY <1>0, <1>3 DEF Located, Removing, HasExport, Busy
<1>5. CASE UNCHANGED dbVars
  BY <1>1, <1>2, <1>3, <1>4, <1>5 DEF dbVars, Located
<1>6. CASE /\ path[p] # m
           /\ db' = [db EXCEPT ![m] = db[path[p]], ![path[p]] = Absent]
           /\ tmp' = tmp
  <2>1. \A n \in Names : Holds(db'[n], i) => n = m
    BY <1>3, <1>6 DEF DbInv, Located, Holds
  <2> QED BY <1>1, <1>2, <1>4, <1>6, <2>1 DEF Located
<1>7. CASE path[p] # m /\ UNCHANGED path
  BY <1>2, <1>7
<1> QED BY <1>5, <1>6, <1>7 DEF RenameDatabase, RenameDb

\* What a process leaves behind is under the name that its profile has.
LEMMA GoneLocated ==
  ASSUME Base, Base', NamesInv, NamesInv', KeptInv, LocInv, NEW p \in Procs, NEW i \in Ids, i = prof[p].id,
         \/ AssertLock(p) /\ Goto(p, "aborted")
         \/ RemoveDatabase(p) \/ Logout(p) \/ Crash(p)
  PROVE  LocStep(p, i)
<1> USE DEF Base, IInv, TypeInv
<1>0. AtWork(p) /\ ~AtWork(p)' /\ Step(p, i)
  <2>1. AssertLock(p) /\ Goto(p, "aborted") => AtWork(p) /\ ~AtWork(p)'
    BY DEF AssertLock, Goto, AtWork, AtLogin
  <2>2. AtWork(p) /\ ~AtWork(p)'
    BY <2>1 DEF RemoveDatabase, Logout, GuiFree, Crash, Goto, AtWork, AtLogin
  <2> QED BY <2>2, GoneNames
<1> SUFFICES ASSUME i \notin Excused'
             PROVE  AtRest(i)'
  BY <1>0 DEF LocStep
<1>1. i \notin Excused /\ i \notin harmed' /\ i \notin strayed' /\ i \notin shared /\ i \notin Odd
  BY <1>0 DEF Step, IdStep, Excused, Odd
<1>2. /\ Located(p, i) /\ DbThere(p) /\ OwnNames(p) /\ path[p] = prof[p].name /\ path[p] \in Names
      /\ \A n \in Names : HasId(n, i) => n = ToxName(p) /\ at[p] # "removingDb"
  <2>1. Located(p, i) /\ DbThere(p)
    BY <1>0, <1>1 DEF LocInv, Runs, KeptInv, KeptAtWork
  <2>2. OwnNames(p) /\ prof[p].name \in Names
    BY <1>0, OwnFacts
  <2>3. i \notin strayed
    BY <1>0, <1>1 DEF Odd
  <2> QED BY <1>0, <1>1, <2>1, <2>2, <2>3 DEF OwnNames
<1>6. PICK n \in Names : n = prof[p].name
  BY <1>2
<1>3. life' = life
  BY DEF AssertLock, RemoveDatabase, Logout, Crash, history
<1>4. CASE RemoveDatabase(p)
  <2>1. Usable(p)
    BY <1>1, <1>4 DEF RemoveDatabase, HarmUnlessUsable, Harm
  <2>2. RemoveDb(p) /\ tox' = tox /\ tmp' = tmp /\ at[p] = "removingDb"
    BY <1>4, <2>1 DEF RemoveDatabase, RemoveDb, Usable, IsOpen
  <2>3. ~Busy(p) /\ db' = [db EXCEPT ![path[p]] = Absent]
    BY <2>2 DEF RemoveDb, DbInv, DbOf
  <2>4. \A k \in Names : ~HasId(k, i)'
    BY <1>2, <2>2 DEF HasId
  <2>5. \A k \in Names : ~Holds(tmp[k], i)
    BY <1>2, <2>3 DEF Located, HasExport, Busy
  <2>6. \A k \in Names : ~Holds(db'[k], i)
    BY <1>2, <2>3 DEF Located, Holds, DbInv
  <2> QED BY <2>2, <2>4, <2>5, <2>6 DEF AtRest
<1>5. CASE ~RemoveDatabase(p)
  <2>1. UNCHANGED <<db, tmp>>
    <3>1. CASE AssertLock(p) /\ Goto(p, "aborted")
      <4>1. ~Goto(p, "running")
        BY <3>1 DEF Goto
      <4> QED BY <3>1, <4>1 DEF AssertLock
    <3> QED BY <1>5, <3>1 DEF Logout, Crash
  <2>2. /\ ~Removing(p) /\ at[p] # "renamingDb"
        /\ work[p].at \notin {"exporting", "swapping"}
    <3>1. CASE Crash(p)
      <4>1. ~CutShort(p) /\ at[p] # "renamingDb"
        BY <1>1, <3>1 DEF Crash, Harm, Stray
      <4> QED BY <4>1 DEF CutShort, Removing
    <3>2. CASE at[p] = "relocking" \/ GuiFree(p)
      BY <3>2 DEF GuiFree, Removing, Busy, DbInv, DbOf
    <3> QED BY <1>5, <3>1, <3>2 DEF AssertLock, Logout
  <2>3. life[i] # "removed"
    BY <1>2, <2>2 DEF Located
  <2>4. HasId(n, i)'
    <3>1. HasId(n, i)
      <4>1. tox[n] = OwnToxFile(p) /\ OwnToxFile(p) # Absent
        BY <1>0, <1>1, <1>2, <1>6, <2>2, OwnFacts DEF OwnNames, ToxName, Removing
      <4> QED BY <4>1 DEF HasId, OwnToxFile
    <3>2. CASE tox' = tox
      BY <3>1, <3>2 DEF HasId
    <3>3. CASE Logout(p)
      <4>1. prof[p].password \in Passwords \cup {NoPassword}
        BY <1>0, OwnFacts DEF ProfileObject
      <4>2. /\ tox'[n] = [id |-> i, password |-> prof[p].password]
            /\ tox'[n] # Absent
        BY <1>0, <1>6, <3>3, <4>1, SavedTox DEF Logout
      <4> QED BY <4>2 DEF HasId
    <3> QED BY <1>5, <3>2, <3>3 DEF AssertLock, Crash
  <2>5. \A k \in Names : Holds(tmp[k], i) => k = path[p] /\ db[k] = Absent
    BY <1>2, <2>2 DEF Located, HasExport, DbThere
  <2>6. \A k \in Names : Holds(db[k], i) => k = path[p]
    BY <1>2 DEF Located
  <2> QED BY <1>2, <1>3, <1>6, <2>1, <2>3, <2>4, <2>5, <2>6 DEF AtRest
<1> QED BY <1>4, <1>5

LEMMA OwnLocated ==
  ASSUME Base, Base', NamesInv, NamesInv', KeptInv, LocInv, NEW p \in Procs, NEW i \in Ids, i = prof[p].id, OwnStep(p)
  PROVE  LocStep(p, i)
<1>1. Step(p, i) /\ AtWork(p)
  BY OwnNamesStep
<1>2. CASE \/ LockFileLost(p) \/ Remove(p) \/ SaveToxSave(p)
           \/ \E n \in Names : Rename(p, n)
           \/ \E password \in Passwords \cup {NoPassword} : SetPassword(p, password)
           \/ RenameTox(p) \/ RemoveTox(p)
           \/ AssertLock(p) /\ Goto(p, "running")
  <2>1. /\ UNCHANGED dbVars /\ AtWork(p)'
        /\ \/ Removing(p)'
           \/ ~Removing(p) /\ life' = life
    <3>1. CASE Remove(p) \/ RemoveTox(p)
      BY <3>1 DEF Remove, RemoveTox, GuiFree, Goto, Removing, AtWork, AtLogin, Base, IInv, TypeInv
    <3>2. CASE AssertLock(p) /\ Goto(p, "running")
      <4>1. ~Goto(p, "aborted") /\ at'[p] = "running"
        BY <3>2 DEF Goto, Base, IInv, TypeInv
      <4> QED BY <3>2, <4>1 DEF AssertLock, AtWork, AtLogin, Removing
    <3>3. CASE \/ LockFileLost(p) \/ SaveToxSave(p)
               \/ \E n \in Names : Rename(p, n)
               \/ \E password \in Passwords \cup {NoPassword} : SetPassword(p, password)
               \/ RenameTox(p)
      BY <3>3 DEF LockFileLost, SaveToxSave, Rename, SetPassword, RenameTox, GuiFree, Goto, history,
                  Removing, AtWork, AtLogin, Base, IInv, TypeInv
    <3> QED BY <1>2, <3>1, <3>2, <3>3
  <2> QED BY <1>1, <2>1, SameLocated
<1>3. CASE \/ OpenFirstTime(p) \/ DatabaseStep(p) \/ DatabaseFails(p) \/ AddNewMessage(p)
           \/ ChangeDbPassword(p)
  BY <1>3, WorkerLocated
<1>4. CASE \/ AssertLock(p) /\ Goto(p, "aborted")
           \/ RemoveDatabase(p) \/ Logout(p) \/ Crash(p)
  BY <1>4, GoneLocated
<1> QED BY <1>2, <1>3, <1>4, RenameDatabaseLocated DEF OwnStep

LEMMA TakingLocated ==
  ASSUME Base, Base', NamesInv, NamesInv', LocInv, NEW p \in Procs, NEW n \in Names, NEW i \in Ids,
         NEW password \in Passwords \cup {NoPassword}, TakingOf(p, n, i, password)
  PROVE  LocStep(p, i)
<1>1. /\ Step(p, i) /\ ~AtWork(p) /\ AtWork(p)'
      /\ OpenDatabase(p, n, Key(password, i))
  BY TakingStep DEF TakingOf
<1> SUFFICES ASSUME i \notin Excused'
             PROVE  Located(p, i)'
  BY <1>1 DEF LocStep
<1>2. path'[p] = n /\ db' = db /\ tmp' = tmp /\ work'[p].at = "opening"
  BY <1>1 DEF OpenDatabase, Base, DbInv
<1>3. i \notin Excused /\ i \notin shared' /\ i \notin shared
  BY <1>1 DEF Step, IdStep, Excused
<1>4. ~RunBySomeone(i)
  BY <1>3, TakingAlone DEF TakingOf
<1>5. AtRest(i)
  BY <1>3, <1>4 DEF LocInv
<1>6. CASE CreateProfile(p, n, i, password)
  <2>1. life[i] = "unused" /\ life'[i] = "created"
    BY <1>6 DEF CreateProfile, Base, HistoryInv
  <2>2. \A m \in Names : ~Holds(db[m], i) /\ ~Holds(tmp[m], i)
    BY <2>1 DEF NamesInv, UnusedInv, UnusedOf
  <2> QED BY <1>2, <2>1, <2>2 DEF Located
<1>7. CASE LoadProfile(p, n) /\ tox[n] = [id |-> i, password |-> password]
  <2>1. [id |-> i, password |-> password] # Absent
    BY ProfileAssumption DEF ToxFile
  <2>2. HasId(n, i) /\ life' = life
    BY <1>7, <2>1 DEF LoadProfile, HasId
  <2>3. OnceOf(i)
    BY <1>3 DEF NamesInv, OnceInv
  <2>4. \A m \in Names : HasId(m, i) => m = n
    BY <2>2, <2>3 DEF OnceOf
  <2>5. life[i] # "removed"
    BY <1>5, <2>2 DEF AtRest
  <2> QED BY <1>2, <1>5, <2>2, <2>4, <2>5 DEF AtRest, Located, HasExport
<1> QED BY <1>6, <1>7 DEF TakingOf

LEMMA NextLocated ==
  ASSUME Base, Base', NamesInv, NamesInv', KeptInv, LocInv, [Next]_vars
  PROVE  LocInv'
<1>1. ASSUME NEW p \in Procs, OwnStep(p) PROVE LocInv'
  <2>1. PICK i \in Ids : i = prof[p].id /\ Step(p, i)
    BY <1>1, OwnNamesStep
  <2>2. LocStep(p, i)
    BY <1>1, <2>1, OwnLocated
  <2> QED BY <2>1, <2>2, LocStepInv
<1>2. ASSUME NEW p \in Procs, NEW n \in Names, NEW i \in Ids, NEW password \in Passwords \cup {NoPassword},
             TakingOf(p, n, i, password)
      PROVE  LocInv'
  <2>1. Step(p, i)
    BY <1>2, TakingStep DEF TakingOf
  <2> QED BY <1>2, <2>1, TakingLocated, LocStepInv
<1>3. CASE Unseen
  <2>1. UNCHANGED <<db, tmp, path, work, tox, prof, life, strayed, shared, harmed>>
    BY <1>3 DEF Unseen, dbVars
  <2>2. \A q \in Procs, i \in Ids : Runs(q, i)' <=> Runs(q, i)
    BY <1>3, <2>1, UnseenSame DEF Runs
  <2>3. ASSUME NEW q \in Procs, NEW i \in Ids, Runs(q, i), Located(q, i)
        PROVE  Located(q, i)'
    <3>1. at'[q] = at[q]
      BY <1>3, <2>3, UnseenSame DEF Runs
    <3> QED BY <2>1, <2>3, <3>1 DEF Located, HasExport, Removing
  <2>4. ASSUME NEW i \in Ids, AtRest(i)
        PROVE  AtRest(i)'
    BY <2>1, <2>4 DEF AtRest, HasId
  <2> QED BY <2>1, <2>2, <2>3, <2>4 DEF LocInv, Excused, RunBySomeone
<1> QED BY <1>1, <1>2, <1>3, Steps

LEMMA InitLocated == Init => LocInv
<1> SUFFICES ASSUME Init PROVE LocInv
  OBVIOUS
<1>1. \A p \in Procs : ~AtWork(p)
  BY DEF Init, AtWork, AtLogin
<1>2. \A m \in Names : tmp[m] = Absent
  BY DEF Init, DbInit
<1>3. CASE NoProfiles
  BY <1>1, <1>2, <1>3 DEF LocInv, Runs, AtRest, NoProfiles, Holds
<1>4. ASSUME NEW n \in Names, NEW i \in Ids, NEW q \in Passwords, NEW s \in {i, StaticSalt}, OldProfile(n, i, q, s)
      PROVE  LocInv
  <2>1. OldFile(i, q, s, FALSE).of = {i}
    BY DEF OldFile, NewFile
  <2>2. [id |-> i, password |-> q] # Absent
    BY ProfileAssumption DEF ToxFile
  <2>3. \A m \in Names, j \in Ids : Holds(db[m], j) => HasId(m, j)
    BY <1>4, <2>1, <2>2 DEF OldProfile, Holds, HasId
  <2>4. \A j \in Ids : life[j] # "removed"
    BY <1>4 DEF OldProfile
  <2> QED BY <1>1, <1>2, <2>3, <2>4 DEF LocInv, Runs, AtRest, Holds
<1> QED BY <1>3, <1>4 DEF Init

LEMMA LocatedHolds == Spec => [](Base /\ NamesInv /\ KeptInv /\ LocInv)
<1>1. Init => LocInv
  BY InitLocated
<1>2. Base /\ Base' /\ NamesInv /\ NamesInv' /\ KeptInv /\ LocInv /\ [Next]_vars => LocInv'
  BY NextLocated
<1> QED BY <1>1, <1>2, KeptHolds, PTL DEF Spec

\* A process whose database is usable has in it no history of anybody else.
LEMMA NoForeign ==
  ASSUME Base, NamesInv, LocInv
  PROVE  NoForeignHistory
<1> SUFFICES ASSUME NEW p \in Procs, AtWork(p), Usable(p), NEW j \in db[path[p]].of, j \notin Excused,
                    j # prof[p].id
             PROVE  FALSE
  BY DEF NoForeignHistory
<1>1. path[p] \in Names /\ path[p] \in Uses(p)
  BY PathUsed DEF Base, DbInv, DbOf, Usable, IsOpen
<1>2. db[path[p]] \in File /\ j \in Ids /\ Holds(db[path[p]], j)
  BY <1>1 DEF Base, DbInv, Usable, File, Holds
<1>3. j \notin shared /\ j \notin strayed
  BY DEF Excused
<1>4. CASE RunBySomeone(j)
  <2>1. PICK q \in Procs : Runs(q, j)
    BY <1>4 DEF RunBySomeone
  <2>2. path[p] = path[q] /\ path[q] = prof[q].name
    BY <1>1, <1>2, <1>3, <2>1 DEF LocInv, Located, NamesInv, OwnNames, Runs
  <2>3. path[p] \in Uses(q)
    BY <2>1, <2>2, OwnFacts DEF Runs
  <2> QED BY <1>1, <1>3, <2>1, <2>3 DEF NamesInv, ApartInv, Runs
<1>5. CASE ~RunBySomeone(j)
  <2>1. HasId(path[p], j)
    BY <1>1, <1>2, <1>5 DEF LocInv, AtRest
  <2> QED BY <1>1, <1>3, <2>1 DEF NamesInv, ToxApartInv, HasId
<1> QED BY <1>4, <1>5

\* Nobody sees the history of somebody else.
THEOREM NoForeignHistoryHolds == Spec => []NoForeignHistory
BY LocatedHolds, NoForeign, PTL

\* Nothing that is opened again has a profile that was removed, or its history: no tox file,
\* no database, no export, under any name.
THEOREM NothingLeftToOpenHolds == Spec => []NothingLeftToOpen
<1>1. Base /\ NamesInv /\ KeptInv /\ LocInv => NothingLeftToOpen
  <2> SUFFICES ASSUME LocInv, NEW i \in Ids \ Excused, life[i] = "removed", Quiet(i), NEW n \in Names
               PROVE  ~HasId(n, i) /\ ~Holds(db[n], i) /\ ~Holds(tmp[n], i)
    BY DEF NothingLeftToOpen, HasId, Holds
  <2>1. ~RunBySomeone(i)
    <3>1. ASSUME NEW p \in Procs, Runs(p, i) PROVE FALSE
      BY <3>1 DEF LocInv, Located, Removing, Quiet, GuiFree, Runs
    <3> QED BY <3>1 DEF RunBySomeone
  <2>2. AtRest(i)
    BY <2>1 DEF LocInv
  <2> QED BY <2>2 DEF AtRest
<1> QED BY <1>1, LocatedHolds, PTL
-----------------------------------------------------------------------------
(* Which keys open the history *)

OldKey(p) == Key(prof[p].password, StaticSalt)

\* Only databases of old versions are not the latest, and they have passwords.
FileSound(file) == file # Absent => file.latest \/ file.key # NoKey
FilesInv == \A n \in Names : FileSound(db[n]) /\ (tmp[n] # Absent => tmp[n].latest)

\* The keys that the worker thread of p has to do with are those of the profile.
WorkKeys(p) ==
    Busy(p) =>
      /\ work[p].key \in {DbKey(p), OldKey(p)}
      /\ work[p].at \in {"opening", "fallback"} => hexKey[p] = DbKey(p) /\ conn[p] = "closed"
      /\ work[p].at \in {"fallback", "rekeying"} \/ work[p].upgrade => prof[p].password # NoPassword
      /\ work[p].upgrade => work[p].key = OldKey(p)

Opens(file, i, password) == file.key \in {Key(password, i), Key(password, StaticSalt)}
\* An upgrade of the cipher parameters would find no export in its way.
CanUpgrade(n) == db[n] # Absent /\ ~db[n].latest => tmp[n] = Absent
SameKind(p) == Db(p).key = NoKey <=> hexKey[p] = NoKey

\* The database of p is as it should be, or cannot be used before the next start.
Settled(p, i) ==
    /\ Usable(p) => Db(p).latest /\ Opens(Db(p), i, prof[p].password) /\ SameKind(p)
    /\ conn[p] = "open" => Db(p).key # hexKey[p]
    /\ Has(path[p], i) =>
         /\ Db(p) # Absent /\ Db(p).latest /\ Opens(Db(p), i, prof[p].password)
         /\ Usable(p) \/ (prof[p].renamed /\ Db(p).key # hexKey[p])

\* What p knows of its database, by what it is at.
KeyAt(p, i) ==
    /\ ~Busy(p) /\ at[p] # "password" => Settled(p, i)
    /\ at[p] = "password" /\ Usable(p) => Db(p).latest /\ SameKind(p)
    /\ work[p].at = "opening" /\ Has(path[p], i) =>
         Opens(OnDisk(path[p]), i, prof[p].password) /\ CanUpgrade(path[p])
    /\ work[p].at = "fallback" /\ Has(path[p], i) => Db(p).key = OldKey(p) /\ CanUpgrade(path[p])
    /\ work[p].at \in {"exporting", "swapping", "swapped"} => Tmp(p).key = work[p].key
    /\ work[p].at = "rekeying" =>
         conn[p] = "usable" /\ Db(p).latest /\ Db(p).key = hexKey[p] /\ hexKey[p] = OldKey(p)

KeyIdle(i) ==
    \A n \in Names : HasId(n, i) /\ Has(n, i) => Opens(OnDisk(n), i, tox[n].password) /\ CanUpgrade(n)

KeyInv ==
    /\ FilesInv
    /\ \A p \in Procs : AtWork(p) => WorkKeys(p)
    /\ \A i \in Ids \ Excused :
         /\ \A p \in Procs : Runs(p, i) => KeyAt(p, i)
         /\ ~RunBySomeone(i) => KeyIdle(i)

KeyStep(p, i) ==
    /\ FilesInv'
    /\ AtWork(p)' => WorkKeys(p)'
    /\ i \notin Excused' =>
         /\ AtWork(p)' => KeyAt(p, i)'
         /\ ~AtWork(p)' => KeyIdle(i)'

LEMMA KeyStepInv ==
  ASSUME Base, Base', NamesInv, NamesInv', KeyInv, NEW p \in Procs, NEW i \in Ids, Step(p, i), KeyStep(p, i)
  PROVE  KeyInv'
<1>1. Excused \subseteq Excused' /\ shared' \subseteq Excused' /\ strayed' \subseteq Excused'
  BY DEF Step, IdStep, Excused
<1>2. ASSUME NEW q \in Procs \ {p}
      PROVE  /\ at'[q] = at[q] /\ prof'[q] = prof[q] /\ path'[q] = path[q] /\ hexKey'[q] = hexKey[q]
             /\ conn'[q] = conn[q] /\ work'[q] = work[q]
             /\ AtWork(q)' <=> AtWork(q)
  BY OthersKeep DEF Step, Local
<1>3. ASSUME NEW q \in Procs, AtWork(q)' PROVE WorkKeys(q)'
  <2>1. CASE q = p
    BY <1>3, <2>1 DEF KeyStep
  <2>2. CASE q # p
    <3>1. WorkKeys(q)
      BY <1>2, <1>3, <2>2 DEF KeyInv
    <3> QED BY <1>2, <2>2, <3>1 DEF WorkKeys, Busy, DbKey, OldKey
  <2> QED BY <2>1, <2>2
<1>4. ASSUME NEW j \in Ids, j \notin Excused', NEW q \in Procs, Runs(q, j)'
      PROVE  KeyAt(q, j)'
  <2>1. CASE q = p
    <3>1. j = i /\ AtWork(p)'
      BY <1>4, <2>1 DEF Runs, Step, IdStep
    <3> QED BY <1>4, <2>1, <3>1 DEF KeyStep
  <2>2. CASE q # p
    <3>1. j # i
      BY <1>1, <1>4, <2>2, OthersHaveNot
    <3>2. Runs(q, j) /\ j \notin Excused
      BY <1>1, <1>4, <3>1, OthersFiles
    <3>3. KeyAt(q, j)
      BY <3>2 DEF KeyInv
    <3>4. db'[path[q]] = db[path[q]] /\ tmp'[path[q]] = tmp[path[q]]
      <4>1. path[q] = prof[q].name
        BY <3>2, <1>1 DEF NamesInv, OwnNames, Runs, Excused
      <4>2. path[q] \in Uses(q) /\ path[q] \in Names
        BY <3>2, <4>1, OwnFacts DEF Runs
      <4> QED BY <1>1, <1>4, <3>1, <3>2, <4>2, OthersFiles
    <3>5. /\ at'[q] = at[q] /\ prof'[q] = prof[q] /\ path'[q] = path[q] /\ hexKey'[q] = hexKey[q]
          /\ conn'[q] = conn[q] /\ work'[q] = work[q]
      BY <1>2, <2>2
    <3>6. /\ Usable(q)' <=> Usable(q)
          /\ SameKind(q)' <=> SameKind(q)
          /\ Db(q)' = Db(q) /\ Tmp(q)' = Tmp(q) /\ OldKey(q)' = OldKey(q)
          /\ Has(path[q], j)' <=> Has(path[q], j)
          /\ OnDisk(path[q])' = OnDisk(path[q])
          /\ CanUpgrade(path[q])' <=> CanUpgrade(path[q])
          /\ Busy(q)' <=> Busy(q)
      BY <3>4, <3>5 DEF Usable, SameKind, Db, Tmp, OldKey, Has, OnDisk, Holds, CanUpgrade, Busy
    <3>7. Settled(q, j)' <=> Settled(q, j)
      BY <3>5, <3>6 DEF Settled, Opens
    <3> QED BY <3>3, <3>5, <3>6, <3>7 DEF KeyAt, Opens
  <2> QED BY <2>1, <2>2
<1>5. ASSUME NEW j \in Ids, j \notin Excused', ~RunBySomeone(j)'
      PROVE  KeyIdle(j)'
  <2>1. CASE j = i
    <3>1. ~AtWork(p)'
      BY <1>5, <2>1 DEF RunBySomeone, Runs, Step, IdStep
    <3> QED BY <1>5, <2>1, <3>1 DEF KeyStep
  <2>2. CASE j # i
    <3>1. /\ ~RunBySomeone(j) /\ j \notin Excused
          /\ \A n \in Names : HasId(n, j)' <=> HasId(n, j)
          /\ \A n \in Names : HasId(n, j) => tox'[n] = tox[n] /\ db'[n] = db[n] /\ tmp'[n] = tmp[n]
      BY <1>1, <1>5, <2>2, OthersFiles DEF RunBySomeone
    <3>2. KeyIdle(j)
      BY <3>1 DEF KeyInv
    <3> QED BY <3>1, <3>2 DEF KeyIdle, Has, OnDisk, Holds, Opens, CanUpgrade
  <2> QED BY <2>1, <2>2
<1> QED BY <1>3, <1>4, <1>5 DEF KeyStep, KeyInv
-----------------------------------------------------------------------------
(* Keys *)

LEMMA KeyKinds ==
  ASSUME NEW q \in Passwords \cup {NoPassword}, NEW s \in Ids \cup {StaticSalt}
  PROVE  /\ Key(q, s) \in Keys
         /\ Key(q, s).password = q
         /\ Key(q, s) = NoKey <=> q = NoPassword
         /\ q = NoPassword => Key(q, s) = NoKey /\ Key(q, s).salt = StaticSalt
         /\ q # NoPassword => Key(q, s).salt = s
BY KeyType DEF Key, NoKey

LEMMA OwnKeys ==
  ASSUME Base, NEW p \in Procs, AtWork(p)
  PROVE  /\ prof[p].password \in Passwords \cup {NoPassword} /\ prof[p].id \in Ids
         /\ DbKey(p) \in Keys /\ OldKey(p) \in Keys
         /\ OldKey(p) = Key(DbKey(p).password, StaticSalt)
         /\ DbKey(p) = NoKey <=> prof[p].password = NoPassword
         /\ OldKey(p) = NoKey <=> prof[p].password = NoPassword
         /\ OldKey(p).salt = StaticSalt
         /\ DbKey(p).salt # StaticSalt => prof[p].password # NoPassword
<1>1. prof[p].password \in Passwords \cup {NoPassword} /\ prof[p].id \in Ids
  BY DEF Base, IInv, TypeInv, ProfileObject
<1> QED BY <1>1, KeyKinds DEF DbKey, OldKey
-----------------------------------------------------------------------------
(* Opening *)

LEMMA FilesStep ==
  ASSUME FilesInv, NEW p \in Procs, NEW i \in Ids, path[p] \in Names, path' = path, Within(p, i),
         FileSound(Db(p)'), Tmp(p)' # Absent => Tmp(p)'.latest
  PROVE  FilesInv'
BY DEF FilesInv, FileSound, Within, Db, Tmp

\* What a step of the worker thread does when nobody's profile changes.
LEMMA WorkerKeyStep ==
  ASSUME FilesInv, NEW p \in Procs, NEW i \in Ids, path[p] \in Names, path' = path, Within(p, i), AtWork(p)',
         FileSound(Db(p)'), Tmp(p)' # Absent => Tmp(p)'.latest,
         WorkKeys(p)', i \notin Excused' => KeyAt(p, i)'
  PROVE  KeyStep(p, i)
BY FilesStep DEF KeyStep

\* The file that is opened is as sound as what is there.
LEMMA FoundSound ==
  ASSUME DbInv, FilesInv, NEW p \in Procs, path[p] \in Names, NEW key \in Keys, NEW of \in SUBSET Ids
  PROVE  LET file == Found(p, NewFile(key, of))
         IN /\ file \in File /\ file # Absent /\ FileSound(file)
            /\ Export(p) # Absent => Export(p).latest
            /\ NewFile(key, of) \in File /\ NewFile(key, of).latest = TRUE
            /\ NewFile(key, of).key = key /\ NewFile(key, of).of = of
<1>1. NewFile(key, of) \in File
  BY NewFileType
<1>2. NewFile(key, of).latest = TRUE /\ NewFile(key, of).key = key /\ NewFile(key, of).of = of
  BY DEF NewFile
<1> DEFINE new == NewFile(key, of)
           file == Found(p, new)
<1>3. /\ file \in File /\ file # Absent
      /\ Db(p) # Absent => file = Db(p)
      /\ Db(p) = Absent /\ Tmp(p) # Absent => file.latest = Tmp(p).latest
      /\ Db(p) = Absent /\ Tmp(p) = Absent => file = new
      /\ Export(p) = IF Db(p) = Absent THEN Absent ELSE Tmp(p)
  BY <1>1, FoundFacts
<1>4. FileSound(file)
  <2> HIDE DEF file
  <2> QED BY <1>2, <1>3 DEF FilesInv, FileSound, Db, Tmp
<1>5. Export(p) # Absent => Export(p).latest
  BY <1>3 DEF FilesInv, Tmp
<1> QED BY <1>1, <1>2, <1>3, <1>4, <1>5

LEMMA OpenedSound ==
  ASSUME DbInv, FilesInv, NEW p \in Procs, path[p] \in Names, path' = path, NEW key \in Keys, NEW file \in File,
         NEW upgrade \in BOOLEAN, FileSound(file), Opened(p, key, file, upgrade)
  PROVE  FileSound(Db(p)') /\ (Tmp(p)' # Absent => Tmp(p)'.latest)
<1>1. NewExport(key).latest = TRUE
  BY NewExportType
<1>2. Export(p) # Absent => Export(p).latest
  BY DEF FilesInv, Export
<1> QED BY <1>1, <1>2 DEF Opened

LEMMA OpenedKeys ==
  ASSUME Base, Base', NEW p \in Procs, AtWork(p), path[p] \in Names, prof' = prof, path' = path,
         WorkKeys(p), Busy(p), NEW key \in {DbKey(p), OldKey(p)}, NEW file \in File, FileSound(file),
         NEW upgrade \in BOOLEAN, upgrade => key = OldKey(p) /\ prof[p].password # NoPassword,
         Opened(p, key, file, upgrade), hexKey'[p] = key, at'[p] = "running",
         NEW i \in Ids, i = prof[p].id
  PROVE  /\ WorkKeys(p)'
         /\ (Holds(file, i) => Opens(file, i, prof[p].password)) => KeyAt(p, i)'
<1> DEFINE password == prof[p].password
<1>1. /\ OldKey(p)' = OldKey(p) /\ DbKey(p)' = DbKey(p)
      /\ DbKey(p) = Key(password, i) /\ OldKey(p) = Key(password, StaticSalt)
  BY DEF OldKey, DbKey
<1>2. key = NoKey => DbKey(p) = NoKey /\ OldKey(p) = NoKey
  BY OwnKeys
<1>3. Db(p)' = file /\ file # Absent
  BY FileAssumption DEF Opened
<1>4. Holds(file, i) <=> Has(path[p], i)'
  BY <1>3 DEF Has, OnDisk, Holds, Db
<1>5. work[p] \in WorkType
  BY DEF Base, DbInv
<1> DEFINE given == Holds(file, i) => Opens(file, i, password)
<1>6. CASE /\ key = NoKey
           /\ conn'[p] = IF file.key = key THEN "usable" ELSE "open"
           /\ work'[p] = Idle
  <2>1. work'[p].at = "idle" /\ work'[p].upgrade = FALSE
    BY <1>6, IdleAt
  <2>2. WorkKeys(p)'
    BY <2>1 DEF WorkKeys, Busy
  <2>3. Usable(p)' <=> file.key = NoKey
    BY <1>3, <1>6 DEF Usable, Db
  <2>4. file.key = NoKey => file.latest
    BY <1>3 DEF FileSound
  <2>5. ASSUME given PROVE Settled(p, i)'
    <3>1. Holds(file, i) => file.key = NoKey
      BY <1>1, <1>2, <1>6, <2>5 DEF Opens
    <3>2. file.key = NoKey => Opens(file, i, password)
      BY <1>1, <1>2, <1>6 DEF Opens
    <3> QED BY <1>3, <1>4, <1>6, <2>3, <2>4, <3>1, <3>2 DEF Settled, SameKind
  <2> QED BY <2>1, <2>2, <2>5 DEF KeyAt
<1>7. CASE /\ key # NoKey /\ file.key = key /\ file.latest
           /\ conn'[p] = "usable"
           /\ work'[p] = IF upgrade THEN [work[p] EXCEPT !.at = "rekeying"] ELSE Idle
  <2>1. Opens(file, i, password)
    BY <1>1, <1>7 DEF Opens
  <2>2. CASE upgrade
    <3>1. work'[p].at = "rekeying" /\ work'[p].key = work[p].key /\ work'[p].upgrade = work[p].upgrade
      BY <1>5, <1>7, <2>2 DEF WorkType
    <3>2. WorkKeys(p)'
      BY <1>1, <2>2, <3>1 DEF WorkKeys, Busy
    <3> QED BY <1>1, <1>3, <1>7, <2>2, <3>1, <3>2 DEF KeyAt, Busy
  <2>3. CASE ~upgrade
    <3>1. work'[p].at = "idle" /\ work'[p].upgrade = FALSE
      BY <1>7, <2>3, IdleAt
    <3>2. WorkKeys(p)'
      BY <3>1 DEF WorkKeys, Busy
    <3>3. Usable(p)' /\ SameKind(p)'
      BY <1>3, <1>7 DEF Usable, SameKind, Db
    <3>4. Settled(p, i)'
      BY <1>3, <1>7, <2>1, <3>3 DEF Settled
    <3> QED BY <3>1, <3>2, <3>4 DEF KeyAt
  <2> QED BY <2>2, <2>3
<1>8. CASE /\ Tmp(p)' = NewExport(key)
           /\ work'[p] = [at |-> "exporting", key |-> key, upgrade |-> upgrade]
  <2>1. NewExport(key).key = key
    BY OwnKeys, NewExportType
  <2>2. work'[p].at = "exporting" /\ work'[p].key = key /\ work'[p].upgrade = upgrade
    BY <1>8
  <2>3. WorkKeys(p)'
    BY <1>1, <2>2 DEF WorkKeys, Busy
  <2>4. KeyAt(p, i)'
    BY <1>8, <2>1, <2>2 DEF KeyAt, Busy
  <2> QED BY <2>3, <2>4
<1> QED BY <1>6, <1>7, <1>8 DEF Opened

\* What is known of the history holds of the file that is opened.
LEMMA OpeningFile ==
  ASSUME Base, FilesInv, NEW p \in Procs, path[p] \in Names, NEW i \in Ids, NEW new \in File, NEW password,
         Has(path[p], i) => Opens(OnDisk(path[p]), i, password) /\ CanUpgrade(path[p]),
         i \in new.of => Opens(new, i, password) /\ new.latest
  PROVE  LET file == Found(p, new)
         IN /\ Holds(file, i) => Opens(file, i, password)
            /\ Holds(file, i) /\ ~file.latest => Export(p) = Absent
<1> DEFINE file == Found(p, new)
<1>1. /\ file \in File /\ file # Absent
      /\ Db(p) # Absent => file = Db(p)
      /\ Db(p) = Absent /\ Tmp(p) # Absent =>
           file.key = Tmp(p).key /\ file.latest = Tmp(p).latest /\ file.of = Tmp(p).of
      /\ Db(p) = Absent /\ Tmp(p) = Absent => file = new
      /\ Export(p) = IF Db(p) = Absent THEN Absent ELSE Tmp(p)
  BY FoundFacts DEF Base
<1> HIDE DEF file
<1>2. CASE Db(p) # Absent
  BY <1>1, <1>2 DEF Has, OnDisk, Holds, CanUpgrade, Db, Tmp, file
<1>3. CASE Db(p) = Absent /\ Tmp(p) # Absent
  BY <1>1, <1>3 DEF Has, OnDisk, Holds, Opens, Db, Tmp, file
<1>4. CASE Db(p) = Absent /\ Tmp(p) = Absent
  BY <1>1, <1>4 DEF Holds, file
<1> QED BY <1>2, <1>3, <1>4

\* What the steps of the worker thread have in common.
LEMMA WorkerFacts ==
  ASSUME Base, Base', NamesInv, KeptInv, KeyInv, NEW p \in Procs, NEW i \in Ids, i = prof[p].id,
         \/ OpenFirstTime(p) \/ DatabaseStep(p) \/ DatabaseFails(p) \/ AddNewMessage(p)
         \/ ChangeDbPassword(p)
  PROVE  /\ AtWork(p) /\ AtWork(p)' /\ path' = path /\ prof' = prof /\ path[p] \in Names
         /\ DbKey(p)' = DbKey(p) /\ OldKey(p)' = OldKey(p)
         /\ DbKey(p) = Key(prof[p].password, i)
         /\ at'[p] = "running"
         /\ WorkKeys(p)
         /\ i \notin Excused' => KeyAt(p, i) /\ DbThere(p) /\ harmed' \subseteq harmed /\ i \notin harmed'
<1>1. AtWork(p) /\ AtWork(p)' /\ path' = path /\ prof' = prof /\ Step(p, i)
  BY WorkerStep
<1>2. at'[p] = "running"
  <2>1. CASE ChangeDbPassword(p)
    BY <2>1 DEF ChangeDbPassword, Goto, Base, IInv, TypeInv
  <2>2. CASE AddNewMessage(p)
    BY <2>2 DEF AddNewMessage, GuiFree
  <2>3. CASE OpenFirstTime(p) \/ DatabaseStep(p) \/ DatabaseFails(p)
    <3>1. Busy(p) /\ at' = at
      BY <2>3 DEF OpenFirstTime, DatabaseStep, DatabaseFails, OpenFirst, OpenWithOldSalt, UpgradeSalt,
                  FinishExport, RemoveOld, RenameExport, FailExport, Busy, history
    <3> QED BY <3>1 DEF Base, DbInv, DbOf
  <2> QED BY <2>1, <2>2, <2>3
<1>3. path[p] \in Names
  BY <1>1 DEF Base, DbInv, DbOf
<1>4. ASSUME i \notin Excused'
      PROVE  KeyAt(p, i) /\ DbThere(p) /\ harmed' \subseteq harmed /\ i \notin harmed'
  <2>1. i \notin Excused /\ i \notin Odd /\ i \notin harmed'
    BY <1>1, <1>4 DEF Step, IdStep, Excused, Odd
  <2>2. harmed' = harmed \/ harmed' = harmed \cup {i}
    BY DEF OpenFirstTime, DatabaseStep, DatabaseFails, AddNewMessage, ChangeDbPassword, history,
           Harm, HarmUnlessUsable
  <2> QED BY <1>1, <2>1, <2>2 DEF KeyInv, KeptInv, KeptAtWork, Runs
<1>5. DbKey(p)' = DbKey(p) /\ OldKey(p)' = OldKey(p) /\ DbKey(p) = Key(prof[p].password, i)
  BY <1>1 DEF DbKey, OldKey
<1> QED BY <1>1, <1>2, <1>3, <1>4, <1>5 DEF KeyInv

LEMMA OpenFirstKeys ==
  ASSUME Base, Base', NamesInv, KeptInv, KeyInv, NEW p \in Procs, NEW i \in Ids, i = prof[p].id, OpenFirstTime(p)
  PROVE  KeyStep(p, i)
<1> DEFINE first == IF life[i] = "created" THEN {i} ELSE {}
           new == NewFile(hexKey[p], first)
           file == Found(p, new)
           password == prof[p].password
<1>1. /\ AtWork(p) /\ AtWork(p)' /\ path' = path /\ prof' = prof /\ path[p] \in Names
      /\ DbKey(p)' = DbKey(p) /\ OldKey(p)' = OldKey(p) /\ DbKey(p) = Key(password, i)
      /\ at'[p] = "running" /\ WorkKeys(p)
      /\ i \notin Excused' => KeyAt(p, i)
  BY WorkerFacts
<1>2. OpenFirst(p, new) /\ first \in SUBSET {i}
  BY DEF OpenFirstTime
<1>3. hexKey[p] = DbKey(p) /\ work[p].at = "opening" /\ DbKey(p) \in Keys /\ Busy(p)
  BY <1>1, <1>2, OwnKeys DEF OpenFirst, WorkKeys, Busy
<1>4. /\ file \in File /\ file # Absent /\ FileSound(file)
      /\ Export(p) # Absent => Export(p).latest
      /\ new \in File /\ new.latest = TRUE /\ new.key = hexKey[p] /\ new.of = first
  <2>1. hexKey[p] \in Keys /\ first \in SUBSET Ids
    BY <1>2, <1>3
  <2> HIDE DEF first
  <2> QED BY <1>1, <2>1, FoundSound DEF Base, KeyInv
<1>5. Within(p, i)
  BY <1>1, <1>2, OpeningWithin DEF Base
<1>6. ASSUME i \notin Excused'
      PROVE  /\ Holds(file, i) => Opens(file, i, password)
             /\ Holds(file, i) /\ ~file.latest => Export(p) = Absent
  <2>1. Has(path[p], i) => Opens(OnDisk(path[p]), i, password) /\ CanUpgrade(path[p])
    BY <1>1, <1>3, <1>6 DEF KeyAt
  <2>2. Opens(new, i, password) /\ new.latest
    BY <1>1, <1>3, <1>4 DEF Opens
  <2> HIDE DEF new
  <2> QED BY <1>1, <1>4, <2>1, <2>2, OpeningFile DEF KeyInv
<1> HIDE DEF file, new, first
<1>7. /\ Db(p)' = file /\ hexKey' = hexKey
      /\ \/ Opened(p, hexKey[p], file, FALSE)
         \/ /\ CannotOpen(p, hexKey[p], file)
            /\ Tmp(p)' = Export(p) /\ conn' = conn
            /\ work'[p] = [work[p] EXCEPT !.at = "fallback"]
  BY <1>1, <1>2, <1>4, OpenFirstEffect DEF Base, file
<1>8. CASE Opened(p, hexKey[p], file, FALSE)
  <2>1. FileSound(Db(p)') /\ (Tmp(p)' # Absent => Tmp(p)'.latest)
    BY <1>1, <1>3, <1>4, <1>8, OpenedSound DEF Base, KeyInv
  <2>2. WorkKeys(p)' /\ (i \notin Excused' => KeyAt(p, i)')
    BY <1>1, <1>3, <1>4, <1>6, <1>7, <1>8, OpenedKeys
  <2> QED BY <1>1, <1>5, <2>1, <2>2, WorkerKeyStep DEF KeyInv
<1>9. CASE /\ CannotOpen(p, hexKey[p], file)
           /\ Tmp(p)' = Export(p) /\ conn' = conn
           /\ work'[p] = [work[p] EXCEPT !.at = "fallback"]
  <2>1. work'[p].at = "fallback" /\ work'[p].key = work[p].key /\ work'[p].upgrade = work[p].upgrade
    BY <1>9, PlaceOf DEF Base
  <2>2. hexKey[p] # NoKey /\ (hexKey[p] = file.key => ~file.latest /\ Export(p) # Absent)
    BY <1>9 DEF CannotOpen, Fits
  <2>3. WorkKeys(p)'
    BY <1>1, <1>3, <1>7, <1>9, <2>1, <2>2, OwnKeys DEF WorkKeys, Busy
  <2>4. ASSUME i \notin Excused' PROVE KeyAt(p, i)'
    <3>1. Has(path[p], i)' <=> Holds(file, i)
      BY <1>1, <1>4, <1>7 DEF Has, OnDisk, Holds, Db
    <3>2. Holds(file, i) => file.key = OldKey(p)
      BY <1>1, <1>3, <1>6, <2>2, <2>4 DEF Opens, OldKey
    <3>3. Holds(file, i) => CanUpgrade(path[p])'
      BY <1>1, <1>6, <1>7, <1>9, <2>4 DEF CanUpgrade, Db, Tmp
    <3> QED BY <1>1, <1>7, <2>1, <3>1, <3>2, <3>3 DEF KeyAt, Busy
  <2>5. FileSound(Db(p)') /\ (Tmp(p)' # Absent => Tmp(p)'.latest)
    BY <1>4, <1>7, <1>9
  <2> QED BY <1>1, <1>5, <2>3, <2>4, <2>5, WorkerKeyStep DEF KeyInv
<1> QED BY <1>7, <1>8, <1>9

LEMMA OldSaltKeys ==
  ASSUME Base, Base', NamesInv, KeptInv, KeyInv, NEW p \in Procs, NEW i \in Ids, i = prof[p].id,
         DatabaseStep(p), OpenWithOldSalt(p)
  PROVE  KeyStep(p, i)
<1> DEFINE old == Key(hexKey[p].password, StaticSalt)
           new == NewFile(old, {})
           file == Found(p, new)
           password == prof[p].password
<1>1. /\ AtWork(p) /\ AtWork(p)' /\ path' = path /\ prof' = prof /\ path[p] \in Names
      /\ DbKey(p)' = DbKey(p) /\ OldKey(p)' = OldKey(p) /\ DbKey(p) = Key(password, i)
      /\ at'[p] = "running" /\ WorkKeys(p)
      /\ i \notin Excused' => KeyAt(p, i) /\ DbThere(p)
  BY WorkerFacts
<1>2. /\ hexKey[p] = DbKey(p) /\ work[p].at = "fallback" /\ Busy(p) /\ conn[p] = "closed"
      /\ password # NoPassword
  BY <1>1 DEF OpenWithOldSalt, WorkKeys, Busy
<1>3. old = OldKey(p) /\ old \in Keys /\ old # NoKey
  BY <1>1, <1>2, OwnKeys
<1>4. /\ file \in File /\ file # Absent /\ FileSound(file)
      /\ new \in File /\ new.latest = TRUE /\ new.key = old /\ new.of = {}
  <2> DEFINE none == {}
  <2>1. none \in SUBSET Ids
    OBVIOUS
  <2> HIDE DEF old, none
  <2>2. LET opened == Found(p, NewFile(old, none))
        IN /\ opened \in File /\ opened # Absent /\ FileSound(opened)
           /\ NewFile(old, none) \in File /\ NewFile(old, none).latest = TRUE
           /\ NewFile(old, none).key = old /\ NewFile(old, none).of = none
    BY <1>1, <1>3, <2>1, FoundSound DEF Base, KeyInv
  <2> QED BY <2>2 DEF none
<1>5. Within(p, i)
  BY <1>1, OpeningWithin DEF Base
<1>6. ASSUME i \notin Excused'
      PROVE  /\ Holds(file, i) => file.key = OldKey(p)
             /\ Holds(file, i) /\ ~file.latest => Export(p) = Absent
             /\ Db(p) # Absent /\ file = Db(p)
  <2>1. Db(p) # Absent
    BY <1>1, <1>2, <1>6 DEF DbThere, Db
  <2>2. file = Db(p)
    BY <1>1, <1>4, <2>1, FoundFacts DEF Base
  <2> HIDE DEF file
  <2>3. Has(path[p], i) <=> Holds(file, i)
    BY <2>1, <2>2 DEF Has, OnDisk, Db
  <2>4. Has(path[p], i) => Db(p).key = OldKey(p) /\ CanUpgrade(path[p])
    BY <1>1, <1>2, <1>6 DEF KeyAt
  <2> QED BY <2>1, <2>2, <2>3, <2>4 DEF CanUpgrade, Export, Db
<1> HIDE DEF file, new
<1>7. /\ hexKey'[p] = old
      /\ \/ \E upgrade \in BOOLEAN : Opened(p, old, file, upgrade)
         \/ /\ CannotOpen(p, old, file)
            /\ UNCHANGED <<db, tmp, conn>>
            /\ work'[p] = Idle
  BY <1>1, OldSaltEffect DEF Base, file, new
<1> HIDE DEF old
<1>8. ASSUME NEW upgrade \in BOOLEAN, Opened(p, old, file, upgrade)
      PROVE  KeyStep(p, i)
  <2>1. FileSound(Db(p)') /\ (Tmp(p)' # Absent => Tmp(p)'.latest)
    BY <1>1, <1>3, <1>4, <1>8, OpenedSound DEF Base, KeyInv
  <2>2. i \notin Excused' /\ Holds(file, i) => Opens(file, i, password)
    BY <1>6 DEF Opens, OldKey
  <2>3. WorkKeys(p)' /\ (i \notin Excused' => KeyAt(p, i)')
    BY <1>1, <1>2, <1>3, <1>4, <1>7, <1>8, <2>2, OpenedKeys
  <2> QED BY <1>1, <1>5, <2>1, <2>3, WorkerKeyStep DEF KeyInv
<1>9. CASE CannotOpen(p, old, file) /\ UNCHANGED <<db, tmp, conn>> /\ work'[p] = Idle
  <2>1. work'[p].at = "idle" /\ work'[p].upgrade = FALSE
    BY <1>9, IdleAt
  <2>2. WorkKeys(p)'
    BY <2>1 DEF WorkKeys, Busy
  <2>3. FileSound(Db(p)') /\ (Tmp(p)' # Absent => Tmp(p)'.latest)
    BY <1>1, <1>9 DEF KeyInv, FilesInv, Db, Tmp
  <2>4. ASSUME i \notin Excused' PROVE KeyAt(p, i)'
    <3>1. ~Holds(file, i)
      BY <1>3, <1>6, <1>9, <2>4 DEF CannotOpen, Fits
    <3>2. ~Has(path[p], i)'
      BY <1>1, <1>6, <1>9, <2>4, <3>1 DEF Has, OnDisk, Holds, Db
    <3>3. Settled(p, i)'
      BY <1>2, <1>9, <3>2 DEF Settled, Usable
    <3> QED BY <1>1, <2>1, <3>3 DEF KeyAt
  <2> QED BY <1>1, <1>5, <2>2, <2>3, <2>4, WorkerKeyStep DEF KeyInv
<1> QED BY <1>7, <1>8, <1>9
-----------------------------------------------------------------------------
(* The swap and the rekeying *)

LEMMA ExportKeys ==
  ASSUME Base, Base', NamesInv, KeptInv, KeyInv, NEW p \in Procs, NEW i \in Ids, i = prof[p].id,
         DatabaseStep(p), FinishExport(p) \/ RemoveOld(p)
  PROVE  KeyStep(p, i)
<1>1. /\ AtWork(p) /\ AtWork(p)' /\ path' = path /\ prof' = prof /\ path[p] \in Names
      /\ DbKey(p)' = DbKey(p) /\ OldKey(p)' = OldKey(p)
      /\ at'[p] = "running" /\ WorkKeys(p)
      /\ i \notin Excused' => KeyAt(p, i) /\ DbThere(p)
  BY WorkerFacts
<1>2. Within(p, i)
  BY <1>1, SwapWithin DEF Base
<1>3. FilesInv /\ FileSound(Db(p)) /\ (Tmp(p) # Absent => Tmp(p).latest)
  BY <1>1 DEF KeyInv, FilesInv, Db, Tmp
<1>4. ASSUME NEW place \in {"swapping", "swapped"}, work'[p] = [work[p] EXCEPT !.at = place],
             Busy(p), FileSound(Db(p)'), Tmp(p)' # Absent => Tmp(p)'.latest,
             i \notin Excused' => Tmp(p)'.key = work[p].key
      PROVE  KeyStep(p, i)
  <2>1. work'[p].at = place /\ work'[p].key = work[p].key /\ work'[p].upgrade = work[p].upgrade
    BY <1>4, PlaceOf DEF Base
  <2>2. WorkKeys(p)'
    BY <1>1, <1>4, <2>1 DEF WorkKeys, Busy
  <2>3. i \notin Excused' => KeyAt(p, i)'
    BY <1>1, <1>4, <2>1 DEF KeyAt, Busy
  <2> QED BY <1>1, <1>2, <1>3, <1>4, <2>2, <2>3, WorkerKeyStep
<1>5. CASE FinishExport(p)
  <2>1. /\ work[p].at = "exporting" /\ db' = db
        /\ work'[p] = [work[p] EXCEPT !.at = "swapping"]
        /\ Tmp(p) # Absent /\ Db(p) # Absent => Tmp(p)'.key = Tmp(p).key /\ Tmp(p)'.latest = Tmp(p).latest
    BY <1>1, <1>5, FinishEffect DEF Base
  <2>2. Tmp(p) = Absent \/ Db(p) = Absent => tmp' = tmp
    BY <1>5 DEF FinishExport, Tmp, Db
  <2>3. Tmp(p)' # Absent => Tmp(p)'.latest
    BY <1>1, <1>3, <2>1, <2>2 DEF Tmp
  <2>4. FileSound(Db(p)')
    BY <1>1, <1>3, <2>1 DEF Db
  <2>5. i \notin Excused' => Tmp(p)'.key = work[p].key
    BY <1>1, <2>1 DEF KeyAt, DbThere, Db, Tmp
  <2> QED BY <1>4, <2>1, <2>3, <2>4, <2>5 DEF Busy
<1>6. CASE RemoveOld(p)
  <2>1. /\ work[p].at = "swapping" /\ tmp' = tmp /\ Db(p)' = Absent
        /\ work'[p] = [work[p] EXCEPT !.at = "swapped"]
    BY <1>1, <1>6, RemoveOldEffect DEF Base
  <2>2. Tmp(p)' = Tmp(p) /\ FileSound(Db(p)')
    BY <1>1, <2>1 DEF Tmp, FileSound
  <2>3. i \notin Excused' => Tmp(p).key = work[p].key
    BY <1>1, <2>1 DEF KeyAt
  <2> QED BY <1>3, <1>4, <2>1, <2>2, <2>3 DEF Busy
<1> QED BY <1>5, <1>6

LEMMA RenameExportKeys ==
  ASSUME Base, Base', NamesInv, KeptInv, KeyInv, NEW p \in Procs, NEW i \in Ids, i = prof[p].id,
         DatabaseStep(p), RenameExport(p)
  PROVE  KeyStep(p, i)
<1> DEFINE key == work[p].key
           file == Found(p, NewFile(key, {}))
           password == prof[p].password
<1>1. /\ AtWork(p) /\ AtWork(p)' /\ path' = path /\ prof' = prof /\ path[p] \in Names
      /\ DbKey(p)' = DbKey(p) /\ OldKey(p)' = OldKey(p) /\ DbKey(p) = Key(password, i)
      /\ at'[p] = "running" /\ WorkKeys(p)
      /\ i \notin Excused' => KeyAt(p, i) /\ DbThere(p)
  BY WorkerFacts
<1>2. /\ work[p].at = "swapped" /\ key \in Keys
      /\ Db(p)' = file /\ Tmp(p)' = Export(p) /\ hexKey'[p] = key
      /\ conn'[p] = IF file.key = key THEN "usable" ELSE "closed"
      /\ work'[p] = IF file.key = key /\ work[p].upgrade THEN [work[p] EXCEPT !.at = "rekeying"] ELSE Idle
  BY <1>1, RenameExportEffect DEF Base
<1>3. /\ file \in File /\ file # Absent /\ FileSound(file)
      /\ Export(p) # Absent => Export(p).latest
      /\ NewFile(key, {}) \in File
  <2> DEFINE none == {}
  <2>1. none \in SUBSET Ids
    OBVIOUS
  <2>3. key \in Keys /\ path[p] \in Names /\ DbInv /\ FilesInv
    BY <1>1, <1>2 DEF Base, KeyInv
  <2> HIDE DEF key, none
  <2>2. LET opened == Found(p, NewFile(key, none))
        IN /\ opened \in File /\ opened # Absent /\ FileSound(opened)
           /\ Export(p) # Absent => Export(p).latest
           /\ NewFile(key, none) \in File
    BY <2>1, <2>3, FoundSound
  <2> QED BY <2>2 DEF none
<1>4. ASSUME i \notin Excused'
      PROVE  file.key = key /\ file.latest
  <2>1. Db(p) = Absent /\ Tmp(p) # Absent
    BY <1>1, <1>2, <1>4 DEF DbThere, Db, Tmp
  <2>2. file.key = Tmp(p).key /\ file.latest = Tmp(p).latest
    BY <1>1, <1>3, <2>1, FoundFacts DEF Base
  <2>3. Tmp(p).key = key
    BY <1>1, <1>2, <1>4 DEF KeyAt
  <2> QED BY <1>1, <2>1, <2>2, <2>3 DEF KeyInv, FilesInv, Tmp
<1> HIDE DEF file
<1>5. key \in {DbKey(p), OldKey(p)} /\ (work[p].upgrade => key = OldKey(p) /\ password # NoPassword)
  BY <1>1, <1>2 DEF WorkKeys, Busy
<1>6. Within(p, i) /\ FilesInv
  BY <1>1, SwapWithin DEF Base, KeyInv
<1>7. CASE file.key = key /\ work[p].upgrade
  <2>1. /\ work'[p].at = "rekeying" /\ work'[p].key = key /\ work'[p].upgrade = work[p].upgrade
        /\ conn'[p] = "usable"
    BY <1>2, <1>7, PlaceOf DEF Base
  <2>2. WorkKeys(p)'
    BY <1>1, <1>5, <1>7, <2>1 DEF WorkKeys, Busy
  <2>3. i \notin Excused' => KeyAt(p, i)'
    BY <1>1, <1>2, <1>4, <1>5, <1>7, <2>1 DEF KeyAt, Busy
  <2> QED BY <1>1, <1>2, <1>3, <1>6, <2>2, <2>3, WorkerKeyStep
<1>8. CASE ~(file.key = key /\ work[p].upgrade)
  <2>1. work'[p].at = "idle" /\ work'[p].upgrade = FALSE
    BY <1>2, <1>8, IdleAt
  <2>2. WorkKeys(p)'
    BY <2>1 DEF WorkKeys, Busy
  <2>3. ASSUME i \notin Excused' PROVE KeyAt(p, i)'
    <3>1. Usable(p)' /\ SameKind(p)' /\ conn'[p] = "usable"
      BY <1>2, <1>3, <1>4, <2>3 DEF Usable, SameKind, Db
    <3>2. Opens(file, i, password)
      BY <1>1, <1>4, <1>5, <2>3 DEF Opens, OldKey
    <3>3. Settled(p, i)'
      BY <1>1, <1>2, <1>3, <1>4, <2>3, <3>1, <3>2 DEF Settled
    <3> QED BY <1>1, <2>1, <3>3 DEF KeyAt
  <2> QED BY <1>1, <1>2, <1>3, <1>6, <2>2, <2>3, WorkerKeyStep
<1> QED BY <1>7, <1>8

LEMMA RekeyedFile ==
  ASSUME NEW file \in File, NEW key \in Keys
  PROVE  LET new == [file EXCEPT !.key = key]
         IN new \in File /\ new # Absent /\ new.key = key /\ new.latest = file.latest
BY FileAssumption DEF File

LEMMA UpgradeKeys ==
  ASSUME Base, Base', NamesInv, KeptInv, KeyInv, NEW p \in Procs, NEW i \in Ids, i = prof[p].id,
         DatabaseStep(p), UpgradeSalt(p, DbKey(p))
  PROVE  KeyStep(p, i)
<1> DEFINE password == prof[p].password
           key == DbKey(p)
           file == [Db(p) EXCEPT !.key = key]
<1>1. /\ AtWork(p) /\ AtWork(p)' /\ path' = path /\ prof' = prof /\ path[p] \in Names
      /\ OldKey(p)' = OldKey(p) /\ key = Key(password, i)
      /\ at'[p] = "running" /\ WorkKeys(p)
      /\ i \notin Excused' => KeyAt(p, i) /\ DbThere(p)
  BY WorkerFacts
<1>2. key \in Keys
  BY <1>1, OwnKeys
<1>3. /\ work[p].at = "rekeying" /\ hexKey' = hexKey /\ conn' = conn
      /\ Db(p)' = IF Usable(p) THEN file ELSE Db(p)
      /\ Tmp(p)' = Absent /\ work'[p].at = "idle" /\ work'[p].upgrade = FALSE
  BY <1>1, <1>2, UpgradeEffect, IdleAt DEF Base
<1>4. key # NoKey /\ OldKey(p) # NoKey
  BY <1>1, <1>3, OwnKeys DEF WorkKeys, Busy
<1>5. Usable(p) => file # Absent /\ file.key = key /\ file.latest = Db(p).latest
  <2>1. Usable(p) => Db(p) \in File
    BY <1>1 DEF Usable, Db, Base, DbInv
  <2> HIDE DEF key
  <2> QED BY <1>2, <2>1, RekeyedFile
<1> HIDE DEF file
<1>6. FileSound(Db(p)')
  <2>1. FileSound(Db(p))
    BY <1>1 DEF KeyInv, FilesInv, Db
  <2> QED BY <1>3, <1>4, <1>5, <2>1 DEF FileSound
<1>7. WorkKeys(p)'
  BY <1>3 DEF WorkKeys, Busy
<1>8. ASSUME i \notin Excused' PROVE KeyAt(p, i)'
  <2>1. Db(p) # Absent /\ conn[p] = "usable" /\ Db(p).latest /\ hexKey[p] = OldKey(p)
    BY <1>1, <1>3, <1>8 DEF DbThere, Db, KeyAt
  <2>2. Usable(p)
    BY <2>1 DEF Usable, Db
  <2>3. Db(p)' = file /\ file # Absent /\ file.key = key /\ file.latest
    BY <1>3, <1>5, <2>1, <2>2
  <2>4. Usable(p)' /\ SameKind(p)'
    BY <1>3, <1>4, <2>1, <2>3 DEF Usable, SameKind, Db
  <2>5. Opens(file, i, password)
    BY <1>1, <2>3 DEF Opens
  <2>6. Settled(p, i)'
    BY <1>1, <1>3, <2>1, <2>3, <2>4, <2>5 DEF Settled
  <2> QED BY <1>1, <1>3, <2>6 DEF KeyAt
<1>9. Within(p, i)
  BY <1>1, <1>2, RekeyWithin DEF Base
<1> QED BY <1>1, <1>3, <1>6, <1>7, <1>8, <1>9, WorkerKeyStep DEF KeyInv
LEMMA FailKeys ==
  ASSUME Base, Base', NamesInv, KeptInv, KeyInv, NEW p \in Procs, NEW i \in Ids, i = prof[p].id,
         DatabaseFails(p)
  PROVE  KeyStep(p, i)
<1>1. /\ AtWork(p) /\ AtWork(p)' /\ path' = path /\ prof' = prof /\ path[p] \in Names
      /\ DbKey(p)' = DbKey(p) /\ OldKey(p)' = OldKey(p) /\ WorkKeys(p)
  BY WorkerFacts
<1>2. i \in Excused'
  BY DEF DatabaseFails, Harm, Excused
<1>3. CASE FailExport(p)
  <2>1. db' = db /\ tmp' = tmp /\ hexKey' = hexKey /\ conn'[p] = "closed" /\ work[p].at = "exporting"
    BY <1>3 DEF FailExport, Close, Base, DbInv
  <2>2. CASE /\ work[p].key = hexKey[p] /\ hexKey[p].salt # StaticSalt
             /\ work'[p] = [work[p] EXCEPT !.at = "fallback"]
    <3>1. work'[p].at = "fallback" /\ work'[p].key = work[p].key /\ work'[p].upgrade = work[p].upgrade
      BY <2>2, PlaceOf DEF Base
    <3>2. work[p].key \in {DbKey(p), OldKey(p)}
      BY <1>1, <2>1 DEF WorkKeys, Busy
    <3>3. hexKey[p] = DbKey(p) /\ prof[p].password # NoPassword
      BY <1>1, <2>2, <3>2, OwnKeys
    <3>4. WorkKeys(p)'
      BY <1>1, <2>1, <3>1, <3>2, <3>3 DEF WorkKeys, Busy
    <3> QED BY <1>1, <1>2, <2>1, <3>4 DEF KeyStep, KeyInv, FilesInv, FileSound
  <2>3. CASE work'[p] = Idle
    <3>1. WorkKeys(p)'
      BY <2>3, IdleAt DEF WorkKeys, Busy
    <3> QED BY <1>1, <1>2, <2>1, <3>1 DEF KeyStep, KeyInv, FilesInv, FileSound
  <2> QED BY <1>3, <2>2, <2>3 DEF FailExport, Stop, Base, DbInv
<1>4. CASE work[p].at = "rekeying" /\ FailRekey(p)
  <2>1. db' = db /\ Tmp(p)' = Absent /\ work'[p] = Idle
    BY <1>1, <1>4 DEF FailRekey, Stop, Base, DbInv, Tmp
  <2>2. WorkKeys(p)'
    BY <2>1, IdleAt DEF WorkKeys, Busy
  <2>3. FileSound(Db(p)')
    BY <1>1, <2>1 DEF KeyInv, FilesInv, Db
  <2>4. Within(p, i)
    BY <1>1, <1>4, NoKeyType, RekeyWithin DEF Base
  <2> QED BY <1>1, <1>2, <2>1, <2>2, <2>3, <2>4, WorkerKeyStep DEF KeyInv
<1> QED BY <1>3, <1>4 DEF DatabaseFails

LEMMA MessageKeys ==
  ASSUME Base, Base', NamesInv, KeptInv, KeyInv, NEW p \in Procs, NEW i \in Ids, i = prof[p].id,
         AddNewMessage(p)
  PROVE  KeyStep(p, i)
<1>1. /\ AtWork(p) /\ AtWork(p)' /\ path' = path /\ prof' = prof /\ path[p] \in Names
      /\ OldKey(p)' = OldKey(p)
      /\ at'[p] = "running" /\ WorkKeys(p)
      /\ i \notin Excused' => KeyAt(p, i)
  BY WorkerFacts
<1>2. /\ db' = [db EXCEPT ![path[p]] = [db[path[p]] EXCEPT !.of = @ \cup {i}]]
      /\ UNCHANGED <<tmp, conn, work, hexKey>> /\ at[p] = "running" /\ ~Busy(p) /\ Usable(p)
  BY DEF AddNewMessage, GuiFree
<1>3. Db(p) \in File
  BY <1>1, <1>2 DEF Usable, Db, Base, DbInv
<1>4. Db(p)' # Absent /\ Db(p)'.key = Db(p).key /\ Db(p)'.latest = Db(p).latest
  <2>1. [Db(p) EXCEPT !.of = @ \cup {i}] \in File
    BY <1>3 DEF File
  <2>2. Db(p)' = [Db(p) EXCEPT !.of = @ \cup {i}]
    BY <1>1, <1>2 DEF Db, Base, DbInv
  <2> QED BY <1>3, <2>1, <2>2, FileAssumption DEF File
<1>5. FilesInv'
  <2>1. \A m \in Names \ {path[p]} : db'[m] = db[m]
    BY <1>2 DEF Base, DbInv
  <2>2. Db(p)' = db'[path[p]]
    BY <1>1 DEF Db
  <2> QED BY <1>1, <1>2, <1>3, <1>4, <2>1, <2>2, FileAssumption DEF KeyInv, FilesInv, FileSound, Db
<1>6. WorkKeys(p)'
  BY <1>1, <1>2 DEF WorkKeys, Busy
<1>7. ASSUME i \notin Excused' PROVE KeyAt(p, i)'
  <2>1. Db(p).latest /\ Opens(Db(p), i, prof[p].password) /\ SameKind(p) /\ conn[p] = "usable"
    BY <1>1, <1>2, <1>7 DEF KeyAt, Settled, Usable
  <2>2. Usable(p)' /\ SameKind(p)'
    BY <1>1, <1>2, <1>4, <2>1 DEF Usable, SameKind, Db
  <2>3. Opens(Db(p)', i, prof[p].password)
    BY <1>4, <2>1 DEF Opens
  <2>4. Settled(p, i)'
    BY <1>1, <1>2, <1>4, <2>1, <2>2, <2>3 DEF Settled
  <2> QED BY <1>1, <1>2, <2>4 DEF KeyAt, Busy
<1> QED BY <1>1, <1>5, <1>6, <1>7 DEF KeyStep

LEMMA PasswordKeys ==
  ASSUME Base, Base', NamesInv, KeptInv, KeyInv, NEW p \in Procs, NEW i \in Ids, i = prof[p].id,
         ChangeDbPassword(p)
  PROVE  KeyStep(p, i)
<1> DEFINE key == DbKey(p)
           password == prof[p].password
<1>1. /\ AtWork(p) /\ AtWork(p)' /\ path' = path /\ prof' = prof /\ path[p] \in Names
      /\ DbKey(p)' = DbKey(p) /\ OldKey(p)' = OldKey(p) /\ key = Key(password, i)
      /\ at'[p] = "running" /\ WorkKeys(p)
      /\ i \notin Excused' => KeyAt(p, i) /\ DbThere(p) /\ harmed' \subseteq harmed /\ i \notin harmed'
  BY WorkerFacts
<1>3. ~Busy(p) /\ at[p] = "password"
  BY DEF ChangeDbPassword, Base, DbInv, DbOf
<1>4. key \in Keys /\ FileSound(Db(p)) /\ FilesInv /\ (Tmp(p) # Absent => Tmp(p).latest)
  BY <1>1, OwnKeys DEF KeyInv, FilesInv, Db, Tmp
<1>5. CASE IsOpen(p) /\ SetDbPassword(p, key)
  <2>1. Within(p, i)
    BY <1>1, <1>4, <1>5, RekeyWithin DEF Base
  <2>2. i \notin Excused' => Usable(p) /\ Db(p).latest /\ SameKind(p)
    <3>1. i \notin Excused' => Usable(p)
      BY <1>1 DEF ChangeDbPassword, HarmUnlessUsable, Harm
    <3> QED BY <1>1, <1>3, <3>1 DEF KeyAt
  <2>3. path' = path /\ hexKey' = hexKey
    BY <1>1, <1>4, <1>5, SetPasswordEffect DEF Base
  <2>4. CASE /\ hexKey[p] # NoKey /\ key # NoKey /\ Usable(p)
             /\ Db(p)' = [Db(p) EXCEPT !.key = key] /\ Tmp(p)' = Absent
             /\ UNCHANGED <<conn, work>>
    <3>1. Db(p) \in File
      BY <1>1, <2>4 DEF Usable, Db, Base, DbInv
    <3>2. Db(p)' # Absent /\ Db(p)'.key = key /\ Db(p)'.latest = Db(p).latest
      <4> HIDE DEF key
      <4> QED BY <1>4, <2>4, <3>1, RekeyedFile
    <3>3. FileSound(Db(p)')
      BY <2>4, <3>2 DEF FileSound
    <3>4. WorkKeys(p)'
      BY <1>1, <1>3, <2>4 DEF WorkKeys, Busy
    <3>5. ASSUME i \notin Excused' PROVE KeyAt(p, i)'
      <4>1. Usable(p)' /\ SameKind(p)' /\ conn'[p] = "usable"
        BY <1>1, <2>3, <2>4, <3>2 DEF Usable, SameKind, Db
      <4>2. Opens(Db(p)', i, password)
        BY <1>1, <3>2 DEF Opens
      <4>3. Settled(p, i)'
        BY <1>1, <2>2, <3>2, <3>5, <4>1, <4>2 DEF Settled
      <4> QED BY <1>1, <1>3, <2>4, <4>3 DEF KeyAt, Busy
    <3> QED BY <1>1, <1>4, <2>1, <2>4, <3>3, <3>4, <3>5, WorkerKeyStep
  <2>5. CASE /\ db' = db /\ Tmp(p)' = NewExport(key) /\ conn' = conn
             /\ work'[p] = [at |-> "exporting", key |-> key, upgrade |-> FALSE]
    <3>1. work'[p].at = "exporting" /\ work'[p].key = key /\ work'[p].upgrade = FALSE
      BY <2>5
    <3>2. NewExport(key).latest = TRUE /\ NewExport(key).key = key
      BY <1>4, NewExportType
    <3>3. WorkKeys(p)'
      BY <1>1, <3>1 DEF WorkKeys, Busy
    <3>4. KeyAt(p, i)'
      BY <1>1, <2>5, <3>1, <3>2 DEF KeyAt, Busy
    <3>5. FileSound(Db(p)') /\ Tmp(p)'.latest
      BY <1>1, <1>4, <2>5, <3>2 DEF Db
    <3> QED BY <1>1, <1>4, <2>1, <3>3, <3>4, <3>5, WorkerKeyStep
  <2>6. CASE /\ hexKey[p] = NoKey /\ key = NoKey
             /\ db' = db /\ Tmp(p)' = Absent /\ UNCHANGED <<conn, work>>
    <3>1. WorkKeys(p)'
      BY <1>1, <1>3, <2>6 DEF WorkKeys, Busy
    <3>2. Db(p)' = Db(p)
      BY <1>1, <2>6 DEF Db
    <3>3. ASSUME i \notin Excused' PROVE KeyAt(p, i)'
      <4>1. Usable(p)' /\ SameKind(p)' /\ conn'[p] = "usable" /\ Db(p) # Absent
        BY <1>1, <2>2, <2>3, <2>6, <3>2, <3>3 DEF Usable, SameKind, Db
      <4>2. Opens(Db(p), i, password)
        BY <1>1, <2>2, <2>6, <3>3 DEF Opens, SameKind
      <4>3. Settled(p, i)'
        BY <1>1, <2>2, <3>2, <3>3, <4>1, <4>2 DEF Settled
      <4> QED BY <1>1, <1>3, <2>6, <4>3 DEF KeyAt, Busy
    <3> QED BY <1>1, <1>4, <2>1, <2>6, <3>1, <3>2, <3>3, WorkerKeyStep
  <2>7. CASE /\ ~Usable(p)
             /\ db' = db /\ Tmp(p)' = Absent /\ conn'[p] = "closed" /\ work' = work
    <3>1. WorkKeys(p)'
      BY <1>1, <1>3, <2>7 DEF WorkKeys, Busy
    <3>2. Db(p)' = Db(p)
      BY <1>1, <2>7 DEF Db
    <3> QED BY <1>1, <1>4, <2>1, <2>2, <2>7, <3>1, <3>2, WorkerKeyStep
  <2> QED BY <1>1, <1>4, <1>5, <2>4, <2>5, <2>6, <2>7, SetPasswordEffect DEF Base
<1>6. CASE i \in harmed' /\ UNCHANGED dbVars
  <2>1. WorkKeys(p)'
    BY <1>1, <1>3, <1>6 DEF WorkKeys, Busy, dbVars
  <2> QED BY <1>1, <1>4, <1>6, <2>1 DEF KeyStep, FilesInv, FileSound, Excused, dbVars
<1>7. CASE i \in harmed' /\ FailRekey(p)
  <2>1. db' = db /\ Tmp(p)' = Absent /\ work'[p] = Idle
    BY <1>1, <1>7 DEF FailRekey, Stop, Base, DbInv, Tmp
  <2>2. WorkKeys(p)'
    BY <2>1, IdleAt DEF WorkKeys, Busy
  <2>3. FileSound(Db(p)')
    BY <1>1, <1>4, <2>1 DEF Db
  <2>4. Within(p, i)
    BY <1>1, <1>7, NoKeyType, RekeyWithin DEF Base
  <2> QED BY <1>1, <1>4, <1>7, <2>1, <2>2, <2>3, <2>4, WorkerKeyStep
<1> QED BY <1>5, <1>6, <1>7 DEF ChangeDbPassword, Harm

LEMMA WorkerKeys ==
  ASSUME Base, Base', NamesInv, KeptInv, KeyInv, NEW p \in Procs, NEW i \in Ids, i = prof[p].id,
         \/ OpenFirstTime(p) \/ DatabaseStep(p) \/ DatabaseFails(p) \/ AddNewMessage(p)
         \/ ChangeDbPassword(p)
  PROVE  KeyStep(p, i)
<1>1. CASE DatabaseStep(p)
  BY <1>1, OldSaltKeys, UpgradeKeys, ExportKeys, RenameExportKeys DEF DatabaseStep
<1> QED BY <1>1, OpenFirstKeys, FailKeys, MessageKeys, PasswordKeys
-----------------------------------------------------------------------------
(* The steps of the GUI thread *)

LEMMA SameKeys ==
  ASSUME Base, Base', NamesInv, KeyInv, NEW p \in Procs, NEW i \in Ids, i = prof[p].id,
         AtWork(p), AtWork(p)', UNCHANGED <<dbVars, prof>>, Step(p, i),
         at[p] # "password", at'[p] # "password"
  PROVE  KeyStep(p, i)
<1>1. Excused \subseteq Excused' /\ WorkKeys(p)
  BY DEF Step, IdStep, Excused, KeyInv
<1>2. UNCHANGED <<db, tmp, path, hexKey, conn, work, prof>>
  BY DEF dbVars
<1>3. FilesInv' /\ WorkKeys(p)'
  BY <1>1, <1>2 DEF KeyInv, FilesInv, FileSound, WorkKeys, Busy, DbKey, OldKey
<1>4. ASSUME i \notin Excused' PROVE KeyAt(p, i)'
  <2>1. KeyAt(p, i)
    BY <1>1, <1>4 DEF KeyInv, Runs
  <2>2. Settled(p, i)' <=> Settled(p, i)
    BY <1>2 DEF Settled, Usable, Db, SameKind, Opens, Has, OnDisk
  <2>3. /\ Busy(p)' <=> Busy(p)
        /\ Has(path[p], i)' <=> Has(path[p], i)
        /\ OnDisk(path[p])' = OnDisk(path[p]) /\ Db(p)' = Db(p) /\ Tmp(p)' = Tmp(p) /\ OldKey(p)' = OldKey(p)
        /\ CanUpgrade(path[p])' <=> CanUpgrade(path[p])
    BY <1>2 DEF Busy, Has, OnDisk, Db, Tmp, OldKey, CanUpgrade
  <2> QED BY <1>2, <2>1, <2>2, <2>3 DEF KeyAt, Opens
<1> QED BY <1>3, <1>4 DEF KeyStep

LEMMA SetPasswordKeys ==
  ASSUME Base, Base', NamesInv, KeyInv, NEW p \in Procs, NEW i \in Ids, i = prof[p].id,
         NEW password \in Passwords \cup {NoPassword}, SetPassword(p, password), Step(p, i)
  PROVE  KeyStep(p, i)
<1>1. /\ AtWork(p) /\ at[p] = "running" /\ ~Busy(p) /\ at'[p] = "password" /\ AtWork(p)'
      /\ UNCHANGED <<db, tmp, path, hexKey, conn, work>>
  BY DEF SetPassword, GuiFree, Goto, AtWork, AtLogin, dbVars, Base, IInv, TypeInv
<1>2. FilesInv' /\ WorkKeys(p)'
  BY <1>1 DEF KeyInv, FilesInv, FileSound, WorkKeys, Busy
<1>3. ASSUME i \notin Excused' PROVE KeyAt(p, i)'
  <2>1. i \notin Excused
    BY <1>3 DEF Step, IdStep, Excused
  <2>2. Settled(p, i)
    BY <1>1, <2>1 DEF KeyInv, Runs, KeyAt
  <2>3. Usable(p)' => Db(p)'.latest /\ SameKind(p)'
    BY <1>1, <2>2 DEF Settled, Usable, Db, SameKind
  <2> QED BY <1>1, <2>3 DEF KeyAt, Busy
<1> QED BY <1>1, <1>2, <1>3 DEF KeyStep

\* A database that follows its profile to a new name is opened with the key that was up to
\* date when it was opened before.
LEMMA RenameDatabaseKeys ==
  ASSUME Base, Base', NamesInv, KeyInv, NEW p \in Procs, NEW i \in Ids, i = prof[p].id, RenameDatabase(p)
  PROVE  KeyStep(p, i)
<1> USE DEF Base, IInv, TypeInv
<1> DEFINE m == newName[p]
           password == prof[p].password
<1>0. AtWork(p) /\ at[p] = "renamingDb"
  BY DEF RenameDatabase, AtWork, AtLogin
<1>1. /\ AtWork(p)' /\ at'[p] = "running" /\ shared' = shared /\ harmed' = harmed /\ strayed \subseteq strayed'
      /\ prof[p] \in ProfileObject
  BY <1>0 DEF RenameDatabase, Goto, AtWork, AtLogin, Stray
<1>2. prof'[p].password = password /\ prof'[p].renamed = TRUE
  BY <1>1 DEF RenameDatabase, ProfileObject
<1>3. ~Busy(p) /\ path[p] \in Names /\ m \in Names
  BY <1>0 DEF PlacesInv, Renaming, DbInv, DbOf
<1>4. WorkKeys(p)' /\ ~Busy(p)'
  <2>1. work' = work
    BY DEF RenameDatabase, RenameDb, dbVars
  <2> QED BY <1>3, <2>1 DEF WorkKeys, Busy
<1>5. ASSUME i \notin Excused'
      PROVE  path'[p] = m /\ Settled(p, i)
  <2>1. i \notin Excused /\ path'[p] = m
    BY <1>1, <1>5 DEF RenameDatabase, Stray, Excused
  <2> QED BY <1>0, <1>3, <2>1 DEF KeyInv, Runs, KeyAt
<1>6. CASE UNCHANGED dbVars
  <2>1. UNCHANGED <<db, tmp, path, hexKey, conn, work>>
    BY <1>6 DEF dbVars
  <2>2. FilesInv'
    BY <2>1 DEF KeyInv, FilesInv, FileSound
  <2>3. i \notin Excused' => Settled(p, i)'
    BY <1>2, <1>5, <2>1 DEF Settled, Usable, Db, SameKind, Opens, Has, OnDisk
  <2> QED BY <1>1, <1>4, <2>2, <2>3 DEF KeyStep, KeyAt, Busy
<1>7. CASE /\ IsOpen(p) /\ path[p] # m /\ db[path[p]] # Absent
           /\ db' = [db EXCEPT ![m] = db[path[p]], ![path[p]] = Absent]
           /\ path'[p] = m /\ UNCHANGED <<tmp, hexKey>>
           /\ conn'[p] = IF hexKey[p] = db[path[p]].key THEN "usable"
                         ELSE IF hexKey[p] = NoKey THEN "open" ELSE "closed"
  <2>1. /\ db'[m] = db[path[p]] /\ Db(p)' = Db(p) /\ Db(p) # Absent
        /\ \A n \in Names \ {m} : db'[n] = db[n] \/ db'[n] = Absent
    BY <1>3, <1>7 DEF DbInv, Db
  <2>2. FilesInv'
    BY <1>3, <1>7, <2>1 DEF KeyInv, FilesInv, FileSound
  <2>3. ASSUME i \notin Excused' PROVE Settled(p, i)'
    <3>1. Settled(p, i)
      BY <1>5, <2>3
    <3>2. Usable(p)' <=> hexKey[p] = Db(p).key
      BY <1>7, <2>1 DEF Usable, Db
    <3>3. hexKey[p] = Db(p).key => Usable(p)
      BY <1>7, <2>1, <3>1 DEF Settled, Usable, Db, IsOpen, DbInv
    <3>4. Has(path[p], i)' => Has(path[p], i)
      BY <1>3, <1>7, <2>1 DEF Has, OnDisk, Holds, Db
    <3>5. SameKind(p)' <=> SameKind(p)
      BY <1>7, <2>1 DEF SameKind
    <3> QED BY <1>2, <1>7, <2>1, <3>1, <3>2, <3>3, <3>4, <3>5 DEF Settled, Opens, Db
  <2> QED BY <1>1, <1>4, <2>2, <2>3 DEF KeyStep, KeyAt, Busy
<1>8. CASE path[p] # m /\ UNCHANGED <<db, tmp, path>>
  <2>1. FilesInv'
    BY <1>8 DEF KeyInv, FilesInv, FileSound
  <2> QED BY <1>1, <1>4, <1>5, <1>8, <2>1 DEF KeyStep
<1> QED BY <1>6, <1>7, <1>8 DEF RenameDatabase, RenameDb, Fits, DbInv

\* What a process leaves behind can be opened with the password of the tox file.
LEMMA GoneKeys ==
  ASSUME Base, Base', NamesInv, NamesInv', KeptInv, KeyInv, NEW p \in Procs, NEW i \in Ids, i = prof[p].id,
         \/ AssertLock(p) /\ Goto(p, "aborted")
         \/ RemoveDatabase(p) \/ Logout(p) \/ Crash(p)
  PROVE  KeyStep(p, i)
<1> USE DEF Base, IInv, TypeInv
<1>0. AtWork(p) /\ ~AtWork(p)' /\ Step(p, i)
  <2>1. AssertLock(p) /\ Goto(p, "aborted") => AtWork(p) /\ ~AtWork(p)'
    BY DEF AssertLock, Goto, AtWork, AtLogin
  <2>2. AtWork(p) /\ ~AtWork(p)'
    BY <2>1 DEF RemoveDatabase, Logout, GuiFree, Crash, Goto, AtWork, AtLogin
  <2> QED BY <2>2, GoneNames
<1>1. path[p] \in Names /\ FilesInv
  BY <1>0 DEF DbInv, DbOf, KeyInv
<1>2. /\ tmp' = tmp
      /\ \/ db' = db
         \/ RemoveDatabase(p) /\ db' = [db EXCEPT ![path[p]] = Absent]
  <2>1. CASE AssertLock(p) /\ Goto(p, "aborted")
    <3>1. ~Goto(p, "running")
      BY <2>1 DEF Goto
    <3> QED BY <2>1, <3>1 DEF AssertLock
  <2> QED BY <2>1 DEF RemoveDatabase, RemoveDb, Logout, Crash
<1>3. FilesInv'
  BY <1>1, <1>2 DEF FilesInv, FileSound, DbInv
<1> SUFFICES ASSUME i \notin Excused', NEW n \in Names, HasId(n, i)', Has(n, i)'
             PROVE  Opens(OnDisk(n), i, tox[n].password)' /\ CanUpgrade(n)'
  BY <1>0, <1>3 DEF KeyStep, KeyIdle
<1>4. i \notin Excused /\ i \notin harmed' /\ i \notin strayed' /\ i \notin shared /\ i \notin Odd
  BY <1>0 DEF Step, IdStep, Excused, Odd
<1>5. /\ KeyAt(p, i) /\ DbThere(p) /\ OwnNames(p) /\ path[p] = prof[p].name
      /\ WorkKeys(p)
      /\ \A k \in Names : HasId(k, i) => k = ToxName(p) /\ at[p] # "removingDb"
  <2>1. KeyAt(p, i) /\ DbThere(p) /\ WorkKeys(p)
    BY <1>0, <1>4 DEF KeyInv, Runs, KeptInv, KeptAtWork
  <2>2. OwnNames(p) /\ i \notin strayed
    BY <1>0, <1>4, OwnFacts DEF Odd
  <2> QED BY <1>0, <1>4, <2>1, <2>2 DEF OwnNames
<1>6. ~RemoveDatabase(p)
  BY <1>5 DEF RemoveDatabase, HasId
<1>7. /\ at[p] \notin {"password", "renamingDb", "removing", "removingDb"}
      /\ work[p].at \notin {"exporting", "swapping"}
  <2>1. CASE Crash(p)
    <3>1. ~CutShort(p) /\ at[p] # "renamingDb"
      BY <1>4, <2>1 DEF Crash, Harm, Stray
    <3> QED BY <3>1 DEF CutShort
  <2>2. CASE at[p] = "relocking" \/ GuiFree(p)
    BY <2>2 DEF GuiFree, Busy, DbInv, DbOf
  <2> QED BY <1>6, <2>1, <2>2 DEF AssertLock, Logout
<1>8. n = path[p] /\ tox'[n].password = prof[p].password
  <2>1. tox[path[p]] = OwnToxFile(p) /\ \A k \in Names : HasId(k, i) => k = path[p]
    BY <1>0, <1>4, <1>5, <1>7 DEF OwnNames, ToxName
  <2>2. CASE tox' = tox
    BY <2>1, <2>2 DEF HasId, OwnToxFile
  <2>3. CASE Logout(p)
    <3>1. prof[p].password \in Passwords \cup {NoPassword}
      BY <1>0, OwnFacts DEF ProfileObject
    <3>2. /\ tox'[path[p]] = [id |-> i, password |-> prof[p].password]
          /\ \A k \in Names \ {path[p]} : tox'[k] = tox[k]
      <4>1. Saved(p, prof[p].password)
        BY <2>3 DEF Logout
      <4> QED BY <1>0, <1>5, <3>1, <4>1, SavedTox
    <3> QED BY <2>1, <3>2 DEF HasId
  <2> QED BY <1>6, <2>2, <2>3 DEF AssertLock, Crash
<1>9. /\ Has(path[p], i)
      /\ Opens(OnDisk(n), i, tox[n].password)' <=> Opens(OnDisk(path[p]), i, prof[p].password)
      /\ CanUpgrade(n)' <=> CanUpgrade(path[p])
  BY <1>2, <1>6, <1>8 DEF Has, OnDisk, Opens, CanUpgrade
<1>10. CASE ~Busy(p)
  BY <1>5, <1>7, <1>9, <1>10 DEF KeyAt, Settled, Db, OnDisk, CanUpgrade
<1>11. CASE work[p].at = "opening"
  BY <1>5, <1>9, <1>11 DEF KeyAt
<1>12. CASE work[p].at = "fallback"
  <2>1. Db(p).key = OldKey(p) /\ CanUpgrade(path[p]) /\ Db(p) # Absent
    BY <1>5, <1>9, <1>12 DEF KeyAt, DbThere, Db
  <2> QED BY <1>9, <2>1 DEF OnDisk, Db, Opens, OldKey
<1>13. CASE work[p].at = "swapped"
  <2>1. db[path[p]] = Absent /\ Tmp(p).key \in {DbKey(p), OldKey(p)}
    BY <1>5, <1>13 DEF KeyAt, DbThere, WorkKeys, Busy
  <2> QED BY <1>9, <2>1 DEF OnDisk, Tmp, Opens, OldKey, DbKey, CanUpgrade
<1>14. CASE work[p].at = "rekeying"
  <2>1. Db(p).key = OldKey(p) /\ Db(p).latest /\ Db(p) # Absent
    BY <1>5, <1>14 DEF KeyAt, DbThere, Db
  <2> QED BY <1>9, <2>1 DEF OnDisk, Db, Opens, OldKey, CanUpgrade
<1> QED BY <1>7, <1>10, <1>11, <1>12, <1>13, <1>14 DEF Busy, DbInv, WorkType, WorkPlaces

LEMMA OwnKeysStep ==
  ASSUME Base, Base', NamesInv, NamesInv', KeptInv, KeyInv, NEW p \in Procs, NEW i \in Ids, i = prof[p].id, OwnStep(p)
  PROVE  KeyStep(p, i)
<1>1. Step(p, i) /\ AtWork(p)
  BY OwnNamesStep
<1>2. CASE \/ LockFileLost(p) \/ Remove(p) \/ SaveToxSave(p)
           \/ \E n \in Names : Rename(p, n)
           \/ RenameTox(p) \/ RemoveTox(p)
           \/ AssertLock(p) /\ Goto(p, "running")
  <2>1. /\ UNCHANGED <<dbVars, prof>> /\ AtWork(p)'
        /\ at[p] # "password" /\ at'[p] # "password"
    <3>1. CASE AssertLock(p) /\ Goto(p, "running")
      <4>1. ~Goto(p, "aborted") /\ at'[p] = "running"
        BY <3>1 DEF Goto, Base, IInv, TypeInv
      <4> QED BY <3>1, <4>1 DEF AssertLock, AtWork, AtLogin
    <3>2. CASE \/ LockFileLost(p) \/ Remove(p) \/ SaveToxSave(p)
               \/ \E n \in Names : Rename(p, n)
               \/ RenameTox(p) \/ RemoveTox(p)
      BY <3>2 DEF LockFileLost, Remove, SaveToxSave, Rename, RenameTox, RemoveTox, GuiFree, Goto,
                  AtWork, AtLogin, Base, IInv, TypeInv
    <3> QED BY <1>2, <3>1, <3>2
  <2> QED BY <1>1, <2>1, SameKeys
<1>3. CASE \E password \in Passwords \cup {NoPassword} : SetPassword(p, password)
  BY <1>1, <1>3, SetPasswordKeys
<1>4. CASE \/ OpenFirstTime(p) \/ DatabaseStep(p) \/ DatabaseFails(p) \/ AddNewMessage(p)
           \/ ChangeDbPassword(p)
  BY <1>4, WorkerKeys
<1>5. CASE \/ AssertLock(p) /\ Goto(p, "aborted")
           \/ RemoveDatabase(p) \/ Logout(p) \/ Crash(p)
  BY <1>5, GoneKeys
<1> QED BY <1>2, <1>3, <1>4, <1>5, RenameDatabaseKeys DEF OwnStep

LEMMA TakingKeys ==
  ASSUME Base, Base', NamesInv, NamesInv', KeyInv, NEW p \in Procs, NEW n \in Names, NEW i \in Ids,
         NEW password \in Passwords \cup {NoPassword}, TakingOf(p, n, i, password)
  PROVE  KeyStep(p, i)
<1> DEFINE key == Key(password, i)
<1>1. /\ Step(p, i) /\ AtWork(p)' /\ at'[p] = "running"
      /\ prof'[p] = NewProfile(n, i, password)
      /\ OpenDatabase(p, n, key)
  BY TakingStep DEF TakingOf
<1>2. /\ path'[p] = n /\ db' = db /\ tmp' = tmp /\ hexKey'[p] = key /\ conn'[p] = "closed"
      /\ work'[p] = [at |-> "opening", key |-> key, upgrade |-> FALSE]
  BY <1>1 DEF OpenDatabase, Base, DbInv
<1>3. work'[p].at = "opening" /\ work'[p].key = key /\ work'[p].upgrade = FALSE
  BY <1>2
<1>4. prof'[p].password = password /\ DbKey(p)' = key
  BY <1>1 DEF NewProfile, DbKey
<1>5. FilesInv' /\ WorkKeys(p)'
  BY <1>2, <1>3, <1>4 DEF KeyInv, FilesInv, FileSound, WorkKeys
<1>6. ASSUME i \notin Excused', Has(n, i)
      PROVE  Opens(OnDisk(n), i, password) /\ CanUpgrade(n)
  <2>1. i \notin Excused /\ i \notin shared'
    BY <1>1, <1>6 DEF Step, IdStep, Excused
  <2>2. ~CreateProfile(p, n, i, password)
    BY <1>6 DEF CreateProfile, NamesInv, UnusedInv, UnusedOf, Has, OnDisk
  <2>3. tox[n] = [id |-> i, password |-> password]
    BY <2>2 DEF TakingOf
  <2>4. [id |-> i, password |-> password] # Absent
    BY ProfileAssumption DEF ToxFile
  <2>5. HasId(n, i) /\ tox[n].password = password
    BY <2>3, <2>4 DEF HasId
  <2>6. ~RunBySomeone(i)
    BY <2>1, TakingAlone DEF TakingOf
  <2> QED BY <1>6, <2>1, <2>5, <2>6 DEF KeyInv, KeyIdle
<1>7. ASSUME i \notin Excused' PROVE KeyAt(p, i)'
  <2>1. /\ Has(path[p], i)' <=> Has(n, i)
        /\ OnDisk(path[p])' = OnDisk(n)
        /\ CanUpgrade(path[p])' <=> CanUpgrade(n)
    BY <1>2 DEF Has, OnDisk, CanUpgrade
  <2> QED BY <1>1, <1>3, <1>4, <1>6, <1>7, <2>1 DEF KeyAt, Busy, Opens
<1> QED BY <1>1, <1>5, <1>7 DEF KeyStep

LEMMA NextKeys ==
  ASSUME Base, Base', NamesInv, NamesInv', KeptInv, KeyInv, [Next]_vars
  PROVE  KeyInv'
<1>1. ASSUME NEW p \in Procs, OwnStep(p) PROVE KeyInv'
  <2>1. PICK i \in Ids : i = prof[p].id /\ Step(p, i)
    BY <1>1, OwnNamesStep
  <2>2. KeyStep(p, i)
    BY <1>1, <2>1, OwnKeysStep
  <2> QED BY <2>1, <2>2, KeyStepInv
<1>2. ASSUME NEW p \in Procs, NEW n \in Names, NEW i \in Ids, NEW password \in Passwords \cup {NoPassword},
             TakingOf(p, n, i, password)
      PROVE  KeyInv'
  <2>1. Step(p, i)
    BY <1>2, TakingStep DEF TakingOf
  <2> QED BY <1>2, <2>1, TakingKeys, KeyStepInv
<1>3. CASE Unseen
  <2>1. UNCHANGED <<db, tmp, path, hexKey, conn, work, tox, prof, strayed, shared, harmed>>
    BY <1>3 DEF Unseen, dbVars
  <2>2. \A q \in Procs, i \in Ids : Runs(q, i)' <=> Runs(q, i)
    BY <1>3, <2>1, UnseenSame DEF Runs
  <2>3. FilesInv'
    BY <2>1 DEF KeyInv, FilesInv, FileSound
  <2>4. ASSUME NEW q \in Procs, AtWork(q)' PROVE WorkKeys(q)'
    BY <1>3, <2>1, <2>4, UnseenSame DEF KeyInv, WorkKeys, Busy, DbKey, OldKey
  <2>5. ASSUME NEW q \in Procs, NEW i \in Ids, Runs(q, i), KeyAt(q, i)
        PROVE  KeyAt(q, i)'
    <3>1. at'[q] = at[q]
      BY <1>3, <2>5, UnseenSame DEF Runs
    <3>2. Settled(q, i)' <=> Settled(q, i)
      BY <2>1 DEF Settled, Usable, Db, SameKind, Opens, Has, OnDisk
    <3>3. /\ Busy(q)' <=> Busy(q)
          /\ Has(path[q], i)' <=> Has(path[q], i)
          /\ OnDisk(path[q])' = OnDisk(path[q]) /\ Db(q)' = Db(q) /\ Tmp(q)' = Tmp(q) /\ OldKey(q)' = OldKey(q)
          /\ CanUpgrade(path[q])' <=> CanUpgrade(path[q])
          /\ Usable(q)' <=> Usable(q)
          /\ SameKind(q)' <=> SameKind(q)
      BY <2>1 DEF Busy, Has, OnDisk, Db, Tmp, OldKey, CanUpgrade, Usable, SameKind
    <3> QED BY <2>1, <2>5, <3>1, <3>2, <3>3 DEF KeyAt, Opens
  <2>6. \A i \in Ids : KeyIdle(i)' <=> KeyIdle(i)
    BY <2>1 DEF KeyIdle, HasId, Has, OnDisk, Opens, CanUpgrade
  <2> QED BY <2>1, <2>2, <2>3, <2>4, <2>5, <2>6 DEF KeyInv, Excused, RunBySomeone
<1> QED BY <1>1, <1>2, <1>3, Steps

LEMMA InitKeys == Init => KeyInv
<1> SUFFICES ASSUME Init PROVE KeyInv
  OBVIOUS
<1>1. (\A p \in Procs : ~AtWork(p)) /\ (\A m \in Names : tmp[m] = Absent)
  BY DEF Init, AtWork, AtLogin, DbInit
<1>2. CASE NoProfiles
  BY <1>1, <1>2 DEF NoProfiles, KeyInv, FilesInv, FileSound, Runs, KeyIdle, HasId
<1>3. ASSUME NEW n \in Names, NEW i \in Ids, NEW q \in Passwords, NEW s \in {i, StaticSalt}, OldProfile(n, i, q, s)
      PROVE  KeyInv
  <2> DEFINE file == OldFile(i, q, s, FALSE)
  <2>1. Key(q, s) # NoKey /\ file.key = Key(q, s)
    BY KeyKinds, DatabaseAssumption DEF OldFile, NewFile
  <2>2. \A m \in Names : db[m] \in {file, Absent}
    BY <1>3 DEF OldProfile
  <2>3. [id |-> i, password |-> q] # Absent
    BY ProfileAssumption DEF ToxFile
  <2>4. FilesInv
    <3> HIDE DEF file
    <3> QED BY <1>1, <2>1, <2>2 DEF FilesInv, FileSound
  <2>5. ASSUME NEW j \in Ids, NEW m \in Names, HasId(m, j), Has(m, j)
        PROVE  Opens(OnDisk(m), j, tox[m].password) /\ CanUpgrade(m)
    <3>1. j = i /\ tox[m].password = q
      BY <1>3, <2>3, <2>5 DEF OldProfile, HasId
    <3>2. OnDisk(m) = file
      BY <1>1, <2>2, <2>5 DEF Has, Holds, OnDisk
    <3> QED BY <1>1, <2>1, <3>1, <3>2 DEF Opens, CanUpgrade
  <2> QED BY <1>1, <2>4, <2>5 DEF KeyInv, Runs, KeyIdle
<1> QED BY <1>2, <1>3 DEF Init

LEMMA KeysHold == Spec => [](Base /\ NamesInv /\ KeptInv /\ KeyInv)
<1>1. Init => KeyInv
  BY InitKeys
<1>2. Base /\ Base' /\ NamesInv /\ NamesInv' /\ KeptInv /\ KeyInv /\ [Next]_vars => KeyInv'
  BY NextKeys
<1> QED BY <1>1, <1>2, KeptHolds, PTL DEF Spec

\* The password that opens a profile opens its history, when no change of it is under way.
THEOREM HistoryFoundAgainHolds == Spec => []HistoryFoundAgain
<1>1. Base /\ NamesInv /\ KeptInv /\ KeyInv => HistoryFoundAgain
  <2> SUFFICES ASSUME Base, NamesInv, KeptInv, KeyInv, NEW n \in Names, tox[n] # Absent,
                      NEW i \in Ids, i = tox[n].id, life[i] = "started", i \notin Excused, Quiet(i)
               PROVE  Has(n, i) /\ Opens(OnDisk(n), i, tox[n].password)
    <3>1. Base => tox \in [Names -> ToxFile \cup {Absent}]
      BY DEF Base, IInv, TypeInv
    <3>2. Base => \A m \in Names : tox[m] # Absent => tox[m].id \in Ids
      BY <3>1 DEF ToxFile
    <3> QED BY <3>2 DEF HistoryFoundAgain, Has, Holds, Opens
  <2>1. HasId(n, i) /\ i \notin Odd /\ i \notin shared /\ i \notin strayed
    BY DEF HasId, Odd, Excused
  <2>2. CASE ~RunBySomeone(i)
    BY <2>1, <2>2 DEF KeptInv, KeptIdle, KeyInv, KeyIdle
  <2>3. ASSUME NEW p \in Procs, Runs(p, i)
        PROVE  Has(n, i) /\ Opens(OnDisk(n), i, tox[n].password)
    <3>1. AtWork(p) /\ prof[p].id = i /\ at[p] = "running" /\ ~Busy(p)
      BY <2>3 DEF Runs, Quiet, GuiFree
    <3>2. OwnNames(p) /\ KeyAt(p, i) /\ Has(path[p], i)
      BY <2>1, <2>3, <3>1, OwnFacts DEF KeyInv, KeptInv, KeptAtWork
    <3>3. n = path[p] /\ tox[n] = OwnToxFile(p)
      BY <2>1, <3>1, <3>2 DEF OwnNames, ToxName
    <3>4. tox[n].password = prof[p].password
      BY <3>3 DEF OwnToxFile
    <3>5. Db(p) # Absent /\ Opens(Db(p), i, prof[p].password)
      BY <3>1, <3>2 DEF KeyAt, Settled
    <3> QED BY <3>2, <3>3, <3>4, <3>5 DEF OnDisk, Db
  <2> QED BY <2>2, <2>3 DEF RunBySomeone
<1> QED BY <1>1, KeysHold, PTL

\* A profile that is running has its history, unless it was renamed with a key that was not
\* up to date.
THEOREM HistoryOpensHolds == Spec => []HistoryOpens
<1>1. Base /\ NamesInv /\ KeptInv /\ KeyInv => HistoryOpens
  <2> SUFFICES ASSUME Base, NamesInv, KeptInv, KeyInv, NEW p \in Procs, GuiFree(p),
                      life[prof[p].id] = "started", prof[p].id \notin Excused
               PROVE  Usable(p) \/ (prof[p].renamed /\ Db(p) # Absent /\ Db(p).key # hexKey[p])
    BY DEF HistoryOpens, Db
  <2>1. AtWork(p) /\ at[p] = "running" /\ ~Busy(p)
    BY DEF GuiFree, AtWork, AtLogin
  <2>2. PICK i \in Ids : i = prof[p].id
    BY <2>1, OwnKeys
  <2>3. KeyAt(p, i) /\ Has(path[p], i)
    BY <2>1, <2>2 DEF KeyInv, Runs, KeptInv, KeptAtWork, Odd, Excused
  <2> QED BY <2>1, <2>3 DEF KeyAt, Settled
<1> QED BY <1>1, KeysHold, PTL
=============================================================================
