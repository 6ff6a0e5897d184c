--------------------------- MODULE CacheFileProofs ---------------------------
(***************************************************************************)
(* As long as at most one goroutine saves the table at a time, the file    *)
(* protocol of cache.go implements the atomic cache of module CacheStore,  *)
(* whichever step the process dies in or the file system fails at.  (Two   *)
(* savers at once do not: run CacheFile_concurrent.)                       *)
(***************************************************************************)
EXTENDS CacheFile, FiniteSetTheorems, TLAPS

OneSaver == \E s : Savers = {s}

\* A saver writes the file behind the temporary name, which is never the
\* cache file, and what it renames is the whole text of the table as it
\* still is.
Atomic ==
  /\ file # NoFile => file # tmpfile
  /\ \A s \in Savers :
       /\ saver[s].pc # "idle" =>
            /\ CacheConfig.CacheFilePath # ""
            /\ saver[s].text.routes = routes
       /\ saver[s].pc = "write" => saver[s].fd = tmpfile /\ content[tmpfile] = Empty
       /\ saver[s].pc = "rename" => tmpfile # NoFile /\ content[tmpfile] = saver[s].text

IInv == TypeOK /\ SavedOnDisk /\ Atomic

-----------------------------------------------------------------------------
\* One saver can always create its file.
LEMMA FreeInode ==
  ASSUME OneSaver, TypeOK, NEW s \in Savers, saver[s].pc = "open", tmpfile = NoFile
  PROVE  (CHOOSE i \in Inodes : i \notin InUse) \in Inodes \ InUse
<1>1. Savers = {s}
  BY DEF OneSaver
<1>2. Inodes = 1..3
  <2>1. Cardinality(Savers) = 1
    BY <1>1, FS_Singleton, Zenon
  <2> QED
    BY <2>1 DEF Inodes
<1>3. InUse = {file, NoFile}
  BY <1>1 DEF TypeOK, InUse
<1>4. \E i \in Inodes : i \notin InUse
  BY <1>2, <1>3 DEF NoFile
<1> QED
  BY <1>4

\* What LoadLocked would find depends on the cache file only.
LEMMA OnDiskKept ==
  ASSUME file' = file, file # NoFile => content'[file] = content[file]
  PROVE  OnDisk' = OnDisk
BY DEF OnDisk

\* mwgp starts with a cache file that was saved, or with none.
LEMMA InitIInv == OneSaver /\ Init => IInv
<1> SUFFICES ASSUME Init PROVE IInv
  OBVIOUS
<1>1. TypeOK
  BY CacheAssumption DEF Init, TypeOK, IdleSaver, Empty, Content, NoFile
<1>2. SavedOnDisk
  BY CacheAssumption DEF Init, SavedOnDisk, OnDisk
<1>3. Atomic
  BY DEF Init, Atomic, IdleSaver
<1> QED
  BY <1>1, <1>2, <1>3 DEF IInv

\* A change of the table is on disk only later, and touches no file.
LEMMA ChangeTableStep == ASSUME IInv, ChangeTable PROVE IInv'
<1>1. TypeOK'
  BY CacheAssumption DEF IInv, ChangeTable, TypeOK
<1>2. SavedOnDisk'
  BY DEF IInv, ChangeTable, SavedOnDisk, OnDisk, CacheConfig
<1>3. Atomic'
  BY DEF IInv, ChangeTable, Atomic, CacheConfig
<1> QED
  BY <1>1, <1>2, <1>3 DEF IInv

\* Roaming of a peer touches no file.
LEMMA RoamStep == ASSUME IInv, Roam PROVE IInv'
<1>1. TypeOK'
  BY DEF IInv, Roam, TypeOK
<1>2. SavedOnDisk' /\ Atomic'
  BY DEF IInv, Roam, SavedOnDisk, OnDisk, CacheConfig, Atomic
<1> QED
  BY <1>1, <1>2 DEF IInv

\* SaveToFile takes the table of that moment.
LEMMA BeginSaveStep == ASSUME OneSaver, IInv, NEW s \in Savers, BeginSave(s) PROVE IInv'
<1>1. Savers = {s} /\ saver[s].pc = "idle"
  BY DEF OneSaver, BeginSave
<1>2. UNCHANGED <<options, faulty, routes, size, content, file, tmpfile>> /\ OnDisk' = OnDisk
  BY DEF BeginSave, OnDisk
<1>3. pending' \in 0..MaxPending
  <2>1. pending \in 0..MaxPending /\ MaxPending \in Nat /\ pending > 0 /\ pending' = pending - 1
    BY CacheAssumption DEF BeginSave, IInv, TypeOK
  <2> QED
    BY <2>1
<1>4. CASE CacheConfig.CacheFilePath = ""
  <2>1. saved' = routes /\ UNCHANGED saver
    BY <1>4 DEF BeginSave
  <2>2. TypeOK'
    BY <1>2, <1>3, <2>1 DEF IInv, TypeOK
  <2>3. SavedOnDisk' /\ Atomic'
    BY <1>2, <1>4, <2>1 DEF IInv, SavedOnDisk, Atomic, CacheConfig
  <2> QED
    BY <2>2, <2>3 DEF IInv
<1>5. CASE CacheConfig.CacheFilePath # ""
  <2> DEFINE text == [routes |-> routes, size |-> size, valid |-> TRUE]
  <2>1. saver' = [saver EXCEPT ![s] = [pc |-> "open", fd |-> NoFile, text |-> text]] /\ UNCHANGED saved
    BY <1>5 DEF BeginSave
  <2>2. text \in Content
    BY DEF IInv, TypeOK, Content
  <2>3. TypeOK'
    BY <1>2, <1>3, <2>1, <2>2 DEF IInv, TypeOK
  <2>4. SavedOnDisk'
    BY <1>2, <2>1 DEF IInv, SavedOnDisk, CacheConfig
  <2>5. saver'[s] = [pc |-> "open", fd |-> NoFile, text |-> text]
    BY <2>1 DEF IInv, TypeOK
  <2>6. Atomic'
    <3>1. file # NoFile => file # tmpfile
      BY DEF IInv, Atomic
    <3>2. CacheConfig' = CacheConfig
      BY <1>2 DEF CacheConfig
    <3>3. saver'[s].pc = "open" /\ saver'[s].text.routes = routes
      BY <2>5
    <3> QED
      BY <1>1, <1>2, <1>5, <3>1, <3>2, <3>3 DEF Atomic
  <2> QED
    BY <2>3, <2>4, <2>6 DEF IInv
<1> QED
  BY <1>4, <1>5

\* The temporary file is empty, and is not the cache file.
LEMMA OpenTmpfileStep == ASSUME OneSaver, IInv, NEW s \in Savers, OpenTmpfile(s) PROVE IInv'
<1>1. Savers = {s} /\ saver[s].pc = "open" /\ saver[s].fd = NoFile
  BY DEF OneSaver, OpenTmpfile, IInv, TypeOK
<1>2. tmpfile' \in Inodes /\ tmpfile' # NoFile /\ tmpfile' # file
  <2>1. CASE tmpfile # NoFile
    BY <2>1 DEF OpenTmpfile, IInv, TypeOK, Atomic
  <2>2. CASE tmpfile = NoFile
    <3>1. tmpfile' \in Inodes \ InUse
      BY <1>1, <2>2, FreeInode DEF OpenTmpfile, IInv
    <3> QED
      BY <3>1 DEF InUse, NoFile, Inodes
  <2> QED
    BY <2>1, <2>2
<1>3. /\ content' = [content EXCEPT ![tmpfile'] = Empty]
      /\ saver' = [saver EXCEPT ![s] = [pc |-> "write", text |-> saver[s].text, fd |-> tmpfile']]
      /\ UNCHANGED <<options, faulty, routes, size, pending, file, saved>>
  BY DEF OpenTmpfile
<1>4. /\ saver'[s] = [pc |-> "write", text |-> saver[s].text, fd |-> tmpfile']
      /\ content'[tmpfile'] = Empty /\ \A i \in Inodes \ {tmpfile'} : content'[i] = content[i]
  BY <1>2, <1>3 DEF IInv, TypeOK
<1>5. TypeOK'
  <2>1. Empty \in Content
    BY CacheAssumption DEF Empty, Content
  <2> QED
    BY <1>1, <1>2, <1>3, <2>1 DEF IInv, TypeOK
<1>6. SavedOnDisk'
  <2>1. OnDisk' = OnDisk
    BY <1>2, <1>3, <1>4, OnDiskKept DEF IInv, TypeOK
  <2> QED
    BY <1>3, <2>1 DEF IInv, SavedOnDisk, CacheConfig
<1>7. Atomic'
  <2>1. CacheConfig.CacheFilePath # "" /\ saver[s].text.routes = routes
    BY <1>1 DEF IInv, Atomic
  <2>2. CacheConfig' = CacheConfig
    BY <1>3 DEF CacheConfig
  <2>3. saver'[s].pc = "write" /\ saver'[s].text = saver[s].text /\ saver'[s].fd = tmpfile'
    BY <1>4
  <2> QED
    BY <1>1, <1>2, <1>3, <1>4, <2>1, <2>2, <2>3 DEF Atomic
<1> QED
  BY <1>5, <1>6, <1>7 DEF IInv

\* A part of the table is written, to the temporary file only.
LEMMA WriteTmpfileStep == ASSUME OneSaver, IInv, NEW s \in Savers, WriteTmpfile(s) PROVE IInv'
<1>1. /\ Savers = {s} /\ saver[s].pc = "write" /\ saver[s].fd = tmpfile /\ tmpfile \in Inodes
      /\ tmpfile # NoFile /\ tmpfile # file
  BY DEF OneSaver, WriteTmpfile, IInv, TypeOK, Atomic
<1>2. Overwrite(content[tmpfile], saver[s].text) = saver[s].text
  <2>1. content[tmpfile].size = 0
    <3>1. content[tmpfile] = Empty
      BY <1>1 DEF IInv, Atomic
    <3>2. Empty.size = 0
      BY DEF Empty
    <3> QED
      BY <3>1, <3>2
  <2>2. PICK n \in {0} \cup Sizes : n = saver[s].text.size
    BY Zenon, <1>1 DEF IInv, TypeOK, Content
  <2>3. n >= 0
    BY CacheAssumption
  <2> QED
    BY <2>1, <2>2, <2>3 DEF Overwrite
<1>3. /\ content' = [content EXCEPT ![tmpfile] = saver[s].text]
      /\ saver' = [saver EXCEPT ![s] = [pc |-> "rename", text |-> saver[s].text, fd |-> NoFile]]
      /\ UNCHANGED <<options, faulty, routes, size, pending, file, tmpfile, saved>>
  BY <1>1, <1>2 DEF WriteTmpfile
<1>4. /\ saver'[s] = [pc |-> "rename", text |-> saver[s].text, fd |-> NoFile]
      /\ content'[tmpfile] = saver[s].text /\ \A i \in Inodes \ {tmpfile} : content'[i] = content[i]
  BY <1>1, <1>3 DEF IInv, TypeOK
<1>5. TypeOK'
  BY <1>1, <1>3 DEF IInv, TypeOK
<1>6. SavedOnDisk'
  <2>1. OnDisk' = OnDisk
    BY <1>1, <1>3, <1>4, OnDiskKept DEF IInv, TypeOK
  <2> QED
    BY <1>3, <2>1 DEF IInv, SavedOnDisk, CacheConfig
<1>7. Atomic'
  <2>1. CacheConfig.CacheFilePath # "" /\ saver[s].text.routes = routes
    BY <1>1 DEF IInv, Atomic
  <2>2. CacheConfig' = CacheConfig
    BY <1>3 DEF CacheConfig
  <2>3. saver'[s].pc = "rename" /\ saver'[s].text = saver[s].text /\ content'[tmpfile] = saver[s].text
    BY <1>4
  <2> QED
    BY <1>1, <1>3, <2>1, <2>2, <2>3 DEF Atomic
<1> QED
  BY <1>5, <1>6, <1>7 DEF IInv

\* A failed save leaves the cache file as it was.
LEMMA FailTmpfileStep == ASSUME OneSaver, IInv, NEW s \in Savers, FailTmpfile(s) PROVE IInv'
<1>1. /\ Savers = {s} /\ saver[s].pc \in {"open", "write"}
      /\ saver' = [saver EXCEPT ![s] = IdleSaver]
      /\ UNCHANGED <<options, faulty, routes, size, pending, file, tmpfile, saved>>
  BY DEF OneSaver, FailTmpfile
<1>2. IdleSaver \in [pc : {"idle", "open", "write", "rename"}, text : Content, fd : {NoFile} \cup Inodes]
  BY CacheAssumption DEF IdleSaver, Empty, Content
<1>3. /\ content' \in [Inodes -> Content]
      /\ file # NoFile => content'[file] = content[file]
  <2>1. CASE saver[s].pc = "open"
    BY <2>1 DEF FailTmpfile, IInv, TypeOK
  <2>2. CASE saver[s].pc = "write"
    <3>1. /\ saver[s].fd = tmpfile /\ tmpfile \in Inodes /\ tmpfile # NoFile /\ tmpfile # file
          /\ content[tmpfile] \in Content /\ saver[s].text \in Content
      BY <2>2 DEF IInv, TypeOK, Atomic
    <3>2. PICK part \in {Empty, [saver[s].text EXCEPT !.valid = FALSE]} :
            content' = [content EXCEPT ![tmpfile] = Overwrite(content[tmpfile], part)]
      BY <2>2, <3>1 DEF FailTmpfile
    <3>3. part \in Content
      <4>1. Empty \in Content
        BY DEF Empty, Content
      <4>2. [saver[s].text EXCEPT !.valid = FALSE] \in Content
        BY Zenon, <3>1 DEF Content
      <4> QED
        BY Zenon, <4>1, <4>2
    <3>4. Overwrite(content[tmpfile], part) \in Content
      BY Zenon, <3>1, <3>3 DEF Overwrite, Content
    <3> QED
      BY <3>1, <3>2, <3>4 DEF IInv, TypeOK
  <2> QED
    BY <1>1, <2>1, <2>2
<1>4. TypeOK'
  BY <1>1, <1>2, <1>3 DEF IInv, TypeOK, IdleSaver
<1>5. SavedOnDisk'
  <2>1. OnDisk' = OnDisk
    BY <1>1, <1>3, OnDiskKept
  <2> QED
    BY <1>1, <2>1 DEF IInv, SavedOnDisk, CacheConfig
<1>6. Atomic'
  <2>1. saver'[s].pc = "idle"
    BY <1>1 DEF IInv, TypeOK, IdleSaver
  <2> QED
    BY <1>1, <2>1 DEF IInv, Atomic, CacheConfig
<1> QED
  BY <1>4, <1>5, <1>6 DEF IInv

\* The rename is the step at which the table is saved.
LEMMA RenameSaves ==
  ASSUME OneSaver, IInv, NEW s \in Savers, RenameTmpfile(s)
  PROVE  /\ file' = tmpfile /\ tmpfile' = NoFile /\ tmpfile \in Inodes /\ saved' = routes
         /\ OnDisk' = IF routes \in ZeroKeyed THEN NoRoutes ELSE routes
<1>1. /\ saver[s].pc = "rename" /\ tmpfile # NoFile /\ content[tmpfile] = saver[s].text
      /\ saver[s].text.routes = routes /\ saver[s].text.valid
  BY DEF RenameTmpfile, IInv, Atomic, TypeOK
<1>2. file' = tmpfile /\ tmpfile' = NoFile /\ saved' = routes /\ content' = content
  BY <1>1 DEF RenameTmpfile
<1> QED
  BY <1>1, <1>2 DEF IInv, TypeOK, OnDisk, Unmarshalled

\* The complete temporary file becomes the cache file.
LEMMA RenameTmpfileStep == ASSUME OneSaver, IInv, NEW s \in Savers, RenameTmpfile(s) PROVE IInv'
<1>1. /\ Savers = {s} /\ saver' = [saver EXCEPT ![s] = IdleSaver]
      /\ UNCHANGED <<options, faulty, routes, size, pending, content>>
  BY DEF OneSaver, RenameTmpfile
<1>2. IdleSaver \in [pc : {"idle", "open", "write", "rename"}, text : Content, fd : {NoFile} \cup Inodes]
  BY CacheAssumption DEF IdleSaver, Empty, Content
<1>3. TypeOK'
  BY <1>1, <1>2, RenameSaves DEF IInv, TypeOK, IdleSaver
<1>4. SavedOnDisk'
  BY RenameSaves DEF SavedOnDisk
<1>5. Atomic'
  <2>1. saver'[s].pc = "idle"
    BY <1>1 DEF IInv, TypeOK, IdleSaver
  <2> QED
    BY <1>1, <2>1, RenameSaves DEF Atomic
<1> QED
  BY <1>3, <1>4, <1>5 DEF IInv

\* A crash at any point leaves the cache file as it was.
LEMMA RestartStep == ASSUME IInv, Restart PROVE IInv'
<1>1. /\ saver' = [s \in Savers |-> IdleSaver] /\ pending' = 0 /\ size' \in Sizes
      /\ UNCHANGED <<options, faulty, content, file, tmpfile, saved>>
      /\ routes' = IF Loads THEN OnDisk ELSE NoRoutes
  BY DEF Restart, LoadLocked
<1>2. IdleSaver \in [pc : {"idle", "open", "write", "rename"}, text : Content, fd : {NoFile} \cup Inodes]
  BY CacheAssumption DEF IdleSaver, Empty, Content
<1>3. routes' \in Routes \cup {NoRoutes}
  <2>1. file # NoFile => content[file].routes \in Routes \cup {NoRoutes}
    BY DEF IInv, TypeOK, Content
  <2> QED
    BY <1>1, <2>1 DEF OnDisk, Unmarshalled
<1>4. TypeOK'
  BY <1>1, <1>2, <1>3, CacheAssumption DEF IInv, TypeOK, IdleSaver
<1>5. SavedOnDisk'
  BY <1>1 DEF IInv, SavedOnDisk, OnDisk, CacheConfig
<1>6. Atomic'
  BY <1>1 DEF IInv, Atomic, IdleSaver
<1> QED
  BY <1>4, <1>5, <1>6 DEF IInv

\* Every step preserves the invariant, if one goroutine saves.
LEMMA NextIInv == OneSaver /\ IInv /\ [Next]_vars => IInv'
<1> SUFFICES ASSUME OneSaver, IInv, [Next]_vars PROVE IInv'
  OBVIOUS
<1>1. CASE ChangeTable \/ Roam \/ Restart
  BY <1>1, ChangeTableStep, RoamStep, RestartStep
<1>2. ASSUME NEW s \in Savers, SaverStep(s) \/ FailTmpfile(s) PROVE IInv'
  BY <1>2, BeginSaveStep, OpenTmpfileStep, WriteTmpfileStep, RenameTmpfileStep, FailTmpfileStep
     DEF SaverStep
<1>3. CASE UNCHANGED vars
  BY Zenon, <1>3 DEF vars, IInv, TypeOK, SavedOnDisk, OnDisk, Atomic, CacheConfig
<1> QED
  BY <1>1, <1>2, <1>3 DEF Next

-----------------------------------------------------------------------------
\* The inductive invariant holds in every execution with one saver.
LEMMA CacheInvariant == OneSaver /\ Spec => []IInv
<1>1. SUFFICES ASSUME OneSaver PROVE Spec => []IInv
  OBVIOUS
<1> QED
  BY <1>1, InitIInv, NextIInv, PTL DEF Spec

\* With one saver at a time every variable has its type: os.WriteFile always
\* has a file to write to, and the text it writes is a whole one.
THEOREM CacheTypeCorrect == OneSaver /\ Spec => []TypeOK
<1>1. IInv => TypeOK
  BY DEF IInv
<1> QED
  BY <1>1, CacheInvariant, PTL

\* With one saver at a time the file holds the last successful save at every
\* instant, through errors and crashes of SaveLocked.
THEOREM SavesAreAtomic == OneSaver /\ Spec => []SavedOnDisk
<1>1. IInv => SavedOnDisk
  BY DEF IInv
<1> QED
  BY <1>1, CacheInvariant, PTL

\* With one saver at a time SaveLocked and LoadLocked implement the cache that
\* is written in one step.
THEOREM ImplementsStore == OneSaver /\ Spec => StoreSpec
<1>1. SUFFICES ASSUME OneSaver PROVE Spec => StoreSpec
  OBVIOUS
<1>2. Init => Store!Init
  BY CacheAssumption DEF Init, Store!Init, Loads, OnDisk, CacheConfig, ensureCacheConfig, AllOptions
<1>3. IInv /\ IInv' /\ [Next]_vars => [Store!Next]_(Store!vars)
  <2> SUFFICES ASSUME IInv, IInv', [Next]_vars
               PROVE  Store!Next \/ UNCHANGED Store!vars
    OBVIOUS
  <2>1. Loads' = Loads
    BY DEF Next, vars, ChangeTable, Roam, SaverStep, BeginSave, OpenTmpfile, WriteTmpfile,
           RenameTmpfile, FailTmpfile, Restart, Loads, CacheConfig
  <2>2. CASE ChangeTable
    BY <2>1, <2>2 DEF ChangeTable, OnDisk, Store!Next, Store!Change
  <2>3. CASE Roam
    BY <2>1, <2>3 DEF Roam, OnDisk, Store!vars
  <2>4. CASE Restart
    BY <2>1, <2>4 DEF Restart, LoadLocked, OnDisk, Store!Next, Store!Restart
  <2>5. ASSUME NEW s \in Savers, RenameTmpfile(s) PROVE Store!Next
    <3>1. routes' = routes
      BY <2>5 DEF RenameTmpfile
    <3> QED
      BY <1>1, <2>1, <2>5, <3>1, RenameSaves DEF Store!Next, Store!Save
  <2>6. ASSUME NEW s \in Savers,
               BeginSave(s) \/ OpenTmpfile(s) \/ WriteTmpfile(s) \/ FailTmpfile(s)
        PROVE  UNCHANGED Store!vars
    <3>1. routes' = routes /\ file' = file
      BY <2>6 DEF BeginSave, OpenTmpfile, WriteTmpfile, FailTmpfile
    <3>2. file # NoFile => content'[file] = content[file]
      <4>1. CASE BeginSave(s)
        BY <4>1 DEF BeginSave
      <4>2. CASE OpenTmpfile(s)
        <5>1. file # tmpfile' \/ file = NoFile
          BY <3>1, <4>2 DEF IInv, Atomic
        <5> QED
          BY <4>2, <5>1 DEF OpenTmpfile, IInv, TypeOK
      <4>3. CASE WriteTmpfile(s)
        BY <4>3 DEF WriteTmpfile, IInv, TypeOK, Atomic
      <4>4. CASE FailTmpfile(s)
        <5>1. saver[s].pc = "write" => saver[s].fd = tmpfile /\ (file # NoFile => file # tmpfile)
          BY DEF IInv, Atomic
        <5> QED
          BY <4>4, <5>1 DEF FailTmpfile, IInv, TypeOK
      <4> QED
        BY <2>6, <4>1, <4>2, <4>3, <4>4
    <3> QED
      BY <2>1, <3>1, <3>2, OnDiskKept DEF Store!vars
  <2>7. CASE UNCHANGED vars
    BY <2>1, <2>7 DEF vars, OnDisk, Store!vars
  <2> QED
    BY <2>2, <2>3, <2>4, <2>5, <2>6, <2>7 DEF Next, SaverStep
<1> QED
  BY <1>1, <1>2, <1>3, CacheInvariant, PTL DEF Spec, StoreSpec, Store!Spec

=============================================================================
