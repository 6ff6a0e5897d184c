------------------------------ MODULE CacheFile ------------------------------
(***************************************************************************)
(* The forward table cache on disk (cache.go): how ensureCacheConfig picks *)
(* its path, how goroutines of persistForwardTableCache write a temporary  *)
(* file and rename it, and what LoadLocked finds after a crash.            *)
(*                                                                         *)
(* SaveLocked runs under mapLock.RLock, so the routes do not change while  *)
(* it runs, but other savers may run with it, and the fields that are      *)
(* written without the lock (clientDestination, obfuscateEnabled) may      *)
(* change the size of the text.                                            *)
(***************************************************************************)
EXTENDS Integers, FiniteSets

CONSTANTS
  Routes,        \* the contents of serverMap
  NoRoutes,      \* an empty serverMap
  ZeroKeyed,     \* those where the public key of some peer is zero
  Sizes,         \* the sizes of the JSON text
  Options,       \* the command lines and configurations
  Savers,        \* bound: goroutines inside SaveLocked at the same time
  MaxPending     \* bound: goroutines that wait for RLock

\* no-cache and skip-load-cache, the path in the configuration file and the
\* path on the command line or in the environment.
AllOptions ==
  [noCache : BOOLEAN, skipLoadCache : BOOLEAN,
   configPath : {"", "config"}, cacheFile : {"", "flag"}]

NoFile == 0
Inodes == 1..(Cardinality(Savers) + 2)

\* The bytes of a file: a JSON text of some routes, if valid.
Content == [routes : Routes \cup {NoRoutes}, size : {0} \cup Sizes, valid : BOOLEAN]
Empty == [routes |-> NoRoutes, size |-> 0, valid |-> FALSE]

ASSUME CacheAssumption ==
  /\ Sizes \subseteq Nat \ {0} /\ Sizes # {} /\ NoRoutes \notin Routes
  /\ ZeroKeyed \subseteq Routes
  /\ IsFiniteSet(Savers) /\ Options \subseteq AllOptions
  /\ MaxPending \in Nat

VARIABLES
  options,       \* fixed for the life of the installation
  faulty,        \* whether writing the temporary file may fail, likewise
  routes,        \* serverMap
  size,          \* the size of its JSON text now
  pending,       \* goroutines of persistForwardTableCache that wait for RLock
  saver,         \* the goroutines inside SaveLocked
  content,       \* the file system: inode -> bytes
  file, tmpfile, \* the inodes behind CacheFilePath and CacheFilePath.tmp
  saved          \* history: the routes of the last SaveLocked that returned nil

vars == <<options, faulty, routes, size, pending, saver, content, file, tmpfile, saved>>

IdleSaver == [pc |-> "idle", text |-> Empty, fd |-> NoFile]

-----------------------------------------------------------------------------
(***************************************************************************)
(* Configuration.                                                          *)
(***************************************************************************)
FirstSet(a, b) == IF a # "" THEN a ELSE b

ensureCacheConfig(o) ==
  CASE o.noCache -> [CacheFilePath |-> "", SkipLoadCache |-> FALSE]
    [] ~o.noCache /\ o.skipLoadCache ->
         [CacheFilePath |-> o.configPath, SkipLoadCache |-> TRUE]
    [] OTHER ->
         [CacheFilePath |-> FirstSet(FirstSet(o.configPath, o.cacheFile), "default"),
          SkipLoadCache |-> FALSE]

CacheConfig == ensureCacheConfig(options)

-----------------------------------------------------------------------------
(***************************************************************************)
(* The table, as far as the cache is concerned.                            *)
(***************************************************************************)
\* A response, an expiry or an address update: the table may change, under
\* mapLock.Lock, and a goroutine that persists it is started.
MutantChangeTable ==
  /\ pending < MaxPending /\ pending' = pending + 1
  /\ routes' \in Routes \cup {NoRoutes}
  /\ size' \in Sizes
  /\ UNCHANGED <<options, faulty, saver, content, file, tmpfile, saved>>

MutantForgetToPersist ==
  /\ \A s \in Savers : saver[s].pc = "idle"
  /\ routes' \in Routes \cup {NoRoutes}
  /\ size' \in Sizes
  /\ UNCHANGED <<options, faulty, pending, saver, content, file, tmpfile, saved>>

ChangeTable ==
  /\ \A s \in Savers : saver[s].pc = "idle"
  /\ pending < MaxPending /\ pending' = pending + 1
  /\ routes' \in Routes \cup {NoRoutes}
  /\ size' \in Sizes
  /\ UNCHANGED <<options, faulty, saver, content, file, tmpfile, saved>>

\* A client roams: no lock is taken and nothing is persisted.
Roam ==
  /\ size' \in Sizes \ {size}
  /\ UNCHANGED <<options, faulty, routes, pending, saver, content, file, tmpfile, saved>>

-----------------------------------------------------------------------------
(***************************************************************************)
(* SaveLocked.                                                             *)
(***************************************************************************)
\* Without a path SaveLocked returns nil at once.  Otherwise the text is
\* made first.
BeginSave(s) ==
  /\ saver[s].pc = "idle"
  /\ pending > 0 /\ pending' = pending - 1
  /\ IF CacheConfig.CacheFilePath = ""
     THEN saved' = routes /\ UNCHANGED saver
     ELSE /\ saver' = [saver EXCEPT ![s] =
               [pc |-> "open", fd |-> NoFile,
                text |-> [routes |-> routes, size |-> size, valid |-> TRUE]]]
          /\ UNCHANGED saved
  /\ UNCHANGED <<options, faulty, routes, size, content, file, tmpfile>>

InUse == {file, tmpfile} \cup {saver[s].fd : s \in Savers}

MutantOpenTmpfile(s) ==
  /\ saver[s].pc = "open"
  /\ tmpfile' = IF file # NoFile THEN file ELSE CHOOSE i \in Inodes : i \notin InUse
  /\ content' = [content EXCEPT ![tmpfile'] = Empty]
  /\ saver' = [saver EXCEPT ![s] = [pc |-> "write", text |-> @.text, fd |-> tmpfile']]
  /\ UNCHANGED <<options, faulty, routes, size, pending, file, saved>>

\* os.WriteFile opens the temporary file with O_CREATE and O_TRUNC ...
OpenTmpfile(s) ==
  /\ saver[s].pc = "open"
  /\ tmpfile' = IF tmpfile # NoFile THEN tmpfile
                ELSE CHOOSE i \in Inodes : i \notin InUse
  /\ content' = [content EXCEPT ![tmpfile'] = Empty]
  /\ saver' = [saver EXCEPT ![s] = [pc |-> "write", text |-> @.text, fd |-> tmpfile']]
  /\ UNCHANGED <<options, faulty, routes, size, pending, file, saved>>

\* ... and writes from offset 0; what the file had beyond that stays.
Overwrite(old, text) ==
  IF text.size >= old.size THEN text ELSE [old EXCEPT !.valid = FALSE]

MutantWriteTmpfile(s) ==
  /\ saver[s].pc = "write"
  /\ content' = [content EXCEPT ![saver[s].fd] = Overwrite(@, saver[s].text)]
  /\ saver' = [saver EXCEPT ![s].pc = "rename"]
  /\ UNCHANGED <<options, faulty, routes, size, pending, file, tmpfile, saved>>

WriteTmpfile(s) ==
  /\ saver[s].pc = "write"
  /\ content' = [content EXCEPT ![saver[s].fd] = Overwrite(@, saver[s].text)]
  /\ saver' = [saver EXCEPT ![s] = [pc |-> "rename", text |-> @.text, fd |-> NoFile]]
  /\ UNCHANGED <<options, faulty, routes, size, pending, file, tmpfile, saved>>

\* Opening or writing fails, after a part of the text at most: SaveLocked
\* returns the error and leaves the temporary file.
FailTmpfile(s) ==
  /\ faulty
  /\ \/ saver[s].pc = "open" /\ UNCHANGED content
     \/ /\ saver[s].pc = "write"
        /\ \E part \in {Empty, [saver[s].text EXCEPT !.valid = FALSE]} :
             content' = [content EXCEPT ![saver[s].fd] = Overwrite(@, part)]
  /\ saver' = [saver EXCEPT ![s] = IdleSaver]
  /\ UNCHANGED <<options, faulty, routes, size, pending, file, tmpfile, saved>>

\* os.Rename fails if another saver has renamed the temporary file.
RenameTmpfile(s) ==
  /\ saver[s].pc = "rename"
  /\ IF tmpfile = NoFile THEN UNCHANGED <<file, tmpfile, saved>>
     ELSE file' = tmpfile /\ tmpfile' = NoFile /\ saved' = saver[s].text.routes
  /\ saver' = [saver EXCEPT ![s] = IdleSaver]
  /\ UNCHANGED <<options, faulty, routes, size, pending, content>>

-----------------------------------------------------------------------------
(***************************************************************************)
(* Crash and LoadLocked.                                                   *)
(***************************************************************************)
\* NoisePublicKey.MarshalJSON writes a zero key as null, and UnmarshalJSON
\* refuses that: one such peer, and json.Unmarshal fails for the whole file.
Unmarshalled(r) == IF r \in ZeroKeyed THEN NoRoutes ELSE r

\* The routes LoadLocked finds: none without a file or if the file is not
\* JSON.
OnDisk ==
  IF file # NoFile /\ content[file].valid THEN Unmarshalled(content[file].routes) ELSE NoRoutes

Loads == CacheConfig.CacheFilePath # "" /\ ~CacheConfig.SkipLoadCache

LoadLocked == routes' = IF Loads THEN OnDisk ELSE NoRoutes

\* The process dies and starts again; the file system survives.
Restart ==
  /\ LoadLocked
  /\ size' \in Sizes
  /\ pending' = 0 /\ saver' = [s \in Savers |-> IdleSaver]
  /\ UNCHANGED <<options, faulty, content, file, tmpfile, saved>>

-----------------------------------------------------------------------------
Init ==
  /\ options \in Options /\ faulty \in BOOLEAN
  /\ routes = NoRoutes /\ size \in Sizes
  /\ pending = 0 /\ saver = [s \in Savers |-> IdleSaver]
  /\ content = [i \in Inodes |-> Empty] /\ file = NoFile /\ tmpfile = NoFile
  /\ saved = NoRoutes

SaverStep(s) == BeginSave(s) \/ OpenTmpfile(s) \/ WriteTmpfile(s) \/ RenameTmpfile(s)

Next ==
  \/ ChangeTable \/ Roam
  \/ \E s \in Savers : SaverStep(s) \/ FailTmpfile(s)
  \/ Restart

Spec == Init /\ [][Next]_vars

\* Every saver that has been started keeps running.
FairSpec == Spec /\ \A s \in Savers : WF_vars(SaverStep(s))

-----------------------------------------------------------------------------
(***************************************************************************)
(* Properties.                                                             *)
(***************************************************************************)
\* Types; a saver has a file open only while os.WriteFile writes, and its text
\* is always a whole one.
TypeOK ==
  /\ options \in Options /\ faulty \in BOOLEAN
  /\ routes \in Routes \cup {NoRoutes} /\ size \in Sizes
  /\ pending \in 0..MaxPending
  /\ saver \in [Savers -> [pc : {"idle", "open", "write", "rename"}, text : Content,
                          fd : {NoFile} \cup Inodes]]
  /\ content \in [Inodes -> Content]
  /\ file \in {NoFile} \cup Inodes /\ tmpfile \in {NoFile} \cup Inodes
  /\ saved \in Routes \cup {NoRoutes}
  /\ \A s \in Savers :
       /\ saver[s].pc = "write" <=> saver[s].fd # NoFile
       /\ saver[s].pc # "idle" => saver[s].text.valid

\* At every instant, whatever step of SaveLocked the process dies in, the
\* cache file holds the routes of the last save that returned nil: the
\* temporary file and the rename make a save atomic.  Only a peer with a zero
\* key costs the whole table.
SavedOnDisk ==
  CacheConfig.CacheFilePath # "" =>
    OnDisk = (IF saved \in ZeroKeyed THEN NoRoutes ELSE saved)

\* The steps of SaveLocked and LoadLocked implement a cache that is written
\* in one step: the file changes only at the rename, and mapLock.RLock keeps
\* the text that is renamed then the one of the table at that time.
Store == INSTANCE CacheStore WITH loads <- Loads, cached <- OnDisk

StoreSpec == Store!Spec

\* With the cache enabled and a file system that works, the goroutines that
\* persist the table bring the file up to date unless the table changes again,
\* wherever the process is restarted.
CatchesUp ==
  \A r \in (Routes \ ZeroKeyed) \cup {NoRoutes} :
    routes = r /\ Loads /\ ~faulty ~> OnDisk = r \/ routes # r

\* README.md: the cache keeps "the forwarding rules persistent" over a
\* restart.  A restart that loads the cache finds the routes that were last
\* saved without error.
RestartKeepsRoutes == [][Restart /\ Loads => routes' = saved]_vars

=============================================================================
