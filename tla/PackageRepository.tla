------------------------- MODULE PackageRepository -------------------------
(***************************************************************************)
(* The Raven package repository (src/app/services/raven_package_service.py *)
(* and the endpoints of src/app/api/packages.py): files in one directory   *)
(* and an index of them, one JSON file that every change reads and writes  *)
(* as a whole under the repository's lock.  Uploads are written on the     *)
(* event loop, without the lock and across awaits; the configuration       *)
(* manager publishes, and the search agents prune, in threads.             *)
(*                                                                         *)
(* Every writer here brings a file of the same name, so that all of them   *)
(* want the path Name; who finds it taken gets a path of its own, which    *)
(* has the writer's name.  A digest stands for the writer whose bytes it   *)
(* is the digest of.                                                       *)
(***************************************************************************)
EXTENDS Naturals, FiniteSets

CONSTANTS
  Uploads,      \* requests that upload a file
  Batches,      \* those of them that are part of a batch
  Builds,       \* threads that publish a package they built
  Searches,     \* threads that look packages up
  Name,         \* the path everyone wants
  Torn,         \* the digest of an incomplete file
  None,         \* no file, no entry, nobody
  MaxMishaps    \* bounds the crashes, half deletions and failed reads of the index

Writers == Uploads \cup Builds

Paths == Writers \cup {Name}

Entries == [sha : Writers \cup {Torn}, edited : BOOLEAN]

ASSUME RepositoryAssumption ==
  /\ Batches \subseteq Uploads
  /\ Uploads \cap Builds = {} /\ Searches \cap Writers = {}
  /\ Name \notin Writers /\ Torn \notin Writers
  /\ None \notin Writers \cup Searches \cup {Name, Torn} \cup Entries
  /\ MaxMishaps \in Nat

VARIABLES
  stage,        \* how far a writer is
  path,         \* where it writes
  bytes,        \* whose bytes the file at a path holds
  whole,        \* the paths whose file is complete
  marker,       \* the paths with an .uploading marker
  index,        \* the entries, by the path they carry
  lock,         \* who holds the repository's lock across steps
  search,       \* how far a search is
  loaded,       \* the entries a search has read
  deleted,      \* history: writers whose package a user has deleted
  stale,        \* history: paths with an entry that outlived its file
  robbed,       \* history: paths that were deleted under an upload of theirs
  forgotten,    \* history: writers whose entry a failed read of the index dropped
  edits,        \* history: paths whose entry a user has edited
  mishaps       \* history: how many mishaps there were

files == <<bytes, whole, marker>>
history == <<deleted, stale, robbed, forgotten, edits, mishaps>>
searching == <<search, loaded>>
repoVars == <<stage, path, bytes, whole, marker, index, lock, search, loaded, deleted,
              stale, robbed, forgotten, edits, mishaps>>

\* "closing": the file is complete, the request awaits the close of its upload.
UploadStages == {"writing", "closing"}
BuildStages == {"copying", "registering"}
Underway == UploadStages \cup BuildStages

RepoTypeOK ==
  /\ stage \in [Writers -> Underway \cup {"idle", "accepted", "refused", "gone"}]
  /\ path \in [Writers -> Paths \cup {None}]
  /\ bytes \in [Paths -> Writers \cup {None}]
  /\ whole \subseteq Paths /\ marker \subseteq Paths
  /\ \A p \in whole : bytes[p] # None
  /\ index \in [Paths -> Entries \cup {None}]
  /\ lock \in Builds \cup Searches \cup {None}
  /\ search \in [Searches -> {"idle", "pruning", "done"}]
  /\ loaded \in [Searches -> [Paths -> Entries \cup {None}]]
  /\ deleted \subseteq Writers /\ stale \subseteq Paths /\ robbed \subseteq Paths
  /\ forgotten \subseteq Writers \cup {Torn}
  /\ edits \subseteq Paths /\ mishaps \in 0..MaxMishaps

Empty == [p \in Paths |-> None]

RepoInit ==
  /\ stage = [w \in Writers |-> "idle"] /\ path = [w \in Writers |-> None]
  /\ bytes = Empty /\ whole = {} /\ marker = {} /\ index = Empty
  /\ lock = None
  /\ search = [s \in Searches |-> "idle"] /\ loaded = [s \in Searches |-> Empty]
  /\ deleted = {} /\ stale = {} /\ robbed = {} /\ forgotten = {} /\ edits = {} /\ mishaps = 0

-----------------------------------------------------------------------------
(* Lock and files.                                                          *)

\* _RepositoryMutex: an RLock for the threads, a file lock for other processes.  Who
\* needs it for one step only neither finds it taken nor shows as its holder.
Unlocked == lock = None

Exists(p) == bytes[p] # None

\* _unique_upload_path, under the lock: the marker and the file are created
\* exclusively, so a path with either of them is taken.
FreePath(w) == IF Name \notin marker /\ ~Exists(Name) THEN Name ELSE w

Reserve(w) ==
  /\ path' = [path EXCEPT ![w] = FreePath(w)]
  /\ bytes' = [bytes EXCEPT ![FreePath(w)] = w]
  /\ whole' = whole \ {FreePath(w)}
  /\ marker' = marker \cup {FreePath(w)}

\* The file at p goes, if there is one.
Unlink(p) ==
  /\ bytes' = [bytes EXCEPT ![p] = None]
  /\ whole' = whole \ {p}

\* What load_packages makes of the index: all of it, or nothing when it cannot be
\* read just then.
Readings ==
  {index} \cup (IF mishaps < MaxMishaps THEN {Empty} ELSE {})

\* A change is saved that is based on the reading r: what r lacks is dropped.
BasedOn(r) ==
  IF r = index THEN UNCHANGED <<forgotten, mishaps>>
  ELSE /\ forgotten' = forgotten \cup {index[p].sha : p \in {q \in Paths : index[q] # None}}
       /\ mishaps' = mishaps + 1

-----------------------------------------------------------------------------
(* Uploads: POST /upload and /upload/batch.                                 *)

\* store_upload reserves a path and starts to write.
Begin(w) ==
  /\ stage[w] = "idle" /\ Unlocked
  /\ Reserve(w)
  /\ stage' = [stage EXCEPT ![w] = "writing"]
  /\ UNCHANGED <<index, lock, searching, history>>

\* (mutant of Written) Takes for granted that the file is still there.
WrittenRegardless(w) ==
  /\ stage[w] = "writing"
  /\ stage' = [stage EXCEPT ![w] = "closing"]
  /\ whole' = whole \cup {path[w]}
  /\ marker' = marker \ {path[w]}
  /\ UNCHANGED <<path, bytes, index, lock, searching, history>>

\* The last chunk is on disk, the marker goes.
Written(w) ==
  /\ stage[w] = "writing"
  /\ stage' = [stage EXCEPT ![w] = "closing"]
  /\ whole' = IF bytes[path[w]] = w THEN whole \cup {path[w]} ELSE whole
  /\ marker' = marker \ {path[w]}
  /\ UNCHANGED <<path, bytes, index, lock, searching, history>>

\* Too large, no space, an I/O error: the file goes, then the marker.
WriteFails(w) ==
  /\ stage[w] = "writing"
  /\ stage' = [stage EXCEPT ![w] = "refused"]
  /\ Unlink(path[w])
  /\ marker' = marker \ {path[w]}
  /\ UNCHANGED <<path, index, lock, searching, history>>

\* add_or_update_package: the entry of the path is replaced, or one is added.
Enter(w) ==
  /\ \E r \in Readings :
       /\ index' = [r EXCEPT ![path[w]] = [sha |-> w, edited |-> FALSE]]
       /\ BasedOn(r)
       /\ edits' = {p \in edits \ {path[w]} : r[p] # None}
       /\ stale' = stale \ {path[w]}
  /\ stage' = [stage EXCEPT ![w] = "accepted"]
  /\ UNCHANGED <<path, bytes, whole, searching, deleted, robbed>>

\* build_package_info and add_or_update_package, without an await.  Unless the
\* request brings its own packageInfo, it looks at the file.
Register(w) ==
  /\ stage[w] = "closing" /\ Unlocked
  /\ Exists(path[w]) \/ w \notin Batches
  /\ Enter(w)
  /\ UNCHANGED <<marker, lock>>

\* The file is gone, packageInfo is malformed or the index cannot be written.  A
\* single upload takes its file away, without the lock, and a batch leaves it.
RegisterFails(w) ==
  /\ stage[w] = "closing"
  /\ stage' = [stage EXCEPT ![w] = "refused"]
  /\ IF w \in Batches THEN UNCHANGED <<bytes, whole, stale>>
     ELSE /\ Unlink(path[w])
          /\ stale' = IF index[path[w]] # None THEN stale \cup {path[w]} ELSE stale
  /\ UNCHANGED <<path, marker, index, lock, searching, deleted, robbed, forgotten, edits, mishaps>>

-----------------------------------------------------------------------------
(* publish_built_package, in a thread, under the lock from here to the end. *)

Claim(b) ==
  /\ stage[b] = "idle" /\ Unlocked
  /\ lock' = b
  /\ Reserve(b)
  /\ stage' = [stage EXCEPT ![b] = "copying"]
  /\ UNCHANGED <<index, searching, history>>

\* The copy is complete and takes the place of the reserved file.
Copied(b) ==
  /\ stage[b] = "copying"
  /\ stage' = [stage EXCEPT ![b] = "registering"]
  /\ bytes' = [bytes EXCEPT ![path[b]] = b]
  /\ whole' = whole \cup {path[b]}
  /\ UNCHANGED <<path, marker, index, lock, searching, history>>

Publish(b) ==
  /\ stage[b] = "registering"
  /\ Enter(b)
  /\ marker' = marker \ {path[b]}
  /\ lock' = None

\* (mutant of PublishFails) The lock is released on the way of success only.
PublishFailsLocked(b) ==
  /\ stage[b] \in BuildStages
  /\ stage' = [stage EXCEPT ![b] = "refused"]
  /\ Unlink(path[b])
  /\ marker' = marker \ {path[b]}
  /\ UNCHANGED <<path, index, lock, searching, history>>

\* No space, an I/O error, the index cannot be written: the file goes.
PublishFails(b) ==
  /\ stage[b] \in BuildStages
  /\ stage' = [stage EXCEPT ![b] = "refused"]
  /\ Unlink(path[b])
  /\ marker' = marker \ {path[b]}
  /\ lock' = None
  /\ UNCHANGED <<path, index, searching, history>>

-----------------------------------------------------------------------------
(* The index.                                                               *)

\* (mutant of Indexable) Files that are being written are indexed too.
IndexableAny(p, r) == Exists(p) /\ r[p] = None

\* scan_uploads_directory: files without marker and without entry.
Indexable(p, r) == Exists(p) /\ p \notin marker /\ r[p] = None

Digest(p) == IF p \in whole THEN bytes[p] ELSE Torn

Scan ==
  /\ Unlocked
  /\ \E r \in Readings :
       /\ \E p \in Paths : Indexable(p, r)
       /\ index' = [p \in Paths |->
                      IF Indexable(p, r) THEN [sha |-> Digest(p), edited |-> FALSE] ELSE r[p]]
       /\ BasedOn(r)
       /\ edits' = {p \in edits : r[p] # None}
  /\ UNCHANGED <<stage, path, files, lock, searching, deleted, stale, robbed>>

\* get_all_packages: entries whose file is missing are dropped.
Pruned(r) == [p \in Paths |-> IF Exists(p) THEN r[p] ELSE None]

\* ... on the event loop, when packages are listed or looked up.
List ==
  /\ Unlocked
  /\ index' = Pruned(index)
  /\ stale' = {p \in stale : index'[p] # None}
  /\ edits' = {p \in edits : Exists(p)}
  /\ UNCHANGED <<stage, path, files, lock, searching, deleted, robbed, forgotten, mishaps>>

\* ... in the thread of a search agent: the index is read,
Load(s) ==
  /\ search[s] = "idle" /\ Unlocked
  /\ lock' = s
  /\ loaded' = [loaded EXCEPT ![s] = index]
  /\ search' = [search EXCEPT ![s] = "pruning"]
  /\ UNCHANGED <<stage, path, files, index, history>>

\* the files are looked for, and the index written if one is missing.
Prune(s) ==
  /\ search[s] = "pruning"
  /\ index' = IF Pruned(loaded[s]) = loaded[s] THEN index ELSE Pruned(loaded[s])
  /\ stale' = {p \in stale : index'[p] # None}
  /\ edits' = {p \in edits : Exists(p)}
  /\ lock' = None
  /\ loaded' = [loaded EXCEPT ![s] = Empty]
  /\ search' = [search EXCEPT ![s] = "done"]
  /\ UNCHANGED <<stage, path, files, deleted, robbed, forgotten, mishaps>>

\* update_package_metadata.
Edit(p) ==
  /\ Unlocked /\ index[p] # None
  /\ index' = [index EXCEPT ![p].edited = TRUE]
  /\ edits' = edits \cup {p}
  /\ UNCHANGED <<stage, path, files, lock, searching, deleted, stale, robbed, forgotten, mishaps>>

\* Somebody is about to register what the path holds.
Expected(p) == \E w \in Writers : path[w] = p /\ stage[w] \in Underway

\* delete_package: the file, then the entry.
Delete(p) ==
  /\ Unlocked /\ index[p] # None
  /\ Unlink(p)
  /\ deleted' = (deleted \cup {bytes[p], index[p].sha}) \cap Writers
  /\ robbed' = IF Expected(p) THEN robbed \cup {p} ELSE robbed
  /\ edits' = edits \ {p}
  /\ \/ /\ index' = [index EXCEPT ![p] = None]
        /\ stale' = stale \ {p}
        /\ UNCHANGED mishaps
     \/ /\ mishaps < MaxMishaps        \* the index cannot be written
        /\ mishaps' = mishaps + 1
        /\ stale' = stale \cup {p}
        /\ UNCHANGED index
  /\ UNCHANGED <<stage, path, marker, lock, searching, forgotten>>

\* The process dies and is started again: its requests and threads are gone, the
\* lock is free, files, markers and the index are as they were.
Crash ==
  /\ mishaps < MaxMishaps
  /\ mishaps' = mishaps + 1
  /\ stage' = [w \in Writers |-> IF stage[w] \in Underway THEN "gone" ELSE stage[w]]
  /\ search' = [s \in Searches |-> IF search[s] = "pruning" THEN "done" ELSE search[s]]
  /\ loaded' = [s \in Searches |-> Empty]
  /\ lock' = None
  /\ UNCHANGED <<path, files, index, deleted, stale, robbed, forgotten, edits>>

-----------------------------------------------------------------------------
UploadGoesOn(w) == Written(w) \/ WriteFails(w)

UploadEnds(w) == Register(w) \/ RegisterFails(w)

BuildGoesOn(b) == Copied(b) \/ Publish(b) \/ PublishFails(b)

RepoSteps ==
  \/ \E w \in Uploads : Begin(w) \/ UploadGoesOn(w) \/ UploadEnds(w)
  \/ \E b \in Builds : BuildGoesOn(b)
  \/ \E s \in Searches : Load(s) \/ Prune(s)
  \/ Scan \/ List
  \/ \E p \in Paths : Edit(p) \/ Delete(p)

RepoNext ==
  \/ RepoSteps
  \/ \E b \in Builds : Claim(b)
  \/ Crash

\* An upload gets its turn at a free lock; that it fails while it waits is not counted on.
RepoFairness ==
  /\ \A w \in Uploads : WF_repoVars(UploadGoesOn(w)) /\ WF_repoVars(Unlocked /\ UploadEnds(w))
  /\ \A b \in Builds : WF_repoVars(BuildGoesOn(b))
  /\ \A s \in Searches : WF_repoVars(Prune(s))

RepoSpec == RepoInit /\ [][RepoNext]_repoVars /\ RepoFairness

-----------------------------------------------------------------------------
(* Properties.                                                              *)

\* What a search or a download finds through the index is a complete file whose
\* digest is the entry's, although files are written outside the lock and a scan
\* indexes whatever lies in the directory.  Excepted are paths a user deleted, or
\* failed to delete, while somebody was about to register them.
EntriesAreHonest ==
  \A p \in Paths :
    index[p] # None /\ Exists(p) /\ p \notin stale \cup robbed => p \in whole /\ index[p].sha = bytes[p]

\* Who was told that a package is stored has it, file and entry, until somebody
\* deletes it; who was told that it is not (the files of a batch apart, which stay)
\* left no file; and an edit of an entry is not undone by another's change of the
\* index, except by the registration of that very path.  Excepted is also what an
\* index that could not be read has lost.
AnswersAreTrue ==
  /\ \A w \in Writers :
       /\ stage[w] = "accepted" /\ w \notin deleted /\ path[w] \notin robbed =>
            /\ bytes[path[w]] = w /\ path[w] \in whole
            /\ w \notin forgotten => index[path[w]] # None /\ index[path[w]].sha = w
       /\ stage[w] = "refused" /\ w \notin Batches => \A p \in Paths : bytes[p] # w
  /\ \A p \in edits : index[p] # None /\ index[p].edited

\* Index, files and what was answered tell the same.
RepositoryIsTrue == EntriesAreHonest /\ AnswersAreTrue

\* Whatever interleaves, fails or dies, an upload, a publication and a search end, and
\* none keeps the lock.
RequestsEnd ==
  /\ \A w \in Writers : stage[w] \in Underway ~> stage[w] \notin Underway
  /\ \A s \in Searches : search[s] = "pruning" ~> search[s] = "done"
=============================================================================
