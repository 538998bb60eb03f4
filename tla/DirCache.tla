------------------------------ MODULE DirCache ------------------------------
(***************************************************************************)
(* The file cache of wcc (dircache.cpp over icache.cpp and                 *)
(* icachedata.cpp) as it is shared by the worker processes of one site.    *)
(* Every worker owns a memory layer, cached_; all of them share one        *)
(* directory of package files and the wall clock.  One action is one       *)
(* system call a worker makes, because another worker, or a crash, can     *)
(* come between any two of them: no file is ever locked or renamed.        *)
(*                                                                         *)
(* A package file is three records in this order: the expiry line, the     *)
(* length line and the serialised package.  A value is identified with     *)
(* the number of the package that carries it.                              *)
(***************************************************************************)
EXTENDS Naturals, FiniteSets

CONSTANTS
  Worker,       \* the PHP processes
  Key,          \* cache keys
  SessionKey,   \* keys only written through ICache::setCached (SysCache::write)
  MayWrite,     \* [Key -> SUBSET Worker]: who writes which key
  Options,      \* option records a cache may be constructed with
  Ttl,          \* times to live a caller may ask for
  Inode,        \* identities of files, one more than can be in use
  RootDir,      \* cache_dir_ itself
  None,         \* nothing: no file, no cell, no package
  MaxTime,      \* bound on the clock
  MaxVer        \* bound on the packages constructed

\* ICacheData: ver stands for the data.
Package == [ver : Nat, ttl : Nat, stored : Nat, saved : BOOLEAN]
Cells   == [exp : Nat \cup {None}, len : Nat \cup {None},
            body : Package \cup {None}]
Option  == [keepLocal : BOOLEAN, deferWrite : BOOLEAN, dirTree : BOOLEAN]

ASSUME ConstantsAssumption ==
  /\ SessionKey \subseteq Key
  /\ MayWrite \in [Key -> SUBSET Worker]
  /\ Options \subseteq Option
  /\ Ttl \subseteq Nat
  /\ MaxTime \in Nat /\ MaxVer \in Nat
  /\ RootDir \notin Key

ASSUME NoneAssumption ==
  /\ None \notin Nat
  /\ None \notin Package
  /\ None \notin Inode
  /\ None \notin Key

VARIABLES
  now,      \* time(nullptr)
  opt,      \* the options of the cache
  dirs,     \* the directories that exist
  entry,    \* directory entries: the file a key's path names
  file,     \* contents of the files, by inode
  local,    \* cached_ of each worker
  pc,       \* the system call each worker makes next
  key,      \* the key it works on
  job,      \* the package it writes
  fd,       \* the file it has open
  todo,     \* what is left of a flush, a scan or a clear
  hit,      \* the paths a deleteExpired scan collected
  buf,      \* what a reader's stream has buffered
  clk,      \* the time a reader sampled
  nver,     \* packages constructed so far
  last,     \* ghost: the newest version whose write was completed, by key
  valid,    \* ghost: versions a read may return while nobody writes, by key
  olds,     \* ghost: the versions a write in progress replaces
  base,     \* ghost: valid[key] when the read began
  over      \* ghost: the versions being written while the read runs

store == <<dirs, entry, file>>
ghost == <<base, over>>
hist  == <<last, valid, olds>>
read  == <<buf, clk, base, over>>
ctl   == <<todo, hit>>
vars  == <<now, opt, dirs, entry, file, local, pc, key, job, fd, todo, hit,
           buf, clk, nver,
           last, valid, olds, base, over>>

Blank == [exp |-> None, len |-> None, body |-> None]

Expiry(p) == p.stored + p.ttl

\* getDirectory: with dirtree each key has a directory of its own (two
\* different hashes almost never share their first two bytes).
Dir(k) == IF opt.dirTree THEN k ELSE RootDir

WritePc == {"wexp", "wlen", "wbody"}
JobPc   == WritePc \cup {"checkdir", "mkdir", "open"}
ReadPc  == {"ropen", "rexp", "rlen", "rbody", "got"}
Pc      == JobPc \cup ReadPc \cup {"idle", "flush", "scan", "reap", "clear",
                                   "rmdir"}

Writing(w, k) == pc[w] \in WritePc /\ key[w] = k
Whole(f) == f # None /\ file[f].body # None
DiskVer(k) == IF Whole(entry[k]) THEN file[entry[k]].body.ver ELSE 0

Init ==
  /\ now = 0
  /\ opt \in Options
  /\ dirs \in {{}, {RootDir}}
  /\ entry = [k \in Key |-> None]
  /\ file = [f \in Inode |-> Blank]
  /\ local = [w \in Worker |-> [k \in Key |-> None]]
  /\ pc = [w \in Worker |-> "idle"]
  /\ key = [w \in Worker |-> None]
  /\ job = [w \in Worker |-> None]
  /\ fd = [w \in Worker |-> None]
  /\ todo = [w \in Worker |-> {}]
  /\ hit = [w \in Worker |-> {}]
  /\ buf = [w \in Worker |-> Blank]
  /\ clk = [w \in Worker |-> 0]
  /\ nver = 0
  /\ last = [k \in Key |-> 0]
  /\ valid = [k \in Key |-> {}]
  /\ olds = [w \in Worker |-> {}]
  /\ base = [w \in Worker |-> {}]
  /\ over = [w \in Worker |-> {}]
-----------------------------------------------------------------------------
(* Writing a package: set, setCached, writePkg.                            *)

NewPackage(ttl) ==
  [ver |-> nver + 1, ttl |-> ttl, stored |-> now, saved |-> FALSE]

\* DirCache::set: with keep-local the package goes to the memory layer, and
\* only there when writes are deferred; else writePkg runs on it.
Set(w, k, ttl) ==
  /\ pc[w] = "idle"
  /\ k \in Key \ SessionKey /\ w \in MayWrite[k] /\ nver < MaxVer
  /\ nver' = nver + 1
  /\ local' = IF opt.keepLocal
              THEN [local EXCEPT ![w][k] = NewPackage(ttl)] ELSE local
  /\ IF opt.keepLocal /\ opt.deferWrite
     THEN UNCHANGED <<pc, key, job>>
     ELSE /\ pc' = [pc EXCEPT ![w] = "checkdir"]
          /\ key' = [key EXCEPT ![w] = k]
          /\ job' = [job EXCEPT ![w] = NewPackage(ttl)]
  /\ UNCHANGED <<now, opt, store, fd, ctl, read, hist>>

\* ICache::setCached is not overridden: whatever the options, it only fills
\* the memory layer.
SetCached(w, k, ttl) ==
  /\ pc[w] = "idle"
  /\ k \in SessionKey /\ w \in MayWrite[k] /\ nver < MaxVer
  /\ nver' = nver + 1
  /\ local' = [local EXCEPT ![w][k] = NewPackage(ttl)]
  /\ UNCHANGED <<now, opt, store, pc, key, job, fd, ctl, read, hist>>

\* mutant: setStored forgets the time
StampedWithoutTime(w) == [job[w] EXCEPT !.stored = None, !.saved = TRUE]

\* ICacheData::setStored on the package being written.  The memory layer
\* holds the same object, so it sees the stamp too.
Stamped(w) == [job[w] EXCEPT !.stored = now, !.saved = TRUE]

Stamp(w) ==
  /\ job' = [job EXCEPT ![w] = Stamped(w)]
  /\ local' = IF /\ local[w][key[w]] # None
                 /\ local[w][key[w]].ver = job[w].ver
              THEN [local EXCEPT ![w][key[w]] = Stamped(w)] ELSE local
  /\ pc' = [pc EXCEPT ![w] = "open"]

\* Where writePkg returns to: flushCached's loop, or the caller.
WriteReturns(w) ==
  /\ pc' = [pc EXCEPT ![w] = IF key[w] \in todo[w] THEN "flush" ELSE "idle"]
  /\ todo' = [todo EXCEPT ![w] = @ \ {key[w]}]
  /\ job' = [job EXCEPT ![w] = None]
  /\ key' = [key EXCEPT ![w] = None]
  /\ fd' = [fd EXCEPT ![w] = None]

\* is_dir finds the directory
CheckDir(w) ==
  /\ pc[w] = "checkdir"
  /\ IF Dir(key[w]) \in dirs
     THEN Stamp(w)
     ELSE /\ pc' = [pc EXCEPT ![w] = "mkdir"]
          /\ UNCHANGED <<job, local>>
  /\ UNCHANGED <<now, opt, store, key, fd, ctl, read, nver, hist>>

Mkdir(w) ==
  /\ pc[w] = "mkdir" /\ Dir(key[w]) \notin dirs
  /\ dirs' = dirs \cup {Dir(key[w]), RootDir}
  /\ Stamp(w)
  /\ UNCHANGED <<now, opt, entry, file, key, fd, ctl, read, nver, hist>>

\* another worker made the directory first: mkdir fails, nothing is written
MkdirFails(w) ==
  /\ pc[w] = "mkdir" /\ Dir(key[w]) \in dirs
  /\ WriteReturns(w)
  /\ UNCHANGED <<now, opt, store, local, hit, read, nver, hist>>

InUse == {entry[k] : k \in Key} \cup {fd[w] : w \in Worker}
Free  == Inode \ InUse
\* ghost: readers of k learn of a write that overlaps them
Overlap(k, v) ==
  over' = [r \in Worker |-> IF pc[r] \in ReadPc /\ key[r] = k
                            THEN over[r] \cup {v} ELSE over[r]]

\* mutant: the file is opened for update, not truncated
NotTruncated(f) == file

Truncated(f) == [file EXCEPT ![f] = Blank]

\* fopen(file_name, "w"): truncates the file in place, or creates one.
Open(w) ==
  /\ pc[w] = "open" /\ Dir(key[w]) \in dirs
  /\ \/ entry[key[w]] # None
     \/ Free # {}
  /\ LET f == IF entry[key[w]] # None THEN entry[key[w]]
              ELSE CHOOSE g \in Free : TRUE
     IN  /\ entry' = [entry EXCEPT ![key[w]] = f]
         /\ file' = Truncated(f)
         /\ fd' = [fd EXCEPT ![w] = f]
  /\ pc' = [pc EXCEPT ![w] = "wexp"]
  /\ Overlap(key[w], job[w].ver)
  /\ olds' = [olds EXCEPT ![w] = valid[key[w]]]
  /\ UNCHANGED <<now, opt, dirs, local, key, job, ctl, buf, clk, nver, last,
                 valid, base>>

\* the directory went away since is_dir: nothing is written, and writePkg
\* still returns true
OpenFails(w) ==
  /\ pc[w] = "open" /\ Dir(key[w]) \notin dirs
  /\ WriteReturns(w)
  /\ UNCHANGED <<now, opt, store, local, hit, read, nver, hist>>

WriteExpiry(w) ==
  /\ pc[w] = "wexp"
  /\ file' = [file EXCEPT ![fd[w]].exp = Expiry(job[w])]
  /\ pc' = [pc EXCEPT ![w] = "wlen"]
  /\ UNCHANGED <<now, opt, dirs, entry, local, key, job, fd, ctl, read, nver, hist>>

WriteLength(w) ==
  /\ pc[w] = "wlen"
  /\ file' = [file EXCEPT ![fd[w]].len = job[w].ver]
  /\ pc' = [pc EXCEPT ![w] = "wbody"]
  /\ UNCHANGED <<now, opt, dirs, entry, local, key, job, fd, ctl, read, nver, hist>>

WriteBody(w) ==
  /\ pc[w] = "wbody"
  /\ file' = [file EXCEPT ![fd[w]].body = job[w]]
  /\ last' = [last EXCEPT ![key[w]] = job[w].ver]
  /\ valid' = [valid EXCEPT ![key[w]] = (@ \ olds[w]) \cup {job[w].ver}]
  /\ olds' = [olds EXCEPT ![w] = {}]
  /\ WriteReturns(w)
  /\ UNCHANGED <<now, opt, dirs, entry, local, hit, read, nver>>
-----------------------------------------------------------------------------
(* flushCached at the end of a request: each unsaved package is written,   *)
(* then the memory layer is dropped, whether or not the writes succeeded.  *)

\* mutant: flushes what was saved before, too
UnsavedOrNot(w) == {k \in Key : local[w][k] # None}

Unsaved(w) == {k \in Key : local[w][k] # None /\ ~local[w][k].saved}

FlushStart(w) ==
  /\ pc[w] = "idle" /\ \E k \in Key : local[w][k] # None
  /\ pc' = [pc EXCEPT ![w] = "flush"]
  /\ todo' = [todo EXCEPT ![w] = Unsaved(w)]
  /\ UNCHANGED <<now, opt, store, local, key, job, fd, hit, read, nver, hist>>

FlushNext(w) ==
  /\ pc[w] = "flush"
  /\ \E k \in todo[w] :
       /\ key' = [key EXCEPT ![w] = k]
       /\ job' = [job EXCEPT ![w] = local[w][k]]
  /\ pc' = [pc EXCEPT ![w] = "checkdir"]
  /\ UNCHANGED <<now, opt, store, local, fd, ctl, read, nver, hist>>

FlushEnd(w) ==
  /\ pc[w] = "flush" /\ todo[w] = {}
  /\ local' = [local EXCEPT ![w] = [k \in Key |-> None]]
  /\ pc' = [pc EXCEPT ![w] = "idle"]
  /\ UNCHANGED <<now, opt, store, key, job, fd, ctl, read, nver, hist>>
-----------------------------------------------------------------------------
(* getCached.                                                              *)

ReadReturns(w) ==
  /\ pc' = [pc EXCEPT ![w] = "idle"]
  /\ fd' = [fd EXCEPT ![w] = None]
  /\ key' = [key EXCEPT ![w] = None]
  /\ buf' = [buf EXCEPT ![w] = Blank]
  /\ clk' = [clk EXCEPT ![w] = 0]
  /\ base' = [base EXCEPT ![w] = {}]
  /\ over' = [over EXCEPT ![w] = {}]

\* A package of the memory layer, or a key without a file, returns at once;
\* otherwise the clock has been sampled and is_file has found the path.
GetCached(w, k) ==
  /\ pc[w] = "idle"
  /\ IF (opt.keepLocal /\ local[w][k] # None) \/ entry[k] = None
     THEN UNCHANGED <<pc, key, read>>
     ELSE /\ pc' = [pc EXCEPT ![w] = "ropen"]
          /\ key' = [key EXCEPT ![w] = k]
          /\ clk' = [clk EXCEPT ![w] = now]
          /\ base' = [base EXCEPT ![w] = valid[k]]
          /\ over' = [over EXCEPT ![w] =
                {job[x].ver : x \in {y \in Worker : Writing(y, k)}}]
          /\ UNCHANGED buf
  /\ UNCHANGED <<now, opt, store, local, job, fd, ctl, nver, hist>>

ReadOpen(w) ==
  /\ pc[w] = "ropen"
  /\ IF entry[key[w]] = None
     THEN ReadReturns(w)
     ELSE /\ pc' = [pc EXCEPT ![w] = "rexp"]
          /\ fd' = [fd EXCEPT ![w] = entry[key[w]]]
          /\ UNCHANGED <<key, buf, clk, ghost>>
  /\ UNCHANGED <<now, opt, store, local, job, ctl, nver, hist>>

\* mutant: a package is still served in the second it expires
LiveOrExpiring(c, t) == c.exp # None /\ c.exp >= t

\* the expiry line parses and is in the future
Live(c, t) == c.exp # None /\ c.exp > t

\* The first fgets fills the stream's buffer with all the file has so far.
ReadExpiry(w) ==
  /\ pc[w] = "rexp"
  /\ LET c == file[fd[w]] IN
       IF Live(c, clk[w])
       THEN /\ pc' = [pc EXCEPT ![w] = "rlen"]
            /\ buf' = [buf EXCEPT ![w] = c]
            /\ UNCHANGED <<key, fd, clk, ghost>>
       ELSE ReadReturns(w)
  /\ UNCHANGED <<now, opt, store, local, job, ctl, nver, hist>>

\* The second fgets goes back to the file only when nothing is buffered
\* behind the first line.
ReadLength(w) ==
  /\ pc[w] = "rlen"
  /\ LET b == IF buf[w].len = None /\ buf[w].body = None
              THEN [file[fd[w]] EXCEPT !.exp = buf[w].exp] ELSE buf[w]
     IN  IF b.len # None
         THEN /\ pc' = [pc EXCEPT ![w] = "rbody"]
              /\ buf' = [buf EXCEPT ![w] = b]
              /\ UNCHANGED <<key, fd, clk, ghost>>
         ELSE ReadReturns(w)
  /\ UNCHANGED <<now, opt, store, local, job, ctl, nver, hist>>

\* fread and unserialize.  With the length of another package the body may
\* be cut short, and then does not unserialize.
ReadBody(w) ==
  /\ pc[w] = "rbody"
  /\ LET b == IF buf[w].body = None THEN file[fd[w]].body ELSE buf[w].body
     IN  \/ /\ b # None
            /\ pc' = [pc EXCEPT ![w] = "got"]
            /\ buf' = [buf EXCEPT ![w].body = b]
            /\ UNCHANGED <<key, fd, clk, ghost>>
         \/ /\ b # None => b.ver # buf[w].len
            /\ ReadReturns(w)
  /\ UNCHANGED <<now, opt, store, local, job, ctl, nver, hist>>

\* the stream is closed and the package handed to the caller
Got(w) ==
  /\ pc[w] = "got"
  /\ ReadReturns(w)
  /\ UNCHANGED <<now, opt, store, local, job, ctl, nver, hist>>
-----------------------------------------------------------------------------
(* deleteKey, deleteExpired, clear.                                        *)

\* unlink: readers and writers of the old file keep it open
Unlink(k) ==
  /\ entry' = [entry EXCEPT ![k] = None]
  /\ valid' = [valid EXCEPT ![k] = {}]

\* mutant: deleteKey is inherited from ICache, and leaves the file
DeleteKeyInMemory(w, k) ==
  /\ pc[w] = "idle" /\ entry[k] # None
  /\ local' = [local EXCEPT ![w][k] = None]
  /\ valid' = [valid EXCEPT ![k] = {}]
  /\ UNCHANGED <<now, opt, store, pc, key, job, fd, ctl, read, nver, last,
                 olds>>

\* file_exists and unlink; the memory layer keeps its package
DeleteKey(w, k) ==
  /\ pc[w] = "idle" /\ entry[k] # None
  /\ Unlink(k)
  /\ UNCHANGED <<now, opt, dirs, file, local, pc, key, job, fd, ctl, read,
                 nver, last, olds>>

\* ICache::deleteExpired on the memory layer, then the directory listing
DeleteExpired(w) ==
  /\ pc[w] = "idle" /\ \E k \in Key : entry[k] # None
  /\ local' = [local EXCEPT ![w] = [k \in Key |->
                 IF @[k] # None /\ Expiry(@[k]) < now THEN None ELSE @[k]]]
  /\ todo' = [todo EXCEPT ![w] = {k \in Key : entry[k] # None}]
  /\ pc' = [pc EXCEPT ![w] = "scan"]
  /\ UNCHANGED <<now, opt, store, key, job, fd, hit, read, nver, hist>>

\* is_expired: reads the first line of one file
IsExpired(k) ==
  /\ entry[k] # None
  /\ file[entry[k]].exp # None
  /\ file[entry[k]].exp < now

Scan(w) ==
  /\ pc[w] = "scan"
  /\ \E k \in todo[w] :
       /\ todo' = [todo EXCEPT ![w] = @ \ {k}]
       /\ hit' = [hit EXCEPT ![w] = IF IsExpired(k) THEN @ \cup {k} ELSE @]
       /\ pc' = [pc EXCEPT ![w] = IF todo[w] = {k} THEN "reap" ELSE @]
  /\ UNCHANGED <<now, opt, store, local, key, job, fd, read, nver, hist>>

\* unlink what the scan collected, whatever is there by now
Reap(w) ==
  /\ pc[w] = "reap"
  /\ \/ /\ hit[w] = {}
        /\ pc' = [pc EXCEPT ![w] = "idle"]
        /\ UNCHANGED <<entry, valid, hit>>
     \/ \E k \in hit[w] :
          /\ Unlink(k)
          /\ hit' = [hit EXCEPT ![w] = @ \ {k}]
          /\ UNCHANGED pc
  /\ UNCHANGED <<now, opt, dirs, file, local, key, job, fd, todo, read, nver,
                 last, olds>>

\* Dos::rm_alldir lists the directory: files, or with dirtree directories
ClearStart(w) ==
  /\ pc[w] = "idle" /\ RootDir \in dirs
  /\ todo' = [todo EXCEPT ![w] =
                {k \in Key : IF opt.dirTree THEN k \in dirs ELSE entry[k] # None}]
  /\ todo'[w] # {}
  /\ pc' = [pc EXCEPT ![w] = "clear"]
  /\ UNCHANGED <<now, opt, store, local, key, job, fd, hit, read, nver, hist>>

ClearUnlink(w) ==
  /\ pc[w] = "clear"
  /\ \E k \in todo[w] :
       /\ Unlink(k)
       /\ IF opt.dirTree
          THEN /\ key' = [key EXCEPT ![w] = k]
               /\ pc' = [pc EXCEPT ![w] = "rmdir"]
               /\ UNCHANGED todo
          ELSE /\ todo' = [todo EXCEPT ![w] = @ \ {k}]
               /\ pc' = [pc EXCEPT ![w] = IF todo[w] = {k} THEN "idle" ELSE @]
               /\ UNCHANGED key
  /\ UNCHANGED <<now, opt, dirs, file, local, job, fd, hit, read, nver,
                 last, olds>>

\* rmdir of an emptied subdirectory; it fails when a file is there again
ClearRmdir(w) ==
  /\ pc[w] = "rmdir"
  /\ dirs' = IF entry[key[w]] = None THEN dirs \ {key[w]} ELSE dirs
  /\ todo' = [todo EXCEPT ![w] = @ \ {key[w]}]
  /\ pc' = [pc EXCEPT ![w] = IF todo[w] = {key[w]} THEN "idle" ELSE "clear"]
  /\ key' = [key EXCEPT ![w] = None]
  /\ UNCHANGED <<now, opt, entry, file, local, job, fd, hit, read, nver, hist>>
-----------------------------------------------------------------------------
(* A worker may be killed between any two steps; the next request starts   *)
(* with an empty memory layer.  What is on disk stays as it is.            *)

Crash(w) ==
  /\ pc[w] # "idle" \/ \E k \in Key : local[w][k] # None
  /\ local' = [local EXCEPT ![w] = [k \in Key |-> None]]
  /\ pc' = [pc EXCEPT ![w] = "idle"]
  /\ key' = [key EXCEPT ![w] = None]
  /\ job' = [job EXCEPT ![w] = None]
  /\ fd' = [fd EXCEPT ![w] = None]
  /\ todo' = [todo EXCEPT ![w] = {}]
  /\ hit' = [hit EXCEPT ![w] = {}]
  /\ buf' = [buf EXCEPT ![w] = Blank]
  /\ clk' = [clk EXCEPT ![w] = 0]
  /\ base' = [base EXCEPT ![w] = {}]
  /\ over' = [over EXCEPT ![w] = {}]
  /\ olds' = [olds EXCEPT ![w] = {}]
  /\ UNCHANGED <<now, opt, store, nver, last, valid>>

Tick ==
  /\ now < MaxTime
  /\ now' = now + 1
  /\ UNCHANGED <<opt, store, local, pc, key, job, fd, ctl, read, nver, hist>>

WriteStep(w) ==
  \/ CheckDir(w) \/ Mkdir(w) \/ MkdirFails(w) \/ Open(w) \/ OpenFails(w)
  \/ WriteExpiry(w) \/ WriteLength(w) \/ WriteBody(w)
  \/ FlushNext(w) \/ FlushEnd(w)
ReadStep(w) ==
  \/ ReadOpen(w) \/ ReadExpiry(w) \/ ReadLength(w) \/ ReadBody(w) \/ Got(w)
DeleteStep(w) ==
  \/ Scan(w) \/ Reap(w) \/ ClearUnlink(w) \/ ClearRmdir(w)
Call(w) ==
  \/ \E k \in Key, ttl \in Ttl : Set(w, k, ttl) \/ SetCached(w, k, ttl)
  \/ \E k \in Key : GetCached(w, k) \/ DeleteKey(w, k)
  \/ FlushStart(w) \/ DeleteExpired(w) \/ ClearStart(w)

Next ==
  \/ Tick
  \/ \E w \in Worker :
       Call(w) \/ WriteStep(w) \/ ReadStep(w) \/ DeleteStep(w) \/ Crash(w)

Spec == Init /\ [][Next]_vars
-----------------------------------------------------------------------------
DiskTypeOK ==
  /\ now \in Nat /\ nver \in Nat
  /\ opt \in Option
  /\ dirs \subseteq Key \cup {RootDir}
  /\ entry \in [Key -> Inode \cup {None}]
  /\ file \in [Inode -> Cells]

CallTypeOK ==
  /\ local \in [Worker -> [Key -> Package \cup {None}]]
  /\ pc \in [Worker -> Pc]
  /\ key \in [Worker -> Key \cup {None}]
  /\ job \in [Worker -> Package \cup {None}]
  /\ fd \in [Worker -> Inode \cup {None}]
  /\ todo \in [Worker -> SUBSET Key]
  /\ hit \in [Worker -> SUBSET Key]

ReadTypeOK ==
  /\ buf \in [Worker -> Cells]
  /\ clk \in [Worker -> Nat]
  /\ last \in [Key -> Nat]
  /\ valid \in [Key -> SUBSET Nat]
  /\ olds \in [Worker -> SUBSET Nat]
  /\ base \in [Worker -> SUBSET Nat]
  /\ over \in [Worker -> SUBSET Nat]

TypeOK == DiskTypeOK /\ CallTypeOK /\ ReadTypeOK

\* Keys at most one worker writes.
SoleKey == {k \in Key : \A x, y \in MayWrite[k] : x = y}

(* A whole file of a key with a single writer carries one package in all    *)
(* three records: no interleaving of readers, deletions, crashes and        *)
(* restarts leaves the expiry line of one package over the body of another. *)
FileWhole ==
  \A k \in SoleKey : Whole(entry[k]) =>
    LET c == file[entry[k]] IN c.exp = Expiry(c.body) /\ c.len = c.body.ver

(* A package read from a file is the one that was on disk when the read     *)
(* began, or one whose write overlapped the read: never one that had been   *)
(* overwritten or deleted before, and never a mixture.                      *)
ReadIsRegular ==
  \A w \in Worker :
    pc[w] = "got" => buf[w].body.ver \in base[w] \cup over[w]

(* For a key with a single writer, a package that was on disk when the read *)
(* began is only returned while it has not expired.                         *)
NoExpiredRead ==
  \A w \in Worker :
    /\ pc[w] = "got" /\ key[w] \in SoleKey
    /\ buf[w].body.ver \notin over[w]
    => Expiry(buf[w].body) > clk[w]

(* The files of single-writer keys implement a store that may lose packages *)
(* but never returns to an older one.                                       *)
Abstract == INSTANCE VersionedStore WITH
  Key     <- SoleKey,
  Version <- 1 .. MaxVer,
  store   <- [k \in SoleKey |-> DiskVer(k)],
  last    <- [k \in SoleKey |-> last[k]]

NeverGoesBack == Abstract!Spec
=============================================================================
