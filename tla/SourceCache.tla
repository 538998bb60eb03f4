---------------------------- MODULE SourceCache -----------------------------
(***************************************************************************)
(* What is kept of a source file: CacheMgr::readCache (cachemgr.cpp) for   *)
(* the files of the configuration and of modules, Dispatch::loadRoutes     *)
(* (dispatch.cpp) for those of routes, over a DirCache with its memory     *)
(* layer.  Several requests read one file while it is edited; a call is    *)
(* several steps, between which the file, the package on disk and the time *)
(* may change.  What a step on the disk consists of is in module DirCache. *)
(***************************************************************************)
EXTENDS Naturals

CONSTANTS
  Worker,     \* processes, each with one request at a time
  MaxVer,     \* bound: versions of the source file
  MaxTime,    \* bound: seconds
  Slack,      \* seconds a file may be younger than its package: 3
  MaxRun,     \* no request takes longer
  Options,    \* settings of keep_local_, defer_write_ and ttl_
  None        \* no package, no version, no time, nobody

ASSUME SourceCacheAssumption ==
  /\ MaxVer \in Nat \ {0} /\ MaxTime \in Nat
  /\ Slack \in Nat /\ MaxRun \in Nat
  /\ Options \subseteq [keep : BOOLEAN, defer : BOOLEAN, ttl : Nat \ {0}]
  /\ None \notin [ver : 1 .. MaxVer, stored : Nat, saved : BOOLEAN]
  /\ None \notin Nat

VARIABLES
  opt,        \* the options of the cache
  now,        \* the clock
  file,       \* the source file: version, whether it is there, its time
  restored,   \* ghost: a file that keeps an older time was put in its place
  past,       \* ghost: when a version stopped being what the file says
  disk,       \* the package on disk
  q,          \* what each request is doing
  answer      \* ghost: what the last step answered a request, and how

vars == <<opt, now, file, restored, past, disk, q, answer>>

Version == 1 .. MaxVer
Time    == 0 .. MaxTime
Package == [ver : Version, stored : Time, saved : BOOLEAN]
File    == [ver : Version, there : BOOLEAN, mtime : Time]
\* A call of readCache ("config") or of loadRoutes ("routes").
Kind    == {"config", "routes"}
At      == {"idle", "run", "date", "look", "drop", "read", "set"}
\* local: the memory layer.  hand: the package getCached gave.  got: the
\* version that was read from the file.  stat: the time PHP remembers.
Request == [at : At, kind : Kind, started : Time, local : Package \cup {None},
            hand : Package \cup {None}, got : Version \cup {None},
            mtime : Time, stat : Time \cup {None}]
Fresh   == [at |-> "idle", kind |-> "config", started |-> 0, local |-> None,
            hand |-> None, got |-> None, mtime |-> 0, stat |-> None]
\* stored: the stamp of the package the answer comes from, if from one.
Answer   == [to : Worker \cup {None}, ver : Version \cup {None}, time : Time,
             stored : Time \cup {None}]
NoAnswer == [to |-> None, ver |-> None, time |-> 0, stored |-> None]

\* The file says something else by now, or nothing.
Gone(v) == v < file.ver \/ ~file.there

Says(w, v, stored) ==
  answer' = [to |-> w, ver |-> v, time |-> now, stored |-> stored]

\* There is no answer, or it is an error.
Silent == answer' = NoAnswer

Init ==
  /\ opt \in Options
  /\ now = 0
  /\ file = [ver |-> 1, there |-> TRUE, mtime |-> 0]
  /\ restored = FALSE
  /\ past = [v \in Version |-> 0]
  /\ disk = None
  /\ q = [w \in Worker |-> Fresh]
  /\ answer = NoAnswer
-----------------------------------------------------------------------------
(* The file, and the clock.                                                *)

\* The file is written anew, or one is put in its place that keeps an older
\* time, as a copy may.
Change(m) ==
  /\ file.ver < MaxVer
  /\ file' = [ver |-> file.ver + 1, there |-> TRUE, mtime |-> m]
  /\ restored' = (restored \/ m < now)
  /\ past' = IF file.there THEN [past EXCEPT ![file.ver] = now] ELSE past
  /\ UNCHANGED <<opt, now, disk, q>> /\ Silent

Remove ==
  /\ file.there
  /\ file' = [file EXCEPT !.there = FALSE]
  /\ UNCHANGED restored
  /\ past' = [past EXCEPT ![file.ver] = now]
  /\ UNCHANGED <<opt, now, disk, q>> /\ Silent

Tick ==
  /\ now < MaxTime
  /\ \A w \in Worker : q[w].at # "idle" => now < q[w].started + MaxRun
  /\ now' = now + 1
  /\ UNCHANGED <<opt, file, restored, past, disk, q>> /\ Silent
-----------------------------------------------------------------------------
(* A request.                                                              *)
Begin(w) ==
  /\ q[w].at = "idle"
  /\ q' = [q EXCEPT ![w] = [Fresh EXCEPT !.at = "run", !.started = now]]
  /\ UNCHANGED <<opt, now, file, restored, past, disk>> /\ Silent

\* filemtime() and file_exists() may answer from what PHP remembers of the
\* last file it looked at.  A file that is not there has no time.
Looks(w) == (IF file.there THEN {file.mtime} ELSE {})
            \cup ({q[w].stat} \ {None})

Steps(w, to) == q' = [q EXCEPT ![w] = to]

\* The call ends; the request goes on.
Ends(w, r) ==
  Steps(w, [r EXCEPT !.at = "run", !.kind = "config", !.hand = None, !.mtime = 0])

\* file_exists; loadRoutes asks for the file's time before it looks for a
\* package.
Ask(w, kind) ==
  /\ q[w].at = "run"
  /\ \/ /\ ~file.there
        /\ Steps(w, [q[w] EXCEPT !.got = None])
        /\ Silent
     \/ \E m \in Looks(w) :
          /\ Steps(w, [q[w] EXCEPT !.at = "look", !.kind = kind, !.got = None,
                         !.mtime = IF kind = "routes" THEN m ELSE 0, !.stat = m])
          /\ Silent
  /\ UNCHANGED <<opt, now, file, restored, past, disk>>

\* mutant: the expiry of a package is not looked at
AnyPackage(w) ==
  IF opt.keep /\ q[w].local # None THEN q[w].local ELSE disk

\* mutant: the disk first
DiskFirst(w) ==
  IF disk # None /\ disk.stored + opt.ttl > now THEN disk
  ELSE IF opt.keep THEN q[w].local ELSE None

\* DirCache::getCached: the memory layer first, whatever the age of what it
\* holds; a package from disk is not added to it.
Cached(w) ==
  IF opt.keep /\ q[w].local # None THEN q[w].local
  ELSE IF disk # None /\ disk.stored + opt.ttl > now THEN disk
  ELSE None

\* loadRoutes has the time of the file already, and allows no slack.
Look(w) ==
  /\ q[w].at = "look"
  /\ LET p == Cached(w)
         s == [q[w] EXCEPT !.hand = p]
     IN  \/ /\ p = None
            /\ Steps(w, [s EXCEPT !.at = "read"])
            /\ Silent
         \/ /\ p # None /\ q[w].kind = "config"
            /\ Steps(w, [s EXCEPT !.at = "date"])
            /\ Silent
         \/ /\ p # None /\ q[w].kind = "routes" /\ p.stored < q[w].mtime
            /\ Steps(w, [s EXCEPT !.at = "drop"])
            /\ Silent
         \/ /\ p # None /\ q[w].kind = "routes" /\ p.stored >= q[w].mtime
            /\ Ends(w, s)
            /\ Says(w, p.ver, p.stored)
  /\ UNCHANGED <<opt, now, file, restored, past, disk>>

\* mutant: a second more
Lenient(p, m) == m <= p.stored + Slack + 1

Current(p, m) == m <= p.stored + Slack

\* readCache asks for the file's time when it has a package; 0 when there is
\* no file any more.
Date(w) ==
  /\ q[w].at = "date"
  /\ \E m \in Looks(w) \cup IF file.there THEN {} ELSE {0} :
       LET s == [q[w] EXCEPT !.stat = IF m \in Looks(w) THEN m ELSE None] IN
       IF Current(q[w].hand, m)
       THEN /\ Ends(w, s)
            /\ Says(w, q[w].hand.ver, q[w].hand.stored)
       ELSE /\ Steps(w, [s EXCEPT !.at = "drop"])
            /\ Silent
  /\ UNCHANGED <<opt, now, file, restored, past, disk>>

\* deleteKey: whatever package is on disk by now; the memory layer keeps its
\* own.
Drop(w) ==
  /\ q[w].at = "drop"
  /\ disk' = None
  /\ Steps(w, [q[w] EXCEPT !.at = "read", !.stat = None])
  /\ UNCHANGED <<opt, now, file, restored, past>> /\ Silent

\* readFile, which also fails when what it finds cannot be read.
Read(w) ==
  /\ q[w].at = "read"
  /\ \/ /\ Ends(w, q[w])
        /\ Silent
     \/ /\ file.there /\ q[w].kind = "config"
        /\ Steps(w, [q[w] EXCEPT !.at = "set", !.got = file.ver])
        /\ Silent
     \/ /\ file.there /\ q[w].kind = "routes"
        /\ Ends(w, [q[w] EXCEPT !.got = file.ver])
        /\ Says(w, file.ver, None)
  /\ UNCHANGED <<opt, now, file, restored, past, disk>>

Stamped(p) == [p EXCEPT !.stored = now, !.saved = TRUE]

\* writePkg: the package is on disk, or its directory cannot be made, or
\* fopen fails and nobody is told.
Write(p, how) ==
  /\ how \in {"written", "lost", "refused"}
  /\ disk' = IF how = "written" THEN Stamped(p) ELSE disk

Kept(p, how) == IF how = "refused" THEN p ELSE Stamped(p)

\* DirCache::set
Store(w, how) ==
  LET p == [ver |-> q[w].got, stored |-> now, saved |-> FALSE] IN
  IF opt.keep /\ opt.defer
  THEN /\ how = "written"
       /\ Ends(w, [q[w] EXCEPT !.got = None, !.local = p])
       /\ UNCHANGED disk
  ELSE /\ Write(p, how)
       /\ Ends(w, [q[w] EXCEPT !.got = None, !.stat = None,
                     !.local = IF opt.keep THEN Kept(p, how) ELSE @])

\* readCache: what cannot be kept is not answered either.
Set(w) ==
  /\ q[w].at = "set"
  /\ \E how \in {"written", "lost", "refused"} :
       /\ Store(w, how)
       /\ IF how = "refused" THEN Silent
          ELSE Says(w, q[w].got, None)
  /\ UNCHANGED <<opt, now, file, restored, past>>

\* A script keeps the routes that loadRoutes gave it.
SetRoutes(w) ==
  /\ q[w].at = "run" /\ q[w].got # None
  /\ \E how \in {"written", "lost", "refused"} : Store(w, how)
  /\ UNCHANGED <<opt, now, file, restored, past>> /\ Silent

\* clearRouteCache and clearAll: the files go, what is in memory stays.
Clear(w) ==
  /\ q[w].at = "run"
  /\ disk' = None
  /\ UNCHANGED <<opt, now, file, restored, past, q>> /\ Silent

\* deleteExpired scans at every call: the mark that should keep it from it is
\* written under another key.
DeleteExpired(w) ==
  /\ q[w].at = "run"
  /\ disk' = IF disk # None /\ disk.stored + opt.ttl < now THEN None ELSE disk
  /\ Steps(w, [q[w] EXCEPT !.local =
                 IF @ # None /\ @.stored + opt.ttl < now THEN None ELSE @])
  /\ UNCHANGED <<opt, now, file, restored, past>> /\ Silent

\* Run::shutdown and flush_caches: what is not saved is stamped and written.
\* A request that ends otherwise loses it.
End(w) ==
  /\ q[w].at # "idle"
  /\ \/ /\ q[w].at = "run" /\ q[w].local # None /\ ~q[w].local.saved
        /\ \E how \in {"written", "lost", "refused"} : Write(q[w].local, how)
     \/ UNCHANGED disk
  /\ Steps(w, Fresh)
  /\ UNCHANGED <<opt, now, file, restored, past>> /\ Silent
-----------------------------------------------------------------------------
Next ==
  \/ \E m \in 0 .. now : Change(m)
  \/ Remove \/ Tick
  \/ \E w \in Worker :
       \/ Begin(w)
       \/ \E kind \in Kind : Ask(w, kind)
       \/ Look(w) \/ Date(w) \/ Drop(w) \/ Read(w) \/ Set(w)
       \/ SetRoutes(w) \/ Clear(w) \/ DeleteExpired(w) \/ End(w)

Spec == Init /\ [][Next]_vars
-----------------------------------------------------------------------------
TypeOK ==
  /\ opt \in Options
  /\ now \in Time
  /\ file \in File
  /\ restored \in BOOLEAN
  /\ past \in [Version -> Time]
  /\ disk \in Package \cup {None}
  /\ q \in [Worker -> Request]
  /\ answer \in Answer

(* Whatever its options, its races and the times of its files, the cache   *)
(* gives out no version for longer than a package is good after the file   *)
(* has changed, and the time of the two requests that wrote and read it.   *)
BoundedStaleness ==
  answer.ver # None /\ Gone(answer.ver) =>
    answer.time < past[answer.ver] + opt.ttl + 2 * MaxRun

(* A request that began after a change is given what the file said before  *)
(* only if the package was stamped after it or no more than Slack before,  *)
(* unless files keep older times or this one is taken away meanwhile.      *)
StaleHasCause ==
  /\ answer.stored # None /\ Gone(answer.ver) /\ file.there /\ ~restored
  /\ past[answer.ver] < q[answer.to].started
  => past[answer.ver] <= answer.stored + Slack

(* With the memory layer a request never gets a version that is older than *)
(* the one it has kept itself, whatever other requests write.              *)
OwnNotOlder ==
  answer.ver # None /\ opt.keep /\ q[answer.to].local # None =>
    answer.ver >= q[answer.to].local.ver
=============================================================================
