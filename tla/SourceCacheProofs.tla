------------------------- MODULE SourceCacheProofs --------------------------
(***************************************************************************)
(* For any number of workers, versions and settings: what the cache gives  *)
(* out was in the file less than Ttl and two requests ago, and a request   *)
(* that keeps packages in memory gets nothing older than its own.  The     *)
(* argument follows a version from the file through a request and the disk *)
(* into another request: when the file has left it, no request that holds  *)
(* it began later than that and no package of it was stamped later than a  *)
(* request after that.                                                     *)
(***************************************************************************)
EXTENDS SourceCache, TLAPS

\* s is no later than the time v left the file.
Before(v, s) == Gone(v) => s <= past[v]
\* s is less than one request and the life of a package later.
Within(v, s) == Gone(v) => s < past[v] + MaxRun + opt.ttl

DiskOK ==
  disk # None =>
    /\ disk.ver <= file.ver /\ disk.stored <= now
    /\ Gone(disk.ver) => disk.stored <= past[disk.ver] + MaxRun

LocalOK(r) ==
  r.local # None =>
    /\ r.local.ver <= file.ver /\ r.local.stored <= now
    /\ Before(r.local.ver, r.started)

GotOK(r) ==
  /\ r.at = "set" => r.got # None
  /\ r.got # None =>
       /\ r.got <= file.ver /\ Before(r.got, r.started)
       /\ opt.keep /\ r.local # None => r.local.ver <= r.got

HandOK(r) ==
  r.at = "date" =>
    /\ r.hand # None /\ r.hand.ver <= file.ver
    /\ Within(r.hand.ver, r.started)
    /\ opt.keep /\ r.local # None => r.local.ver <= r.hand.ver

\* What a request knows of the file's time is from after its beginning.
TimesOK(r) ==
  \A v \in Version :
    v <= file.ver /\ Gone(v) /\ past[v] < r.started /\ ~restored =>
      /\ r.stat # None => past[v] <= r.stat
      /\ r.at = "look" /\ r.kind = "routes" => past[v] <= r.mtime

ClockOK(r) == r.started <= now /\ (r.at # "idle" => now <= r.started + MaxRun)

RequestOK(r) == ClockOK(r) /\ LocalOK(r) /\ GotOK(r) /\ HandOK(r) /\ TimesOK(r)

Good == \A w \in Worker : RequestOK(q[w])

\* What has left the file did so by now, and before the file got its time.
PastOK ==
  \A v \in Version :
    /\ past[v] <= now
    /\ file.there /\ v < file.ver /\ ~restored => past[v] <= file.mtime

AnswerOK == BoundedStaleness /\ StaleHasCause /\ OwnNotOlder

IInv == TypeOK /\ DiskOK /\ PastOK /\ Good /\ AnswerOK
-----------------------------------------------------------------------------
LEMMA Types ==
  ASSUME TypeOK
  PROVE  /\ now \in Nat /\ MaxRun \in Nat /\ Slack \in Nat /\ MaxTime \in Nat
         /\ MaxVer \in Nat /\ opt.ttl \in Nat \ {0}
         /\ opt.keep \in BOOLEAN /\ opt.defer \in BOOLEAN
         /\ file.ver \in Nat /\ file.ver \in Version /\ file.there \in BOOLEAN
         /\ file.mtime \in Nat /\ file.mtime \in Time /\ restored \in BOOLEAN
         /\ \A v \in Version : past[v] \in Nat /\ v \in Nat
  BY SourceCacheAssumption DEF TypeOK, File, Time, Version

LEMMA PackageTypes ==
  ASSUME NEW p \in Package
  PROVE  /\ p # None /\ p.ver \in Version /\ p.ver \in Nat
         /\ p.stored \in Time /\ p.stored \in Nat
<1>1. p \in [ver : 1 .. MaxVer, stored : Nat, saved : BOOLEAN]
  BY DEF Package, Version, Time
<1>2. p # None
  BY <1>1, SourceCacheAssumption
<1> QED
  BY <1>2, SourceCacheAssumption DEF Package, Version, Time

LEMMA RequestTypes ==
  ASSUME NEW r \in Request
  PROVE  /\ r.started \in Time /\ r.started \in Nat
         /\ r.local # None => r.local \in Package
         /\ r.hand # None => r.hand \in Package
         /\ r.got # None => r.got \in Version /\ r.got \in Nat
         /\ r.stat # None => r.stat \in Time /\ r.stat \in Nat
         /\ r.mtime \in Nat
  BY SourceCacheAssumption DEF Request, Version, Time

\* A step without an answer spoils none.
LEMMA SilentIsFine ==
  ASSUME Silent
  PROVE  AnswerOK'
  BY DEF Silent, NoAnswer, AnswerOK, BoundedStaleness, StaleHasCause, OwnNotOlder

(* A version that has left the file does not come back.                    *)
LEMMA OnceGone ==
  ASSUME TypeOK, NEW m \in Time, Change(m) \/ Remove,
         NEW v \in Version, v <= file.ver
  PROVE  /\ v <= file'.ver
         /\ Gone(v) => past'[v] = past[v]
         /\ v < file'.ver \/ ~file'.there => Gone(v) \/ past'[v] = now
<1>1. CASE Remove
  <2>1. /\ file'.ver = file.ver /\ file'.there = FALSE /\ file.there
        /\ past' = [past EXCEPT ![file.ver] = now]
    BY <1>1 DEF Remove, TypeOK, File
  <2>2. past'[v] = IF v = file.ver THEN now ELSE past[v]
    BY <2>1 DEF TypeOK
  <2> QED
    BY <2>1, <2>2, Types DEF Gone
<1>2. CASE Change(m)
  <2>1. /\ file'.ver = file.ver + 1 /\ file'.there = TRUE
        /\ past' = IF file.there THEN [past EXCEPT ![file.ver] = now] ELSE past
    BY <1>2 DEF Change
  <2>2. past'[v] = IF v = file.ver /\ file.there THEN now ELSE past[v]
    BY <2>1 DEF TypeOK
  <2> QED
    BY <2>1, <2>2, Types DEF Gone
<1> QED
  BY <1>1, <1>2

(* What holds of a request goes on holding when the file changes.          *)
LEMMA ChangeKeepsRequest ==
  ASSUME TypeOK, PastOK, Good, NEW m \in Time, Change(m) \/ Remove,
         NEW w \in Worker
  PROVE  RequestOK(q[w])'
<1> DEFINE r == q[w]
<1>z. ~restored' => ~restored
  <2>1. restored \in BOOLEAN /\ (restored' = restored \/ restored' = (restored \/ m < now))
    BY DEF Change, Remove, TypeOK
  <2> QED
    BY <2>1
<1>u. q' = q /\ opt' = opt /\ now' = now
  BY DEF Change, Remove
<1>r. r \in Request /\ RequestOK(r)
  BY DEF TypeOK, Good
<1>1. \A v \in Version : v <= file.ver =>
        /\ v <= file'.ver
        /\ Gone(v) => past'[v] = past[v]
        /\ v < file'.ver \/ ~file'.there => Gone(v) \/ past'[v] = now
  BY OnceGone
<1>2. /\ r.started \in Nat /\ r.started <= now
      /\ r.local # None => r.local.ver \in Version
      /\ r.hand # None => r.hand.ver \in Version
      /\ r.got # None => r.got \in Version
  BY <1>r, RequestTypes, PackageTypes DEF RequestOK, ClockOK
<1>3. ClockOK(q[w])'
  BY <1>r, <1>u DEF RequestOK, ClockOK
<1>a. ASSUME NEW v \in Version, v <= file.ver, Before(v, r.started)
      PROVE  v < file'.ver \/ ~file'.there => r.started <= past'[v]
  BY <1>1, <1>2, <1>a, Types DEF Before
<1>b. ASSUME NEW v \in Version, v <= file.ver, Within(v, r.started)
      PROVE  v < file'.ver \/ ~file'.there => r.started < past'[v] + MaxRun + opt.ttl
  <2>1. CASE Gone(v)
    BY <2>1, <1>1, <1>b DEF Within
  <2>2. CASE ~Gone(v)
    <3>1. v < file'.ver \/ ~file'.there => past'[v] = now
      BY <2>2, <1>1, <1>b
    <3> QED
      BY <3>1, <1>2, Types
  <2> QED
    BY <2>1, <2>2
<1>4. LocalOK(q[w])'
  <2> SUFFICES ASSUME r.local # None
               PROVE  /\ r.local.ver <= file'.ver /\ r.local.stored <= now
                      /\ r.local.ver < file'.ver \/ ~file'.there =>
                           r.started <= past'[r.local.ver]
    BY <1>u DEF LocalOK, Before, Gone
  <2>1. r.local.ver <= file.ver /\ Before(r.local.ver, r.started)
        /\ r.local.stored <= now
    BY <1>r DEF RequestOK, LocalOK
  <2> QED
    BY <1>1, <1>2, <2>1, <1>a
<1>5. GotOK(q[w])'
  <2>1. r.got # None => r.got <= file.ver /\ Before(r.got, r.started)
    BY <1>r DEF RequestOK, GotOK
  <2>2. r.got # None => /\ r.got <= file'.ver
                        /\ r.got < file'.ver \/ ~file'.there => r.started <= past'[r.got]
    BY <1>1, <1>2, <2>1, <1>a
  <2> QED
    BY <1>u, <1>r, <2>2 DEF RequestOK, GotOK, Before, Gone
<1>6. HandOK(q[w])'
  <2>1. r.at = "date" => /\ r.hand # None /\ r.hand.ver <= file.ver
                         /\ Within(r.hand.ver, r.started)
    BY <1>r DEF RequestOK, HandOK
  <2>2. r.at = "date" =>
          /\ r.hand.ver <= file'.ver
          /\ r.hand.ver < file'.ver \/ ~file'.there =>
               r.started < past'[r.hand.ver] + MaxRun + opt.ttl
    BY <1>1, <1>2, <2>1, <1>b
  <2> QED
    BY <1>u, <1>r, <2>2 DEF RequestOK, HandOK, Within, Gone
<1>7. TimesOK(q[w])'
  <2> SUFFICES ASSUME NEW v \in Version, v <= file'.ver,
                      v < file'.ver \/ ~file'.there,
                      past'[v] < r.started, ~restored
               PROVE  /\ r.stat # None => past'[v] <= r.stat
                      /\ r.at = "look" /\ r.kind = "routes" => past'[v] <= r.mtime
    BY <1>u, <1>z DEF TimesOK, Gone
  <2>1. v <= file.ver
    <3>1. file'.ver = file.ver \/ (file'.ver = file.ver + 1 /\ file'.there)
      BY DEF Change, Remove, TypeOK, File
    <3> QED
      BY <3>1, Types
  <2>2. Gone(v) /\ past'[v] = past[v]
    <3>1. past'[v] # now
      BY <1>2, Types
    <3> QED
      BY <1>1, <2>1, <3>1
  <2> QED
    BY <2>1, <2>2, <1>r DEF RequestOK, TimesOK
<1> QED
  BY <1>3, <1>4, <1>5, <1>6, <1>7 DEF RequestOK

LEMMA ChangeKeeps ==
  ASSUME IInv, NEW m \in Time, m <= now, Change(m) \/ Remove
  PROVE  TypeOK' /\ DiskOK' /\ PastOK' /\ Good' /\ AnswerOK'
<1> USE DEF IInv
<1>0. now' = now /\ opt' = opt /\ disk' = disk /\ q' = q
  BY DEF Change, Remove
<1>a. AnswerOK'
  BY SilentIsFine DEF Change, Remove
<1>1. \A v \in Version : v <= file.ver =>
        /\ v <= file'.ver
        /\ Gone(v) => past'[v] = past[v]
        /\ v < file'.ver \/ ~file'.there => Gone(v) \/ past'[v] = now
  BY OnceGone
<1>2. file' \in File /\ past' \in [Version -> Time] /\ restored' \in BOOLEAN
  <2>1. file' \in File
    <3>1. CASE Remove
      BY <3>1 DEF Remove, TypeOK, File
    <3>2. CASE Change(m)
      <4>1. file.ver + 1 \in Version
        BY <3>2, Types DEF Change, Version
      <4> QED
        BY <3>2, <4>1 DEF Change, File
    <3> QED
      BY <3>1, <3>2
  <2>2. past' \in [Version -> Time]
    BY DEF Change, Remove, TypeOK
  <2>3. restored' \in BOOLEAN
    BY DEF Change, Remove, TypeOK
  <2> QED
    BY <2>1, <2>2, <2>3
<1>t. TypeOK'
  <2>1. answer' \in Answer
    BY SourceCacheAssumption DEF Change, Remove, Silent, NoAnswer, Answer, Time
  <2> QED
    BY <1>0, <1>2, <2>1 DEF TypeOK
<1>3. DiskOK'
  <2> SUFFICES ASSUME disk # None
               PROVE  /\ disk.ver <= file'.ver /\ disk.stored <= now
                      /\ disk.ver < file'.ver \/ ~file'.there =>
                           disk.stored <= past'[disk.ver] + MaxRun
    BY <1>0 DEF DiskOK, Gone
  <2>1. disk.ver \in Version /\ disk.stored \in Nat
    BY PackageTypes DEF TypeOK
  <2>2. /\ disk.ver <= file.ver /\ disk.stored <= now
        /\ Gone(disk.ver) => disk.stored <= past[disk.ver] + MaxRun
    BY DEF DiskOK
  <2>3. CASE Gone(disk.ver)
    BY <2>1, <2>2, <2>3, <1>1
  <2>4. CASE ~Gone(disk.ver)
    <3>1. disk.ver < file'.ver \/ ~file'.there => past'[disk.ver] = now
      BY <2>1, <2>2, <2>4, <1>1
    <3> QED
      BY <3>1, <2>1, <2>2, <1>1, Types
  <2> QED
    BY <2>3, <2>4
<1>4. PastOK'
  <2> SUFFICES ASSUME NEW v \in Version
               PROVE  /\ past'[v] <= now
                      /\ file'.there /\ v < file'.ver /\ ~restored' => past'[v] <= file'.mtime
    BY <1>0 DEF PastOK
  <2>1. past'[v] = now \/ past'[v] = past[v]
    BY DEF Change, Remove, TypeOK
  <2>2. past[v] <= now
    BY DEF PastOK
  <2>3. past'[v] <= now
    BY <2>1, <2>2, Types
  <2>4. file'.there /\ ~restored' => file'.mtime = now
    <3>1. CASE Remove
      BY <3>1 DEF Remove, TypeOK, File
    <3>2. CASE Change(m)
      <4>1. file'.mtime = m /\ restored' = (restored \/ m < now)
        BY <3>2 DEF Change
      <4>2. ~restored' => ~(m < now)
        BY <4>1
      <4>3. m \in Nat
        BY DEF Time
      <4>4. ~(m < now) => m = now
        BY <4>3, Types
      <4> QED
        BY <4>1, <4>2, <4>4
    <3> QED
      BY <3>1, <3>2
  <2> QED
    BY <2>3, <2>4, Types
<1>5. Good'
  BY ChangeKeepsRequest DEF Good
<1> QED
  BY <1>a, <1>t, <1>3, <1>4, <1>5

LEMMA TickKeeps ==
  ASSUME IInv, Tick
  PROVE  TypeOK' /\ DiskOK' /\ PastOK' /\ Good' /\ AnswerOK'
<1> USE DEF IInv
<1>0. /\ opt' = opt /\ disk' = disk /\ q' = q /\ file' = file /\ past' = past
      /\ restored' = restored /\ now' = now + 1 /\ now < MaxTime
  BY DEF Tick
<1>a. AnswerOK'
  BY SilentIsFine DEF Tick
<1>t. TypeOK'
  <2>1. answer' \in Answer
    BY SourceCacheAssumption DEF Tick, Silent, NoAnswer, Answer, Time
  <2>2. now' \in Time
    BY <1>0, Types DEF Time
  <2> QED
    BY <1>0, <2>1, <2>2 DEF TypeOK
<1>3. DiskOK'
  <2> SUFFICES ASSUME disk # None
               PROVE  disk.stored <= now + 1
    BY <1>0 DEF DiskOK, Gone
  <2> QED
    BY PackageTypes, Types DEF DiskOK, TypeOK
<1>4. PastOK'
  <2>1. \A v \in Version : past[v] <= now + 1
    BY Types DEF PastOK
  <2> QED
    BY <1>0, <2>1 DEF PastOK
<1>5. Good'
  <2> SUFFICES ASSUME NEW w \in Worker
               PROVE  RequestOK(q[w])'
    BY DEF Good
  <2>1. q[w] \in Request /\ RequestOK(q[w])
    BY DEF TypeOK, Good
  <2>2. ClockOK(q[w])'
    <3>1. q[w].at # "idle" => now < q[w].started + MaxRun
      BY DEF Tick
    <3>2. q[w].started <= now /\ q[w].started \in Nat
      BY <2>1, RequestTypes DEF RequestOK, ClockOK
    <3> QED
      BY <1>0, <3>1, <3>2, Types DEF ClockOK
  <2>3. LocalOK(q[w])'
    <3>1. q[w].local # None => q[w].local.stored <= now /\ q[w].local.stored \in Nat
      BY <2>1, RequestTypes, PackageTypes DEF RequestOK, LocalOK
    <3>2. q[w].local # None => q[w].local.stored <= now + 1
      BY <3>1, Types
    <3> QED
      BY <1>0, <2>1, <3>2 DEF RequestOK, LocalOK, Before, Gone
  <2>4. GotOK(q[w])' /\ HandOK(q[w])' /\ TimesOK(q[w])'
    BY <1>0, <2>1 DEF RequestOK, GotOK, HandOK, TimesOK, Before, Within, Gone
  <2> QED
    BY <2>2, <2>3, <2>4 DEF RequestOK
<1> QED
  BY <1>a, <1>t, <1>3, <1>4, <1>5
-----------------------------------------------------------------------------
(* What a step of a request w has to show: that r, which it becomes, is in *)
(* order, and the package on disk.                                         *)
Still == UNCHANGED <<opt, now, file, restored, past>>

LEMMA RequestSteps ==
  ASSUME IInv, Still, NEW w \in Worker, NEW r \in Request, Steps(w, r),
         RequestOK(r)
  PROVE  /\ q' \in [Worker -> Request] /\ q'[w] = r
         /\ Good' /\ PastOK'
<1> USE DEF IInv
<1>1. q' = [q EXCEPT ![w] = r] /\ q \in [Worker -> Request]
  BY DEF Steps, TypeOK
<1>2. q'[w] = r /\ q' \in [Worker -> Request]
  BY <1>1
<1>3. \A u \in Worker : RequestOK(q'[u])
  BY <1>1 DEF Good
<1>4. ASSUME NEW u \in Worker PROVE RequestOK(q[u])'
  <2>1. RequestOK(q'[u])
    BY <1>3
  <2>2. ClockOK(q[u])' /\ LocalOK(q[u])' /\ GotOK(q[u])'
    BY <2>1 DEF Still, RequestOK, ClockOK, LocalOK, GotOK, Before, Gone
  <2>3. HandOK(q[u])' /\ TimesOK(q[u])'
    BY <2>1 DEF Still, RequestOK, HandOK, TimesOK, Within, Gone
  <2> QED
    BY <2>2, <2>3 DEF RequestOK
<1>5. PastOK'
  BY DEF PastOK, Still
<1> QED
  BY <1>2, <1>4, <1>5 DEF Good

LEMMA DiskStill ==
  ASSUME DiskOK, Still, disk' \in {disk, None}
  PROVE  DiskOK'
  BY DEF DiskOK, Still, Gone

LEMMA WriteIsFine ==
  ASSUME IInv, Still, NEW s \in Nat, NEW p \in Package, p.ver <= file.ver,
         Before(p.ver, s), now <= s + MaxRun,
         NEW how, Write(p, how)
  PROVE  DiskOK' /\ disk' \in Package \cup {None}
<1> USE DEF IInv
<1>1. CASE disk' = disk
  BY <1>1, DiskStill DEF TypeOK
<1>2. CASE disk' = Stamped(p)
  <2>1. /\ Stamped(p) \in Package
        /\ Stamped(p).ver = p.ver /\ Stamped(p).stored = now
    BY DEF Stamped, Package, TypeOK
  <2>2. p.ver \in Version
    BY DEF Package
  <2>3. Gone(p.ver) => now <= past[p.ver] + MaxRun
    BY <2>2, Types DEF Before
  <2>4. /\ disk'.ver = p.ver /\ disk'.stored = now
        /\ now' = now /\ past' = past /\ file' = file
    BY <1>2, <2>1 DEF Still
  <2>5. DiskOK'
    BY <2>3, <2>4, Types DEF DiskOK, Gone
  <2> QED
    BY <2>1, <2>5, <1>2
<1> QED
  BY <1>1, <1>2 DEF Write
-----------------------------------------------------------------------------
(* One request after another: each lemma says that the step leaves the     *)
(* request, the package on disk and the answer in order.                   *)
Fine ==
  /\ q' \in [Worker -> Request] /\ Good' /\ PastOK'
  /\ DiskOK' /\ disk' \in Package \cup {None}
  /\ answer' \in Answer /\ AnswerOK'

\* A request that only goes on keeps what it had, or forgets it.
LEMMA GoesOn ==
  ASSUME IInv, NEW w \in Worker, q[w].at # "idle", NEW r,
         r.started = q[w].started, r.local = q[w].local,
         r.got \in {None, q[w].got}, r.at \notin {"set", "date", "idle"}
  PROVE  ClockOK(r) /\ LocalOK(r) /\ GotOK(r) /\ HandOK(r)
<1>1. RequestOK(q[w])
  BY DEF IInv, Good
<1>2. ClockOK(r) /\ LocalOK(r)
  BY <1>1 DEF RequestOK, ClockOK, LocalOK
<1>3. GotOK(r) /\ HandOK(r)
  BY <1>1 DEF RequestOK, GotOK, HandOK
<1> QED
  BY <1>2, <1>3

LEMMA SilentStep ==
  ASSUME IInv, Still, NEW w \in Worker, NEW r \in Request, Steps(w, r),
         RequestOK(r), disk' \in {disk, None}, Silent
  PROVE  Fine
<1>1. answer' \in Answer
  BY SourceCacheAssumption DEF Silent, NoAnswer, Answer, Time
<1>2. AnswerOK'
  BY SilentIsFine
<1>3. DiskOK' /\ disk' \in Package \cup {None}
  BY DiskStill DEF IInv, TypeOK
<1> QED
  BY <1>1, <1>2, <1>3, RequestSteps DEF Fine

\* Looking at the file: what it says is from now.
LEMMA LooksAreFine ==
  ASSUME IInv, NEW w \in Worker, NEW m \in Looks(w)
  PROVE  /\ m \in Time /\ m # None
         /\ \A v \in Version :
              v <= file.ver /\ Gone(v) /\ past[v] < q[w].started /\ ~restored
                => past[v] <= m
<1> USE DEF IInv
<1>1. q[w] \in Request /\ TimesOK(q[w])
  BY DEF TypeOK, Good, RequestOK
<1>2. (m = q[w].stat /\ q[w].stat # None) \/ (m = file.mtime /\ file.there)
  BY DEF Looks
<1>3. m \in Time
  BY <1>1, <1>2, RequestTypes, Types
<1>4. m # None
  BY <1>3, SourceCacheAssumption DEF Time
<1>5. ASSUME NEW v \in Version, v <= file.ver, Gone(v),
             past[v] < q[w].started, ~restored
      PROVE  past[v] <= m
  BY <1>1, <1>2, <1>5 DEF TimesOK, PastOK, Gone
<1> QED
  BY <1>3, <1>4, <1>5

LEMMA BeginKeeps ==
  ASSUME IInv, NEW w \in Worker, Begin(w)
  PROVE  Fine
<1> DEFINE r == [Fresh EXCEPT !.at = "run", !.started = now]
<1>1. r \in Request
  <2>1. now \in Time /\ 0 \in Time
    BY SourceCacheAssumption DEF IInv, TypeOK, Time
  <2> QED
    BY <2>1 DEF Fresh, Request, At, Kind
<1>2. r.at = "run" /\ r.started = now /\ r.local = None /\ r.got = None /\ r.stat = None
  BY DEF Fresh
<1>3. RequestOK(r)
  <2>1. ClockOK(r)
    BY <1>2, Types DEF IInv, ClockOK
  <2>2. LocalOK(r) /\ GotOK(r) /\ HandOK(r) /\ TimesOK(r)
    BY <1>2 DEF LocalOK, GotOK, HandOK, TimesOK
  <2> QED
    BY <2>1, <2>2 DEF RequestOK
<1>4. Steps(w, r) /\ Still /\ disk' \in {disk, None} /\ Silent
  BY DEF Begin, Steps, Still
<1> HIDE DEF r
<1> QED
  BY <1>1, <1>3, <1>4, SilentStep

LEMMA AskKeeps ==
  ASSUME IInv, NEW w \in Worker, NEW kind \in Kind, Ask(w, kind)
  PROVE  Fine
<1>0. /\ q[w] \in Request /\ RequestOK(q[w]) /\ q[w].at = "run"
      /\ Still /\ disk' \in {disk, None}
  BY DEF IInv, TypeOK, Good, Ask, Still
<1>1. CASE Steps(w, [q[w] EXCEPT !.got = None]) /\ Silent
  <2> DEFINE r == [q[w] EXCEPT !.got = None]
  <2>1. r \in Request
    BY <1>0 DEF Request
  <2>2. /\ r.started = q[w].started /\ r.local = q[w].local /\ r.got = None
        /\ r.at = "run" /\ r.stat = q[w].stat
    BY <1>0 DEF Request
  <2>3. Steps(w, r)
    BY <1>1
  <2> HIDE DEF r
  <2>4. TimesOK(r)
    BY <1>0, <2>2 DEF RequestOK, TimesOK
  <2>5. RequestOK(r)
    BY <1>0, <2>2, <2>4, GoesOn DEF RequestOK
  <2> QED
    BY <1>0, <1>1, <2>1, <2>3, <2>5, SilentStep
<1>2. ASSUME NEW m \in Looks(w), Silent,
             Steps(w, [q[w] EXCEPT !.at = "look", !.kind = kind, !.got = None,
                         !.mtime = IF kind = "routes" THEN m ELSE 0, !.stat = m])
      PROVE  Fine
  <2> DEFINE r == [q[w] EXCEPT !.at = "look", !.kind = kind, !.got = None,
                     !.mtime = IF kind = "routes" THEN m ELSE 0, !.stat = m]
  <2>1. r \in Request
    <3>1. m \in Time /\ 0 \in Time
      BY LooksAreFine, SourceCacheAssumption DEF Time
    <3> QED
      BY <1>0, <3>1 DEF Request, At
  <2>2. /\ r.started = q[w].started /\ r.local = q[w].local /\ r.got = None
        /\ r.at = "look" /\ r.stat = m /\ r.kind = kind
        /\ kind = "routes" => r.mtime = m
    BY <1>0 DEF Request
  <2>3. Steps(w, r)
    BY <1>2
  <2> HIDE DEF r
  <2>4. TimesOK(r)
    BY <2>2, LooksAreFine DEF TimesOK
  <2>5. RequestOK(r)
    BY <1>0, <2>2, <2>4, GoesOn DEF RequestOK
  <2> QED
    BY <1>0, <1>2, <2>1, <2>3, <2>5, SilentStep
<1> QED
  BY <1>1, <1>2 DEF Ask

\* What getCached gives was in the file no longer ago than a package is good.
LEMMA CachedIsFine ==
  ASSUME IInv, NEW w \in Worker, q[w].at # "idle", Cached(w) # None
  PROVE  LET p == Cached(w) IN
         /\ p \in Package /\ p.ver <= file.ver
         /\ Gone(p.ver) => now < past[p.ver] + MaxRun + opt.ttl
         /\ opt.keep /\ q[w].local # None => q[w].local.ver = p.ver
<1> USE DEF IInv
<1>1. /\ q[w] \in Request /\ ClockOK(q[w]) /\ LocalOK(q[w])
      /\ q[w].started \in Nat /\ q[w].started <= now /\ now <= q[w].started + MaxRun
  BY RequestTypes DEF TypeOK, Good, RequestOK, ClockOK
<1>2. CASE opt.keep /\ q[w].local # None
  <2>1. Cached(w) = q[w].local /\ q[w].local \in Package
    BY <1>1, <1>2, RequestTypes DEF Cached
  <2>2. q[w].local.ver <= file.ver /\ Before(q[w].local.ver, q[w].started)
    BY <1>1, <1>2 DEF LocalOK
  <2>3. q[w].local.ver \in Version
    BY <2>1, PackageTypes
  <2>4. Gone(q[w].local.ver) => now < past[q[w].local.ver] + MaxRun + opt.ttl
    BY <1>1, <2>2, <2>3, Types DEF Before
  <2> QED
    BY <2>1, <2>2, <2>4
<1>3. CASE ~(opt.keep /\ q[w].local # None)
  <2>1. Cached(w) = disk /\ disk # None /\ disk.stored + opt.ttl > now
    BY <1>3 DEF Cached
  <2>2. disk \in Package /\ disk.ver \in Version /\ disk.stored \in Nat
    BY <2>1, PackageTypes DEF TypeOK
  <2>3. disk.ver <= file.ver
        /\ (Gone(disk.ver) => disk.stored <= past[disk.ver] + MaxRun)
    BY <2>1 DEF DiskOK
  <2>4. Gone(disk.ver) => now < past[disk.ver] + MaxRun + opt.ttl
    BY <2>1, <2>2, <2>3, Types
  <2> QED
    BY <1>3, <2>1, <2>2, <2>3, <2>4
<1> QED
  BY <1>2, <1>3

\* An answer to w: version v, from a package with this stamp or none.
LEMMA SaysIsFine ==
  ASSUME IInv, Still, NEW w \in Worker, NEW r \in Request, Steps(w, r),
         RequestOK(r), r.started = q[w].started,
         NEW v \in Version, NEW st \in Time \cup {None}, Says(w, v, st),
         Gone(v) => now < past[v] + opt.ttl + 2 * MaxRun,
         st # None /\ file.there /\ ~restored /\ Gone(v) /\ past[v] < q[w].started
           => past[v] <= st + Slack,
         opt.keep /\ r.local # None => v >= r.local.ver
  PROVE  answer' \in Answer /\ AnswerOK'
<1>0. answer' = [to |-> w, ver |-> v, time |-> now, stored |-> st]
      /\ now \in Time
  BY DEF Says, IInv, TypeOK
<1>1. answer' \in Answer
  BY <1>0 DEF Answer
<1>2. q'[w] = r
  BY RequestSteps
<1>3. BoundedStaleness'
  BY <1>0 DEF Still, BoundedStaleness, Gone
<1>4. StaleHasCause'
  BY <1>0, <1>2 DEF Still, StaleHasCause, Gone
<1>5. OwnNotOlder'
  BY <1>0, <1>2 DEF Still, OwnNotOlder
<1> QED
  BY <1>1, <1>3, <1>4, <1>5 DEF AnswerOK

LEMMA LookKeeps ==
  ASSUME IInv, NEW w \in Worker, Look(w)
  PROVE  Fine
<1> DEFINE p == Cached(w)
<1>0. /\ q[w] \in Request /\ RequestOK(q[w]) /\ q[w].at = "look"
      /\ Still /\ disk' \in {disk, None}
  BY DEF IInv, TypeOK, Good, Look, Still
<1>9. p = None \/ p \in Package
  BY <1>0, CachedIsFine
<1>s. [q[w] EXCEPT !.hand = p] \in Request
  BY <1>0, <1>9 DEF Request
<1>g. ASSUME NEW at \in {"read", "drop"}, Silent,
             Steps(w, [[q[w] EXCEPT !.hand = p] EXCEPT !.at = at])
      PROVE  Fine
  <2> DEFINE r == [[q[w] EXCEPT !.hand = p] EXCEPT !.at = at]
  <2>1. r \in Request
    BY <1>s DEF Request, At
  <2>2. /\ r.started = q[w].started /\ r.local = q[w].local /\ r.got = q[w].got
        /\ r.at = at /\ r.stat = q[w].stat
    BY <1>0 DEF Request
  <2>3. Steps(w, r)
    BY <1>g
  <2> HIDE DEF r
  <2>4. TimesOK(r)
    BY <1>0, <2>2 DEF RequestOK, TimesOK
  <2>5. RequestOK(r)
    BY <1>0, <2>2, <2>4, GoesOn DEF RequestOK
  <2> QED
    BY <1>0, <1>g, <2>1, <2>3, <2>5, SilentStep
<1>d. ASSUME p # None, Silent, q[w].kind = "config",
             Steps(w, [[q[w] EXCEPT !.hand = p] EXCEPT !.at = "date"])
      PROVE  Fine
  <2> DEFINE r == [[q[w] EXCEPT !.hand = p] EXCEPT !.at = "date"]
  <2>1. r \in Request
    BY <1>s DEF Request, At
  <2>2. /\ r.started = q[w].started /\ r.local = q[w].local /\ r.got = q[w].got
        /\ r.at = "date" /\ r.stat = q[w].stat /\ r.hand = p
    BY <1>0 DEF Request
  <2>3. Steps(w, r)
    BY <1>d
  <2> HIDE DEF r
  <2>4. /\ p \in Package /\ p.ver <= file.ver
        /\ Gone(p.ver) => now < past[p.ver] + MaxRun + opt.ttl
        /\ opt.keep /\ q[w].local # None => q[w].local.ver = p.ver
    BY <1>0, <1>d, CachedIsFine
  <2>5. p.ver \in Version /\ p.ver \in Nat /\ q[w].started \in Nat
        /\ q[w].started <= now
    BY <1>0, <2>4, RequestTypes, PackageTypes DEF RequestOK, ClockOK
  <2> HIDE DEF p
  <2>6. Within(p.ver, q[w].started)
    BY <2>4, <2>5, Types DEF Within, IInv
  <2>7. HandOK(r)
    <3>1. opt.keep /\ q[w].local # None => q[w].local.ver <= p.ver
      BY <2>4, <2>5
    <3> QED
      BY <1>d, <2>2, <2>4, <2>6, <3>1 DEF HandOK
  <2>8. ClockOK(r) /\ LocalOK(r) /\ GotOK(r) /\ TimesOK(r)
    BY <1>0, <2>2 DEF RequestOK, ClockOK, LocalOK, GotOK, TimesOK
  <2> QED
    BY <1>0, <1>d, <2>1, <2>3, <2>7, <2>8, SilentStep DEF RequestOK
<1>e. ASSUME p # None, q[w].kind = "routes", p.stored >= q[w].mtime,
             Ends(w, [q[w] EXCEPT !.hand = p]), Says(w, p.ver, p.stored)
      PROVE  Fine
  <2> DEFINE r == [[q[w] EXCEPT !.hand = p] EXCEPT
                     !.at = "run", !.kind = "config", !.hand = None, !.mtime = 0]
  <2>1. r \in Request
    <3>1. 0 \in Time
      BY SourceCacheAssumption DEF Time
    <3> QED
      BY <1>s, <3>1 DEF Request, At, Kind
  <2>2. /\ r.started = q[w].started /\ r.local = q[w].local /\ r.got = q[w].got
        /\ r.at = "run" /\ r.stat = q[w].stat
    BY <1>0 DEF Request
  <2>3. Steps(w, r)
    BY <1>e DEF Ends
  <2> HIDE DEF r
  <2>4. TimesOK(r)
    BY <1>0, <2>2 DEF RequestOK, TimesOK
  <2>5. RequestOK(r)
    BY <1>0, <2>2, <2>4, GoesOn DEF RequestOK
  <2>6. /\ p \in Package /\ p.ver <= file.ver
        /\ Gone(p.ver) => now < past[p.ver] + MaxRun + opt.ttl
        /\ opt.keep /\ q[w].local # None => q[w].local.ver = p.ver
    BY <1>0, <1>e, CachedIsFine
  <2>7. /\ p.ver \in Version /\ p.ver \in Nat
        /\ p.stored \in Time \cup {None} /\ p.stored \in Nat
    BY <2>6, PackageTypes
  <2> HIDE DEF p
  <2>8. Gone(p.ver) => now < past[p.ver] + opt.ttl + 2 * MaxRun
    BY <2>6, <2>7, Types DEF IInv
  <2>9. file.there /\ ~restored /\ Gone(p.ver) /\ past[p.ver] < q[w].started
          => past[p.ver] <= p.stored + Slack
    <3>1. past[p.ver] <= q[w].mtime => past[p.ver] <= p.stored + Slack
      <4>1. q[w].mtime \in Nat
        BY <1>0, RequestTypes
      <4> QED
        BY <4>1, <2>7, <1>e, Types DEF IInv
    <3> QED
      BY <1>0, <1>e, <2>6, <2>7, <3>1 DEF RequestOK, TimesOK
  <2>10. opt.keep /\ r.local # None => p.ver >= r.local.ver
    BY <2>2, <2>6, <2>7
  <2>11. answer' \in Answer /\ AnswerOK'
    BY <1>0, <1>e, <2>1, <2>2, <2>3, <2>5, <2>7, <2>8, <2>9, <2>10, SaysIsFine
  <2>12. DiskOK' /\ disk' \in Package \cup {None}
    BY <1>0, DiskStill DEF IInv, TypeOK
  <2> QED
    BY <1>0, <2>1, <2>3, <2>5, <2>11, <2>12, RequestSteps DEF Fine
<1> QED
  <2>1. CASE p = None
    BY <2>1, <1>g DEF Look
  <2>2. CASE p # None /\ q[w].kind = "config"
    BY <2>2, <1>d DEF Look
  <2>3. CASE p # None /\ q[w].kind = "routes" /\ p.stored < q[w].mtime
    <3>1. ~(p.stored >= q[w].mtime)
      BY <2>3, <1>0, <1>9, PackageTypes, RequestTypes
    <3> HIDE DEF p
    <3> QED
      BY <2>3, <3>1, <1>g DEF Look, p
  <2>4. CASE p # None /\ q[w].kind = "routes" /\ p.stored >= q[w].mtime
    <3>1. ~(p.stored < q[w].mtime)
      BY <2>4, <1>0, <1>9, PackageTypes, RequestTypes
    <3> QED
      BY <2>4, <3>1, <1>e DEF Look
  <2> QED
    BY <2>1, <2>2, <2>3, <2>4 DEF Look

LEMMA DateKeeps ==
  ASSUME IInv, NEW w \in Worker, Date(w)
  PROVE  Fine
<1> DEFINE p == q[w].hand
<1>0. /\ q[w] \in Request /\ RequestOK(q[w]) /\ q[w].at = "date"
      /\ Still /\ disk' \in {disk, None}
  BY DEF IInv, TypeOK, Good, Date, Still
<1>1. /\ p \in Package /\ p.ver <= file.ver /\ p # None
      /\ Within(p.ver, q[w].started)
      /\ opt.keep /\ q[w].local # None => q[w].local.ver <= p.ver
      /\ p.ver \in Version /\ p.ver \in Nat /\ p.stored \in Time /\ p.stored \in Nat
  BY <1>0, RequestTypes, PackageTypes DEF RequestOK, HandOK
<1>2. PICK m \in Looks(w) \cup IF file.there THEN {} ELSE {0} :
         LET s == [q[w] EXCEPT !.stat = IF m \in Looks(w) THEN m ELSE None] IN
         IF Current(p, m)
         THEN Ends(w, s) /\ Says(w, p.ver, p.stored)
         ELSE Steps(w, [s EXCEPT !.at = "drop"]) /\ Silent
  BY DEF Date
<1> DEFINE st == IF m \in Looks(w) THEN m ELSE None
           s  == [q[w] EXCEPT !.stat = st]
<1>3. s \in Request /\ (st # None => m = st /\ m \in Looks(w))
  BY <1>0, LooksAreFine DEF Request
<1>4. \A v \in Version :
        v <= file.ver /\ Gone(v) /\ past[v] < q[w].started /\ ~restored /\ st # None
          => past[v] <= st
  BY <1>3, LooksAreFine
<1>5. ASSUME Current(p, m), Ends(w, s), Says(w, p.ver, p.stored)
      PROVE  Fine
  <2> DEFINE r == [s EXCEPT !.at = "run", !.kind = "config", !.hand = None, !.mtime = 0]
  <2>1. r \in Request
    <3>1. 0 \in Time
      BY SourceCacheAssumption DEF Time
    <3> HIDE DEF s
    <3> QED
      BY <1>3, <3>1 DEF Request, At, Kind
  <2>2. /\ r.started = q[w].started /\ r.local = q[w].local /\ r.got = q[w].got
        /\ r.at = "run" /\ r.stat = st
    BY <1>0 DEF Request
  <2>3. Steps(w, r)
    BY <1>5 DEF Ends
  <2> HIDE DEF r, st
  <2>4. TimesOK(r)
    BY <1>0, <1>4, <2>2 DEF TimesOK
  <2>5. RequestOK(r)
    BY <1>0, <2>2, <2>4, GoesOn DEF RequestOK
  <2>6. /\ q[w].started \in Nat /\ q[w].started <= now
        /\ now <= q[w].started + MaxRun
    BY <1>0, RequestTypes DEF RequestOK, ClockOK
  <2>8. Gone(p.ver) => now < past[p.ver] + opt.ttl + 2 * MaxRun
    BY <1>1, <2>6, Types DEF IInv, Within
  <2>9. file.there /\ ~restored /\ Gone(p.ver) /\ past[p.ver] < q[w].started
          => past[p.ver] <= p.stored + Slack
    <3> SUFFICES ASSUME file.there, ~restored, Gone(p.ver), past[p.ver] < q[w].started
                 PROVE  past[p.ver] <= p.stored + Slack
      OBVIOUS
    <3>1. m \in Looks(w)
      BY <1>2
    <3>2. past[p.ver] <= m /\ m \in Time
      BY <1>1, <3>1, LooksAreFine
    <3>3. m <= p.stored + Slack /\ m \in Nat
      BY <1>5, <3>2 DEF Current, Time
    <3> QED
      BY <1>1, <3>2, <3>3, Types DEF IInv
  <2>10. opt.keep /\ r.local # None => p.ver >= r.local.ver
    <3>1. q[w].local # None => q[w].local.ver \in Nat
      BY <1>0, RequestTypes, PackageTypes
    <3> QED
      BY <2>2, <1>1, <3>1
  <2>11. answer' \in Answer /\ AnswerOK'
    BY <1>0, <1>1, <1>5, <2>1, <2>2, <2>3, <2>5, <2>8, <2>9, <2>10, SaysIsFine
  <2>12. DiskOK' /\ disk' \in Package \cup {None}
    BY <1>0, DiskStill DEF IInv, TypeOK
  <2> QED
    BY <1>0, <2>1, <2>3, <2>5, <2>11, <2>12, RequestSteps DEF Fine
<1>6. ASSUME Steps(w, [s EXCEPT !.at = "drop"]), Silent
      PROVE  Fine
  <2> DEFINE r == [s EXCEPT !.at = "drop"]
  <2>1. r \in Request
    BY <1>3, ZenonT(30) DEF Request, At
  <2>2. /\ r.started = q[w].started /\ r.local = q[w].local /\ r.got = q[w].got
        /\ r.at = "drop" /\ r.stat = st
    BY <1>0 DEF Request
  <2>3. Steps(w, r)
    BY <1>6
  <2> HIDE DEF r, st
  <2>4. TimesOK(r)
    BY <1>0, <1>4, <2>2 DEF TimesOK
  <2>5. RequestOK(r)
    BY <1>0, <2>2, <2>4, GoesOn DEF RequestOK
  <2> QED
    BY <1>0, <1>6, <2>1, <2>3, <2>5, SilentStep
<1> QED
  BY <1>2, <1>5, <1>6

\* A silent step that leaves the request where it is told, with what it had.
LEMMA MovesOn ==
  ASSUME IInv, Still, Silent, NEW w \in Worker, q[w].at # "idle",
         disk' \in {disk, None}, NEW r \in Request, Steps(w, r),
         r.started = q[w].started, r.local = q[w].local, r.got = q[w].got,
         r.stat \in {None, q[w].stat}, r.at \in {"run", "read"}
  PROVE  Fine
<1>1. RequestOK(q[w])
  BY DEF IInv, Good
<1>2. TimesOK(r)
  BY <1>1 DEF RequestOK, TimesOK
<1>3. RequestOK(r)
  BY <1>2, GoesOn DEF RequestOK
<1> QED
  BY <1>3, SilentStep

LEMMA DropKeeps ==
  ASSUME IInv, NEW w \in Worker, Drop(w)
  PROVE  Fine
<1> DEFINE r == [q[w] EXCEPT !.at = "read", !.stat = None]
<1>1. q[w] \in Request /\ q[w].at = "drop"
  BY DEF IInv, TypeOK, Drop
<1>2. r \in Request
  BY <1>1 DEF Request, At
<1>3. /\ r.started = q[w].started /\ r.local = q[w].local /\ r.got = q[w].got
      /\ r.at = "read" /\ r.stat = None
  BY <1>1 DEF Request
<1>4. Steps(w, r) /\ Silent /\ Still /\ disk' \in {disk, None}
  BY DEF Drop, Still
<1> HIDE DEF r
<1> QED
  BY <1>1, <1>2, <1>3, <1>4, MovesOn

LEMMA ReadKeeps ==
  ASSUME IInv, NEW w \in Worker, Read(w)
  PROVE  Fine
<1>0. /\ q[w] \in Request /\ RequestOK(q[w]) /\ q[w].at = "read"
      /\ Still /\ disk' \in {disk, None} /\ 0 \in Time
  BY SourceCacheAssumption DEF IInv, TypeOK, Good, Read, Still, Time
<1>f. file.ver \in Version /\ file.ver \in Nat
  BY Types DEF IInv
<1>1. CASE Ends(w, q[w]) /\ Silent
  <2> DEFINE r == [q[w] EXCEPT !.at = "run", !.kind = "config", !.hand = None, !.mtime = 0]
  <2>1. r \in Request
    BY <1>0 DEF Request, At, Kind
  <2>2. /\ r.started = q[w].started /\ r.local = q[w].local /\ r.got = q[w].got
        /\ r.at = "run" /\ r.stat = q[w].stat
    BY <1>0 DEF Request
  <2>3. Steps(w, r)
    BY <1>1 DEF Ends
  <2> HIDE DEF r
  <2> QED
    BY <1>0, <1>1, <2>1, <2>2, <2>3, MovesOn
<1>2. CASE /\ file.there /\ Silent
           /\ Steps(w, [q[w] EXCEPT !.at = "set", !.got = file.ver])
  <2> DEFINE r == [q[w] EXCEPT !.at = "set", !.got = file.ver]
  <2>1. r \in Request
    BY <1>0, <1>f DEF Request, At
  <2>2. /\ r.started = q[w].started /\ r.local = q[w].local /\ r.got = file.ver
        /\ r.at = "set" /\ r.stat = q[w].stat
    BY <1>0 DEF Request
  <2>3. Steps(w, r)
    BY <1>2
  <2> HIDE DEF r
  <2>4. ClockOK(r) /\ LocalOK(r) /\ HandOK(r) /\ TimesOK(r)
    BY <1>0, <2>2 DEF RequestOK, ClockOK, LocalOK, HandOK, TimesOK
  <2>5. GotOK(r)
    <3>1. file.ver # None /\ file.ver <= file.ver /\ ~Gone(file.ver)
      BY <1>2, <1>f, SourceCacheAssumption DEF Gone
    <3>2. r.local # None => r.local.ver <= file.ver
      BY <2>4 DEF LocalOK
    <3> QED
      BY <2>2, <3>1, <3>2 DEF GotOK, Before
  <2> QED
    BY <1>0, <1>2, <2>1, <2>3, <2>4, <2>5, SilentStep DEF RequestOK
<1>3. CASE /\ file.there /\ Says(w, file.ver, None)
           /\ Ends(w, [q[w] EXCEPT !.got = file.ver])
  <2> DEFINE r == [[q[w] EXCEPT !.got = file.ver] EXCEPT
                     !.at = "run", !.kind = "config", !.hand = None, !.mtime = 0]
  <2>1. r \in Request
    BY <1>0, <1>f DEF Request, At, Kind
  <2>2. /\ r.started = q[w].started /\ r.local = q[w].local /\ r.got = file.ver
        /\ r.at = "run" /\ r.stat = q[w].stat
    BY <1>0 DEF Request
  <2>3. Steps(w, r)
    BY <1>3 DEF Ends
  <2> HIDE DEF r
  <2>4. ClockOK(r) /\ LocalOK(r) /\ HandOK(r) /\ TimesOK(r)
    BY <1>0, <2>2 DEF RequestOK, ClockOK, LocalOK, HandOK, TimesOK
  <2>5. file.ver # None /\ file.ver <= file.ver /\ ~Gone(file.ver)
    BY <1>3, <1>f, SourceCacheAssumption DEF Gone
  <2>6. r.local # None => r.local.ver <= file.ver /\ r.local.ver \in Nat
    BY <2>1, <2>4, RequestTypes, PackageTypes DEF LocalOK
  <2>7. GotOK(r)
    BY <2>2, <2>5, <2>6 DEF GotOK, Before
  <2>8. RequestOK(r)
    BY <2>4, <2>7 DEF RequestOK
  <2>9. opt.keep /\ r.local # None => file.ver >= r.local.ver
    BY <2>6, <1>f
  <2>10. answer' \in Answer /\ AnswerOK'
    BY <1>0, <1>3, <1>f, <2>1, <2>2, <2>3, <2>5, <2>8, <2>9, SaysIsFine
  <2>11. DiskOK' /\ disk' \in Package \cup {None}
    BY <1>0, DiskStill DEF IInv, TypeOK
  <2> QED
    BY <1>0, <2>1, <2>3, <2>8, <2>10, <2>11, RequestSteps DEF Fine
<1> QED
  BY <1>1, <1>2, <1>3 DEF Read

(* Keeping what was read: the package, and what becomes of the request.    *)
LEMMA StoreIsFine ==
  ASSUME IInv, Still, NEW w \in Worker, q[w].at # "idle", q[w].got # None,
         NEW how \in {"written", "lost", "refused"}, Store(w, how)
  PROVE  \E r \in Request :
           /\ Steps(w, r) /\ RequestOK(r) /\ r.started = q[w].started
           /\ DiskOK' /\ disk' \in Package \cup {None}
           /\ how # "refused" /\ r.local # None /\ opt.keep => r.local.ver = q[w].got
<1> DEFINE g == q[w].got
           p == [ver |-> g, stored |-> now, saved |-> FALSE]
<1>0. q[w] \in Request /\ RequestOK(q[w]) /\ now \in Time /\ 0 \in Time
  BY SourceCacheAssumption DEF IInv, TypeOK, Good, Time
<1>1. /\ g \in Version /\ g \in Nat /\ g <= file.ver /\ Before(g, q[w].started)
      /\ q[w].started \in Nat /\ q[w].started <= now /\ now <= q[w].started + MaxRun
  BY <1>0, RequestTypes DEF RequestOK, GotOK, ClockOK
<1>2. p \in Package /\ p.ver = g /\ p.stored = now
  BY <1>0, <1>1 DEF Package
<1>3. ASSUME NEW l \in Package \cup {None}, NEW t \in {None, q[w].stat},
             l \in {p, Stamped(p), q[w].local}
      PROVE  LET r == [[q[w] EXCEPT !.got = None, !.stat = t, !.local = l]
                         EXCEPT !.at = "run", !.kind = "config", !.hand = None, !.mtime = 0]
             IN  /\ r \in Request /\ RequestOK(r) /\ r.started = q[w].started
                 /\ r.local = l
  <2> DEFINE r == [[q[w] EXCEPT !.got = None, !.stat = t, !.local = l]
                     EXCEPT !.at = "run", !.kind = "config", !.hand = None, !.mtime = 0]
  <2>1. t \in Time \cup {None}
    BY <1>0 DEF Request
  <2>2. [q[w] EXCEPT !.got = None, !.stat = t, !.local = l] \in Request
    BY <1>0, <2>1 DEF Request
  <2>3. r \in Request
    BY <1>0, <2>2 DEF Request, At, Kind
  <2>4. /\ r.started = q[w].started /\ r.local = l /\ r.got = None
        /\ r.at = "run" /\ r.stat = t
    BY <1>0 DEF Request
  <2> HIDE DEF r
  <2>5. LocalOK(r)
    <3>1. CASE l = q[w].local
      BY <3>1, <1>0, <2>4 DEF RequestOK, LocalOK
    <3>2. CASE l \in {p, Stamped(p)}
      <4>1. l.ver = g /\ l.stored = now
        BY <3>2, <1>2 DEF Stamped, Package
      <4> QED
        BY <4>1, <1>0, <1>1, <2>4, Types DEF LocalOK, IInv
    <3> QED
      BY <1>3, <3>1, <3>2
  <2>6. ClockOK(r) /\ GotOK(r) /\ HandOK(r) /\ TimesOK(r)
    BY <1>0, <2>4 DEF RequestOK, ClockOK, GotOK, HandOK, TimesOK
  <2>7. r \in Request /\ RequestOK(r) /\ r.started = q[w].started /\ r.local = l
    BY <2>3, <2>4, <2>5, <2>6 DEF RequestOK
  <2> QED
    BY <2>7 DEF r
<1>4. Stamped(p) \in Package /\ Stamped(p).ver = g
  BY <1>0, <1>2 DEF Stamped, Package
<1>5. CASE opt.keep /\ opt.defer
  <2>1. [q[w] EXCEPT !.got = None, !.local = p]
          = [q[w] EXCEPT !.got = None, !.stat = q[w].stat, !.local = p]
    BY <1>0 DEF Request
  <2>2. /\ Ends(w, [q[w] EXCEPT !.got = None, !.local = p])
        /\ disk' = disk
    BY <1>5 DEF Store
  <2>3. DiskOK' /\ disk' \in Package \cup {None}
    BY <2>2, DiskStill DEF IInv, TypeOK
  <2> HIDE DEF p
  <2>4. PICK r \in Request : /\ Steps(w, r) /\ RequestOK(r)
                             /\ r.started = q[w].started /\ r.local = p
    BY <2>1, <2>2, <1>2, <1>3 DEF Ends
  <2> QED
    BY <2>3, <2>4, <1>2
<1>6. CASE ~(opt.keep /\ opt.defer)
  <2> DEFINE l == IF opt.keep THEN Kept(p, how) ELSE q[w].local
  <2>1. /\ Write(p, how)
        /\ Ends(w, [q[w] EXCEPT !.got = None, !.stat = None, !.local = l])
    BY <1>6, <1>0 DEF Store, Request
  <2>2. DiskOK' /\ disk' \in Package \cup {None}
    <3> HIDE DEF p
    <3> QED
      BY <2>1, <1>1, <1>2, WriteIsFine
  <2>3. l \in {p, Stamped(p), q[w].local} /\ l \in Package \cup {None}
    BY <1>0, <1>2, <1>4 DEF Kept, Request
  <2>4. how # "refused" /\ opt.keep => l.ver = g
    BY <1>4 DEF Kept
  <2> HIDE DEF l, p
  <2>5. PICK r \in Request : /\ Steps(w, r) /\ RequestOK(r)
                             /\ r.started = q[w].started /\ r.local = l
    BY <2>1, <2>3, <1>3 DEF Ends
  <2> QED
    BY <2>2, <2>4, <2>5
<1> QED
  BY <1>5, <1>6

LEMMA SetKeeps ==
  ASSUME IInv, NEW w \in Worker, Set(w)
  PROVE  Fine
<1>0. /\ q[w] \in Request /\ RequestOK(q[w]) /\ q[w].at = "set"
      /\ Still /\ q[w].got # None
  BY DEF IInv, TypeOK, Good, Set, Still, RequestOK, GotOK
<1>1. PICK how \in {"written", "lost", "refused"} :
         /\ Store(w, how)
         /\ IF how = "refused" THEN Silent ELSE Says(w, q[w].got, None)
  BY DEF Set
<1>2. PICK r \in Request :
         /\ Steps(w, r) /\ RequestOK(r) /\ r.started = q[w].started
         /\ DiskOK' /\ disk' \in Package \cup {None}
         /\ how # "refused" /\ r.local # None /\ opt.keep => r.local.ver = q[w].got
  BY <1>0, <1>1, StoreIsFine
<1>3. CASE Silent
  <2>1. answer' \in Answer /\ AnswerOK'
    BY <1>3, SilentIsFine, SourceCacheAssumption DEF Silent, NoAnswer, Answer, Time
  <2> QED
    BY <1>0, <1>2, <2>1, RequestSteps DEF Fine
<1>4. CASE how # "refused" /\ Says(w, q[w].got, None)
  <2>1. /\ q[w].got \in Version /\ q[w].got \in Nat /\ Before(q[w].got, q[w].started)
        /\ q[w].started \in Nat /\ now <= q[w].started + MaxRun
    BY <1>0, RequestTypes DEF RequestOK, ClockOK, GotOK
  <2>2. Gone(q[w].got) => now < past[q[w].got] + opt.ttl + 2 * MaxRun
    BY <2>1, Types DEF IInv, Before
  <2>3. opt.keep /\ r.local # None => q[w].got >= r.local.ver
    BY <2>1, <1>2, <1>4
  <2>4. answer' \in Answer /\ AnswerOK'
    BY <1>0, <1>2, <1>4, <2>1, <2>2, <2>3, SaysIsFine
  <2> QED
    BY <1>0, <1>2, <2>4, RequestSteps DEF Fine
<1> QED
  BY <1>1, <1>3, <1>4

LEMMA SetRoutesKeeps ==
  ASSUME IInv, NEW w \in Worker, SetRoutes(w)
  PROVE  Fine
<1>0. q[w].at # "idle" /\ q[w].got # None /\ Still /\ Silent
  BY DEF SetRoutes, Still
<1>1. PICK how \in {"written", "lost", "refused"} : Store(w, how)
  BY DEF SetRoutes
<1>2. PICK r \in Request :
         /\ Steps(w, r) /\ RequestOK(r) /\ r.started = q[w].started
         /\ DiskOK' /\ disk' \in Package \cup {None}
  BY <1>0, <1>1, StoreIsFine
<1>3. answer' \in Answer /\ AnswerOK'
  BY <1>0, SilentIsFine, SourceCacheAssumption DEF Silent, NoAnswer, Answer, Time
<1> QED
  BY <1>0, <1>2, <1>3, RequestSteps DEF Fine

\* A step that at most forgets packages.
LEMMA ForgetKeeps ==
  ASSUME IInv, NEW w \in Worker, q[w].at = "run", Still, Silent,
         disk' \in {disk, None}, NEW l \in {None, q[w].local},
         Steps(w, [q[w] EXCEPT !.local = l])
  PROVE  Fine
<1> DEFINE r == [q[w] EXCEPT !.local = l]
<1>0. q[w] \in Request /\ RequestOK(q[w])
  BY DEF IInv, TypeOK, Good
<1>1. r \in Request
  BY <1>0 DEF Request
<1>2. /\ r.started = q[w].started /\ r.local = l /\ r.got = q[w].got
      /\ r.at = q[w].at /\ r.stat = q[w].stat
  BY <1>0 DEF Request
<1> HIDE DEF r
<1>3. ClockOK(r) /\ LocalOK(r) /\ GotOK(r) /\ HandOK(r) /\ TimesOK(r)
  BY <1>0, <1>2 DEF RequestOK, ClockOK, LocalOK, GotOK, HandOK, TimesOK
<1> QED
  BY <1>1, <1>3, SilentStep DEF r, RequestOK

LEMMA ClearingKeeps ==
  ASSUME IInv, NEW w \in Worker, Clear(w) \/ DeleteExpired(w)
  PROVE  Fine
<1>0. q[w] \in Request /\ q[w].at = "run" /\ Still /\ Silent
  BY DEF IInv, TypeOK, Clear, DeleteExpired, Still
<1>1. CASE Clear(w)
  <2>1. [q[w] EXCEPT !.local = q[w].local] = q[w] /\ q \in [Worker -> Request]
    BY <1>0 DEF Request, IInv, TypeOK
  <2>2. Steps(w, [q[w] EXCEPT !.local = q[w].local]) /\ disk' = None
    BY <1>1, <2>1 DEF Clear, Steps
  <2> QED
    BY <1>0, <2>2, ForgetKeeps
<1>2. CASE DeleteExpired(w)
  <2> DEFINE l == IF q[w].local # None /\ q[w].local.stored + opt.ttl < now
                  THEN None ELSE q[w].local
  <2>1. Steps(w, [q[w] EXCEPT !.local = l]) /\ disk' \in {disk, None}
    BY <1>0, <1>2 DEF DeleteExpired, Request
  <2>2. l \in {None, q[w].local}
    OBVIOUS
  <2> HIDE DEF l
  <2> QED
    BY <1>0, <2>1, <2>2, ForgetKeeps
<1> QED
  BY <1>1, <1>2

LEMMA EndKeeps ==
  ASSUME IInv, NEW w \in Worker, End(w)
  PROVE  Fine
<1>0. /\ q[w] \in Request /\ RequestOK(q[w]) /\ Still /\ Silent
      /\ Steps(w, Fresh) /\ q[w].at # "idle"
  BY DEF IInv, TypeOK, Good, End, Still
<1>1. Fresh \in Request
  BY SourceCacheAssumption DEF Fresh, Request, At, Kind, Time
<1>2. RequestOK(Fresh)
  <2>1. ClockOK(Fresh)
    BY Types DEF IInv, Fresh, ClockOK
  <2>2. LocalOK(Fresh) /\ GotOK(Fresh) /\ HandOK(Fresh) /\ TimesOK(Fresh)
    BY DEF Fresh, LocalOK, GotOK, HandOK, TimesOK
  <2> QED
    BY <2>1, <2>2 DEF RequestOK
<1>3. DiskOK' /\ disk' \in Package \cup {None}
  <2>1. CASE disk' = disk
    BY <1>0, <2>1, DiskStill DEF IInv, TypeOK
  <2>2. CASE /\ q[w].local # None
             /\ \E how \in {"written", "lost", "refused"} : Write(q[w].local, how)
    <3>1. /\ q[w].local \in Package /\ q[w].local.ver <= file.ver
          /\ Before(q[w].local.ver, q[w].started) /\ q[w].started \in Nat
          /\ now <= q[w].started + MaxRun
      BY <1>0, <2>2, RequestTypes DEF RequestOK, ClockOK, LocalOK
    <3> QED
      BY <1>0, <2>2, <3>1, WriteIsFine
  <2> QED
    BY <2>1, <2>2 DEF End
<1>4. answer' \in Answer /\ AnswerOK'
  BY <1>0, SilentIsFine, SourceCacheAssumption DEF Silent, NoAnswer, Answer, Time
<1> QED
  BY <1>0, <1>1, <1>2, <1>3, <1>4, RequestSteps DEF Fine
-----------------------------------------------------------------------------
LEMMA Initially ==
  ASSUME Init
  PROVE  IInv
<1>1. 1 \in Version /\ 0 \in Time /\ MaxRun \in Nat
  BY SourceCacheAssumption DEF Version, Time
<1>2. TypeOK
  BY <1>1 DEF Init, TypeOK, File, Fresh, Request, At, Kind, NoAnswer, Answer
<1>3. DiskOK /\ PastOK
  BY <1>1 DEF Init, DiskOK, PastOK, Version
<1>4. AnswerOK
  BY DEF Init, AnswerOK, NoAnswer, BoundedStaleness, StaleHasCause, OwnNotOlder
<1>5. Good
  <2> SUFFICES ASSUME NEW w \in Worker PROVE RequestOK(Fresh)
    BY DEF Init, Good
  <2>1. ClockOK(Fresh)
    BY <1>1 DEF Init, Fresh, ClockOK
  <2>2. LocalOK(Fresh) /\ GotOK(Fresh) /\ HandOK(Fresh) /\ TimesOK(Fresh)
    BY DEF Fresh, LocalOK, GotOK, HandOK, TimesOK
  <2> QED
    BY <2>1, <2>2 DEF RequestOK
<1> QED
  BY <1>2, <1>3, <1>4, <1>5 DEF IInv

LEMMA Invariance ==
  ASSUME IInv, [Next]_vars
  PROVE  IInv'
<1>1. ASSUME NEW w \in Worker, Fine, UNCHANGED <<opt, now, file, restored, past>>
      PROVE  IInv'
  <2>1. TypeOK'
    BY <1>1 DEF IInv, Fine, TypeOK
  <2> QED
    BY <1>1, <2>1 DEF IInv, Fine
<1>2. ASSUME NEW m \in 0 .. now, Change(m)
      PROVE  IInv'
  <2>1. m \in Time /\ m <= now
    BY SourceCacheAssumption DEF IInv, TypeOK, Time
  <2> QED
    BY <1>2, <2>1, ChangeKeeps DEF IInv
<1>3. CASE Remove
  <2>1. 0 \in Time /\ 0 <= now
    BY Types DEF IInv, Time
  <2> QED
    BY <1>3, <2>1, ChangeKeeps DEF IInv
<1>4. CASE Tick
  BY <1>4, TickKeeps DEF IInv
<1>5. ASSUME NEW w \in Worker, Begin(w) PROVE IInv'
  BY <1>5, <1>1, BeginKeeps DEF Begin
<1>6. ASSUME NEW w \in Worker, NEW kind \in Kind, Ask(w, kind) PROVE IInv'
  BY <1>6, <1>1, AskKeeps DEF Ask
<1>7. ASSUME NEW w \in Worker, Look(w) PROVE IInv'
  BY <1>7, <1>1, LookKeeps DEF Look
<1>8. ASSUME NEW w \in Worker, Date(w) PROVE IInv'
  BY <1>8, <1>1, DateKeeps DEF Date
<1>9. ASSUME NEW w \in Worker, Drop(w) PROVE IInv'
  BY <1>9, <1>1, DropKeeps DEF Drop
<1>10. ASSUME NEW w \in Worker, Read(w) PROVE IInv'
  BY <1>10, <1>1, ReadKeeps DEF Read
<1>11. ASSUME NEW w \in Worker, Set(w) PROVE IInv'
  BY <1>11, <1>1, SetKeeps DEF Set
<1>12. ASSUME NEW w \in Worker, SetRoutes(w) PROVE IInv'
  BY <1>12, <1>1, SetRoutesKeeps DEF SetRoutes
<1>13. ASSUME NEW w \in Worker, Clear(w) \/ DeleteExpired(w) PROVE IInv'
  BY <1>13, <1>1, ClearingKeeps DEF Clear, DeleteExpired
<1>14. ASSUME NEW w \in Worker, End(w) PROVE IInv'
  BY <1>14, <1>1, EndKeeps DEF End
<1>15. CASE UNCHANGED vars
  <2>1. TypeOK' /\ DiskOK' /\ PastOK'
    BY <1>15 DEF vars, IInv, TypeOK, DiskOK, PastOK, Gone
  <2>2. AnswerOK'
    BY <1>15 DEF vars, IInv, AnswerOK, BoundedStaleness, StaleHasCause, OwnNotOlder, Gone
  <2>3. Good'
    BY <1>15 DEF vars, IInv, Good, RequestOK, ClockOK, LocalOK, GotOK, HandOK, TimesOK,
                 Before, Within, Gone
  <2> QED
    BY <2>1, <2>2, <2>3 DEF IInv
<1> QED
  BY <1>2, <1>3, <1>4, <1>5, <1>6, <1>7, <1>8, <1>9, <1>10, <1>11, <1>12, <1>13,
     <1>14, <1>15 DEF Next

LEMMA Always == Spec => []IInv
<1>1. Init => IInv
  BY Initially
<1>2. IInv /\ [Next]_vars => IInv'
  BY Invariance
<1> QED
  BY <1>1, <1>2, PTL DEF Spec

(* Every state of the cache and of its requests is of its type.            *)
THEOREM TypeCorrect == Spec => []TypeOK
<1>1. IInv => TypeOK
  BY DEF IInv
<1> QED
  BY <1>1, Always, PTL

(* No version is given out for longer than a package is good, and two      *)
(* requests last, after the file has left it: CacheMgr::readCache and      *)
(* Dispatch::loadRoutes over a DirCache with any of its options.           *)
THEOREM StalenessIsBounded == Spec => []BoundedStaleness
<1>1. IInv => BoundedStaleness
  BY DEF IInv, AnswerOK
<1> QED
  BY <1>1, Always, PTL

(* A request that began after a change is answered from before it only by  *)
(* a package stamped after it, or at most Slack seconds before, as long as *)
(* files get the time of their change: the check of readCache.             *)
THEOREM OnlyLateStampsDeceive == Spec => []StaleHasCause
<1>1. IInv => StaleHasCause
  BY DEF IInv, AnswerOK
<1> QED
  BY <1>1, Always, PTL

(* With the memory layer a request gets nothing older than what it keeps.  *)
THEOREM OwnIsKept == Spec => []OwnNotOlder
<1>1. IInv => OwnNotOlder
  BY DEF IInv, AnswerOK
<1> QED
  BY <1>1, Always, PTL
=============================================================================
