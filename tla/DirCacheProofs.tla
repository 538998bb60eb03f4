--------------------------- MODULE DirCacheProofs ---------------------------
(***************************************************************************)
(* For any number of workers, keys, files and packages: the types of       *)
(* DirCache, FileWhole, what a read may return, and that the files of keys *)
(* with one writer implement VersionedStore.  Three invariants carry this, *)
(* each on top of the one before: IInv follows a package into its file,    *)
(* who may write it and what the file holds at each of the three writes;   *)
(* RInv says that every version is written once, and follows a reader into *)
(* its file; FInv says that what waits to be written is newer than what    *)
(* was.                                                                    *)
(***************************************************************************)
EXTENDS DirCache, TLAPS

(* What a worker holds while it is inside a call. *)
ControlOf(w) ==
  /\ pc[w] \in JobPc => job[w] \in Package /\ key[w] \in Key
  /\ pc[w] \in WritePc => fd[w] \in Inode
  /\ pc[w] \in ReadPc \cup {"rmdir"} => key[w] \in Key
  /\ pc[w] \in ReadPc \ {"ropen"} => fd[w] \in Inode
  /\ pc[w] \in JobPc \cup {"flush"} => \A k \in todo[w] : local[w][k] # None
  /\ pc[w] \in JobPc => todo[w] = {} \/ key[w] \in todo[w]
  /\ pc[w] \in ReadPc \cup {"idle", "reap"} => todo[w] = {}

Control == \A w \in Worker : ControlOf(w)

(* A package only reaches the workers that may write its key. *)
OwnedBy(w) ==
  /\ \A k \in Key : local[w][k] # None => w \in MayWrite[k]
  /\ pc[w] \in JobPc => w \in MayWrite[key[w]]

Owned == \A w \in Worker : OwnedBy(w)

(* No two paths name one file, and an open file that has a path still has  *)
(* the path its writer opened it by.                                       *)
OneName ==
  /\ \A k, l \in Key : entry[k] # None /\ entry[k] = entry[l] => k = l
  /\ \A w \in Worker, k \in Key :
       pc[w] \in WritePc /\ entry[k] = fd[w] => k = key[w]
  /\ \A x, y \in Worker :
       pc[x] \in WritePc /\ pc[y] \in WritePc /\ fd[x] = fd[y] => key[x] = key[y]

(* The file of a single writer holds just what that writer has written. *)
Progress ==
  \A w \in Worker : pc[w] \in WritePc /\ key[w] \in SoleKey =>
    LET c == file[fd[w]] IN
      /\ c.body = None
      /\ pc[w] \in {"wlen", "wbody"} => c.exp = Expiry(job[w])
      /\ pc[w] = "wbody" => c.len = job[w].ver

IInv == TypeOK /\ Control /\ Owned /\ OneName /\ Progress /\ FileWhole

-----------------------------------------------------------------------------
(* Records: the packages and the file contents the actions build. *)

LEMMA PackageType == ASSUME NEW p \in Package
                     PROVE  p.ver \in Nat /\ Expiry(p) \in Nat
  BY DEF Package, Expiry

LEMMA NewPackageType == ASSUME DiskTypeOK, NEW ttl \in Ttl
                        PROVE  NewPackage(ttl) \in Package
<1>1. now \in Nat /\ nver + 1 \in Nat
  BY DEF DiskTypeOK
<1>2. ttl \in Nat
  BY ConstantsAssumption
<1> QED
  BY <1>1, <1>2 DEF NewPackage, Package

LEMMA StampedType == ASSUME DiskTypeOK, NEW w \in Worker, job[w] \in Package
                     PROVE  Stamped(w) \in Package
  BY DEF DiskTypeOK, Stamped, Package

LEMMA BlankType == Blank \in Cells
  BY DEF Cells, Blank

LEMMA CellsType ==
  ASSUME NEW c \in Cells
  PROVE  /\ c.exp \in Nat \cup {None} /\ c.len \in Nat \cup {None}
         /\ c.body \in Package \cup {None}
         /\ \A n \in Nat : [c EXCEPT !.exp = n] \in Cells
         /\ \A n \in Nat : [c EXCEPT !.len = n] \in Cells
         /\ \A p \in Package : [c EXCEPT !.body = p] \in Cells
  BY DEF Cells

(* Types are preserved, given what a worker inside a call holds. *)

LEMMA TypeStep == TypeOK /\ Control /\ [Next]_vars => TypeOK'
<1> SUFFICES ASSUME TypeOK, Control, [Next]_vars PROVE TypeOK'
  OBVIOUS
<1>1. CASE UNCHANGED vars
  BY <1>1 DEF vars, TypeOK, DiskTypeOK, CallTypeOK, ReadTypeOK
<1>2. CASE Tick
  BY <1>2 DEF Tick, TypeOK, DiskTypeOK, CallTypeOK, ReadTypeOK, store, ctl,
              read, ghost, hist
<1>3. ASSUME NEW w \in Worker, NEW k \in Key, NEW ttl \in Ttl, Set(w, k, ttl)
     PROVE  TypeOK'
  <2>1. DiskTypeOK'
    BY <1>3 DEF TypeOK, DiskTypeOK, Set,
       store
  <2>2. CallTypeOK'
    <3>1. NewPackage(ttl) \in Package /\ k \in Key
      BY NewPackageType DEF TypeOK
    <3>2. local' \in [Worker -> [Key -> Package \cup {None}]]
      BY <1>3, <3>1 DEF TypeOK, CallTypeOK, Set
    <3>3. CASE opt.keepLocal /\ opt.deferWrite
      BY <1>3, <3>2, <3>3 DEF TypeOK, CallTypeOK, Set, ctl
    <3>4. CASE ~(opt.keepLocal /\ opt.deferWrite)
      <4>1. pc' \in [Worker -> Pc]
        BY <1>3, <3>4 DEF TypeOK, CallTypeOK, Set, Pc, JobPc
      <4>2. /\ key' \in [Worker -> Key \cup {None}]
            /\ job' \in [Worker -> Package \cup {None}]
            /\ UNCHANGED <<fd, todo, hit>>
        BY <1>3, <3>1, <3>4 DEF TypeOK, CallTypeOK, Set, ctl
      <4> QED
        BY <3>2, <4>1, <4>2 DEF TypeOK, CallTypeOK
    <3> QED
      BY <3>3, <3>4
  <2>3. ReadTypeOK'
    BY <1>3 DEF TypeOK, ReadTypeOK, Set,
       read, ghost, hist
  <2> QED
    BY <2>1, <2>2, <2>3 DEF TypeOK
<1>4. ASSUME NEW w \in Worker, NEW k \in Key, NEW ttl \in Ttl, SetCached(w, k, ttl)
     PROVE  TypeOK'
  <2>1. DiskTypeOK'
    BY <1>4 DEF TypeOK, DiskTypeOK, SetCached,
       store
  <2>2. CallTypeOK'
    <3>1. NewPackage(ttl) \in Package
      BY NewPackageType DEF TypeOK
    <3> QED
      BY <1>4, <3>1 DEF TypeOK, CallTypeOK, SetCached, ctl, Pc, JobPc
  <2>3. ReadTypeOK'
    BY <1>4 DEF TypeOK, ReadTypeOK, SetCached,
       read, ghost, hist
  <2> QED
    BY <2>1, <2>2, <2>3 DEF TypeOK
<1>5. ASSUME NEW w \in Worker, NEW k \in Key, GetCached(w, k)
     PROVE  TypeOK'
  <2>1. DiskTypeOK'
    BY <1>5 DEF TypeOK, DiskTypeOK, GetCached,
       store
  <2>2. CallTypeOK'
    BY <1>5 DEF TypeOK, CallTypeOK, GetCached,
       ctl, Pc, ReadPc, WritePc, JobPc
  <2>3. ReadTypeOK'
    <3> DEFINE V == {job[x].ver : x \in {y \in Worker : Writing(y, k)}}
    <3>1. V \in SUBSET Nat
      BY PackageType DEF Control, ControlOf, Writing, JobPc
    <3> HIDE DEF V
    <3> QED
      BY <1>5, <3>1 DEF TypeOK, DiskTypeOK, ReadTypeOK, GetCached, read, hist, V
  <2> QED
    BY <2>1, <2>2, <2>3 DEF TypeOK
<1>6. ASSUME NEW w \in Worker, NEW k \in Key, DeleteKey(w, k)
     PROVE  TypeOK'
  <2>1. DiskTypeOK'
    BY <1>6 DEF TypeOK, DiskTypeOK, DeleteKey, Unlink,
       store
  <2>2. CallTypeOK'
    BY <1>6 DEF TypeOK, CallTypeOK, DeleteKey, Unlink,
       ctl, Pc, ReadPc, WritePc, JobPc
  <2>3. ReadTypeOK'
    BY <1>6 DEF TypeOK, ReadTypeOK, DeleteKey, Unlink,
       read, ghost, hist
  <2> QED
    BY <2>1, <2>2, <2>3 DEF TypeOK
<1>7. ASSUME NEW w \in Worker, FlushStart(w)
     PROVE  TypeOK'
  <2>1. DiskTypeOK'
    BY <1>7 DEF TypeOK, DiskTypeOK, FlushStart, Unsaved,
       store
  <2>2. CallTypeOK'
    BY <1>7 DEF TypeOK, CallTypeOK, FlushStart, Unsaved,
       ctl, Pc, ReadPc, WritePc, JobPc
  <2>3. ReadTypeOK'
    BY <1>7 DEF TypeOK, ReadTypeOK, FlushStart, Unsaved,
       read, ghost, hist
  <2> QED
    BY <2>1, <2>2, <2>3 DEF TypeOK
<1>8. ASSUME NEW w \in Worker, DeleteExpired(w)
     PROVE  TypeOK'
  <2>1. DiskTypeOK'
    BY <1>8 DEF TypeOK, DiskTypeOK, DeleteExpired,
       store
  <2>2. CallTypeOK'
    BY <1>8 DEF TypeOK, CallTypeOK, DeleteExpired,
       ctl, Pc, ReadPc, WritePc, JobPc
  <2>3. ReadTypeOK'
    BY <1>8 DEF TypeOK, ReadTypeOK, DeleteExpired,
       read, ghost, hist
  <2> QED
    BY <2>1, <2>2, <2>3 DEF TypeOK
<1>9. ASSUME NEW w \in Worker, ClearStart(w)
     PROVE  TypeOK'
  <2>1. DiskTypeOK'
    BY <1>9 DEF TypeOK, DiskTypeOK, ClearStart,
       store
  <2>2. CallTypeOK'
    BY <1>9 DEF TypeOK, CallTypeOK, ClearStart,
       ctl, Pc, ReadPc, WritePc, JobPc
  <2>3. ReadTypeOK'
    BY <1>9 DEF TypeOK, ReadTypeOK, ClearStart,
       read, ghost, hist
  <2> QED
    BY <2>1, <2>2, <2>3 DEF TypeOK
<1>10. ASSUME NEW w \in Worker, CheckDir(w)
     PROVE  TypeOK'
  <2>1. DiskTypeOK'
    BY <1>10 DEF TypeOK, DiskTypeOK, CheckDir, Stamp,
       store
  <2>2. CallTypeOK'
    <3>1. Stamped(w) \in Package /\ key[w] \in Key
      BY <1>10, StampedType DEF TypeOK, Control, ControlOf, CheckDir, JobPc
    <3>2. CASE Dir(key[w]) \in dirs
      <4>1. pc' \in [Worker -> Pc]
        BY <1>10, <3>2 DEF TypeOK, CallTypeOK, CheckDir, Stamp, Pc, JobPc
      <4>2. local' \in [Worker -> [Key -> Package \cup {None}]]
        <5>1. \/ local' = [local EXCEPT ![w][key[w]] = Stamped(w)]
              \/ local' = local
          BY <1>10, <3>2 DEF CheckDir, Stamp
        <5>2. [local EXCEPT ![w][key[w]] = Stamped(w)]
                \in [Worker -> [Key -> Package \cup {None}]]
          BY <3>1 DEF TypeOK, CallTypeOK
        <5> QED
          BY <5>1, <5>2 DEF TypeOK, CallTypeOK
      <4>3. /\ job' \in [Worker -> Package \cup {None}]
            /\ UNCHANGED <<key, fd, todo, hit>>
        BY <1>10, <3>1, <3>2 DEF TypeOK, CallTypeOK, CheckDir, Stamp, ctl
      <4> QED
        BY <4>1, <4>2, <4>3 DEF TypeOK, CallTypeOK
    <3>3. CASE Dir(key[w]) \notin dirs
      BY <1>10, <3>3 DEF TypeOK, CallTypeOK, CheckDir, ctl, Pc, JobPc
    <3> QED
      BY <3>2, <3>3
  <2>3. ReadTypeOK'
    BY <1>10 DEF TypeOK, ReadTypeOK, CheckDir, Stamp,
       read, ghost, hist
  <2> QED
    BY <2>1, <2>2, <2>3 DEF TypeOK
<1>11. ASSUME NEW w \in Worker, Mkdir(w)
     PROVE  TypeOK'
  <2>1. DiskTypeOK'
    BY <1>11 DEF TypeOK, DiskTypeOK, Control, ControlOf, Mkdir, JobPc, Dir
  <2>2. CallTypeOK'
    <3>1. Stamped(w) \in Package /\ key[w] \in Key
      BY <1>11, StampedType DEF TypeOK, Control, ControlOf, Mkdir, JobPc
    <3> QED
      BY <1>11, <3>1 DEF TypeOK, CallTypeOK, Mkdir, Stamp, ctl, Pc, JobPc
  <2>3. ReadTypeOK'
    BY <1>11 DEF TypeOK, ReadTypeOK, Mkdir, Stamp,
       read, ghost, hist
  <2> QED
    BY <2>1, <2>2, <2>3 DEF TypeOK
<1>12. ASSUME NEW w \in Worker, MkdirFails(w)
     PROVE  TypeOK'
  <2>1. DiskTypeOK'
    BY <1>12 DEF TypeOK, DiskTypeOK, MkdirFails, WriteReturns,
       store
  <2>2. CallTypeOK'
    BY <1>12 DEF TypeOK, CallTypeOK, MkdirFails, WriteReturns,
       ctl, Pc, ReadPc, WritePc, JobPc
  <2>3. ReadTypeOK'
    BY <1>12 DEF TypeOK, ReadTypeOK, MkdirFails, WriteReturns,
       read, ghost, hist
  <2> QED
    BY <2>1, <2>2, <2>3 DEF TypeOK
<1>13. ASSUME NEW w \in Worker, Open(w)
     PROVE  TypeOK'
  <2> DEFINE f == IF entry[key[w]] # None THEN entry[key[w]]
                  ELSE CHOOSE g \in Free : TRUE
  <2>1. key[w] \in Key /\ job[w] \in Package
    BY <1>13 DEF Control, ControlOf, Open, JobPc
  <2>2. f \in Inode
    BY <1>13, <2>1 DEF TypeOK, DiskTypeOK, Open, Free
  <2>3. DiskTypeOK'
    BY <1>13, <2>1, <2>2, BlankType DEF TypeOK, DiskTypeOK, Open, Truncated
  <2>4. CallTypeOK'
    BY <1>13, <2>2 DEF TypeOK, CallTypeOK, Open, ctl, Pc, JobPc, WritePc
  <2>5. ReadTypeOK'
    <3>1. over' \in [Worker -> SUBSET Nat]
      BY <1>13, <2>1, PackageType DEF TypeOK, ReadTypeOK, Open, Overlap
    <3>2. olds' \in [Worker -> SUBSET Nat]
      BY <1>13, <2>1 DEF TypeOK, ReadTypeOK, Open
    <3> QED
      BY <1>13, <3>1, <3>2 DEF TypeOK, ReadTypeOK, Open
  <2> QED
    BY <2>3, <2>4, <2>5 DEF TypeOK
<1>14. ASSUME NEW w \in Worker, OpenFails(w)
     PROVE  TypeOK'
  <2>1. DiskTypeOK'
    BY <1>14 DEF TypeOK, DiskTypeOK, OpenFails, WriteReturns,
       store
  <2>2. CallTypeOK'
    BY <1>14 DEF TypeOK, CallTypeOK, OpenFails, WriteReturns,
       ctl, Pc, ReadPc, WritePc, JobPc
  <2>3. ReadTypeOK'
    BY <1>14 DEF TypeOK, ReadTypeOK, OpenFails, WriteReturns,
       read, ghost, hist
  <2> QED
    BY <2>1, <2>2, <2>3 DEF TypeOK
<1>15. ASSUME NEW w \in Worker, WriteExpiry(w)
     PROVE  TypeOK'
  <2>1. DiskTypeOK'
    <3>1. fd[w] \in Inode /\ job[w] \in Package /\ Expiry(job[w]) \in Nat
      BY <1>15, PackageType DEF Control, ControlOf, WriteExpiry, JobPc, WritePc
    <3>2. file[fd[w]] \in Cells
      BY <3>1 DEF TypeOK, DiskTypeOK
    <3> QED
      BY <1>15, <3>1, <3>2, CellsType DEF TypeOK, DiskTypeOK, WriteExpiry
  <2>2. CallTypeOK'
    BY <1>15 DEF TypeOK, CallTypeOK, WriteExpiry,
       ctl, Pc, ReadPc, WritePc, JobPc
  <2>3. ReadTypeOK'
    BY <1>15 DEF TypeOK, ReadTypeOK, WriteExpiry,
       read, ghost, hist
  <2> QED
    BY <2>1, <2>2, <2>3 DEF TypeOK
<1>16. ASSUME NEW w \in Worker, WriteLength(w)
     PROVE  TypeOK'
  <2>1. DiskTypeOK'
    <3>1. fd[w] \in Inode /\ job[w] \in Package /\ job[w].ver \in Nat
      BY <1>16, PackageType DEF Control, ControlOf, WriteLength, JobPc, WritePc
    <3>2. file[fd[w]] \in Cells
      BY <3>1 DEF TypeOK, DiskTypeOK
    <3> QED
      BY <1>16, <3>1, <3>2, CellsType DEF TypeOK, DiskTypeOK, WriteLength
  <2>2. CallTypeOK'
    BY <1>16 DEF TypeOK, CallTypeOK, WriteLength,
       ctl, Pc, ReadPc, WritePc, JobPc
  <2>3. ReadTypeOK'
    BY <1>16 DEF TypeOK, ReadTypeOK, WriteLength,
       read, ghost, hist
  <2> QED
    BY <2>1, <2>2, <2>3 DEF TypeOK
<1>17. ASSUME NEW w \in Worker, WriteBody(w)
     PROVE  TypeOK'
  <2>1. DiskTypeOK'
    <3>1. fd[w] \in Inode /\ job[w] \in Package /\ job[w].ver \in Nat
      BY <1>17, PackageType DEF Control, ControlOf, WriteBody, JobPc, WritePc
    <3>2. file[fd[w]] \in Cells
      BY <3>1 DEF TypeOK, DiskTypeOK
    <3> QED
      BY <1>17, <3>1, <3>2, CellsType DEF TypeOK, DiskTypeOK, WriteBody
  <2>2. CallTypeOK'
    BY <1>17 DEF TypeOK, CallTypeOK, WriteBody, WriteReturns,
       ctl, Pc, ReadPc, WritePc, JobPc
  <2>3. ReadTypeOK'
    <3>1. job[w].ver \in Nat /\ key[w] \in Key
      BY <1>17, PackageType DEF Control, ControlOf, WriteBody, JobPc, WritePc
    <3> QED
      BY <1>17, <3>1 DEF TypeOK, ReadTypeOK, WriteBody, read
  <2> QED
    BY <2>1, <2>2, <2>3 DEF TypeOK
<1>18. ASSUME NEW w \in Worker, FlushNext(w)
     PROVE  TypeOK'
  <2>1. DiskTypeOK'
    BY <1>18 DEF TypeOK, DiskTypeOK, FlushNext,
       store
  <2>2. CallTypeOK'
    BY <1>18 DEF TypeOK, CallTypeOK, FlushNext,
       ctl, Pc, ReadPc, WritePc, JobPc
  <2>3. ReadTypeOK'
    BY <1>18 DEF TypeOK, ReadTypeOK, FlushNext,
       read, ghost, hist
  <2> QED
    BY <2>1, <2>2, <2>3 DEF TypeOK
<1>19. ASSUME NEW w \in Worker, FlushEnd(w)
     PROVE  TypeOK'
  <2>1. DiskTypeOK'
    BY <1>19 DEF TypeOK, DiskTypeOK, FlushEnd,
       store
  <2>2. CallTypeOK'
    BY <1>19 DEF TypeOK, CallTypeOK, FlushEnd,
       ctl, Pc, ReadPc, WritePc, JobPc
  <2>3. ReadTypeOK'
    BY <1>19 DEF TypeOK, ReadTypeOK, FlushEnd,
       read, ghost, hist
  <2> QED
    BY <2>1, <2>2, <2>3 DEF TypeOK
<1>20. ASSUME NEW w \in Worker, ReadOpen(w)
     PROVE  TypeOK'
  <2>1. DiskTypeOK'
    BY <1>20 DEF TypeOK, DiskTypeOK, ReadOpen, ReadReturns,
       store
  <2>2. CallTypeOK'
    <3>1. key[w] \in Key
      BY <1>20 DEF Control, ControlOf, ReadOpen, ReadPc
    <3> QED
      BY <1>20, <3>1, ZenonT(30) DEF TypeOK, DiskTypeOK, CallTypeOK, ReadOpen, ReadReturns,
         ctl, Pc, ReadPc
  <2>3. ReadTypeOK'
    BY <1>20, BlankType DEF TypeOK, ReadTypeOK, ReadOpen, ReadReturns, ghost, hist, read
  <2> QED
    BY <2>1, <2>2, <2>3 DEF TypeOK
<1>21. ASSUME NEW w \in Worker, ReadExpiry(w)
     PROVE  TypeOK'
  <2>1. DiskTypeOK'
    BY <1>21 DEF TypeOK, DiskTypeOK, ReadExpiry, ReadReturns,
       store
  <2>2. CallTypeOK'
    BY <1>21 DEF TypeOK, CallTypeOK, ReadExpiry, ReadReturns,
       ctl, Pc, ReadPc, WritePc, JobPc
  <2>3. ReadTypeOK'
    <3>1. file[fd[w]] \in Cells
      BY <1>21 DEF TypeOK, DiskTypeOK, ReadTypeOK, Control, ControlOf, ReadExpiry, ReadPc
    <3>2. CASE Live(file[fd[w]], clk[w])
      BY <1>21, <3>1, <3>2 DEF TypeOK, ReadTypeOK, ReadExpiry, ghost, hist
    <3>3. CASE ~Live(file[fd[w]], clk[w])
      BY <1>21, <3>3, BlankType DEF TypeOK, ReadTypeOK, ReadExpiry, ReadReturns,
         ghost, hist
    <3> QED
      BY <3>2, <3>3
  <2> QED
    BY <2>1, <2>2, <2>3 DEF TypeOK
<1>22. ASSUME NEW w \in Worker, ReadLength(w)
     PROVE  TypeOK'
  <2>1. DiskTypeOK'
    BY <1>22 DEF TypeOK, DiskTypeOK, ReadLength, ReadReturns,
       store
  <2>2. CallTypeOK'
    BY <1>22 DEF TypeOK, CallTypeOK, ReadLength, ReadReturns,
       ctl, Pc, ReadPc, WritePc, JobPc
  <2>3. ReadTypeOK'
    <3> DEFINE b == IF buf[w].len = None /\ buf[w].body = None
                    THEN [file[fd[w]] EXCEPT !.exp = buf[w].exp] ELSE buf[w]
    <3>1. file[fd[w]] \in Cells /\ buf[w] \in Cells
      BY <1>22 DEF TypeOK, DiskTypeOK, ReadTypeOK, Control, ControlOf, ReadLength, ReadPc
    <3>2. b \in Cells
      BY <3>1 DEF Cells
    <3>3. CASE b.len # None
      <4> HIDE DEF b
      <4>1. buf' = [buf EXCEPT ![w] = b]
        BY <1>22, <3>3 DEF ReadLength, b
      <4> QED
        BY <1>22, <3>2, <3>3, <4>1 DEF TypeOK, ReadTypeOK, ReadLength, ReadReturns,
           ghost, hist, b
    <3>4. CASE ~(b.len # None)
      BY <1>22, <3>4, BlankType DEF TypeOK, ReadTypeOK, ReadLength, ReadReturns,
         ghost, hist
    <3> QED
      BY <3>3, <3>4
  <2> QED
    BY <2>1, <2>2, <2>3 DEF TypeOK
<1>23. ASSUME NEW w \in Worker, ReadBody(w)
     PROVE  TypeOK'
  <2>1. DiskTypeOK'
    BY <1>23 DEF TypeOK, DiskTypeOK, ReadBody, ReadReturns,
       store
  <2>2. CallTypeOK'
    BY <1>23 DEF TypeOK, CallTypeOK, ReadBody, ReadReturns,
       ctl, Pc, ReadPc, WritePc, JobPc
  <2>3. ReadTypeOK'
    <3>1. file[fd[w]] \in Cells /\ buf[w] \in Cells
      BY <1>23 DEF TypeOK, DiskTypeOK, ReadTypeOK, Control, ControlOf, ReadBody, ReadPc
    <3>2. buf' \in [Worker -> Cells]
      BY <1>23, <3>1, BlankType, CellsType
         DEF TypeOK, ReadTypeOK, ReadBody, ReadReturns, Cells
    <3> QED
      BY <1>23, <3>2 DEF TypeOK, ReadTypeOK, ReadBody, ReadReturns, ghost, hist
  <2> QED
    BY <2>1, <2>2, <2>3 DEF TypeOK
<1>24. ASSUME NEW w \in Worker, Got(w)
     PROVE  TypeOK'
  <2>1. DiskTypeOK'
    BY <1>24 DEF TypeOK, DiskTypeOK, Got, ReadReturns,
       store
  <2>2. CallTypeOK'
    BY <1>24 DEF TypeOK, CallTypeOK, Got, ReadReturns,
       ctl, Pc, ReadPc, WritePc, JobPc
  <2>3. ReadTypeOK'
    BY <1>24, BlankType DEF TypeOK, ReadTypeOK, Got, ReadReturns, ghost, hist, read
  <2> QED
    BY <2>1, <2>2, <2>3 DEF TypeOK
<1>25. ASSUME NEW w \in Worker, Scan(w)
     PROVE  TypeOK'
  <2>1. DiskTypeOK'
    BY <1>25 DEF TypeOK, DiskTypeOK, Scan,
       store
  <2>2. CallTypeOK'
    BY <1>25 DEF TypeOK, CallTypeOK, Scan,
       ctl, Pc, ReadPc, WritePc, JobPc
  <2>3. ReadTypeOK'
    BY <1>25 DEF TypeOK, ReadTypeOK, Scan,
       read, ghost, hist
  <2> QED
    BY <2>1, <2>2, <2>3 DEF TypeOK
<1>26. ASSUME NEW w \in Worker, Reap(w)
     PROVE  TypeOK'
  <2>1. DiskTypeOK'
    BY <1>26 DEF TypeOK, DiskTypeOK, Reap, Unlink,
       store
  <2>2. CallTypeOK'
    BY <1>26 DEF TypeOK, CallTypeOK, Reap, Unlink,
       ctl, Pc, ReadPc, WritePc, JobPc
  <2>3. ReadTypeOK'
    BY <1>26 DEF TypeOK, ReadTypeOK, Reap, Unlink,
       read, ghost, hist
  <2> QED
    BY <2>1, <2>2, <2>3 DEF TypeOK
<1>27. ASSUME NEW w \in Worker, ClearUnlink(w)
     PROVE  TypeOK'
  <2>1. DiskTypeOK'
    BY <1>27 DEF TypeOK, DiskTypeOK, ClearUnlink, Unlink,
       store
  <2>2. CallTypeOK'
    <3>1. PICK k \in todo[w] : ClearUnlink(w)!2!(k)
      BY <1>27 DEF ClearUnlink
    <3>2. k \in Key
      BY <3>1 DEF TypeOK, CallTypeOK
    <3>3. CASE opt.dirTree
      BY <1>27, <3>1, <3>2, <3>3 DEF TypeOK, CallTypeOK, ClearUnlink, Pc
    <3>4. CASE ~opt.dirTree
      <4>1. pc' \in [Worker -> Pc]
        BY <1>27, <3>1, <3>4 DEF TypeOK, CallTypeOK, ClearUnlink, Pc
      <4>2. /\ todo' \in [Worker -> SUBSET Key]
            /\ UNCHANGED <<local, key, job, fd, hit>>
        BY <1>27, <3>1, <3>4 DEF TypeOK, CallTypeOK, ClearUnlink
      <4> QED
        BY <4>1, <4>2 DEF TypeOK, CallTypeOK
    <3> QED
      BY <3>3, <3>4
  <2>3. ReadTypeOK'
    BY <1>27 DEF TypeOK, ReadTypeOK, ClearUnlink, Unlink,
       read, ghost, hist
  <2> QED
    BY <2>1, <2>2, <2>3 DEF TypeOK
<1>28. ASSUME NEW w \in Worker, ClearRmdir(w)
     PROVE  TypeOK'
  <2>1. DiskTypeOK'
    BY <1>28 DEF TypeOK, DiskTypeOK, ClearRmdir,
       store
  <2>2. CallTypeOK'
    BY <1>28 DEF TypeOK, CallTypeOK, ClearRmdir,
       ctl, Pc, ReadPc, WritePc, JobPc
  <2>3. ReadTypeOK'
    BY <1>28 DEF TypeOK, ReadTypeOK, ClearRmdir,
       read, ghost, hist
  <2> QED
    BY <2>1, <2>2, <2>3 DEF TypeOK
<1>29. ASSUME NEW w \in Worker, Crash(w)
     PROVE  TypeOK'
  <2>1. DiskTypeOK'
    BY <1>29 DEF TypeOK, DiskTypeOK, Crash,
       store
  <2>2. CallTypeOK'
    BY <1>29 DEF TypeOK, CallTypeOK, Crash,
       ctl, Pc, ReadPc, WritePc, JobPc
  <2>3. ReadTypeOK'
    BY <1>29, BlankType DEF TypeOK, ReadTypeOK, Crash
  <2> QED
    BY <2>1, <2>2, <2>3 DEF TypeOK
<1> QED
  BY <1>1, <1>2, <1>3, <1>4, <1>5, <1>6, <1>7, <1>8, <1>9, <1>10, <1>11, <1>12, <1>13, <1>14, <1>15, <1>16, <1>17, <1>18, <1>19, <1>20, <1>21, <1>22, <1>23, <1>24, <1>25, <1>26, <1>27, <1>28, <1>29
  DEF Next, Call, WriteStep, ReadStep, DeleteStep

(* A step of one worker leaves the others where they are. *)
Step(w) ==
  Call(w) \/ WriteStep(w) \/ ReadStep(w) \/ DeleteStep(w) \/ Crash(w)

Frame(w) ==
  \A x \in Worker \ {w} :
    /\ pc'[x] = pc[x] /\ key'[x] = key[x] /\ job'[x] = job[x]
    /\ fd'[x] = fd[x] /\ todo'[x] = todo[x] /\ local'[x] = local[x]

LEMMA FrameStep == ASSUME TypeOK, NEW w \in Worker, Step(w)
                   PROVE  Frame(w)
<1> USE DEF TypeOK, CallTypeOK, Frame
<1>1. CASE \E k \in Key, ttl \in Ttl : Set(w, k, ttl)
  BY <1>1 DEF Set, store, ctl
<1>2. CASE \E k \in Key, ttl \in Ttl : SetCached(w, k, ttl)
  BY <1>2 DEF SetCached, store, ctl
<1>3. CASE \E k \in Key : GetCached(w, k)
  BY <1>3 DEF GetCached, store, ctl
<1>4. CASE \E k \in Key : DeleteKey(w, k)
  BY <1>4 DEF DeleteKey, Unlink, store, ctl
<1>5. CASE FlushStart(w)
  BY <1>5 DEF FlushStart, Unsaved, store, ctl
<1>6. CASE DeleteExpired(w)
  BY <1>6 DEF DeleteExpired, store, ctl
<1>7. CASE ClearStart(w)
  BY <1>7 DEF ClearStart, store, ctl
<1>8. CASE CheckDir(w)
  BY <1>8 DEF CheckDir, Stamp, store, ctl
<1>9. CASE Mkdir(w)
  BY <1>9 DEF Mkdir, Stamp, store, ctl
<1>10. CASE MkdirFails(w)
  BY <1>10 DEF MkdirFails, WriteReturns, store, ctl
<1>11. CASE Open(w)
  BY <1>11 DEF Open, Truncated, Free, Overlap, store, ctl
<1>12. CASE OpenFails(w)
  BY <1>12 DEF OpenFails, WriteReturns, store, ctl
<1>13. CASE WriteExpiry(w)
  BY <1>13 DEF WriteExpiry, store, ctl
<1>14. CASE WriteLength(w)
  BY <1>14 DEF WriteLength, store, ctl
<1>15. CASE WriteBody(w)
  BY <1>15 DEF WriteBody, WriteReturns, store, ctl
<1>16. CASE FlushNext(w)
  BY <1>16 DEF FlushNext, store, ctl
<1>17. CASE FlushEnd(w)
  BY <1>17 DEF FlushEnd, store, ctl
<1>18. CASE ReadOpen(w)
  BY <1>18 DEF ReadOpen, ReadReturns, store, ctl
<1>19. CASE ReadExpiry(w)
  BY <1>19 DEF ReadExpiry, ReadReturns, store, ctl
<1>20. CASE ReadLength(w)
  BY <1>20 DEF ReadLength, ReadReturns, store, ctl
<1>21. CASE ReadBody(w)
  BY <1>21 DEF ReadBody, ReadReturns, store, ctl
<1>22. CASE Got(w)
  BY <1>22 DEF Got, ReadReturns, store, ctl
<1>23. CASE Scan(w)
  BY <1>23 DEF Scan, store, ctl
<1>24. CASE Reap(w)
  BY <1>24 DEF Reap, Unlink, store, ctl
<1>25. CASE ClearUnlink(w)
  BY <1>25 DEF ClearUnlink, Unlink, store, ctl
<1>26. CASE ClearRmdir(w)
  BY <1>26 DEF ClearRmdir, store, ctl
<1>27. CASE Crash(w)
  BY <1>27 DEF Crash, store, ctl
<1> QED
  BY <1>1, <1>2, <1>3, <1>4, <1>5, <1>6, <1>7, <1>8, <1>9, <1>10, <1>11, <1>12, <1>13, <1>14, <1>15, <1>16, <1>17, <1>18, <1>19, <1>20, <1>21, <1>22, <1>23, <1>24, <1>25, <1>26, <1>27
  DEF Step, Call, WriteStep, ReadStep, DeleteStep

LEMMA ControlStep == TypeOK /\ Control /\ [Next]_vars => Control'
<1> SUFFICES ASSUME TypeOK, Control, [Next]_vars PROVE Control'
  OBVIOUS
<1>1. CASE UNCHANGED vars
  BY <1>1 DEF vars, Control, ControlOf
<1>2. CASE Tick
  BY <1>2 DEF Tick, Control, ControlOf, store, ctl
<1>3. ASSUME NEW w \in Worker, Step(w)
     PROVE  Control'
  <2>1. \A x \in Worker \ {w} : ControlOf(x)'
    BY <1>3, FrameStep DEF Control, ControlOf, Frame
  <2> SUFFICES ControlOf(w)'
    BY <2>1 DEF Control
  <2> USE DEF TypeOK, CallTypeOK, ControlOf, JobPc, WritePc, ReadPc
  <2>2. ControlOf(w)
    BY DEF Control
  <2>3. CASE \E k \in Key, ttl \in Ttl : Set(w, k, ttl)
    <3>1. PICK k \in Key, ttl \in Ttl : Set(w, k, ttl)
      BY <2>3
    <3>2. NewPackage(ttl) \in Package
      BY NewPackageType
    <3>3. todo'[w] = {}
      BY <2>2, <3>1 DEF Set, ctl
    <3>4. \/ pc'[w] = "idle"
          \/ pc'[w] = "checkdir" /\ key'[w] = k /\ job'[w] = NewPackage(ttl)
      BY <3>1 DEF Set
    <3> QED
      BY <3>2, <3>3, <3>4
  <2>4. CASE \E k \in Key, ttl \in Ttl : SetCached(w, k, ttl)
    BY <2>2, <2>4 DEF SetCached, ctl
  <2>5. CASE \E k \in Key : GetCached(w, k)
    BY <2>2, <2>5 DEF GetCached, ctl
  <2>6. CASE \E k \in Key : DeleteKey(w, k)
    BY <2>2, <2>6 DEF DeleteKey, Unlink, ctl
  <2>7. CASE FlushStart(w)
    BY <2>2, <2>7 DEF FlushStart, Unsaved, ctl
  <2>8. CASE DeleteExpired(w)
    BY <2>2, <2>8 DEF DeleteExpired, ctl
  <2>9. CASE ClearStart(w)
    BY <2>2, <2>9 DEF ClearStart, ctl
  <2>10. CASE CheckDir(w)
    <3>1. Stamped(w) \in Package /\ key[w] \in Key
      BY <2>2, <2>10, StampedType DEF CheckDir
    <3>2. todo'[w] = todo[w] /\ key'[w] = key[w]
      BY <2>10 DEF CheckDir, ctl
    <3>3. \A k \in Key : local[w][k] # None => local'[w][k] # None
      BY <2>10, <3>1, NoneAssumption DEF CheckDir, Stamp
    <3>4. pc'[w] \in {"mkdir", "open"} /\ job'[w] \in Package
      BY <2>2, <2>10, <3>1 DEF CheckDir, Stamp
    <3> QED
      BY <2>2, <2>10, <3>1, <3>2, <3>3, <3>4 DEF CheckDir
  <2>11. CASE Mkdir(w)
    <3>1. Stamped(w) \in Package /\ key[w] \in Key
      BY <2>2, <2>11, StampedType DEF Mkdir
    <3>2. todo'[w] = todo[w] /\ key'[w] = key[w]
      BY <2>11 DEF Mkdir, ctl
    <3>3. \A k \in Key : local[w][k] # None => local'[w][k] # None
      BY <2>11, <3>1, NoneAssumption DEF Mkdir, Stamp
    <3>4. pc'[w] \in {"mkdir", "open"} /\ job'[w] \in Package
      BY <2>2, <2>11, <3>1 DEF Mkdir, Stamp
    <3> QED
      BY <2>2, <2>11, <3>1, <3>2, <3>3, <3>4 DEF Mkdir
  <2>12. CASE MkdirFails(w)
    BY <2>2, <2>12 DEF MkdirFails, WriteReturns, ctl
  <2>13. CASE Open(w)
    <3>1. fd'[w] \in Inode
      BY <2>2, <2>13 DEF DiskTypeOK, Open, Free
    <3> QED
      BY <2>2, <2>13, <3>1 DEF Open, ctl
  <2>14. CASE OpenFails(w)
    BY <2>2, <2>14 DEF OpenFails, WriteReturns, ctl
  <2>15. CASE WriteExpiry(w)
    BY <2>2, <2>15 DEF WriteExpiry, ctl
  <2>16. CASE WriteLength(w)
    BY <2>2, <2>16 DEF WriteLength, ctl
  <2>17. CASE WriteBody(w)
    BY <2>2, <2>17 DEF WriteBody, WriteReturns, ctl
  <2>18. CASE FlushNext(w)
    BY <2>2, <2>18 DEF FlushNext, ctl
  <2>19. CASE FlushEnd(w)
    BY <2>2, <2>19 DEF FlushEnd, ctl
  <2>20. CASE ReadOpen(w)
    <3>1. CASE entry[key[w]] = None
      BY <2>2, <2>20, <3>1 DEF ReadOpen, ReadReturns, ctl
    <3>2. CASE entry[key[w]] # None
      BY <2>2, <2>20, <3>2 DEF DiskTypeOK, ReadOpen, ctl
    <3> QED
      BY <3>1, <3>2
  <2>21. CASE ReadExpiry(w)
    BY <2>2, <2>21 DEF ReadExpiry, ReadReturns, ctl
  <2>22. CASE ReadLength(w)
    BY <2>2, <2>22 DEF ReadLength, ReadReturns, ctl
  <2>23. CASE ReadBody(w)
    BY <2>2, <2>23 DEF ReadBody, ReadReturns, ctl
  <2>24. CASE Got(w)
    BY <2>2, <2>24 DEF Got, ReadReturns, ctl
  <2>25. CASE Scan(w)
    BY <2>2, <2>25 DEF Scan, ctl
  <2>26. CASE Reap(w)
    BY <2>2, <2>26 DEF Reap, Unlink, ctl
  <2>27. CASE ClearUnlink(w)
    BY <2>2, <2>27 DEF ClearUnlink, Unlink, ctl
  <2>28. CASE ClearRmdir(w)
    BY <2>2, <2>28 DEF ClearRmdir, ctl
  <2>29. CASE Crash(w)
    BY <2>2, <2>29 DEF Crash, ctl
  <2> QED
    BY <1>3, <2>3, <2>4, <2>5, <2>6, <2>7, <2>8, <2>9, <2>10, <2>11, <2>12, <2>13, <2>14, <2>15, <2>16, <2>17, <2>18, <2>19, <2>20, <2>21, <2>22, <2>23, <2>24, <2>25, <2>26, <2>27, <2>28, <2>29
    DEF Step, Call, WriteStep, ReadStep, DeleteStep
<1> QED
  BY <1>1, <1>2, <1>3 DEF Next, Step

LEMMA TypeAndControl == Spec => [](TypeOK /\ Control)
<1>1. Init => TypeOK
  <2> SUFFICES ASSUME Init PROVE TypeOK
    OBVIOUS
  <2>1. DiskTypeOK
    BY ConstantsAssumption, BlankType DEF Init, DiskTypeOK
  <2>2. CallTypeOK
    BY DEF Init, CallTypeOK, Pc
  <2>3. ReadTypeOK
    BY BlankType DEF Init, ReadTypeOK
  <2> QED
    BY <2>1, <2>2, <2>3 DEF TypeOK
<1>2. Init => Control
  BY DEF Init, Control, ControlOf, JobPc, WritePc, ReadPc
<1>3. TypeOK /\ Control /\ [Next]_vars => TypeOK' /\ Control'
  BY TypeStep, ControlStep
<1> QED
  BY <1>1, <1>2, <1>3, PTL DEF Spec

(* The state of the cache and of every worker stays within its types. *)
THEOREM TypeCorrect == Spec => []TypeOK
  BY TypeAndControl, PTL
-----------------------------------------------------------------------------
(* Who may write, and through which file. *)

LEMMA OwnedStep == TypeOK /\ Control /\ Owned /\ [Next]_vars => Owned'
<1> SUFFICES ASSUME TypeOK, Control, Owned, [Next]_vars PROVE Owned'
  OBVIOUS
<1>1. CASE UNCHANGED vars
  BY <1>1 DEF vars, Owned, OwnedBy
<1>2. CASE Tick
  BY <1>2 DEF Tick, Owned, OwnedBy
<1>3. ASSUME NEW w \in Worker, Step(w)
     PROVE  Owned'
  <2>1. \A x \in Worker \ {w} : OwnedBy(x)'
    BY <1>3, FrameStep DEF Owned, OwnedBy, Frame
  <2> SUFFICES OwnedBy(w)'
    BY <2>1 DEF Owned
  <2>2. ControlOf(w) /\ OwnedBy(w)
    BY DEF Control, Owned
  <2> USE DEF TypeOK, CallTypeOK, OwnedBy, JobPc, WritePc, ReadPc
  <2>3. CASE \E k \in Key, ttl \in Ttl : Set(w, k, ttl)
    BY <2>2, <2>3 DEF Set
  <2>4. CASE \E k \in Key, ttl \in Ttl : SetCached(w, k, ttl)
    BY <2>2, <2>4 DEF SetCached
  <2>5. CASE \E k \in Key : GetCached(w, k)
    BY <2>2, <2>5 DEF GetCached
  <2>6. CASE \E k \in Key : DeleteKey(w, k)
    BY <2>2, <2>6 DEF DeleteKey, Unlink
  <2>7. CASE FlushStart(w)
    BY <2>2, <2>7 DEF FlushStart, Unsaved
  <2>8. CASE DeleteExpired(w)
    BY <2>2, <2>8 DEF DeleteExpired
  <2>9. CASE ClearStart(w)
    BY <2>2, <2>9 DEF ClearStart
  <2>10. CASE CheckDir(w)
    BY <2>2, <2>10 DEF CheckDir, Stamp
  <2>11. CASE Mkdir(w)
    BY <2>2, <2>11 DEF Mkdir, Stamp
  <2>12. CASE MkdirFails(w)
    BY <2>2, <2>12 DEF MkdirFails, WriteReturns
  <2>13. CASE Open(w)
    BY <2>2, <2>13 DEF Open, Truncated, Free, Overlap
  <2>14. CASE OpenFails(w)
    BY <2>2, <2>14 DEF OpenFails, WriteReturns
  <2>15. CASE WriteExpiry(w)
    BY <2>2, <2>15 DEF WriteExpiry
  <2>16. CASE WriteLength(w)
    BY <2>2, <2>16 DEF WriteLength
  <2>17. CASE WriteBody(w)
    BY <2>2, <2>17 DEF WriteBody, WriteReturns
  <2>18. CASE FlushNext(w)
    <3>1. PICK k \in todo[w] : key' = [key EXCEPT ![w] = k]
      BY <2>18 DEF FlushNext
    <3>2. k \in Key /\ w \in MayWrite[k]
      BY <2>2, <2>18, <3>1 DEF FlushNext, ControlOf
    <3>3. key'[w] = k /\ local' = local
      BY <2>18, <3>1 DEF FlushNext
    <3> QED
      BY <2>2, <3>2, <3>3
  <2>19. CASE FlushEnd(w)
    BY <2>2, <2>19 DEF FlushEnd
  <2>20. CASE ReadOpen(w)
    BY <2>2, <2>20 DEF ReadOpen, ReadReturns
  <2>21. CASE ReadExpiry(w)
    BY <2>2, <2>21 DEF ReadExpiry, ReadReturns
  <2>22. CASE ReadLength(w)
    BY <2>2, <2>22 DEF ReadLength, ReadReturns
  <2>23. CASE ReadBody(w)
    BY <2>2, <2>23 DEF ReadBody, ReadReturns
  <2>24. CASE Got(w)
    BY <2>2, <2>24 DEF Got, ReadReturns
  <2>25. CASE Scan(w)
    BY <2>2, <2>25 DEF Scan
  <2>26. CASE Reap(w)
    BY <2>2, <2>26 DEF Reap, Unlink
  <2>27. CASE ClearUnlink(w)
    BY <2>2, <2>27 DEF ClearUnlink, Unlink
  <2>28. CASE ClearRmdir(w)
    BY <2>2, <2>28 DEF ClearRmdir
  <2>29. CASE Crash(w)
    BY <2>2, <2>29 DEF Crash
  <2> QED
    BY <1>3, <2>3, <2>4, <2>5, <2>6, <2>7, <2>8, <2>9, <2>10, <2>11, <2>12, <2>13, <2>14, <2>15, <2>16, <2>17, <2>18, <2>19, <2>20, <2>21, <2>22, <2>23, <2>24, <2>25, <2>26, <2>27, <2>28, <2>29
    DEF Step, Call, WriteStep, ReadStep, DeleteStep
<1> QED
  BY <1>1, <1>2, <1>3 DEF Next, Step

(* All but the four writing calls leave the contents of files alone, take  *)
(* paths away at most, and leave the worker outside a write.               *)
Quiet(w) ==
  /\ file' = file
  /\ pc'[w] \notin WritePc
  /\ \A k \in Key : entry'[k] \in {entry[k], None}

Writes(w) == Open(w) \/ WriteExpiry(w) \/ WriteLength(w) \/ WriteBody(w)

LEMMA QuietStep == ASSUME TypeOK, Control, NEW w \in Worker, Step(w), ~Writes(w)
                   PROVE  Quiet(w)
<1> USE DEF TypeOK, DiskTypeOK, CallTypeOK, Quiet, WritePc
<1>1. CASE \E k \in Key, ttl \in Ttl : Set(w, k, ttl)
  BY <1>1 DEF Set, store
<1>2. CASE \E k \in Key, ttl \in Ttl : SetCached(w, k, ttl)
  BY <1>2 DEF SetCached, store
<1>3. CASE \E k \in Key : GetCached(w, k)
  BY <1>3 DEF GetCached, store
<1>4. CASE \E k \in Key : DeleteKey(w, k)
  BY <1>4 DEF DeleteKey, Unlink, store
<1>5. CASE FlushStart(w)
  BY <1>5 DEF FlushStart, Unsaved, store
<1>6. CASE DeleteExpired(w)
  BY <1>6 DEF DeleteExpired, store
<1>7. CASE ClearStart(w)
  BY <1>7 DEF ClearStart, store
<1>8. CASE CheckDir(w)
  BY <1>8 DEF CheckDir, Stamp, store
<1>9. CASE Mkdir(w)
  BY <1>9 DEF Mkdir, Stamp, store
<1>10. CASE MkdirFails(w)
  BY <1>10 DEF MkdirFails, WriteReturns, store
<1>11. CASE OpenFails(w)
  BY <1>11 DEF OpenFails, WriteReturns, store
<1>12. CASE FlushNext(w)
  BY <1>12 DEF FlushNext, store
<1>13. CASE FlushEnd(w)
  BY <1>13 DEF FlushEnd, store
<1>14. CASE ReadOpen(w)
  BY <1>14 DEF ReadOpen, ReadReturns, store
<1>15. CASE ReadExpiry(w)
  BY <1>15 DEF ReadExpiry, ReadReturns, store
<1>16. CASE ReadLength(w)
  BY <1>16 DEF ReadLength, ReadReturns, store
<1>17. CASE ReadBody(w)
  BY <1>17 DEF ReadBody, ReadReturns, store
<1>18. CASE Got(w)
  BY <1>18 DEF Got, ReadReturns, store
<1>19. CASE Scan(w)
  BY <1>19 DEF Scan, store
<1>20. CASE Reap(w)
  BY <1>20 DEF Reap, Unlink, store
<1>21. CASE ClearUnlink(w)
  BY <1>21 DEF ClearUnlink, Unlink, store
<1>22. CASE ClearRmdir(w)
  BY <1>22 DEF ClearRmdir, store
<1>23. CASE Crash(w)
  BY <1>23 DEF Crash, store
<1> QED
  BY <1>1, <1>2, <1>3, <1>4, <1>5, <1>6, <1>7, <1>8, <1>9, <1>10, <1>11, <1>12, <1>13, <1>14, <1>15, <1>16, <1>17, <1>18, <1>19, <1>20, <1>21, <1>22, <1>23
  DEF Step, Call, WriteStep, ReadStep, DeleteStep, Writes

(* Two writers with one file open write the same key, and a single-writer  *)
(* key has one writer: its file is not touched by anybody else.            *)
LEMMA SoleFile ==
  ASSUME Control, Owned, OneName, NEW x \in Worker, NEW y \in Worker,
         pc[x] \in WritePc, pc[y] \in WritePc, fd[x] = fd[y], key[x] \in SoleKey
  PROVE  x = y
<1>1. key[x] = key[y]
  BY DEF OneName
<1>2. x \in MayWrite[key[x]] /\ y \in MayWrite[key[x]]
  BY <1>1 DEF Owned, OwnedBy, JobPc
<1> QED
  BY <1>2 DEF SoleKey

LEMMA QuietKeeps ==
  ASSUME IInv, NEW w \in Worker, Frame(w), Quiet(w)
  PROVE  OneName' /\ Progress' /\ FileWhole'
<1>1. \A x \in Worker : pc'[x] \in WritePc =>
        /\ x # w /\ pc[x] = pc'[x] /\ fd'[x] = fd[x] /\ fd[x] \in Inode
        /\ key'[x] = key[x] /\ job'[x] = job[x]
  BY DEF IInv, Quiet, Frame, Control, ControlOf
<1>2. \A k \in Key : entry'[k] # None => entry'[k] = entry[k]
  BY DEF Quiet
<1>3. OneName'
  BY <1>1, <1>2, NoneAssumption DEF OneName, IInv
<1>4. Progress'
  BY <1>1 DEF Progress, IInv, Quiet
<1>5. FileWhole'
  BY <1>2 DEF FileWhole, IInv, Quiet, Whole, SoleKey
<1> QED
  BY <1>3, <1>4, <1>5

LEMMA OpenKeeps ==
  ASSUME IInv, NEW w \in Worker, Frame(w), Open(w)
  PROVE  OneName' /\ Progress' /\ FileWhole'
<1> DEFINE f == IF entry[key[w]] # None THEN entry[key[w]]
                ELSE CHOOSE g \in Free : TRUE
<1>1. key[w] \in Key /\ w \in MayWrite[key[w]]
  BY DEF IInv, Control, ControlOf, Owned, OwnedBy, Open, JobPc
<1>2. f \in Inode /\ (f = entry[key[w]] \/ f \notin InUse)
  BY <1>1 DEF IInv, TypeOK, DiskTypeOK, Open, Free
<1>3. /\ entry' = [entry EXCEPT ![key[w]] = f]
      /\ file' = [file EXCEPT ![f] = Blank]
      /\ fd' = [fd EXCEPT ![w] = f]
      /\ pc' = [pc EXCEPT ![w] = "wexp"]
      /\ UNCHANGED <<key, job>>
  BY DEF Open, Truncated
<1> HIDE DEF f
<1> DEFINE types == /\ entry \in [Key -> Inode \cup {None}]
                    /\ file \in [Inode -> Cells]
                    /\ fd \in [Worker -> Inode \cup {None}]
                    /\ pc \in [Worker -> Pc]
<1>4. types
  BY DEF IInv, TypeOK, DiskTypeOK, CallTypeOK
<1>5. \A x \in Worker \ {w} : /\ pc'[x] = pc[x] /\ fd'[x] = fd[x]
                              /\ key'[x] = key[x] /\ job'[x] = job[x]
  BY DEF Frame
<1>6. pc'[w] = "wexp" /\ fd'[w] = f /\ key'[w] = key[w] /\ entry'[key[w]] = f
  BY <1>1, <1>3, <1>4
<1>7. \A k \in Key \ {key[w]} : entry'[k] = entry[k] /\ entry[k] # f
  <2>1. \A k \in Key \ {key[w]} : entry'[k] = entry[k]
    BY <1>1, <1>3, <1>4
  <2>2. \A k \in Key \ {key[w]} : entry[k] # f
    BY <1>1, <1>2, NoneAssumption DEF IInv, OneName, InUse
  <2> QED
    BY <2>1, <2>2
<1>8. \A x \in Worker \ {w} : pc[x] \in WritePc /\ fd[x] = f => key[x] = key[w]
  BY <1>1, <1>2 DEF IInv, OneName, InUse
<1>9. OneName'
  <2>1. \A k, l \in Key : entry'[k] # None /\ entry'[k] = entry'[l] => k = l
    BY <1>6, <1>7 DEF IInv, OneName
  <2>2. \A x \in Worker, k \in Key :
          pc'[x] \in WritePc /\ entry'[k] = fd'[x] => k = key'[x]
    BY <1>5, <1>6, <1>7, <1>8 DEF IInv, OneName
  <2>3. \A x, y \in Worker :
          pc'[x] \in WritePc /\ pc'[y] \in WritePc /\ fd'[x] = fd'[y] => key'[x] = key'[y]
    BY <1>5, <1>6, <1>8 DEF IInv, OneName
  <2> QED
    BY <2>1, <2>2, <2>3 DEF OneName
<1>10. Progress'
  <2>1. ASSUME NEW x \in Worker, x # w, pc[x] \in WritePc, key[x] \in SoleKey
        PROVE  fd[x] # f
    BY <1>1, <1>8, <2>1 DEF IInv, Owned, OwnedBy, JobPc, SoleKey
  <2>2. \A x \in Worker : x # w /\ pc[x] \in WritePc => fd[x] \in Inode
    BY DEF IInv, Control, ControlOf
  <2>3. \A x \in Worker : x # w /\ pc[x] \in WritePc /\ key[x] \in SoleKey
          => file'[fd[x]] = file[fd[x]]
    BY <1>3, <1>4, <2>1, <2>2
  <2>4. file'[f] = Blank
    BY <1>2, <1>3, <1>4
  <2> QED
    BY <1>5, <1>6, <2>3, <2>4 DEF IInv, Progress, Blank
<1>11. FileWhole'
  <2>1. file'[f] = Blank /\ \A g \in Inode \ {f} : file'[g] = file[g]
    BY <1>2, <1>3, <1>4
  <2>2. \A k \in Key : Whole(entry[k])' => k # key[w]
    BY <1>6, <2>1 DEF Whole, Blank
  <2> QED
    BY <1>4, <1>7, <2>1, <2>2 DEF IInv, FileWhole, Whole, SoleKey
<1> QED
  BY <1>9, <1>10, <1>11

(* What the three writes have in common. *)
LEMMA WriteKeeps ==
  ASSUME IInv, NEW w \in Worker, Frame(w),
         pc[w] \in WritePc, NEW c, file' = [file EXCEPT ![fd[w]] = c],
         UNCHANGED <<entry>>,
         pc'[w] \in WritePc => fd'[w] = fd[w] /\ key'[w] = key[w] /\ job'[w] = job[w],
         key[w] \in SoleKey =>
           /\ c.body # None => c.exp = Expiry(c.body) /\ c.len = c.body.ver
           /\ pc'[w] \in WritePc => c.body = None
           /\ pc'[w] \in {"wlen", "wbody"} => c.exp = Expiry(job[w])
           /\ pc'[w] = "wbody" => c.len = job[w].ver
  PROVE  OneName' /\ Progress' /\ FileWhole'
<1>1. fd[w] \in Inode /\ file \in [Inode -> Cells]
  BY DEF IInv, TypeOK, DiskTypeOK, Control, ControlOf
<1>2. file'[fd[w]] = c /\ \A g \in Inode \ {fd[w]} : file'[g] = file[g]
  BY <1>1
<1>3. \A x \in Worker : pc'[x] \in WritePc =>
        /\ pc[x] \in WritePc /\ fd'[x] = fd[x]
        /\ key'[x] = key[x] /\ job'[x] = job[x]
  BY DEF Frame
<1>4. OneName'
  BY <1>3 DEF IInv, OneName
<1>5. Progress'
  <2>1. ASSUME NEW x \in Worker, x # w, pc'[x] \in WritePc, key[x] \in SoleKey
        PROVE  file'[fd[x]] = file[fd[x]] /\ pc'[x] = pc[x]
    <3>1. fd[x] # fd[w]
      BY <1>3, <2>1, SoleFile DEF IInv
    <3>2. fd[x] \in Inode
      BY <1>3, <2>1 DEF IInv, Control, ControlOf
    <3> QED
      BY <1>2, <2>1, <3>1, <3>2 DEF Frame
  <2>2. ASSUME NEW x \in Worker, x # w, pc'[x] \in WritePc, key'[x] \in SoleKey
        PROVE  /\ file'[fd'[x]].body = None
               /\ pc'[x] \in {"wlen", "wbody"} => file'[fd'[x]].exp = Expiry(job'[x])
               /\ pc'[x] = "wbody" => file'[fd'[x]].len = job'[x].ver
    BY <1>3, <2>1, <2>2 DEF IInv, Progress
  <2>3. ASSUME pc'[w] \in WritePc, key'[w] \in SoleKey
        PROVE  /\ file'[fd'[w]].body = None
               /\ pc'[w] \in {"wlen", "wbody"} => file'[fd'[w]].exp = Expiry(job'[w])
               /\ pc'[w] = "wbody" => file'[fd'[w]].len = job'[w].ver
    BY <1>2, <2>3
  <2> QED
    BY <2>2, <2>3 DEF Progress, SoleKey, Expiry
<1>6. FileWhole'
  <2>1. ASSUME NEW k \in SoleKey, Whole(entry[k])'
        PROVE  /\ file'[entry[k]].exp = Expiry(file'[entry[k]].body)
               /\ file'[entry[k]].len = file'[entry[k]].body.ver
    <3>1. k \in Key /\ entry[k] \in Inode
      BY <2>1 DEF SoleKey, Whole, IInv, TypeOK, DiskTypeOK
    <3>2. CASE entry[k] = fd[w]
      <4>1. key[w] = k
        BY <3>1, <3>2 DEF IInv, OneName
      <4> QED
        BY <1>2, <2>1, <3>2, <4>1 DEF Whole
    <3>3. CASE entry[k] # fd[w]
      BY <1>2, <2>1, <3>1, <3>3 DEF IInv, FileWhole, Whole
    <3> QED
      BY <3>2, <3>3
  <2> QED
    BY <2>1 DEF FileWhole, SoleKey, Expiry
<1> QED
  BY <1>4, <1>5, <1>6

LEMMA WholeStep == IInv /\ [Next]_vars => OneName' /\ Progress' /\ FileWhole'
<1> SUFFICES ASSUME IInv, [Next]_vars PROVE OneName' /\ Progress' /\ FileWhole'
  OBVIOUS
<1>1. CASE UNCHANGED vars \/ Tick
  <2>1. UNCHANGED <<entry, file, pc, fd, key, job>>
    BY <1>1 DEF vars, Tick, store
  <2> QED
    BY <2>1 DEF IInv, OneName, Progress, FileWhole, Whole, SoleKey
<1>2. ASSUME NEW w \in Worker, Step(w)
      PROVE  OneName' /\ Progress' /\ FileWhole'
  <2>1. Frame(w)
    BY <1>2, FrameStep DEF IInv
  <2> DEFINE c == file[fd[w]]
  <2>2. pc[w] \in WritePc => /\ fd[w] \in Inode /\ c \in Cells
                             /\ job[w] \in Package /\ key[w] \in Key
    BY DEF IInv, Control, ControlOf, TypeOK, DiskTypeOK, JobPc
  <2>3. CASE Open(w)
    BY <2>1, <2>3, OpenKeeps
  <2>4. CASE WriteExpiry(w)
    <3> DEFINE d == [c EXCEPT !.exp = Expiry(job[w])]
    <3>1. /\ pc[w] = "wexp" /\ pc[w] \in WritePc /\ pc'[w] = "wlen"
          /\ UNCHANGED <<entry, fd, key, job>>
          /\ file' = [file EXCEPT ![fd[w]] = d]
      BY <2>4 DEF WriteExpiry, WritePc, IInv, TypeOK, CallTypeOK
    <3>2. d.body = c.body /\ d.exp = Expiry(job[w])
      BY <2>2, <3>1 DEF Cells
    <3>3. key[w] \in SoleKey => c.body = None
      BY <3>1 DEF IInv, Progress
    <3> HIDE DEF d, c
    <3> QED
      BY <2>1, <3>1, <3>2, <3>3, WriteKeeps
  <2>5. CASE WriteLength(w)
    <3> DEFINE d == [c EXCEPT !.len = job[w].ver]
    <3>1. /\ pc[w] = "wlen" /\ pc[w] \in WritePc /\ pc'[w] = "wbody"
          /\ UNCHANGED <<entry, fd, key, job>>
          /\ file' = [file EXCEPT ![fd[w]] = d]
      BY <2>5 DEF WriteLength, WritePc, IInv, TypeOK, CallTypeOK
    <3>2. d.body = c.body /\ d.exp = c.exp /\ d.len = job[w].ver
      BY <2>2, <3>1 DEF Cells
    <3>3. key[w] \in SoleKey => c.body = None /\ c.exp = Expiry(job[w])
      BY <3>1 DEF IInv, Progress
    <3> HIDE DEF d, c
    <3> QED
      BY <2>1, <3>1, <3>2, <3>3, WriteKeeps
  <2>6. CASE WriteBody(w)
    <3> DEFINE d == [c EXCEPT !.body = job[w]]
    <3>1. /\ pc[w] = "wbody" /\ pc[w] \in WritePc /\ pc'[w] \notin WritePc
          /\ UNCHANGED entry
          /\ file' = [file EXCEPT ![fd[w]] = d]
      BY <2>6 DEF WriteBody, WriteReturns, WritePc, IInv, TypeOK, CallTypeOK
    <3>2. d.body = job[w] /\ d.exp = c.exp /\ d.len = c.len
      BY <2>2, <3>1 DEF Cells
    <3>3. key[w] \in SoleKey => c.exp = Expiry(job[w]) /\ c.len = job[w].ver
      BY <3>1 DEF IInv, Progress
    <3>4. pc'[w] \notin {"wlen", "wbody"}
      BY <3>1 DEF WritePc
    <3> HIDE DEF d, c
    <3> QED
      BY <2>1, <3>1, <3>2, <3>3, <3>4, WriteKeeps
  <2>7. CASE ~Writes(w)
    BY <1>2, <2>1, <2>7, QuietStep, QuietKeeps DEF IInv
  <2> QED
    BY <2>3, <2>4, <2>5, <2>6, <2>7 DEF Writes
<1> QED
  BY <1>1, <1>2 DEF Next, Step

(* The inductive invariant, for every value of the constants. *)
LEMMA Inductive == Spec => []IInv
<1>1. Init => Owned
  BY DEF Init, Owned, OwnedBy, JobPc, WritePc
<1>2. Init => OneName /\ Progress /\ FileWhole
  BY DEF Init, OneName, Progress, FileWhole, Whole, WritePc, SoleKey
<1>3. IInv /\ [Next]_vars => Owned' /\ OneName' /\ Progress' /\ FileWhole'
  BY OwnedStep, WholeStep DEF IInv
<1> QED
  BY <1>1, <1>2, <1>3, TypeAndControl, PTL DEF Spec, IInv

(* Whatever workers, deletions, crashes and restarts do, the file of a key *)
(* with a single writer never mixes two packages.                          *)
THEOREM FileWholeAlways == Spec => []FileWhole
  BY Inductive, PTL DEF IInv
-----------------------------------------------------------------------------
(* What a read may return.  The invariant that carries ReadIsRegular says  *)
(* that every version is written once, so that a version written over is   *)
(* never valid again; then it follows a reader into the file it has open.  *)

(* A version waits to be written to k: the worker is writing it, or its     *)
(* memory layer holds it unsaved.                                           *)
Waits(x, k, v) ==
  \/ pc[x] \in JobPc /\ key[x] = k /\ job[x].ver = v
  \/ local[x][k] # None /\ ~local[x][k].saved /\ local[x][k].ver = v

(* What a worker may still write is unsaved, until it is stamped. *)
KeptOf(x) ==
  /\ pc[x] \in JobPc \ {"checkdir", "mkdir"} =>
       ~ (/\ local[x][key[x]] # None /\ ~local[x][key[x]].saved
          /\ local[x][key[x]].ver = job[x].ver)
  /\ pc[x] = "flush" => \A k \in todo[x] : ~local[x][k].saved
  /\ pc[x] \in JobPc => \A k \in todo[x] \ {key[x]} : ~local[x][k].saved

Kept == \A x \in Worker : KeptOf(x)

(* A version that waits has been constructed and not written before, and    *)
(* only one worker can write it.                                            *)
NotYet(k, v) ==
  /\ v <= nver /\ v \notin valid[k]
  /\ \A y \in Worker : Writing(y, k) => v \notin olds[y]

Once ==
  /\ \A x \in Worker, k \in Key, v \in Nat : Waits(x, k, v) => NotYet(k, v)
  /\ \A x, y \in Worker, k \in Key, v \in Nat :
       Waits(x, k, v) /\ Waits(y, k, v) => x = y
  /\ \A k \in Key : \A v \in valid[k] : v <= nver
  /\ \A x \in Worker : \A v \in olds[x] : v <= nver

(* What a path shows is what a read may return, and what a writer whose     *)
(* file has lost its path does not replace.                                 *)
Shown ==
  \A k \in Key : Whole(entry[k]) =>
    /\ file[entry[k]].body.ver \in valid[k]
    /\ \A w \in Worker : Writing(w, k) /\ entry[k] # fd[w] =>
         file[entry[k]].body.ver \notin olds[w]

(* A file a reader has open belongs to the key it reads. *)
SameKeyOf(r) ==
  pc[r] \in ReadPc \ {"ropen"} =>
    /\ \A k \in Key : entry[k] = fd[r] => k = key[r]
    /\ \A w \in Worker : pc[w] \in WritePc /\ fd[w] = fd[r] => key[w] = key[r]

May(r) == base[r] \cup over[r]

(* Whatever a reader can still come upon, and what it has, it may return. *)
RegularOf(r) ==
  pc[r] \in ReadPc =>
    /\ \A w \in Worker : Writing(w, key[r]) => job[w].ver \in over[r]
    /\ Whole(entry[key[r]]) => file[entry[key[r]]].body.ver \in May(r)
    /\ pc[r] # "ropen" /\ file[fd[r]].body # None =>
         file[fd[r]].body.ver \in May(r)
    /\ pc[r] \notin {"ropen", "rexp"} /\ buf[r].body # None =>
         buf[r].body.ver \in May(r)
    /\ pc[r] = "got" => buf[r].body # None

(* For a key with one writer: the file open carries the expiry of its body, *)
(* a body that comes after the expiry line was read is being written, and   *)
(* a body read with it has not expired.                                     *)
UnexpiredOf(r) ==
  pc[r] \in ReadPc \ {"ropen"} /\ key[r] \in SoleKey =>
    LET c == file[fd[r]] IN
    /\ c.body # None => c.exp = Expiry(c.body)
    /\ pc[r] # "rexp" /\ buf[r].body = None /\ c.body # None =>
         c.body.ver \in over[r]
    /\ pc[r] # "rexp" /\ buf[r].body # None /\ buf[r].body.ver \notin over[r] =>
         Expiry(buf[r].body) > clk[r]

SameKey   == \A r \in Worker : SameKeyOf(r)
Regular   == \A r \in Worker : RegularOf(r)
Unexpired == \A r \in Worker : UnexpiredOf(r)

RInv == IInv /\ Kept /\ Once /\ Shown /\ SameKey /\ Regular /\ Unexpired

(* What a step of w leaves to the readers, and to the history of the keys. *)
Reads(w) ==
  \/ \E k \in Key : GetCached(w, k)
  \/ ReadOpen(w) \/ ReadExpiry(w) \/ ReadLength(w) \/ ReadBody(w)

Apart(w) ==
  /\ \A x \in Worker \ {w} :
       /\ buf'[x] = buf[x] /\ clk'[x] = clk[x] /\ base'[x] = base[x]
       /\ over[x] \subseteq over'[x]
  /\ pc'[w] \in ReadPc => Reads(w)
  /\ nver' \in {nver, nver + 1}

Past(w) ==
  /\ \A k \in Key : valid'[k] = valid[k] \/ (valid'[k] = {} /\ entry'[k] = None)
  /\ \A x \in Worker : olds'[x] \in {olds[x], {}}
  /\ \A x \in Worker \ {w} : olds'[x] = olds[x]

LEMMA ApartStep == ASSUME TypeOK, Control, NEW w \in Worker, Step(w)
                   PROVE  Apart(w)
<1> USE DEF TypeOK, DiskTypeOK, CallTypeOK, ReadTypeOK, Apart, ReadPc, Reads
<1>1. CASE \E k \in Key, ttl \in Ttl : Set(w, k, ttl)
  BY <1>1 DEF Set, read, ghost
<1>2. CASE \E k \in Key, ttl \in Ttl : SetCached(w, k, ttl)
  BY <1>2 DEF SetCached, read, ghost
<1>3. CASE \E k \in Key : GetCached(w, k)
  BY <1>3, ZenonT(40) DEF GetCached, read, ghost
<1>4. CASE \E k \in Key : DeleteKey(w, k)
  BY <1>4 DEF DeleteKey, Unlink, read, ghost
<1>5. CASE FlushStart(w)
  BY <1>5 DEF FlushStart, Unsaved, read, ghost
<1>6. CASE DeleteExpired(w)
  BY <1>6 DEF DeleteExpired, read, ghost
<1>7. CASE ClearStart(w)
  BY <1>7 DEF ClearStart, read, ghost
<1>8. CASE CheckDir(w)
  BY <1>8 DEF CheckDir, Stamp, read, ghost
<1>9. CASE Mkdir(w)
  BY <1>9 DEF Mkdir, Stamp, read, ghost
<1>10. CASE MkdirFails(w)
  BY <1>10 DEF MkdirFails, WriteReturns, read, ghost
<1>11. CASE Open(w)
  <2>1. /\ UNCHANGED <<buf, clk, base, nver>>
        /\ \A x \in Worker : over[x] \subseteq over'[x]
        /\ pc'[w] = "wexp"
    BY <1>11 DEF Open, Overlap
  <2> QED
    BY <2>1
<1>12. CASE OpenFails(w)
  BY <1>12 DEF OpenFails, WriteReturns, read, ghost
<1>13. CASE WriteExpiry(w)
  BY <1>13 DEF WriteExpiry, read, ghost
<1>14. CASE WriteLength(w)
  BY <1>14 DEF WriteLength, read, ghost
<1>15. CASE WriteBody(w)
  BY <1>15 DEF WriteBody, WriteReturns, read, ghost
<1>16. CASE FlushNext(w)
  BY <1>16 DEF FlushNext, read, ghost
<1>17. CASE FlushEnd(w)
  BY <1>17 DEF FlushEnd, read, ghost
<1>18. CASE ReadOpen(w)
  BY <1>18 DEF ReadOpen, ReadReturns, read, ghost
<1>19. CASE ReadExpiry(w)
  BY <1>19 DEF ReadExpiry, ReadReturns, read, ghost
<1>20. CASE ReadLength(w)
  BY <1>20 DEF ReadLength, ReadReturns, read, ghost
<1>21. CASE ReadBody(w)
  BY <1>21 DEF ReadBody, ReadReturns, read, ghost
<1>22. CASE Got(w)
  BY <1>22 DEF Got, ReadReturns, read, ghost
<1>23. CASE Scan(w)
  BY <1>23 DEF Scan, read, ghost
<1>24. CASE Reap(w)
  BY <1>24 DEF Reap, Unlink, read, ghost
<1>25. CASE ClearUnlink(w)
  BY <1>25 DEF ClearUnlink, Unlink, read, ghost
<1>26. CASE ClearRmdir(w)
  BY <1>26 DEF ClearRmdir, read, ghost
<1>27. CASE Crash(w)
  BY <1>27 DEF Crash
<1> QED
  BY <1>1, <1>2, <1>3, <1>4, <1>5, <1>6, <1>7, <1>8, <1>9,
     <1>10, <1>11, <1>12, <1>13, <1>14, <1>15, <1>16, <1>17, <1>18,
     <1>19, <1>20, <1>21, <1>22, <1>23, <1>24, <1>25, <1>26, <1>27
  DEF Step, Call, WriteStep, ReadStep, DeleteStep

LEMMA PastStep == ASSUME TypeOK, Control, NEW w \in Worker, Step(w),
                         ~Open(w), ~WriteBody(w)
                  PROVE  Past(w)
<1> USE DEF TypeOK, DiskTypeOK, CallTypeOK, ReadTypeOK, Past
<1>1. CASE \E k \in Key, ttl \in Ttl : Set(w, k, ttl)
  BY <1>1 DEF Set, hist, store
<1>2. CASE \E k \in Key, ttl \in Ttl : SetCached(w, k, ttl)
  BY <1>2 DEF SetCached, hist, store
<1>3. CASE \E k \in Key : GetCached(w, k)
  BY <1>3 DEF GetCached, hist, store
<1>4. CASE \E k \in Key : DeleteKey(w, k)
  BY <1>4 DEF DeleteKey, Unlink, hist, store
<1>5. CASE FlushStart(w)
  BY <1>5 DEF FlushStart, Unsaved, hist, store
<1>6. CASE DeleteExpired(w)
  BY <1>6 DEF DeleteExpired, hist, store
<1>7. CASE ClearStart(w)
  BY <1>7 DEF ClearStart, hist, store
<1>8. CASE CheckDir(w)
  BY <1>8 DEF CheckDir, Stamp, hist, store
<1>9. CASE Mkdir(w)
  BY <1>9 DEF Mkdir, Stamp, hist, store
<1>10. CASE MkdirFails(w)
  BY <1>10 DEF MkdirFails, WriteReturns, hist, store
<1>11. CASE Open(w)
  BY <1>11
<1>12. CASE OpenFails(w)
  BY <1>12 DEF OpenFails, WriteReturns, hist, store
<1>13. CASE WriteExpiry(w)
  BY <1>13 DEF WriteExpiry, hist, store
<1>14. CASE WriteLength(w)
  BY <1>14 DEF WriteLength, hist, store
<1>15. CASE WriteBody(w)
  BY <1>15
<1>16. CASE FlushNext(w)
  BY <1>16 DEF FlushNext, hist, store
<1>17. CASE FlushEnd(w)
  BY <1>17 DEF FlushEnd, hist, store
<1>18. CASE ReadOpen(w)
  BY <1>18 DEF ReadOpen, ReadReturns, hist, store
<1>19. CASE ReadExpiry(w)
  BY <1>19 DEF ReadExpiry, ReadReturns, hist, store
<1>20. CASE ReadLength(w)
  BY <1>20 DEF ReadLength, ReadReturns, hist, store
<1>21. CASE ReadBody(w)
  BY <1>21 DEF ReadBody, ReadReturns, hist, store
<1>22. CASE Got(w)
  BY <1>22 DEF Got, ReadReturns, hist, store
<1>23. CASE Scan(w)
  BY <1>23 DEF Scan, hist, store
<1>24. CASE Reap(w)
  BY <1>24 DEF Reap, Unlink, hist, store
<1>25. CASE ClearUnlink(w)
  BY <1>25 DEF ClearUnlink, Unlink, hist, store
<1>26. CASE ClearRmdir(w)
  BY <1>26 DEF ClearRmdir, hist, store
<1>27. CASE Crash(w)
  BY <1>27 DEF Crash, hist, store
<1> QED
  BY <1>1, <1>2, <1>3, <1>4, <1>5, <1>6, <1>7, <1>8, <1>9,
     <1>10, <1>11, <1>12, <1>13, <1>14, <1>15, <1>16, <1>17, <1>18,
     <1>19, <1>20, <1>21, <1>22, <1>23, <1>24, <1>25, <1>26, <1>27
  DEF Step, Call, WriteStep, ReadStep, DeleteStep

(* The worker that moves writes what it had, or a package just made. *)
Brings(w) ==
  \A k \in Key, v \in Nat :
    Waits(w, k, v)' =>
      Waits(w, k, v) \/ (v = nver + 1 /\ nver' = nver + 1)

LEMMA StampKeeps ==
  ASSUME TypeOK, Control, Kept, NEW w \in Worker, Stamp(w),
         pc[w] \in {"checkdir", "mkdir"}, UNCHANGED <<key, todo>>
  PROVE  KeptOf(w)' /\ Brings(w)
<1> DEFINE p == Stamped(w)
           own == /\ local[w][key[w]] # None
                  /\ local[w][key[w]].ver = job[w].ver
<1>1. job[w] \in Package /\ key[w] \in Key
  BY DEF Control, ControlOf, JobPc
<1>2. p.ver = job[w].ver /\ p.saved = TRUE
  BY <1>1 DEF Stamped, Package
<1>3. /\ job' = [job EXCEPT ![w] = p] /\ pc' = [pc EXCEPT ![w] = "open"]
      /\ own => local' = [local EXCEPT ![w][key[w]] = p]
      /\ ~own => local' = local
  BY DEF Stamp
<1>4. /\ pc \in [Worker -> Pc] /\ todo \in [Worker -> SUBSET Key]
      /\ job \in [Worker -> Package \cup {None}]
      /\ local \in [Worker -> [Key -> Package \cup {None}]]
  BY DEF TypeOK, CallTypeOK
<1> HIDE DEF p
<1>5. pc'[w] = "open" /\ job'[w] = p /\ key'[w] = key[w] /\ todo'[w] = todo[w]
  BY <1>3, <1>4
<1>6. \A k \in Key \ {key[w]} : local'[w][k] = local[w][k]
  BY <1>1, <1>3, <1>4
<1>7. own => local'[w][key[w]] = p
  BY <1>1, <1>3, <1>4
<1>8. ~own => local'[w][key[w]] = local[w][key[w]]
  BY <1>3
<1>9. KeptOf(w)'
  <2>1. \A k \in todo[w] \ {key[w]} : ~local[w][k].saved
    BY DEF Kept, KeptOf, JobPc
  <2>2. \A k \in todo'[w] \ {key'[w]} : ~local'[w][k].saved
    BY <1>4, <1>5, <1>6, <2>1
  <2>3. ~ (/\ local'[w][key'[w]] # None /\ ~local'[w][key'[w]].saved
           /\ local'[w][key'[w]].ver = job'[w].ver)
    BY <1>2, <1>5, <1>7, <1>8
  <2> QED
    BY <1>5, <2>2, <2>3 DEF KeptOf
<1>10. Brings(w)
  BY <1>2, <1>5, <1>6, <1>7, <1>8 DEF Brings, Waits, JobPc
<1> QED
  BY <1>9, <1>10

LEMMA KeptStep == ASSUME TypeOK, Control, Kept, NEW w \in Worker, Step(w)
                  PROVE  KeptOf(w)' /\ Brings(w)
<1> USE DEF TypeOK, CallTypeOK, KeptOf, Brings, Waits, JobPc, WritePc
<1> ControlOf(w) /\ KeptOf(w)
  BY DEF Control, Kept
<1>1. CASE \E k \in Key, ttl \in Ttl : Set(w, k, ttl)
  <2>1. PICK l \in Key, ttl \in Ttl : Set(w, l, ttl)
    BY <1>1
  <2> DEFINE p == NewPackage(ttl)
  <2>2. p.ver = nver + 1
    BY DEF NewPackage
  <2>3. /\ pc[w] = "idle" /\ todo[w] = {} /\ todo'[w] = {} /\ nver' = nver + 1
        /\ local' = [local EXCEPT ![w][l] = p] \/ local' = local
        /\ \/ pc' = pc
           \/ /\ pc' = [pc EXCEPT ![w] = "checkdir"]
              /\ key' = [key EXCEPT ![w] = l]
              /\ job' = [job EXCEPT ![w] = p]
    BY <2>1 DEF Set, ctl, ControlOf
  <2> HIDE DEF p
  <2>4. \A k \in Key : local'[w][k] \in {local[w][k], p}
    BY <2>3
  <2>5. pc'[w] = "idle" \/ (pc'[w] = "checkdir" /\ job'[w] = p)
    BY <2>3
  <2>6. KeptOf(w)'
    BY <2>3, <2>5
  <2>7. Brings(w)
    BY <2>2, <2>3, <2>4, <2>5
  <2> QED
    BY <2>6, <2>7
<1>2. CASE \E k \in Key, ttl \in Ttl : SetCached(w, k, ttl)
  <2>1. PICK l \in Key, ttl \in Ttl : SetCached(w, l, ttl)
    BY <1>2
  <2> DEFINE p == NewPackage(ttl)
  <2>2. p.ver = nver + 1
    BY DEF NewPackage
  <2>3. /\ pc[w] = "idle" /\ pc' = pc /\ nver' = nver + 1
        /\ local' = [local EXCEPT ![w][l] = p]
    BY <2>1 DEF SetCached
  <2> HIDE DEF p
  <2>4. \A k \in Key : local'[w][k] \in {local[w][k], p}
    BY <2>3
  <2> QED
    BY <2>2, <2>3, <2>4
<1>3. CASE \E k \in Key : GetCached(w, k)
  BY <1>3 DEF GetCached, ctl, ControlOf
<1>4. CASE \E k \in Key : DeleteKey(w, k)
  BY <1>4 DEF DeleteKey, Unlink, ctl, ControlOf
<1>5. CASE FlushStart(w)
  BY <1>5 DEF FlushStart, Unsaved, ctl, ControlOf
<1>6. CASE DeleteExpired(w)
  BY <1>6 DEF DeleteExpired, ctl, ControlOf
<1>7. CASE ClearStart(w)
  BY <1>7 DEF ClearStart, ctl, ControlOf
<1>8. CASE CheckDir(w)
  <2>1. CASE Dir(key[w]) \notin dirs
    BY <1>8, <2>1 DEF CheckDir, ctl
  <2>2. CASE Dir(key[w]) \in dirs
    BY <1>8, <2>2, StampKeeps DEF CheckDir, ctl
  <2> QED
    BY <2>1, <2>2
<1>9. CASE Mkdir(w)
  BY <1>9, StampKeeps DEF Mkdir, ctl
<1>10. CASE MkdirFails(w)
  BY <1>10 DEF MkdirFails, WriteReturns, ctl, ControlOf
<1>11. CASE Open(w)
  BY <1>11 DEF Open, ctl, ControlOf
<1>12. CASE OpenFails(w)
  BY <1>12 DEF OpenFails, WriteReturns, ctl, ControlOf
<1>13. CASE WriteExpiry(w)
  BY <1>13 DEF WriteExpiry, ctl, ControlOf
<1>14. CASE WriteLength(w)
  BY <1>14 DEF WriteLength, ctl, ControlOf
<1>15. CASE WriteBody(w)
  BY <1>15 DEF WriteBody, WriteReturns, ctl, ControlOf
<1>16. CASE FlushNext(w)
  BY <1>16 DEF FlushNext, ctl, ControlOf
<1>17. CASE FlushEnd(w)
  BY <1>17 DEF FlushEnd, ctl, ControlOf
<1>18. CASE ReadOpen(w)
  BY <1>18 DEF ReadOpen, ReadReturns, ctl, ControlOf
<1>19. CASE ReadExpiry(w)
  BY <1>19 DEF ReadExpiry, ReadReturns, ctl, ControlOf
<1>20. CASE ReadLength(w)
  BY <1>20 DEF ReadLength, ReadReturns, ctl, ControlOf
<1>21. CASE ReadBody(w)
  BY <1>21 DEF ReadBody, ReadReturns, ctl, ControlOf
<1>22. CASE Got(w)
  BY <1>22 DEF Got, ReadReturns, ctl, ControlOf
<1>23. CASE Scan(w)
  BY <1>23 DEF Scan, ctl, ControlOf
<1>24. CASE Reap(w)
  BY <1>24 DEF Reap, Unlink, ctl, ControlOf
<1>25. CASE ClearUnlink(w)
  BY <1>25 DEF ClearUnlink, Unlink, ctl, ControlOf
<1>26. CASE ClearRmdir(w)
  BY <1>26 DEF ClearRmdir, ctl, ControlOf
<1>27. CASE Crash(w)
  BY <1>27 DEF Crash, ctl, ControlOf
<1> QED
  BY <1>1, <1>2, <1>3, <1>4, <1>5, <1>6, <1>7, <1>8, <1>9,
     <1>10, <1>11, <1>12, <1>13, <1>14, <1>15, <1>16, <1>17, <1>18,
     <1>19, <1>20, <1>21, <1>22, <1>23, <1>24, <1>25, <1>26, <1>27
  DEF Step, Call, WriteStep, ReadStep, DeleteStep

(* Each version is written once. *)
LEMMA OnceStep == TypeOK /\ Control /\ Kept /\ Once /\ [Next]_vars => Once'
<1> SUFFICES ASSUME TypeOK, Control, Kept, Once, [Next]_vars PROVE Once'
  OBVIOUS
<1>1. CASE UNCHANGED vars \/ Tick
  <2>1. UNCHANGED <<pc, key, job, local, nver, valid, olds>>
    BY <1>1 DEF vars, Tick, hist
  <2> QED
    BY <2>1 DEF Once, NotYet, Waits, Writing
<1>2. ASSUME NEW w \in Worker, Step(w)
      PROVE  Once'
  <2>1. Frame(w) /\ Brings(w) /\ nver' \in {nver, nver + 1}
    BY <1>2, FrameStep, KeptStep, ApartStep DEF Apart
  <2>2. nver \in Nat /\ \A k \in Key : valid[k] \subseteq Nat
    BY DEF TypeOK, DiskTypeOK, ReadTypeOK
  <2>3. \A x \in Worker, k \in Key, v \in Nat : Waits(x, k, v)' =>
          Waits(x, k, v) \/ (x = w /\ v = nver + 1 /\ nver' = nver + 1)
    BY <2>1 DEF Frame, Brings, Waits
  <2>4. /\ \A x \in Worker, k \in Key : ~Waits(x, k, nver + 1)
        /\ \A k \in Key : nver + 1 \notin valid[k]
        /\ \A y \in Worker : nver + 1 \notin olds[y]
    <3>1. ~(nver + 1 <= nver) /\ nver + 1 \in Nat
      BY <2>2
    <3> QED
      BY <3>1 DEF Once, NotYet
  <2>5. \A x, y \in Worker, k \in Key, v \in Nat :
          Waits(x, k, v)' /\ Waits(y, k, v)' => x = y
    BY <2>3, <2>4 DEF Once
  <2>6. CASE Open(w)
    <3>1. /\ key[w] \in Key /\ UNCHANGED <<valid, nver, key>>
          /\ olds'[w] = valid[key[w]] /\ \A y \in Worker \ {w} : olds'[y] = olds[y]
      BY <2>6 DEF Open, Control, ControlOf, JobPc, TypeOK, ReadTypeOK
    <3>2. \A y \in Worker \ {w}, k \in Key : Writing(y, k)' => Writing(y, k)
      BY <2>1 DEF Frame, Writing
    <3>3. \A x \in Worker, k \in Key, v \in Nat : Waits(x, k, v)' => Waits(x, k, v)
      BY <2>2, <2>3, <3>1
    <3>4. \A x \in Worker, k \in Key, v \in Nat : Waits(x, k, v)' => NotYet(k, v)'
      <4> SUFFICES ASSUME NEW x \in Worker, NEW k \in Key, NEW v \in Nat,
                          Waits(x, k, v)'
                   PROVE  NotYet(k, v)'
        OBVIOUS
      <4>1. NotYet(k, v)
        BY <3>3 DEF Once
      <4>2. \A y \in Worker : Writing(y, k)' => v \notin olds'[y]
        BY <3>1, <3>2, <4>1 DEF NotYet, Writing
      <4> QED
        BY <3>1, <4>1, <4>2 DEF NotYet
    <3>5. \A x \in Worker : \A v \in olds'[x] : v <= nver'
      BY <3>1 DEF Once
    <3> QED
      BY <2>5, <3>1, <3>4, <3>5 DEF Once
  <2>7. CASE WriteBody(w)
    <3>0. PICK l \in Key, j \in Nat : l = key[w] /\ j = job[w].ver
      BY <2>7, PackageType DEF WriteBody, Control, ControlOf, JobPc, WritePc
    <3>1. /\ pc[w] = "wbody" /\ pc'[w] \notin JobPc
          /\ UNCHANGED <<local, nver>>
      BY <2>7 DEF WriteBody, WriteReturns, JobPc, WritePc, TypeOK, CallTypeOK
    <3>2. /\ valid'[l] \subseteq valid[l] \cup {j}
          /\ \A k \in Key \ {l} : valid'[k] = valid[k]
          /\ \A y \in Worker : olds'[y] \subseteq olds[y]
      BY <2>7, <3>0 DEF WriteBody, TypeOK, ReadTypeOK
    <3>3. Waits(w, l, j) /\ ~Waits(w, l, j)'
      BY <3>1, <3>0 DEF Waits, JobPc, WritePc, Kept, KeptOf
    <3>4. \A y \in Worker, k \in Key : Writing(y, k)' => Writing(y, k)
      BY <2>1, <3>1 DEF Frame, Writing, JobPc
    <3>5. \A x \in Worker, k \in Key, v \in Nat : Waits(x, k, v)' => Waits(x, k, v)
      BY <2>2, <2>3, <3>1
    <3>6. \A x \in Worker : ~Waits(x, l, j)'
      BY <3>1, <3>3, <3>5 DEF Once
    <3>7. \A x \in Worker, k \in Key, v \in Nat : Waits(x, k, v)' => NotYet(k, v)'
      <4> SUFFICES ASSUME NEW x \in Worker, NEW k \in Key, NEW v \in Nat,
                          Waits(x, k, v)'
                   PROVE  NotYet(k, v)'
        OBVIOUS
      <4>1. NotYet(k, v)
        BY <3>5 DEF Once
      <4>2. v \notin valid'[k]
        BY <3>2, <3>6, <4>1 DEF NotYet
      <4>3. \A y \in Worker : Writing(y, k)' => v \notin olds'[y]
        BY <3>2, <3>4, <4>1 DEF NotYet
      <4> QED
        BY <3>1, <4>1, <4>2, <4>3 DEF NotYet
    <3>8. j <= nver
      BY <3>1, <3>3 DEF Once, NotYet
    <3>9. \A k \in Key : \A v \in valid'[k] : v <= nver'
      BY <3>1, <3>2, <3>8 DEF Once
    <3>10. \A x \in Worker : \A v \in olds'[x] : v <= nver'
      BY <3>1, <3>2 DEF Once
    <3> QED
      BY <2>5, <3>7, <3>9, <3>10 DEF Once
  <2>8. CASE ~Open(w) /\ ~WriteBody(w)
    <3>1. /\ \A k \in Key : valid'[k] \subseteq valid[k]
          /\ \A y \in Worker : olds'[y] \subseteq olds[y]
      BY <1>2, <2>8, PastStep DEF Past
    <3>2. \A k \in Key : Writing(w, k)' => Writing(w, k)
      <4>1. CASE WriteExpiry(w) \/ WriteLength(w)
        BY <4>1 DEF WriteExpiry, WriteLength, Writing, WritePc
      <4>2. CASE ~Writes(w)
        BY <1>2, <4>2, QuietStep DEF Quiet, Writing
      <4> QED
        BY <2>8, <4>1, <4>2 DEF Writes
    <3>3. \A y \in Worker, k \in Key : Writing(y, k)' => Writing(y, k)
      BY <2>1, <3>2 DEF Frame, Writing
    <3>4. \A x \in Worker, k \in Key, v \in Nat : Waits(x, k, v)' => NotYet(k, v)'
      <4> SUFFICES ASSUME NEW x \in Worker, NEW k \in Key, NEW v \in Nat,
                          Waits(x, k, v)'
                   PROVE  NotYet(k, v)'
        OBVIOUS
      <4>1. CASE Waits(x, k, v)
        <5>1. NotYet(k, v)
          BY <4>1 DEF Once
        <5>2. v <= nver'
          BY <2>1, <2>2, <5>1 DEF NotYet
        <5> QED
          BY <3>1, <3>3, <5>1, <5>2 DEF NotYet
      <4>2. CASE v = nver + 1 /\ nver' = nver + 1
        BY <2>2, <2>4, <3>1, <4>2 DEF NotYet
      <4> QED
        BY <2>3, <4>1, <4>2
    <3>5. \A k \in Key : \A v \in valid'[k] : v <= nver'
      BY <2>1, <2>2, <3>1 DEF Once
    <3>6. \A x \in Worker : \A v \in olds'[x] : v <= nver'
      <4>1. \A x \in Worker : olds[x] \subseteq Nat
        BY DEF TypeOK, ReadTypeOK
      <4> QED
        BY <2>1, <2>2, <3>1, <4>1 DEF Once
    <3> QED
      BY <2>5, <3>4, <3>5, <3>6 DEF Once
  <2> QED
    BY <2>6, <2>7, <2>8
<1> QED
  BY <1>1, <1>2 DEF Next, Step

(* What fopen does: the file it names, and the files it leaves alone. *)
Opens(w, f) ==
  /\ key[w] \in Key /\ pc'[w] = "wexp" /\ fd'[w] = f
  /\ entry'[key[w]] = f
  /\ \A k \in Key \ {key[w]} : entry'[k] = entry[k] /\ entry[k] # f
  /\ file'[f] = Blank
  /\ \A g \in Inode \ {f} : file'[g] = file[g]
  /\ \A x \in Worker : fd[x] = f => entry[key[w]] = f
  /\ UNCHANGED <<key, job, valid>>

LEMMA OpenGives == ASSUME IInv, NEW w \in Worker, Open(w)
                   PROVE  \E f \in Inode : Opens(w, f)
<1> DEFINE f == IF entry[key[w]] # None THEN entry[key[w]]
                ELSE CHOOSE g \in Free : TRUE
<1>1. key[w] \in Key
  BY DEF IInv, Control, ControlOf, Open, JobPc
<1>2. f \in Inode /\ (f = entry[key[w]] \/ f \notin InUse)
  BY <1>1 DEF IInv, TypeOK, DiskTypeOK, Open, Free
<1>3. /\ entry' = [entry EXCEPT ![key[w]] = f]
      /\ file' = [file EXCEPT ![f] = Blank]
      /\ fd' = [fd EXCEPT ![w] = f]
      /\ pc' = [pc EXCEPT ![w] = "wexp"]
      /\ UNCHANGED <<key, job, valid>>
  BY DEF Open, Truncated
<1> HIDE DEF f
<1>4. /\ entry \in [Key -> Inode \cup {None}] /\ file \in [Inode -> Cells]
      /\ fd \in [Worker -> Inode \cup {None}] /\ pc \in [Worker -> Pc]
  BY DEF IInv, TypeOK, DiskTypeOK, CallTypeOK
<1>5. \A k \in Key \ {key[w]} : entry[k] # f
  BY <1>1, <1>2, NoneAssumption DEF IInv, OneName, InUse
<1>6. \A x \in Worker : fd[x] = f => entry[key[w]] = f
  BY <1>2 DEF InUse
<1> QED
  BY <1>1, <1>2, <1>3, <1>4, <1>5, <1>6 DEF Opens

(* What a write leaves: one file with a new content, and every path. *)
LEMMA WriteGives ==
  ASSUME IInv, NEW w \in Worker, Writes(w), ~Open(w)
  PROVE  /\ pc[w] \in WritePc /\ key[w] \in Key /\ fd[w] \in Inode
         /\ entry' = entry
         /\ \A g \in Inode \ {fd[w]} : file'[g] = file[g]
         /\ \/ /\ file'[fd[w]].body = file[fd[w]].body
               /\ UNCHANGED <<key, job, fd, valid, olds>>
               /\ ~WriteBody(w)
            \/ /\ WriteBody(w)
               /\ file'[fd[w]].body = job[w]
               /\ file'[fd[w]].exp = file[fd[w]].exp
               /\ pc[w] = "wbody" /\ pc'[w] \notin WritePc
<1>1. /\ fd[w] \in Inode /\ key[w] \in Key /\ pc[w] \in WritePc
      /\ file \in [Inode -> Cells] /\ pc \in [Worker -> Pc]
  BY DEF IInv, TypeOK, DiskTypeOK, CallTypeOK, Control, ControlOf, Writes,
     WriteExpiry, WriteLength, WriteBody, JobPc, WritePc
<1>2. CASE WriteExpiry(w)
  <2> DEFINE n == Expiry(job[w])
  <2>1. /\ entry' = entry /\ UNCHANGED <<key, job, fd, valid, olds>>
        /\ file' = [file EXCEPT ![fd[w]] = [file[fd[w]] EXCEPT !.exp = n]]
        /\ ~WriteBody(w)
    BY <1>2 DEF WriteExpiry, WriteBody, hist
  <2> HIDE DEF n
  <2> QED
    BY <1>1, <2>1 DEF Cells
<1>3. CASE WriteLength(w)
  <2> DEFINE n == job[w].ver
  <2>1. /\ entry' = entry /\ UNCHANGED <<key, job, fd, valid, olds>>
        /\ file' = [file EXCEPT ![fd[w]] = [file[fd[w]] EXCEPT !.len = n]]
        /\ ~WriteBody(w)
    BY <1>3 DEF WriteLength, WriteBody, hist
  <2> HIDE DEF n
  <2> QED
    BY <1>1, <2>1 DEF Cells
<1>4. CASE WriteBody(w)
  <2>1. /\ entry' = entry /\ pc[w] = "wbody" /\ pc'[w] \notin WritePc
        /\ file' = [file EXCEPT ![fd[w]] = [file[fd[w]] EXCEPT !.body = job[w]]]
    BY <1>1, <1>4 DEF WriteBody, WriteReturns, WritePc
  <2> QED
    BY <1>1, <1>4, <2>1 DEF Cells
<1> QED
  BY <1>2, <1>3, <1>4 DEF Writes

(* A path shows a version a read may return. *)
LEMMA ShownStep == RInv /\ [Next]_vars => Shown'
<1> SUFFICES ASSUME RInv, [Next]_vars PROVE Shown'
  OBVIOUS
<1> USE DEF RInv
<1>1. CASE UNCHANGED vars \/ Tick
  <2>1. UNCHANGED <<pc, key, fd, entry, file, valid, olds>>
    BY <1>1 DEF vars, Tick, store, hist
  <2> QED
    BY <2>1 DEF Shown, Whole, Writing
<1>2. ASSUME NEW w \in Worker, Step(w), NEW k \in Key, Whole(entry[k])'
      PROVE  /\ file'[entry'[k]].body.ver \in valid'[k]
             /\ \A x \in Worker : Writing(x, k)' /\ entry'[k] # fd'[x] =>
                  file'[entry'[k]].body.ver \notin olds'[x]
  <2>1. Frame(w)
    BY <1>2, FrameStep DEF IInv
  <2>2. entry'[k] # None /\ file'[entry'[k]].body # None
    BY <1>2 DEF Whole
  <2>3. /\ entry \in [Key -> Inode \cup {None}]
        /\ \A y \in Worker : olds[y] \subseteq Nat
    BY DEF IInv, TypeOK, DiskTypeOK, ReadTypeOK
  <2>4. CASE ~Writes(w)
    <3>1. Quiet(w) /\ Past(w)
      BY <1>2, <2>4, QuietStep, PastStep DEF IInv, Writes
    <3>2. entry'[k] = entry[k] /\ valid'[k] = valid[k] /\ file' = file
      BY <2>2, <3>1 DEF Quiet, Past
    <3>3. \A x \in Worker : Writing(x, k)' =>
            /\ Writing(x, k) /\ fd'[x] = fd[x] /\ olds'[x] = olds[x]
      BY <2>1, <3>1 DEF Quiet, Past, Frame, Writing
    <3> QED
      BY <2>2, <3>2, <3>3 DEF Shown, Whole
  <2>5. CASE Open(w)
    <3>1. PICK f \in Inode : Opens(w, f)
      BY <2>5, OpenGives
    <3>2. \A y \in Worker \ {w} : olds'[y] = olds[y]
      BY <2>5 DEF Open, IInv, TypeOK, ReadTypeOK
    <3>3. k # key[w]
      BY <2>2, <3>1 DEF Blank, Opens
    <3>4. entry'[k] = entry[k] /\ file'[entry[k]] = file[entry[k]] /\ valid'[k] = valid[k]
      BY <2>2, <2>3, <3>1, <3>3 DEF Opens
    <3>5. \A x \in Worker : Writing(x, k)' =>
            Writing(x, k) /\ fd'[x] = fd[x] /\ olds'[x] = olds[x]
      BY <2>1, <3>1, <3>2, <3>3 DEF Frame, Writing, Opens
    <3> QED
      BY <2>2, <3>4, <3>5 DEF Shown, Whole
  <2>6. CASE Writes(w) /\ ~Open(w) /\ ~WriteBody(w)
    <3>1. /\ entry' = entry /\ UNCHANGED <<key, fd, valid, olds>>
          /\ file'[entry[k]].body = file[entry[k]].body /\ pc[w] \in WritePc
      BY <2>2, <2>3, <2>6, WriteGives
    <3>2. \A x \in Worker : Writing(x, k)' => Writing(x, k)
      BY <2>1, <3>1 DEF Frame, Writing
    <3> QED
      BY <2>2, <3>1, <3>2 DEF Shown, Whole
  <2>7. CASE WriteBody(w)
    <3> DEFINE v == job[w].ver
    <3>1. /\ pc[w] \in WritePc /\ key[w] \in Key /\ fd[w] \in Inode
          /\ entry' = entry
          /\ \A g \in Inode \ {fd[w]} : file'[g] = file[g]
          /\ file'[fd[w]].body = job[w] /\ pc'[w] \notin WritePc
      BY <2>7, WriteGives DEF Writes, Open, WriteBody
    <3>2. /\ valid' = [valid EXCEPT ![key[w]] = (@ \ olds[w]) \cup {v}]
          /\ \A x \in Worker \ {w} : olds'[x] = olds[x]
      BY <2>7 DEF WriteBody, IInv, TypeOK, ReadTypeOK
    <3>3. valid'[key[w]] = (valid[key[w]] \ olds[w]) \cup {v}
      BY <3>1, <3>2 DEF IInv, TypeOK, ReadTypeOK
    <3>4. \A x \in Worker : Writing(x, k)' =>
            x # w /\ Writing(x, k) /\ fd'[x] = fd[x] /\ olds'[x] = olds[x]
      BY <2>1, <3>1, <3>2 DEF Frame, Writing
    <3>5. CASE entry[k] = fd[w]
      <4>1. k = key[w]
        BY <3>1, <3>5 DEF IInv, OneName
      <4>2. v \in Nat /\ Waits(w, k, v)
        BY <3>1, <4>1, PackageType DEF Waits, IInv, Control, ControlOf, JobPc
      <4>3. \A x \in Worker : Writing(x, k) => v \notin olds[x]
        BY <4>2 DEF Once, NotYet
      <4>4. file'[entry'[k]].body.ver = v
        BY <3>1, <3>5
      <4> QED
        BY <3>3, <3>4, <4>1, <4>3, <4>4
    <3>6. CASE entry[k] # fd[w]
      <4>1. file'[entry'[k]] = file[entry[k]] /\ Whole(entry[k])
        BY <2>2, <2>3, <3>1, <3>6 DEF Whole
      <4>2. file[entry[k]].body.ver \in valid'[k]
        <5>1. CASE k = key[w]
          BY <3>1, <3>3, <3>6, <4>1, <5>1 DEF Shown, Writing
        <5>2. CASE k # key[w]
          BY <3>1, <3>2, <4>1, <5>2 DEF Shown, IInv, TypeOK, ReadTypeOK
        <5> QED
          BY <5>1, <5>2
      <4> QED
        BY <3>1, <3>4, <4>1, <4>2 DEF Shown
    <3> QED
      BY <3>5, <3>6
  <2> QED
    BY <2>4, <2>5, <2>6, <2>7 DEF Writes
<1> QED
  BY <1>1, <1>2 DEF Next, Step, Shown

(* The readers that do not move, and what a step of another worker may do   *)
(* to the files they have open and to the paths they opened them by.        *)
LEMMA OthersStep ==
  ASSUME RInv, NEW w \in Worker, Step(w),
         NEW r \in Worker \ {w}, pc'[r] \in ReadPc
  PROVE  SameKeyOf(r)' /\ RegularOf(r)' /\ UnexpiredOf(r)'
<1> USE DEF RInv
<1>1. /\ Frame(w) /\ Apart(w)
      /\ pc[r] \in ReadPc /\ SameKeyOf(r) /\ RegularOf(r) /\ UnexpiredOf(r)
  BY FrameStep, ApartStep DEF IInv, Frame, SameKey, Regular, Unexpired
<1>2. /\ pc'[r] = pc[r] /\ key'[r] = key[r] /\ fd'[r] = fd[r] /\ buf'[r] = buf[r]
      /\ clk'[r] = clk[r] /\ base'[r] = base[r] /\ over[r] \subseteq over'[r]
      /\ May(r) \subseteq May(r)'
  BY <1>1 DEF Frame, Apart, May
<1>3. /\ key[r] \in Key /\ entry \in [Key -> Inode \cup {None}]
      /\ pc[r] # "ropen" => fd[r] \in Inode
  BY <1>1 DEF IInv, TypeOK, DiskTypeOK, Control, ControlOf
<1>4. CASE ~Writes(w)
  <2>1. Quiet(w)
    BY <1>4, QuietStep DEF IInv
  <2>2. /\ file' = file
        /\ \A k \in Key : entry'[k] # None => entry'[k] = entry[k]
        /\ \A x \in Worker : pc'[x] \in WritePc =>
             /\ pc[x] \in WritePc /\ fd'[x] = fd[x]
             /\ key'[x] = key[x] /\ job'[x] = job[x]
    BY <1>1, <2>1 DEF Quiet, Frame
  <2>3. SameKeyOf(r)'
    BY <1>1, <1>2, <1>3, <2>2, NoneAssumption DEF SameKeyOf
  <2>4. RegularOf(r)'
    BY <1>1, <1>2, <1>3, <2>2 DEF RegularOf, Writing, Whole
  <2>5. UnexpiredOf(r)'
    BY <1>1, <1>2, <2>2 DEF UnexpiredOf, SoleKey, Expiry
  <2> QED
    BY <2>3, <2>4, <2>5
<1>5. CASE Open(w)
  <2>1. PICK f \in Inode : Opens(w, f)
    BY <1>5, OpenGives
  <2>2. over'[r] = IF key[r] = key[w] THEN over[r] \cup {job[w].ver} ELSE over[r]
    BY <1>1, <1>5 DEF Open, Overlap
  <2>3. SameKeyOf(r)'
    <3>1. \A k \in Key : pc[r] # "ropen" /\ entry'[k] = fd[r] => k = key[r]
      BY <1>1, <1>3, <2>1 DEF Opens, SameKeyOf
    <3>2. pc[r] # "ropen" /\ fd[r] = f => key[w] = key[r]
      BY <1>1, <2>1 DEF Opens, SameKeyOf
    <3>3. \A x \in Worker \ {w} : pc'[x] = pc[x] /\ fd'[x] = fd[x] /\ key'[x] = key[x]
      BY <1>1 DEF Frame
    <3> QED
      BY <1>1, <1>2, <2>1, <3>1, <3>2, <3>3 DEF Opens, SameKeyOf
  <2>4. RegularOf(r)'
    <3>1. \A x \in Worker : Writing(x, key[r])' => job'[x].ver \in over'[r]
      <4>1. \A x \in Worker \ {w} : Writing(x, key[r])' => job'[x].ver \in over'[r]
        BY <1>1, <1>2 DEF Frame, Writing, RegularOf
      <4>2. Writing(w, key[r])' => job'[w].ver \in over'[r]
        BY <1>2, <2>1, <2>2 DEF Opens, Writing
      <4> QED
        BY <4>1, <4>2
    <3>2. Whole(entry[key[r]])' => file'[entry'[key[r]]].body.ver \in May(r)'
      <4>1. key[r] # key[w] /\ entry[key[r]] # None =>
              entry'[key[r]] = entry[key[r]] /\ file'[entry[key[r]]] = file[entry[key[r]]]
        BY <1>3, <2>1 DEF Opens
      <4>2. key[r] = key[w] => ~Whole(entry[key[r]])'
        BY <1>2, <2>1 DEF Opens, Whole, Blank
      <4> QED
        BY <1>1, <1>2, <1>3, <2>1, <4>1, <4>2 DEF Opens, Whole, RegularOf
    <3>3. pc[r] # "ropen" /\ file'[fd[r]].body # None =>
            file'[fd[r]].body.ver \in May(r)'
      BY <1>1, <1>2, <1>3, <2>1 DEF Opens, RegularOf, Blank
    <3> QED
      BY <1>1, <1>2, <3>1, <3>2, <3>3 DEF RegularOf
  <2>5. UnexpiredOf(r)'
    <3>1. pc[r] # "ropen" => file'[fd[r]] = file[fd[r]] \/ file'[fd[r]].body = None
      BY <1>3, <2>1 DEF Opens, Blank
    <3> QED
      BY <1>1, <1>2, <3>1 DEF UnexpiredOf, SoleKey, Expiry
  <2> QED
    BY <2>3, <2>4, <2>5
<1>6. CASE Writes(w) /\ ~Open(w)
  <2>1. /\ pc[w] \in WritePc /\ key[w] \in Key /\ fd[w] \in Inode /\ entry' = entry
        /\ \A g \in Inode \ {fd[w]} : file'[g] = file[g]
    BY <1>6, WriteGives
  <2>2. \A x \in Worker : pc'[x] \in WritePc =>
          /\ pc[x] \in WritePc /\ fd'[x] = fd[x]
          /\ key'[x] = key[x] /\ job'[x] = job[x]
    BY <1>1, <1>6, WriteGives DEF Frame
  <2>3. SameKeyOf(r)'
    BY <1>1, <1>2, <2>1, <2>2 DEF SameKeyOf
  <2>4. \/ file'[fd[w]].body = file[fd[w]].body /\ ~WriteBody(w)
        \/ file'[fd[w]].body = job[w] /\ file'[fd[w]].exp = file[fd[w]].exp
           /\ WriteBody(w) /\ pc[w] = "wbody"
    BY <1>6, WriteGives
  <2>5. key[w] = key[r] => job[w].ver \in over[r]
    BY <1>1, <2>1 DEF RegularOf, Writing
  <2>6. entry[key[r]] = fd[w] => key[w] = key[r]
    BY <1>3, <2>1 DEF IInv, OneName
  <2>7. pc[r] # "ropen" /\ fd[r] = fd[w] => key[w] = key[r]
    BY <1>1, <2>1 DEF SameKeyOf
  <2>8. RegularOf(r)'
    <3>1. \A x \in Worker : Writing(x, key[r])' => job'[x].ver \in over'[r]
      BY <1>1, <1>2, <2>2 DEF RegularOf, Writing
    <3>2. Whole(entry[key[r]])' => file'[entry'[key[r]]].body.ver \in May(r)'
      <4>1. CASE entry[key[r]] = fd[w]
        BY <1>1, <1>2, <2>1, <2>4, <2>5, <2>6, <4>1 DEF RegularOf, Whole, May
      <4>2. CASE entry[key[r]] # fd[w]
        BY <1>1, <1>2, <1>3, <2>1, <4>2 DEF RegularOf, Whole
      <4> QED
        BY <4>1, <4>2
    <3>3. pc[r] # "ropen" /\ file'[fd[r]].body # None =>
            file'[fd[r]].body.ver \in May(r)'
      <4>1. CASE fd[r] = fd[w]
        BY <1>1, <1>2, <2>1, <2>4, <2>5, <2>7, <4>1 DEF RegularOf, May
      <4>2. CASE fd[r] # fd[w]
        BY <1>1, <1>2, <1>3, <2>1, <4>2 DEF RegularOf
      <4> QED
        BY <4>1, <4>2
    <3> QED
      BY <1>1, <1>2, <3>1, <3>2, <3>3 DEF RegularOf
  <2>9. UnexpiredOf(r)'
    <3> SUFFICES ASSUME pc[r] # "ropen", key[r] \in SoleKey
                 PROVE  UnexpiredOf(r)'
      BY <1>2 DEF UnexpiredOf, SoleKey
    <3>1. /\ file'[fd[r]].body # None => file'[fd[r]].exp = Expiry(file'[fd[r]].body)
          /\ pc[r] # "rexp" /\ buf[r].body = None /\ file'[fd[r]].body # None =>
               file'[fd[r]].body.ver \in over[r]
      <4>1. CASE fd[r] = fd[w]
        <5>1. /\ key[w] = key[r] /\ file[fd[w]].body = None
              /\ pc[w] = "wbody" => file[fd[w]].exp = Expiry(job[w])
          BY <2>1, <2>7, <4>1 DEF IInv, Progress
        <5> QED
          BY <2>4, <2>5, <4>1, <5>1
      <4>2. CASE fd[r] # fd[w]
        BY <1>1, <1>3, <2>1, <4>2 DEF UnexpiredOf
      <4> QED
        BY <4>1, <4>2
    <3>2. pc[r] # "rexp" /\ buf[r].body # None /\ buf[r].body.ver \notin over[r] =>
            Expiry(buf[r].body) > clk[r]
      BY <1>1 DEF UnexpiredOf
    <3> QED
      BY <1>2, <3>1, <3>2 DEF UnexpiredOf, Expiry
  <2> QED
    BY <2>3, <2>8, <2>9
<1> QED
  BY <1>4, <1>5, <1>6

(* The reader that moves: its own reading is all that changes. *)
LEMMA ReaderStep ==
  ASSUME RInv, NEW w \in Worker, Step(w), pc'[w] \in ReadPc
  PROVE  SameKeyOf(w)' /\ RegularOf(w)' /\ UnexpiredOf(w)'
<1> USE DEF RInv
<1>1. Reads(w) /\ Frame(w)
  BY ApartStep, FrameStep DEF Apart, IInv
<1>2. TypeOK /\ ControlOf(w) /\ SameKeyOf(w) /\ RegularOf(w) /\ UnexpiredOf(w)
  BY DEF IInv, Control, SameKey, Regular, Unexpired
<1>3. /\ UNCHANGED <<file, entry, job>>
      /\ \A x \in Worker \ {w} : pc'[x] = pc[x] /\ fd'[x] = fd[x] /\ key'[x] = key[x]
  BY <1>1 DEF Reads, Frame, GetCached, ReadOpen, ReadExpiry, ReadLength, ReadBody, store
<1>4. \A x \in Worker : pc'[x] \in WritePc =>
        /\ x # w /\ pc[x] \in WritePc /\ fd'[x] = fd[x] /\ key'[x] = key[x]
  BY <1>3 DEF WritePc, ReadPc
<1>5. /\ pc \in [Worker -> Pc] /\ fd \in [Worker -> Inode \cup {None}]
      /\ key \in [Worker -> Key \cup {None}] /\ buf \in [Worker -> Cells]
      /\ clk \in [Worker -> Nat] /\ base \in [Worker -> SUBSET Nat]
      /\ over \in [Worker -> SUBSET Nat] /\ file \in [Inode -> Cells]
  BY <1>2 DEF TypeOK, DiskTypeOK, CallTypeOK, ReadTypeOK
<1>6. CASE \E k \in Key : GetCached(w, k)
  <2>1. PICK k \in Key : GetCached(w, k)
    BY <1>6
  <2>2. PICK V : V = {job[x].ver : x \in {y \in Worker : Writing(y, k)}}
    OBVIOUS
  <2>3. /\ pc' = [pc EXCEPT ![w] = "ropen"] /\ key' = [key EXCEPT ![w] = k]
        /\ base' = [base EXCEPT ![w] = valid[k]] /\ over' = [over EXCEPT ![w] = V]
        /\ pc[w] = "idle" /\ UNCHANGED buf
    BY <2>1, <2>2 DEF GetCached, ReadPc
  <2>4. pc'[w] = "ropen" /\ key'[w] = k /\ base'[w] = valid[k] /\ over'[w] = V
    BY <1>5, <2>3
  <2>5. \A x \in Worker : Writing(x, k)' => Writing(x, k) /\ job'[x].ver \in V
    BY <1>3, <1>4, <2>2 DEF Writing
  <2>6. Whole(entry[k]) => file[entry[k]].body.ver \in valid[k]
    BY DEF Shown
  <2>7. SameKeyOf(w)' /\ UnexpiredOf(w)'
    BY <2>4 DEF SameKeyOf, UnexpiredOf
  <2>8. RegularOf(w)'
    BY <1>3, <2>4, <2>5, <2>6 DEF RegularOf, Whole, May
  <2> QED
    BY <2>7, <2>8
<1>7. CASE ReadOpen(w)
  <2>1. /\ pc[w] = "ropen" /\ entry[key[w]] # None /\ pc' = [pc EXCEPT ![w] = "rexp"]
        /\ fd' = [fd EXCEPT ![w] = entry[key[w]]]
        /\ UNCHANGED <<key, buf, clk, base, over>>
    BY <1>5, <1>7 DEF ReadOpen, ReadReturns, ReadPc, ghost
  <2>2. key[w] \in Key /\ pc'[w] = "rexp" /\ fd'[w] = entry[key[w]]
    BY <1>2, <1>5, <2>1 DEF ControlOf, ReadPc
  <2>3. \A x \in Worker : Writing(x, key[w])' => Writing(x, key[w])
    BY <1>3, <1>4, <2>1 DEF Writing
  <2>4. /\ \A x \in Worker : Writing(x, key[w]) => job[x].ver \in over[w]
        /\ Whole(entry[key[w]]) => file[entry[key[w]]].body.ver \in May(w)
    BY <1>2, <2>1 DEF RegularOf, ReadPc
  <2>5. SameKeyOf(w)'
    <3>1. \A k \in Key : entry[k] = entry[key[w]] => k = key[w]
      BY <2>1, <2>2 DEF IInv, OneName
    <3>2. \A x \in Worker : pc[x] \in WritePc /\ fd[x] = entry[key[w]] => key[x] = key[w]
      BY <2>2 DEF IInv, OneName
    <3> QED
      BY <1>3, <1>4, <2>1, <2>2, <3>1, <3>2 DEF SameKeyOf
  <2>6. RegularOf(w)'
    BY <1>3, <2>1, <2>2, <2>3, <2>4 DEF RegularOf, Whole, May
  <2>7. UnexpiredOf(w)'
    BY <1>3, <2>1, <2>2 DEF UnexpiredOf, IInv, FileWhole, Whole, SoleKey, Expiry
  <2> QED
    BY <2>5, <2>6, <2>7
<1>8. CASE ReadExpiry(w) \/ ReadLength(w) \/ ReadBody(w)
  <2> DEFINE c == file[fd[w]]
  <2>1. /\ pc[w] \in {"rexp", "rlen", "rbody"} /\ fd[w] \in Inode
        /\ pc'[w] \in {"rlen", "rbody", "got"}
        /\ UNCHANGED <<fd, key, clk, base, over>>
    BY <1>2, <1>5, <1>8 DEF ReadExpiry, ReadLength, ReadBody, ReadReturns, ReadPc,
       ControlOf, ghost
  <2>2. \/ buf'[w].body = buf[w].body /\ pc[w] # "rexp" /\ buf[w].body # None
        \/ buf'[w].body = c.body /\ pc[w] # "rexp" /\ buf[w].body = None
        \/ buf'[w].body = None /\ pc[w] # "rexp" /\ buf[w].body = None
        \/ buf'[w].body = c.body /\ pc[w] = "rexp" /\ Live(c, clk[w])
    <3> HIDE DEF c
    <3>1. c \in Cells /\ buf[w] \in Cells
      BY <1>5, <2>1 DEF c
    <3>2. [c EXCEPT !.exp = buf[w].exp].body = c.body
      BY <3>1 DEF Cells
    <3>3. CASE ReadExpiry(w)
      BY <1>5, <2>1, <3>3 DEF ReadExpiry, ReadReturns, c, ReadPc
    <3>4. CASE ReadLength(w)
      BY <1>5, <2>1, <3>2, <3>4 DEF ReadLength, ReadReturns, c, ReadPc
    <3>5. CASE ReadBody(w)
      <4>1. PICK n : n = IF buf[w].body = None THEN c.body ELSE buf[w].body
        OBVIOUS
      <4>2. buf' = [buf EXCEPT ![w].body = n] /\ pc[w] = "rbody"
        BY <1>5, <2>1, <3>5, <4>1 DEF ReadBody, ReadReturns, c, ReadPc
      <4>3. buf'[w].body = n
        BY <1>5, <3>1, <4>2 DEF Cells
      <4> QED
        BY <4>1, <4>2, <4>3
    <3> QED
      BY <1>8, <3>3, <3>4, <3>5
  <2>3. pc'[w] = "got" => buf'[w].body # None
    <3>1. CASE ReadBody(w)
      <4>1. PICK n : n = IF buf[w].body = None THEN c.body ELSE buf[w].body
        OBVIOUS
      <4>2. buf' = [buf EXCEPT ![w].body = n] /\ n # None
        BY <1>5, <2>1, <3>1, <4>1 DEF ReadBody, ReadReturns, ReadPc
      <4> QED
        BY <1>5, <4>2 DEF Cells
    <3>2. CASE ReadExpiry(w) \/ ReadLength(w)
      BY <1>5, <2>1, <3>2 DEF ReadExpiry, ReadLength, ReadReturns
    <3> QED
      BY <1>8, <3>1, <3>2
  <2>4. SameKeyOf(w)'
    BY <1>2, <1>3, <1>4, <2>1 DEF SameKeyOf, ReadPc
  <2>5. RegularOf(w)'
    <3>1. \A x \in Worker : Writing(x, key[w])' => job'[x].ver \in over'[w]
      BY <1>2, <1>3, <1>4, <2>1 DEF RegularOf, Writing, ReadPc
    <3>2. buf'[w].body # None => buf'[w].body.ver \in May(w)
      BY <1>2, <2>1, <2>2 DEF RegularOf, ReadPc
    <3> QED
      BY <1>2, <1>3, <2>1, <2>3, <3>1, <3>2 DEF RegularOf, Whole, May, ReadPc
  <2>6. UnexpiredOf(w)'
    <3> SUFFICES ASSUME key[w] \in SoleKey PROVE UnexpiredOf(w)'
      BY <2>1 DEF UnexpiredOf, SoleKey
    <3>1. /\ c.body # None => c.exp = Expiry(c.body)
          /\ pc[w] # "rexp" /\ buf[w].body = None /\ c.body # None =>
               c.body.ver \in over[w]
          /\ pc[w] # "rexp" /\ buf[w].body # None /\ buf[w].body.ver \notin over[w] =>
               Expiry(buf[w].body) > clk[w]
      BY <1>2, <2>1 DEF UnexpiredOf, ReadPc
    <3>2. buf'[w].body = None /\ c.body # None => c.body.ver \in over[w]
      BY <2>2, <3>1
    <3>3. buf'[w].body # None /\ buf'[w].body.ver \notin over[w] =>
            Expiry(buf'[w].body) > clk[w]
      BY <2>2, <3>1 DEF Live
    <3> QED
      BY <1>3, <2>1, <3>1, <3>2, <3>3 DEF UnexpiredOf, Expiry
  <2> QED
    BY <2>4, <2>5, <2>6
<1> QED
  BY <1>1, <1>6, <1>7, <1>8 DEF Reads

LEMMA ReadersStep == RInv /\ [Next]_vars => SameKey' /\ Regular' /\ Unexpired'
<1> SUFFICES ASSUME RInv, [Next]_vars PROVE SameKey' /\ Regular' /\ Unexpired'
  OBVIOUS
<1>1. CASE UNCHANGED vars \/ Tick
  <2>1. UNCHANGED <<pc, key, fd, job, entry, file, buf, clk, base, over>>
    BY <1>1 DEF vars, Tick, store, read, ghost
  <2> QED
    BY <2>1 DEF RInv, SameKey, SameKeyOf, Regular, RegularOf, Unexpired, UnexpiredOf,
       Writing, Whole, May, SoleKey, Expiry
<1>2. ASSUME NEW w \in Worker, Step(w), NEW r \in Worker
      PROVE  SameKeyOf(r)' /\ RegularOf(r)' /\ UnexpiredOf(r)'
  <2>1. CASE pc'[r] \notin ReadPc
    BY <2>1 DEF SameKeyOf, RegularOf, UnexpiredOf
  <2>2. CASE pc'[r] \in ReadPc /\ r # w
    BY <1>2, <2>2, OthersStep
  <2>3. CASE pc'[r] \in ReadPc /\ r = w
    BY <1>2, <2>3, ReaderStep
  <2> QED
    BY <2>1, <2>2, <2>3
<1> QED
  BY <1>1, <1>2 DEF Next, Step, SameKey, Regular, Unexpired

LEMMA RegularInductive == Spec => []RInv
<1>1. Init => Kept /\ Once
  BY DEF Init, Kept, KeptOf, Once, NotYet, Waits, Writing, JobPc, WritePc
<1>2. Init => Shown /\ SameKey /\ Regular /\ Unexpired
  BY DEF Init, Shown, Whole, SameKey, SameKeyOf, Regular, RegularOf, Unexpired,
     UnexpiredOf, ReadPc
<1>3. TypeOK /\ Control /\ Kept /\ [Next]_vars => Kept'
  <2> SUFFICES ASSUME TypeOK, Control, Kept, [Next]_vars PROVE Kept'
    OBVIOUS
  <2>1. CASE UNCHANGED vars \/ Tick
    <3>1. UNCHANGED <<pc, key, job, local, todo>>
      BY <2>1 DEF vars, Tick, ctl
    <3> QED
      BY <3>1 DEF Kept, KeptOf
  <2>2. ASSUME NEW w \in Worker, Step(w), NEW x \in Worker
        PROVE  KeptOf(x)'
    <3>1. CASE x = w
      BY <2>2, <3>1, KeptStep
    <3>2. CASE x # w
      BY <2>2, <3>2, FrameStep DEF Frame, Kept, KeptOf
    <3> QED
      BY <3>1, <3>2
  <2> QED
    BY <2>1, <2>2 DEF Next, Step, Kept
<1>4. IInv => TypeOK /\ Control
  BY DEF IInv
<1>5. IInv /\ IInv' /\ RInv /\ [Next]_vars => RInv'
  BY <1>3, <1>4, OnceStep, ShownStep, ReadersStep DEF RInv
<1>6. Init /\ IInv => RInv
  BY <1>1, <1>2 DEF RInv
<1> QED
  BY <1>5, <1>6, Inductive, PTL DEF Spec

(* Whatever workers write, delete and crash meanwhile, a read returns the  *)
(* package that was on disk when it began, or one written since, and never *)
(* one that had been overwritten or deleted before.                        *)
THEOREM ReadsAreRegular == Spec => []ReadIsRegular
<1>1. RInv => ReadIsRegular
  BY DEF RInv, Regular, RegularOf, ReadIsRegular, ReadPc, May
<1> QED
  BY <1>1, RegularInductive, PTL

(* For a key with one writer, a package that was on disk when the read     *)
(* began is only returned before it expires, whoever deletes, restarts or  *)
(* rewrites between the two records.                                       *)
THEOREM NoExpiredReads == Spec => []NoExpiredRead
<1>1. RInv => NoExpiredRead
  BY DEF RInv, Regular, RegularOf, Unexpired, UnexpiredOf, NoExpiredRead, ReadPc
<1> QED
  BY <1>1, RegularInductive, PTL
-----------------------------------------------------------------------------
(* The files of keys with one writer never go back.  The versions that     *)
(* wait to be written are newer than the last one written.                 *)

(* The memory layer holds the package being written, and nothing at all     *)
(* where the options keep none.                                             *)
HeldOf(x) ==
  /\ ~opt.keepLocal => \A k \in Key \ SessionKey : local[x][k] = None
  /\ pc[x] \in JobPc /\ local[x][key[x]] # None =>
       local[x][key[x]].ver = job[x].ver

Held == \A x \in Worker : HeldOf(x)

(* Of a key with one writer: what waits is newer than what was written, and *)
(* while it is being written its path names that file or none.              *)
Forward ==
  /\ nver <= MaxVer
  /\ \A k \in SoleKey : last[k] <= nver
  /\ \A k \in SoleKey, x \in Worker, v \in Nat : Waits(x, k, v) => last[k] < v
  /\ \A k \in SoleKey, x \in Worker : Writing(x, k) => entry[k] \in {fd[x], None}

FInv == RInv /\ Held /\ Forward

LEMMA HeldStep == ASSUME TypeOK, Control, Held, NEW w \in Worker, Step(w)
                  PROVE  HeldOf(w)'
<1> USE DEF TypeOK, CallTypeOK, HeldOf, JobPc, WritePc
<1> ControlOf(w) /\ HeldOf(w)
  BY DEF Control, Held
<1>1. CASE \E k \in Key, ttl \in Ttl : Set(w, k, ttl)
  BY <1>1 DEF Set, ControlOf
<1>2. CASE \E k \in Key, ttl \in Ttl : SetCached(w, k, ttl)
  BY <1>2 DEF SetCached, ControlOf
<1>3. CASE \E k \in Key : GetCached(w, k)
  BY <1>3 DEF GetCached, ControlOf
<1>4. CASE \E k \in Key : DeleteKey(w, k)
  BY <1>4 DEF DeleteKey, Unlink, ControlOf
<1>5. CASE FlushStart(w)
  BY <1>5 DEF FlushStart, Unsaved, ControlOf
<1>6. CASE DeleteExpired(w)
  BY <1>6 DEF DeleteExpired, ControlOf
<1>7. CASE ClearStart(w)
  BY <1>7 DEF ClearStart, ControlOf
<1>8. CASE CheckDir(w)
  BY <1>8 DEF CheckDir, Stamp, ControlOf
<1>9. CASE Mkdir(w)
  BY <1>9 DEF Mkdir, Stamp, ControlOf
<1>10. CASE MkdirFails(w)
  BY <1>10 DEF MkdirFails, WriteReturns, ControlOf
<1>11. CASE Open(w)
  BY <1>11 DEF Open, ControlOf
<1>12. CASE OpenFails(w)
  BY <1>12 DEF OpenFails, WriteReturns, ControlOf
<1>13. CASE WriteExpiry(w)
  BY <1>13 DEF WriteExpiry, ControlOf
<1>14. CASE WriteLength(w)
  BY <1>14 DEF WriteLength, ControlOf
<1>15. CASE WriteBody(w)
  BY <1>15 DEF WriteBody, WriteReturns, ControlOf
<1>16. CASE FlushNext(w)
  BY <1>16 DEF FlushNext, ControlOf
<1>17. CASE FlushEnd(w)
  BY <1>17 DEF FlushEnd, ControlOf
<1>18. CASE ReadOpen(w)
  BY <1>18 DEF ReadOpen, ReadReturns, ControlOf
<1>19. CASE ReadExpiry(w)
  BY <1>19 DEF ReadExpiry, ReadReturns, ControlOf
<1>20. CASE ReadLength(w)
  BY <1>20 DEF ReadLength, ReadReturns, ControlOf
<1>21. CASE ReadBody(w)
  BY <1>21 DEF ReadBody, ReadReturns, ControlOf
<1>22. CASE Got(w)
  BY <1>22 DEF Got, ReadReturns, ControlOf
<1>23. CASE Scan(w)
  BY <1>23 DEF Scan, ControlOf
<1>24. CASE Reap(w)
  BY <1>24 DEF Reap, Unlink, ControlOf
<1>25. CASE ClearUnlink(w)
  BY <1>25 DEF ClearUnlink, Unlink, ControlOf
<1>26. CASE ClearRmdir(w)
  BY <1>26 DEF ClearRmdir, ControlOf
<1>27. CASE Crash(w)
  BY <1>27 DEF Crash, ControlOf
<1> QED
  BY <1>1, <1>2, <1>3, <1>4, <1>5, <1>6, <1>7, <1>8, <1>9,
     <1>10, <1>11, <1>12, <1>13, <1>14, <1>15, <1>16, <1>17, <1>18,
     <1>19, <1>20, <1>21, <1>22, <1>23, <1>24, <1>25, <1>26, <1>27
  DEF Step, Call, WriteStep, ReadStep, DeleteStep

(* All but WriteBody leave the last versions alone; a step takes one path   *)
(* away at most.                                                            *)
LEMMA LastStep == ASSUME TypeOK, Control, NEW w \in Worker, Step(w), ~WriteBody(w)
                  PROVE  /\ last' = last
                         /\ \A k, l \in Key :
                              entry'[k] # entry[k] /\ entry'[l] # entry[l] => k = l
<1> USE DEF TypeOK, DiskTypeOK, CallTypeOK
<1>1. CASE \E k \in Key, ttl \in Ttl : Set(w, k, ttl)
  BY <1>1 DEF Set, hist, store
<1>2. CASE \E k \in Key, ttl \in Ttl : SetCached(w, k, ttl)
  BY <1>2 DEF SetCached, hist, store
<1>3. CASE \E k \in Key : GetCached(w, k)
  BY <1>3 DEF GetCached, hist, store
<1>4. CASE \E k \in Key : DeleteKey(w, k)
  BY <1>4 DEF DeleteKey, Unlink, hist, store
<1>5. CASE FlushStart(w)
  BY <1>5 DEF FlushStart, Unsaved, hist, store
<1>6. CASE DeleteExpired(w)
  BY <1>6 DEF DeleteExpired, hist, store
<1>7. CASE ClearStart(w)
  BY <1>7 DEF ClearStart, hist, store
<1>8. CASE CheckDir(w)
  BY <1>8 DEF CheckDir, Stamp, hist, store
<1>9. CASE Mkdir(w)
  BY <1>9 DEF Mkdir, Stamp, hist, store
<1>10. CASE MkdirFails(w)
  BY <1>10 DEF MkdirFails, WriteReturns, hist, store
<1>11. CASE Open(w)
  BY <1>11 DEF Open, hist, store
<1>12. CASE OpenFails(w)
  BY <1>12 DEF OpenFails, WriteReturns, hist, store
<1>13. CASE WriteExpiry(w)
  BY <1>13 DEF WriteExpiry, hist, store
<1>14. CASE WriteLength(w)
  BY <1>14 DEF WriteLength, hist, store
<1>15. CASE WriteBody(w)
  BY <1>15
<1>16. CASE FlushNext(w)
  BY <1>16 DEF FlushNext, hist, store
<1>17. CASE FlushEnd(w)
  BY <1>17 DEF FlushEnd, hist, store
<1>18. CASE ReadOpen(w)
  BY <1>18 DEF ReadOpen, ReadReturns, hist, store
<1>19. CASE ReadExpiry(w)
  BY <1>19 DEF ReadExpiry, ReadReturns, hist, store
<1>20. CASE ReadLength(w)
  BY <1>20 DEF ReadLength, ReadReturns, hist, store
<1>21. CASE ReadBody(w)
  BY <1>21 DEF ReadBody, ReadReturns, hist, store
<1>22. CASE Got(w)
  BY <1>22 DEF Got, ReadReturns, hist, store
<1>23. CASE Scan(w)
  BY <1>23 DEF Scan, hist, store
<1>24. CASE Reap(w)
  BY <1>24 DEF Reap, Unlink, hist, store
<1>25. CASE ClearUnlink(w)
  BY <1>25 DEF ClearUnlink, Unlink, hist, store
<1>26. CASE ClearRmdir(w)
  BY <1>26 DEF ClearRmdir, hist, store
<1>27. CASE Crash(w)
  BY <1>27 DEF Crash, hist, store
<1> QED
  BY <1>1, <1>2, <1>3, <1>4, <1>5, <1>6, <1>7, <1>8, <1>9,
     <1>10, <1>11, <1>12, <1>13, <1>14, <1>15, <1>16, <1>17, <1>18,
     <1>19, <1>20, <1>21, <1>22, <1>23, <1>24, <1>25, <1>26, <1>27
  DEF Step, Call, WriteStep, ReadStep, DeleteStep

LEMMA OptStep == ASSUME NEW w \in Worker, Step(w)
                 PROVE  opt' = opt
  BY DEF Step, Call, WriteStep, ReadStep, DeleteStep, Set, SetCached, GetCached,
     DeleteKey, FlushStart, DeleteExpired, ClearStart, CheckDir, Mkdir, MkdirFails,
     Open, OpenFails, WriteExpiry, WriteLength, WriteBody, FlushNext, FlushEnd,
     ReadOpen, ReadExpiry, ReadLength, ReadBody, Got, Scan, Reap, ClearUnlink,
     ClearRmdir, Crash

LEMMA NverStep == ASSUME TypeOK, NEW w \in Worker, Step(w), nver <= MaxVer
                  PROVE  nver' <= MaxVer
<1>1. nver \in Nat /\ MaxVer \in Nat
  BY ConstantsAssumption DEF TypeOK, DiskTypeOK
<1>2. nver' = nver \/ (nver' = nver + 1 /\ nver < MaxVer)
  BY DEF Step, Call, WriteStep, ReadStep, DeleteStep, Set, SetCached, GetCached,
     DeleteKey, FlushStart, DeleteExpired, ClearStart, CheckDir, Mkdir, MkdirFails,
     Open, OpenFails, WriteExpiry, WriteLength, WriteBody, FlushNext, FlushEnd,
     ReadOpen, ReadExpiry, ReadLength, ReadBody, Got, Scan, Reap, ClearUnlink,
     ClearRmdir, Crash
<1> QED
  BY <1>1, <1>2

LEMMA ForwardStep == FInv /\ [Next]_vars => Held' /\ Forward'
<1> SUFFICES ASSUME FInv, [Next]_vars PROVE Held' /\ Forward'
  OBVIOUS
<1> USE DEF FInv, RInv
<1>0. TypeOK /\ Control /\ Owned /\ OneName
  BY DEF IInv
<1>1. CASE UNCHANGED vars \/ Tick
  <2>1. UNCHANGED <<opt, pc, key, fd, job, local, entry, nver, last>>
    BY <1>1 DEF vars, Tick, store, hist
  <2> QED
    BY <2>1 DEF Held, HeldOf, Forward, Waits, Writing, SoleKey
<1>2. ASSUME NEW w \in Worker, Step(w)
      PROVE  Held' /\ Forward'
  <2>1. Frame(w) /\ Brings(w) /\ nver' \in {nver, nver + 1} /\ opt' = opt
    BY <1>0, <1>2, FrameStep, KeptStep, ApartStep, OptStep DEF Apart
  <2>2. nver \in Nat /\ MaxVer \in Nat /\ last \in [Key -> Nat]
    BY <1>0, ConstantsAssumption DEF TypeOK, DiskTypeOK, ReadTypeOK
  <2>3. \A x \in Worker, k \in Key, v \in Nat : Waits(x, k, v)' =>
          Waits(x, k, v) \/ (x = w /\ v = nver + 1 /\ nver' = nver + 1)
    BY <2>1 DEF Frame, Brings, Waits
  <2>4. Held'
    <3>1. \A x \in Worker \ {w} : HeldOf(x)'
      BY <2>1 DEF Frame, Held, HeldOf
    <3> QED
      BY <1>0, <1>2, <3>1, HeldStep DEF Held
  <2>5. nver' <= MaxVer
    BY <1>0, <1>2, NverStep DEF Forward
  <2>6. \A x, y \in Worker, k \in SoleKey : x \in MayWrite[k] /\ y \in MayWrite[k] => x = y
    BY DEF SoleKey
  <2>7. \A x \in Worker, k \in Key : Writing(x, k) => x \in MayWrite[k]
    BY <1>0 DEF Owned, OwnedBy, Writing, JobPc
  <2>8. CASE ~WriteBody(w)
    <3>1. last' = last
      BY <1>0, <1>2, <2>8, LastStep
    <3>2. \A k \in SoleKey : last'[k] <= nver'
      BY <2>1, <2>2, <3>1 DEF Forward, SoleKey
    <3>3. \A k \in SoleKey, x \in Worker, v \in Nat : Waits(x, k, v)' => last'[k] < v
      BY <2>2, <2>3, <3>1 DEF Forward, SoleKey
    <3>4. ASSUME NEW k \in SoleKey, NEW x \in Worker, Writing(x, k)'
          PROVE  entry'[k] \in {fd'[x], None}
      <4>0. k \in Key
        BY DEF SoleKey
      <4>1. CASE ~Writes(w)
        <5>1. Quiet(w)
          BY <1>0, <1>2, <4>1, QuietStep
        <5> QED
          BY <2>1, <3>4, <4>0, <5>1 DEF Quiet, Frame, Writing, Forward
      <4>2. CASE Open(w)
        <5>1. PICK f \in Inode : Opens(w, f)
          BY <4>2, OpenGives
        <5>2. CASE x = w
          BY <3>4, <5>1, <5>2 DEF Opens, Writing
        <5>3. CASE x # w
          <6>1. Writing(x, k) /\ fd'[x] = fd[x]
            BY <2>1, <3>4, <5>3 DEF Frame, Writing
          <6>2. w \in MayWrite[key[w]]
            BY <1>0, <4>2 DEF Owned, OwnedBy, Open, JobPc
          <6>3. k # key[w]
            BY <2>6, <2>7, <4>0, <5>3, <6>1, <6>2
          <6> QED
            BY <4>0, <5>1, <6>1, <6>3 DEF Opens, Forward
        <5> QED
          BY <5>2, <5>3
      <4>3. CASE Writes(w) /\ ~Open(w)
        <5>1. entry' = entry /\ UNCHANGED <<key, fd>> /\ pc[w] \in WritePc
          BY <2>8, <4>3, WriteGives
        <5> QED
          BY <2>1, <3>4, <5>1 DEF Frame, Writing, Forward
      <4> QED
        BY <4>1, <4>2, <4>3
    <3> QED
      BY <2>4, <2>5, <3>2, <3>3, <3>4 DEF Forward, SoleKey
  <2>9. CASE WriteBody(w)
    <3>0. PICK l \in Key, j \in Nat : l = key[w] /\ j = job[w].ver
      BY <1>0, <2>9, PackageType DEF WriteBody, Control, ControlOf, JobPc, WritePc
    <3>1. /\ pc[w] = "wbody" /\ pc'[w] \notin JobPc
          /\ UNCHANGED <<local, nver, entry>>
      BY <1>0, <2>9 DEF WriteBody, WriteReturns, JobPc, WritePc, TypeOK, CallTypeOK
    <3>2. last'[l] = j /\ \A k \in Key \ {l} : last'[k] = last[k]
      BY <2>2, <2>9, <3>0 DEF WriteBody
    <3>3. Waits(w, l, j) /\ w \in MayWrite[l]
      BY <2>7, <3>0, <3>1 DEF Waits, JobPc, WritePc, Writing
    <3>4. \A v \in Nat : ~Waits(w, l, v)'
      BY <3>0, <3>1 DEF Waits, JobPc, WritePc, Kept, KeptOf, Held, HeldOf
    <3>5. \A x \in Worker, v \in Nat : l \in SoleKey => ~Waits(x, l, v)'
      <4>1. ASSUME NEW x \in Worker, NEW v \in Nat, l \in SoleKey, x # w, Waits(x, l, v)
            PROVE  FALSE
        <5>1. x \in MayWrite[l]
          BY <1>0, <4>1 DEF Waits, Owned, OwnedBy
        <5> QED
          BY <2>6, <3>3, <4>1, <5>1
      <4> QED
        BY <2>3, <3>4, <4>1
    <3>6. \A k \in SoleKey : last'[k] <= nver'
      BY <2>2, <3>0, <3>1, <3>2, <3>3 DEF Forward, Once, NotYet, SoleKey
    <3>7. \A k \in SoleKey, x \in Worker, v \in Nat : Waits(x, k, v)' => last'[k] < v
      <4> SUFFICES ASSUME NEW k \in SoleKey, NEW x \in Worker, NEW v \in Nat,
                          Waits(x, k, v)'
                   PROVE  last'[k] < v
        OBVIOUS
      <4>1. k # l /\ k \in Key
        BY <3>5 DEF SoleKey
      <4>2. Waits(x, k, v)
        BY <2>2, <2>3, <3>1, <4>1
      <4> QED
        BY <3>2, <4>1, <4>2 DEF Forward
    <3>8. \A k \in SoleKey, x \in Worker : Writing(x, k)' => entry'[k] \in {fd'[x], None}
      BY <2>1, <3>1 DEF Frame, Writing, Forward, JobPc
    <3> QED
      BY <2>4, <2>5, <3>6, <3>7, <3>8 DEF Forward, SoleKey
  <2> QED
    BY <2>8, <2>9
<1> QED
  BY <1>1, <1>2 DEF Next, Step

(* A store that loses one package at most has taken a step of the abstract  *)
(* specification, or none.                                                  *)
LEMMA Loses ==
  ASSUME last' = last,
         \A k \in SoleKey : DiskVer(k)' \in {DiskVer(k), 0},
         \A k, l \in SoleKey :
           DiskVer(k)' # DiskVer(k) /\ DiskVer(l)' # DiskVer(l) => k = l
  PROVE  [Abstract!Next]_(Abstract!vars)
<1>0. SoleKey' = SoleKey
  BY DEF SoleKey
<1>1. CASE \A k \in SoleKey : DiskVer(k)' = DiskVer(k)
  BY <1>0, <1>1 DEF Abstract!vars
<1>2. CASE \E k \in SoleKey : DiskVer(k)' # DiskVer(k)
  <2>1. PICK k \in SoleKey : DiskVer(k)' # DiskVer(k)
    BY <1>2
  <2>2. DiskVer(k) # 0 /\ DiskVer(k)' = 0
    BY <2>1
  <2>3. \A l \in SoleKey \ {k} : DiskVer(l)' = DiskVer(l)
    BY <2>1
  <2>4. Abstract!Lose(k)
    BY <1>0, <2>2, <2>3 DEF Abstract!Lose
  <2> QED
    BY <2>4 DEF Abstract!Next
<1> QED
  BY <1>1, <1>2

LEMMA AbstractStep == FInv /\ [Next]_vars => [Abstract!Next]_(Abstract!vars)
<1> SUFFICES ASSUME FInv, [Next]_vars PROVE [Abstract!Next]_(Abstract!vars)
  OBVIOUS
<1> USE DEF FInv, RInv
<1>0. TypeOK /\ Control /\ Owned /\ OneName /\ SoleKey \subseteq Key
  BY DEF IInv, SoleKey
<1>1. CASE UNCHANGED vars \/ Tick
  <2>1. UNCHANGED <<entry, file, last>>
    BY <1>1 DEF vars, Tick, store, hist
  <2> QED
    BY <2>1, Loses DEF DiskVer, Whole
<1>2. ASSUME NEW w \in Worker, Step(w)
      PROVE  [Abstract!Next]_(Abstract!vars)
  <2>1. entry \in [Key -> Inode \cup {None}]
    BY <1>0 DEF TypeOK, DiskTypeOK
  <2>2. CASE ~Writes(w)
    <3>1. Quiet(w) /\ last' = last
      BY <1>0, <1>2, <2>2, QuietStep, LastStep DEF Writes
    <3>2. \A k \in SoleKey : entry'[k] = entry[k] => DiskVer(k)' = DiskVer(k)
      BY <3>1 DEF Quiet, DiskVer, Whole
    <3>3. \A k \in SoleKey : entry'[k] # entry[k] => DiskVer(k)' = 0
      BY <1>0, <3>1 DEF Quiet, DiskVer, Whole
    <3>4. \A k, l \in Key : entry'[k] # entry[k] /\ entry'[l] # entry[l] => k = l
      BY <1>0, <1>2, <2>2, LastStep DEF Writes
    <3>5. \A k \in SoleKey : DiskVer(k)' \in {DiskVer(k), 0}
      BY <3>2, <3>3
    <3>6. \A k, l \in SoleKey :
            DiskVer(k)' # DiskVer(k) /\ DiskVer(l)' # DiskVer(l) => k = l
      BY <1>0, <3>2, <3>4
    <3> QED
      BY <3>1, <3>5, <3>6, Loses
  <2>3. CASE Open(w)
    <3>1. PICK f \in Inode : Opens(w, f)
      BY <2>3, OpenGives
    <3>2. last' = last
      BY <2>3 DEF Open
    <3>3. \A k \in SoleKey \ {key[w]} : DiskVer(k)' = DiskVer(k)
      BY <1>0, <2>1, <3>1 DEF Opens, DiskVer, Whole
    <3>4. key[w] \in SoleKey => DiskVer(key[w])' = 0
      BY <3>1 DEF Opens, DiskVer, Whole, Blank
    <3>5. \A k \in SoleKey : DiskVer(k)' \in {DiskVer(k), 0}
      BY <3>1, <3>3, <3>4 DEF Opens, DiskVer, Whole, Blank
    <3>6. \A k, l \in SoleKey :
            DiskVer(k)' # DiskVer(k) /\ DiskVer(l)' # DiskVer(l) => k = l
      BY <3>3
    <3> QED
      BY <3>2, <3>5, <3>6, Loses
  <2>4. CASE Writes(w) /\ ~Open(w) /\ ~WriteBody(w)
    <3>1. /\ entry' = entry /\ last' = last /\ fd[w] \in Inode
          /\ \A g \in Inode : file'[g].body = file[g].body
      BY <1>0, <1>2, <2>4, WriteGives, LastStep
    <3>2. \A k \in SoleKey : DiskVer(k)' = DiskVer(k)
      BY <1>0, <2>1, <3>1 DEF DiskVer, Whole
    <3> QED
      BY <3>1, <3>2, Loses
  <2>5. CASE WriteBody(w)
    <3>0. PICK l \in Key, j \in Nat : l = key[w] /\ j = job[w].ver
      BY <1>0, <2>5, PackageType DEF WriteBody, Control, ControlOf, JobPc, WritePc
    <3>1. /\ pc[w] \in WritePc /\ fd[w] \in Inode /\ entry' = entry
          /\ \A g \in Inode \ {fd[w]} : file'[g] = file[g]
          /\ file'[fd[w]].body = job[w] /\ job[w] \in Package
      BY <1>0, <2>5, WriteGives DEF Writes, Open, WriteBody, Control, ControlOf, JobPc
    <3>2. last' = [last EXCEPT ![l] = j] /\ last \in [Key -> Nat]
      BY <1>0, <2>5, <3>0 DEF WriteBody, TypeOK, ReadTypeOK
    <3>3. \A k \in Key : entry[k] = fd[w] => k = l
      BY <1>0, <3>0, <3>1 DEF OneName
    <3>4. \A k \in SoleKey \ {l} : DiskVer(k)' = DiskVer(k) /\ last'[k] = last[k]
      BY <1>0, <2>1, <3>1, <3>2, <3>3 DEF DiskVer, Whole
    <3>5. CASE l \notin SoleKey
      <4>1. SoleKey' = SoleKey
        BY DEF SoleKey
      <4> QED
        BY <3>4, <3>5, <4>1 DEF Abstract!vars
    <3>6. CASE l \in SoleKey
      <4>1. Waits(w, l, j) /\ Writing(w, l)
        BY <3>0, <3>1 DEF Waits, Writing, JobPc
      <4>2. last[l] < j /\ j \in 1 .. MaxVer
        <5>1. last[l] < j /\ j <= nver /\ nver <= MaxVer
          BY <3>6, <4>1 DEF Forward, Once, NotYet
        <5>2. nver \in Nat /\ MaxVer \in Nat /\ last[l] \in Nat
          BY <1>0, <3>2, ConstantsAssumption DEF TypeOK, DiskTypeOK
        <5> QED
          BY <5>1, <5>2
      <4>3. /\ entry[l] = fd[w] => DiskVer(l)' = j
            /\ entry[l] # fd[w] => DiskVer(l) = 0 /\ DiskVer(l)' = 0
        <5>1. entry[l] \in {fd[w], None}
          BY <3>6, <4>1 DEF Forward
        <5>2. job[w] # None /\ fd[w] # None
          BY <3>1, NoneAssumption
        <5> QED
          BY <3>0, <3>1, <5>1, <5>2 DEF DiskVer, Whole
      <4>4. last'[l] = j
        BY <3>2
      <4>5. SoleKey' = SoleKey
        BY DEF SoleKey
      <4>6. Abstract!Write(l)
        BY <3>4, <3>6, <4>2, <4>3, <4>4, <4>5 DEF Abstract!Write
      <4> QED
        BY <3>6, <4>6 DEF Abstract!Next
    <3> QED
      BY <3>5, <3>6
  <2> QED
    BY <2>2, <2>3, <2>4, <2>5 DEF Writes
<1> QED
  BY <1>1, <1>2 DEF Next, Step

(* The files of keys with one writer implement VersionedStore: a package   *)
(* may be lost, but no step puts an older one in the place of a newer.     *)
THEOREM NeverBack == Spec => NeverGoesBack
<1>1. Init => Held /\ Forward
  BY ConstantsAssumption DEF Init, Held, HeldOf, Forward, Waits, Writing, JobPc, WritePc,
     SoleKey
<1>2. Init => Abstract!Init
  BY DEF Init, Abstract!Init, DiskVer, Whole, SoleKey
<1>3. RInv /\ RInv' /\ FInv /\ [Next]_vars => FInv'
  BY ForwardStep DEF FInv
<1>4. Init /\ RInv => FInv
  BY <1>1 DEF FInv
<1> QED
  BY <1>2, <1>3, <1>4, RegularInductive, AbstractStep, PTL
  DEF Spec, NeverGoesBack, Abstract!Spec
=============================================================================
