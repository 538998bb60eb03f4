----------------------------- MODULE UserSession -----------------------------
(***************************************************************************)
(* One browser session in wcc, as the requests that carry its id see it:   *)
(* UserSession and UserData (usersession.cpp, userdata.cpp), the wrapper   *)
(* of PHP's session (isession.cpp), the save handler over a cache          *)
(* (syscache.cpp) and what Run::shutdown does at the end of a request.     *)
(* The save handler takes no lock, so requests overlap freely and meet in  *)
(* the package of the session.  Here that package is read and written in   *)
(* one step: DirCache is about the steps.                                  *)
(*                                                                         *)
(* PHP hands objects around by handle.  While linked is true the UserData  *)
(* the request holds is the one in $_SESSION, and changes to it are        *)
(* changes to the session.                                                 *)
(***************************************************************************)
EXTENDS Naturals

CONSTANTS
  Request,    \* the requests that may run at the same time
  Role,       \* names of roles
  Guest,      \* the role setGuest gives
  KeyValue,   \* what a script stores under a key of the session
  NoKeys,     \* the empty array of keys
  Null,       \* PHP null
  Absent,     \* a session without user data
  None,       \* no package
  MaxLogout   \* bound on the logouts

UserData == [keys : KeyValue \cup {NoKeys}, roles : SUBSET Role, login : Nat]
Session  == UserData \cup {Null, Absent}

ASSUME UserSessionAssumption ==
  /\ Guest \in Role
  /\ NoKeys \notin KeyValue
  /\ Null \notin UserData /\ Absent \notin UserData /\ None \notin Session
  /\ Null # Absent
  /\ MaxLogout \in Nat

VARIABLES
  package,   \* the package with the session's id in the cache directory
  q,         \* the state of each request
  logouts,   \* ghost: how often nullify destroyed the session
  late,      \* ghost: the requests that were running at the last logout
  revived    \* ghost: one of them has saved the session since

sessionVars == <<package, q, logouts, late, revived>>

\* The state of a request:
\*   at       where it is: the script, Run::shutdown, or not begun ("nodata":
\*            the one before died in getUserData, which had none to hand out)
\*   active   PHP's session is active
\*   sess     the user data in $_SESSION
\*   data, session, doWrite, wasRead, ended   the members of UserSession
\*   linked   data is the object in $_SESSION
\*   local    the session's package in the memory layer of the cache
RequestState ==
  [at : {"idle", "nodata", "script", "caches"}, active : BOOLEAN,
   sess : Session, data : UserData \cup {Null}, session : BOOLEAN,
   doWrite : BOOLEAN, wasRead : BOOLEAN, ended : BOOLEAN, linked : BOOLEAN,
   local : Session \cup {None}]

\* UserData::newobj.  login is a ghost: the logouts there were before it.
NewUserData == [keys |-> NoKeys, roles |-> {}, login |-> logouts]

NewRequest ==
  [at |-> "script", active |-> FALSE, sess |-> Absent,
   data |-> NewUserData, session |-> FALSE, doWrite |-> FALSE,
   wasRead |-> FALSE, ended |-> FALSE, linked |-> FALSE, local |-> None]

\* no request: the members of the last one are of no interest
Gone(at) == [NewRequest EXCEPT !.at = at, !.data = Null]

SessionInit ==
  /\ package = None
  /\ logouts = 0
  /\ q = [r \in Request |-> Gone("idle")]
  /\ late = {}
  /\ revived = FALSE
-----------------------------------------------------------------------------
(* What the calls do to the state s of a request.                          *)

\* mutant: the request changes a copy of the object
ChangeCopy(s, d) == [s EXCEPT !.data = d]

\* a change to the object data_ is seen wherever the object is held
Change(s, d) ==
  [s EXCEPT !.data = d, !.sess = IF s.linked THEN d ELSE @]

Dirty(s) == [s EXCEPT !.doWrite = TRUE]

\* getSession: the member is filled from the container, which may fail
GetSession(s) ==
  IF s.session \/ s.ended THEN {s} ELSE {[s EXCEPT !.session = TRUE]}
GetSessionFails(s) == IF s.session \/ s.ended THEN {} ELSE {s}

\* ISession::set of the user data, which may be null
Put(s) ==
  IF s.active THEN [s EXCEPT !.sess = s.data, !.linked = s.data # Null]
  ELSE s

\* SysCache::read: the memory layer, then the file
Loaded(s) ==
  IF s.local # None THEN s.local
  ELSE IF package # None THEN package ELSE Absent

\* ISession::start when it succeeds: not when a session is active, nor when
\* output has begun or PHP or the handler refuses, which may be at any time
Started(s) ==
  [s EXCEPT !.active = TRUE, !.sess = Loaded(s), !.linked = FALSE]

\* read finds an object in the session, or puts a new one there
Adopted(s) ==
  IF s.sess \in UserData
  THEN {[s EXCEPT !.data = s.sess, !.linked = TRUE, !.wasRead = TRUE,
                  !.doWrite = b] : b \in BOOLEAN}
  ELSE {Dirty(Put([s EXCEPT !.data = NewUserData, !.wasRead = TRUE]))}

\* read: when the session does not start, there is no user data any more.
\* adjustExpiry asks for a write when it gave the session a longer life.
Read(s) ==
  IF s.wasRead \/ s.ended THEN {s}
  ELSE LET t == [s EXCEPT !.doWrite = FALSE] IN
       GetSessionFails(t) \cup
       UNION {{[u EXCEPT !.data = Null, !.linked = FALSE]} \cup
              (IF u.active THEN {} ELSE Adopted(Started(u)))
              : u \in GetSession(t)}

Write(s, force) ==
  IF ~force /\ ~s.doWrite THEN {s}
  ELSE LET t == [s EXCEPT !.doWrite = FALSE] IN
       GetSessionFails(t) \cup
       {IF u.session THEN Put(u) ELSE u : u \in GetSession(t)}

\* setValidUser
ValidUser(s, roles) ==
  Change(s, [s.data EXCEPT !.keys = NoKeys, !.roles = roles])

Wiped(s) == Dirty(ValidUser(s, {Guest}))

\* nullify, after its read; session_write_close is SysCache::write
Closed(s) ==
  [s EXCEPT !.active = FALSE,
            !.local = IF s.active THEN s.sess ELSE @]
-----------------------------------------------------------------------------
(* The calls of a script.                                                  *)

Running(r) == q[r].at = "script"
Becomes(r, s) == q' = [q EXCEPT ![r] = s]
ghost == <<logouts, late, revived>>
Idle(r) == q[r].at \in {"idle", "nodata"}

Begin(r) ==
  /\ Idle(r)
  /\ Becomes(r, NewRequest)
  /\ UNCHANGED <<package, ghost>>

\* ISession::start called by the script itself
Start(r) ==
  /\ Running(r) /\ ~q[r].active
  /\ Becomes(r, Started(q[r]))
  /\ UNCHANGED <<package, ghost>>

\* the request is gone, and what it did not save is lost
Dies(r, at) ==
  /\ Becomes(r, Gone(at))
  /\ late' = late \ {r}
  /\ UNCHANGED <<package, logouts, revived>>

\* a call uses the user data although there is none: undefined, the code
\* goes through a null pointer
NullData(r, call) == Dies(r, IF call = "getUserData" THEN "nodata" ELSE "idle")

\* read, and the calls that read first: getUserData, auth, isLoggedIn
ReadCall(r) ==
  /\ Running(r)
  /\ \E s \in Read(q[r]) : Becomes(r, s)
  /\ UNCHANGED <<package, ghost>>

GetUserData(r, call) ==
  /\ Running(r)
  /\ \E s \in Read(q[r]) :
       IF s.data = Null
       THEN NullData(r, call)
       ELSE Becomes(r, s) /\ UNCHANGED <<package, ghost>>

AddUserRoles(r, roles) ==
  /\ Running(r)
  /\ \E s \in Read(q[r]) :
       IF s.data = Null
       THEN NullData(r, "getUserData")
       ELSE LET t == Change(s, [s.data EXCEPT !.roles = @ \cup roles]) IN
            /\ Becomes(r, IF roles \subseteq s.data.roles THEN t ELSE Dirty(t))
            /\ UNCHANGED <<package, ghost>>

\* setKey and unsetKey, with NoKeys.  addFlash and flash do the same to
\* another array, but do not ask for a write.
SetKey(r, v, dirty) ==
  /\ Running(r)
  /\ IF q[r].data = Null
     THEN NullData(r, "setKey")
     ELSE LET t == Change(q[r], [q[r].data EXCEPT !.keys = v]) IN
          /\ Becomes(r, IF dirty THEN Dirty(t) ELSE t)
          /\ UNCHANGED <<package, ghost>>

\* setValidUser, setAdmin, setGuest
SetValidUser(r, roles) ==
  /\ Running(r)
  /\ IF q[r].data = Null
     THEN NullData(r, "setValidUser")
     ELSE /\ Becomes(r, ValidUser(q[r], roles))
          /\ UNCHANGED <<package, ghost>>

GuestSession(r) ==
  /\ Running(r)
  /\ IF q[r].data = Null
     THEN NullData(r, "setValidUser")
     ELSE /\ \E s \in Write(Wiped(q[r]), FALSE) : Becomes(r, s)
          /\ UNCHANGED <<package, ghost>>

Wipe(r) ==
  /\ Running(r)
  /\ IF q[r].data = Null
     THEN NullData(r, "wipe")
     ELSE /\ Becomes(r, Wiped(q[r]))
          /\ UNCHANGED <<package, ghost>>

DelayWrite(r) ==
  /\ Running(r)
  /\ Becomes(r, Dirty(q[r]))
  /\ UNCHANGED <<package, ghost>>

\* write and save; activate is one that is asked for, shutdown one by force
WriteCall(r, force) ==
  /\ Running(r)
  /\ \E s \in Write(q[r], force) : Becomes(r, s)
  /\ UNCHANGED <<package, ghost>>

Activate(r) ==
  /\ Running(r)
  /\ \E s \in Write(Dirty(q[r]), FALSE) : Becomes(r, s)
  /\ UNCHANGED <<package, ghost>>

\* updated: writes whatever doWrite_ says, and leaves it
Updated(r) ==
  /\ Running(r)
  /\ \E s \in GetSession(q[r]) :
       Becomes(r, IF s.session THEN Put(s) ELSE s)
  /\ UNCHANGED <<package, ghost>>

\* mutant: SysCache::destroy leaves the package
DestroyedInMemory == package

\* SysCache::destroy
Destroyed == None

\* nullify.  isEmpty says false when there is no user data, and wipe then
\* uses it.  Otherwise the session is destroyed, or, when the container
\* had none, closed.
Nullify(r) ==
  /\ Running(r)
  /\ \E s \in Read(q[r]) :
       IF s.data = Null
       THEN NullData(r, "nullify")
       ELSE LET w == IF s.data.roles = {} THEN s ELSE Wiped(s)
                e == [w EXCEPT !.session = FALSE, !.ended = TRUE] IN
            IF s.session /\ s.active
            THEN /\ logouts < MaxLogout
                 /\ logouts' = logouts + 1
                 /\ package' = Destroyed
                 /\ Becomes(r, [e EXCEPT !.active = FALSE, !.sess = Absent,
                                         !.linked = FALSE])
                 /\ late' = {x \in Request \ {r} : ~Idle(x)}
                 /\ revived' = FALSE
            ELSE /\ Becomes(r, Closed(e))
                 /\ UNCHANGED <<package, ghost>>
-----------------------------------------------------------------------------
(* The end of a request.                                                   *)

\* Run::shutdown closes the session unless it was ended or is empty
Saved(s) == s.active /\ ~s.ended /\ s.sess # Absent

\* Run::shutdown up to php_session_flush.  When the container has no
\* user_session the session stays open.
ShutdownSession(r) ==
  /\ Running(r)
  /\ LET s == [q[r] EXCEPT !.at = "caches"] IN
       \/ Becomes(r, IF Saved(s) THEN Closed(s) ELSE s)
       \/ s.active /\ Becomes(r, s)
  /\ UNCHANGED <<package, ghost>>

\* CacheMgr::flush_caches, the end of what a request does.
FlushCaches(r) ==
  /\ q[r].at = "caches"
  /\ Becomes(r, Gone("idle"))
  /\ package' = IF q[r].local # None THEN q[r].local ELSE package
  /\ revived' = (revived \/ (r \in late /\ q[r].local # None))
  /\ late' = late \ {r}
  /\ UNCHANGED logouts

\* The request ends without saving: it is killed, or the container fails in
\* Run::shutdown, which then returns.  PHP closes a session that is still
\* open only into the memory layer, and that is lost with the process.
Abort(r) ==
  /\ ~Idle(r)
  /\ Dies(r, "idle")

\* the package expires or the cache is cleared
Lose ==
  /\ package # None
  /\ package' = None
  /\ UNCHANGED <<q, ghost>>

Call(r) ==
  \/ Start(r) \/ ReadCall(r) \/ GuestSession(r) \/ Wipe(r)
  \/ DelayWrite(r) \/ Activate(r) \/ Updated(r) \/ Nullify(r)
  \/ \E call \in {"getUserData", "auth"} : GetUserData(r, call)
  \/ \E roles \in SUBSET Role : AddUserRoles(r, roles) \/ SetValidUser(r, roles)
  \/ \E v \in KeyValue \cup {NoKeys}, b \in BOOLEAN : SetKey(r, v, b)
  \/ \E b \in BOOLEAN : WriteCall(r, b)

Shutdown(r) == ShutdownSession(r) \/ FlushCaches(r) \/ Abort(r)

SessionNext == Lose \/ \E r \in Request : Begin(r) \/ Call(r) \/ Shutdown(r)

SessionSpec == SessionInit /\ [][SessionNext]_sessionVars
-----------------------------------------------------------------------------
SessionTypeOK ==
  /\ package \in Session \cup {None}
  /\ q \in [Request -> RequestState]
  /\ logouts \in Nat
  /\ late \subseteq Request
  /\ revived \in BOOLEAN

(* All a request changed since it read the session is in the package that  *)
(* it leaves in the cache when Run::shutdown has closed the session, in    *)
(* whatever order it read, wrote, saved or started the session.            *)
SavedIsHeld ==
  \A r \in Request :
    /\ q[r].at = "caches" /\ q[r].wasRead /\ ~q[r].ended /\ ~q[r].active
    => q[r].local = q[r].data

(* After a logout that destroyed the session no package of an earlier      *)
(* login is there, unless a request that was already running then has      *)
(* saved it since.                                                         *)
LogoutHolds ==
  ~revived /\ package \in UserData => package.login = logouts
=============================================================================
