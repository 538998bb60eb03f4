------------------------------ MODULE Services ------------------------------
(***************************************************************************)
(* The service container of wcc (services.cpp).  active_ holds services    *)
(* by name, defer_ what to activate when a missing one is asked for, and   *)
(* instances_ one object of each class.  A factory is a PHP closure: get   *)
(* calls it, and it may call the container again before it returns, so     *)
(* the activations in progress are a stack.  defer_ct_ is meant to bound   *)
(* their depth.                                                            *)
(***************************************************************************)
EXTENDS Integers, Sequences, FiniteSets

CONSTANTS
  Name,       \* names of services
  Class,      \* names of classes
  Factory,    \* closures
  Value,      \* values that are not callable, objects among them
  ClassOf,    \* [Value -> Class \cup {Null}]: the class of an object
  Null,       \* PHP null, also what a closure that threw leaves behind
  Absent,     \* no entry
  MaxStack,   \* bound on the closures that run at once
  MaxResets   \* bound on how often the count is reset

ASSUME ServicesAssumption ==
  /\ ClassOf \in [Value -> Class \cup {Null}]
  /\ Null \notin Class \cup Value \cup Factory
  /\ Absent \notin Value \cup Factory \cup {Null}
  /\ Value \cap Factory = {}
  /\ MaxStack \in Nat /\ MaxResets \in Nat

VARIABLES
  active,     \* active_
  defer,      \* defer_
  instances,  \* instances_
  throwFail,  \* throw_fail_
  deferCt,    \* defer_ct_
  stack,      \* the closures that are running: the name each is run for,
              \* and who called it
  ret,        \* what the last call of the container handed to its caller
  resets      \* ghost: how often defer_ct_ was reset

tables == <<defer, instances, throwFail>>
calls  == <<deferCt, stack, resets>>
servicesVars   == <<active, defer, instances, throwFail, deferCt, stack, ret, resets>>

Entry == Value \cup Factory \cup {Null}

\* activate ran the closure of defer_; get in activate ran the closure which
\* that one had returned; get ran a closure of active_.
Kind  == {"activate", "result", "direct"}
Frame == [name : Name, kind : Kind]

Top   == stack[Len(stack)]
Below == SubSeq(stack, 1, Len(stack) - 1)

\* Activations in progress: the nested frames of activate.
Activation == {i \in 1 .. Len(stack) : stack[i].kind # "direct"}
Depth      == Cardinality(Activation)

Error     == [ok |-> FALSE, value |-> Null]
Gives(v)  == [ok |-> TRUE, value |-> v]

ServicesInit ==
  /\ active = [n \in Name |-> Absent]
  /\ defer = [n \in Name |-> Absent]
  /\ instances = [c \in Class |-> Null]
  /\ throwFail = FALSE
  /\ deferCt = 0
  /\ stack = <<>>
  /\ ret = Gives(Null)
  /\ resets = 0
-----------------------------------------------------------------------------
(* get and activate, up to where a closure takes over.                     *)

Push(n, kind) ==
  /\ Len(stack) < MaxStack
  /\ stack' = Append(stack, [name |-> n, kind |-> kind])

GetActive(n) ==
  /\ active[n] # Absent
  /\ IF active[n] \in Factory
     THEN Push(n, "direct") /\ UNCHANGED ret
     ELSE ret' = Gives(active[n]) /\ UNCHANGED stack
  /\ UNCHANGED <<active, tables, deferCt, resets>>

GetMissing(n) ==
  /\ active[n] = Absent /\ defer[n] = Absent
  /\ ret' = IF throwFail THEN Error ELSE Gives(Null)
  /\ UNCHANGED <<active, tables, calls>>

\* mutant: the fifth nested activation is let through
TooDeepByOne == deferCt > 4

TooDeep == deferCt > 3

\* "recursed more than 3 times": the count starts again, though the
\* activations that were counted are still running
Recursed(n) ==
  /\ active[n] = Absent /\ defer[n] # Absent /\ TooDeep
  /\ resets < MaxResets
  /\ deferCt' = 0
  /\ ret' = Error
  /\ resets' = resets + 1
  /\ UNCHANGED <<active, tables, stack>>

\* A value is handed out as it is, and stays deferred.
Activate(n) ==
  /\ active[n] = Absent /\ defer[n] # Absent /\ ~TooDeep
  /\ IF defer[n] \in Factory
     THEN /\ Push(n, "activate")
          /\ deferCt' = deferCt + 1
          /\ UNCHANGED ret
     ELSE /\ ret' = Gives(defer[n])
          /\ UNCHANGED <<stack, deferCt>>
  /\ UNCHANGED <<active, tables, resets>>

Get(n) == GetActive(n) \/ GetMissing(n) \/ Recursed(n) \/ Activate(n)

(* The closure on top returns v, or throws: then its result is Null, and   *)
(* the error goes on to the closure below, which may catch it.             *)

\* mutant: the count is left alone when the closure threw
LeavesUnlessThrown(r) == deferCt' = IF r.ok THEN deferCt - 1 ELSE deferCt

Leaves(r) == deferCt' = deferCt - 1

\* get in activate finds what the closure returned, and calls it in turn
ReturnFactory(v) ==
  /\ stack # <<>> /\ Top.kind = "activate" /\ v \in Factory
  /\ active' = [active EXCEPT ![Top.name] = v]
  /\ stack' = [stack EXCEPT ![Len(stack)].kind = "result"]
  /\ UNCHANGED <<tables, deferCt, ret, resets>>

ReturnActivate(r) ==
  /\ stack # <<>> /\ Top.kind = "activate" /\ r.value \notin Factory
  /\ active' = [active EXCEPT ![Top.name] = r.value]
  /\ stack' = Below
  /\ Leaves(r)
  /\ ret' = r
  /\ UNCHANGED <<tables, resets>>

ReturnResult(r) ==
  /\ stack # <<>> /\ Top.kind = "result"
  /\ stack' = Below
  /\ Leaves(r)
  /\ ret' = r
  /\ UNCHANGED <<active, tables, resets>>

ReturnDirect(r) ==
  /\ stack # <<>> /\ Top.kind = "direct"
  /\ stack' = Below
  /\ ret' = r
  /\ UNCHANGED <<active, tables, deferCt, resets>>

Return(r) == ReturnActivate(r) \/ ReturnResult(r) \/ ReturnDirect(r)
-----------------------------------------------------------------------------
(* The other calls: by the script or by a closure that is running.         *)

Set(n, e) ==
  /\ active' = [active EXCEPT ![n] = e]
  /\ UNCHANGED <<tables, calls, ret>>

Unset(n) ==
  /\ active' = [active EXCEPT ![n] = Absent]
  /\ UNCHANGED <<tables, calls, ret>>

SetDefer(n, e) ==
  /\ defer' = [defer EXCEPT ![n] = e]
  /\ UNCHANGED <<active, instances, throwFail, calls, ret>>

SetThrowFail(b) ==
  /\ throwFail' = b
  /\ UNCHANGED <<active, defer, instances, calls, ret>>

ClearActive ==
  /\ active' = [n \in Name |-> Absent]
  /\ UNCHANGED <<tables, calls, ret>>

ClearDefer ==
  /\ defer' = [n \in Name |-> Absent]
  /\ UNCHANGED <<active, instances, throwFail, calls, ret>>

ClearObjects ==
  /\ instances' = [c \in Class |-> Null]
  /\ UNCHANGED <<active, defer, throwFail, calls, ret>>

SetObject(c, o) ==
  /\ instances' = [instances EXCEPT ![c] = o]
  /\ ret' = Gives(o)
  /\ UNCHANGED <<active, defer, throwFail, calls>>

Object(c) == {o \in Value : ClassOf[o] = c}

\* newInstance: an object of the class replaces the one there was; when none
\* can be made nothing is recorded.  Without an entry getOne does the same.
NewInstance(c) ==
  /\ \/ \E o \in Object(c) :
          /\ instances' = [instances EXCEPT ![c] = o]
          /\ ret' = Gives(o)
     \/ ret' = Error /\ UNCHANGED instances
  /\ UNCHANGED <<active, defer, throwFail, calls>>

GetOne(c) ==
  /\ instances[c] # Null
  /\ ret' = Gives(instances[c])
  /\ UNCHANGED <<active, tables, calls>>

\* singleton, when instances_ has the class
SingletonKnown(n, c) ==
  /\ instances[c] # Null
  /\ active' = [active EXCEPT ![n] = instances[c]]
  /\ ret' = Gives(instances[c])
  /\ UNCHANGED <<tables, calls>>

\* singleton, when only active_ has an object of the class
SingletonActive(n, c) ==
  /\ instances[c] = Null
  /\ active[n] \in Object(c)
  /\ instances' = [instances EXCEPT ![c] = active[n]]
  /\ ret' = Gives(active[n])
  /\ UNCHANGED <<active, defer, throwFail, calls>>

\* singleton, first time: the service is set even when no object was made
SingletonNew(n, c) ==
  /\ instances[c] = Null
  /\ active[n] \notin Object(c)
  /\ \/ \E o \in Object(c) :
          /\ instances' = [instances EXCEPT ![c] = o]
          /\ active' = [active EXCEPT ![n] = o]
          /\ ret' = Gives(o)
     \/ /\ active' = [active EXCEPT ![n] = Null]
        /\ ret' = Error
        /\ UNCHANGED instances
  /\ UNCHANGED <<defer, throwFail, calls>>

Singleton(n, c) ==
  SingletonKnown(n, c) \/ SingletonActive(n, c) \/ SingletonNew(n, c)

ServicesNext ==
  \/ \E n \in Name : Get(n) \/ Unset(n)
  \/ \E n \in Name, e \in Entry : Set(n, e) \/ SetDefer(n, e)
  \/ \E v \in Factory : ReturnFactory(v)
  \/ \E v \in Entry : Return(Gives(v))
  \/ Return(Error)
  \/ \E b \in BOOLEAN : SetThrowFail(b)
  \/ ClearActive \/ ClearDefer \/ ClearObjects
  \/ \E c \in Class, o \in Value : SetObject(c, o)
  \/ \E c \in Class : NewInstance(c) \/ GetOne(c)
  \/ \E n \in Name, c \in Class : Singleton(n, c)

ServicesSpec == ServicesInit /\ [][ServicesNext]_servicesVars
-----------------------------------------------------------------------------
ServicesTypeOK ==
  /\ active \in [Name -> Entry \cup {Absent}]
  /\ defer \in [Name -> Entry \cup {Absent}]
  /\ instances \in [Class -> Value \cup {Null}]
  /\ throwFail \in BOOLEAN
  /\ deferCt \in Int
  /\ stack \in Seq(Frame)
  /\ ret \in [ok : BOOLEAN, value : Entry]
  /\ resets \in Nat

(* Each reset of defer_ct_ makes it lag the activations in progress by     *)
(* four, for good: they still count down when they return or throw, in     *)
(* whatever order closures call the container again, publish and unset     *)
(* services, or catch errors.                                              *)
CountDrift == Depth = deferCt + 4 * resets

(* Until the first recursion error no more than four activations are       *)
(* nested.                                                                 *)
LimitUntilFailure == resets = 0 => Depth <= 4
=============================================================================
