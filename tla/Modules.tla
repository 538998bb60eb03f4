------------------------------- MODULE Modules -------------------------------
(***************************************************************************)
(* The modules of an application, as Assets (assets.cpp) loads them and    *)
(* makes one of them the active one, and as a Module (module.cpp) becomes  *)
(* active: setModule, addModule and activate call each other, for aliases, *)
(* bases and requirements, before any of them has ended.  A module loaded  *)
(* twice is two objects; only the last one is in modules_.  Of the data of *)
(* a module the model keeps what it requires, which addDefaults passes on. *)
(***************************************************************************)
EXTENDS Integers, Sequences, FiniteSets, Functions

CONSTANTS
  Name,       \* names of modules
  Default,    \* "default"
  Lists,      \* lists of names that a module may require
  Unset,      \* a module that says nothing of what it requires
  NoName,     \* no base, no call
  NoEntry,    \* a name that moduleCfg_ has nothing for
  Null,       \* a call returned no object and no error
  Error,      \* a call returned an error
  MaxDepth    \* calls that fit on the stack

Object == [name : Name, nth : Nat \ {0}]

ASSUME ModulesAssumption ==
  /\ IsFiniteSet(Name) /\ Default \in Name
  /\ Lists \subseteq Seq(Name) /\ Unset \notin Lists
  /\ NoName \notin Name
  /\ Null # Error /\ {Null, Error} \cap Object = {}
  /\ MaxDepth \in Nat /\ MaxDepth > 0

\* A "dir" names a directory, whose module.php may be missing or not return
\* an array; an "array" is the data itself, and fails when it is empty.
Entry ==
  {e \in [kind : {"dir", "array"}, makes : {"module", "error", "nothing"},
          base : Name \cup {NoName}, requires : Lists \cup {Unset}] :
     /\ e.makes # "module" => e.base = NoName /\ e.requires = Unset
     /\ e.kind = "array" => e.makes # "nothing"}

VARIABLES
  cfg,      \* moduleCfg_
  made,     \* for each name the objects made: what each says it requires
  current,  \* modules_: which of the objects of a name, 0 for none
  active,   \* activeModule_
  calls,    \* the nested calls
  ret,      \* what the last call to end returned
  again,    \* the name that Dispatch::dispatch has still to set once more
  crashed,  \* "stack" ran out, or a "null" pointer was used
  asked     \* ghost: the name that was last dispatched, and nothing since

vars == <<cfg, made, current, active, calls, ret, again, crashed, asked>>

Frame == [name : Name, at : {"set", "default", "alias", "added",
                             "add", "base", "requires"},
          obj : Object \cup {Null}, rest : Seq(Name)]

Call(n, at) == [name |-> n, at |-> at, obj |-> Null, rest |-> <<>>]
Obj(n)      == [name |-> n, nth |-> current[n]]
List(r)     == IF r = Unset THEN <<>> ELSE r

Running == calls # <<>>
Idle    == calls = <<>> /\ again = NoName /\ crashed = "no"
Top     == calls[Len(calls)]
Below   == SubSeq(calls, 1, Len(calls) - 1)
At(at)  == Running /\ Top.at = at
IsDir(n)   == cfg[n] # NoEntry /\ cfg[n].kind = "dir"
IsArray(n) == cfg[n] # NoEntry /\ cfg[n].kind = "array"

Init ==
  /\ cfg \in [Name -> Entry \cup {NoEntry}]
  /\ made = [n \in Name |-> <<>>]
  /\ current = [n \in Name |-> 0]
  /\ active = Null /\ calls = <<>> /\ ret = Null
  /\ again = NoName /\ crashed = "no" /\ asked = NoName

Return(v) == calls' = Below /\ ret' = v /\ UNCHANGED crashed

Crash(why) == calls' = <<>> /\ crashed' = why /\ UNCHANGED ret

\* The top call goes on as f, with a call of g above it.
Nest(f, g) ==
  IF Len(calls) < MaxDepth
  THEN calls' = Below \o <<f, g>> /\ UNCHANGED <<ret, crashed>>
  ELSE Crash("stack")

\* addDefaults, as far as it is about what a module requires
AddDefaults(o, from) ==
  made' = [made EXCEPT ![o.name][o.nth] =
             IF @ = Unset THEN made[from.name][from.nth] ELSE @]
-----------------------------------------------------------------------------
(* setModule.                                                              *)

SetLoaded ==
  /\ At("set") /\ current[Top.name] # 0
  /\ active' = Obj(Top.name)
  /\ Return(Obj(Top.name))
  /\ UNCHANGED <<cfg, made, current, again, asked>>

\* getDefaultModule, when the default has still to be loaded
SetDefault ==
  /\ At("set") /\ current[Top.name] = 0 /\ current[Default] = 0
  /\ IF cfg[Default] = NoEntry
     THEN Return(Error)
     ELSE Nest([Top EXCEPT !.at = "default"], Call(Default, "add"))
  /\ UNCHANGED <<cfg, made, current, active, again, asked>>

DefaultFails ==
  /\ At("default") /\ ret \in {Null, Error}
  /\ Return(ret)
  /\ UNCHANGED <<cfg, made, current, active, again, asked>>

HaveDefault ==
  \/ At("set") /\ current[Top.name] = 0 /\ current[Default] # 0
  \/ At("default") /\ ret \notin {Null, Error}

\* What addModule returns is returned: the module is not made active.
SetDir ==
  /\ HaveDefault /\ IsDir(Top.name) /\ Top.name # Default
  /\ calls' = Append(Below, Call(Top.name, "add"))
  /\ UNCHANGED <<cfg, made, current, active, ret, again, crashed, asked>>

\* A name without an entry stands for the default module.
SetOther ==
  /\ HaveDefault /\ ~IsArray(Top.name)
  /\ Top.name = Default \/ ~IsDir(Top.name)
  /\ active' = Obj(Default)
  /\ Return(Obj(Default))
  /\ UNCHANGED <<cfg, made, current, again, asked>>

AddWith(mdef) == Nest([Top EXCEPT !.at = "added", !.obj = mdef],
                      Call(Top.name, "add"))

SetArray ==
  /\ HaveDefault /\ IsArray(Top.name)
  /\ IF cfg[Top.name].base = NoName
     THEN AddWith(Obj(Default))
     ELSE Nest([Top EXCEPT !.at = "alias"], Call(cfg[Top.name].base, "set"))
  /\ UNCHANGED <<cfg, made, current, active, again, asked>>

SetAliased ==
  /\ At("alias")
  /\ IF ret = Error THEN Return(Error) ELSE AddWith(ret)
  /\ UNCHANGED <<cfg, made, current, active, again, asked>>

SetAdded ==
  /\ At("added")
  /\ \/ /\ ret \in {Null, Error}
        /\ Return(ret)
        /\ UNCHANGED <<made, active>>
     \/ /\ ret \notin {Null, Error} /\ Top.obj = Null
        /\ Crash("null")
        /\ UNCHANGED <<made, active>>
     \/ /\ ret \notin {Null, Error} /\ Top.obj # Null
        /\ AddDefaults(ret, Top.obj)
        /\ active' = ret
        /\ Return(ret)
  /\ UNCHANGED <<cfg, current, again, asked>>
-----------------------------------------------------------------------------
(* addModule, and the activate it calls.                                   *)

Fails(n) == IF cfg[n].makes = "error" THEN Error ELSE Null

AddFails ==
  /\ At("add") /\ cfg[Top.name].makes # "module"
  /\ Return(Fails(Top.name))
  /\ UNCHANGED <<cfg, made, current, active, again, asked>>

\* mutant: only the default module is put into modules_ before it is active
PutDefault(n, k) ==
  IF n = Default THEN current' = [current EXCEPT ![n] = k]
                 ELSE UNCHANGED current

\* The object is in modules_ before it is active: a module that requires it
\* in turn finds it.
Put(n, k) == current' = [current EXCEPT ![n] = k]

AddMakes ==
  /\ At("add") /\ cfg[Top.name].makes = "module"
  /\ LET n == Top.name
         e == cfg[n]
         k == Len(made[n]) + 1
         f == [Top EXCEPT !.obj = [name |-> n, nth |-> k]]
     IN /\ made' = [made EXCEPT ![n] = Append(@, e.requires)]
        /\ Put(n, k)
        /\ IF e.base \in {NoName, Default}
           THEN /\ calls' = Append(Below, [f EXCEPT !.at = "requires",
                                                    !.rest = List(e.requires)])
                /\ UNCHANGED <<ret, crashed>>
           ELSE Nest([f EXCEPT !.at = "base"], Call(e.base, "set"))
  /\ UNCHANGED <<cfg, active, again, asked>>

\* When the base fails, activate ends before it looks at what is required,
\* and addModule does not look at what activate returns.
BaseDone ==
  /\ At("base")
  /\ \/ /\ ret = Error
        /\ Return(Top.obj)
        /\ UNCHANGED made
     \/ /\ ret = Null
        /\ Crash("null")
        /\ UNCHANGED made
     \/ /\ ret \notin {Null, Error}
        /\ AddDefaults(Top.obj, ret)
        /\ calls' = Append(Below, [Top EXCEPT !.at = "requires",
                             !.rest = List(made'[Top.name][Top.obj.nth])])
        /\ UNCHANGED <<ret, crashed>>
  /\ UNCHANGED <<cfg, current, active, again, asked>>

\* mutant: the first requirement is looked at for ever
Stays(rest) == rest

Onward(rest) == Tail(rest)

\* mutant: a requirement that fails ends the list
RequireStops ==
  /\ At("requires") /\ Top.rest # <<>>
  /\ IF ret = Error
     THEN /\ calls' = [calls EXCEPT ![Len(calls)].rest = <<>>]
          /\ UNCHANGED <<ret, crashed>>
     ELSE Nest([Top EXCEPT !.rest = Onward(@)], Call(Head(Top.rest), "set"))
  /\ UNCHANGED <<cfg, made, current, active, again, asked>>

\* What setModule returns of a requirement is not looked at.
Require ==
  /\ At("requires") /\ Top.rest # <<>>
  /\ Nest([Top EXCEPT !.rest = Onward(@)], Call(Head(Top.rest), "set"))
  /\ UNCHANGED <<cfg, made, current, active, again, asked>>

AddDone ==
  /\ At("requires") /\ Top.rest = <<>>
  /\ Return(Top.obj)
  /\ UNCHANGED <<cfg, made, current, active, again, asked>>
-----------------------------------------------------------------------------
(* Who calls.                                                              *)

\* A script, or Dispatch::action
SetModule(n) ==
  /\ Idle
  /\ calls' = <<Call(n, "set")>> /\ ret' = Null /\ asked' = NoName
  /\ UNCHANGED <<cfg, made, current, active, again, crashed>>

\* mutant: the module is set by prepare_call alone
Once(n) == NoName

Twice(n) == n

\* Dispatch::dispatch: prepare_call sets the module and does not look at
\* what it gets, then dispatch sets it again.
Dispatch(n) ==
  /\ Idle
  /\ calls' = <<Call(n, "set")>> /\ ret' = Null
  /\ again' = Twice(n) /\ asked' = n
  /\ UNCHANGED <<cfg, made, current, active, crashed>>

SetAgain ==
  /\ calls = <<>> /\ crashed = "no" /\ again # NoName
  /\ calls' = <<Call(again, "set")>> /\ ret' = Null /\ again' = NoName
  /\ UNCHANGED <<cfg, made, current, active, crashed, asked>>

\* The next request has an Assets of its own.
NewRequest ==
  /\ Idle \/ crashed # "no"
  /\ made' = [n \in Name |-> <<>>]
  /\ current' = [n \in Name |-> 0]
  /\ active' = Null /\ calls' = <<>> /\ ret' = Null
  /\ again' = NoName /\ crashed' = "no" /\ asked' = NoName
  /\ UNCHANGED cfg

Step ==
  \/ SetLoaded \/ SetDefault \/ DefaultFails \/ SetDir \/ SetOther
  \/ SetArray \/ SetAliased \/ SetAdded
  \/ AddFails \/ AddMakes \/ BaseDone \/ Require \/ AddDone
  \/ SetAgain

Next ==
  \/ Step
  \/ \E n \in Name : SetModule(n) \/ Dispatch(n)
  \/ NewRequest

\* A call runs on its own thread, to its end: no step waits for anything.
Spec == Init /\ [][Next]_vars /\ WF_vars(Step)
-----------------------------------------------------------------------------
TypeOK ==
  /\ cfg \in [Name -> Entry \cup {NoEntry}]
  /\ made \in [Name -> Seq(Lists \cup {Unset})]
  /\ current \in [Name -> Nat]
  /\ \A n \in Name : current[n] <= Len(made[n])
  /\ active \in Object \cup {Null}
  /\ calls \in Seq(Frame)
  /\ ret \in Object \cup {Null, Error}
  /\ again \in Name \cup {NoName}
  /\ crashed \in {"no", "stack", "null"}
  /\ asked \in Name \cup {NoName}

(* A handler that dispatch runs has its own module active, and the object  *)
(* of it that getModule gives, when there is one.                          *)
DispatchedIsActive ==
  Idle /\ asked # NoName /\ current[asked] # 0 => active = Obj(asked)

\* Modules that can be loaded: no alias on the way fails.
Usable == {S \in SUBSET Name :
             \A n \in S : /\ cfg[n] # NoEntry /\ cfg[n].makes = "module"
                          /\ cfg[n].kind = "array" =>
                               \/ cfg[n].base \in S \cup {NoName, Default}
                               \/ cfg[cfg[n].base] = NoEntry}

(* What a loaded module requires is loaded too, whatever else it requires  *)
(* that cannot be, unless its base failed.                                 *)
RequiredAreLoaded ==
  Idle => \A n \in Name, S \in Usable :
    current[n] # 0 /\ cfg[n].base \in {NoName, Default} \cup S =>
      \A r \in Range(List(cfg[n].requires)) \cap S : current[r] # 0

\* Array modules that name each other as alias, in a circle.
AliasCircle == \E C \in SUBSET (Name \ {Default}) :
  C # {} /\ \A n \in C : IsArray(n) /\ cfg[n].base \in C

\* A module whose alias or base is a file that does not return an array.
NullBase == \E n, b \in Name :
  /\ cfg[n] # NoEntry /\ cfg[n].base = b
  /\ cfg[b] # NoEntry /\ cfg[b].makes = "nothing"

(* The process ends only for a cause: the calls run out of stack on a      *)
(* circle of aliases, while requirements and bases may go in circles, and  *)
(* a null object is used for a module whose alias or base gives neither an *)
(* object nor an error.                                                    *)
CrashHasCause ==
  /\ crashed = "stack" => AliasCircle
  /\ crashed = "null" => NullBase

Uses(n) == IF cfg[n] = NoEntry THEN {}
           ELSE ({cfg[n].base} \cap Name)
                  \cup Range(List(cfg[n].requires))

(* A module is made once, unless it or the default module comes back to it *)
(* through bases and requirements, or it is the default, given as an array.*)
MadeOnce ==
  \A n \in Name :
    (\E S \in SUBSET Name :
       /\ Uses(n) \cup Uses(Default) \subseteq S
       /\ \A m \in S : Uses(m) \subseteq S
       /\ n \notin S
       /\ ~(n = Default /\ IsArray(n)))
    => Len(made[n]) <= 1

(* A call comes to its end when no aliases form a circle.                  *)
SetEnds == (Running /\ ~AliasCircle) ~> ~Running
=============================================================================
