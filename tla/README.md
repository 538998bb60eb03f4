# Verification of zpp-cpp

zpp-cpp is a PHP extension in C++: a layer of value handles over the Zend
engine (`src/src/zpp`) and on it the classes of a web framework: services,
caches, sessions, routes, responses, templates (`src/src/wcc`), a database
layer (`src/src/wcd`) and readers for XML and TOML (`src/src/wcx`,
`src/src/toml`).  One worker process runs one request at a time, in one thread.
What makes the system hard is what crosses these limits: several workers share
a directory of cache files without a lock, several requests share a session,
and PHP closures call back into the object that is calling them.

## The parts of the system

| part | state | operations | what is hard |
|---|---|---|---|
| File cache (`dircache`, `icache`, `icachedata`) | `cached_` per worker; the directory of package files; the clock | `set`, `setCached`, `get`, `getCached`, `deleteKey`, `deleteExpired`, `clear`, `flushCached` | workers interleave between any two system calls; crashes; packages expire |
| Service container (`services`) | `active_`, `defer_`, `instances_`, `defer_ct_` | `get`, `set`, `setDefer`, `singleton`, `newInstance`, ... | closures call the container again, throw, and catch its errors |
| User session (`usersession`, `userdata`, `isession`, `syscache`) | `data_` and its flags per request; `$_SESSION`; the session's package in a file cache | `read`, `write`, `setValidUser`, `addUserRoles`, `nullify`, ... | requests of one session overlap, the save handler takes no lock; services fail |
| Request life cycle (`run`) | what is open at the end of a request | `shutdown` | it returns early when a service is missing |
| Cache manager (`cachemgr`) | `cache_obj_`: the caches by name; a package for each source file | `createCache`, `readCache`, `deleteExpired`, `flush_caches` | a cached file changes while it is read and while its package is written |
| Routing, dispatch, response (`route*`, `target`, `dispatch`, `global_response`) | route tables; the route and target of a request; headers and content | match, prepare, dispatch, forward, send | handlers that forward and dispatch inside each other; what a call leaves in objects that are used again |
| Page assets and modules (`assets`, `module`) | definitions, the order and marks of a page; modules by name and the active one | `add`, `markAdd`, `unmark`, `cssHeader`; `setModule`, `addModule`, `activate` | recursion through requirements, aliases and bases; files that fail on the way |
| Templates (`plate`, `plate_engine`, `htmlplates`) | levels of a view, plates by name, sections, output buffers | start, stop, insert, render | nested renders share plates by name; unwinding when a template throws |
| Configuration and loading (`config`, `hmap`, `loader`, `finder`, ...) | tables | read, merge, find | order only |
| Value handles (`zpp/htab_*`, `obj_*`, `str_*`, `val_*`) | the table a handle, a value or a writer has, reference counts | assign, move, make a reference, separate for writing | who shares a table when it is written; the count that goes with a move |
| Calls and errors (`zpp/fn_call`, `bireturn`, `zarg_rd`) | the last PHP exception, per thread; errors per result | call, `has_errors`, `throw_errors` | which call an exception is charged to |
| Database connection (`iserver`, `idriver`, `pdodriver`, `pgsqlfn`, `runsql`) | connections by name; the driver's handle and flags; the server's transaction | connect, prepare, execute, begin, commit, rollback | statements, connections and commits fail; the error of one call is taken for another's |
| SQL building, models (`isql`, `bindings`, `model`, ...) | parts of a statement; fields of a row and the old values | build, bind, save, delete, import | numbering of bindings; stale rows; an import that fails half-way |
| XML and TOML readers | a stack of tags | parse | nesting |

The parts meet like this.  `Run` builds the container; everything else is
looked up there by name.  `UserSession` asks it for `ISession`, which starts
PHP's session; PHP calls the save handler `SysCache`, which keeps the session
as a package of a file cache.  `Dispatch` asks `RouteMatch` for a route, loads
its module through `Assets`, calls the handler's object and has `Response` send
what it gave, which is often a view that `HtmlPlates` renders.  At the end of a request `Run::shutdown` closes
the session, which puts the package into the memory layer of the cache, and
then has the cache manager flush the caches to their files.

`PROJECT.json` lists every part with its sources, and the hazards of the code
with the line where each bites.  Where the code itself does
what a hazard says, no property excludes it: the hazard's note says so, and the
comment of the property nearest to it names the exception.

## The modules

| module | what it is |
|---|---|
| `DirCache` | the file cache, one action per system call, any number of workers |
| `VersionedStore` | what the directory promises for keys with one writer; `DirCache` implements it |
| `MCDirCache` | instances for TLC |
| `DirCacheProofs` | proofs about `DirCache` |
| `Services` | the service container; proofs in `TransactionsProofs` |
| `UserSession`, `MCUserSession` | a session and the requests that use it, to the end of `Run::shutdown`; proofs in `RequestsProofs` |
| `Transactions`, `TransactionsProofs` | a database driver and its transactions under a script, with the CSV import of a model |
| `PageAssets`, `MCPageAssets`, `PageAssetsProofs` | the assets of a page and the recursion of `add` |
| `Modules`, `MCModules`, `ModulesProofs` | `Assets` and `Module` loading each other |
| `Requests`, `MCRequests`, `RequestsProofs` | a request: `RouteMatch`, `Dispatch` and `Response` under handlers |
| `SourceCache`, `MCSourceCache`, `SourceCacheProofs` | `CacheMgr::readCache` and `Dispatch::loadRoutes`: packages of a file that is edited, over the promise of `DirCache` |
| `Rows`, `MCRows` | rows of a model in the hands of several requests, and the table; proofs in `PlatesProofs` |
| `Plates`, `MCPlates`, `PlatesProofs` | views, plates, sections and output buffers |
| `Handles`, `MCHandles` | handles of PHP arrays, values and references, their counts, and writers; proofs in `PageAssetsProofs` |
| `OwnValues` | what handles promise: everybody's array is his own; `Handles` implements it |
| `Routes`, `RoutesProofs` | the patterns of routes, their groups and names, and the search for the route of a request |
| `MCScripts` | an instance of the container, the driver and the routes in turn |

### DirCache

`local` is `cached_`; `entry`, `file` and `dirs` are the directory (a file is
an inode, so that a reader or writer keeps a file that was unlinked); `pc`,
`key`, `job`, `fd`, `buf`, `clk`, `todo` and `hit` are the local variables of
the call a worker is in.  `Set` to `WriteBody` are `DirCache::set` and
`writePkg`; `FlushStart` to `FlushEnd` are `flushCached`; `GetCached` to `Got`
are `getCached`; then `deleteKey`, `deleteExpired` and `clear` (through
`Dos::rm_alldir`).  A file is three records, the expiry line, the length line
and the package, because `writePkg` writes three times; PHP flushes its write
buffer after each write and reads through a buffer, which `ReadExpiry` and
`ReadLength` follow.  `Crash` ends a worker between any two calls.

A package is named by a number.  `last`, `valid`, `olds`, `base` and `over` are
history variables: they say what a read might return if the directory were a
regular register.

- `FileWhole`: a complete file carries one package in its three records.  It
  needs a single writer per key: with two, each filling the same inode, the
  records mix, and nothing in the code prevents it.
- `ReadIsRegular`: a read returns what was on disk when it began or what was
  being written meanwhile.  It holds for any number of writers.
- `NoExpiredRead`: what was on disk before the read is returned only if it has
  not expired (one writer).  A package written during the read may have
  expired, when the read spans the whole write.
- `NeverGoesBack`: the refinement of `VersionedStore`: files lose packages
  (crashes, failed `mkdir`, deletions) but never go back to an older one.

### Services

`active`, `defer`, `instances`, `throwFail` and `deferCt` are the members of
the class.  `stack` holds the closures the container is calling, with the
place it called them from: `activate`, the call of what a closure returned, or
`get` on a closure of `active_`.  While a closure runs, any operation may
happen, by the closure; when it ends it returns a value or throws.

`activate` counts in `defer_ct_` and refuses a fifth nested activation, but it
resets the counter to 0 and the activations that are running still count down.
`CountDrift` says exactly how the counter and the depth relate,
`LimitUntilFailure` what the limit is worth before it is first hit.
Afterwards it is not kept: every reset lets as many more nest as were running.

### UserSession

`q[r]` is what request `r` holds: the members of `UserSession`, `$_SESSION` and
the memory layer of its cache.  PHP shares objects by handle; `linked` says
whether `data_` is the object in `$_SESSION`.  One action is one call of a
public method from a script (nothing of another request can come between,
except for the package, which is read when the session starts and written in
`FlushCaches`).  Each method is followed through `getSession`, `read`,
`ISession::start` and `SysCache::read`, and each place where the container or
PHP may refuse is a choice.  `ShutdownSession` and `FlushCaches` are
`Run::shutdown`; `Abort` is a request that ends before.

- `SavedIsHeld`: what a request holds after it read the session is what
  `Run::shutdown` leaves in the cache.
- `LogoutHolds`: a logout that destroyed the session is not undone, except by a
  request that was already running.

`read` drops the user data before it starts the session; when the start fails
`getUserData` goes on with a null object, which the model ends the request at.

### Transactions

One script, one driver object; an action is a call of the script from entry to
return.  `kind` is the driver's class (`PdoDriver` or `Pgsqlfn`), `handle` and
`inTransaction` are its members, `waiting` is
`error_return::had_zend_exception`, which the exception hook sets for every PHP
exception and which the next `has_errors` or `throw_errors` of any result uses
up.  `CallLost` is a call that meets such an exception, or no connection;
`CallReaches` one that gets as far as the server.  `server` is the session at
the server, external: it is modelled by the answers the drivers' code
distinguishes.  `RunSql` runs a statement for each of a list of values and stops
at the first that fails; `Execute` is a statement the script prepared itself;
`ImportLost` to `ImportNotCommitted` are the ways through
`Model::importFromCSV`.  `script` is what a script knows of its unit of work
from the answers it got, `promised` and `denied` what it may conclude of its
rows; these three are history variables.

- `OpenIsMine`: the server has a transaction open exactly when the answers say
  so, and it holds the script's rows and no others.  The exception, marked
  `astray`, is an import that leaves its transaction open or, with Pgsqlfn,
  commits the one the script had open; it lasts until a transaction is next
  ended.
- `Kept`: rows told to be stored stay stored, and rows told to be rolled back,
  or open when the connection was closed, never become visible.  No promise is
  made for a unit in which a statement failed, for one that is astray, nor for
  the rows of an import that noticed no failure.
After an exception that the script threw and caught, the next call, a
`rollback` as well, may do nothing and say so to nobody (`CallLost`).  An import that throws leaves its transaction open with the rows it had stored,
and with Pgsqlfn one may report success for rows the server dropped; both are
in the model (`ImportStops`, `ImportEnds`) and make the unit `astray`.

### PageAssets

`assets`, `order`, `mark` and `locked` are `assets_`, `order_`, `mark_` and
`render_lock_`.  `adding` is the stack of nested `add` calls, each with the
names it has still to do; a step of `markAdd` looks at one name, and either
skips it, goes into what it requires, or marks it after that.  Definitions may
change and marks be taken out between calls.

- `OnceEach`: what a page gets has no duplicates and is what is marked, however
  requirements meet.
- `RequiresFirst`: an asset stands after all it requires, unless (ghost
  `exact`) one was unknown, taken out or defined anew.
- `NothingAfterHead`: nothing joins a page after its styles have been written.
- `NoRunaway`, `AddEnds`: the recursion leaves the stack only for a circle of
  requirements, and without one every call ends.

### Modules

`cfg` is `moduleCfg_`, `current` is `modules_`, `made` every object ever made
of a name (a module loaded twice is two objects), `active` is `activeModule_`.
`calls` is the stack of `setModule`, `addModule` and `activate` with the point
each has reached; errors, null results and a stack that runs out are outcomes.

- `DispatchedIsActive`: after a dispatch the module of the route is active.
  The second `setModule` of `Dispatch::dispatch` is what makes this true for a
  directory module that had still to be loaded; `Dispatch::action` makes no
  second call, and the property is not stated of it.
- `RequiredAreLoaded`: what a loaded module requires is loaded, though other
  requirements may have failed on the way.
- `CrashHasCause`, `MadeOnce`, `SetEnds`: no crash, no second object and no
  call without end, but for the circles and files that cause them.

### Requests

`rm` is the `RouteMatch`, `resp` the `Response`, `calls` the handlers that run,
each inside the one before, in `beforeCall` or in the method.  A handler may
forward, dispatch again, write, send, or throw.  `table` is what the routes of
the site say, in the four forms a target has; `bound` remembers the routes whose
`params_` hold values since `prepare_call` overwrote their positions.

- `RunsItsRoute`: whatever the `RouteMatch` held before, a dispatch runs its
  own route's class and, unless `beforeCall` forwarded, its method.
- `RolesHold`: a route that asks for roles is dispatched only for a user with
  them (the list form of a target cannot ask).
- `OneBody`: one body goes out however handlers nest, unless a script calls
  `send()` again on a response that was sent.
- `EndsInAnswer`: a call that ends well leaves nothing of its response behind:
  with content a body has gone out, with a status headers, unless the headers
  were kept back.  It does not say that anything went out.  `respond` means to
  refuse null on a response with neither ("No response status",
  `dispatch.cpp:821`), but what `getStatusCode` returns is a `val_rc`, whose
  conversion to a pointer (`val_rc.h:61`) is never null: the test of
  `dispatch.cpp:815` always holds, that line is never reached, and such a call
  ends well with nothing sent.  The model has it so.

### SourceCache

The cached file has a version, a modification time and may be missing; `disk`
is the package, `q[w]` the request of a worker with its memory layer and the
step it is at: read the package, look at the file's time, read the file, stamp,
write, flush.  `file`, `disk` and `now` change between any two of these.  The
comparison allows the file to be three seconds younger than its package
(`Slack`).  A read or write of the disk is one step: that is what `DirCache`'s
`ReadIsRegular` permits.

- `BoundedStaleness`: an old version is given out for at most the lifetime of a
  package and the time of two requests after the file changed.
- `StaleHasCause`: a request that began after a change gets the old version
  only from a package stamped after the change or at most `Slack` before it.
  Stamping is late: at the flush for a deferred package, so a file that changes
  between the read and the flush is not noticed until the package expires.
- `OwnNotOlder`: with the memory layer a request never goes back behind the
  version it keeps.

### Rows

`row[r].data` and `.orig` are `data_` and `original_` of an `IRow`, `table` is
the database's table.  Actions are the calls of a request on its row: make,
assign, remove, find, insert, update, delete, refresh, `setExists`; other
requests act between a save and the reload that may follow it.

- `BeliefIsTrue`: what a row takes the table to hold is what it holds, unless
  another request wrote it, the row was deleted or got another key, or a script
  declared it saved (`doubt`).
- `OnlyWhatWasGiven`: no save writes a column that its script did not assign,
  nor another row of the table, so requests that change different columns of
  one row do not undo each other.

### Plates

`levels` is `levels_` of each `HtmlPlates`, `plate` the plates made, `stored`
the engine's `stored_`, `ob` PHP's stack of output buffers, `stack` the renders
in progress.  A text is the sequence of the templates that printed it.  A
template is PHP: it may print, insert, render a view, set its layout, open and
close sections and style blocks, throw, and catch what an inserted one throws.
`Wrap` gives the content to the layout, `Clean` is `clearPlates`, after which a
plate that is still rendering has no engine; using it ends the process.

- `LevelsInOrder`: a page consists of the levels asked for, each around the one
  before it.  Views remember the levels of earlier renders
  (`htmlplates.cpp:143`), so those are part of it.  What a site does to break
  it is in the ghost `odd`: a name used twice, a view rendered inside another,
  a layout set anew or without its content, a template that inserts a level of
  its page: that shows the innermost level twice, and any other from the
  level's own plate, with its layout.
- `SectionIsOwn`: a section holds what its template printed in it, whatever was
  inserted meanwhile and whatever threw, as long as blocks are closed.

`stop` does not forget the section's name (`plate.cpp:383-410`), so a plate has
one section at most: a second `start` throws "Sections cannot be nested"
(`plate.cpp:419`) though none is open, `push` never finds anything to append
to, and a stray `stop` takes the buffer of the render around it.

### Routes

`object` has the fields of each `Route`, `fixed` and `vary` are the tables of
`RouteSet`, a sequence of groups in the order of their keys, `index` is
`nameIndex_`, `match` a `RouteMatch`.  `AddRoute`, `AddRoutes`, `Compile` and
`GetRoute` are the calls of a script on the set, `FindRoute`, `PrepareCall` and
`SetRoute` those on the match; `NextRequest` serializes the set and reads it in
a new request.  A path is the sequence of its words, so a regular expression
`([^/]*)` matches one word.  `added`, `indexed`, `spent` and `moved` are history
variables.

- `FindsTheFirst`: a search gives the route that the order of the additions
  says, whether the set was built by this request or read.
- `ArgsStandWhereDeclared`: the arguments of a route that was found are the
  words of the URI that stand where the script declared them, under any prefix.
- `RefusedHasCause`: a route that was found is refused its arguments only if a
  match has overwritten its positions (`route_match.cpp:825`), in an earlier
  request as well when the set was stored after that, or if two of its
  parameters have one name.
- `MissingNameIsLater`: a name is missing only if its route was added after the
  index was made (`route_set.cpp:252`).
- `UrlLeadsBack`: the URL of a route leads back to the set and gives back the
  value put into it.  It is stated of at most one hole.  A hole (`Holes`) is a
  parameter whose name `routeUrl` knows (`Fillable`: a letter, then letters,
  digits and `_`, `route.cpp:391`).  `compile` also takes names with `-` or `.`
  and names that start with `_` or a digit (`route_set.cpp:73`); these stay in
  the URL as they stand in the pattern, and their value is lost.  With two holes
  `preg.cpp:341` puts out the rest of the pattern after each of them.  It needs
  that nobody compiled the route again, since a pattern is compiled into itself
  and gets the prefix twice.

### Handles

`holds` is `ht_` of each `htab_rc`, `zv_` of each `val_rc` and the value in each
PHP reference; `count` is the reference count of a table or reference, 0 when
its address is free, and `body` what is in a table; `at` is `ht_` of each
`htab_cow`.  One action is one constructor, assignment or method: those of
`htab_rc` (`AssignHandle` to `Duplicate`), those of `val_rc` (`AssignVal` to
`MakeRef`), a writer made of a handle or value, which gives its owner a table
with one holder (`Separate`), and a write through it.  The three calls of
`Separate` differ in whose table it is; `LendReference` is a writer made of a
value that is a PHP reference.

- `CountsHold`: a count is the number of those who hold the table or reference,
  so none is freed in use and none is left behind.
- `ValuesAreOwn`: the refinement of `OwnValues`, where nothing is shared but what
  PHP references share, and a writer writes where it was lent and nowhere else.
- `LentIsSole`, which the code does not keep: `htab_cow.h:26` says that the table
  of a writer has a reference count of 1, but `htab_cow.cxx:98-105` takes the
  table of a reference as it is.  If a handle holds it too, a write changes both.

Some uses have no promise.  The ghost `odd` names them, and the model does the
step and ends there: a counted value or handle assigned to itself, which is lost
(`"self"`); a handle assigned the pointer of a table only it holds, or a value
that drops the last count of a reference, which `try_decref` lowers again after
it was freed (`"freed"`); a table moved out of a reference, which stays in it
uncounted (`"taken"`); a writer of a reference whose table is shared, or is none
(`"reference"`); and a writer used after its owner has got another table or has
shared it (`"late"`).  The last needs history: `from` is whom a writer was lent
from and `fresh` whether nothing has changed about who holds its table.

## The runs

Fairness is assumed where a call consists of steps that the code takes on its
own: `PageAssets` and `Modules` have weak fairness on `Step`, a step of the
nested calls of `add` and of `setModule`.  Such a call runs on one thread, waits
for nobody and nothing, and PHP gives it the processor until it ends.  What a
script, a request or the environment does next is never assumed to happen, so
the other modules have no fairness and no liveness property.

| run | bounds | shows |
|---|---|---|
| `dircache_sole` | 2 workers, a plain key and a session key with one writer each, 2 packages, ttl 1, clock to 2 | `TypeOK`, `FileWhole`, `NoExpiredRead`, `NeverGoesBack` |
| `dircache_shared` | 2 workers writing one key, with and without the memory layer, ttl 1 or 2, 2 packages | `ReadIsRegular` |
| `scripts`, the container | 1 name, 1 class, 1 closure, 1 object, stack of 6, 2 resets | `CountDrift`, `LimitUntilFailure` |
| `scripts`, the driver | both drivers, 5 rows, at most 2 in a statement or a file | `OpenIsMine`, `Kept` |
| `scripts`, the routes | 5 routes, 1 prefix, 3 additions in any order, each route once, 2 things to ask for, 2 requests | `ArgsStandWhereDeclared`, `MissingNameIsLater`, `UrlLeadsBack`, `RefusedHasCause`, `FindsTheFirst` |
| `usersession` | 2 requests, 1 role, 1 logout | `SavedIsHeld`, `LogoutHolds` |
| `assets` | 3 assets, each with any 2 requirements in any order, a stack of 3 | `OnceEach`, `RequiresFirst`, `NothingAfterHead`, `NoRunaway`, `AddEnds` |
| `modules` | the default and 2 more modules, any kind, alias or base, 1 list of requirements or none, files that fail, a stack of 9 | `DispatchedIsActive`, `RequiredAreLoaded`, `CrashHasCause`, `MadeOnce`, `SetEnds` |
| `requests` | 2 routes in 3 pairs of forms, 2 classes, 2 methods, 2 handlers inside each other | `OneBody`, `EndsInAnswer`, `RunsItsRoute`, `RolesHold` |
| `caches` | 2 requests, 2 versions, clock to 3, slack 1, requests of at most 1 second, 5 settings of the options | `BoundedStaleness`, `StaleHasCause`, `OwnNotOlder` |
| `rows` | 2 requests, 2 keys, 2 columns, 1 value and NULL, 2 changes before a save | `BeliefIsTrue`, `OnlyWhatWasGiven` |
| `plates` | 2 views, 2 templates and one without a file, 1 section, 4 calls, 4 plates, renders 5 deep | `LevelsInOrder`, `SectionIsOwn` |
| `handles` | 2 handles, 2 values, 2 writers, 2 tables, 1 reference, 2 contents | `HandlesTypeOK`, `CountsHold`, `ValuesAreOwn` |
| `handles_doc` | the same | that `LentIsSole` is violated, in four calls |

The run `scripts` is about three parts.  They share no variable, so each reaches
the same states whether the others move or rest, and a behaviour is about one of
them (`subject`); an exception thrown in one reaches the driver as `Throws`.

Where a type invariant is proved for every instance (see below), a run does not
check it again, except for `DirCache` and `Handles`.
Deadlock is checked, except in `plates`, whose calls are counted, and in the two
runs of `Handles`, which end once `odd` is not empty.

Why the bounds suffice.  In the file cache the hazards are about two calls on
one key: two workers give every pair of a reader, writer, scan, clear and
crash, the second key is there for `clear` and the scan, which go through a
list, and two packages are an old one and a new one; three inodes are one more
than can be in use on one key.  In the container the count does not depend on
names: one name is enough to nest, a stack of six passes the limit, and two
resets show the drift add up.  In the session two requests are the one that
logs in or out and the one that comes late; roles already tell contents apart,
so scripts' keys are left empty.  In the transactions only the number of rows
is bounded: five rows in statements of one or two give a unit with a statement
that fails half-way, an import inside or before it, and rows outside any unit
after it; calls that store nothing are not bounded.  Three assets
have every shape of two requirements, chains, diamonds and circles of one, two
and three; a stack of as many calls as there are assets is the most a call
without a circle needs.  Two modules beside the default have every circle of
aliases, bases and requirements, alone and through the default; nine calls are
more than they nest without a circle of aliases.  Two routes tell a stale target from a fresh one,
and two handlers are one inside the other.  Two versions are the file before and after
a change; three seconds are longer than the short lifetime and the slack and
shorter than the long lifetime, so a package may or may not outlive a change.
Two requests on a row are the one that reads and the one that writes meanwhile;
the second column is the one the other request changes, the second key the row
it must not touch.  Four calls of a page reach every action of `Plates`: a view
with two levels, a section with an insert inside it, a view inside a view.
The five routes of `Routes` are a literal in upper case, one parameter, two
parameters, two of one name, and a pattern that does not compile; the two with
two parameters have one expression and different verbs, and one of them has a
parameter `my-id`, which `routeUrl` does not fill.  Three additions
are two routes of one group and one of another in every order; the second
request is the one that reads a stored set.  With two handles, two values, two
writers and a reference each action has two different objects to work on and a
third that may share the table; two tables are the shared one and the one it is
separated into (with a third table the run passes as well, and takes five times
as long).

Unbounded quantities are capped in the guards: packages and versions by `MaxVer`, the clock by
`MaxTime`, nested closures, calls and handlers by `MaxStack`, `MaxDepth` and
`MaxNest`, resets, logouts and changes of a row by `MaxResets`, `MaxLogout` and
`MaxDiffer`, rows by `MaxRows` and `MaxBatch`, plates by `MaxPlates` and calls
of templates by `MaxCalls`, routes added by `MaxAdds` and `MaxTimes`, a pattern
that is compiled again by `MaxLength`, requests by `MaxRequests`.
The runs `usersession`, `caches`, `rows`, `plates` and `handles` use symmetry of requests, columns, keys,
views, or handles, values, writers and tables, which no action or property tells apart.

## The proofs

The proofs hold for every value of the constants under the assumptions the
modules name (`ConstantsAssumption`, `NoneAssumption`, `ServicesAssumption`,
`UserSessionAssumption`, `TransactionsAssumption`, `PageAssetsAssumption`,
`RequestsAssumption`, `SourceCacheAssumption`, `ModulesAssumption`, `PlatesAssumption`, `RoutesAssumption`, `HandlesAssumption`, and `KeysAssumption`,
`ValuesAssumption` and `InputsAssumption` of `Rows`), which say what kind of
thing each constant is; `PageAssetsAssumption` also says that there are finitely
many assets and that the stack has room for a call for each, and `ModulesAssumption`
that there are finitely many names.  `RoutesAssumption` says what a script hands
over: patterns are sequences of segments that are not empty, decoding and
lower case are functions on words, and there is a request.
`HandlesAssumption` says that there are finitely many handles, values and
references, since holders are counted, and that the kinds of things are told
apart.

- `DirCacheProofs`: `TypeCorrect`, `FileWholeAlways`, `ReadsAreRegular`,
  `NoExpiredReads` and `NeverBack`, by three inductive invariants, each on top
  of the one before.  `IInv` carries `FileWhole`: an inode in the hands of a
  writer, or named by a key, belongs to that key alone, a writer's file holds
  exactly the records its `pc` says it has written, and a single-writer key is
  only in the job of its writer.  `RInv` carries the two properties of reads.
  A version that waits to be written waits with one worker, was never valid
  and is not among what another write replaces (`Once`, which needs that a
  package is stamped before it is written, `Kept`), so a file that has lost its
  path never takes back what it replaced (`Shown`); the file a reader has open
  is only written for the key it reads (`SameKey`), by writes it knows of
  (`Regular`), and what it has buffered has not expired (`Unexpired`).  `FInv`
  carries the refinement of `VersionedStore`: the memory layer never holds
  another version than the one being written (`Held`), and what waits is newer
  than the last version written (`Forward`); every step then maps to `Write`,
  `Lose` or a stutter.
- `TransactionsProofs`: of the driver, `TypeCorrect`, `Mine` and `KeptForGood`.  `Kept` needs
  `OpenIsMine` (the rows of a unit are what the server will store or drop),
  that the rows of an open transaction are neither visible nor told to be
  rolled back (`Apart`), that numbers of rows are not used twice (`RowsKnown`),
  and that an aborted transaction is one in which the script saw a statement
  fail (`SessionSane`).  One lemma for each kind of step: a statement that goes
  in, one that stops, a transaction that ends, a call that is lost, and the
  ways through the import.
  Of the container, `CountDriftAlways`, `LimitUntilFailureAlways` and the types
  (`ServicesTypeCorrect`).  `CountDrift` is inductive with the types; the work
  is in counting the frames of a stack that grows, shrinks or changes its top.
- `PageAssetsProofs`: `TypeCorrect`, `EachOnce`, `RequirementsPrecede`,
  `StylesAreComplete` and `OverflowMeansCircle`.  For the order the invariant
  follows the nested calls: the names an inner call has done are marked, or
  something was missing.  For the stack, the assets on it are distinct or there
  is a circle, and distinct ones are no more than there are assets.
  For `EachOnce` it says how far each call has come in its list (`Onto`): two
  calls for one asset stand at one name, which is open for the outer call, so the
  inner one cannot end and place the asset before it (`LastIsNew`).
  Of the handles of arrays, in the last part of the module, `HandlesTypesHold`,
  `CountsHoldAlways` and `ValuesAreOwnAlways`.  The invariant (`HandlesIInv`)
  promises no more than the types once `odd` is not empty.  Until then it has `CountsHold`, that
  a reference that is not in use holds nothing (`OpenRefs`), and that a fresh writer's table is a table, held by the one it
  was lent from and by nobody else (`FreshHold`).  Counting rests on two lemmas
  about holders when one place changes what it holds.  With the counts, a table
  whose count is 1 has one holder, so a write through a fresh writer changes what
  one place reads; every other step maps to the step of `OwnValues` with its
  name, to a stutter, or to `Break`.
- `RequestsProofs`: of a request, `RunsItsRoute`, `RolesHold`, `OneBody` and
  `EndsInAnswer`, with the types.  The invariant adds that only the handler on
  top can be in a `beforeCall` that has not called anything yet, and that while
  nobody resent, either no body has gone out or one has and the response says
  it was sent.  Of its session, `SavedIsHeldAlways`, `LogoutHoldsAlways` and
  the types (`SessionTypeCorrect`).  The invariant (`SessionIInv`) says of each
  request on its own that the object it holds is the one in `$_SESSION` when it
  is linked, and that what it read and must save is linked or marked for
  writing; lemmas prove it for each of the state functions the actions are made
  of.  For the logout it adds that a request that began after the last logout
  holds nothing of an earlier login.
- `ModulesProofs`: `TheAskedIsActive`, `WhatIsRequiredIsLoaded`,
  `AModuleIsMadeOnce`, `ACrashHasACause` and the types.  None of the properties
  is inductive, because each is about what is left when nested calls have
  ended; the invariant (`Invariance`) is about the calls that are under way.
  `Fit`: the objects they keep were made, and which call stands on which.
  `Loading`: what is loaded by the time a call goes on, and what the value that
  was handed down to it says of its alias or base.  `Dispatched`: when
  `dispatch` sets its module for the second time, the module is loaded or
  can never be.  `Requiring`: what a module requires is loaded, is being loaded
  or is still on the list of a call.  `Single`: the calls above one that waits
  are for names it leads to (every closed set that has what it uses has them),
  so a module that does not lead to itself is not made meanwhile.
  For the stack, `SamePlace` says that two calls at one place (the number of
  modules being added below, the name, the point of `setModule` or `addModule`)
  are on a circle of aliases; there are `(n + 1) * 7n` places for `n` names,
  and `ACrashHasACause` asks for a stack with room for one call more.  Nobody
  needs 85 calls for three names: the run shows that 9 are enough there.
- `SourceCacheProofs`: the types, `BoundedStaleness`, `StaleHasCause` and
  `OwnNotOlder`.  For each version that left the file the invariant says that no
  request that holds it from the file began later, and that no package of it was
  stamped later than one request after.
- `PlatesProofs`: of templates, the types (`PlatesTypesHold`), `SectionsAreOwn`
  and `PagesInOrder`.  For sections the invariant (`Settled`, `OneBlock`) says
  how the output buffers of the renders in progress lie on each other: each
  render has its own and those of its open blocks, above those of the render
  below, and the buffer of an open block holds what its template printed in it;
  a plate has at most one section open, and no second one after it.  For pages (`InPage`) it
  follows the one view that is rendered: its levels have consecutive plates,
  each with the next as its layout (`Stands`); a text, in a buffer, a section,
  the content of a level or on its way to the caller, is made of the levels
  inside it and of inserted templates, and names an inner level only after the
  level around it (`Tidy`, `Led`); what a level has as its content names every
  level inside it (`Has`), and a level that runs or is waited for was given its
  content (`Fed`).  All of it is conditional on the ghost
  `odd`, which the proof needs complete: with three levels a template of the
  innermost one can insert an outer level by its name before the engine has
  stored it, so "level" is noted for every insert of a level of a view that is
  being rendered (`IsLevel`), stored or not.
  Of the rows of models, the types (`TypeCorrect`), `BeliefIsTrueAlways` and
  `OnlyGivenIsWritten`, in the last part of the module.  The invariant adds that
  an element in which the two arrays of a row differ was assigned by the script
  (`DifferencesWereGiven`).

- `RoutesProofs`: the types, `TheFirstIsFound`, `ArgumentsAreInPlace`,
  `TheIndexMissesWhatIsLater`, `RefusalHasACause` and `TheUrlLeadsBack`.  These
  are about what a few calls do to data, so most of the proof is about the
  operators: the rank of a parameter (a bijection from the parameters of a
  pattern), what `compile` keeps of a pattern when it puts a prefix before it
  and lowers its names, what `Captures` takes out of a URI that matches.  The
  invariant (`Invariance`) says that each object still has the shape its script
  declared (`ObjectsFit`), that the key of an addition is the expression of its
  route while nobody compiled it again (`EntriesFit`), and of each of the two
  tables that it holds its additions and no others, each key once, and its
  groups in the order of their first additions (`Grouped`).  A search goes
  through groups and then through the members of one; `Grouped` turns that into
  the least pair of numbers of additions, which is what `FindsTheFirst` asks for.
  The library's induction theorems take an operator and cannot be used here.
  `UpTo` is induction over a set of numbers, from the theorem that every set
  of them has a least one (`MinOf`); that is enough for `FlattenSeq`, and for
  positions.

Only model-checked: `AddEnds` of `PageAssets` and `SetEnds` of `Modules`, which
say that something must happen.
Liveness and `ENABLED` are out of the prover's reach.

## What is left out

- Times: a file's own modification time, and clock steps backwards.
- In `DirCache`: the memory-only calls `setMultiple`, `deleteMultiple`,
  `clearPrefix`; bodies larger than the buffer of a stream.  `getDirectory`
  returns characters of a buffer that is freed (`dircache.cpp:512`); the model
  takes the outcome in which they are still there.
- In `Services`: constructors that call the container while `newInstance` runs
  them; strings that name a PHP function.
- In `UserSession`: the package of a session is one step (its steps are
  `DirCache`'s); a start of the session may always fail, which covers output
  that has begun.  A use of the null `data_` ends the request.

- In `Transactions`: a connection that the server drops (PDO and PostgreSQL
  then fail every call until `close`); a statement object that keeps a PDO
  connection alive after `close`; a `begin` that fails for other reasons than
  an open or aborted transaction; the end of the request, whose rollback is
  `Close`'s.  The exception on record outlives a request, as an object that
  has been freed; the model starts with none.  Assumed of the server: a COMMIT
  that fails ends the transaction (SQLite's, when busy, does not).  `Mysqlfn` is
  not modelled, because its `execute` reports an error for every statement
  that stores rows (`mysqlfn.cpp:631` asks for the rows of no result).

- In `PageAssets`: the text of a definition and the building of tags.
- In `Modules`: what a module's data does to the application besides its
  requirements; the classes and routes a module names.
- In `Requests`: how a path is matched with the patterns of routes (the choice
  of the route is free; that is `Routes`), arguments as values, cookies and the content of
  headers.
- In `SourceCache`: `createCache` and the registry of caches by name, the
  formats of files, `cache_routes` when it is off, the throttle of
  `deleteExpired`.
- In `Rows`: time stamps, keys of several columns, statements that fail (they
  change nothing), and `saveRow` answering false after an update that was made.
- In `Plates`: the values handed to templates, the final service, and
  `storePlate`, `newPlate` and `clearPlates` called by scripts; the loader of
  templates is the application's, and is taken to cut the buffers back when a
  template throws.

- In `Handles`: arrays in arrays, and the counts of strings and objects; weak
  references; the layer of `Hmap` and the walks over a table; `ref_rc`, which no
  code uses.  What the allocator does with a count that is lowered after the
  reference was freed is undefined; the model promises nothing after it.
- In `Routes`: `copy_target`, the default target (`notFound`), segments that are
  regular expressions themselves, other verbs than GET and POST, and what a
  match does once it has its arguments (that is `Requests`).

### Not modelled

Vendored and generated code (Markdown, tinyxml2, TOML) is more than a fifth of
the files' lines and not this project's own.  Most of `wcc` beyond the parts
above builds HTML, wraps PHP functions or registers classes; it keeps no state a
property would be about.  Dialects of SQL and the schema queries read and
change nothing.  What is left of the project's own logic is in the plan.

## The plan

What remains, in this order:

1. `Connections`: the connections of `IServer` by name and alias, composed with
   `Transactions`.
2. `Bindings` and `XmlRead`: numbering of bindings, the stack of tags, against
   reference definitions over bounded inputs.
3. The registry of `CacheMgr`: `createCache` of a class that fails, and the
   mark of the last scan.

