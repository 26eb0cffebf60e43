# A model of systemd-shim in TLA+

systemd-shim answers, for a machine that does not run systemd, the few D-Bus
calls that logind and timedated make to `org.freedesktop.systemd1`.  It is one
single-threaded process, started by the bus for a request and gone again after
ten idle seconds, and it acts on things it does not own: the kernel's cgroups
(through cgmanager), the power state of the machine, the NTP services.

This directory holds TLA+ modules that model it, the TLC configurations that
check them, and theorems with proofs for TLAPS.  `PROJECT.json` lists the
components, the runs, the theorems, the hazards, and for every definition the
lines of the code it stands for.

    tlc -workers 2 -config CGroupStop.cfg MCCGroupUnits.tla    # a run
    tlapm CGroupUnits_proofs.tla                               # proofs

## 1. Inventory

### Parts of the system

| part | code | state | operations |
|---|---|---|---|
| main loop | `src/systemd-shim.c` `main`, `had_activity`, `exit_on_inactivity` | the armed timeout and its identifier, the queues of the bus | take up a request; exit when idle, after a flush |
| manager interface | `src/systemd-shim.c` `shim_method_call`, `shim_unit_*`, `src/unit.c` | none but the static properties | look a unit up, call its class, reply, signal |
| scopes and slices | `src/cgroup-unit.c` | none; the path of a unit is in the state file | start, start_transient, stop, abandon |
| unit state | `src/state.c` | a key file, cached and on disk | get, list, set, remove |
| cgmanager client | `src/cgmanager.c` | the connection, made once | create, remove, prune, kill; start-up calls |
| release agent | `src/cgroup-release-agent.c` | a process of its own, per released cgroup | StopUnit, then cgmanager's agent |
| power units | `src/power-unit.c` | `in_shutdown`, `last_suspend_time`, the sendsigs file | start (stop does nothing) |
| NTP unit | `src/ntp-unit.c` | none; two services and a hook file | start, stop, get_state |
| virtualization | `src/virt.c`, `src/util.c` | a cached answer | detect |
| object paths | `src/systemd-shim.c` `escape_object_path`, `unescape_object_path` | none | escape, unescape |
| utility headers | `src/util.h`, `src/macro.h` | none | macros, hardly any of them used |

### How they interact

- logind calls `StartTransientUnit` (a scope for each session, with the pids of
  its tasks), `StartUnit`, `StopUnit` and `Abandon`.  The handler calls
  `cgroup-unit.c`, which makes several synchronous calls to cgmanager and then
  writes the state file, and only then replies.
- When the last task of a cgroup is gone the kernel starts the release agent,
  which calls `StopUnit` on the shim - a request like any other, behind those
  that already wait - and then runs cgmanager's own agent, whatever came of it.
- The inactivity timeout ends the process; the next message on the bus starts
  another one.  What must outlive it is in the state file; what is not there
  (`in_shutdown`, `last_suspend_time`, the connection) is lost.
- A shutdown kills processes, the shim too unless `sendsigs.omit.d` names it.

### What is hard, and what correct means

*Scopes and slices.*  Between any two calls to cgmanager a task may fork, end or
be moved, a release agent may ask for the same cgroup, a call may fail, the
process may end.  Correct: a start that was reported is done and durable; a stop
leaves nothing alive in the cgroup unless it was disturbed in all its rounds, and
kills nothing else; a unit that has tasks is known; the tree stays a tree; a
released cgroup is collected and its unit forgotten; every call is answered.

*Unit state.*  A lazily loaded cache in front of a file, with failing loads and
saves and restarts at any moment.  Correct: it is one registry.

*cgmanager client.*  cgmanager may be absent, come later, or go away.  Correct:
after start-up over a standing connection there is a release agent, and one that
was there is kept.

*Manager interface.*  Replies and signals are queued for a worker thread, the bus
answers for a process that ends, the timeout source has an identifier that
outlives it.  Correct: every call is answered once, the report of a job comes
after the reply that names it and before the next such reply, what was done is
also answered, there is one timeout, and an idle process goes.

*Names.*  Object paths, the cgroups of slices and the user that owns one are read
off names a byte at a time.  Correct: a listed unit is the one its path reaches,
slices with a common part share the cgroups above them, and only
`user-N.slice` belongs to user N.

*Virtualization.*  Several sources that may be missing or unreadable, an
environment cut into lines, an answer that is kept.  Correct: what is there is
found, an error neither hides it nor is remembered.

*Power and the loop.*  Requests queue up while the machine sleeps and while it
shuts down.  Correct: no sleep during a shutdown, no second suspend within a
second, and the memory both need is kept long enough by a process that exits.

`PROJECT.json` "hazards" lists each of these at its line, with the properties
that catch it going wrong, or with the reason why none does.

## 2. The modules

| module | models | extends / uses |
|---|---|---|
| `UnitService` | what the shim promises about scopes and slices: a request commits what it asked for, once, to its own unit, before the answer, for good | |
| `UnitRegistry` | what the callers of `state.c` rely on | |
| `UnitState` | `state.c`, with failures, restarts, reboots | refines `UnitRegistry` |
| `CGroupTree` | the cgroup paths of units and how they nest | |
| `CGroupUnits` | `cgroup-unit.c`, the calls of `cgmanager.c`, the handlers that reach them, the release agent; with the kernel's cgroups and tasks around them | `CGroupTree`, `UnitState` (instance); refines `UnitService` |
| `MCCGroupUnits` | instances of it for TLC | `CGroupUnits` |
| `PowerUnit` | `power_unit_start` and the machine | |
| `ShimLoop` | the life of the process: activation, requests, timeout, exit | `PowerUnit` |
| `CgmClient` | the connection to cgmanager and the start-up calls | |
| `NtpUnit` | `ntp-unit.c` | |
| `CallService` | what the callers rely on: calls are worked on and answered in their turn, those to the objects of units after others, and fail only if nobody has worked on them | |
| `Manager` | the D-Bus side: lookup, answers, signals, the timeout and its source, name, flush and exit | refines `CallService` |
| `SlicePath` | `cgroup_unit_get_path_and_uid` | |
| `ObjectPath` | `escape_object_path`, `unescape_object_path` | |
| `Virt` | `virt.c` with the helpers of `util.c` it uses | |
| `Inputs` | these three over inputs that grow by an element at a time | `SlicePath`, `ObjectPath`, `Virt` |
| `MCInputs` | alphabets, bounds and the tables of `virt.c` for TLC | `Inputs` |
| `Induction` | induction over the naturals, and loops as functions of the number of rounds | |
| `*_proofs` | the theorems about each | |

**UnitState.**  A group of the key file exists exactly for a unit that has a
path, so the content is a function from units to paths or `NoPath`.  `key_file`,
`loaded` (the static pointer is set) and `disk` are its state; each function of
`state.c` is an action.  GLib saves by writing a temporary file and renaming it,
so a save happens or does not.  A load may fail for another reason than a missing
file (`LoadFaults`); the code ignores the error and goes on with an empty file,
and so does the model.

**CGroupUnits.**  The shim is a program counter (`step`) with the request it
works on (`call`) and the locals of the handler (`path`, `todo`, `tries`).  Every
call to cgmanager is a step: `CgmCreate`, `CgmMovePid` (one pid each),
`CgmSetNotify`, `SaveState` for a start; `CgmGetTasks`, `Kill` (one pid each),
`CgmRemove`, `AfterRound` (the `do ... while (tries-- && !successful)`), `Forget`
for a stop; `CgmPrune` for Abandon; then `Reply`.  The processes around it are
actions that happen between any two of these: tasks end (`TaskExit`) and fork
(`NewTask`, `Fork`), the kernel raises releases (`RaiseReleases`) and starts
agents (`SpawnAgent`), an agent's call fails or times out (`AgentTimeout`), an
agent becomes cgmanager's (`Chain`), clients call (`ClientCall`), the process
is killed (`ShimDies`).  It exits by itself (`exit_on_inactivity`) only between two
requests; `Races` says whether it may take along requests that reach it at that
moment.  After either end the next process reads the state file again.  What the code does not look at, the model does not look at:
the results of `Create`, `MovePid` and `SetValue`, the earlier entry of a unit
that is started again, the process behind a pid that is killed.

`Take` lets a request overtake an `Abandon` that waits before it (`Turn`), since
GLib gives a call to the object of a unit two callbacks and one to the manager's
object one (see `Manager`, which has both callbacks as steps).  The queue here also
holds what the bus has not delivered yet, so `Take` allows that for a request that
comes after the first callback too; no property depends on it.

The kernel and cgmanager are external and modelled from how the code uses them:
`Create` makes the ancestors too, `Remove` with its recursive flag takes away
what has no task in or below it, a new cgroup inherits `notify_on_release`, a
cgroup with that flag is released when it loses its last task or child.

**PowerUnit, ShimLoop.**  `now` is the monotonic clock in ticks.  A power action
is a sequence of steps (flag, sendsigs file, command; or check, sleep, wake,
stamp).  ShimLoop adds the queue of the bus, the armed timeout (`timer`), the
process (`running`).  Which handlers call `had_activity` at their beginning and
which at their end is kept (`EarlyActivity`).  `ProcessEnds` resets exactly what
lives in the process.

**CgmClient.**  One process after another: connect once, `MovePidAbs`, look for a
release agent, install one.  cgmanager stops and starts at any time, and other
programs may install an agent.

**NtpUnit.**  Each command is a step, each may fail, and nothing that it returns
is looked at.

**UnitService.**  `units` is what the state file says, as the cache shows it;
`busy` is the unit of the request in hand and `open` what it asked for (a path, or
that the unit be gone), as long as it may still commit.  In CGroupUnits that is the
path that `cgroup_unit_get_path_and_uid` makes of the request (`AskedFor`), from
the moment it is taken up until the entry is written or found unnecessary
(`step = "reply"`).  So a caller whose
request was cut off by the end of the process finds the unit either as it was or
as it asked for.

**Manager.**  `pending` and `sent` are the bus's account of the calls.  `status`,
`inbox`, `call` and `step` are the process with its one-threaded main loop.  The
manager's object is registered as an object, those of the units as a subtree
(`systemd-shim.c:433`): for a call to one of these (`UnitObject`) GLib first runs
`shim_units_introspect` and `shim_units_dispatch` in one callback, which puts the
handler into the queue as a second one, behind all that has arrived by then.  That
is the action `shim_units_dispatch`, which moves the call to the end of `inbox` and
marks it in `dispatched`; `Take` runs a handler (`Ready`).  The
worker thread writes `outbox` to the bus at any time (`WorkerSends`).  `sources`
are the timeouts of the main loop and `inactivity_timeout` is the identifier that
`had_activity` remembers, which after `exit_on_inactivity` has returned FALSE
names a source that is gone.  Methods of the manager call `had_activity` when they
are done (`Finish`), everything else when it is looked up and when it begins (`Early`, in
`Take`).
`handled`, `unanswered`, `owed` and `cut` (the calls in
hand, or with messages not yet written, when the process was killed) are history.  What the units do is in
their own modules; `Work` keeps only `in_shutdown`, which decides about the exit.
GLib is assumed never to give out an identifier that the shim still remembers
(`NewSource`): it counts up and wraps around after 2^32 sources.

**CallService.**  The calls are numbered as they are made; `waiting` is what the bus
waits for, `done` what the shim has worked on, `failed` what the bus had to answer.
A call is worked on when those before it were (`Do`) and answered after that when
those before it are (`Answer`); `Before` leaves out the calls to objects of units
(`Late`) for a call that is none, which may overtake them.  When the process exits
(`Exit`) what is left fails, and nothing of that was done; when it is killed (`Kill`)
what was done and fails is in `lost`, in `Manager` the calls it was killed in the
middle of (`cut`).  The calls that GLib answers by itself need no work and may
overtake.

**SlicePath, ObjectPath, Virt, Inputs.**  Functions without state.  A name is a
sequence of bytes or characters, where `user` and `.slice`, which the code compares
as a whole, count as one.  A text that `virt.c` reads is a sequence of words (of any
set `Word`), what it finds on the machine a record (`Reading`); `G_MAXINT`, the
largest `guint64`, `LINE_MAX` and the tables of vendors are constants.  A loop of
the code is a recursive function on the number of its rounds.  `remember`
is the static variable of `detect_virtualization`.  `Inputs`
builds an input on one topic, element by element, from any alphabet and up to any
length, and states the properties of it.

### What is abstracted

- One cgroup hierarchy stands for all that cgmanager manages ("all", and
  "systemd" for the flag); the owner of a cgroup (Chown) is left out, no property
  reads it.
- A path is the slice at its end and the scope below; that the name of a slice
  says what it is nested in is the constant
  `Within`, a tree of slices: `SliceAncestors` of `Inputs` says that the function of
  the code makes one, and is proved for names of any length.
- The listing of the units counts as a property in `Manager`: it has one callback and
  changes nothing.
- A Ping, which GLib answers without the shim, is answered in its turn here, and
  `CallService` promises nothing about its turn.
- The pids of a request and of a listing are sets: the order of the array is any.
- A call to cgmanager is one step: cgmanager serves it in one go.
- A request names living tasks when it is sent, and they may be gone when it is
  served.
- The release agent reaches the system bus; if it does not, it aborts and the
  cgroup is not collected.

## 3. The runs

| run | question |
|---|---|
| `state` | With failing loads and saves, restarts and reboots: is `state.c` one registry? |
| `units_durable` | Does a reported start survive the end of the process between any two steps, and is a request that is cut off done as it asked or not at all? |
| `units_stop` | What does a stop leave in its cgroup and in those nested in it, what does it kill, what does nobody know of, and does every request come to its end, while tasks fork, calls fail, and the process exits when it is idle and starts again? |
| `units_live` | Is a start done when it is reported, although agents of earlier uses are about; is everything answered, collected, forgotten? |
| `manager` | Is every call worked on and answered once and in its turn, whether the process lives, idles away, is killed or gets no name; is there one timeout; is every call answered in the end, and does the timeout end the process? |
| `loop` | Do the flag of the shutdown and the time of the last suspend live long enough? |
| `ntp` | Does get_state say what the last call asked for? |
| `client` | What does the start-up leave behind? |
| `inputs` | Do object paths, slices and virtualization come out as a reference definition says? |
| `loop_hibernate`, `loop_abandon`, `client_faults` | three places where the code does not do what its comment or NEWS says (section 6) |

Bounds, and why they are enough:

- Units: one slice with one or two scopes, or two nested slices with a scope
  (`units_stop`).  A handler touches its own unit and what is nested in it; a
  second unit shows that the others stay.
- Pids: none in `units_durable` (durability is about entries, and the agents are
  still there), two in `units_stop` (one that is listed, one that forks or is
  moved), one in `units_live`.  Pids are symmetric where no liveness is checked.
- `MaxQueue` = 1: requests of clients that wait while another is served; with
  those of the agents up to five are on the bus, enough for a request to be
  overtaken, lost, or late.
- `MaxDisturb` = 5 in `units_stop`: a stop has six rounds, and one disturbance
  less must not be enough to leave a survivor.
- `MaxAgents` = 4, at least the number of paths: the bound never delays an agent.
  It is 0 in `units_stop`: the StopUnit of an agent is the same request as that of
  a client, and the removal by its chained half is in the two other runs.
- `OneSliceForScopes` in `units_stop` keeps scopes in one slice of the two nested
  ones, which is what `NoOrphan` assumes (`AskedAtHome` in its theorem), and leaves out requests that are refused before they do
  anything; those are in the other runs.  `SentWhenIdle` lets requests without
  process ids come only when the shim is idle: until it takes one up nothing depends
  on it, so that sending it earlier adds states and no behaviour of interest.
- `manager`: one client with all kinds of calls, since the process treats calls alike
  whoever makes them (what tells clients apart is `JobsInStep`, which one that makes
  every call tests hardest, and which is proved for any number); three calls, so that one is handled, one waits and one comes to a
  process that exits, or two overtake a third; a unit that exists (and shuts the machine down) and one that does not.
  The bound also stops the calls: a process that is called for ever stays.
- `inputs`: names of up to five bytes (an escape and what is around it) or six
  characters (two dashes and a number), with `MaxInt` = 10 and `MaxUllong` = 99 so
  that both limits are crossed; environments of up to six words with lines of
  three; every kind of answer from each source of the machine, and up to three calls in a row.
- `MaxTime` = 6 with `Second` = 2 and `Idle` = 3: enough for a request, a sleep
  that outlasts the timeout, an exit, and another request to a new process.
- `PidReuse` is FALSE where `KillsOnlyMembers` and `StartIsDone` are checked: with
  it they are violated, since SIGKILL goes to whoever has the pid by then.
- `Crashes` is FALSE in `units_stop` and `units_live`: a kill in the middle of a
  request leaves tasks out of reach (`NoOrphan`).  The idle exit is there in both, and
  in `units_stop` with requests that reach the process at that moment (`Races`).
- Deadlock is not checked in `manager`, which rests when all calls are made and
  the process is gone, keeps a shutdown in mind, or only ever got a Ping, and in
  `inputs`, which ends at the longest input.

## 4. Fairness

Two runs need it.  In `units_live`: `WF(ShimStep)`: the main loop runs while there are
requests and cgmanager answers each call (with an error if need be).
`WF(SpawnAgent)`, `WF(AgentTimeout)`, `WF(Chain)` per cgroup: the kernel's worker
starts the agent, a D-Bus call ends after its timeout if not before, and a process
that was started runs.  Nothing makes a client call, a task end, not even one that
was killed, or a cgroup become empty.  `ReleaseForgotten` is checked without
kills and with `Races` = FALSE, where an exit takes no request along: a call that is
lost with the process is not made again, and its entry stays.

In `manager`: the bus grants or refuses the name, the main loop handles what has
arrived (`WF(Handler)`), the worker thread writes (`WF(WorkerSends)`), time passes
(`WF(exit_on_inactivity)`: a timeout that stays armed in an idle process comes
due) and a flush that has nothing left to write returns (`WF(Exit)`).  No client
has to call and nothing has to be killed.

## 5. What is proved

| theorem | says | rests on |
|---|---|---|
| `UnitState_proofs!StateRefinesRegistry` | `state.c` implements the registry | the actions map one to one |
| `UnitState_proofs!CacheAgrees` | without faults the cache is the file | inductive as it stands |
| `CGroupUnits_proofs!TypeCorrect` | types of the kernel, the bus, the handler | `KernelOK`, `BusOK`, `ShimOK`, `HistoryOK` |
| `CGroupUnits_proofs!StartsSurvive` | reported starts are durable | `Recorded`: between the save and the reply the entry is in the file |
| `CGroupUnits_proofs!StopIsThorough` | a stop leaves survivors only after six disturbed rounds | `Rounds`: each round that has passed since the listing is paid for by a disturbance, and survivors that are not on the list have been forked since; needs `TreeStays` for cgroups that are gone |
| `CGroupUnits_proofs!ServiceRefined` | the units are what `UnitService` promises (if loads and saves work) | `Recorded`: the handler works on the path that was asked for, and commits it in one step, the save |
| `CGroupUnits_proofs!StartDone` | a reported start is done (if calls succeed and pids are not used again) | `Started`: what is off the list is in the cgroup or has ended, and the flag is set, unless an agent has removed the cgroup |
| `CGroupUnits_proofs!NothingOrphaned` | every task in a cgroup is under a known unit, however slices are nested (no start moves a known unit, the process ends only when it is idle, nothing is abandoned, at most five disturbances) | `Tidy`: a stop works on what the entry of its unit says; `AllReached`, with the rounds of a stop from `Rounds` |
| `CGroupUnits_proofs!NothingOrphanedAtHome` | the same, for clients that start each scope in one slice only | `SettledAtHome`: every entry is where its unit belongs, so that no start moves one |
| `CGroupUnits_proofs!KillsMembers` | a stop kills only what is in its cgroup or below (if pids are not used again) | `Listed`: who is on the list has ended or is where the list was made of |
| `CGroupUnits_proofs!RequestsEnd` | a request takes at most 6n + 20 steps, for n process ids | `StepsLeft` is smaller after each step of the handler, and untouched by anything else |
| `Manager_proofs!AnsweredOnce` | every call that the bus waits for has one place in the process | `PlacesInv`: no two places have the same call (`Distinct`), what has a place is waited for (`Waits`), and the converse (`Placed`); `Numbered` makes a new call a new one |
| `Manager_proofs!JobsAreInStep` | jobs are reported in step, for whom a kill did not cut off | `Paired`: a reply that names a job is followed at once by its report, in the queue or by the handler's next step; `Owed` counts from there |
| `Manager_proofs!TimeoutIsOne` | never more than one timeout | `TimeoutInv`: types and the one timeout together |
| `Manager_proofs!HandledAreAnswered` | what is done is answered, unless the process was killed | `AnswersInv`: serials are fresh, and a handled call that waits has its answer on the way (`OnTheWay`) |
| `Manager_proofs!CallsAreInTurn` | the shim is the service of `CallService` | `InOrder`: answers, handler and queue have the calls in the order of their numbers, but that one to the object of a unit may be behind younger ones (`Ahead`), in the queue once its handler is found; `DoneFirst`: what is answered was worked on; and `PlacesInv`, `OnTheWay` from above |
| `Manager_proofs!TypeCorrect` | types of the bus, the process, the account | |
| `ShimLoop_proofs!HaltingStaysAwake` | no sleep during a shutdown | `Remembered`: a halting machine has a process that knows, and that sendsigs spares |
| `ShimLoop_proofs!SuspendsAreApart` | suspends are a second apart | `Debounced`: a recent suspend is noted, or about to be, in a process whose timeout is not due before the second is over |
| `ShimLoop_proofs!StaysLongEnough` | the timeout counts from the end of a method | `Rested`: an idle process has no timeout that is due earlier |
| `NtpUnit_proofs!AsAsked` | get_state says what was asked for | `Switched`: hook, then boot, then ntpd, each stays switched |
| `CgmClient_proofs!AgentStays`, `StartUpDone`, `ConnectsOnce` | start-up keeps an agent, or installs one; one connection per process | `LookedFirst` |
| `Inputs_proofs!PathsReachTheirUnits`, `PathsAreLegal`, `PathsAreAliases` | every printable name survives its object path; every path is legal and within its buffer; what a legal element unescapes to reaches the same unit | the two loops meet, round by round, at the same place of name and node |
| `Inputs_proofs!SlicesNest` | every cgroup above a slice is that of the slice it is named after | the components of a beginning of a name are the first of its own |
| `Inputs_proofs!SlicesHaveTheirOwner` | of the names with a digit after `user-`, just `user-N.slice` is owned, by N, if N is a user id | what `strtoull` reads are the digits up to the first other character |
| `Inputs_proofs!ContainersAreTold` | the first variable `container` decides, if no variable is longer than a line | `ReadsAt`: after each line the reader is inside a variable or at the beginning of one |
| `Inputs_proofs!MachinesAreTold` | a virtual machine is told exactly from processor and DMI, an error only if a file could not be read before one told | a file starts with a vendor exactly if its first line does, and the first file that tells ends the search |
| `Inputs_proofs!AnswersAreKept` | the answer is that of the first call that found one, over any number of calls | induction over the calls |

They hold for every set of units, pids and nestings, for every length of the
timeout that is no shorter than a second, for names, environments and files of any
length over any alphabet, and for any bounds.  Beside what the table names in
brackets, which a theorem states under ASSUME or, about the requests, as a
hypothesis on the behaviour (`NeverMoved`, `AskedAtHome`), the only assumptions are
the named ones of the modules:

- `TreeAssumption`, `UnitsAssumption`, `NoCallAssumption`, `StateAssumption`,
  `PowerAssumption`, `LoopAssumption`, `NtpAssumption`, `ClientAssumption`, and
  `ManagerAssumption` with the `NoCallAssumption` of `Manager`: the constants are of
  their kinds, nesting is a tree, values that mean "none" are nothing else;
- `SliceAssumption`: `G_MAXINT` is smaller than the largest `guint64`;
- `LineAssumption`, `FileAssumption`: a line has room for a word and its end, and
  what says that a file is missing or unreadable is no text;
- `EnvironAssumption`, `VendorAssumption`, `SignatureAssumption`: what `virt.c` looks
  for does not contain the end of a variable or a line, a vendor fits into a line,
  and no signature is empty, as in its tables;
- `AlphabetAssumption`: names are made of bytes, environments of words, and a
  machine is a `Reading`.

The induction over names and texts is in `Induction`.  `EveryRound` says that a set
that has 0, and n + 1 with n, has every round; it takes a set where the theorem of
the library takes an operator, and rests on that the order of the naturals is
well-founded.  `LoopExists` says that a recursive function of the rounds is
what its equation says.  Each loop of the code then has a lemma that it is a loop
(`IsLoop`), one about its invariant, proved by `EveryRound`, and one about where it
stops (`LeastNat`).

Every invariant and every action property that a run expects to hold is proved,
the refinements of the state file, the units and the calls included.  Only
model-checked: liveness (`EveryCallAnswered`, `ReleaseCollected`, `ReleaseForgotten`,
`IdleProcessExits`), which with ENABLED is out of the prover's reach; that a request
ends once the handler runs, which they rest on, is `RequestsEnd`.  `NoOrphan`
needs its hypothesis: a start that moves a known scope to another slice overwrites
the entry of the old one.

## 6. Where the code and its texts differ

- `loop_hibernate`: the comment at `power-unit.c:84` speaks of "a suspend or
  hibernate action"; only a suspend is compared with a previous one, and only a
  suspend is noted.
- `loop_abandon`: NEWS has inactivity count from the end of the last request; for
  `Abandon`, as for the reading of properties, it counts from the beginning.
- `client_faults`: NEWS says not to override a release agent; if the question for
  it fails, it is overridden.

## 7. Not modelled, and what comes next

Not modelled:

- `util.h` and `macro.h`, taken from systemd: macros and declarations, nearly all
  of them unused here, none with state of its own.
- Build files and data (unit and D-Bus configuration, the policy that decides who
  may call).
- The listing of units for introspection beyond the object paths it makes: it reads
  the state file and changes nothing.
- What the commands and services that are spawned do, beyond succeeding or failing.

Next: a composition of `Manager` with the steps of `CGroupUnits`, where the two now
meet in the request and its reply only, and of `ShimLoop`, whose clock `Manager`
replaces by fairness.
