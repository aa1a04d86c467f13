# AC.PatchFix in TLA+

AC.PatchFix is a plugin that is loaded into a game (Assassin's Creed Rogue or
Syndicate), patches its code in memory, follows an INI file while the game is
running, and keeps records for the case that the game crashes. This directory
models the parts of it in which order, concurrency or failure decide whether it
is correct, and the pure algorithms whose result a callback relies on; checks them
with TLC on small instances; and proves with TLAPS, for every number of hooks,
threads, faults, saves and reloads, the safety properties those runs check.

Paths below are relative to the repository.

## The system

Threads: the **loader** calls `DllMain`; the **init thread** runs `init_game`
once; the **watcher thread** reacts to changes of the INI; the **game's threads**
run hook callbacks at any time and, in Rogue, call the hooked `CreateThread`.
Nobody joins anybody: on detach the loader asks the two threads to stop and goes
on at once, because it holds the loader lock.

| Component | State | Operations | What makes it correct |
|---|---|---|---|
| Hook registry (`core/include/core/hooks/registry`) | per hook: config, `enabled`, `installed` | `install_all` (init thread), `reload` (watcher), reads by callbacks | dependencies before dependents; `enabled` closed under dependencies between calls; nothing skipped without a cause; active hooks have been told of the newest config |
| Dependency sort (`topo_sort`, compile time) | adjacency rows, degrees, queue | one evaluation per hook list | the order respects every dependency; the count tells a cycle |
| File watcher (`core/src/config`) | directory handle, event, `m_stopping`, stop token | watch loop, `stop` | what is noticed is loaded, a stop ends the loop and the callbacks |
| VMP bypass (`core/src/vmp`) | hook object, `g_active`, `g_blocked_count` | `install`, two waits, `uninstall`, hooked `CreateThread` | callers always reach the real function; the game is patched only once the integrity thread is out of the way or a warning is logged |
| Crash journal (`core/src/diagnostics/crash_journal.cpp`) | file handle, file | open, read previous, session start, hook installed, init complete, session clean, close | the next start reports a crash, with the right hooks, and nothing else |
| Plugin lifecycle (`dllmain.cpp`, `game_init.hpp`) | thread and watcher objects | attach, detach, process exit | every resource is given back, no reload before the end of the start, the loader waits for no thread that waits for it |
| Code patching (`core/.../mem`, `seh_guard`) | bytes of the game, protection method, `s_faulted` per callback | `write`, `nop`, `ret`, `make_hook`, `guarded_callback` | erased instructions are emulated by somebody; faults stay contained |
| Patch registry | vector of records sorted by base | `register_patch`, `find_patch`, `find_nearby` | first original bytes kept; a fault is attributed to the right hook |
| Crash handling (`crash_handler`, `crash_report`, `stack_walker`, `minidump`) | two re-entrancy flags per thread, a counter, `g_dbghelp_mutex`, the statics of `resolve_symbols` | vectored handler, fault filters | reports do not nest; a fault of a callback or an install never takes the game down; one thread in the symbol functions; nobody waits for a thread stuck there |
| Game hooks (`games/ac/*/src/hooks`) | statics per hook | `install`, `on_reload`, callbacks | per hook: registers and globals of the game changed as intended, also across reloads |
| Logger, timer resolution | one pointer; one flag | `init`, `get`, `shutdown`; raise, restore | nobody uses a destroyed log; the flag is true of the period |
| Parsers, INI fields, PE mapping, pattern scan | none | pure functions | right result for every input |

The hard behaviours, each listed with its line in `PROJECT.json` under
`hazards`: callbacks that see the registry between two stores; installs that fail
half-way or throw; a hook's return after a reload; a report that faults, on a
thread of the game, under somebody's lock; edits of the INI that race the
start, the debounce, the callback or a full change buffer; an unload at any
moment of the start; two threads in `uninstall`; a process that dies between two
writes of the journal; a packer that is early, late or absent.

## Modules and the code they model

- **HookGraph** — what a build fixes at compile time: hooks `0 .. N-1`, hard
  dependencies, installation order. Its assumptions are what `validate.hpp` and
  the `static_assert` on `topo_sort`'s count guarantee.
- **HookRegistry** — `install_all` and `reload` of `registry_impl.hpp`. A loop is
  a program counter and an index; each turn, and so each store to `enabled`,
  `installed` or a config, is one action, because a callback may look in between.
  `LoadConfig`, `LoadEnabled`, `ReadFlags`, `CascadeVisit/Again/Done` and
  `StoreEnabled` are the common first half (`apply_enabled_flags`,
  `cascade_disable`); `SkipDisabled`, `SkipUninstallable`, `BeginInstall` and
  `InstallSucceeds/Fails/Throws` the body of the installation loop; `CallOnReload`
  the second half of `reload`. `told` keeps the configuration `install` or `on_reload`
  last ran with; a hook may refuse or fail to apply it, which is the hook's own affair
  (`LanguageUnlock` has one that refuses). A config is the revision of the INI it came from,
  the `[Hooks]` section the set of hooks it leaves on, the sites of a hook one
  bit ("some site is armed").
- **RegistryContract** — the registry as its users see it: flags flicker during a
  call; afterwards they are the installed hooks, or the largest closed part of
  what the file asks for; hooks are installed once, after their dependencies.
  `HookRegistry` implements it (`Contract`, with `CallPhase` as the mapping).
- **MCHookRegistry** — the three-hook instance of the runs.
- **HookRegistry_proof** — the theorems about `HookRegistry`.
- **TopoSort** — `topo_sort`, one action per turn of its loops.
- **FileWatcher** — from a save of the INI to the registry holding it: the editor
  and the kernel's change records (external, modelled from how `watch_loop` uses
  them), the init thread's reading of the INI and creation of the watcher,
  `watch_loop` statement by statement, the callback of `init_game`, `stop()`.
- **VmpBypass** — `install`, `wait_for_unpack`, `wait_for_integrity_blocked`,
  `uninstall` on two threads, `hk_create_thread` entered by callers at any time. After
  its `uninstall` the loader has the rest of `DllMain` to run (`"tail"`) before the code
  is unmapped, and the init thread goes on meanwhile.
  `safetyhook::InlineHook` is external: a jump, a trampoline, and the order in
  which `reset` gives them up.
- **PatchPlans** — what the install (and `on_reload`) of each hook of both games
  asks of the patching layer, with the lengths of the code.
- **PatchSite** — carries out one plan: `protect`, recording and store of
  `write`/`nop`/`ret`, both forms of `make_hook`, `register_patch`, with every
  request failing or not; meanwhile threads of the game run the sites through
  `guarded_callback` and fault in it; `find_patch`, `find_nearby` and the vectored
  handler's rule are operators. A byte is the game's, a nop, part of a jump or
  other bytes of the plugin; jumps are relative or absolute, as safetyhook
  (external) finds room. A store of several bytes is one step, and where a jump
  that has been written over leads is not modelled.
- **MCPatchSite** — the plans of all hooks. **PatchSite_proof** — its theorems.
- **FaultHandling** — from the instruction that faults to the handler of its
  `__try`: `veh_handler`, `fault_filter_impl`, the stages of `log_crash_report`
  and `resolve_symbols`, `write_minidump`, each of which may fault or, in DbgHelp,
  never return, on several threads. A fault may happen under the log's or the patch
  registry's mutex, which then stays locked. External: the dispatching of
  exceptions, and whether an unwind runs destructors; both outcomes are allowed, so
  what a destructor gives back may be lost.
- **PluginLifecycle** — `DllMain` statement by statement up to the unmapping, after
  which nothing of the plugin runs; `game_init` and
  `init_game` on the init thread, reloads on the watcher's, `log::get` on a thread
  of the game, `raise`/`restore_timer_resolution` with the flag and the system call
  apart. From the detach on it follows who holds a lock of the log (`holder`; one lock
  stands for that of `log::get` and those of spdlog), because the steps of an unload
  that log wait for it: a log call may itself wait for the loader lock (`blocked`), or
  leave the lock behind in a fault (`"left"`). The packer's waits, the journal and the watcher's loop are one step or
  one cell here; `VmpBypass`, `CrashJournal` and `FileWatcher` take them apart.
- **LanguageUnlock** — Rogue's hook: `install`, `on_reload` and the callback of the
  bitfield, beside the game's startup (external), which may be anywhere in it when
  `install` runs. A reload loads the language in any case and calls `on_reload` only if
  it leaves the hook enabled (`step` is `"off"` while it does not).
- **RoguePlugin** — composes the two: `install` is a part of `install_all`,
  `on_reload` of the reload. When the loader detaches, the language variables are
  set to one fixed value (`ForgetLanguage`): no step of the lifecycle depends on
  them, and the instance stays small. So nothing is said about the language after a
  detach. **MCRoguePlugin** gives it two editions of the game.
- **RogueDisplay**, **RogueMotion**, **SyndicateCallbacks**, **IniValues**,
  **ImageLayout** — operators without state: the mode list and its guard, the ratio
  of the viewport, the fitted picture and the field of view; the mouse filter, frame
  time, track weights, pause flag; Syndicate's filter of resolutions, mirrored
  ratios, controllers and prompts; the parsers and clamped fields of the INI; the
  mapping of addresses to file offsets, the restored prologue of
  `DbgUiRemoteBreakin` and the scanned range. Floats are numbers of a fixed
  denominator; the rounding of what the mouse filter hands to the game (`Handed`) is
  modelled, the rounding of float arithmetic is not. What the game's `reserve` may do
  includes keeping the small buffer; a register the code does not set holds anything.
- **OperatorChecks** — assumptions that TLC evaluates on small inputs, for what takes
  a sequence of calls or a search: the list that is searched is sorted and complete,
  motion adds up over frames, the pause flag agrees with `is_in_game`, the values of
  the parsers' and the PE tests. **Operators_proof** proves the rest for every input,
  and `topo_sort`, which computes at compile time, for every dependency graph.
- **FaultHandling_proof**, **RoguePlugin_proof**, **FileWatcher_proof**,
  **VmpBypass_proof**, **CrashJournal_proof** — the theorems about the modules they
  are named after.
- **CrashJournal** — the file as a sequence of texts, each `WriteFile` an action,
  over sessions that crash, exit or unload. The write position is modelled
  because the journal is opened on top of the previous record. The text of one
  `WriteFile` is written whole; timestamps and the limit of 4096 bytes, which a
  record never reaches, are left out.

Operators named `<Definition>_<Change>` under a comment `Mutant:` are faulty
variants of the definition that follows them; no specification uses them. They
show for each property a plausible mistake in the code that it would catch.

## Runs

| Run | Shows | Bounds and why they are enough |
|---|---|---|
| `hook_registry` | the properties of the registry, and that it implements the contract | 3 hooks in a chain against the list order (each link costs the cascade a pass, and the installation order differs from the list order), one hook without `on_reload`, 2 reloads (off, then on again); the proofs remove the bounds |
| `skipped_hook` | **violated**: a hook reported as skipped comes back with the next reload | same |
| `topo_sort` | accepted orders are topological, exactly cycles are rejected, rows suffice | all 4096 pairs of relations on 3 hooks: a cycle through all, diamonds, hard/soft duplicates |
| `file_watcher` | noticed changes are loaded, waiting means current, a stop ends the loop, at most one late callback | 2 saves, 1 foreign write, a buffer of 2 records: an overflow, a save during the callback, a second change during a debounce all occur |
| `startup_edit` | **violated**: an edit during startup is never applied | no faults of the kernel |
| `vmp_bypass` | the bypass never patches unobserved without a warning, installing is safe, the waits end, an unload leaves no hook, each with the exception stated below | images packed, unpacked and without `.text`, the packer, 2 game threads, 3 polls per wait (0, 1 and several turns, and the timeout) |
| `uninstall_race` | **violated**: a caller inside the hook at `uninstall` gets a null handle | same |
| `crash_journal` | a crash is reported exactly, an unload is quiet, the journal lags by one hook at most | 2 hooks, 3 sessions: crash, a session that dies before it owns the file, and the reader |
| `patch_site` | nothing is applied twice, one site at most is left erased and unserved, jumps survive later writes, records show the game's bytes, every change is attributable, one fault per thread and callback | the plans of all hooks with real lengths, two threads (both inside a callback when it faults), 2 reloads (the second rewrites a site already recorded) |
| `fault_handling` | reports are bounded, faults contained, symbol calls exclusive, a disabled callback explained, a report ends although another thread is stuck | 2 threads (one stuck or dead in DbgHelp, one that meets it), 1 callback and 1 install, 3 exceptions (a fault, one in its report, one after it), the first foreign fault logged and the second not |
| `rogue_plugin` | an unload that finds the plugin's threads at rest gives everything back, the timer flag is true, edition and language are right, reloads come after the installation, a process exit always leaves `DllMain` and an unload does but for a log lock that is lost or held by a waiting thread | every place the threads may be in when the detach begins, 2 editions (one the stub must not take for another), 2 reloads (to a language and back or off and on, capped and uncapped); also evaluates `OperatorChecks` |
| `normal_exit` | **violated**: a normal exit is reported as a crash | 2 sessions |

Every passing run's property has a mutant in `PROJECT.json`.
`CHECK_DEADLOCK FALSE` everywhere: each system may come to rest (no more reloads,
saves or sessions within the bounds; a thread that has ended).

Fairness. `HookRegistry`: weak fairness of the call in progress — it runs on a
thread of its own and never blocks; no fairness for the arrival of a reload.
`FileWatcher`: weak fairness of the init thread, of the watcher's thread, of the
completion of an outstanding read, of finishing a save that has begun, and of the
second half of `stop()`; none for the user, other programs, or the call of
`stop()`. `VmpBypass`: weak fairness of the init thread only, since the packer
need not do anything. `FaultHandling`: weak fairness, thread by thread, of what a
thread does once it has faulted; a thread stuck in DbgHelp or waiting for a lost
lock has no such step, so no report is assumed to get through. `PluginLifecycle` and `RoguePlugin`:
strong fairness of the detaching loader's steps, which are enabled but for a lock of
the log that other threads take and give back, so this says that a mutex that becomes
free time and again is got in the end; and weak fairness of a log call that does not
wait for the loader lock coming to its end. No other thread is assumed to run.
`CrashJournal` and `PatchSite` state safety only.

Excused in the properties, because the code promises no more:

- `UnloadGivesBack` speaks of an unload that finds the plugin's threads at rest and no
  thread inside `log::get` (`caught` is empty): one that finds the init thread at work
  can leave a handler, a period or a watcher behind, as hazard `game_init.hpp:112`
  says, and its code is unmapped under it. That the C runtime may keep the DLL loaded
  while one of its threads runs is not relied on.
- `DetachReturns` excepts an unload that meets a lock of the log left by a fault, or
  one whose holder waits for the loader lock (`LogStuck`). The comment in `DllMain`
  says spdlog can block on the loader lock; the code avoids the join, not the log calls.
- `UnloadLeavesNoHook` excepts a loader whose `uninstall` found the init thread inside
  `install`: `g_active` was still false, so it did nothing, and the init thread may arm
  the hook while the rest of `DllMain` runs.
- `PatchedUnobserved` excepts a loader whose `uninstall` found the init thread in one of
  the two waits: with `g_active` cleared a wait that is about to begin returns without
  a word, and `install_all` may patch before the unmapping.
- `WaitingMeansCurrent` and `NoticedChangesLoad` excuse changes that were never noticed
  (`missed`), `CrashIsReported` and `UnloadIsQuiet` a record two threads have muddled.
- `ReportsEnd` excuses a thread that waits for a lock somebody faulted under, or for a
  symbol initialisation that never returned.
- `NewestLanguageSet` excuses a switch during the game's own startup, and says nothing
  while the hook is disabled: the language then waits for the reload that enables it.
  `OwnEdition` speaks of a game that has written the field after `install` overwrote it.
- `EnabledAtRest` and `ToldAtRest` are about the time between two calls.

### What the violated runs mean

- `SkippedStaysOff`: `install_all` clears `enabled` of a hook whose install
  failed; `reload` stores the flag of the file without asking `installed`, so a
  site left armed by the failed install acts again.
- `EditsApply`: the INI is read before the pattern scan and the installation, the
  watcher starts after them and does not compare.
- `NoNullHandle`: `uninstall` empties the object through which a thread inside
  `hk_create_thread` is about to call.
- `ExitIsQuiet`: on process exit `DllMain` returns before `write_session_clean`.

## Proofs

`HookRegistry_proof` proves, for every `N`, dependency graph, installation order,
`Reloadable` set and number of reloads, that the specification has the type
invariant and the five safety invariants of the run, and that it implements
`RegistryContract`. Assumptions: those of `HookGraph` (hooks exist, dependencies
name other hooks, the order is a permutation that respects hard dependencies) and
`ReloadAssumption`. That `topo_sort` delivers such an order is a theorem of
`Operators_proof` (`SortDeliversInstallOrder`).

None of the safety properties is inductive: at rest `enabled` is right only
because of what each earlier point of the call has established. The inductive
invariant `IInv` says this per program point, for the part of the loop already
done: configs below `i` are of the current revision; flags below `i` are those of
the file; the greatest closed subset of the file's hooks never leaves `flags`,
and if a pass has changed nothing so far, what it visited is closed; stored flags
below `i` equal the local array; hooks whose slot has passed are enabled only if
installed, and disabled, uninstalled ones have a cause; a live or installed hook
has its dependencies installed; hooks below `i` have been told of the newest config. Each
lemma takes one group of actions; the lemma on the cascade uses that the union of
closed sets is closed. The refinement proof maps each action to a contract
action or a stutter, with `IInv` supplying the two facts the contract demands at
the end of a call.

`PatchSite_proof` proves all six properties of patching for every set of plans, every
number of threads and of reloads. Assumptions, which TLC evaluates on `AllPlans`, the
plans of the repository: the shape of a plan; `EmulationAssumption`, a callback
emulates what its own request has erased or what the write right before has; and
`PlacementAssumption`, what the installs have in common in where they patch: erased
sites lie in nobody else's bytes, what would touch a relative jump comes before it,
only plain writes are repeated by a reload, and where two requests overlap an
earlier record holds the bytes. Both are facts about addresses chosen in the install
functions, and nothing in the patching layer enforces them.

For `AtMostOnce` and `OneFaultPerThread` the inductive invariant ties the three actors together: when a jump with an
emulating callback is about to be made its first byte is a nop (this is where
`make_hook`'s refusal after a failed erase, and `install`'s return after any failure,
are used), hence the trampoline does not begin with the game's bytes, hence a visit
that has run the callback does not run them again; and a fault counted for a thread
is on its way to `s_faulted` or there. `PatchTypeCorrect` has an invariant of its own: jumps
and what they moved lie within the footprint of their request, so records do. For
`OneSiteUnserved` and `JumpsIntact`, `SiteInv` adds that an erased site without a
jump is the current one and about to get its jump, unless the install has failed, and
that only sites the install has reached have jumps. For `OriginalsAreTheGames` and
`ChangesAreAttributable`, `RegistryInv` says that a request is recorded before it
stores and an install that stops at its first failure has recorded all it got past
(`ProgressInv`), that every changed byte lies in a recorded footprint or under the
jump about to be recorded (`ChangedInv`), and that of those last bytes the ones that
were not the game's any more are in an older record (`GapInv`). A record behind a
longer one cannot hide it from `find_nearby`, because nothing begins in a range
longer than `find_nearby` reaches.

`FaultHandling_proof`: `FaultInv` counts, per thread, the reports open on its stack
against the flag that guards them (at most one frame of a kind, and the flag is set
where there is one), says that a filter runs only on behalf of a guard, that the
initialising thread or the owner of the mutex is where it must be to hold it, and
that a handler is about to run only for a guard that has been explained. A flag
that is set while its thread is in no report marks a thread in `broken`: that is what
`FaultsContained` turns on.

`RoguePlugin_proof` has two invariants. For the lifecycle: while the plugin is
loaded, init thread and watcher are never both at work, so the timer's flag and period are
those of one caller; from the moment a quiet detach begins, each later program point
of `DllMain` finds what the steps before it have given back still given back, up to
the unmapping. For
the language: once the game has written the field after `install` overwrote it, the
id behind the stub is that of the real edition and the field holds all languages
as soon as the callback has stored them (`EditionKept`; without that write nothing is
claimed of the id); and `s_current_language` agrees with both globals wherever no
switch is under way.

`FileWatcher_proof`: whoever calls `stop` has a watcher (`Created`); after the request
at most one callback is begun (`LateInv`); and a content that is newer than the
loaded one is on its way — as a record, as an overflow, as a read that has
completed, or as the turn in progress (`CurrentInv`). `VmpBypass_proof`: an armed hook
is active unless the init thread is between the two stores, and a loader past
`uninstall` leaves one only if it found `install` still at work (`HookInv`), until the hook
is armed nobody is inside it, and until `install` is done everybody inside reaches the
real function (`CallInv`), and the game is patched only behind the waits (`PackerInv`). `CrashJournal_proof`: what is
installed and not written is the one hook in progress (`JournalInv`). For the two
properties of the reader, `ReportInv` follows the file through the sessions: while a
session owns the record, the file starts with its `session_start`, has every text on
a line of its own but for the newline about to be written, names what `last` says was
written, and the write position is at its end (`WritingInv`, `AtEnd`); a crash freezes
this (`CrashInv`), sessions that die before they start a record only read it or
leave it, and an unload that finds the init thread done appends `session_clean` on a
line of its own before it lets go (`UnloadInv`). The parser of `read_previous` is
stated by the lines it finds instead of the loop that finds them, because what a fold
computes for every file is a fact by induction.

`Operators_proof` proves `topo_sort`: types, verdict, order, and that an accepted
order is what `HookGraph` assumes. `SortInv` says that each hook has as many slots in
the rows of `adj` as it has dependencies, one or two for each (`ListInv`), that
`in_degree` counts the slots the drain loop has not been to (`CountInv`), that the
queue holds, once each, the hooks whose degree is zero, as far as they have been looked
at (`QueueInv`), each behind its dependencies (`OrderInv`), and that rows grow by one
at most where no dependency is doubled (`RowInv`). A hook that is not queued at the end
has an open slot, so one dependency that is not queued either: that is the cycle.

`Operators_proof` also proves, for all inputs, that the modes overrun their buffer only
if `reserve` failed and kept the old one (`ModesFitUnlessKept`: `rebuild` does not look
at its answer), that the guarded index lies in its list, that the two viewport callbacks use one ratio, that
the fitted picture stays on the screen and what it is at both ends of the stretch,
that no INI and no display leaves an aspect that cannot be divided by
(`AspectStaysPositive`; the ratio loaded into `xmm0` is proper too, unless the fix is on,
the INI gives none and the display has no size: the load that would have set the
register is erased, and it holds what it held), that `ResolutionFix` keeps exactly the modes in a standard
proportion but for 21:9 (`FilterKeepsProportions`, by the multiples of coprime sides
that differ by one), that the mouse filter bounds its output, cancels the lag where it can and carries
what it cannot, that the gap between its estimate, which goes on unrounded, and the game's
lag, which gets whole counts, stays within half a count or does not grow where `reset`
in a menu has made it wider (`GapStaysSmall`), that frame times and weights stay plausible, that
no text of the INI reaches a value a callback has no case for, that the searched range
holds every executable page of `.text`, and that
`restore_debug_breakin` writes the bytes the loader had mapped or nothing. The last
assumes a section table in ascending order without overlaps; an address in the part
of a section that the file does not hold is mapped to whatever follows in the file,
which the theorem excludes.

The type invariant of every component with a state is proved, and only the runs of
`TopoSort` and `CrashJournal` check theirs as well. With these, every safety property
of a passing run is proved.

Model-checked only: liveness (`CallsEnd`, `NoticedChangesLoad`, `StopEndsLoop`,
`WaitsEnd`, `ReportsEnd`, `DetachReturns`), which needs fairness and
`ENABLED` and is outside what this prover does; and of `OperatorChecks` what follows a sequence
of calls or needs a sorted list to exist (`ListIsSearchable`, `MotionAddsUp`), facts
by induction over data, and what small inputs settle (`PauseAgrees`, the values of the
repository's tests). No module that is proved about, or that such a module
uses, has a `RECURSIVE` operator.

## Not modelled, and the plan

Not modelled: the build; the text of logs and reports and the content of dumps; how
the pattern library matches (its result is the set `found`); the camera matrix
arithmetic and rounding of floats; one config seen half old and half new by a callback,
whose fields are independent atomics and promise nothing to each other; how safetyhook
frees a trampoline a thread may return to, which the repository does not contain; what
DbgHelp does when a dump is written beside a symbol lookup.

Observed while modelling, not a disagreement any run shows:
`games/ac/syndicate/README.md:109` counts 21:9 among the ratios `ResolutionFix` keeps,
but a ratio is reduced first and 21:9 reduces to 7:3, so that entry never matches
(`TwentyOneByNineIsDropped`); the panels sold as 21:9 are 64:27 or 43:18, which do.
`rebuild` (`full_mode_list.cpp:114`) ignores the answer of the game's `reserve`, and
`ViewportRatioLoad` leaves `xmm0` as it is where it knows no ratio.

What would come next: the two callbacks of ViewportFitting with a reload or a
pause between them; the packed journal text with its timestamps.
