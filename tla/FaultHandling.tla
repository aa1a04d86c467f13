--------------------------- MODULE FaultHandling ----------------------------
(***************************************************************************)
(* What happens when code faults: the system asks the vectored handler     *)
(* first, which may report, and then searches the stack for a __try whose  *)
(* filter takes the exception: that of guarded_callback or guarded_install.*)
(* Reporting is itself code that can fault, that takes locks and that calls*)
(* DbgHelp, on whatever thread of the game has faulted.                    *)
(*                                                                         *)
(* External, modelled from how src/ uses it: the dispatching of exceptions,*)
(* the handlers of the game and of the system behind ours, and whether an  *)
(* unwind caused by a fault runs destructors (with the exception model the *)
(* build uses it need not).                                                *)
(***************************************************************************)
EXTENDS Integers, FiniteSets

CONSTANTS
    Thread,       \* threads that run hook callbacks or install hooks
    Callback,     \* the callbacks
    Install,      \* stands for guarded_install where a callback could stand
    None, Lost,   \* no thread; a thread that has gone without giving back
    MaxForeign,   \* k_max_foreign_faults
    MaxFaults     \* bound on the exceptions of a behaviour

FaultAssumption ==
    /\ MaxForeign \in Nat
    /\ MaxFaults \in Nat
    /\ None # Lost
    /\ {None, Lost} \intersect (Thread \union Callback \union {Install}) = {}
    /\ Install \notin Callback
    /\ \A t \in Thread : t \notin {"new", "ready", "absent"}
    /\ {None, Lost} \intersect {"new", "ready", "absent"} = {}

ASSUME FaultConstants == FaultAssumption

Guard == Callback \union {Install}

\* Where an exception comes from: code of the plugin, the game's code in or near
\* a patch, code elsewhere; or it is no hardware exception, or a stack overflow.
Exception == {"plugin", "patched", "elsewhere", "other"}

Lock == {"log", "patches"}      \* the mutex of the log sink; g_mutex of the
                                \* patch registry

Reporting == {"veh", "header", "symbols", "init", "lookup", "trace", "dump"}
Place == {"run", "raised", "search", "handled"} \union Reporting

VARIABLES
    at,         \* [thread -> Place]
    guard,      \* [thread -> the __try it is in, or None]
    exc,        \* [thread -> the exception being handled, "other" if none]
    frames,     \* [thread -> reports open on its stack, of either handler]
    inVeh,      \* threads whose tl_in_veh is set
    inFilter,   \* threads whose tl_in_fault_handler is set
    foreign,    \* foreign_faults
    foreignLogs,\* reports written because of it
    symInit,    \* the statics of resolve_symbols: "new", "ready", "absent",
                \* or the thread that is initialising them
    dbghelp,    \* owner of g_dbghelp_mutex
    held,       \* [lock -> the thread that faulted while holding it]
    hung,       \* threads that DbgHelp never returns to
    faulted,    \* callbacks whose s_faulted is set
    explained,  \* guards for which a filter has written its whole report
    broken,     \* threads that have faulted inside a report of theirs
    death,      \* how the process died: its thread, guard and exception
    raised      \* exceptions so far

flags == <<inVeh, inFilter>>
symbols == <<symInit, dbghelp, hung>>
outcome == <<faulted, explained, broken, death>>
counts == <<foreign, foreignLogs>>
vars == <<at, guard, exc, frames, flags, counts, symbols, held, outcome, raised>>

Alive == death.thread = None
Owner == Thread \union {None, Lost}

TypeOK ==
    /\ at \in [Thread -> Place]
    /\ guard \in [Thread -> Guard \union {None}]
    /\ exc \in [Thread -> Exception]
    /\ frames \in [Thread -> [veh : Nat, filter : Nat]]
    /\ inVeh \subseteq Thread
    /\ inFilter \subseteq Thread
    /\ foreign \in Nat
    /\ foreignLogs \in Nat
    /\ symInit \in {"new", "ready", "absent"} \union Thread \union {Lost}
    /\ dbghelp \in Owner
    /\ held \in [Lock -> Owner]
    /\ hung \subseteq Thread
    /\ faulted \subseteq Callback
    /\ explained \subseteq Guard
    /\ broken \subseteq Thread
    /\ death \in [thread : Thread \union {None}, guard : Guard \union {None},
                  exc : Exception]
    /\ raised \in 0 .. MaxFaults

Init ==
    /\ at = [t \in Thread |-> "run"]
    /\ guard = [t \in Thread |-> None]
    /\ exc = [t \in Thread |-> "other"]
    /\ frames = [t \in Thread |-> [veh |-> 0, filter |-> 0]]
    /\ inVeh = {}
    /\ inFilter = {}
    /\ foreign = 0
    /\ foreignLogs = 0
    /\ symInit = "new"
    /\ dbghelp = None
    /\ held = [l \in Lock |-> None]
    /\ hung = {}
    /\ faulted = {}
    /\ explained = {}
    /\ broken = {}
    /\ death = [thread |-> None, guard |-> None, exc |-> "other"]
    /\ raised = 0

Moves(t, from, to) ==
    /\ Alive
    /\ at[t] = from
    /\ at' = [at EXCEPT ![t] = to]

-----------------------------------------------------------------------------
(* The code that is guarded, and its faults.                               *)

\* guarded_callback or guarded_install begins to run what it protects.
Enter(t, g) ==
    /\ Alive
    /\ at[t] = "run" /\ guard[t] = None
    /\ g \notin faulted
    /\ guard' = [guard EXCEPT ![t] = g]
    /\ UNCHANGED <<at, exc, frames, flags, counts, symbols, held, outcome,
                   raised>>

Leave(t) ==
    /\ Alive
    /\ at[t] = "run" /\ guard[t] # None
    /\ guard' = [guard EXCEPT ![t] = None]
    /\ UNCHANGED <<at, exc, frames, flags, counts, symbols, held, outcome,
                   raised>>

\* A report waits for a lock that somebody faulted under, or for the statics
\* that another thread initialises; a thread stuck in DbgHelp does nothing.
Blocked(t) ==
    \/ t \in hung
    \/ at[t] \in {"veh", "header", "trace", "dump"} /\ held["log"] # None
    \/ at[t] = "symbols" /\ symInit \notin {"new", "ready", "absent"}

\* What the thread may be holding: reports log, guarded code logs and registers
\* patches.
LocksAround(t) ==
    IF at[t] = "run"
      THEN IF guard[t] = None THEN {} ELSE Lock
      ELSE IF at[t] \in {"veh", "header", "trace", "dump"} THEN {"log"} ELSE {}

\* The thread raises e, perhaps inside one of those locks.
Raise(t, e) ==
    /\ raised < MaxFaults
    /\ at[t] \in {"run"} \union Reporting
    /\ ~Blocked(t)
    /\ Moves(t, at[t], "raised")
    /\ exc' = [exc EXCEPT ![t] = e]
    /\ broken' = IF at[t] = "run" THEN broken ELSE broken \union {t}
    /\ \/ UNCHANGED held
       \/ \E l \in LocksAround(t) :
            held[l] = None /\ held' = [held EXCEPT ![l] = t]
    /\ raised' = raised + 1
    /\ UNCHANGED <<guard, frames, flags, counts, symbols, faulted, explained,
                   death>>

-----------------------------------------------------------------------------
(* veh_handler.                                                            *)

Open(t, kind) == frames' = [frames EXCEPT ![t][kind] = @ + 1]

\* Mutant: the flag is not looked at.
Declines_NoFlag(t) == exc[t] = "other"

\* Not a fault the handler reports, or one that its own report has raised.
Declines(t) == exc[t] = "other" \/ t \in inVeh

VehDeclines(t) ==
    /\ Declines(t)
    /\ Moves(t, "raised", "search")
    /\ UNCHANGED <<guard, exc, frames, flags, counts, symbols, held, outcome,
                   raised>>

\* An address of the plugin, or in or near a patch: find_patch and find_nearby
\* take the lock of the patch registry.
VehReportsOurs(t) ==
    /\ ~Declines(t)
    /\ exc[t] = "plugin" \/ (exc[t] = "patched" /\ held["patches"] = None)
    /\ Moves(t, "raised", "veh")
    /\ inVeh' = inVeh \union {t}
    /\ Open(t, "veh")
    /\ UNCHANGED <<guard, exc, inFilter, counts, symbols, held, outcome, raised>>

\* Any other fault counts, and the first MaxForeign are reported.
VehCountsForeign(t) ==
    /\ ~Declines(t)
    /\ exc[t] = "elsewhere" /\ held["patches"] = None
    /\ foreign' = foreign + 1
    /\ IF foreign < MaxForeign
         THEN /\ Moves(t, "raised", "veh")
              /\ inVeh' = inVeh \union {t}
              /\ Open(t, "veh")
              /\ foreignLogs' = foreignLogs + 1
         ELSE /\ Moves(t, "raised", "search")
              /\ UNCHANGED <<inVeh, frames, foreignLogs>>
    /\ UNCHANGED <<guard, exc, inFilter, symbols, held, outcome, raised>>

\* The report is written and the guard object clears the flag.
VehReturns(t) ==
    /\ ~Blocked(t)
    /\ Moves(t, "veh", "search")
    /\ inVeh' = inVeh \ {t}
    /\ frames' = [frames EXCEPT ![t].veh = @ - 1]
    /\ UNCHANGED <<guard, exc, inFilter, counts, symbols, held, outcome, raised>>

-----------------------------------------------------------------------------
(* fault_filter_impl.                                                      *)

FilterTakes(t) == guard[t] # None /\ exc[t] # "other" /\ t \notin inFilter

\* Mutant: re-entered, the filter asks for its handler and reports nothing.
FilterBegins_ReentryHandled(t) ==
    /\ guard[t] # None /\ exc[t] # "other"
    /\ Moves(t, "search", IF t \in inFilter THEN "handled" ELSE "header")
    /\ inFilter' = inFilter \union {t}
    /\ Open(t, "filter")
    /\ UNCHANGED <<guard, exc, inVeh, counts, symbols, held, outcome, raised>>

FilterBegins(t) ==
    /\ FilterTakes(t)
    /\ Moves(t, "search", "header")
    /\ inFilter' = inFilter \union {t}
    /\ Open(t, "filter")
    /\ UNCHANGED <<guard, exc, inVeh, counts, symbols, held, outcome, raised>>

\* log_crash_report up to the stack trace.
WriteHeader(t) ==
    /\ ~Blocked(t)
    /\ Moves(t, "header", "symbols")
    /\ UNCHANGED <<guard, exc, frames, flags, counts, symbols, held, outcome,
                   raised>>

\* resolve_symbols loads DbgHelp and calls SymInitialize in the initialisers of
\* its statics: one thread does, others wait.
BeginSymInit(t) ==
    /\ symInit = "new"
    /\ Moves(t, "symbols", "init")
    /\ symInit' = t
    /\ UNCHANGED <<guard, exc, frames, flags, counts, dbghelp, hung, held,
                   outcome, raised>>

EndSymInit(t) ==
    /\ ~Blocked(t)
    /\ symInit' \in {"ready", "absent"}
    /\ Moves(t, "init", IF symInit' = "ready" THEN "symbols" ELSE "trace")
    /\ UNCHANGED <<guard, exc, frames, flags, counts, dbghelp, hung, held,
                   outcome, raised>>

\* Mutant: the report goes on whether or not it has the lock.
TryLock_Ignored(t) ==
    /\ symInit = "ready"
    /\ dbghelp' = t
    /\ Moves(t, "symbols", "lookup")

\* Mutant: a lock that waits.
TryLock_Waits(t) ==
    /\ symInit = "ready" /\ dbghelp = None
    /\ dbghelp' = t
    /\ Moves(t, "symbols", "lookup")

\* The lock is tried once; without it the report has no symbols.
TryLock(t) ==
    \/ /\ symInit = "ready" /\ dbghelp = None
       /\ dbghelp' = t
       /\ Moves(t, "symbols", "lookup")
    \/ /\ symInit = "absent" \/ (symInit = "ready" /\ dbghelp # None)
       /\ Moves(t, "symbols", "trace")
       /\ UNCHANGED dbghelp

LookupSymbols(t) ==
    /\ TryLock(t)
    /\ UNCHANGED <<guard, exc, frames, flags, counts, symInit, hung, held,
                   outcome, raised>>

EndLookup(t) ==
    /\ ~Blocked(t)
    /\ Moves(t, "lookup", "trace")
    /\ dbghelp' = None
    /\ UNCHANGED <<guard, exc, frames, flags, counts, symInit, hung, held,
                   outcome, raised>>

WriteTrace(t) ==
    /\ ~Blocked(t)
    /\ Moves(t, "trace", "dump")
    /\ UNCHANGED <<guard, exc, frames, flags, counts, symbols, held, outcome,
                   raised>>

\* Mutant: the flag stays set after a report that went well.
FilterReturns_FlagStays(t) == UNCHANGED inFilter

FilterReturns(t) == inFilter' = inFilter \ {t}

\* write_minidump returns, whether or not there is a dump, and the filter asks
\* for its handler.
EndDump(t) ==
    /\ ~Blocked(t)
    /\ Moves(t, "dump", "handled")
    /\ FilterReturns(t)
    /\ explained' = explained \union {guard[t]}
    /\ UNCHANGED <<guard, exc, frames, inVeh, counts, symbols, held, faulted,
                   broken, death, raised>>

\* DbgHelp does not return.  One thread at most, to keep the instance small.
Hang(t) ==
    /\ Alive
    /\ at[t] \in {"init", "lookup", "dump"}
    /\ hung = {}
    /\ hung' = {t}
    /\ UNCHANGED <<at, guard, exc, frames, flags, counts, symInit, dbghelp, held,
                   outcome, raised>>

-----------------------------------------------------------------------------
(* Leaving the frames of the reports.                                      *)

\* The stack is unwound to a handler.  Destructors run, or what they would have
\* given back is lost; tl_in_fault_handler is cleared by a statement, which does
\* not run.
Unwind(t, clean) ==
    LET left == IF clean THEN None ELSE Lost
    IN  /\ guard' = [guard EXCEPT ![t] = None]
        /\ exc' = [exc EXCEPT ![t] = "other"]
        /\ frames' = [frames EXCEPT ![t] = [veh |-> 0, filter |-> 0]]
        /\ inVeh' = IF clean /\ frames[t].veh > 0 THEN inVeh \ {t} ELSE inVeh
        /\ held' = [l \in Lock |-> IF held[l] = t THEN left ELSE held[l]]
        /\ dbghelp' = IF dbghelp = t THEN left ELSE dbghelp
        /\ symInit' = IF symInit # t THEN symInit
                      ELSE IF clean THEN "new" ELSE Lost

\* The handler of the __try: a callback is disabled, an install has failed.
ExecuteHandler(t, clean) ==
    /\ Moves(t, "handled", "run")
    /\ faulted' = faulted \union ({guard[t]} \intersect Callback)
    /\ Unwind(t, clean)
    /\ UNCHANGED <<inFilter, counts, hung, explained, broken, death, raised>>

\* None of our filters takes it: a handler of the game (or, for a C++ exception,
\* the catch around install_all) does.
Swallowed(t, clean) ==
    /\ ~FilterTakes(t)
    /\ Moves(t, "search", "run")
    /\ Unwind(t, clean)
    /\ UNCHANGED <<inFilter, counts, hung, outcome, raised>>

\* Nobody does.
Dies(t) ==
    /\ Alive
    /\ at[t] = "search"
    /\ ~FilterTakes(t)
    /\ death' = [thread |-> t, guard |-> guard[t], exc |-> exc[t]]
    /\ UNCHANGED <<at, guard, exc, frames, flags, counts, symbols, held, faulted,
                   explained, broken, raised>>

-----------------------------------------------------------------------------

\* What a thread does of itself once it has faulted.
Handle(t) ==
    \/ VehDeclines(t) \/ VehReportsOurs(t) \/ VehCountsForeign(t)
    \/ VehReturns(t)
    \/ FilterBegins(t) \/ WriteHeader(t) \/ BeginSymInit(t) \/ EndSymInit(t)
    \/ LookupSymbols(t) \/ EndLookup(t) \/ WriteTrace(t) \/ EndDump(t)
    \/ \E clean \in BOOLEAN : ExecuteHandler(t, clean) \/ Swallowed(t, clean)
    \/ Dies(t)

Next ==
    \E t \in Thread :
        \/ \E g \in Guard : Enter(t, g)
        \/ Leave(t)
        \/ \E e \in Exception : Raise(t, e)
        \/ Hang(t)
        \/ Handle(t)

Spec == Init /\ [][Next]_vars /\ \A t \in Thread : WF_vars(Handle(t))

-----------------------------------------------------------------------------
(* Properties.                                                             *)

\* The comment on tl_in_veh, and the bound on foreign faults: however faults
\* nest, a thread has at most one report of each handler open, and all threads
\* together log MaxForeign faults that are not the plugin's.
ReportsBounded ==
    /\ \A t \in Thread : frames[t].veh <= 1 /\ frames[t].filter <= 1
    /\ foreignLogs <= MaxForeign

\* A fault of a callback or an install never takes the game down, on any thread
\* and however many there have been, unless a report of that same thread has
\* itself faulted before.
FaultsContained ==
    (~Alive /\ death.guard # None /\ death.exc # "other")
        => death.thread \in broken

\* The comment in resolve_symbols: two threads that fault at once are never both
\* in DbgHelp's symbol functions, initialising them included.
SymbolCallsExclude ==
    \A t, u \in Thread :
        (at[t] \in {"init", "lookup"} /\ at[u] \in {"init", "lookup"}) => t = u

\* A callback is never switched off without a complete report of why.
DisabledIsExplained == faulted \subseteq explained

\* The same comment: a report ends although another thread is stuck in DbgHelp,
\* looking up a symbol or writing a dump.  Excused: the initialisation of the
\* symbols is what is stuck, or a fault has happened under a lock of the log or
\* of the patch registry.
Excused(t) ==
    \/ t \in hung
    \/ symInit \in hung \union {Lost}
    \/ \E l \in Lock : held[l] # None
ReportsEnd ==
    \A t \in Thread :
        (at[t] # "run") ~> (at[t] = "run" \/ ~Alive \/ Excused(t))
=============================================================================
