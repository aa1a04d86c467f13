---------------------------- MODULE CrashJournal ----------------------------
(***************************************************************************)
(* The crash journal over several sessions of the game.  In each the init  *)
(* thread opens the journal, reads what the previous session left, starts  *)
(* a new record and adds a line per installed hook; the loader closes the  *)
(* record when it unloads the plugin.  A session ends by a crash at any    *)
(* step, by a normal process exit, or by an unload.                        *)
(*                                                                         *)
(* A line is written by two calls, its text and its newline, so the file   *)
(* is a sequence of texts and newlines; timestamps are left out.           *)
(***************************************************************************)
EXTENDS Integers, Sequences

CONSTANTS
    NumHooks,       \* the hooks are 1 .. NumHooks, in installation order
    MaxSessions     \* bound on the sessions

ASSUME BoundsAssumption == NumHooks \in Nat /\ MaxSessions \in Nat \ {0}

Hook == 1 .. NumHooks
Nobody == 0         \* a text that names no hook, or a name nobody can read

Text ==
    [kind : {"session_start", "init_complete", "session_clean", "newline"},
     hook : {Nobody}]
    \union [kind : {"hook_installed"}, hook : Hook]

VARIABLES
    file,       \* the journal on disk
    open,       \* g_file holds a handle
    pos,        \* how many texts of the file lie before its write position
    init,       \* pc of the init thread
    next,       \* the hook the installation loop has come to
    loader,     \* "running", "clean", "clean_nl", "close" or "unloaded"
    alive,      \* the process of the current session exists
    session,    \* number of the current session
    warned,     \* the hooks this session reported as active at a crash
    last        \* history of the record in the file: the session that wrote it
                \* and how that ended, the hooks installed and written down

vars == <<file, open, pos, init, next, loader, alive, session, warned, last>>

InitPC == {"open", "read", "truncate", "start", "start_nl", "install",
           "installed", "installed_nl", "complete", "complete_nl", "done"}

TypeOK ==
    /\ file \in Seq(Text)
    /\ pos \in 0 .. Len(file)
    /\ init \in InitPC
    /\ next \in 1 .. NumHooks + 1
    /\ loader \in {"running", "clean", "clean_nl", "close", "unloaded"}
    /\ {open, alive} \subseteq BOOLEAN
    /\ session \in 1 .. MaxSessions
    /\ warned \subseteq Hook \union {Nobody}
    /\ last.session \in 1 .. session
    /\ last.end \in {"none", "crash", "exit", "unload", "muddled"}
    /\ last.installed \subseteq Hook
    /\ last.written \subseteq Hook

\* The record of a session that has only begun.
Fresh(n) == [session |-> n, end |-> "none", installed |-> {}, written |-> {}]

\* The file holds the record of the session that is running.
Owned == last.session = session

Init ==
    /\ file = <<>>
    /\ open = FALSE
    /\ pos = 0
    /\ init = "open"
    /\ next = 1
    /\ loader = "running"
    /\ alive = TRUE
    /\ session = 1
    /\ warned = {}
    /\ last = Fresh(1)

-----------------------------------------------------------------------------
(* Reading and writing the file.                                           *)

\* One WriteFile of write_line, at the position of the handle; without a handle
\* nothing is written.  Over an old record it takes the place of one text: the
\* line the loader would write has the length of the line that starts a record.
WriteText(kind, hook) ==
    LET text == [kind |-> kind, hook |-> hook] IN
    /\ file' = CASE ~open -> file
                 [] open /\ pos < Len(file) -> [file EXCEPT ![pos + 1] = text]
                 [] open /\ pos = Len(file) -> Append(file, text)
    /\ pos' = IF open THEN pos + 1 ELSE pos

\* parse_journal goes by lines, and knows a line by the text it begins with.
NewLine == [kind |-> "newline", hook |-> Nobody]

BeginsWith(k, kind) ==
    file[k].kind = kind /\ (k = 1 \/ file[k - 1] = NewLine)

\* The lines of a kind in the last record: a session_start forgets all before it.
Lines(kind) ==
    {k \in DOMAIN file :
        /\ BeginsWith(k, kind)
        /\ \A s \in DOMAIN file : BeginsWith(s, "session_start") => s <= k}

\* The name on the line is all that follows; a second text spoils it.
NameAt(k) ==
    IF k + 1 \in DOMAIN file /\ file[k + 1] # NewLine THEN Nobody
                                                     ELSE file[k].hook

\* read_previous: an empty or missing journal counts as clean.
Previous ==
    [clean  |-> file = <<>> \/ Lines("session_clean") # {},
     active |-> {NameAt(k) : k \in Lines("hook_installed")}]

-----------------------------------------------------------------------------
(* The init thread.                                                        *)

Running(pc) == alive /\ init = pc

OpenJournal ==
    /\ Running("open")
    /\ open' \in BOOLEAN
    /\ pos' = 0
    /\ init' = "read"
    /\ UNCHANGED <<file, next, loader, alive, session, warned, last>>

\* read_previous and the warnings of init_game.
ReadPrevious ==
    /\ Running("read")
    /\ warned' = IF Previous.clean THEN {} ELSE Previous.active
    /\ init' = IF open THEN "truncate" ELSE "install"
    /\ UNCHANGED <<file, open, pos, next, loader, alive, session, last>>

\* Mutant: the file is rewound but not cut off.
Truncate_RewindOnly ==
    /\ Running("truncate")
    /\ pos' = 0
    /\ last' = IF open THEN Fresh(session) ELSE last
    /\ init' = "start"
    /\ UNCHANGED <<file, open, next, loader, alive, session, warned>>

\* write_session_start, in three calls.
Truncate ==
    /\ Running("truncate")
    /\ file' = IF open THEN <<>> ELSE file
    /\ pos' = 0
    /\ last' = IF open THEN Fresh(session) ELSE last
    /\ init' = "start"
    /\ UNCHANGED <<open, next, loader, alive, session, warned>>

WriteStart ==
    /\ Running("start")
    /\ WriteText("session_start", Nobody)
    /\ init' = "start_nl"
    /\ UNCHANGED <<open, next, loader, alive, session, warned, last>>

\* The newline that ends a line of the init thread.
AfterNewline(pc) ==
    CASE pc = "start_nl" -> "install"
      [] pc = "installed_nl" -> "install"
      [] pc = "complete_nl" -> "done"

WriteNewline ==
    /\ \E pc \in {"start_nl", "installed_nl", "complete_nl"} :
         Running(pc) /\ init' = AfterNewline(pc)
    /\ WriteText("newline", Nobody)
    /\ UNCHANGED <<open, next, loader, alive, session, warned, last>>

\* Mutant: the loop does not end with the last hook.
Install_NoEnd ==
    /\ Running("install")
    /\ next' = next + 1
    /\ UNCHANGED <<file, open, pos, init, loader, alive, session, warned,
                   last>>

\* Mutant: a hook that was skipped is written down as well.
Install_JournalsAll ==
    /\ Running("install")
    /\ next <= NumHooks
    /\ init' = "installed"
    /\ UNCHANGED <<file, open, pos, next, loader, alive, session, warned,
                   last>>

\* One turn of install_all: the hook is skipped or its install fails, or it is
\* installed; an exception ends the init thread.
Install ==
    /\ Running("install")
    /\ next <= NumHooks
    /\ \/ next' = next + 1 /\ UNCHANGED <<init, last>>
       \/ /\ init' = "installed"
          /\ last' = IF open /\ Owned
                       THEN [last EXCEPT !.installed = @ \union {next}]
                       ELSE last
          /\ UNCHANGED next
       \/ init' = "done" /\ UNCHANGED <<next, last>>
    /\ UNCHANGED <<file, open, pos, loader, alive, session, warned>>

\* write_hook_installed.
WriteInstalled ==
    /\ Running("installed")
    /\ WriteText("hook_installed", next)
    /\ last' = IF open /\ Owned THEN [last EXCEPT !.written = @ \union {next}]
                                ELSE last
    /\ next' = next + 1
    /\ init' = "installed_nl"
    /\ UNCHANGED <<open, loader, alive, session, warned>>

InstallDone ==
    /\ Running("install")
    /\ next > NumHooks
    /\ init' = "complete"
    /\ UNCHANGED <<file, open, pos, next, loader, alive, session, warned,
                   last>>

WriteComplete ==
    /\ Running("complete")
    /\ WriteText("init_complete", Nobody)
    /\ init' = "complete_nl"
    /\ UNCHANGED <<open, next, loader, alive, session, warned, last>>

\* No thread of the plugin survives the unmapping of its code.
InitStep ==
    /\ loader # "unloaded"
    /\ \/ OpenJournal \/ ReadPrevious \/ Truncate \/ WriteStart \/ WriteNewline
       \/ Install \/ WriteInstalled \/ InstallDone \/ WriteComplete

-----------------------------------------------------------------------------
(* The loader: DLL_PROCESS_DETACH with lpReserved null, while the init      *)
(* thread may still be running.                                            *)

\* Mutant: the journal is closed before the record is.
BeginUnload_ClosesFirst ==
    /\ alive
    /\ loader = "running"
    /\ loader' = "close"
    /\ last' = IF Owned /\ init = "done" THEN [last EXCEPT !.end = "unload"]
                                         ELSE last
    /\ UNCHANGED <<file, open, pos, init, next, alive, session, warned>>

BeginUnload ==
    /\ alive
    /\ loader = "running"
    /\ loader' = "clean"
    /\ last' = IF Owned /\ init = "done" THEN [last EXCEPT !.end = "unload"]
                                         ELSE last
    /\ UNCHANGED <<file, open, pos, init, next, alive, session, warned>>

\* A text that lands in the record of an earlier session muddles it.
WriteClean ==
    /\ alive
    /\ \/ loader = "clean" /\ WriteText("session_clean", Nobody)
          /\ loader' = "clean_nl"
       \/ loader = "clean_nl" /\ WriteText("newline", Nobody)
          /\ loader' = "close"
    /\ last' = IF open /\ ~Owned THEN [last EXCEPT !.end = "muddled"] ELSE last
    /\ UNCHANGED <<open, init, next, alive, session, warned>>

CloseJournal ==
    /\ alive
    /\ loader = "close"
    /\ open' = FALSE
    /\ loader' = "unloaded"
    /\ UNCHANGED <<file, pos, init, next, alive, session, warned, last>>

UnloadStep == BeginUnload \/ WriteClean \/ CloseJournal

-----------------------------------------------------------------------------
(* Ends of a session, and the next one.                                    *)

Dies(end) ==
    /\ alive
    /\ alive' = FALSE
    /\ last' = IF Owned THEN [last EXCEPT !.end = end] ELSE last
    /\ UNCHANGED <<file, open, pos, init, next, loader, session, warned>>

\* Only a crash of a plugin that is not being unloaded is to be reported.
Crash == Dies(IF loader = "running" THEN "crash" ELSE "muddled")

\* DllMain is called with lpReserved set and returns before the journal.
ExitProcess == loader = "running" /\ Dies("exit")

\* Nothing of the plugin is left running.  Its record is in order only if the
\* init thread had come to its end before the unload began.
EndUnloaded ==
    /\ loader = "unloaded"
    /\ init = "done"
    /\ Dies(IF last.end = "unload" THEN "unload" ELSE "muddled")

NewSession ==
    /\ ~alive
    /\ session < MaxSessions
    /\ session' = session + 1
    /\ alive' = TRUE
    /\ open' = FALSE
    /\ init' = "open"
    /\ next' = 1
    /\ loader' = "running"
    /\ warned' = {}
    /\ UNCHANGED <<file, pos, last>>

Next ==
    \/ InitStep \/ UnloadStep
    \/ Crash \/ ExitProcess \/ EndUnloaded \/ NewSession

Spec == Init /\ [][Next]_vars

-----------------------------------------------------------------------------
(* Properties, most of them at the moment the journal has been read.       *)

JustRead == alive /\ init = "truncate"

\* A crash is not forgotten and not embellished: whichever step of whichever
\* write it interrupted, and however many later sessions died before they could
\* start a record of their own, the next start that reads the journal reports
\* exactly the hooks that the crashed session had written down.  (An unload
\* that overtakes the init thread before it has started its record writes into
\* the old one, which is then "muddled" and promises nothing.)
CrashIsReported ==
    (JustRead /\ last.end = "crash") => warned = last.written

\* A plugin that was unloaded in good order is not reported.
UnloadIsQuiet ==
    (JustRead /\ last.end = "unload") => warned = {}

\* The journal never names a hook that was not installed, and lags behind the
\* installation by one hook at most.
JournalKeepsUp ==
    /\ last.written \subseteq last.installed
    /\ \A g, h \in last.installed \ last.written : g = h

\* "Previous session did not shut down cleanly" is not said of a game that was
\* quit normally.
ExitIsQuiet ==
    (JustRead /\ last.end = "exit") => warned = {}
=============================================================================
