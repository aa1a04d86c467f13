----------------------------- MODULE PatchSite ------------------------------
(***************************************************************************)
(* Patching the game's code while the game runs: one hook's install carries*)
(* out its requests (PatchPlans), threads of the game execute the patched  *)
(* sites and may fault in a callback, the patch registry remembers what was*)
(* there, and the fault handlers ask it whose an address is.  Hooks patch  *)
(* functions of their own, so each behaviour follows one plan.             *)
(*                                                                         *)
(* Abstracted: a byte is the game's own, a nop, part of a jump, or other   *)
(* bytes of the plugin; a store of several bytes is one step.  What        *)
(* safetyhook does (external): it moves the instructions under the jump    *)
(* into a trampoline that runs the callback first.                         *)
(***************************************************************************)
EXTENDS Integers, Sequences

CONSTANTS
    Plans,        \* the plans of the hooks
    Thread,       \* threads of the game
    MaxReloads    \* bound on the reloads that repeat a plan

RequestType ==
    [op : {"write", "replace", "hook"}, addr : Nat, len : Nat,
     puts : SUBSET {"nop", "game", "data"}, emulates : BOOLEAN]

\* What the installs of the repository have in common: a request that erases
\* leaves nops; a callback emulates what its own request has erased, or what the
\* request before it has; such an install gives up at the first failure.
PlansAssumption ==
    /\ MaxReloads \in Nat
    /\ \A p \in Plans :
        /\ p.onFail \in {"stop", "undo", "next"}
        /\ p.requests \in Seq(RequestType)
        /\ p.requests # <<>>

EmulationAssumption ==
    \A p \in Plans : \A i \in DOMAIN p.requests :
        p.requests[i].emulates =>
            /\ p.onFail = "stop"
            /\ \/ /\ p.requests[i].op = "replace"
                  /\ p.requests[i].len > 0
                  /\ p.requests[i].puts = {"nop"}
               \/ /\ p.requests[i].op = "hook"
                  /\ i > 1
                  /\ p.requests[i - 1].op = "write"
                  /\ p.requests[i - 1].addr = p.requests[i].addr
                  /\ p.requests[i - 1].len > 0
                  /\ p.requests[i - 1].puts = {"nop"}

Near == 5         \* bytes of a relative jump
Far == 14         \* bytes of an absolute one
Rest == 2         \* bytes left of the last instruction under a jump
Kept == 64        \* bytes of original_bytes
Nearby == 64      \* threshold of find_nearby

Span(addr, n) == addr .. (addr + n - 1)

\* The bytes a request may touch: a jump covers at most Far bytes and what is
\* left of the last instruction under it.
Footprint(r) ==
    Span(r.addr, r.len)
        \union IF r.op = "write" THEN {} ELSE Span(r.addr, Far + Rest)

\* The recorded bytes of the first request at its address, one that records
\* what it overwrites before it does so.
Leads(rs, k) ==
    rs[k].op # "hook" /\ \A l \in 1 .. (k - 1) : rs[l].addr # rs[k].addr
RecordedBytes(r) == Span(r.addr, r.len) \intersect Span(r.addr, Kept)

\* What the installs have in common in where they patch.  Only plain writes are
\* repeated by a reload.  An erased site lies in no other request's bytes; what
\* touches a jump of five bytes comes before it; nothing begins in a range
\* longer than find_nearby reaches.  Two requests overlap only in bytes that an
\* earlier one, or the first of the two, records.
PlacementAssumption ==
    \A p \in Plans : LET rs == p.requests IN
        /\ p.again => \A i \in DOMAIN rs : rs[i].op = "write"
        /\ \A i \in DOMAIN rs :
            /\ IF rs[i].op = "hook" THEN rs[i].len = 0 ELSE rs[i].len > 0
            /\ rs[i].op = "replace" => p.onFail = "stop"
        /\ \A i, j \in DOMAIN rs : i # j =>
            /\ rs[i].op = "replace" => rs[i].addr \notin Footprint(rs[j])
            /\ rs[i].op # "write" /\ i < j =>
                 Footprint(rs[j]) \intersect Span(rs[i].addr, Near) = {}
            /\ rs[i].len > Nearby => rs[j].addr \notin Footprint(rs[i])
            /\ \A a \in Footprint(rs[i]) \intersect Footprint(rs[j]) :
                 /\ p.onFail = "stop" /\ ~p.again
                 /\ \E k \in DOMAIN rs : /\ k <= i /\ k <= j /\ Leads(rs, k)
                                         /\ a \in RecordedBytes(rs[k])

ASSUME PlansAreWellFormed == PlansAssumption
ASSUME EmulationIsPrepared == EmulationAssumption
ASSUME PlansArePlaced == PlacementAssumption

VARIABLES
    plan,       \* the plan being followed
    step,       \* the request it is at
    pc,         \* "begin", "record", "store", "create" or "listed"
    result,     \* "busy", "ok" or "failed"
    reloads,    \* repetitions so far
    code,       \* [address -> what the byte is]
    patches,    \* g_patches: records of base, size and the addresses whose
                \* recorded original byte is the game's
    jump,       \* [request -> the jump made for it, see NoJump]
    faulted,    \* requests whose callback's s_faulted is set
    at,         \* [thread -> "out", "callback", "functor", "filter", "moved"]
    site,       \* [thread -> the request whose site it last entered]
    applied,    \* [thread -> how often the site's own effect was produced
                \* during that visit]
    faults      \* [thread -> [request -> faults it had in the callback]]

installVars == <<plan, step, pc, result, reloads>>
threadVars == <<faulted, at, site, applied, faults>>
vars == <<installVars, code, patches, jump, threadVars>>

Requests == DOMAIN plan.requests
Request == plan.requests[step]
Addresses == UNION {Footprint(plan.requests[i]) : i \in Requests}

\* A jump: its width, the bytes moved to the trampoline, and those of them
\* that were the game's.
NoJump == [width |-> 0, size |-> 0, games |-> {}]

SiteOps == {"replace", "hook"}
Sites == {i \in Requests : plan.requests[i].op \in SiteOps}

TypeOK ==
    /\ plan \in Plans
    /\ step \in Requests
    /\ pc \in {"begin", "record", "store", "create", "listed"}
    /\ result \in {"busy", "ok", "failed"}
    /\ reloads \in 0 .. MaxReloads
    /\ code \in [Addresses -> {"game", "nop", "jump", "data"}]
    /\ \A p \in patches : Span(p.base, p.size) \subseteq Addresses
                          /\ p.shows \subseteq Span(p.base, p.size)
    /\ \A i \in Requests : jump[i].width \in {0, Near, Far}
    /\ faulted \subseteq Sites
    /\ at \in [Thread -> {"out", "callback", "functor", "filter", "moved"}]
    /\ site \in [Thread -> Requests]
    /\ \A t \in Thread : applied[t] \in Nat /\ faults[t] \in [Requests -> Nat]

Init ==
    /\ plan \in Plans
    /\ step = 1
    /\ pc = "begin"
    /\ result = "busy"
    /\ reloads = 0
    /\ code = [a \in Addresses |-> "game"]
    /\ patches = {}
    /\ jump = [i \in Requests |-> NoJump]
    /\ faulted = {}
    /\ at = [t \in Thread |-> "out"]
    /\ site = [t \in Thread |-> 1]
    /\ applied = [t \in Thread |-> 0]
    /\ faults = [t \in Thread |-> [i \in Requests |-> 0]]

-----------------------------------------------------------------------------
(* The patch registry.                                                     *)

\* Mutant: a new record for an address replaces the one there.
Register_Latest(base, size, games) ==
    patches' = {p \in patches : p.base # base}
               \union {[base |-> base, size |-> size,
                        shows |-> games \intersect Span(base, Kept)]}

\* register_patch keeps the first record for an address.
Register(base, size, games) ==
    IF \E p \in patches : p.base = base
      THEN UNCHANGED patches
      ELSE patches' = patches
             \union {[base |-> base, size |-> size,
                      shows |-> games \intersect Span(base, Kept)]}

\* The record with the greatest base up to addr, if it reaches addr.
FindPatch(addr) ==
    {p \in patches :
        /\ addr \in Span(p.base, p.size)
        /\ \A q \in patches : q.base <= addr => q.base <= p.base}

\* The neighbours of addr in the order of bases, if close enough; the code
\* takes the closer one.
FindNearby(addr) ==
    {p \in patches :
        \/ /\ p.base < addr
           /\ \A q \in patches : q.base < addr => q.base <= p.base
           /\ addr - (p.base + p.size) \in 0 .. Nearby
        \/ /\ p.base > addr
           /\ \A q \in patches : q.base >= addr => q.base >= p.base
           /\ p.base - addr <= Nearby}

\* The vectored handler takes a fault at addr for one of the plugin's sites.
Attributable(addr) == FindPatch(addr) # {} \/ FindNearby(addr) # {}

Games(addrs) == {a \in addrs : code[a] = "game"}
Puts(addrs, byte) == [a \in Addresses |-> IF a \in addrs THEN byte ELSE code[a]]

-----------------------------------------------------------------------------
(* The install.                                                            *)

Advance ==
    /\ pc' = "begin"
    /\ IF step < Len(plan.requests)
         THEN step' = step + 1 /\ UNCHANGED result
         ELSE result' = "ok" /\ UNCHANGED step

\* Mutant: the moved bytes are put back, the hook is not dropped.
Fail_HooksStay ==
    IF plan.onFail = "next"
      THEN Advance /\ UNCHANGED <<code, jump>>
      ELSE /\ result' = "failed"
           /\ UNCHANGED <<step, pc, jump>>
           /\ IF plan.onFail = "undo"
                THEN code' = Puts(UNION {jump[i].games : i \in Requests}, "game")
                ELSE UNCHANGED code

\* The request failed: install gives up, perhaps dropping the hooks it made
\* (MidHook::reset puts the moved bytes back), or goes on with the next.  A
\* thread still inside a dropped hook finds its trampoline as it was.
Fail ==
    IF plan.onFail = "next"
      THEN Advance /\ UNCHANGED <<code, jump>>
      ELSE /\ result' = "failed"
           /\ UNCHANGED <<step, pc>>
           /\ IF plan.onFail = "undo"
                THEN /\ jump' = [i \in Requests |->
                                    [jump[i] EXCEPT !.width = 0]]
                     /\ code' = Puts(UNION {jump[i].games : i \in Requests},
                                     "game")
                ELSE UNCHANGED <<code, jump>>

\* Mutant: make_hook does not look at what nop returned.
Protect_FailureIgnored ==
    /\ result = "busy" /\ pc = "begin"
    /\ Request.op \in {"write", "replace"}
    /\ UNCHANGED <<plan, reloads, patches, threadVars>>
    /\ \/ pc' = "record" /\ UNCHANGED <<step, result, code, jump>>
       \/ Request.op = "write" /\ Fail
       \/ /\ Request.op = "replace"
          /\ pc' = "create"
          /\ UNCHANGED <<step, result, code, jump>>

\* detail::protect makes the page writable, or the write returns false.
Protect ==
    /\ result = "busy" /\ pc = "begin"
    /\ Request.op \in {"write", "replace"}
    /\ UNCHANGED <<plan, reloads, patches, threadVars>>
    /\ \/ pc' = "record" /\ UNCHANGED <<step, result, code, jump>>
       \/ Fail

\* Mutant: the thread has no hook name set.
RecordWrite_Unnamed ==
    /\ result = "busy" /\ pc = "record"
    /\ pc' = "store"
    /\ UNCHANGED <<plan, step, result, reloads, code, patches, jump,
                   threadVars>>

\* The old bytes are recorded under the hook's name before they are gone.
RecordWrite ==
    /\ result = "busy" /\ pc = "record"
    /\ LET bytes == Span(Request.addr, Request.len)
       IN  Register(Request.addr, Request.len, Games(bytes))
    /\ pc' = "store"
    /\ UNCHANGED <<plan, step, result, reloads, code, jump, threadVars>>

Store ==
    /\ result = "busy" /\ pc = "store"
    /\ \E byte \in Request.puts :
           code' = Puts(Span(Request.addr, Request.len), byte)
    /\ IF Request.op = "replace"
         THEN pc' = "create" /\ UNCHANGED <<step, result>>
         ELSE Advance
    /\ UNCHANGED <<plan, reloads, patches, jump, threadVars>>

AtCreate ==
    /\ result = "busy"
    /\ pc = "create" \/ (pc = "begin" /\ Request.op = "hook")

\* MidHook::create succeeds: a jump over whole instructions, the rest of the
\* last one filled with nops.  Only nops, of one byte each, leave no rest.
Create ==
    /\ AtCreate
    /\ \E width \in {Near, Far} :
          LET under == Span(Request.addr, width)
              rest  == IF \A a \in under : code[a] = "nop" THEN 0 ELSE Rest
              moved == Span(Request.addr, width + rest)
          IN  /\ code' = [a \in Addresses |->
                            IF a \in under THEN "jump"
                            ELSE IF a \in moved THEN "nop" ELSE code[a]]
              /\ jump' = [jump EXCEPT ![step] =
                            [width |-> width, size |-> width + rest,
                             games |-> Games(moved)]]
    /\ pc' = "listed"
    /\ UNCHANGED <<plan, step, result, reloads, patches, threadVars>>

\* Mutant: install does not look at the result of make_hook.
CreateFails_GoesOn ==
    /\ AtCreate
    /\ Advance
    /\ UNCHANGED <<plan, reloads, code, patches, jump, threadVars>>

\* What has been erased stays erased.
CreateFails ==
    /\ AtCreate
    /\ Fail
    /\ UNCHANGED <<plan, reloads, patches, threadVars>>

\* make_hook records the site once the jump is there.
RecordHook ==
    /\ result = "busy" /\ pc = "listed"
    /\ Register(Request.addr, jump[step].size, jump[step].games)
    /\ Advance
    /\ UNCHANGED <<plan, reloads, code, jump, threadVars>>

\* on_reload writes the same sites again.
Repeat ==
    /\ result = "ok" /\ plan.again /\ reloads < MaxReloads
    /\ reloads' = reloads + 1
    /\ step' = 1
    /\ result' = "busy"
    /\ UNCHANGED <<plan, pc, code, patches, jump, threadVars>>

InstallStep == Protect \/ RecordWrite \/ Store \/ Create \/ CreateFails
               \/ RecordHook \/ Repeat

-----------------------------------------------------------------------------
(* A thread of the game executes a site.                                   *)

Here(t) == plan.requests[site[t]]
JumpWhole(i) ==
    /\ jump[i].width > 0
    /\ \A a \in Span(plan.requests[i].addr, jump[i].width) : code[a] = "jump"

\* What it finds first decides: the game's instruction runs, nops do nothing,
\* a jump leads to the callback.  Where a jump that has been written over leads
\* is not modelled, see JumpsIntact.
Enter(t, i) ==
    /\ at[t] = "out"
    /\ site' = [site EXCEPT ![t] = i]
    /\ LET first == code[plan.requests[i].addr]
       IN  /\ first = "jump" => JumpWhole(i)
           /\ at' = [at EXCEPT ![t] = IF first = "jump" THEN "callback"
                                      ELSE "out"]
           /\ applied' = [applied EXCEPT ![t] = IF first = "game" THEN 1 ELSE 0]
    /\ UNCHANGED <<installVars, code, patches, jump, faulted, faults>>

\* guarded_callback: nothing is done once the callback has faulted.
TestFaulted(t) ==
    /\ at[t] = "callback"
    /\ at' = [at EXCEPT ![t] = IF site[t] \in faulted THEN "moved"
                               ELSE "functor"]
    /\ UNCHANGED <<installVars, code, patches, jump, faulted, site, applied,
                   faults>>

Emulation(t) == applied' = [applied EXCEPT ![t] = IF Here(t).emulates THEN @ + 1
                                                  ELSE @]

RunFunctor(t) ==
    /\ at[t] = "functor"
    /\ at' = [at EXCEPT ![t] = "moved"]
    /\ Emulation(t)
    /\ UNCHANGED <<installVars, code, patches, jump, faulted, site, faults>>

\* The functor faults, before or after it has done the emulation.
FunctorFaults(t) ==
    /\ at[t] = "functor"
    /\ at' = [at EXCEPT ![t] = "filter"]
    /\ Emulation(t) \/ UNCHANGED applied
    /\ faults' = [faults EXCEPT ![t][site[t]] = @ + 1]
    /\ UNCHANGED <<installVars, code, patches, jump, faulted, site>>

\* Mutant: the handler logs, and leaves s_faulted alone.
Contain_NotDisabled(t) ==
    /\ at[t] = "filter"
    /\ faults[t][site[t]] <= 2
    /\ at' = [at EXCEPT ![t] = "moved"]
    /\ UNCHANGED <<installVars, code, patches, jump, faulted, site, applied,
                   faults>>

\* The handler disables the callback for good.
Contain(t) ==
    /\ at[t] = "filter"
    /\ faulted' = faulted \union {site[t]}
    /\ at' = [at EXCEPT ![t] = "moved"]
    /\ UNCHANGED <<installVars, code, patches, jump, site, applied, faults>>

\* The trampoline runs the instructions that were under the jump.
RunMoved(t) ==
    /\ at[t] = "moved"
    /\ at' = [at EXCEPT ![t] = "out"]
    /\ applied' = [applied EXCEPT ![t] =
                     IF Here(t).addr \in jump[site[t]].games THEN @ + 1 ELSE @]
    /\ UNCHANGED <<installVars, code, patches, jump, faulted, site, faults>>

ThreadStep ==
    \E t \in Thread :
        \/ \E i \in Sites : Enter(t, i)
        \/ TestFaulted(t) \/ RunFunctor(t) \/ FunctorFaults(t)
        \/ Contain(t) \/ RunMoved(t)

Next == InstallStep \/ ThreadStep

Spec == Init /\ [][Next]_vars

-----------------------------------------------------------------------------
(* Properties.                                                             *)

\* The comment on make_hook: the work of the erased instructions is never
\* done twice, by them and by the callback, not in any visit of a thread that
\* overlaps the install, a failure of it or a fault.
AtMostOnce == \A t \in Thread : applied[t] <= 1

\* A site that nobody serves, erased and without a jump, is the one the
\* install is at or has failed at: install never leaves a second one behind.
OneSiteUnserved ==
    \A i \in Requests :
        (plan.requests[i].op = "replace"
         /\ code[plan.requests[i].addr] = "nop")
            => i = step

\* A return written behind a jump, or any later request, leaves the jumps of
\* earlier ones whole, as long as they are relative ones.
JumpsIntact ==
    \A i \in Requests : jump[i].width = Near => JumpWhole(i)

\* The comment in register_patch: no record passes off bytes of the plugin as
\* the original ones, unless another record has what the game had there.
OriginalsAreTheGames ==
    \A p \in patches :
        \A a \in Span(p.base, p.size) \intersect Span(p.base, Kept) :
            \E q \in patches : a \in q.shows

\* A fault at any byte the plugin has changed is reported as the plugin's,
\* from the moment of the change, on whichever thread it was made; only a
\* plain hook has a gap, until make_hook records it.
ChangesAreAttributable ==
    \A a \in Addresses :
        code[a] # "game" =>
            \/ Attributable(a)
            \/ pc = "listed" /\ a \in Span(Request.addr, jump[step].size)

\* A thread that has faulted in a callback never faults in it again, so a
\* broken callback costs one report per thread at most.
OneFaultPerThread ==
    \A t \in Thread : \A i \in Requests : faults[t][i] <= 1
=============================================================================
