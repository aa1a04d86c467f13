-------------------------- MODULE PatchSite_proof ---------------------------
(***************************************************************************)
(* Proofs about PatchSite for every set of plans that meets its            *)
(* assumptions, every number of threads and of reloads: what a thread runs *)
(* into, what is in the code, and what the registry knows of it.           *)
(***************************************************************************)
EXTENDS PatchSite, TLAPS, FiniteSetTheorems

-----------------------------------------------------------------------------
(* The inductive invariant.                                                *)

PC == {"begin", "record", "store", "create", "listed"}
AT == {"out", "callback", "functor", "filter", "moved"}

\* The types the proofs need.
Shape ==
    /\ plan \in Plans
    /\ step \in Requests
    /\ pc \in PC
    /\ at \in [Thread -> AT]
    /\ site \in [Thread -> Requests]
    /\ applied \in [Thread -> Nat]
    /\ faults \in [Thread -> [Requests -> Nat]]

\* What kind of request each point of the install belongs to.
PointInv ==
    /\ pc = "create" => Request.op = "replace"
    /\ pc \in {"record", "store"} => Request.op \in {"write", "replace"}
    /\ pc = "listed" => Request.op \in SiteOps
    /\ result = "ok" => pc = "begin"

\* When a jump with an emulating callback is about to be made, the game's
\* bytes are gone from its first address.
PreparedInv ==
    (result = "busy" /\ AtCreate /\ Request.emulates)
        => code[Request.addr] = "nop"

\* No trampoline of an emulating callback begins with the game's bytes.
MovedInv ==
    /\ DOMAIN jump = Requests
    /\ \A i \in Requests : plan.requests[i].emulates
                             => plan.requests[i].addr \notin jump[i].games

\* How often a visit may have produced the effect at each point of it.
VisitInv ==
    \A t \in Thread :
        /\ applied[t] \in {0, 1}
        /\ at[t] \in {"callback", "functor"} => applied[t] = 0
        /\ at[t] \in {"filter", "moved"} /\ ~Here(t).emulates
             => applied[t] = 0

\* A thread's fault in a callback is on its way to s_faulted, or there.
FaultInv ==
    \A t \in Thread : \A i \in Requests :
        /\ faults[t][i] \in {0, 1}
        /\ faults[t][i] = 1 => \/ i \in faulted
                               \/ at[t] = "filter" /\ site[t] = i
        /\ at[t] = "functor" /\ site[t] = i => faults[t][i] = 0

IInv == Shape /\ PointInv /\ PreparedInv /\ MovedInv /\ VisitInv /\ FaultInv

-----------------------------------------------------------------------------
(* Lemmas.                                                                 *)

\* Requests are numbered from one and typed.
LEMMA RequestsTyped ==
    ASSUME plan \in Plans
    PROVE  /\ Len(plan.requests) \in Nat \ {0}
           /\ Requests = 1 .. Len(plan.requests)
           /\ \A i \in Requests : plan.requests[i] \in RequestType
<1>1. plan.requests \in Seq(RequestType) /\ plan.requests # <<>>
  BY PlansAreWellFormed DEF PlansAssumption
<1> HIDE DEF RequestType
<1> DEFINE rs == plan.requests
<1>2. rs \in Seq(RequestType) /\ rs # <<>>
  BY <1>1
<1> HIDE DEF rs
<1>3. /\ Len(rs) \in Nat \ {0} /\ DOMAIN rs = 1 .. Len(rs)
      /\ \A i \in DOMAIN rs : rs[i] \in RequestType
  BY <1>2
<1> QED  BY <1>3 DEF rs, Requests

\* The first address of a request that changes bytes is an address.
LEMMA AddrIsAddress ==
    ASSUME NEW p \in Plans, plan = p, NEW i \in Requests,
           plan.requests[i].len > 0 \/ plan.requests[i].op # "write"
    PROVE  /\ plan.requests[i].addr \in Addresses
           /\ plan.requests[i].addr \in Nat
           /\ plan.requests[i].len \in Nat
<1>1. plan.requests[i].addr \in Nat /\ plan.requests[i].len \in Nat
  BY RequestsTyped DEF RequestType
<1>2. plan.requests[i].addr \in Footprint(plan.requests[i])
  BY <1>1 DEF Footprint, Span, Far, Rest
<1> QED  BY <1>1, <1>2 DEF Addresses

\* Advancing lands at the next request, or ends the install.
LEMMA AdvanceSteps ==
    ASSUME plan \in Plans, step \in Requests, Advance
    PROVE  /\ pc' = "begin"
           /\ step' \in Requests
           /\ \/ step' = step + 1
              \/ step' = step /\ result' = "ok"
BY RequestsTyped DEF Advance

\* The initial states satisfy the invariant.
LEMMA InitIInv == Init => IInv
<1> SUFFICES ASSUME Init PROVE IInv
  OBVIOUS
<1>1. 1 \in Requests
  BY RequestsTyped DEF Init
<1>2. Shape
  BY <1>1 DEF Init, Shape, PC, AT
<1>3. PointInv /\ MovedInv
  BY DEF Init, PointInv, MovedInv, NoJump
<1>4. PreparedInv
  BY <1>1, EmulationIsPrepared
  DEF Init, PreparedInv, EmulationAssumption, AtCreate, Request, Requests
<1>5. VisitInv /\ FaultInv
  BY <1>1 DEF Init, VisitInv, FaultInv
<1> QED  BY <1>2, <1>3, <1>4, <1>5 DEF IInv

\* Advancing from a request that is not the write an emulating hook relies on
\* keeps PointInv and PreparedInv: such a hook has its write right before it.
LEMMA AdvanceKeeps ==
    ASSUME Shape, Advance, UNCHANGED plan,
           \/ Request.op # "write"
           \/ plan.onFail = "next"
           \/ Request.len > 0 /\ Request.puts = {"nop"}
                => code'[Request.addr] = "nop"
    PROVE  PointInv' /\ PreparedInv'
<1>1. /\ pc' = "begin" /\ step' \in Requests
      /\ step' = step + 1 \/ (step' = step /\ result' = "ok")
  BY AdvanceSteps DEF Shape
<1>2. PointInv'
  BY <1>1 DEF PointInv
<1>3. ASSUME result' = "busy", Request'.op = "hook", Request'.emulates
      PROVE  code'[Request'.addr] = "nop"
  <2>1. step' = step + 1
    BY <1>1, <1>3
  <2>2. step' - 1 = step
    BY <2>1, RequestsTyped DEF Shape
  <2>3. plan \in Plans /\ step' \in DOMAIN plan.requests
    BY <1>1 DEF Shape, Requests
  <2>4. Request' = plan.requests[step']
    BY DEF Request
  <2>5. /\ plan.onFail = "stop"
        /\ Request.op = "write"
        /\ Request.addr = Request'.addr
        /\ Request.len > 0
        /\ Request.puts = {"nop"}
    BY <1>3, <2>2, <2>3, <2>4, EmulationIsPrepared
    DEF EmulationAssumption, Request
  <2> QED  BY <2>5
<1>4. PreparedInv'
  BY <1>1, <1>3 DEF PreparedInv, AtCreate
<1> QED  BY <1>2, <1>4

\* An install step that fails.
LEMMA FailKeeps ==
    ASSUME IInv, Fail, UNCHANGED <<plan, reloads, patches, threadVars>>
    PROVE  PointInv' /\ PreparedInv' /\ MovedInv' /\ step' \in Requests
           /\ pc' \in PC
<1> USE DEF IInv
<1>1. CASE plan.onFail = "next"
  <2>1. Advance /\ UNCHANGED <<code, jump>>
    BY <1>1 DEF Fail
  <2>2. PointInv' /\ PreparedInv'
    BY <1>1, <2>1, AdvanceKeeps
  <2>3. MovedInv'
    BY <2>1 DEF MovedInv, Requests
  <2> QED  BY <2>1, <2>2, <2>3, AdvanceSteps DEF Shape, PC
<1>2. CASE plan.onFail # "next"
  <2>1. result' = "failed" /\ UNCHANGED <<step, pc>>
    BY <1>2 DEF Fail
  <2>2. PointInv' /\ PreparedInv'
    BY <2>1 DEF PointInv, PreparedInv, Request, SiteOps
  <2>3. MovedInv'
    <3>1. CASE plan.onFail = "undo"
      <4>1. jump' = [i \in Requests |-> [jump[i] EXCEPT !.width = 0]]
        BY <1>2, <3>1 DEF Fail
      <4>2. \A i \in Requests : plan.requests[i].emulates => FALSE
        BY <3>1, EmulationIsPrepared DEF EmulationAssumption, Shape, Requests
      <4> QED  BY <4>1, <4>2 DEF MovedInv, Requests
    <3>2. CASE plan.onFail # "undo"
      BY <1>2, <3>2 DEF Fail, MovedInv, Requests
    <3> QED  BY <3>1, <3>2
  <2> QED  BY <2>1, <2>2, <2>3 DEF Shape
<1> QED  BY <1>1, <1>2

\* What the install's steps leave alone keeps the threads' part.
LEMMA ThreadsKept ==
    ASSUME IInv, UNCHANGED <<plan, threadVars>>
    PROVE  VisitInv' /\ FaultInv'
BY DEF IInv, VisitInv, FaultInv, Here, Requests, threadVars

\* Each step of the install keeps the invariant.
LEMMA InstallKeeps == IInv /\ InstallStep => IInv'
<1> SUFFICES ASSUME IInv, InstallStep PROVE IInv'
  OBVIOUS
<1> USE DEF IInv
<1>1. UNCHANGED <<plan, threadVars>>
  BY DEF InstallStep, Protect, RecordWrite, Store, Create, CreateFails,
         RecordHook, Repeat
<1>2. VisitInv' /\ FaultInv'
  BY <1>1, ThreadsKept
<1>3. ASSUME step' \in Requests, pc' \in PC PROVE Shape'
  BY <1>1, <1>3 DEF Shape, Requests, threadVars
<1>4. CASE Protect
  <2>1. CASE pc' = "record" /\ UNCHANGED <<step, result, code, jump>>
    BY <1>1, <1>2, <1>3, <1>4, <2>1
    DEF Protect, Shape, PointInv, PreparedInv, MovedInv, AtCreate, Request,
        Requests, PC
  <2>2. CASE Fail
    BY <1>1, <1>2, <1>3, <1>4, <2>2, FailKeeps DEF Protect
  <2> QED  BY <1>4, <2>1, <2>2 DEF Protect
<1>5. CASE RecordWrite
  BY <1>1, <1>2, <1>3, <1>5
  DEF RecordWrite, Shape, PointInv, PreparedInv, MovedInv, AtCreate, Request,
      Requests, PC
<1>6. CASE Store
  <2>1. PICK byte \in Request.puts :
            code' = Puts(Span(Request.addr, Request.len), byte)
    BY <1>6 DEF Store
  <2>2. Request.op \in {"write", "replace"} /\ UNCHANGED jump
    BY <1>6 DEF Store, PointInv
  <2>3. MovedInv'
    BY <1>1, <2>2 DEF MovedInv, Requests
  <2>4. Request.len > 0 /\ Request.puts = {"nop"}
          => code'[Request.addr] = "nop"
    <3> SUFFICES ASSUME Request.len > 0, Request.puts = {"nop"}
                 PROVE  code'[Request.addr] = "nop"
      OBVIOUS
    <3>1. /\ Request.addr \in Addresses
          /\ Request.addr \in Nat /\ Request.len \in Nat
      BY AddrIsAddress DEF Shape, Request
    <3>2. Request.addr \in Span(Request.addr, Request.len)
      BY <3>1 DEF Span
    <3> QED  BY <2>1, <3>1, <3>2 DEF Puts
  <2>5. CASE Request.op = "replace"
    <3>1. pc' = "create" /\ UNCHANGED <<step, result>>
      BY <1>6, <2>5 DEF Store
    <3>2. PointInv'
      BY <1>1, <1>6, <2>5, <3>1 DEF Store, PointInv, Request, SiteOps
    <3>3. Request.emulates => Request.len > 0 /\ Request.puts = {"nop"}
      BY <2>5, EmulationIsPrepared
      DEF EmulationAssumption, Shape, Request, Requests
    <3>4. PreparedInv'
      BY <1>1, <2>4, <3>1, <3>3 DEF PreparedInv, Request
    <3> QED  BY <1>2, <1>3, <2>3, <3>1, <3>2, <3>4 DEF Shape, PC
  <2>6. CASE Request.op # "replace"
    <3>1. Advance
      BY <1>6, <2>6 DEF Store
    <3>2. PointInv' /\ PreparedInv'
      BY <1>1, <2>4, <3>1, AdvanceKeeps
    <3> QED  BY <1>2, <1>3, <2>3, <3>1, <3>2, AdvanceSteps DEF Shape, PC
  <2> QED  BY <2>5, <2>6
<1>7. CASE Create
  <2>1. /\ pc' = "listed" /\ result' = "busy" /\ UNCHANGED step
        /\ Request.op \in SiteOps
    BY <1>7 DEF Create, AtCreate, PointInv, SiteOps
  <2>2. PointInv' /\ PreparedInv'
    BY <1>1, <2>1 DEF PointInv, PreparedInv, AtCreate, Request
  <2>3. PICK width \in {Near, Far} :
            LET under == Span(Request.addr, width)
                rest  == IF \A a \in under : code[a] = "nop" THEN 0 ELSE Rest
                moved == Span(Request.addr, width + rest)
            IN  jump' = [jump EXCEPT ![step] =
                           [width |-> width, size |-> width + rest,
                            games |-> Games(moved)]]
    BY <1>7 DEF Create
  <2>4. MovedInv'
    <3>1. Request.emulates => Request.addr \notin jump'[step].games
      <4>1. Request.emulates => code[Request.addr] # "game"
        BY <1>7 DEF Create, PreparedInv, AtCreate
      <4>2. step \in DOMAIN jump
        BY DEF MovedInv, Shape
      <4> QED  BY <2>3, <4>1, <4>2 DEF Games
    <3>2. DOMAIN jump' = DOMAIN jump
      BY <2>3
    <3>3. \A i \in DOMAIN jump : i # step => jump'[i] = jump[i]
      BY <2>3
    <3> QED  BY <1>1, <3>1, <3>2, <3>3 DEF MovedInv, Request, Requests
  <2> QED  BY <1>2, <1>3, <2>1, <2>2, <2>4 DEF Shape, PC
<1>8. CASE CreateFails
  BY <1>1, <1>2, <1>3, <1>8, FailKeeps DEF CreateFails
<1>9. CASE RecordHook
  <2>1. Request.op # "write" /\ Advance /\ UNCHANGED jump
    BY <1>9 DEF RecordHook, PointInv, SiteOps
  <2>2. PointInv' /\ PreparedInv'
    BY <1>1, <2>1, AdvanceKeeps
  <2>3. MovedInv'
    BY <1>1, <2>1 DEF MovedInv, Requests
  <2> QED  BY <1>2, <1>3, <2>1, <2>2, <2>3, AdvanceSteps DEF Shape, PC
<1>10. CASE Repeat
  <2>1. step' = 1 /\ 1 \in Requests /\ UNCHANGED <<pc, code, jump>>
    BY <1>10, RequestsTyped DEF Repeat, Shape
  <2>2. pc = "begin"
    BY <1>10 DEF Repeat, PointInv
  <2>3. PointInv' /\ PreparedInv'
    BY <1>1, <2>1, <2>2, EmulationIsPrepared
    DEF PointInv, PreparedInv, AtCreate, Request, Requests,
        EmulationAssumption, Shape
  <2> QED  BY <1>1, <1>2, <1>3, <2>1, <2>2, <2>3 DEF MovedInv, Requests, PC
<1> QED
  BY <1>4, <1>5, <1>6, <1>7, <1>8, <1>9, <1>10 DEF InstallStep

\* A step of a thread leaves the install and the code alone.
LEMMA InstallKept ==
    ASSUME IInv, UNCHANGED <<installVars, code, patches, jump>>
    PROVE  PointInv' /\ PreparedInv' /\ MovedInv'
BY DEF IInv, PointInv, PreparedInv, MovedInv, AtCreate, Request, Requests,
       installVars

\* Each step of a thread keeps the invariant.
LEMMA ThreadKeeps == IInv /\ ThreadStep => IInv'
<1> SUFFICES ASSUME IInv, NEW t \in Thread,
                    \/ \E i \in Sites : Enter(t, i)
                    \/ TestFaulted(t) \/ RunFunctor(t) \/ FunctorFaults(t)
                    \/ Contain(t) \/ RunMoved(t)
             PROVE  IInv'
  BY DEF ThreadStep
<1> USE DEF IInv
<1>1. UNCHANGED <<installVars, code, patches, jump>>
  BY DEF Enter, TestFaulted, RunFunctor, FunctorFaults, Contain, RunMoved
<1>2. PointInv' /\ PreparedInv' /\ MovedInv'
  BY <1>1, InstallKept
<1>3. ASSUME at' \in [Thread -> AT], site' \in [Thread -> Requests],
             applied' \in [Thread -> Nat],
             faults' \in [Thread -> [Requests -> Nat]],
             VisitInv', FaultInv'
      PROVE  IInv'
  BY <1>1, <1>2, <1>3 DEF Shape, installVars, Requests
<1>4. CASE \E i \in Sites : Enter(t, i)
  <2>1. PICK i \in Requests : Enter(t, i)
    BY <1>4 DEF Sites
  <2>2. /\ at' \in [Thread -> AT] /\ site' \in [Thread -> Requests]
        /\ applied' \in [Thread -> Nat] /\ UNCHANGED <<faulted, faults>>
    BY <2>1 DEF Enter, Shape, AT
  <2>3. VisitInv'
    BY <1>1, <2>1 DEF Enter, Shape, VisitInv, Here, installVars
  <2>4. FaultInv'
    BY <1>1, <2>1 DEF Enter, Shape, FaultInv, installVars, Requests
  <2> QED  BY <1>3, <2>2, <2>3, <2>4 DEF Shape
<1>5. CASE TestFaulted(t)
  <2>1. at' \in [Thread -> AT] /\ UNCHANGED <<site, applied, faults>>
    BY <1>5 DEF TestFaulted, Shape, AT
  <2>2. VisitInv'
    BY <1>1, <1>5 DEF TestFaulted, Shape, VisitInv, Here, installVars
  <2>3. FaultInv'
    BY <1>1, <1>5 DEF TestFaulted, Shape, FaultInv, installVars, Requests
  <2> QED  BY <1>3, <2>1, <2>2, <2>3 DEF Shape
<1>6. CASE RunFunctor(t)
  <2>1. /\ at' \in [Thread -> AT] /\ applied' \in [Thread -> Nat]
        /\ UNCHANGED <<site, faults>>
    BY <1>6 DEF RunFunctor, Emulation, Shape, AT
  <2>2. VisitInv'
    BY <1>1, <1>6
    DEF RunFunctor, Emulation, Shape, VisitInv, Here, installVars
  <2>3. FaultInv'
    BY <1>1, <1>6 DEF RunFunctor, Shape, FaultInv, installVars, Requests
  <2> QED  BY <1>3, <2>1, <2>2, <2>3 DEF Shape
<1>7. CASE FunctorFaults(t)
  <2>1. /\ at' \in [Thread -> AT] /\ applied' \in [Thread -> Nat]
        /\ faults' \in [Thread -> [Requests -> Nat]] /\ UNCHANGED site
    BY <1>7 DEF FunctorFaults, Emulation, Shape, AT
  <2>2. VisitInv'
    BY <1>1, <1>7
    DEF FunctorFaults, Emulation, Shape, VisitInv, Here, installVars
  <2>3. FaultInv'
    BY <1>1, <1>7 DEF FunctorFaults, Shape, FaultInv, installVars, Requests
  <2> QED  BY <1>3, <2>1, <2>2, <2>3 DEF Shape
<1>8. CASE Contain(t)
  <2>1. at' \in [Thread -> AT] /\ UNCHANGED <<site, applied, faults>>
    BY <1>8 DEF Contain, Shape, AT
  <2>2. VisitInv'
    BY <1>1, <1>8 DEF Contain, Shape, VisitInv, Here, installVars
  <2>3. FaultInv'
    BY <1>1, <1>8 DEF Contain, Shape, FaultInv, installVars, Requests
  <2> QED  BY <1>3, <2>1, <2>2, <2>3 DEF Shape
<1>9. CASE RunMoved(t)
  <2>1. /\ at' \in [Thread -> AT] /\ applied' \in [Thread -> Nat]
        /\ UNCHANGED <<site, faults>>
    BY <1>9 DEF RunMoved, Shape, AT
  <2>2. Here(t).addr \in jump[site[t]].games => applied[t] = 0
    BY <1>9 DEF RunMoved, Shape, MovedInv, VisitInv, Here
  <2>3. VisitInv'
    BY <1>1, <1>9, <2>2 DEF RunMoved, Shape, VisitInv, Here, installVars
  <2>4. FaultInv'
    BY <1>1, <1>9 DEF RunMoved, Shape, FaultInv, installVars, Requests
  <2> QED  BY <1>3, <2>1, <2>3, <2>4 DEF Shape
<1> QED  BY <1>4, <1>5, <1>6, <1>7, <1>8, <1>9

-----------------------------------------------------------------------------
(* Types.                                                                  *)

\* A jump and what it has moved lie within the bytes its request may touch.
JumpTypes ==
    /\ DOMAIN jump = Requests
    /\ \A i \in Requests :
         /\ jump[i] \in [width : {0, Near, Far}, size : 0 .. Far + Rest,
                         games : SUBSET Int]
         /\ jump[i].games \subseteq Span(plan.requests[i].addr, jump[i].size)

\* A thread on its way through a callback has entered it at a site.
VisitTypes == \A t \in Thread : at[t] # "out" => site[t] \in Sites

TypeInv == TypeOK /\ JumpTypes /\ VisitTypes /\ PointInv

\* The bytes of a write, and those under a jump, are addresses.
LEMMA SpansAreAddresses ==
    ASSUME plan \in Plans, NEW i \in Requests
    PROVE  /\ Span(plan.requests[i].addr, plan.requests[i].len) \subseteq Addresses
           /\ plan.requests[i].op \in SiteOps =>
                \A n \in 0 .. Far + Rest :
                  Span(plan.requests[i].addr, n) \subseteq Addresses
           /\ plan.requests[i].addr \in Nat /\ plan.requests[i].len \in Nat
           /\ plan.requests[i].puts \subseteq {"nop", "game", "data"}
<1>1. plan.requests[i] \in RequestType
  BY RequestsTyped
<1>2. Footprint(plan.requests[i]) \subseteq Addresses
  BY DEF Addresses
<1>3. plan.requests[i].addr \in Nat /\ plan.requests[i].len \in Nat
      /\ plan.requests[i].puts \subseteq {"nop", "game", "data"}
  BY <1>1 DEF RequestType
<1>4. \A n \in 0 .. Far + Rest :
        Span(plan.requests[i].addr, n) \subseteq Span(plan.requests[i].addr, Far + Rest)
  BY <1>3 DEF Span, Far, Rest
<1> QED  BY <1>2, <1>3, <1>4 DEF Footprint, SiteOps

\* A record of bytes that are addresses is a record as the registry keeps them.
LEMMA RegisterTypes ==
    ASSUME TypeOK, NEW base, NEW size, NEW games, Register(base, size, games),
           Span(base, size) \subseteq Addresses, games \subseteq Span(base, size)
    PROVE  \A p \in patches' : /\ Span(p.base, p.size) \subseteq Addresses
                               /\ p.shows \subseteq Span(p.base, p.size)
<1>1. CASE UNCHANGED patches
  BY <1>1 DEF TypeOK
<1>2. CASE patches' = patches \union
             {[base |-> base, size |-> size,
               shows |-> games \intersect Span(base, Kept)]}
  BY <1>2 DEF TypeOK
<1> QED  BY <1>1, <1>2 DEF Register

\* Storing a byte everywhere in a set keeps the bytes typed.
LEMMA PutsTypes ==
    ASSUME TypeOK, NEW addrs, NEW byte \in {"game", "nop", "jump", "data"}
    PROVE  Puts(addrs, byte) \in [Addresses -> {"game", "nop", "jump", "data"}]
BY DEF TypeOK, Puts

\* What a plan determines stays while the plan does.
LEMMA SetsKept ==
    ASSUME UNCHANGED plan
    PROVE  Requests' = Requests /\ Addresses' = Addresses /\ Sites' = Sites
BY DEF Requests, Addresses, Sites

\* The types of the next state, over the sets of this one.
LEMMA TypesNext ==
    ASSUME TypeOK, UNCHANGED plan,
           step' \in Requests, pc' \in PC, result' \in {"busy", "ok", "failed"},
           reloads' \in 0 .. MaxReloads,
           code' \in [Addresses -> {"game", "nop", "jump", "data"}],
           \A p \in patches' : /\ Span(p.base, p.size) \subseteq Addresses
                               /\ p.shows \subseteq Span(p.base, p.size),
           \A i \in Requests : jump'[i].width \in {0, Near, Far},
           faulted' \subseteq Sites,
           at' \in [Thread -> AT], site' \in [Thread -> Requests],
           \A t \in Thread :
             applied'[t] \in Nat /\ faults'[t] \in [Requests -> Nat]
    PROVE  TypeOK'
<1>1. Requests' = Requests /\ Addresses' = Addresses /\ Sites' = Sites
  BY SetsKept
<1> HIDE DEF Requests, Addresses, Sites
<1>2. plan' \in Plans
  BY DEF TypeOK
<1> QED  BY <1>1, <1>2 DEF TypeOK, PC, AT

\* An unchanged plan and unchanged jumps.
LEMMA JumpsKept ==
    ASSUME JumpTypes, UNCHANGED <<plan, jump>>
    PROVE  JumpTypes'
BY DEF JumpTypes, Requests

\* The initial states are well typed.
LEMMA InitTypes == Init => TypeInv
<1> SUFFICES ASSUME Init PROVE TypeInv
  OBVIOUS
<1>1. 1 \in Requests
  BY RequestsTyped DEF Init
<1>2. TypeOK
  BY <1>1, PlansAreWellFormed DEF Init, TypeOK, NoJump, PlansAssumption
<1>3. JumpTypes
  BY DEF Init, JumpTypes, NoJump, Far, Rest
<1> QED  BY <1>2, <1>3 DEF Init, TypeInv, VisitTypes, PointInv

\* A failing step of the install.
LEMMA FailTypes ==
    ASSUME TypeInv, result = "busy", Fail,
           UNCHANGED <<plan, reloads, patches, threadVars>>
    PROVE  TypeInv'
<1> USE DEF TypeInv
<1>1. VisitTypes'
  BY DEF VisitTypes, Sites, Requests, threadVars
<1>2. ASSUME step' \in Requests, pc' \in PC, result' \in {"busy", "ok", "failed"},
             code' \in [Addresses -> {"game", "nop", "jump", "data"}],
             \A i \in Requests : jump'[i].width \in {0, Near, Far}
      PROVE  TypeOK'
  <2>1. /\ faulted' \subseteq Sites
        /\ at' \in [Thread -> AT] /\ site' \in [Thread -> Requests]
        /\ \A t \in Thread :
             applied'[t] \in Nat /\ faults'[t] \in [Requests -> Nat]
    BY DEF TypeOK, AT, threadVars
  <2>2. /\ reloads' \in 0 .. MaxReloads
        /\ \A p \in patches' : /\ Span(p.base, p.size) \subseteq Addresses
                               /\ p.shows \subseteq Span(p.base, p.size)
    BY DEF TypeOK
  <2> QED  BY <1>2, <2>1, <2>2, TypesNext
<1>3. CASE Advance /\ UNCHANGED <<code, jump>>
  <2>1. pc' = "begin" /\ step' \in Requests /\ result' \in {"busy", "ok", "failed"}
    BY <1>3, AdvanceSteps DEF Advance, TypeOK
  <2>2. TypeOK'
    BY <1>2, <1>3, <2>1 DEF TypeOK, PC
  <2>3. JumpTypes'
    BY <1>3, JumpsKept
  <2> QED  BY <1>1, <2>1, <2>2, <2>3 DEF PointInv
<1>4. ASSUME result' = "failed", UNCHANGED <<step, pc>>
      PROVE  PointInv'
  BY <1>4 DEF PointInv, Request
<1>5. CASE /\ result' = "failed" /\ UNCHANGED <<step, pc>>
           /\ UNCHANGED <<code, jump>>
  <2>1. TypeOK'
    BY <1>2, <1>5 DEF TypeOK, PC
  <2>2. JumpTypes'
    BY <1>5, JumpsKept
  <2> QED  BY <1>1, <1>4, <1>5, <2>1, <2>2
<1>6. CASE /\ result' = "failed" /\ UNCHANGED <<step, pc>>
           /\ jump' = [i \in Requests |-> [jump[i] EXCEPT !.width = 0]]
           /\ code' = Puts(UNION {jump[i].games : i \in Requests}, "game")
  <2>1. code' \in [Addresses -> {"game", "nop", "jump", "data"}]
    BY <1>6, PutsTypes
  <2>2. /\ DOMAIN jump' = Requests
        /\ \A i \in Requests :
             /\ jump'[i] \in [width : {0, Near, Far}, size : 0 .. Far + Rest,
                              games : SUBSET Int]
             /\ jump'[i].size = jump[i].size /\ jump'[i].games = jump[i].games
             /\ jump'[i].width = 0
    BY <1>6 DEF JumpTypes
  <2>3. JumpTypes'
    BY <2>2 DEF JumpTypes, Requests
  <2>4. TypeOK'
    <3>1. \A i \in Requests : jump'[i].width \in {0, Near, Far}
      BY <2>2
    <3> QED  BY <1>2, <1>6, <2>1, <3>1 DEF TypeOK, PC
  <2> QED  BY <1>1, <1>4, <1>6, <2>3, <2>4
<1> QED  BY <1>3, <1>5, <1>6 DEF Fail

\* Each step of the install keeps the types.
LEMMA InstallTypes == TypeInv /\ InstallStep => TypeInv'
<1> SUFFICES ASSUME TypeInv, InstallStep PROVE TypeInv'
  OBVIOUS
<1> USE DEF TypeInv
<1>1. UNCHANGED <<plan, threadVars>>
  BY DEF InstallStep, Protect, RecordWrite, Store, Create, CreateFails,
         RecordHook, Repeat
<1>2. VisitTypes'
  BY <1>1 DEF VisitTypes, Sites, Requests, threadVars
<1>3. ASSUME step' \in Requests, pc' \in PC,
             result' \in {"busy", "ok", "failed"}, reloads' \in 0 .. MaxReloads,
             code' \in [Addresses -> {"game", "nop", "jump", "data"}],
             \A p \in patches' : /\ Span(p.base, p.size) \subseteq Addresses
                                 /\ p.shows \subseteq Span(p.base, p.size),
             JumpTypes'
      PROVE  TypeOK'
  <2>1. \A i \in Requests : jump'[i].width \in {0, Near, Far}
    BY <1>1, <1>3 DEF JumpTypes, Requests
  <2> QED
    <3>1. /\ faulted' \subseteq Sites
          /\ at' \in [Thread -> AT] /\ site' \in [Thread -> Requests]
          /\ \A t \in Thread :
               applied'[t] \in Nat /\ faults'[t] \in [Requests -> Nat]
      BY <1>1 DEF TypeOK, AT, threadVars
    <3> QED  BY <1>1, <1>3, <2>1, <3>1, TypesNext
<1>4. CASE Protect
  <2>1. CASE pc' = "record" /\ UNCHANGED <<step, result, code, jump>>
    <3>1. UNCHANGED <<plan, reloads, patches>>
      BY <1>4 DEF Protect
    <3>2. JumpTypes'
      BY <2>1, <3>1, JumpsKept
    <3>3. TypeOK'
      BY <1>3, <2>1, <3>1, <3>2 DEF TypeOK, PC
    <3> QED  BY <1>2, <1>4, <2>1, <3>1, <3>2, <3>3 DEF Protect, PointInv, Request
  <2>2. CASE Fail
    BY <1>4, <2>2, FailTypes DEF Protect
  <2> QED  BY <1>4, <2>1, <2>2 DEF Protect
<1>5. CASE RecordWrite
  <2>1. \A p \in patches' : /\ Span(p.base, p.size) \subseteq Addresses
                            /\ p.shows \subseteq Span(p.base, p.size)
    <3>1. Span(Request.addr, Request.len) \subseteq Addresses
      BY SpansAreAddresses DEF TypeOK, Request
    <3>2. Games(Span(Request.addr, Request.len))
            \subseteq Span(Request.addr, Request.len)
      BY DEF Games
    <3> QED  BY <1>5, <3>1, <3>2, RegisterTypes DEF RecordWrite
  <2>2. pc' = "store" /\ UNCHANGED <<plan, step, result, reloads, code, jump>>
    BY <1>5 DEF RecordWrite
  <2>3. JumpTypes'
    BY <2>2 DEF JumpTypes, Requests
  <2>4. TypeOK'
    BY <1>3, <2>1, <2>2, <2>3 DEF TypeOK, PC
  <2> QED  BY <1>2, <1>5, <2>2, <2>3, <2>4 DEF RecordWrite, PointInv, Request
<1>6. CASE Store
  <2>1. code' \in [Addresses -> {"game", "nop", "jump", "data"}]
    <3>1. PICK byte \in Request.puts :
              code' = Puts(Span(Request.addr, Request.len), byte)
      BY <1>6 DEF Store
    <3>2. byte \in {"game", "nop", "jump", "data"}
      BY <3>1, SpansAreAddresses DEF TypeOK, Request
    <3> QED  BY <3>1, <3>2, PutsTypes
  <2>2. UNCHANGED <<plan, reloads, patches, jump>>
    BY <1>6 DEF Store
  <2>3. JumpTypes'
    BY <2>2 DEF JumpTypes, Requests
  <2>4. CASE pc' = "create" /\ UNCHANGED <<step, result>> /\ Request.op = "replace"
    <3>1. TypeOK'
      BY <1>3, <2>1, <2>2, <2>3, <2>4 DEF TypeOK, PC
    <3> QED  BY <1>2, <1>6, <2>2, <2>3, <2>4, <3>1 DEF Store, PointInv, Request
  <2>5. CASE Advance
    <3>1. pc' = "begin" /\ step' \in Requests
          /\ result' \in {"busy", "ok", "failed"}
      BY <2>5, AdvanceSteps DEF Advance, TypeOK
    <3>2. TypeOK'
      BY <1>3, <2>1, <2>2, <2>3, <3>1 DEF TypeOK, PC
    <3> QED  BY <1>2, <2>3, <3>1, <3>2 DEF PointInv
  <2> QED  BY <1>6, <2>4, <2>5 DEF Store
<1>7. CASE Create
  <2>1. Request.op \in SiteOps
    BY <1>7 DEF Create, AtCreate, PointInv, SiteOps
  <2>2. PICK width \in {Near, Far} :
          LET under == Span(Request.addr, width)
              rest  == IF \A a \in under : code[a] = "nop" THEN 0 ELSE Rest
              moved == Span(Request.addr, width + rest)
          IN  /\ code' = [a \in Addresses |->
                            IF a \in under THEN "jump"
                            ELSE IF a \in moved THEN "nop" ELSE code[a]]
              /\ jump' = [jump EXCEPT ![step] =
                            [width |-> width, size |-> width + rest,
                             games |-> Games(moved)]]
    BY <1>7 DEF Create
  <2> DEFINE rest == IF \A a \in Span(Request.addr, width) : code[a] = "nop"
                       THEN 0 ELSE Rest
  <2>3. jump' = [jump EXCEPT ![step] =
                   [width |-> width, size |-> width + rest,
                    games |-> Games(Span(Request.addr, width + rest))]]
    BY <2>2
  <2>4. code' \in [Addresses -> {"game", "nop", "jump", "data"}]
    BY <2>2 DEF TypeOK
  <2>5. pc' = "listed" /\ UNCHANGED <<plan, step, result, reloads, patches>>
    BY <1>7 DEF Create
  <2>6. width + rest \in 0 .. Far + Rest
    BY DEF Near, Far, Rest
  <2> HIDE DEF rest
  <2>7. Games(Span(Request.addr, width + rest)) \in SUBSET Int
    BY <2>6, SpansAreAddresses DEF Games, Span, TypeOK, Request
  <2>8. JumpTypes'
    <3>1. step \in Requests /\ Request = plan.requests[step]
      BY DEF TypeOK, Request
    <3>2. DOMAIN jump' = Requests
          /\ \A i \in Requests : i # step => jump'[i] = jump[i]
      BY <2>3 DEF JumpTypes
    <3>3. jump'[step] = [width |-> width, size |-> width + rest,
                         games |-> Games(Span(Request.addr, width + rest))]
      BY <2>3, <3>1 DEF JumpTypes
    <3>4. Games(Span(Request.addr, width + rest))
            \subseteq Span(Request.addr, width + rest)
      BY DEF Games
    <3>5. /\ jump'[step] \in [width : {0, Near, Far}, size : 0 .. Far + Rest,
                              games : SUBSET Int]
          /\ jump'[step].games
               \subseteq Span(plan.requests[step].addr, jump'[step].size)
      BY <2>6, <2>7, <3>1, <3>3, <3>4
    <3> QED  BY <2>5, <3>2, <3>5 DEF JumpTypes, Requests
  <2>9. TypeOK'
    BY <1>3, <2>4, <2>5, <2>8 DEF TypeOK, PC
  <2>10. PointInv'
    BY <1>7, <2>1, <2>5 DEF Create, AtCreate, PointInv, Request
  <2> QED  BY <1>2, <2>8, <2>9, <2>10
<1>8. CASE CreateFails
  BY <1>8, FailTypes DEF CreateFails, AtCreate
<1>9. CASE RecordHook
  <2>1. /\ UNCHANGED <<plan, reloads, code, jump>> /\ Advance
        /\ Register(Request.addr, jump[step].size, jump[step].games)
        /\ Request.op \in SiteOps
    BY <1>9 DEF RecordHook, PointInv
  <2>2. \A p \in patches' : /\ Span(p.base, p.size) \subseteq Addresses
                            /\ p.shows \subseteq Span(p.base, p.size)
    <3>1. /\ jump[step].size \in 0 .. Far + Rest
          /\ jump[step].games \subseteq Span(Request.addr, jump[step].size)
      BY DEF TypeOK, JumpTypes, Request
    <3>2. Span(Request.addr, jump[step].size) \subseteq Addresses
      BY <2>1, <3>1, SpansAreAddresses DEF TypeOK, Request
    <3> QED  BY <2>1, <3>1, <3>2, RegisterTypes
  <2>3. JumpTypes'
    BY <2>1 DEF JumpTypes, Requests
  <2>4. pc' = "begin" /\ step' \in Requests
        /\ result' \in {"busy", "ok", "failed"}
    BY <2>1, AdvanceSteps DEF Advance, TypeOK
  <2>5. TypeOK'
    BY <1>3, <2>1, <2>2, <2>3, <2>4 DEF TypeOK, PC
  <2> QED  BY <1>2, <2>3, <2>4, <2>5 DEF PointInv
<1>10. CASE Repeat
  <2>1. /\ step' = 1 /\ result' = "busy" /\ pc' = "begin"
        /\ UNCHANGED <<plan, code, patches, jump>>
        /\ reloads' \in 0 .. MaxReloads
    BY <1>10, PlansAreWellFormed DEF Repeat, PointInv, TypeOK, PlansAssumption
  <2>2. 1 \in Requests
    BY RequestsTyped DEF TypeOK
  <2>3. JumpTypes'
    BY <2>1 DEF JumpTypes, Requests
  <2>4. TypeOK'
    BY <1>3, <2>1, <2>2, <2>3 DEF TypeOK, PC
  <2> QED  BY <1>2, <2>1, <2>3, <2>4 DEF PointInv
<1> QED
  BY <1>4, <1>5, <1>6, <1>7, <1>8, <1>9, <1>10 DEF InstallStep

\* Each step of a thread keeps the types.
LEMMA ThreadTypes == TypeInv /\ ThreadStep => TypeInv'
<1> SUFFICES ASSUME TypeInv, NEW t \in Thread,
                    \/ \E i \in Sites : Enter(t, i)
                    \/ TestFaulted(t) \/ RunFunctor(t) \/ FunctorFaults(t)
                    \/ Contain(t) \/ RunMoved(t)
             PROVE  TypeInv'
  BY DEF ThreadStep
<1> USE DEF TypeInv
<1>1. UNCHANGED <<installVars, code, patches, jump>>
  BY DEF Enter, TestFaulted, RunFunctor, FunctorFaults, Contain, RunMoved
<1>2. JumpTypes' /\ PointInv'
  BY <1>1 DEF JumpTypes, PointInv, Request, Requests, installVars
<1>3. ASSUME at' \in [Thread -> AT], site' \in [Thread -> Requests],
             \A u \in Thread : applied'[u] \in Nat /\ faults'[u] \in [Requests -> Nat],
             faulted' \subseteq Sites
      PROVE  TypeOK'
  <2>1. /\ UNCHANGED plan /\ step' \in Requests /\ pc' \in PC
        /\ result' \in {"busy", "ok", "failed"} /\ reloads' \in 0 .. MaxReloads
        /\ code' \in [Addresses -> {"game", "nop", "jump", "data"}]
        /\ \A p \in patches' : /\ Span(p.base, p.size) \subseteq Addresses
                               /\ p.shows \subseteq Span(p.base, p.size)
        /\ \A i \in Requests : jump'[i].width \in {0, Near, Far}
    BY <1>1 DEF TypeOK, PC, installVars
  <2> QED  BY <1>3, <2>1, TypesNext
<1>4. CASE \E i \in Sites : Enter(t, i)
  <2>1. PICK i \in Sites : Enter(t, i)
    BY <1>4
  <2>2. TypeOK'
    <3>1. i \in Requests
      BY DEF Sites
    <3> QED  BY <1>3, <2>1, <3>1 DEF Enter, TypeOK, AT
  <2>3. VisitTypes'
    BY <1>1, <2>1 DEF Enter, TypeOK, VisitTypes, Sites, Requests, installVars
  <2> QED  BY <1>2, <2>2, <2>3
<1>5. CASE TestFaulted(t)
  BY <1>1, <1>2, <1>3, <1>5 DEF TestFaulted, TypeOK, AT, VisitTypes, Sites,
                                Requests, installVars
<1>6. CASE RunFunctor(t)
  BY <1>1, <1>2, <1>3, <1>6 DEF RunFunctor, Emulation, TypeOK, AT, VisitTypes,
                                Sites, Requests, installVars
<1>7. CASE FunctorFaults(t)
  <2>1. /\ at' \in [Thread -> AT] /\ UNCHANGED <<site, faulted>>
        /\ at' = [at EXCEPT ![t] = "filter"] /\ at[t] = "functor"
    BY <1>7 DEF FunctorFaults, TypeOK, AT
  <2>5. \A u \in Thread : applied'[u] \in Nat
    <3>1. CASE Emulation(t)
      BY <3>1 DEF Emulation, TypeOK
    <3>2. CASE UNCHANGED applied
      BY <3>2 DEF TypeOK
    <3> QED  BY <1>7, <3>1, <3>2 DEF FunctorFaults
  <2>2. \A u \in Thread : faults'[u] \in [Requests -> Nat]
    <3>1. faults' = [faults EXCEPT ![t][site[t]] = @ + 1]
      BY <1>7 DEF FunctorFaults
    <3>2. site[t] \in Requests /\ \A u \in Thread : faults[u] \in [Requests -> Nat]
      BY DEF TypeOK
    <3> QED  BY <3>1, <3>2
  <2>3. TypeOK'
    BY <1>3, <2>1, <2>2, <2>5 DEF TypeOK
  <2>4. VisitTypes'
    BY <1>1, <2>1 DEF TypeOK, VisitTypes, Sites, Requests, installVars
  <2> QED  BY <1>2, <2>3, <2>4
<1>8. CASE Contain(t)
  BY <1>1, <1>2, <1>3, <1>8 DEF Contain, TypeOK, AT, VisitTypes, Sites,
                                Requests, installVars
<1>9. CASE RunMoved(t)
  BY <1>1, <1>2, <1>3, <1>9 DEF RunMoved, TypeOK, AT, VisitTypes, Sites,
                                Requests, installVars
<1> QED  BY <1>4, <1>5, <1>6, <1>7, <1>8, <1>9

\* Nothing changes.
LEMMA TypesStutter == TypeInv /\ UNCHANGED vars => TypeInv'
<1> SUFFICES ASSUME TypeInv, UNCHANGED vars PROVE TypeInv'
  OBVIOUS
<1> USE DEF TypeInv
<1>1. /\ UNCHANGED <<plan, step, pc, result, reloads, code, patches, jump>>
      /\ UNCHANGED <<faulted, at, site, applied, faults>>
  BY DEF vars, installVars, threadVars
<1>2. TypeOK'
  BY <1>1, TypesNext DEF TypeOK, PC, AT
<1>3. JumpTypes'
  BY <1>1, JumpsKept
<1>4. VisitTypes' /\ PointInv'
  BY <1>1 DEF VisitTypes, PointInv, Request, Sites, Requests
<1> QED  BY <1>2, <1>3, <1>4

\* Every reachable state of an install and of the threads in its sites is well
\* typed; records and jumps stay within the bytes the plan may touch.
THEOREM PatchTypeCorrect == Spec => []TypeOK
<1>1. TypeInv /\ [Next]_vars => TypeInv'
  <2>1. TypeInv /\ Next => TypeInv'
    BY InstallTypes, ThreadTypes DEF Next
  <2> QED  BY <2>1, TypesStutter
<1>2. TypeInv => TypeOK
  BY DEF TypeInv
<1> QED  BY <1>1, <1>2, InitTypes, PTL DEF Spec

-----------------------------------------------------------------------------
(* The theorems.                                                           *)

\* The inductive invariant holds: in every reachable state an emulating
\* callback stands in front of bytes that are no longer the game's, and every
\* fault of a thread is on its way to s_faulted or there.
THEOREM PatchingInvariant == Spec => []IInv
<1>1. IInv /\ [Next]_vars => IInv'
  <2> SUFFICES ASSUME IInv, [Next]_vars PROVE IInv'
    OBVIOUS
  <2>1. CASE Next
    BY <2>1, InstallKeeps, ThreadKeeps DEF Next
  <2>2. CASE UNCHANGED vars
    <3>1. UNCHANGED <<installVars, code, patches, jump>>
          /\ UNCHANGED <<plan, threadVars>> /\ UNCHANGED threadVars
      BY <2>2 DEF vars, installVars
    <3>2. Shape'
      BY <3>1 DEF IInv, Shape, installVars, threadVars, Requests
    <3> QED  BY <3>1, <3>2, InstallKept, ThreadsKept DEF IInv
  <2> QED  BY <2>1, <2>2
<1> QED  BY <1>1, InitIInv, PTL DEF Spec

\* For every set of plans in which what a callback emulates has been erased
\* beforehand: however installs fail and threads overlap with them or fault,
\* no visit of a site produces its effect twice, by make_hook's refusal to go
\* on after a failed erase.
THEOREM AtMostOnceHolds == Spec => []AtMostOnce
<1>1. IInv => AtMostOnce
  BY DEF IInv, VisitInv, AtMostOnce
<1> QED  BY <1>1, PatchingInvariant, PTL

\* For every number of threads: guarded_callback lets a thread fault once in a
\* callback and never again.
THEOREM OneFaultPerThreadHolds == Spec => []OneFaultPerThread
<1>1. IInv => OneFaultPerThread
  BY DEF IInv, FaultInv, OneFaultPerThread
<1> QED  BY <1>1, PatchingInvariant, PTL

-----------------------------------------------------------------------------
(* Erased sites and jumps.                                                 *)

\* An erased site without a jump is the one being worked on, or given up.
ErasedInv ==
    \A i \in Requests :
        (plan.requests[i].op = "replace"
         /\ code[plan.requests[i].addr] = "nop")
            => i = step /\ (result = "failed" \/ pc = "create")

\* Only sites reached by the install have jumps.
JumpInv ==
    \A i \in Requests : jump[i].width > 0 =>
        i \in Sites /\ i <= step /\ (i = step => pc = "listed" \/ result = "ok")

SiteInv == ErasedInv /\ JumpInv /\ JumpsIntact

\* What PlacementAssumption says of the plan being followed.
LEMMA ThisPlanIsPlaced ==
    ASSUME plan \in Plans, NEW i \in Requests
    PROVE  /\ plan.again => plan.requests[i].op = "write"
           /\ plan.requests[i].op = "hook" => plan.requests[i].len = 0
           /\ plan.requests[i].op # "hook" => plan.requests[i].len > 0
           /\ plan.requests[i].op = "replace" => plan.onFail = "stop"
           /\ \A j \in Requests : i # j =>
               /\ plan.requests[i].op = "replace" =>
                    plan.requests[i].addr \notin Footprint(plan.requests[j])
               /\ plan.requests[i].op # "write" /\ i < j =>
                    Footprint(plan.requests[j])
                      \intersect Span(plan.requests[i].addr, Near) = {}
               /\ plan.requests[i].len > Nearby =>
                    plan.requests[j].addr \notin Footprint(plan.requests[i])
               /\ \A a \in Footprint(plan.requests[i])
                             \intersect Footprint(plan.requests[j]) :
                    /\ plan.onFail = "stop" /\ ~plan.again
                    /\ \E k \in Requests :
                         /\ k <= i /\ k <= j /\ Leads(plan.requests, k)
                         /\ a \in RecordedBytes(plan.requests[k])
<1> DEFINE rs == plan.requests
<1>1. /\ plan.again => \A k \in DOMAIN rs : rs[k].op = "write"
      /\ \A k \in DOMAIN rs :
          /\ IF rs[k].op = "hook" THEN rs[k].len = 0 ELSE rs[k].len > 0
          /\ rs[k].op = "replace" => plan.onFail = "stop"
      /\ \A k, j \in DOMAIN rs : k # j =>
          /\ rs[k].op = "replace" => rs[k].addr \notin Footprint(rs[j])
          /\ rs[k].op # "write" /\ k < j =>
               Footprint(rs[j]) \intersect Span(rs[k].addr, Near) = {}
          /\ rs[k].len > Nearby => rs[j].addr \notin Footprint(rs[k])
          /\ \A a \in Footprint(rs[k]) \intersect Footprint(rs[j]) :
               /\ plan.onFail = "stop" /\ ~plan.again
               /\ \E l \in DOMAIN rs : /\ l <= k /\ l <= j /\ Leads(rs, l)
                                       /\ a \in RecordedBytes(rs[l])
  BY PlansArePlaced DEF PlacementAssumption
<1>2. i \in DOMAIN rs /\ Requests = DOMAIN rs
  BY DEF Requests
<1> HIDE DEF rs
<1>3. /\ plan.again => rs[i].op = "write"
      /\ rs[i].op = "hook" => rs[i].len = 0
      /\ rs[i].op # "hook" => rs[i].len > 0
      /\ rs[i].op = "replace" => plan.onFail = "stop"
  BY <1>1, <1>2
<1>4. \A j \in Requests : i # j =>
        /\ rs[i].op = "replace" => rs[i].addr \notin Footprint(rs[j])
        /\ rs[i].op # "write" /\ i < j =>
             Footprint(rs[j]) \intersect Span(rs[i].addr, Near) = {}
        /\ rs[i].len > Nearby => rs[j].addr \notin Footprint(rs[i])
        /\ \A a \in Footprint(rs[i]) \intersect Footprint(rs[j]) :
             /\ plan.onFail = "stop" /\ ~plan.again
             /\ \E k \in Requests : /\ k <= i /\ k <= j /\ Leads(rs, k)
                                    /\ a \in RecordedBytes(rs[k])
  BY <1>1, <1>2
<1> QED  BY <1>3, <1>4 DEF rs

\* What create makes of the code, and the jump it lists.
LEMMA CreateShape ==
    ASSUME TypeInv, Create
    PROVE  /\ Request.op \in SiteOps /\ Request.addr \in Nat
           /\ \E width \in {Near, Far}, size \in Near .. Far + Rest :
                /\ width <= size
                /\ Span(Request.addr, width) \subseteq Span(Request.addr, size)
                /\ Span(Request.addr, size) \subseteq Footprint(Request)
                /\ code' = [a \in Addresses |->
                              IF a \in Span(Request.addr, width) THEN "jump"
                              ELSE IF a \in Span(Request.addr, size) THEN "nop"
                              ELSE code[a]]
                /\ jump'[step] = [width |-> width, size |-> size,
                                  games |-> Games(Span(Request.addr, size))]
                /\ \A i \in Requests : i # step => jump'[i] = jump[i]
<1> USE DEF TypeInv
<1>1. Request.op \in SiteOps /\ step \in Requests
  BY DEF Create, AtCreate, PointInv, SiteOps, TypeOK
<1>2. Request.addr \in Nat
  BY SpansAreAddresses DEF TypeOK, Request
<1>3. PICK width \in {Near, Far} :
        LET under == Span(Request.addr, width)
            rest  == IF \A a \in under : code[a] = "nop" THEN 0 ELSE Rest
            moved == Span(Request.addr, width + rest)
        IN  /\ code' = [a \in Addresses |->
                          IF a \in under THEN "jump"
                          ELSE IF a \in moved THEN "nop" ELSE code[a]]
            /\ jump' = [jump EXCEPT ![step] =
                          [width |-> width, size |-> width + rest,
                           games |-> Games(moved)]]
  BY DEF Create
<1> DEFINE rest == IF \A a \in Span(Request.addr, width) : code[a] = "nop"
                     THEN 0 ELSE Rest
           size == width + rest
<1>4. rest \in {0, Rest}
  OBVIOUS
<1>5. /\ code' = [a \in Addresses |->
                    IF a \in Span(Request.addr, width) THEN "jump"
                    ELSE IF a \in Span(Request.addr, size) THEN "nop"
                    ELSE code[a]]
      /\ jump' = [jump EXCEPT ![step] =
                    [width |-> width, size |-> size,
                     games |-> Games(Span(Request.addr, size))]]
  BY <1>3
<1> HIDE DEF rest
<1>6. size \in Near .. Far + Rest /\ width <= size
  BY <1>4 DEF Near, Far, Rest
<1> HIDE DEF size
<1>7. /\ Span(Request.addr, width) \subseteq Span(Request.addr, size)
      /\ Span(Request.addr, size) \subseteq Span(Request.addr, Far + Rest)
  BY <1>2, <1>6 DEF Span, Near, Far, Rest
<1>8. Span(Request.addr, size) \subseteq Footprint(Request)
  BY <1>1, <1>7 DEF Footprint, SiteOps
<1>9. /\ jump'[step] = [width |-> width, size |-> size,
                        games |-> Games(Span(Request.addr, size))]
      /\ \A i \in Requests : i # step => jump'[i] = jump[i]
  BY <1>1, <1>5 DEF JumpTypes
<1> QED  BY <1>1, <1>2, <1>5, <1>6, <1>7, <1>8, <1>9

\* Stepping on keeps what holds of the sites, where the request at hand is not
\* an erased site without a jump.
LEMMA AdvanceKeepsSites ==
    ASSUME TypeInv, SiteInv, Advance, UNCHANGED <<plan, code, jump>>,
           Request.op = "replace" => code[Request.addr] # "nop"
    PROVE  SiteInv'
<1>1. /\ Requests' = Requests /\ Sites' = Sites
      /\ step \in Requests /\ step' \in Requests /\ pc' = "begin"
      /\ step' = step + 1 \/ (step' = step /\ result' = "ok")
  BY SetsKept, AdvanceSteps DEF TypeInv, TypeOK
<1>2. \A i \in Requests : i \in Nat
  BY RequestsTyped DEF TypeInv, TypeOK
<1>3. ErasedInv'
  BY <1>1 DEF SiteInv, ErasedInv, Request
<1>4. JumpInv'
  <2> SUFFICES ASSUME NEW i \in Requests, jump[i].width > 0
               PROVE  i \in Sites /\ i <= step' /\ (i = step' => result' = "ok")
    BY <1>1 DEF JumpInv
  <2>1. i \in Sites /\ i <= step
    BY DEF SiteInv, JumpInv
  <2> QED  BY <1>1, <1>2, <2>1
<1>5. JumpsIntact'
  BY <1>1 DEF SiteInv, JumpsIntact, JumpWhole
<1> QED  BY <1>3, <1>4, <1>5 DEF SiteInv

\* A request that fails leaves jumps whole, and no second site unserved.
LEMMA FailKeepsSites ==
    ASSUME TypeInv, SiteInv, Fail, result = "busy", pc \in {"begin", "create"},
           UNCHANGED <<plan, patches>>
    PROVE  SiteInv'
<1> USE DEF TypeInv, SiteInv
<1>1. /\ Requests' = Requests /\ Sites' = Sites /\ Addresses' = Addresses
      /\ plan \in Plans /\ step \in Requests
  BY SetsKept DEF TypeOK
<1>2. CASE Advance /\ UNCHANGED <<code, jump>> /\ plan.onFail = "next"
  <2>1. Request.op # "replace"
    BY <1>1, <1>2, ThisPlanIsPlaced DEF Request
  <2> QED  BY <1>2, <2>1, AdvanceKeepsSites
<1>3. CASE UNCHANGED <<step, pc, code, jump>> /\ result' = "failed"
  BY <1>1, <1>3 DEF ErasedInv, JumpInv, JumpsIntact, JumpWhole
<1>4. CASE /\ UNCHANGED <<step, pc>> /\ result' = "failed"
           /\ plan.onFail = "undo"
           /\ jump' = [i \in Requests |-> [jump[i] EXCEPT !.width = 0]]
  <2>1. \A i \in Requests : jump'[i].width = 0
    BY <1>4 DEF JumpTypes
  <2>2. \A i \in Requests : plan.requests[i].op # "replace"
    BY <1>1, <1>4, ThisPlanIsPlaced
  <2> QED  BY <1>1, <2>1, <2>2 DEF ErasedInv, JumpInv, JumpsIntact, Near
<1> QED  BY <1>2, <1>3, <1>4 DEF Fail

\* Bytes that change lie in the bytes of the request at hand: the jumps already
\* made, and the other erased sites, keep theirs.
LEMMA OthersKept ==
    ASSUME TypeInv, SiteInv, UNCHANGED plan,
           \A a \in Addresses : a \notin Footprint(Request) => code'[a] = code[a]
    PROVE  /\ \A i \in Requests :
                i # step /\ plan.requests[i].op = "replace" =>
                  code'[plan.requests[i].addr] = code[plan.requests[i].addr]
           /\ \A i \in Requests :
                i # step /\ jump[i].width = Near =>
                  \A a \in Span(plan.requests[i].addr, Near) : code'[a] = "jump"
<1> USE DEF TypeInv, SiteInv
<1>1. plan \in Plans /\ step \in Requests /\ \A i \in Requests : i \in Nat
  BY RequestsTyped DEF TypeOK
<1>2. ASSUME NEW i \in Requests, i # step, plan.requests[i].op = "replace"
      PROVE  code'[plan.requests[i].addr] = code[plan.requests[i].addr]
  <2>1. plan.requests[i].addr \in Addresses
    BY <1>1, <1>2, AddrIsAddress
  <2>2. plan.requests[i].addr \notin Footprint(Request)
    BY <1>1, <1>2, ThisPlanIsPlaced DEF Request
  <2> QED  BY <2>1, <2>2
<1>3. ASSUME NEW i \in Requests, i # step, jump[i].width = Near,
             NEW a \in Span(plan.requests[i].addr, Near)
      PROVE  code'[a] = "jump"
  <2>1. i \in Sites /\ i < step
    BY <1>1, <1>3 DEF JumpInv, Near
  <2>2. plan.requests[i].op \in SiteOps
    BY <2>1 DEF Sites
  <2>3. a \notin Footprint(Request)
    BY <1>1, <1>3, <2>1, <2>2, ThisPlanIsPlaced DEF Request, SiteOps
  <2>4. a \in Addresses
    BY <1>1, <1>3, <2>2, SpansAreAddresses DEF Near, Far, Rest
  <2>5. code[a] = "jump"
    BY <1>3 DEF JumpsIntact, JumpWhole
  <2> QED  BY <2>3, <2>4, <2>5
<1> QED  BY <1>2, <1>3

\* Each step of the install keeps what holds of the sites.
LEMMA InstallKeepsSites == TypeInv /\ SiteInv /\ InstallStep => SiteInv'
<1> SUFFICES ASSUME TypeInv, SiteInv, InstallStep PROVE SiteInv'
  OBVIOUS
<1> USE DEF SiteInv
<1>1. /\ UNCHANGED plan
      /\ Requests' = Requests /\ Sites' = Sites /\ Addresses' = Addresses
      /\ plan \in Plans /\ step \in Requests /\ \A i \in Requests : i \in Nat
  <2>1. UNCHANGED plan
    BY DEF InstallStep, Protect, RecordWrite, Store, Create, CreateFails,
           RecordHook, Repeat
  <2> QED  BY <2>1, SetsKept, RequestsTyped DEF TypeInv, TypeOK
<1>2. CASE Protect
  <2>1. CASE Fail
    BY <1>2, <2>1, FailKeepsSites DEF Protect
  <2>2. CASE pc' = "record" /\ UNCHANGED <<step, result, code, jump>>
    BY <1>1, <1>2, <2>2
    DEF Protect, ErasedInv, JumpInv, JumpsIntact, JumpWhole
  <2> QED  BY <1>2, <2>1, <2>2 DEF Protect
<1>3. CASE RecordWrite
  BY <1>1, <1>3 DEF RecordWrite, ErasedInv, JumpInv, JumpsIntact, JumpWhole
<1>4. CASE Store
  <2>1. PICK byte \in Request.puts :
            code' = Puts(Span(Request.addr, Request.len), byte)
    BY <1>4 DEF Store
  <2>2. \A a \in Addresses : a \notin Footprint(Request) => code'[a] = code[a]
    BY <2>1 DEF Puts, Footprint
  <2>3. result = "busy" /\ pc = "store" /\ UNCHANGED jump
    BY <1>4 DEF Store
  <2>4. /\ \A i \in Requests :
             plan.requests[i].op = "replace" =>
               code[plan.requests[i].addr] # "nop"
        /\ \A i \in Requests : jump[i].width > 0 => i # step /\ i < step
                                                   /\ i \in Sites
    BY <1>1, <2>3 DEF ErasedInv, JumpInv
  <2>5. JumpsIntact'
    <3> SUFFICES ASSUME NEW i \in Requests, jump[i].width = Near
                 PROVE  \A a \in Span(plan.requests[i].addr, Near) : code'[a] = "jump"
      BY <1>1, <2>3 DEF JumpsIntact, JumpWhole, Near
    <3>1. i # step
      BY <2>4 DEF Near
    <3> QED  BY <1>1, <2>2, <3>1, OthersKept
  <2>6. /\ step' \in Requests
        /\ \/ step' = step + 1
           \/ step' = step /\ (result' = "ok" \/ pc' = "create")
    BY <1>1, <1>4, AdvanceSteps DEF Store
  <2>7. JumpInv'
    <3> SUFFICES ASSUME NEW i \in Requests, jump[i].width > 0
                 PROVE  i \in Sites /\ i <= step' /\ i # step'
      BY <1>1, <2>3 DEF JumpInv
    <3> QED  BY <1>1, <2>4, <2>6
  <2>8. ErasedInv'
    <3> SUFFICES ASSUME NEW i \in Requests, plan.requests[i].op = "replace",
                        code'[plan.requests[i].addr] = "nop"
                 PROVE  i = step' /\ pc' = "create"
      BY <1>1 DEF ErasedInv
    <3>1. i = step
      BY <1>1, <2>2, <2>4, OthersKept
    <3>2. Request.op = "replace"
      BY <3>1 DEF Request
    <3> QED  BY <1>4, <3>1, <3>2 DEF Store
  <2> QED  BY <2>5, <2>7, <2>8
<1>5. CASE Create
  <2>1. /\ Request.op \in SiteOps /\ Request.addr \in Nat
        /\ \E width \in {Near, Far}, size \in Near .. Far + Rest :
             /\ width <= size
             /\ Span(Request.addr, width) \subseteq Span(Request.addr, size)
             /\ Span(Request.addr, size) \subseteq Footprint(Request)
             /\ code' = [a \in Addresses |->
                           IF a \in Span(Request.addr, width) THEN "jump"
                           ELSE IF a \in Span(Request.addr, size) THEN "nop"
                           ELSE code[a]]
             /\ jump'[step] = [width |-> width, size |-> size,
                               games |-> Games(Span(Request.addr, size))]
             /\ \A i \in Requests : i # step => jump'[i] = jump[i]
    BY <1>5, CreateShape
  <2>2. PICK width \in {Near, Far}, size \in Near .. Far + Rest :
             /\ Span(Request.addr, width) \subseteq Span(Request.addr, size)
             /\ Span(Request.addr, size) \subseteq Footprint(Request)
             /\ code' = [a \in Addresses |->
                           IF a \in Span(Request.addr, width) THEN "jump"
                           ELSE IF a \in Span(Request.addr, size) THEN "nop"
                           ELSE code[a]]
             /\ jump'[step] = [width |-> width, size |-> size,
                               games |-> Games(Span(Request.addr, size))]
             /\ \A i \in Requests : i # step => jump'[i] = jump[i]
    BY <2>1
  <2>3. \A a \in Addresses : a \notin Footprint(Request) => code'[a] = code[a]
    BY <2>2
  <2>4. result = "busy" /\ pc # "listed" /\ pc' = "listed" /\ UNCHANGED step
    BY <1>5 DEF Create, AtCreate
  <2>5. \A a \in Span(Request.addr, width) : a \in Addresses /\ code'[a] = "jump"
    <3>1. Footprint(Request) \subseteq Addresses
      BY <1>1 DEF Addresses, Request
    <3> QED  BY <2>2, <3>1
  <2>6. JumpsIntact'
    <3> SUFFICES ASSUME NEW i \in Requests, jump'[i].width = Near
                 PROVE  \A a \in Span(plan.requests[i].addr, Near) : code'[a] = "jump"
      BY <1>1 DEF JumpsIntact, JumpWhole, Near
    <3>1. CASE i = step
      <4>1. jump'[i].width = width
        BY <2>2, <3>1
      <4> QED  BY <2>5, <3>1, <4>1 DEF Request
    <3>2. CASE i # step
      BY <1>1, <2>2, <2>3, <3>2, OthersKept
    <3> QED  BY <3>1, <3>2
  <2>7. JumpInv'
    <3> SUFFICES ASSUME NEW i \in Requests, jump'[i].width > 0
                 PROVE  i \in Sites /\ i <= step
      BY <1>1, <2>4 DEF JumpInv
    <3>1. CASE i = step
      BY <1>1, <2>1, <3>1 DEF Sites, Request
    <3>2. CASE i # step
      BY <2>2, <3>2 DEF JumpInv
    <3> QED  BY <3>1, <3>2
  <2>8. ErasedInv'
    <3> SUFFICES ASSUME NEW i \in Requests, plan.requests[i].op = "replace",
                        code'[plan.requests[i].addr] = "nop"
                 PROVE  FALSE
      BY <1>1 DEF ErasedInv
    <3>1. i = step
      BY <1>1, <2>3, <2>4, OthersKept DEF ErasedInv
    <3>2. plan.requests[i].addr \in Span(Request.addr, width)
      BY <2>1, <3>1 DEF Request, Span, Near, Far
    <3> QED  BY <2>5, <3>2
  <2> QED  BY <2>6, <2>7, <2>8
<1>6. CASE CreateFails
  BY <1>6, FailKeepsSites DEF CreateFails, AtCreate
<1>7. CASE RecordHook
  <2>1. Request.op = "replace" => code[Request.addr] # "nop"
    BY <1>1, <1>7 DEF RecordHook, ErasedInv, Request
  <2> QED  BY <1>7, <2>1, AdvanceKeepsSites DEF RecordHook
<1>8. CASE Repeat
  <2>1. /\ plan.again /\ result = "ok" /\ UNCHANGED <<code, jump>>
    BY <1>8 DEF Repeat
  <2>2. \A i \in Requests : plan.requests[i].op = "write"
    BY <1>1, <2>1, ThisPlanIsPlaced
  <2>3. \A i \in Requests : ~(jump[i].width > 0)
    BY <2>2 DEF JumpInv, Sites, SiteOps
  <2> QED  BY <1>1, <2>1, <2>2, <2>3
           DEF ErasedInv, JumpInv, JumpsIntact, JumpWhole
<1> QED
  BY <1>2, <1>3, <1>4, <1>5, <1>6, <1>7, <1>8 DEF InstallStep

\* A step of a thread changes nothing of the install.
LEMMA ThreadLeavesInstall ==
    ThreadStep => UNCHANGED <<installVars, code, patches, jump>>
BY DEF ThreadStep, Enter, TestFaulted, RunFunctor, FunctorFaults, Contain,
       RunMoved

\* The erased sites and the jumps are as SiteInv says in every reachable state.
LEMMA SitesHold == Spec => [](TypeInv /\ SiteInv)
<1>1. Init => TypeInv /\ SiteInv
  <2> SUFFICES ASSUME Init PROVE TypeInv /\ SiteInv
    OBVIOUS
  <2>1. TypeInv /\ plan \in Plans
    BY InitTypes DEF Init
  <2>2. \A i \in Requests : jump[i].width = 0
    BY DEF Init, NoJump
  <2>3. \A a \in Addresses : code[a] = "game"
    BY DEF Init
  <2>4. \A i \in Requests : plan.requests[i].op = "replace" =>
            plan.requests[i].addr \in Addresses
    BY <2>1, AddrIsAddress
  <2> QED  BY <2>1, <2>2, <2>3, <2>4
           DEF SiteInv, ErasedInv, JumpInv, JumpsIntact, Near
<1>2. TypeInv /\ SiteInv /\ [Next]_vars => (TypeInv /\ SiteInv)'
  <2> SUFFICES ASSUME TypeInv, SiteInv, [Next]_vars
               PROVE  TypeInv' /\ SiteInv'
    OBVIOUS
  <2>1. ASSUME UNCHANGED <<installVars, code, patches, jump>> PROVE SiteInv'
    BY <2>1, SetsKept
    DEF SiteInv, ErasedInv, JumpInv, JumpsIntact, JumpWhole, installVars
  <2>2. CASE InstallStep
    BY <2>2, InstallTypes, InstallKeepsSites
  <2>3. CASE ThreadStep
    BY <2>1, <2>3, ThreadLeavesInstall, ThreadTypes
  <2>4. CASE UNCHANGED vars
    BY <2>1, <2>4, TypesStutter DEF vars
  <2> QED  BY <2>2, <2>3, <2>4 DEF Next
<1> QED  BY <1>1, <1>2, PTL DEF Spec

\* For every set of plans: whichever request fails, the install leaves at most
\* one site erased and unserved, the one it has failed at.
THEOREM OneSiteUnservedHolds == Spec => []OneSiteUnserved
<1>1. SiteInv => OneSiteUnserved
  BY DEF SiteInv, ErasedInv, OneSiteUnserved
<1> QED  BY <1>1, SitesHold, PTL

\* For every set of plans in which what touches a jump comes before it: no
\* later request, reload or failure leaves a jump of five bytes torn.
THEOREM JumpsStayIntact == Spec => []JumpsIntact
<1>1. SiteInv => JumpsIntact
  BY DEF SiteInv
<1> QED  BY <1>1, SitesHold, PTL

-----------------------------------------------------------------------------
(* Records.                                                                *)

Recorded(addr) == \E p \in patches : p.base = addr
Shown(a) == \E q \in patches : a \in q.shows

\* Every record is of a request, the first one that registered its address.
BaseInv ==
    /\ \A p \in patches : \E j \in Requests :
         /\ p.base = plan.requests[j].addr
         /\ IF plan.requests[j].op = "hook" THEN p.size \in Near .. Far + Rest
                                            ELSE p.size = plan.requests[j].len
    /\ plan.onFail = "stop" =>
         \A k \in Requests : Leads(plan.requests, k) =>
           \A p \in patches : p.base = plan.requests[k].addr
                                => p.size = plan.requests[k].len

\* A request is recorded before it stores, and an install that stops at its
\* first failure has recorded what it got past.
ProgressInv ==
    /\ pc \in {"store", "create"} \/ (pc = "listed" /\ Request.op = "replace")
         => Recorded(Request.addr)
    /\ plan.onFail = "stop" =>
         \A k \in Requests : k < step /\ plan.requests[k].op # "hook"
                               => Recorded(plan.requests[k].addr)
    /\ pc = "listed" => jump[step].size \in Near .. Far + Rest
    /\ reloads > 0 => plan.again

\* A changed byte lies in a request that was reached and is recorded, or under
\* the jump about to be recorded.
ChangedInv ==
    \A a \in Addresses : code[a] # "game" =>
        \/ \E i \in Requests : /\ a \in Footprint(plan.requests[i])
                               /\ i <= step \/ reloads > 0
                               /\ Recorded(plan.requests[i].addr)
        \/ pc = "listed" /\ a \in Span(Request.addr, jump[step].size)

\* Of the bytes about to be recorded, those that were no longer the game's when
\* the jump was made are in a record that has the game's.
GapInv ==
    pc = "listed" /\ ~Recorded(Request.addr) =>
        \A a \in Span(Request.addr, jump[step].size) :
            a \in jump[step].games \/ Shown(a)

RegistryInv ==
    BaseInv /\ ProgressInv /\ ChangedInv /\ GapInv /\ OriginalsAreTheGames

\* What register_patch leaves: the records there were, one for the address, and
\* a new one only if there was none.
LEMMA RegisterGrows ==
    ASSUME NEW base, NEW size, NEW games, Register(base, size, games)
    PROVE  /\ patches \subseteq patches'
           /\ \E p \in patches' : p.base = base
           /\ \A p \in patches' : p \in patches \/
                /\ ~Recorded(base)
                /\ p = [base |-> base, size |-> size,
                        shows |-> games \intersect Span(base, Kept)]
<1> DEFINE new == [base |-> base, size |-> size,
                   shows |-> games \intersect Span(base, Kept)]
<1>1. new.base = base
  OBVIOUS
<1>2. IF Recorded(base) THEN UNCHANGED patches ELSE patches' = patches \union {new}
  BY DEF Register, Recorded
<1> HIDE DEF new
<1>3. /\ patches \subseteq patches'
      /\ \E p \in patches' : p.base = base
      /\ \A p \in patches' : p \in patches \/ (~Recorded(base) /\ p = new)
  <2>1. CASE Recorded(base)
    BY <1>2, <2>1 DEF Recorded
  <2>2. CASE ~Recorded(base)
    BY <1>1, <1>2, <2>2
  <2> QED  BY <2>1, <2>2
<1> QED  BY <1>3 DEF new

\* A byte of the request at hand that is no longer the game's is in a record
\* that has the game's, unless the request itself is recorded.
LEMMA ChangedIsShown ==
    ASSUME TypeInv, RegistryInv, pc # "listed", ~Recorded(Request.addr),
           NEW a \in Footprint(Request), code[a] # "game"
    PROVE  Shown(a)
<1> USE DEF TypeInv, RegistryInv
<1>1. plan \in Plans /\ step \in Requests /\ \A i \in Requests : i \in Nat
  BY RequestsTyped DEF TypeOK
<1>2. a \in Addresses
  BY <1>1 DEF Addresses, Request
<1>3. PICK i \in Requests : /\ a \in Footprint(plan.requests[i])
                            /\ i <= step \/ reloads > 0
                            /\ Recorded(plan.requests[i].addr)
  BY <1>2 DEF ChangedInv
<1>4. i # step
  BY <1>3 DEF Request
<1>5. /\ plan.onFail = "stop" /\ ~plan.again
      /\ \E k \in Requests :
           /\ k <= i /\ k <= step /\ Leads(plan.requests, k)
           /\ a \in RecordedBytes(plan.requests[k])
  BY <1>1, <1>3, <1>4, ThisPlanIsPlaced DEF Request
<1>6. PICK k \in Requests : /\ k <= i /\ Leads(plan.requests, k)
                            /\ a \in RecordedBytes(plan.requests[k])
  BY <1>5
<1>7. k < step
  BY <1>1, <1>3, <1>4, <1>5, <1>6 DEF ProgressInv
<1>8. PICK p \in patches : p.base = plan.requests[k].addr
  BY <1>5, <1>6, <1>7 DEF ProgressInv, Leads, Recorded
<1>9. p.size = plan.requests[k].len
  BY <1>5, <1>6, <1>8 DEF BaseInv
<1>10. a \in Span(p.base, p.size) \intersect Span(p.base, Kept)
  BY <1>6, <1>8, <1>9 DEF RecordedBytes
<1> QED  BY <1>10 DEF OriginalsAreTheGames, Shown

\* Recording the request at hand.
LEMMA RegisterKeeps ==
    ASSUME TypeInv, RegistryInv, UNCHANGED plan,
           NEW size, NEW games, Register(Request.addr, size, games),
           ~Recorded(Request.addr) =>
             /\ IF Request.op = "hook" THEN size \in Near .. Far + Rest
                                       ELSE size = Request.len
             /\ \A a \in Span(Request.addr, size) : a \in games \/ Shown(a)
    PROVE  BaseInv' /\ OriginalsAreTheGames'
<1> USE DEF TypeInv, RegistryInv
<1> DEFINE new == [base |-> Request.addr, size |-> size,
                   shows |-> games \intersect Span(Request.addr, Kept)]
<1>1. /\ patches \subseteq patches'
      /\ \A p \in patches' : p \in patches \/ (~Recorded(Request.addr) /\ p = new)
  BY RegisterGrows
<1>2. /\ plan \in Plans /\ step \in Requests /\ \A i \in Requests : i \in Nat
      /\ Requests = 1 .. Len(plan.requests)
  BY RequestsTyped DEF TypeOK
<1>3. Requests' = Requests
  BY SetsKept
<1>4. new.base = Request.addr /\ new.size = size
      /\ new.shows = games \intersect Span(Request.addr, Kept)
  OBVIOUS
<1> HIDE DEF new
<1>5. ASSUME NEW p \in patches'
      PROVE  \E j \in Requests :
               /\ p.base = plan.requests[j].addr
               /\ IF plan.requests[j].op = "hook"
                    THEN p.size \in Near .. Far + Rest
                    ELSE p.size = plan.requests[j].len
  <2>1. CASE p \in patches
    BY <2>1 DEF BaseInv
  <2>2. CASE ~Recorded(Request.addr) /\ p = new
    BY <1>2, <1>4, <2>2 DEF Request
  <2> QED  BY <1>1, <2>1, <2>2
<1>6. ASSUME plan.onFail = "stop", NEW k \in Requests, Leads(plan.requests, k),
             NEW p \in patches', p.base = plan.requests[k].addr
      PROVE  p.size = plan.requests[k].len
  <2>1. CASE p \in patches
    BY <1>6, <2>1 DEF BaseInv
  <2>2. CASE ~Recorded(Request.addr) /\ p = new
    <3>1. plan.requests[k].addr = Request.addr /\ plan.requests[k].op # "hook"
      BY <1>4, <1>6, <2>2 DEF Leads
    <3>2. ~(k < step)
      BY <1>6, <2>2, <3>1 DEF ProgressInv
    <3>3. ~(step < k)
      BY <1>2, <1>6, <3>1 DEF Leads, Request
    <3>4. k = step
      BY <1>2, <3>2, <3>3
    <3> QED  BY <1>4, <2>2, <3>1, <3>4 DEF Request
  <2> QED  BY <1>1, <2>1, <2>2
<1>7. BaseInv'
  BY <1>3, <1>5, <1>6 DEF BaseInv
<1>8. ASSUME NEW p \in patches',
             NEW a \in Span(p.base, p.size) \intersect Span(p.base, Kept)
      PROVE  \E q \in patches' : a \in q.shows
  <2>1. CASE p \in patches
    BY <1>1, <2>1 DEF OriginalsAreTheGames
  <2>2. CASE ~Recorded(Request.addr) /\ p = new
    <3>1. a \in games \/ Shown(a)
      BY <1>4, <2>2
    <3> QED  BY <1>1, <1>4, <2>2, <3>1 DEF Shown
  <2> QED  BY <1>1, <2>1, <2>2
<1>9. OriginalsAreTheGames'
  BY <1>8 DEF OriginalsAreTheGames
<1> QED  BY <1>7, <1>9

\* Stepping on from a request that is recorded.
LEMMA AdvanceKeepsProgress ==
    ASSUME TypeInv, RegistryInv, Advance, UNCHANGED <<plan, reloads>>,
           patches \subseteq patches',
           plan.onFail = "stop" /\ Request.op # "hook"
             => \E p \in patches' : p.base = Request.addr
    PROVE  ProgressInv' /\ GapInv'
<1> USE DEF TypeInv, RegistryInv
<1>1. /\ pc' = "begin" /\ step' \in Requests
      /\ step' = step + 1 \/ step' = step
      /\ Requests' = Requests /\ \A i \in Requests : i \in Nat
      /\ step \in Requests
  BY AdvanceSteps, SetsKept, RequestsTyped DEF TypeOK
<1>2. ASSUME plan.onFail = "stop", NEW k \in Requests, k < step',
             plan.requests[k].op # "hook"
      PROVE  \E p \in patches' : p.base = plan.requests[k].addr
  <2>1. CASE k < step
    BY <1>2, <2>1 DEF ProgressInv, Recorded
  <2>2. CASE k = step
    BY <1>2, <2>2 DEF Request
  <2> QED  BY <1>1, <1>2, <2>1, <2>2
<1>3. ProgressInv'
  BY <1>1, <1>2 DEF ProgressInv, Recorded
<1> QED  BY <1>1, <1>3 DEF GapInv

\* A byte changes within the request at hand, once that is recorded or while
\* the jump over it is about to be.
LEMMA StepKeepsChanged ==
    ASSUME TypeInv, RegistryInv, UNCHANGED plan, patches \subseteq patches',
           step' \in Requests,
           step <= step' \/ reloads' > 0, reloads > 0 => reloads' > 0,
           pc = "listed" => \E p \in patches' : p.base = Request.addr,
           \A a \in Addresses :
             \/ code'[a] \in {code[a], "game"}
             \/ a \in Footprint(Request) /\ \E p \in patches' : p.base = Request.addr
             \/ /\ pc' = "listed" /\ step' = step
                /\ a \in Span(Request.addr, jump'[step].size)
    PROVE  ChangedInv'
<1> USE DEF TypeInv, RegistryInv
<1>1. /\ Requests' = Requests /\ Addresses' = Addresses
      /\ plan \in Plans /\ step \in Requests /\ \A i \in Requests : i \in Nat
  BY SetsKept, RequestsTyped DEF TypeOK
<1>2. ASSUME NEW a \in Addresses, code'[a] # "game"
      PROVE  \/ \E i \in Requests :
                  /\ a \in Footprint(plan.requests[i])
                  /\ i <= step' \/ reloads' > 0
                  /\ \E p \in patches' : p.base = plan.requests[i].addr
             \/ /\ pc' = "listed" /\ step' = step
                /\ a \in Span(Request.addr, jump'[step].size)
  <2>1. CASE a \in Footprint(Request) /\ \E p \in patches' : p.base = Request.addr
    BY <1>1, <2>1 DEF Request
  <2>2. CASE code'[a] = code[a]
    <3>1. CASE pc = "listed" /\ a \in Span(Request.addr, jump[step].size)
      <4>1. Request.op \in SiteOps /\ Request.addr \in Nat
        BY <1>1, <3>1, SpansAreAddresses DEF PointInv, Request
      <4>2. jump[step].size \in Near .. Far + Rest
        BY <3>1 DEF ProgressInv
      <4>3. a \in Footprint(Request)
        BY <3>1, <4>1, <4>2 DEF Footprint, SiteOps, Span, Near, Far, Rest
      <4> QED  BY <2>1, <3>1, <4>3
    <3>2. CASE \E i \in Requests : /\ a \in Footprint(plan.requests[i])
                                   /\ i <= step \/ reloads > 0
                                   /\ Recorded(plan.requests[i].addr)
      <4>1. PICK i \in Requests : /\ a \in Footprint(plan.requests[i])
                                  /\ i <= step \/ reloads > 0
                                  /\ Recorded(plan.requests[i].addr)
        BY <3>2
      <4>2. i <= step' \/ reloads' > 0
        BY <1>1, <4>1
      <4>3. \E p \in patches' : p.base = plan.requests[i].addr
        BY <4>1 DEF Recorded
      <4> QED  BY <4>1, <4>2, <4>3
    <3> QED  BY <1>2, <2>2, <3>1, <3>2 DEF ChangedInv
  <2> QED  BY <1>2, <2>1, <2>2
<1> QED  BY <1>1, <1>2 DEF ChangedInv, Recorded, Request

\* Each step of the install keeps what holds of the records.
LEMMA InstallKeepsRecords == TypeInv /\ RegistryInv /\ InstallStep => RegistryInv'
<1> SUFFICES ASSUME TypeInv, RegistryInv, InstallStep PROVE RegistryInv'
  OBVIOUS
<1> USE DEF RegistryInv
<1>1. /\ UNCHANGED plan
      /\ Requests' = Requests /\ Addresses' = Addresses
      /\ plan \in Plans /\ step \in Requests /\ \A i \in Requests : i \in Nat
      /\ result \in {"busy", "ok", "failed"}
  <2>1. UNCHANGED plan
    BY DEF InstallStep, Protect, RecordWrite, Store, Create, CreateFails,
           RecordHook, Repeat
  <2> QED  BY <2>1, SetsKept, RequestsTyped DEF TypeInv, TypeOK
<1>2. ASSUME UNCHANGED patches PROVE BaseInv' /\ OriginalsAreTheGames'
  BY <1>1, <1>2 DEF BaseInv, OriginalsAreTheGames
<1>3. ASSUME Fail, result = "busy", pc \in {"begin", "create"},
             UNCHANGED <<reloads, patches>>
      PROVE  RegistryInv'
  <2>1. \A a \in Addresses : code'[a] \in {code[a], "game"}
    BY <1>3 DEF Fail, Puts
  <2>2. CASE Advance /\ plan.onFail = "next"
    <3>1. step' \in Requests /\ step <= step'
      BY <1>1, <2>2, AdvanceSteps
    <3>2. ChangedInv'
      BY <1>1, <1>3, <2>1, <3>1, StepKeepsChanged
    <3>3. ProgressInv' /\ GapInv'
      BY <1>1, <1>3, <2>2, AdvanceKeepsProgress
    <3> QED  BY <1>2, <1>3, <3>2, <3>3
  <2>3. CASE UNCHANGED <<step, pc>>
    <3>1. ChangedInv'
      BY <1>1, <1>3, <2>1, <2>3, StepKeepsChanged
    <3>2. ProgressInv' /\ GapInv'
      BY <1>1, <1>3, <2>3 DEF ProgressInv, GapInv, Recorded, Request
    <3> QED  BY <1>2, <1>3, <3>1, <3>2
  <2> QED  BY <1>3, <2>2, <2>3 DEF Fail
<1>4. CASE Protect
  <2>1. CASE Fail
    BY <1>3, <1>4, <2>1 DEF Protect
  <2>2. CASE pc' = "record" /\ UNCHANGED <<step, result, code, jump>>
    <3>1. UNCHANGED <<reloads, patches>> /\ pc = "begin"
      BY <1>4 DEF Protect
    <3>2. ChangedInv'
      BY <1>1, <2>2, <3>1, StepKeepsChanged
    <3>3. ProgressInv' /\ GapInv'
      BY <1>1, <2>2, <3>1 DEF ProgressInv, GapInv, Recorded, Request
    <3> QED  BY <1>2, <3>1, <3>2, <3>3
  <2> QED  BY <1>4, <2>1, <2>2 DEF Protect
<1>5. CASE RecordWrite
  <2>1. /\ pc = "record" /\ pc' = "store"
        /\ UNCHANGED <<step, reloads, code, jump>>
        /\ Register(Request.addr, Request.len,
                    Games(Span(Request.addr, Request.len)))
    BY <1>5 DEF RecordWrite
  <2>2. patches \subseteq patches' /\ \E p \in patches' : p.base = Request.addr
    BY <2>1, RegisterGrows
  <2>3. Request.op # "hook"
    BY <2>1 DEF TypeInv, PointInv
  <2>4. ~Recorded(Request.addr) =>
          \A a \in Span(Request.addr, Request.len) :
            a \in Games(Span(Request.addr, Request.len)) \/ Shown(a)
    BY <2>1, ChangedIsShown DEF Games, Footprint
  <2>5. BaseInv' /\ OriginalsAreTheGames'
    BY <1>1, <2>1, <2>3, <2>4, RegisterKeeps
  <2>6. ChangedInv'
    BY <1>1, <2>1, <2>2, StepKeepsChanged
  <2>7. ProgressInv' /\ GapInv'
    BY <1>1, <2>1, <2>2 DEF ProgressInv, GapInv, Recorded, Request
  <2> QED  BY <2>5, <2>6, <2>7
<1>6. CASE Store
  <2>1. /\ pc = "store" /\ UNCHANGED <<reloads, patches, jump>>
        /\ \/ pc' = "create" /\ UNCHANGED step
           \/ Advance
    BY <1>6 DEF Store
  <2>2. PICK byte \in Request.puts :
            code' = Puts(Span(Request.addr, Request.len), byte)
    BY <1>6 DEF Store
  <2>3. \E p \in patches' : p.base = Request.addr
    BY <2>1 DEF ProgressInv, Recorded
  <2>4. \A a \in Addresses : code'[a] = code[a] \/ a \in Footprint(Request)
    BY <2>2 DEF Puts, Footprint
  <2>5. step' \in Requests /\ step <= step'
    BY <1>1, <2>1, AdvanceSteps
  <2>6. ChangedInv'
    BY <1>1, <2>1, <2>3, <2>4, <2>5, StepKeepsChanged
  <2>7. ProgressInv' /\ GapInv'
    <3>1. CASE pc' = "create" /\ UNCHANGED step
      BY <1>1, <2>1, <3>1 DEF ProgressInv, GapInv, Recorded, Request
    <3>2. CASE Advance
      BY <1>1, <2>1, <2>3, <3>2, AdvanceKeepsProgress
    <3> QED  BY <2>1, <3>1, <3>2
  <2> QED  BY <1>2, <2>1, <2>6, <2>7
<1>7. CASE Create
  <2>1. /\ pc # "listed" /\ pc' = "listed"
        /\ UNCHANGED <<step, reloads, patches>>
        /\ pc = "create" \/ Request.op = "hook"
    BY <1>7 DEF Create, AtCreate
  <2>2. PICK width \in {Near, Far}, size \in Near .. Far + Rest :
             /\ Span(Request.addr, width) \subseteq Span(Request.addr, size)
             /\ Span(Request.addr, size) \subseteq Footprint(Request)
             /\ code' = [a \in Addresses |->
                           IF a \in Span(Request.addr, width) THEN "jump"
                           ELSE IF a \in Span(Request.addr, size) THEN "nop"
                           ELSE code[a]]
             /\ jump'[step] = [width |-> width, size |-> size,
                               games |-> Games(Span(Request.addr, size))]
             /\ \A i \in Requests : i # step => jump'[i] = jump[i]
    BY <1>7, CreateShape
  <2>3. jump'[step].size = size
        /\ jump'[step].games = Games(Span(Request.addr, size))
    BY <2>2
  <2>4. \A a \in Addresses : \/ code'[a] = code[a]
                             \/ a \in Span(Request.addr, jump'[step].size)
    BY <2>2, <2>3
  <2>5. ChangedInv'
    BY <1>1, <2>1, <2>4, StepKeepsChanged
  <2>6. ProgressInv'
    BY <1>1, <2>1, <2>3 DEF ProgressInv, Recorded, Request, TypeInv, PointInv
  <2>7. ~Recorded(Request.addr) =>
          \A a \in Span(Request.addr, size) :
            a \in Games(Span(Request.addr, size)) \/ Shown(a)
    BY <2>1, <2>2, ChangedIsShown DEF Games
  <2>8. GapInv'
    BY <1>1, <2>1, <2>3, <2>7 DEF GapInv, Recorded, Shown, Request
  <2> QED  BY <1>2, <2>1, <2>5, <2>6, <2>8
<1>8. CASE CreateFails
  BY <1>3, <1>8 DEF CreateFails, AtCreate
<1>9. CASE RecordHook
  <2>1. /\ pc = "listed" /\ Advance /\ UNCHANGED <<reloads, code, jump>>
        /\ Register(Request.addr, jump[step].size, jump[step].games)
    BY <1>9 DEF RecordHook
  <2>2. patches \subseteq patches' /\ \E p \in patches' : p.base = Request.addr
    BY <2>1, RegisterGrows
  <2>3. Request.op \in SiteOps
    BY <2>1 DEF TypeInv, PointInv
  <2>4. ~Recorded(Request.addr) =>
          /\ Request.op = "hook" /\ jump[step].size \in Near .. Far + Rest
          /\ \A a \in Span(Request.addr, jump[step].size) :
               a \in jump[step].games \/ Shown(a)
    BY <2>1, <2>3 DEF ProgressInv, GapInv, SiteOps
  <2>5. BaseInv' /\ OriginalsAreTheGames'
    BY <1>1, <2>1, <2>4, RegisterKeeps
  <2>6. step' \in Requests /\ step <= step'
    BY <1>1, <2>1, AdvanceSteps
  <2>7. ChangedInv'
    BY <1>1, <2>1, <2>2, <2>6, StepKeepsChanged
  <2>8. ProgressInv' /\ GapInv'
    BY <1>1, <2>1, <2>2, AdvanceKeepsProgress
  <2> QED  BY <2>5, <2>7, <2>8
<1>10. CASE Repeat
  <2>1. /\ plan.again /\ reloads' = reloads + 1 /\ step' = 1
        /\ pc = "begin" /\ UNCHANGED <<pc, code, patches, jump>>
    BY <1>10 DEF Repeat, TypeInv, PointInv
  <2>2. reloads' > 0 /\ 1 \in Requests
    BY <1>1, <2>1, RequestsTyped DEF TypeInv, TypeOK
  <2>3. ChangedInv'
    BY <1>1, <2>1, <2>2, StepKeepsChanged
  <2>4. ProgressInv' /\ GapInv'
    <3>1. \A k \in Requests : ~(k < 1)
      BY <1>1, RequestsTyped
    <3> QED  BY <1>1, <2>1, <3>1 DEF ProgressInv, GapInv
  <2> QED  BY <1>2, <2>1, <2>3, <2>4
<1> QED
  BY <1>4, <1>5, <1>6, <1>7, <1>8, <1>9, <1>10 DEF InstallStep

\* The records describe the code in every reachable state.
LEMMA RecordsHold == Spec => [](TypeInv /\ RegistryInv)
<1>1. Init => TypeInv /\ RegistryInv
  <2> SUFFICES ASSUME Init PROVE TypeInv /\ RegistryInv
    OBVIOUS
  <2>1. TypeInv /\ \A i \in Requests : i \in Nat /\ ~(i < 1)
    BY InitTypes, RequestsTyped DEF Init
  <2>2. BaseInv /\ GapInv /\ OriginalsAreTheGames
    BY DEF Init, BaseInv, GapInv, OriginalsAreTheGames
  <2>3. ProgressInv
    BY <2>1 DEF Init, ProgressInv
  <2>4. ChangedInv
    BY DEF Init, ChangedInv
  <2> QED  BY <2>1, <2>2, <2>3, <2>4 DEF RegistryInv
<1>2. TypeInv /\ RegistryInv /\ [Next]_vars => (TypeInv /\ RegistryInv)'
  <2> SUFFICES ASSUME TypeInv, RegistryInv, [Next]_vars
               PROVE  TypeInv' /\ RegistryInv'
    OBVIOUS
  <2>1. ASSUME UNCHANGED <<installVars, code, patches, jump>> PROVE RegistryInv'
    <3>1. /\ UNCHANGED <<plan, step, pc, reloads, code, patches, jump>>
          /\ Requests' = Requests /\ Addresses' = Addresses /\ Request' = Request
      BY <2>1, SetsKept DEF installVars, Request
    <3>2. BaseInv' /\ ProgressInv' /\ OriginalsAreTheGames'
      BY <3>1 DEF RegistryInv, BaseInv, ProgressInv, OriginalsAreTheGames, Recorded
    <3>3. ChangedInv' /\ GapInv'
      BY <3>1 DEF RegistryInv, ChangedInv, GapInv, Recorded, Shown
    <3> QED  BY <3>2, <3>3 DEF RegistryInv
  <2>2. CASE InstallStep
    BY <2>2, InstallTypes, InstallKeepsRecords
  <2>3. CASE ThreadStep
    BY <2>1, <2>3, ThreadLeavesInstall, ThreadTypes
  <2>4. CASE UNCHANGED vars
    BY <2>1, <2>4, TypesStutter DEF vars
  <2> QED  BY <2>2, <2>3, <2>4 DEF Next
<1> QED  BY <1>1, <1>2, PTL DEF Spec

\* For every set of plans whose requests overlap only in bytes recorded by the
\* first of them: no record passes off bytes of the plugin as the game's.
THEOREM OriginalsStayTheGames == Spec => []OriginalsAreTheGames
<1>1. RegistryInv => OriginalsAreTheGames
  BY DEF RegistryInv
<1> QED  BY <1>1, RecordsHold, PTL

\* A nonempty set of numbers up to a has a greatest one.
LEMMA GreatestUpTo ==
    ASSUME NEW a \in Nat, NEW S, S \subseteq 0 .. a, S # {}
    PROVE  \E m \in S : \A n \in S : n <= m
<1> DEFINE R == StrictSubsetOrdering(0 .. a)
           Above(m) == (m + 1) .. a
           T == {Above(m) : m \in S}
<1>1. FiniteSubsetsOf(0 .. a) = SUBSET (0 .. a)
  <2>1. IsFiniteSet(0 .. a)
    BY FS_Interval
  <2> HIDE DEF R, T
  <2> QED  BY <2>1, FS_FiniteSubsetsOfFinite
<1>2. IsWellFoundedOn(R, SUBSET (0 .. a))
  BY <1>1, FS_StrictSubsetOrderingWellFounded
<1>3. T \subseteq SUBSET (0 .. a) /\ T # {}
  <2>1. \A m \in S : Above(m) \subseteq 0 .. a
    OBVIOUS
  <2> QED  BY <2>1
<1>4. \E x \in T : \A y \in T : ~(<<y, x>> \in R)
  <2> HIDE DEF R, T
  <2> QED  BY <1>2, <1>3, WFMin
<1>5. PICK m \in S : \A n \in S : ~(<<Above(n), Above(m)>> \in R)
  BY <1>4
<1>6. ASSUME NEW n \in S, n > m PROVE FALSE
  <2>1. Above(n) \subseteq Above(m) /\ Above(n) # Above(m)
    <3>1. n \in Above(m) /\ n \notin Above(n)
      BY <1>6
    <3> QED  BY <1>6, <3>1
  <2>2. <<Above(n), Above(m)>> \in R
    BY <1>3, <2>1 DEF StrictSubsetOrdering
  <2> QED  BY <1>5, <2>2
<1> QED  BY <1>6

\* A changed byte that is in no record's range lies close behind the record
\* whose range begins last before it.
LEMMA RecordedIsAttributable ==
    ASSUME TypeInv, BaseInv, NEW i \in Requests,
           NEW a \in Footprint(plan.requests[i]), Recorded(plan.requests[i].addr)
    PROVE  Attributable(a)
<1> DEFINE r == plan.requests[i]
<1>1. /\ plan \in Plans /\ r.addr \in Nat /\ r.len \in Nat
      /\ r.op = "hook" => r.len = 0
  BY SpansAreAddresses, ThisPlanIsPlaced DEF TypeInv, TypeOK
<1>2. /\ a \in Nat /\ r.addr <= a
      /\ a - r.addr < r.len \/ a - r.addr < Far + Rest
  <2>1. CASE a \in Span(r.addr, r.len)
    BY <1>1, <2>1 DEF Span
  <2>2. CASE a \in Span(r.addr, Far + Rest)
    BY <1>1, <2>2 DEF Span, Far, Rest
  <2> QED  BY <2>1, <2>2 DEF Footprint
<1>3. ASSUME NEW p \in patches
      PROVE  /\ p.base \in Nat /\ p.size \in Nat /\ p.size > 0
             /\ \E j \in Requests :
                  /\ p.base = plan.requests[j].addr
                  /\ plan.requests[j].op # "hook" => p.size = plan.requests[j].len
  <2>1. PICK j \in Requests :
          /\ p.base = plan.requests[j].addr
          /\ IF plan.requests[j].op = "hook" THEN p.size \in Near .. Far + Rest
                                             ELSE p.size = plan.requests[j].len
    BY DEF BaseInv
  <2>2. plan.requests[j].addr \in Nat /\ plan.requests[j].len \in Nat
    BY <1>1, SpansAreAddresses
  <2>3. plan.requests[j].op # "hook" => plan.requests[j].len > 0
    BY <1>1, ThisPlanIsPlaced
  <2>4. p.size \in Nat /\ p.size > 0
    BY <2>1, <2>2, <2>3 DEF Near, Far, Rest
  <2> QED  BY <2>1, <2>2, <2>4
<1> DEFINE bases == {p.base : p \in {q \in patches : q.base <= a}}
<1>4. bases \subseteq 0 .. a /\ r.addr \in bases
  <2>1. \A p \in patches : p.base <= a => p.base \in 0 .. a
    BY <1>2, <1>3
  <2>2. \E p \in patches : p.base = r.addr
    BY DEF Recorded
  <2> QED  BY <1>2, <2>1, <2>2
<1>5. PICK m \in bases : \A n \in bases : n <= m
  <2> HIDE DEF bases
  <2> QED  BY <1>2, <1>4, GreatestUpTo
<1>6. PICK p \in patches : p.base = m /\ p.base <= a
  BY <1>5
<1>7. \A q \in patches : q.base <= a => q.base <= p.base
  BY <1>5, <1>6
<1>8. r.addr <= p.base
  BY <1>4, <1>5, <1>6
<1> HIDE DEF bases
<1>9. CASE a \in Span(p.base, p.size)
  BY <1>7, <1>9 DEF Attributable, FindPatch
<1>10. CASE a \notin Span(p.base, p.size)
  <2>1. p.base + p.size <= a /\ p.base < a
    BY <1>2, <1>3, <1>6, <1>10 DEF Span
  <2>2. a - (p.base + p.size) \in 0 .. Nearby
    <3>1. CASE r.len <= Nearby
      BY <1>1, <1>2, <1>3, <1>8, <2>1, <3>1 DEF Far, Rest, Nearby
    <3>2. CASE r.len > Nearby
      <4>1. PICK j \in Requests :
              /\ p.base = plan.requests[j].addr
              /\ plan.requests[j].op # "hook" => p.size = plan.requests[j].len
        BY <1>3
      <4>2. r.op # "hook"
        BY <1>1, <3>2 DEF Nearby
      <4>3. a - r.addr < r.len
        BY <1>1, <1>2, <3>2 DEF Far, Rest, Nearby
      <4>4. CASE i = j
        BY <1>1, <1>2, <1>3, <2>1, <4>1, <4>2, <4>3, <4>4
      <4>5. CASE i # j
        <5>1. p.base \in Footprint(r)
          <6>1. p.base \in Span(r.addr, r.len)
            BY <1>1, <1>2, <1>3, <1>6, <1>8, <4>3 DEF Span
          <6> QED  BY <6>1 DEF Footprint
        <5>2. plan.requests[j].addr \notin Footprint(r)
          BY <1>1, <3>2, <4>5, ThisPlanIsPlaced
        <5> QED  BY <4>1, <5>1, <5>2
      <4> QED  BY <4>4, <4>5
    <3> QED  BY <1>1, <3>1, <3>2 DEF Nearby
  <2>3. \A q \in patches : q.base < a => q.base <= p.base
    BY <1>2, <1>3, <1>7
  <2>4. p \in FindNearby(a)
    BY <2>1, <2>2, <2>3 DEF FindNearby
  <2> QED  BY <2>4 DEF Attributable
<1> QED  BY <1>9, <1>10

\* For every set of plans: from the moment a byte is changed the fault handlers
\* find the change as the plugin's, but for the gap of a plain hook, and however
\* many other records lie around it.
THEOREM ChangesStayAttributable == Spec => []ChangesAreAttributable
<1>1. TypeInv /\ RegistryInv => ChangesAreAttributable
  <2> SUFFICES ASSUME TypeInv, RegistryInv, NEW a \in Addresses,
                      code[a] # "game",
                      ~(pc = "listed" /\ a \in Span(Request.addr, jump[step].size))
               PROVE  Attributable(a)
    BY DEF ChangesAreAttributable
  <2>1. PICK i \in Requests : /\ a \in Footprint(plan.requests[i])
                              /\ Recorded(plan.requests[i].addr)
    BY DEF RegistryInv, ChangedInv
  <2> QED  BY <2>1, RecordedIsAttributable DEF RegistryInv
<1> QED  BY <1>1, RecordsHold, PTL
=============================================================================
