------------------------- MODULE PluginReloadProofs -------------------------
(***************************************************************************)
(* What turns may rely on while plugins are reloaded, for any number of    *)
(* plugins, turns, changes, failures and restarts: a generation is taken   *)
(* from the registry only when no lease is left, and admission is open     *)
(* only when nothing of a reconcile is unpublished.                        *)
(***************************************************************************)
EXTENDS PluginReload, FiniteSetTheorems, TLAPS

Disks == [Plugins -> Nat] \X SUBSET Plugins
Instances == [rev : Nat, inst : Nat]
PluginGenerations == [plugin : Plugins, rev : Nat, inst : Nat, id : Nat]
Transactions == [tx : Nat, plugin : Plugins, rev : Nat, phase : Phases]

Reconciles ==
    [pc : {"idle", "activate", "build", "services", "drain", "finish"},
     by : {"none", "watcher", "control"}, owns : BOOLEAN,
     todo : (SUBSET Plugins) \union (SUBSET PluginGenerations)]
Watchers ==
    [pc : {"poll", "want", "dead"}, seen : Disks \union {None},
     scanned : Disks \union {None}, forced : BOOLEAN]
Controls ==
    [pc : {"idle", "reconcile", "wait", "drained"}, plugin : Plugins \union {None}]
Budgets == [changes : Nat, failures : Nat, stops : Nat, returned : BOOLEAN]

\* Everything has the shape the code gives it; a reconcile has plugins to
\* deal with, then generations.
DiskOK ==
    /\ source \in [Plugins -> Nat]
    /\ enabled \subseteq Plugins
    /\ journal \subseteq Transactions
    /\ serial \in Nat

RegistryOK ==
    /\ active \in [Plugins -> Instances \union {None}]
    /\ current \in [Plugins -> PluginGenerations \union {None}]
    /\ retired \subseteq PluginGenerations
    /\ drains \subseteq [gen : Plugins \X Nat, tx : Nat]
    /\ surfaces \in [mcp : SUBSET Plugins, services : SUBSET Plugins]
    /\ terminated \subseteq Nat
    /\ gate \in BOOLEAN /\ dirty \in BOOLEAN

TurnsOK ==
    /\ turn \in [Turns -> {"idle", "waiting", "running"}]
    /\ held \in [Turns -> SUBSET PluginGenerations]

LoopsOK ==
    /\ mode \in {"down", "up", "refused"}
    /\ rec \in Reconciles
    /\ rec.pc \in {"activate", "build"} => rec.todo \subseteq Plugins
    /\ rec.pc = "finish" => rec.todo \subseteq PluginGenerations
    /\ watcher \in Watchers
    /\ control \in Controls
    /\ budget \in Budgets

TypeOK == DiskOK /\ RegistryOK /\ TurnsOK /\ LoopsOK

\* A process that is not up has nothing in memory.
DownIsEmpty ==
    mode # "up" =>
        /\ rec = NoReconcile /\ ~gate /\ ~dirty
        /\ \A p \in Plugins : active[p] = None /\ current[p] = None
        /\ retired = {} /\ drains = {} /\ terminated = {}
        /\ \A t \in Turns : turn[t] = "idle" /\ held[t] = {}

\* What is not published keeps admission closed, and so does a reconcile.
GateIsClosed == dirty \/ rec.pc # "idle" => gate

\* The surfaces are published one after the other, of what is loaded.
PublishedInOrder ==
    /\ rec.pc = "build" => rec.todo \subseteq Loaded
    /\ rec.pc = "services" => dirty /\ surfaces.mcp = Loaded
    /\ rec.pc \in {"drain", "finish"} => ~dirty
    /\ mode = "up" /\ ~dirty => surfaces.mcp = Loaded /\ surfaces.services = Loaded

CurrentIsLoaded ==
    \A p \in Plugins : current[p] # None => active[p] # None /\ current[p].plugin = p

Core == DownIsEmpty /\ GateIsClosed /\ PublishedInOrder /\ CurrentIsLoaded

IInv == TypeOK /\ Core /\ LeasedGenerationsAreKept

-----------------------------------------------------------------------------
LEMMA GenerationsOK == ASSUME RegistryOK PROVE Generations \subseteq PluginGenerations
  BY DEF RegistryOK, Generations

LEMMA Starts == Init => IInv
<1> SUFFICES ASSUME Init PROVE IInv
  OBVIOUS
<1>1. DiskOK
  <2>1. source \in [Plugins -> {0} \union Revisions] /\ \A r \in {0} \union Revisions : r \in Nat
    BY ReloadConstants DEF Init
  <2>2. source \in [Plugins -> Nat]
    BY <2>1
  <2> QED
    BY <2>2 DEF Init, DiskOK
<1>2. RegistryOK
  BY DEF Init, RegistryOK
<1>3. TurnsOK /\ LoopsOK
  BY DEF Init, TurnsOK, LoopsOK, NoReconcile, Reconciles, Watchers, Controls, Budgets
<1>4. Core
  BY DEF Init, Core, DownIsEmpty, GateIsClosed, PublishedInOrder, CurrentIsLoaded, NoReconcile
<1>5. LeasedGenerationsAreKept
  BY DEF Init, LeasedGenerationsAreKept
<1> QED
  BY <1>1, <1>2, <1>3, <1>4, <1>5 DEF IInv, TypeOK

-----------------------------------------------------------------------------
(* Changes of the disk, turns and loops that leave the registry alone.     *)

LEMMA Quiet ==
    ASSUME IInv, TypeOK', DownIsEmpty',
           UNCHANGED <<mode, active, current, retired, gate, dirty, surfaces, held, rec>>
    PROVE  IInv'
<1>1. GateIsClosed' /\ PublishedInOrder' /\ CurrentIsLoaded'
  BY DEF IInv, Core, GateIsClosed, PublishedInOrder, CurrentIsLoaded, Loaded
<1>2. LeasedGenerationsAreKept'
  BY DEF IInv, LeasedGenerationsAreKept, Generations
<1> QED
  BY <1>1, <1>2 DEF IInv, Core

LEMMA CountOK ==
    ASSUME TypeOK, NEW src, NEW on, CountChange(src, on)
    PROVE  budget' \in Budgets
<1>1. PICK b \in BOOLEAN : b = (budget.returned \/ <<src, on>> \in {watcher.seen, watcher.scanned})
  OBVIOUS
<1>2. budget \in Budgets
  BY DEF TypeOK, LoopsOK
<1>3. budget' = [changes |-> budget.changes + 1, failures |-> budget.failures,
                 stops |-> budget.stops, returned |-> b]
  BY <1>1, <1>2 DEF CountChange, Budgets
<1> QED
  BY <1>1, <1>2, <1>3 DEF Budgets

LEMMA SpendOK ==
    ASSUME TypeOK, NEW what \in {"failures", "stops"}, NEW limit, Spend(what, limit)
    PROVE  budget' \in Budgets
<1>1. CASE what = "failures"
  BY <1>1 DEF Spend, TypeOK, LoopsOK, Budgets
<1>2. CASE what = "stops"
  BY <1>2 DEF Spend, TypeOK, LoopsOK, Budgets
<1> QED
  BY <1>1, <1>2

LEMMA SourceStep ==
    ASSUME IInv, NEW p \in Plugins, NEW r \in Revisions \union {0}, NEW on \in SUBSET Plugins,
           ChangeSource(p, r, on), UNCHANGED watcher \/ Wake
    PROVE  IInv'
<1>1. source' \in [Plugins -> Nat] /\ enabled' \subseteq Plugins
  BY ReloadConstants DEF ChangeSource, IInv, TypeOK, DiskOK
<1>2. budget' \in Budgets
  BY CountOK DEF ChangeSource, IInv
<1>3. watcher' \in Watchers
  BY DEF Wake, IInv, TypeOK, LoopsOK, Watchers
<1>4. TypeOK' /\ DownIsEmpty'
  BY <1>1, <1>2, <1>3 DEF ChangeSource, registry, turns, IInv, Core, TypeOK, DiskOK, RegistryOK, TurnsOK,
     LoopsOK, DownIsEmpty
<1> QED
  BY <1>4, Quiet DEF ChangeSource, registry, turns

LEMMA SwitchStep ==
    ASSUME IInv, NEW on \in SUBSET Plugins, SwitchPlugins(on), Wake, control' \in Controls
    PROVE  IInv'
<1>1. budget' \in Budgets
  BY CountOK DEF SwitchPlugins, IInv
<1>2. watcher' \in Watchers
  BY DEF Wake, IInv, TypeOK, LoopsOK, Watchers
<1>3. TypeOK' /\ DownIsEmpty'
  BY <1>1, <1>2 DEF SwitchPlugins, registry, turns, IInv, Core, TypeOK, DiskOK, RegistryOK, TurnsOK,
     LoopsOK, DownIsEmpty
<1> QED
  BY <1>3, Quiet DEF SwitchPlugins, registry, turns

LEMMA ArriveStep == ASSUME IInv, NEW t \in Turns, Arrive(t) PROVE IInv'
<1>1. TypeOK' /\ DownIsEmpty'
  BY DEF Arrive, disk, registry, IInv, Core, TypeOK, DiskOK, RegistryOK, TurnsOK, LoopsOK, DownIsEmpty
<1> QED
  BY <1>1, Quiet DEF Arrive, registry

LEMMA AdmitStep == ASSUME IInv, NEW t \in Turns, Admit(t) PROVE IInv'
<1>1. TypeOK' /\ DownIsEmpty'
  BY GenerationsOK DEF Admit, disk, registry, IInv, Core, TypeOK, DiskOK, RegistryOK, TurnsOK,
     LoopsOK, DownIsEmpty
<1>2. GateIsClosed' /\ PublishedInOrder' /\ CurrentIsLoaded'
  BY DEF Admit, registry, IInv, Core, GateIsClosed, PublishedInOrder, CurrentIsLoaded, Loaded
<1>3. LeasedGenerationsAreKept'
  BY DEF Admit, registry, IInv, LeasedGenerationsAreKept, Generations, TypeOK, TurnsOK
<1> QED
  BY <1>1, <1>2, <1>3 DEF IInv, Core

LEMMA FinishStep == ASSUME IInv, NEW t \in Turns, Finish(t) PROVE IInv'
<1>1. TypeOK' /\ DownIsEmpty'
  BY DEF Finish, disk, registry, IInv, Core, TypeOK, DiskOK, RegistryOK, TurnsOK, LoopsOK, DownIsEmpty
<1>2. GateIsClosed' /\ PublishedInOrder' /\ CurrentIsLoaded'
  BY DEF Finish, registry, IInv, Core, GateIsClosed, PublishedInOrder, CurrentIsLoaded, Loaded
<1>3. LeasedGenerationsAreKept'
  BY DEF Finish, registry, IInv, LeasedGenerationsAreKept, Generations, TypeOK, TurnsOK
<1> QED
  BY <1>1, <1>2, <1>3 DEF IInv, Core

LEMMA ScanStep == ASSUME IInv, Scan PROVE IInv'
<1>1. WatchRevision \in Disks
  BY DEF WatchRevision, Disks, IInv, TypeOK, DiskOK
<1>2. watcher' \in Watchers
  BY <1>1 DEF Scan, IInv, TypeOK, LoopsOK, Watchers
<1>3. TypeOK' /\ DownIsEmpty'
  BY <1>2 DEF Scan, disk, registry, turns, IInv, Core, TypeOK, DiskOK, RegistryOK, TurnsOK, LoopsOK, DownIsEmpty
<1> QED
  BY <1>3, Quiet DEF Scan, registry, turns

LEMMA ReturnDrainedStep == ASSUME IInv, ReturnDrained PROVE IInv'
<1>1. control' \in Controls
  BY DEF ReturnDrained, IInv, TypeOK, LoopsOK, Controls
<1>2. TypeOK' /\ DownIsEmpty'
  BY <1>1 DEF ReturnDrained, disk, registry, turns, IInv, Core, TypeOK, DiskOK, RegistryOK, TurnsOK,
     LoopsOK, DownIsEmpty
<1> QED
  BY <1>2, Quiet DEF ReturnDrained, registry, turns

-----------------------------------------------------------------------------
(* A reconcile.                                                            *)

LEMMA BeginStep == ASSUME IInv, NEW by \in {"watcher", "control"}, Begin(by) PROVE IInv'
<1> DEFINE gone == Loaded \ Desired
<1>1. /\ mode = "up"
      /\ rec' = [pc |-> "activate", by |-> by, owns |-> ~gate, todo |-> Desired \ Loaded]
      /\ gate' = TRUE
      /\ active' = [p \in Plugins |-> IF p \in gone THEN None ELSE active[p]]
      /\ current' = [p \in Plugins |-> IF p \in gone THEN None ELSE current[p]]
      /\ retired' = retired \union {g \in Generations : g.plugin \in gone}
      /\ dirty' = (dirty \/ gone # {})
      /\ UNCHANGED <<disk, mode, drains, surfaces, terminated, turns, watcher, control, serial, budget>>
  BY DEF Begin
<1>2. rec' \in Reconciles /\ rec'.pc = "activate" /\ rec'.todo \subseteq Plugins
  BY <1>1 DEF IInv, TypeOK, RegistryOK, Reconciles, Desired, DiskOK
<1>3. TypeOK'
  <2>1. RegistryOK'
    BY <1>1, GenerationsOK DEF IInv, TypeOK, RegistryOK
  <2> QED
    BY <1>1, <1>2, <2>1 DEF disk, turns, IInv, TypeOK, DiskOK, TurnsOK, LoopsOK
<1>4. Core'
  <2>1. ASSUME mode' = "up" /\ ~dirty'
        PROVE  surfaces'.mcp = Loaded' /\ surfaces'.services = Loaded'
    <3>1. Loaded' = Loaded
      BY <1>1, <2>1 DEF Loaded
    <3> QED
      BY <1>1, <2>1, <3>1 DEF IInv, Core, PublishedInOrder
  <2>2. PublishedInOrder'
    BY <1>2, <2>1 DEF PublishedInOrder
  <2>3. DownIsEmpty' /\ GateIsClosed' /\ CurrentIsLoaded'
    BY <1>1 DEF IInv, Core, DownIsEmpty, GateIsClosed, CurrentIsLoaded
  <2> QED
    BY <2>2, <2>3 DEF Core
<1>5. LeasedGenerationsAreKept'
  <2>1. ASSUME NEW g \in Generations PROVE g \in Generations' \union retired'
    <3>1. PICK p \in Plugins : current[p] = g /\ g # None
      BY DEF Generations
    <3>2. CASE p \in gone
      BY <1>1, <3>1, <3>2 DEF IInv, Core, CurrentIsLoaded
    <3>3. CASE p \notin gone
      BY <1>1, <3>1, <3>3 DEF Generations
    <3> QED
      BY <3>2, <3>3
  <2> QED
    BY <1>1, <2>1 DEF turns, IInv, LeasedGenerationsAreKept
<1> QED
  BY <1>3, <1>4, <1>5 DEF IInv

\* A step of the reconcile that leaves what is loaded, the generations and the
\* leases alone.
LEMMA Onward ==
    ASSUME IInv, TypeOK', rec.pc # "idle", mode' = "up", GateIsClosed', PublishedInOrder',
           UNCHANGED <<active, current, retired, held>>
    PROVE  IInv'
<1>1. DownIsEmpty' /\ CurrentIsLoaded'
  BY DEF IInv, Core, DownIsEmpty, CurrentIsLoaded
<1>2. LeasedGenerationsAreKept'
  BY DEF IInv, LeasedGenerationsAreKept, Generations
<1> QED
  BY <1>1, <1>2 DEF IInv, Core

\* A reconcile is that of a running process.
LEMMA ReconcilesAreUp == ASSUME IInv, rec.pc # "idle" PROVE mode = "up" /\ gate
  BY DEF IInv, Core, DownIsEmpty, GateIsClosed, NoReconcile

LEMMA ActivateStep == ASSUME IInv, NEW p \in Plugins, Activate(p) PROVE IInv'
<1>1. /\ rec.pc = "activate" /\ rec' = [rec EXCEPT !.todo = @ \ {p}]
      /\ UNCHANGED <<disk, mode, registry, gate, surfaces, terminated, turns, watcher, control, budget>>
  BY DEF Activate
<1>2. rec' \in Reconciles /\ rec'.pc = "activate" /\ rec'.todo \subseteq Plugins
  BY <1>1 DEF IInv, TypeOK, LoopsOK, Reconciles
<1>3. CASE UNCHANGED <<active, dirty, serial>>
  <2>1. TypeOK'
    BY <1>1, <1>2, <1>3 DEF disk, registry, turns, IInv, TypeOK, DiskOK, RegistryOK, TurnsOK, LoopsOK
  <2>2. GateIsClosed' /\ PublishedInOrder'
    BY <1>1, <1>2, <1>3, ReconcilesAreUp DEF IInv, Core, GateIsClosed, PublishedInOrder, Loaded
  <2> QED
    BY <1>1, <1>3, <2>1, <2>2, Onward, ReconcilesAreUp DEF registry, turns
<1>4. CASE ~UNCHANGED <<active, dirty, serial>>
  <2>1. /\ serial' = serial + 1
        /\ active' = [active EXCEPT ![p] = [rev |-> source[p], inst |-> serial']]
        /\ dirty' = TRUE
    BY <1>4 DEF Activate
  <2>2. serial' \in Nat /\ [rev |-> source[p], inst |-> serial'] \in Instances
    BY <2>1 DEF IInv, TypeOK, DiskOK, Instances
  <2>3. /\ active' \in [Plugins -> Instances \union {None}]
        /\ \A q \in Plugins : active[q] # None => active'[q] # None
    BY <2>1, <2>2, ReloadConstants DEF IInv, TypeOK, RegistryOK, Instances
  <2>4. TypeOK'
    BY <1>1, <1>2, <2>1, <2>2, <2>3 DEF disk, registry, turns, IInv, TypeOK, DiskOK, RegistryOK, TurnsOK, LoopsOK
  <2>5. GateIsClosed' /\ PublishedInOrder'
    BY <1>1, <1>2, <2>1, ReconcilesAreUp DEF GateIsClosed, PublishedInOrder
  <2>6. DownIsEmpty' /\ CurrentIsLoaded'
    BY <1>1, <2>3, ReconcilesAreUp DEF registry, IInv, Core, DownIsEmpty, CurrentIsLoaded
  <2>7. LeasedGenerationsAreKept'
    BY <1>1 DEF registry, turns, IInv, LeasedGenerationsAreKept, Generations
  <2> QED
    BY <2>4, <2>5, <2>6, <2>7 DEF IInv, Core
<1> QED
  BY <1>3, <1>4

LEMMA StartBuildingStep == ASSUME IInv, StartBuilding PROVE IInv'
<1>1. rec' \in Reconciles /\ rec'.pc = "build" /\ rec'.todo = Loaded /\ Loaded \subseteq Plugins
  BY DEF StartBuilding, IInv, TypeOK, LoopsOK, Reconciles, Loaded
<1>2. TypeOK'
  BY <1>1 DEF StartBuilding, disk, registry, turns, IInv, TypeOK, DiskOK, RegistryOK, TurnsOK, LoopsOK
<1>3. GateIsClosed' /\ PublishedInOrder'
  BY <1>1, ReconcilesAreUp DEF StartBuilding, registry, IInv, Core, GateIsClosed, PublishedInOrder, Loaded
<1> QED
  BY <1>2, <1>3, Onward, ReconcilesAreUp DEF StartBuilding, registry, turns

LEMMA BuildStep == ASSUME IInv, NEW p \in Plugins, Build(p) PROVE IInv'
<1>1. /\ rec.pc = "build" /\ p \in rec.todo /\ rec' = [rec EXCEPT !.todo = @ \ {p}]
      /\ UNCHANGED <<source, enabled, mode, active, gate, surfaces, terminated, turns, watcher, control, budget>>
  BY DEF Build
<1>2. rec' \in Reconciles /\ rec'.pc = "build" /\ rec'.todo \subseteq rec.todo
  BY <1>1 DEF IInv, TypeOK, LoopsOK, Reconciles
<1>3. rec'.todo \subseteq Plugins /\ rec'.todo \subseteq Loaded' /\ active[p] # None
  BY <1>1, <1>2 DEF IInv, TypeOK, LoopsOK, Core, PublishedInOrder, Loaded
<1>4. CASE UNCHANGED <<journal, registry, dirty, serial>>
  <2>1. TypeOK'
    BY <1>1, <1>2, <1>3, <1>4 DEF registry, turns, IInv, TypeOK, DiskOK, RegistryOK, TurnsOK, LoopsOK
  <2>2. GateIsClosed' /\ PublishedInOrder'
    BY <1>1, <1>2, <1>3, <1>4, ReconcilesAreUp DEF IInv, Core, GateIsClosed, PublishedInOrder, Loaded
  <2> QED
    BY <1>1, <1>4, <2>1, <2>2, Onward, ReconcilesAreUp DEF registry, turns
<1>5. CASE ~UNCHANGED <<journal, registry, dirty, serial>>
  <2> DEFINE g == Candidate(p)
  <2>1. Publish(p, g) /\ dirty' = TRUE /\ serial' = serial + 1
    BY <1>5 DEF Build
  <2>2. g \in PluginGenerations /\ g.plugin = p /\ g.id \in Nat /\ g.rev \in Nat
    <3>1. active[p].inst \in Nat
      BY <1>3 DEF IInv, TypeOK, RegistryOK, Instances
    <3> QED
      BY <3>1 DEF Candidate, PluginGenerations, IInv, TypeOK, DiskOK
  <2> HIDE DEF g
  <2>3. /\ current' = [current EXCEPT ![p] = g]
        /\ \/ current[p] = None /\ UNCHANGED <<journal, retired, drains>>
           \/ /\ current[p] # None
              /\ journal' = journal \union {[tx |-> g.id, plugin |-> p, rev |-> g.rev, phase |-> "draining"]}
              /\ retired' = retired \union {current[p]}
              /\ drains' = {d \in drains : d.gen # GenerationId(current[p])} \union
                             {[gen |-> GenerationId(current[p]), tx |-> g.id]}
    BY <2>1 DEF Publish
  <2>4. /\ journal' \subseteq Transactions
        /\ retired' \subseteq PluginGenerations
        /\ drains' \subseteq [gen : Plugins \X Nat, tx : Nat]
    <3>1. CASE current[p] = None
      BY <2>3, <3>1 DEF IInv, TypeOK, DiskOK, RegistryOK
    <3>2. CASE current[p] # None
      <4>1. current[p] \in PluginGenerations
        BY <3>2 DEF IInv, TypeOK, RegistryOK
      <4>2. GenerationId(current[p]) \in Plugins \X Nat
        BY <4>1 DEF GenerationId, PluginGenerations
      <4>3. [tx |-> g.id, plugin |-> p, rev |-> g.rev, phase |-> "draining"] \in Transactions
        BY <2>2 DEF Transactions, Phases
      <4> QED
        BY <2>2, <2>3, <3>2, <4>1, <4>2, <4>3 DEF IInv, TypeOK, DiskOK, RegistryOK
    <3> QED
      BY <3>1, <3>2
  <2>5. TypeOK'
    BY <1>1, <1>2, <1>3, <2>1, <2>2, <2>3, <2>4 DEF turns, IInv, TypeOK, DiskOK, RegistryOK, TurnsOK, LoopsOK
  <2>6. Core'
    BY <1>1, <1>2, <1>3, <2>1, <2>2, <2>3, ReconcilesAreUp DEF IInv, TypeOK, RegistryOK, Core, DownIsEmpty,
       GateIsClosed, PublishedInOrder, CurrentIsLoaded
  <2>7. LeasedGenerationsAreKept'
    <3>1. ASSUME NEW h \in Generations PROVE h \in Generations' \union retired'
      <4>1. PICK q \in Plugins : current[q] = h /\ h # None
        BY DEF Generations
      <4> QED
        BY <2>3, <4>1 DEF Generations, IInv, TypeOK, RegistryOK
    <3>2. retired \subseteq retired'
      BY <2>3
    <3> QED
      BY <1>1, <3>1, <3>2 DEF turns, IInv, LeasedGenerationsAreKept
  <2> QED
    BY <2>5, <2>6, <2>7 DEF IInv
<1> QED
  BY <1>4, <1>5

LEMMA RepublishMcpStep == ASSUME IInv, RepublishMcp PROVE IInv'
<1>1. rec' \in Reconciles /\ rec'.pc = "services"
  BY DEF RepublishMcp, IInv, TypeOK, LoopsOK, Reconciles
<1>2. surfaces' \in [mcp : SUBSET Plugins, services : SUBSET Plugins] /\ surfaces'.mcp = Loaded
  BY DEF RepublishMcp, Loaded
<1>3. TypeOK'
  BY <1>1, <1>2 DEF RepublishMcp, disk, registry, turns, IInv, TypeOK, DiskOK, RegistryOK, TurnsOK, LoopsOK
<1>4. GateIsClosed' /\ PublishedInOrder'
  BY <1>1, <1>2, ReconcilesAreUp DEF RepublishMcp, registry, GateIsClosed, PublishedInOrder, Loaded
<1> QED
  BY <1>3, <1>4, Onward, ReconcilesAreUp DEF RepublishMcp, registry, turns

LEMMA RepublishServicesStep == ASSUME IInv, RepublishServices PROVE IInv'
<1>1. rec' \in Reconciles /\ rec'.pc = "drain"
  BY DEF RepublishServices, IInv, TypeOK, LoopsOK, Reconciles
<1>2. surfaces.mcp = Loaded
  BY DEF RepublishServices, IInv, Core, PublishedInOrder
<1>3. /\ surfaces' \in [mcp : SUBSET Plugins, services : SUBSET Plugins]
      /\ surfaces'.mcp = Loaded /\ surfaces'.services = Loaded
  BY <1>2 DEF RepublishServices, Loaded, IInv, TypeOK, RegistryOK
<1>4. TypeOK'
  BY <1>1, <1>3 DEF RepublishServices, disk, registry, turns, IInv, TypeOK, DiskOK, RegistryOK, TurnsOK, LoopsOK
<1>5. GateIsClosed' /\ PublishedInOrder'
  BY <1>1, <1>3, ReconcilesAreUp DEF RepublishServices, registry, GateIsClosed, PublishedInOrder, Loaded
<1> QED
  BY <1>4, <1>5, Onward, ReconcilesAreUp DEF RepublishServices, registry, turns

\* Generations that nobody leases may leave the registry.
LEMMA DroppingTheQuiescible ==
    ASSUME IInv, retired' = retired \ Quiescible, UNCHANGED <<current, held>>
    PROVE  LeasedGenerationsAreKept' /\ retired' \subseteq PluginGenerations
  BY DEF IInv, TypeOK, RegistryOK, LeasedGenerationsAreKept, Quiescible, Leased, Generations

LEMMA TakeQuiescibleStep == ASSUME IInv, TakeQuiescible PROVE IInv'
<1>1. rec.pc # "idle" /\ ~dirty
  BY DEF TakeQuiescible, IInv, Core, PublishedInOrder
<1>2. Quiescible \subseteq PluginGenerations
  BY DEF Quiescible, IInv, TypeOK, RegistryOK
<1>3. rec' \in Reconciles /\ rec'.pc = "finish" /\ rec'.todo \subseteq PluginGenerations
  <2>1. rec \in Reconciles /\ rec' = [rec EXCEPT !.pc = "finish", !.todo = Quiescible]
    BY DEF TakeQuiescible, IInv, TypeOK, LoopsOK
  <2>2. rec' = [pc |-> "finish", by |-> rec.by, owns |-> rec.owns, todo |-> Quiescible]
    BY <2>1 DEF Reconciles
  <2> QED
    BY <1>2, <2>1, <2>2 DEF Reconciles
<1>4. TypeOK'
  BY <1>3, DroppingTheQuiescible DEF TakeQuiescible, disk, turns, IInv, TypeOK, DiskOK, RegistryOK, TurnsOK, LoopsOK
<1>5. Core'
  BY <1>1, <1>3, ReconcilesAreUp DEF TakeQuiescible, IInv, Core, DownIsEmpty, GateIsClosed, PublishedInOrder,
     CurrentIsLoaded, Loaded
<1> QED
  BY <1>4, <1>5, DroppingTheQuiescible DEF TakeQuiescible, turns, IInv

LEMMA AwaitDrainedStep == ASSUME IInv, AwaitDrained PROVE IInv'
<1>1. control' \in Controls
  BY DEF AwaitDrained, IInv, TypeOK, LoopsOK, Controls
<1>2. TypeOK'
  BY <1>1, DroppingTheQuiescible DEF AwaitDrained, disk, turns, IInv, TypeOK, DiskOK, RegistryOK, TurnsOK, LoopsOK
<1>3. Core'
  BY DEF AwaitDrained, turns, IInv, Core, DownIsEmpty, GateIsClosed, PublishedInOrder, CurrentIsLoaded, Loaded
<1> QED
  BY <1>2, <1>3, DroppingTheQuiescible DEF AwaitDrained, turns, IInv

LEMMA CompletingADrain ==
    ASSUME IInv, NEW g, CompleteDrain(g)
    PROVE  /\ rec.pc = "finish" /\ g \in PluginGenerations
           /\ DiskOK' /\ TurnsOK'
           /\ drains' \subseteq [gen : Plugins \X Nat, tx : Nat]
           /\ UNCHANGED <<mode, active, current, retired, dirty, surfaces, held, control>>
  BY DEF CompleteDrain, turns, IInv, TypeOK, DiskOK, RegistryOK, TurnsOK, LoopsOK

LEMMA FinishDrainStep == ASSUME IInv, NEW g \in rec.todo, FinishDrain(g) PROVE IInv'
<1>1. CompleteDrain(g) /\ UNCHANGED <<gate, watcher, budget>>
  BY DEF FinishDrain
<1>2. /\ rec.pc = "finish" /\ g \in PluginGenerations /\ DiskOK' /\ TurnsOK'
      /\ drains' \subseteq [gen : Plugins \X Nat, tx : Nat]
      /\ UNCHANGED <<mode, active, current, retired, dirty, surfaces, held, control>>
  BY <1>1, CompletingADrain
<1>3. rec' \in Reconciles /\ rec'.pc = "finish" /\ rec'.todo \subseteq PluginGenerations
  BY <1>2 DEF FinishDrain, IInv, TypeOK, LoopsOK, Reconciles
<1>4. terminated' \subseteq Nat
  BY <1>2 DEF FinishDrain, PluginGenerations, IInv, TypeOK, RegistryOK
<1>5. TypeOK'
  BY <1>1, <1>2, <1>3, <1>4 DEF IInv, TypeOK, RegistryOK, LoopsOK
<1>6. GateIsClosed' /\ PublishedInOrder'
  BY <1>1, <1>2, <1>3, ReconcilesAreUp DEF IInv, Core, GateIsClosed, PublishedInOrder, Loaded
<1> QED
  BY <1>2, <1>5, <1>6, Onward, ReconcilesAreUp

LEMMA EndReconcileStep == ASSUME IInv, EndReconcile PROVE IInv'
<1>1. /\ rec.pc = "finish" /\ rec' = NoReconcile /\ gate' = FALSE
      /\ UNCHANGED <<disk, mode, active, registry, dirty, surfaces, terminated, turns, serial, budget>>
  BY DEF EndReconcile
<1>2. ~dirty /\ rec'.pc = "idle" /\ rec' \in Reconciles
  BY <1>1 DEF IInv, Core, PublishedInOrder, NoReconcile, Reconciles
<1>3. watcher' \in Watchers /\ control' \in Controls
  BY DEF EndReconcile, IInv, TypeOK, LoopsOK, Watchers, Controls
<1>4. TypeOK'
  BY <1>1, <1>2, <1>3 DEF disk, registry, turns, IInv, TypeOK, DiskOK, RegistryOK, TurnsOK, LoopsOK
<1>5. GateIsClosed' /\ PublishedInOrder'
  BY <1>1, <1>2 DEF registry, IInv, Core, GateIsClosed, PublishedInOrder, Loaded
<1> QED
  BY <1>1, <1>4, <1>5, Onward, ReconcilesAreUp DEF registry, turns

\* Where a reconcile is left by an error, what is unpublished stays gated.
LEMMA Aborted ==
    ASSUME IInv, Abort
    PROVE  /\ rec.pc # "idle" /\ rec' = NoReconcile /\ rec' \in Reconciles /\ rec'.pc = "idle"
           /\ gate' \in BOOLEAN /\ (dirty => gate')
           /\ watcher' \in Watchers /\ control' \in Controls
<1>1. rec.pc # "idle" /\ rec' = NoReconcile /\ rec' \in Reconciles /\ rec'.pc = "idle"
  BY DEF Abort, NoReconcile, Reconciles
<1>2. gate' \in BOOLEAN /\ (dirty => gate')
  BY DEF Abort, IInv, TypeOK, RegistryOK, LoopsOK, Reconciles
<1>3. watcher' \in Watchers /\ control' \in Controls
  BY DEF Abort, IInv, TypeOK, LoopsOK, Watchers, Controls
<1> QED
  BY <1>1, <1>2, <1>3

LEMMA RepublishFailsStep == ASSUME IInv, RepublishFails PROVE IInv'
<1>1. Abort /\ dirty /\ UNCHANGED <<disk, mode, active, registry, dirty, terminated, turns, serial>>
  BY DEF RepublishFails, IInv, Core, PublishedInOrder
<1>2. budget' \in Budgets
  BY SpendOK DEF RepublishFails, IInv
<1>3. surfaces' \in [mcp : SUBSET Plugins, services : SUBSET Plugins]
  BY DEF RepublishFails, IInv, TypeOK, RegistryOK
<1>4. TypeOK'
  BY <1>1, <1>2, <1>3, Aborted DEF disk, registry, turns, IInv, TypeOK, DiskOK, RegistryOK, TurnsOK, LoopsOK
<1>5. GateIsClosed' /\ PublishedInOrder'
  BY <1>1, Aborted DEF GateIsClosed, PublishedInOrder
<1> QED
  BY <1>1, <1>4, <1>5, Aborted, Onward, ReconcilesAreUp DEF registry, turns

LEMMA TerminateFailsStep == ASSUME IInv, NEW g \in rec.todo, TerminateFails(g) PROVE IInv'
<1>1. CompleteDrain(g) /\ Abort /\ UNCHANGED terminated
  BY DEF TerminateFails
<1>2. budget' \in Budgets
  BY SpendOK DEF TerminateFails, IInv
<1>3. TypeOK'
  BY <1>1, <1>2, Aborted, CompletingADrain DEF IInv, TypeOK, RegistryOK, LoopsOK
<1>4. GateIsClosed' /\ PublishedInOrder'
  BY <1>1, Aborted, CompletingADrain DEF IInv, Core, GateIsClosed, PublishedInOrder, Loaded
<1> QED
  BY <1>1, <1>3, <1>4, Aborted, CompletingADrain, Onward, ReconcilesAreUp

LEMMA CancelControlStep == ASSUME IInv, CancelControl PROVE IInv'
<1>1. Abort /\ UNCHANGED <<disk, mode, active, registry, dirty, surfaces, terminated, turns, serial>>
  BY DEF CancelControl
<1>2. budget' \in Budgets
  BY SpendOK DEF CancelControl, IInv
<1>3. TypeOK'
  BY <1>1, <1>2, Aborted DEF disk, registry, turns, IInv, TypeOK, DiskOK, RegistryOK, TurnsOK, LoopsOK
<1>4. GateIsClosed' /\ PublishedInOrder'
  BY <1>1, Aborted DEF registry, IInv, Core, GateIsClosed, PublishedInOrder, Loaded
<1> QED
  BY <1>1, <1>3, <1>4, Aborted, Onward, ReconcilesAreUp DEF registry, turns

-----------------------------------------------------------------------------
(* The process.                                                            *)

LEMMA Forgotten ==
    ASSUME Forget, DiskOK', budget' \in Budgets, mode' = "down"
    PROVE  IInv'
<1>1. RegistryOK' /\ TurnsOK'
  BY DEF Forget, RegistryOK, TurnsOK
<1>2. LoopsOK'
  BY DEF Forget, LoopsOK, NoReconcile, Reconciles, Watchers, Controls
<1>3. Core'
  BY DEF Forget, NoReconcile, Core, DownIsEmpty, GateIsClosed, PublishedInOrder, CurrentIsLoaded
<1>4. LeasedGenerationsAreKept'
  BY DEF Forget, LeasedGenerationsAreKept
<1> QED
  BY <1>1, <1>2, <1>3, <1>4 DEF IInv, TypeOK

LEMMA StopStep == ASSUME IInv, Stop PROVE IInv'
<1>1. DiskOK'
  BY DEF Stop, disk, IInv, TypeOK, DiskOK
<1> QED
  BY <1>1, Forgotten, SpendOK DEF Stop, IInv

LEMMA StopInPublishStep ==
    ASSUME IInv, NEW p \in Plugins, NEW phase \in Phases, StopInPublish(p, phase)
    PROVE  IInv'
<1>1. [tx |-> serial + 1, plugin |-> p, rev |-> source[p], phase |-> phase] \in Transactions
  BY DEF Transactions, IInv, TypeOK, DiskOK
<1>2. DiskOK'
  BY <1>1 DEF StopInPublish, IInv, TypeOK, DiskOK
<1> QED
  BY <1>2, Forgotten, SpendOK DEF StopInPublish, IInv

LEMMA BootRefusedStep == ASSUME IInv, BootRefused PROVE IInv'
<1>1. journal' \subseteq Transactions
  BY DEF BootRefused, ToRestore, IInv, TypeOK, DiskOK
<1>2. TypeOK'
  BY <1>1 DEF BootRefused, registry, turns, IInv, TypeOK, DiskOK, RegistryOK, TurnsOK, LoopsOK
<1>3. Core'
  BY DEF BootRefused, registry, turns, NoReconcile, IInv, Core, DownIsEmpty, GateIsClosed, PublishedInOrder,
     CurrentIsLoaded
<1>4. LeasedGenerationsAreKept'
  BY DEF BootRefused, registry, turns, IInv, LeasedGenerationsAreKept, Generations
<1> QED
  BY <1>2, <1>3, <1>4 DEF IInv

LEMMA BootFailsStep == ASSUME IInv, BootFails PROVE IInv'
<1>1. journal' \subseteq Transactions
  BY DEF BootFails, ToRestore, IInv, TypeOK, DiskOK
<1>2. budget' \in Budgets
  BY SpendOK DEF BootFails, IInv
<1>3. TypeOK' /\ DownIsEmpty'
  BY <1>1, <1>2 DEF BootFails, registry, turns, IInv, Core, TypeOK, DiskOK, RegistryOK, TurnsOK, LoopsOK, DownIsEmpty
<1> QED
  BY <1>3, Quiet DEF BootFails, registry, turns

LEMMA BootStep ==
    ASSUME IInv, NEW number \in [Plugins -> 1..Cardinality(Plugins)], Boot(number)
    PROVE  IInv'
<1>1. Cardinality(Plugins) \in Nat
  BY FS_CardinalityType, ReloadConstants
<1>2. /\ mode # "up" /\ mode' = "up" /\ rec = NoReconcile /\ rec.pc = "idle"
      /\ UNCHANGED <<source, enabled, retired, drains, gate, dirty, terminated, turns, rec, watcher, control, budget>>
  BY DEF Boot, IInv, Core, DownIsEmpty, NoReconcile
<1>3. /\ \A p \in Plugins : serial + number[p] \in Nat /\ source[p] \in Nat
      /\ serial' \in Nat /\ journal' = {}
  BY <1>1 DEF Boot, IInv, TypeOK, DiskOK
<1>4. /\ active' \in [Plugins -> Instances \union {None}]
      /\ Loaded' = Loadable /\ Loadable \subseteq Plugins
  <2>1. \A p \in Plugins : /\ [rev |-> source[p], inst |-> serial + number[p]] \in Instances
                           /\ [rev |-> source[p], inst |-> serial + number[p]] # None
    BY <1>3, ReloadConstants DEF Instances
  <2>2. active' = [p \in Plugins |->
          IF p \in Loadable THEN [rev |-> source[p], inst |-> serial + number[p]] ELSE None]
    BY DEF Boot
  <2>3. Loadable \subseteq Plugins
    BY DEF Loadable, Desired, IInv, TypeOK, DiskOK
  <2>4. active' \in [Plugins -> Instances \union {None}]
    BY <2>1, <2>2
  <2>5. \A p \in Plugins : active'[p] # None <=> p \in Loadable
    BY <2>1, <2>2
  <2> QED
    BY <2>3, <2>4, <2>5 DEF Loaded
<1>5. /\ current' \in [Plugins -> PluginGenerations \union {None}]
      /\ \A p \in Plugins : current'[p] # None => p \in Loadable /\ current'[p].plugin = p
  BY <1>3 DEF Boot, PluginGenerations
<1>6. /\ surfaces' \in [mcp : SUBSET Plugins, services : SUBSET Plugins]
      /\ surfaces'.mcp = Loadable /\ surfaces'.services = Loadable
  BY <1>4 DEF Boot
<1>7. TypeOK'
  BY <1>2, <1>3, <1>4, <1>5, <1>6 DEF turns, IInv, TypeOK, DiskOK, RegistryOK, TurnsOK, LoopsOK
<1>8. Core'
  BY <1>2, <1>4, <1>5, <1>6 DEF IInv, Core, DownIsEmpty, GateIsClosed, PublishedInOrder, CurrentIsLoaded, Loaded
<1>9. LeasedGenerationsAreKept'
  BY <1>2 DEF turns, IInv, Core, DownIsEmpty, LeasedGenerationsAreKept
<1> QED
  BY <1>7, <1>8, <1>9 DEF IInv

-----------------------------------------------------------------------------
LEMMA UserStep ==
    ASSUME IInv, NEW p \in Plugins
    PROVE  /\ \A r \in Revisions : EditFiles(p, r) \/ Install(p, r) => IInv'
           /\ Uninstall(p) \/ DisableAndDrain(p) => IInv'
           /\ \A on \in BOOLEAN : SetEnabled(p, on) => IInv'
<1>1. enabled \in SUBSET Plugins /\ control \in Controls
  BY DEF IInv, TypeOK, DiskOK, LoopsOK
<1>2. ASSUME NEW r \in Revisions, EditFiles(p, r) \/ Install(p, r) PROVE IInv'
  BY <1>1, <1>2, SourceStep DEF EditFiles, Install
<1>3. ASSUME Uninstall(p) PROVE IInv'
  BY <1>1, <1>3, SourceStep DEF Uninstall
<1>4. ASSUME DisableAndDrain(p) PROVE IInv'
  <2>1. control' \in Controls
    BY <1>4 DEF DisableAndDrain, Controls
  <2> QED
    BY <1>1, <1>4, <2>1, SwitchStep DEF DisableAndDrain
<1>5. ASSUME NEW on \in BOOLEAN, SetEnabled(p, on) PROVE IInv'
  <2> DEFINE all == IF on THEN enabled \union {p} ELSE enabled \ {p}
  <2>1. all \in SUBSET Plugins /\ SwitchPlugins(all) /\ Wake /\ control' \in Controls
    BY <1>1, <1>5 DEF SetEnabled
  <2> HIDE DEF all
  <2> QED
    BY <2>1, SwitchStep
<1> QED
  BY <1>2, <1>3, <1>4, <1>5

LEMMA StutterStep == ASSUME IInv, UNCHANGED vars PROVE IInv'
<1>1. TypeOK' /\ DownIsEmpty'
  BY DEF vars, disk, registry, turns, IInv, Core, TypeOK, DiskOK, RegistryOK, TurnsOK, LoopsOK, DownIsEmpty
<1> QED
  BY <1>1, Quiet DEF vars, registry, turns

LEMMA Inductive == Spec => []IInv
<1>1. IInv /\ [Next]_vars => IInv'
  <2> SUFFICES ASSUME IInv, [Next]_vars PROVE IInv'
    OBVIOUS
  <2>1. CASE Reconcile
    BY <2>1, StartBuildingStep, RepublishMcpStep, RepublishServicesStep, TakeQuiescibleStep, EndReconcileStep,
       ActivateStep, BuildStep, FinishDrainStep DEF Reconcile
  <2>2. CASE Process
    BY <2>2, StopStep, BootRefusedStep, BootFailsStep, StopInPublishStep, BootStep DEF Process
  <2> QED
    BY <2>1, <2>2, UserStep, ArriveStep, AdmitStep, FinishStep, BeginStep, RepublishFailsStep, CancelControlStep,
       TerminateFailsStep, ScanStep, AwaitDrainedStep, ReturnDrainedStep, StutterStep DEF Next
<1> QED
  BY Starts, <1>1, PTL DEF Spec

\* The disk, the registry, the leases and the loops have the shape that
\* manager.py, generation.py and watcher.py give them.
THEOREM Typing == Spec => []TypeOK
<1>1. IInv => TypeOK
  BY DEF IInv
<1> QED
  BY Inductive, <1>1, PTL

\* For any number of turns, swaps and drains, no generation that is leased
\* leaves the registry (can_quiesce, drain_quiescible).
THEOREM Kept == Spec => []LeasedGenerationsAreKept
<1>1. IInv => LeasedGenerationsAreKept
  BY DEF IInv
<1> QED
  BY Inductive, <1>1, PTL

\* Whichever step of a reconcile fails or is cancelled, turns are admitted only
\* to surfaces that were published of what is loaded (reconcile_changed).
THEOREM Committed == Spec => []AdmittedOnCommittedSurfaces
<1>1. IInv => AdmittedOnCommittedSurfaces
  BY DEF IInv, Core, GateIsClosed, PublishedInOrder, CurrentIsLoaded, AdmittedOnCommittedSurfaces, Loaded
<1> QED
  BY Inductive, <1>1, PTL
=============================================================================
