---- MODULE PluginReload ----
(***************************************************************************)
(* Hot reload of the local program's plugins: PluginManager, the registry  *)
(* of generations with its admission gate, the reload journal, the watcher *)
(* and the control plane's disable-and-drain (agent/plugins).             *)
(*                                                                         *)
(* A plugin's source on disk is a revision number (0: not installed); the  *)
(* configuration revision is part of it.  A generation is what             *)
(* PluginGenerationRegistry publishes: the revision found on disk together *)
(* with the loaded instance.  Turns are passive turns and Proactive ticks, *)
(* both of which hold a lease_committed() for their whole run.             *)
(*                                                                         *)
(* Simplifications: a journal transaction that reached a terminal phase is *)
(* dropped (nothing reads it again); the capabilities that a reconcile     *)
(* publishes beside the generations are two surfaces, the MCP catalogue    *)
(* (with the skill links) and the managed services.                        *)
(***************************************************************************)
EXTENDS Naturals, FiniteSets

CONSTANTS
    Plugins,       \* plugin names
    Turns,         \* turns and ticks that may be in flight
    Revisions,     \* revisions a plugin's source may have, numbers above 0
    Rejected,      \* revisions whose semantic checks fail
    Broken,        \* revisions whose plugin.py cannot be initialised
    MaxChanges,    \* bound: installs, edits, enables, disables
    MaxFailures,   \* bound: failures of a publish step or of a terminate
    MaxStops,      \* bound: ends of the process, orderly or not
    None

ASSUME ReloadConstants ==
    /\ IsFiniteSet(Plugins)
    /\ Revisions \subseteq Nat \ {0}
    /\ Rejected \subseteq Revisions
    /\ Broken \subseteq Revisions
    /\ MaxChanges \in Nat /\ MaxFailures \in Nat /\ MaxStops \in Nat
    /\ None \notin Nat \union [rev : Nat, inst : Nat]

VARIABLES
    source,     \* disk: revision of each plugin's directory
    enabled,    \* disk: plugins the manifest does not switch off
    journal,    \* disk: reload transactions not yet in a terminal phase
    mode,       \* "down", "up", or "refused" by the recovery at start
    active,     \* loaded plugins: the revision of the loaded code and its instance
    current,    \* the registry's current generation of each plugin
    retired,    \* the registry's retired generations
    drains,     \* _reload_drains: generation id -> transaction
    gate,       \* publication_in_progress
    dirty,      \* _publication_dirty
    surfaces,   \* what is published beside the generations
    terminated, \* instances whose terminate() ran
    turn,       \* phase of each turn
    held,       \* generations each turn holds a lease of
    rec,        \* the reconcile under _reconcile_lock
    watcher,    \* the watcher's loop
    control,    \* the control plane's disable-and-drain
    serial,     \* numbers handed out to instances, generations, transactions
    budget      \* changes, failures and stops so far, and whether a change
                \* brought back a disk the watcher scanned or accepted last

disk == <<source, enabled, journal>>
registry == <<current, retired, drains>>
turns == <<turn, held>>
vars == <<source, enabled, journal, mode, active, current, retired, drains,
          gate, dirty, surfaces, terminated, turn, held, rec, watcher,
          control, serial, budget>>

------------------------------------------------------------------------------
(* Generations, transactions and the state derived from them.              *)

Phases == {"preparing", "prepared", "validating", "commit_started",
           "committed", "draining"}

\* pending_recovery: what a new process does with an unfinished transaction.
Restores(tx) == tx.phase \in {"commit_started", "committed", "draining"}

NoReconcile == [pc |-> "idle", by |-> "none", owns |-> FALSE, todo |-> {}]

\* compute_generation_id: the identity does not tell two generations of one
\* revision apart.
GenerationId(g) == <<g.plugin, g.rev>>

Generations == {current[p] : p \in {q \in Plugins : current[q] # None}}
Loaded == {p \in Plugins : active[p] # None}
Desired == {p \in enabled : source[p] # 0}
Leased(g) == \E t \in Turns : g \in held[t]

QuiescibleMutant == retired \* mutant: a lease does not keep a generation

\* can_quiesce, over the retired generations.
Quiescible == {g \in retired : ~Leased(g)}

\* watch_revision: fingerprint of sources, configurations and manifest.
WatchRevision == <<source, enabled>>

Init ==
    /\ source \in [Plugins -> {0} \union Revisions]
    /\ enabled = Plugins
    /\ journal = {}
    /\ mode = "down"
    /\ active = [p \in Plugins |-> None]
    /\ current = [p \in Plugins |-> None]
    /\ retired = {}
    /\ drains = {}
    /\ gate = FALSE
    /\ dirty = FALSE
    /\ surfaces = [mcp |-> {}, services |-> {}]
    /\ terminated = {}
    /\ turn = [t \in Turns |-> "idle"]
    /\ held = [t \in Turns |-> {}]
    /\ rec = NoReconcile
    /\ watcher = [pc |-> "poll", seen |-> None, scanned |-> None, forced |-> FALSE]
    /\ control = [pc |-> "idle", plugin |-> None]
    /\ serial = 0
    /\ budget = [changes |-> 0, failures |-> 0, stops |-> 0, returned |-> FALSE]

Spend(what, limit) ==
    /\ budget[what] < limit
    /\ budget' = [budget EXCEPT ![what] = @ + 1]

------------------------------------------------------------------------------
(* The user and the management tools change the disk.  The tools also wake *)
(* the watcher (_request_reload); an edit of the files does not.           *)

Wake == watcher' = [watcher EXCEPT !.forced = (mode = "up") \/ @]

\* Names the disk that a change leaves.
CountChange(src, on) ==
    /\ budget.changes < MaxChanges
    /\ budget' = [budget EXCEPT !.changes = @ + 1,
         !.returned = @ \/ <<src, on>> \in {watcher.seen, watcher.scanned}]

SwitchPlugins(on) ==
    /\ enabled' = on
    /\ CountChange(source, on)
    /\ UNCHANGED <<source, journal, mode, active, registry, gate, dirty,
                   surfaces, terminated, turns, rec, serial>>

ChangeSource(p, r, on) ==
    /\ source[p] # r
    /\ source' = [source EXCEPT ![p] = r]
    /\ enabled' = on
    /\ CountChange(source', on)
    /\ UNCHANGED <<journal, mode, active, registry, gate, dirty, surfaces,
                   terminated, turns, rec, control, serial>>

EditFiles(p, r) ==
    /\ ChangeSource(p, r, enabled)
    /\ UNCHANGED watcher

Install(p, r) ==
    /\ mode = "up"
    /\ ChangeSource(p, r, enabled)
    /\ Wake

\* Uninstall removes the directory and the manifest's entry with it.
Uninstall(p) ==
    /\ mode = "up"
    /\ source[p] # 0
    /\ ChangeSource(p, 0, enabled \union {p})
    /\ Wake

SetEnabled(p, on) ==
    /\ mode = "up"
    /\ (p \in enabled) # on
    /\ SwitchPlugins(IF on THEN enabled \union {p} ELSE enabled \ {p})
    /\ Wake
    /\ UNCHANGED control

------------------------------------------------------------------------------
(* Turns take the lease of every current generation at once, and only      *)
(* while no publication is in progress (lease_committed).                  *)

Arrive(t) ==
    /\ mode = "up"
    /\ turn[t] = "idle"
    /\ turn' = [turn EXCEPT ![t] = "waiting"]
    /\ UNCHANGED <<disk, mode, active, registry, gate, dirty, surfaces,
                   terminated, held, rec, watcher, control, serial, budget>>

Admit(t) ==
    /\ turn[t] = "waiting"
    /\ ~gate
    /\ turn' = [turn EXCEPT ![t] = "running"]
    /\ held' = [held EXCEPT ![t] = Generations]
    /\ UNCHANGED <<disk, mode, active, registry, gate, dirty, surfaces,
                   terminated, rec, watcher, control, serial, budget>>

\* The finally of lease_committed; a cancelled wait ends the same way.
Finish(t) ==
    /\ turn[t] \in {"waiting", "running"}
    /\ turn' = [turn EXCEPT ![t] = "idle"]
    /\ held' = [held EXCEPT ![t] = {}]
    /\ UNCHANGED <<disk, mode, active, registry, gate, dirty, surfaces,
                   terminated, rec, watcher, control, serial, budget>>


------------------------------------------------------------------------------
(* reconcile_changed, under _reconcile_lock.                               *)

Waits(by) ==
    \/ by = "watcher" /\ watcher.pc = "want"
    \/ by = "control" /\ control.pc = "reconcile"

\* The gate closes, and every loaded plugin that is gone or switched off is
\* deactivated: its current generation retires.
Begin(by) ==
    LET gone == Loaded \ Desired IN
    /\ mode = "up"
    /\ rec.pc = "idle"
    /\ Waits(by)
    /\ rec' = [pc |-> "activate", by |-> by, owns |-> ~gate, todo |-> Desired \ Loaded]
    /\ gate' = TRUE
    /\ active' = [p \in Plugins |-> IF p \in gone THEN None ELSE active[p]]
    /\ current' = [p \in Plugins |-> IF p \in gone THEN None ELSE current[p]]
    /\ retired' = retired \union {g \in Generations : g.plugin \in gone}
    /\ dirty' = (dirty \/ gone # {})
    /\ UNCHANGED <<disk, mode, drains, surfaces, terminated, turns, watcher,
                   control, serial, budget>>

\* _activate_plugin; a plugin that cannot be loaded is skipped.
Activate(p) ==
    /\ rec.pc = "activate"
    /\ p \in rec.todo
    /\ rec' = [rec EXCEPT !.todo = @ \ {p}]
    /\ IF source[p] \in Broken \union {0}
         THEN UNCHANGED <<active, dirty, serial>>
         ELSE /\ serial' = serial + 1
              /\ active' = [active EXCEPT ![p] = [rev |-> source[p], inst |-> serial']]
              /\ dirty' = TRUE
    /\ UNCHANGED <<disk, mode, registry, gate, surfaces, terminated, turns,
                   watcher, control, budget>>

StartBuilding ==
    /\ rec.pc = "activate"
    /\ rec.todo = {}
    /\ rec' = [rec EXCEPT !.pc = "build", !.todo = Loaded]
    /\ UNCHANGED <<disk, mode, active, registry, gate, dirty, surfaces,
                   terminated, turns, watcher, control, serial, budget>>

\* build_generation: the revision is the one found on disk, the instance is
\* the one that is loaded; nothing loads the code again.
Candidate(p) ==
    [plugin |-> p, rev |-> source[p], inst |-> active[p].inst, id |-> serial + 1]

\* The gate's verdict is the loaded code's own.
Admissible(p) ==
    /\ current[p] # None => current[p].rev # source[p]
    /\ active[p].rev \notin Rejected

\* _publish_generation_transaction, run to its end.  A second retirement of
\* one generation id takes the place of the first in _reload_drains.
Publish(p, g) ==
    /\ current' = [current EXCEPT ![p] = g]
    /\ IF current[p] = None
         THEN UNCHANGED <<journal, retired, drains>>
         ELSE LET old == current[p] IN
              /\ journal' = journal \union
                   {[tx |-> g.id, plugin |-> p, rev |-> g.rev, phase |-> "draining"]}
              /\ retired' = retired \union {old}
              /\ drains' = {d \in drains : d.gen # GenerationId(old)} \union
                           {[gen |-> GenerationId(old), tx |-> g.id]}

Build(p) ==
    /\ rec.pc = "build"
    /\ p \in rec.todo
    /\ rec' = [rec EXCEPT !.todo = @ \ {p}]
    /\ IF Admissible(p)
         THEN /\ Publish(p, Candidate(p))
              /\ dirty' = TRUE
              /\ serial' = serial + 1
         ELSE UNCHANGED <<journal, registry, dirty, serial>>
    /\ UNCHANGED <<source, enabled, mode, active, gate, surfaces, terminated,
                   turns, watcher, control, budget>>

\* _republish_after_reconcile: skills and MCP, then the services, which are
\* all stopped before they are started again.
RepublishMcp ==
    /\ rec.pc = "build"
    /\ rec.todo = {}
    /\ dirty
    /\ rec' = [rec EXCEPT !.pc = "services"]
    /\ surfaces' = [mcp |-> Loaded, services |-> {}]
    /\ UNCHANGED <<disk, mode, active, registry, gate, dirty, terminated, turns,
                   watcher, control, serial, budget>>

RepublishServices ==
    /\ rec.pc = "services"
    /\ rec' = [rec EXCEPT !.pc = "drain"]
    /\ surfaces' = [surfaces EXCEPT !.services = Loaded]
    /\ dirty' = FALSE
    /\ UNCHANGED <<disk, mode, active, registry, gate, terminated, turns,
                   watcher, control, serial, budget>>

\* drain_quiescible takes the generations out of the registry at once; what
\* follows is done for one after the other.
TakeQuiescible ==
    /\ rec.pc = "drain" \/ (rec.pc = "build" /\ rec.todo = {} /\ ~dirty)
    /\ retired' = retired \ Quiescible
    /\ rec' = [rec EXCEPT !.pc = "finish", !.todo = Quiescible]
    /\ UNCHANGED <<disk, mode, active, current, drains, gate, dirty, surfaces,
                   terminated, turns, watcher, control, serial, budget>>

\* _finish_reload_drains for one generation: its transaction is complete, and
\* its instance is terminated unless a current generation has the same one.
CompleteDrain(g) ==
    LET mine == {d \in drains : d.gen = GenerationId(g)} IN
    /\ rec.pc = "finish"
    /\ g \in rec.todo
    /\ drains' = drains \ mine
    /\ journal' = {r \in journal : ~\E d \in mine : d.tx = r.tx}
    /\ UNCHANGED <<source, enabled, mode, active, current, retired, dirty,
                   surfaces, turns, control, serial>>

MustTerminate(g) == g.inst \notin {h.inst : h \in Generations}

FinishDrain(g) ==
    /\ CompleteDrain(g)
    /\ rec' = [rec EXCEPT !.todo = @ \ {g}]
    /\ terminated' = IF MustTerminate(g) THEN terminated \union {g.inst} ELSE terminated
    /\ UNCHANGED <<gate, watcher, budget>>

EndReconcile ==
    /\ rec.pc = "finish"
    /\ rec.todo = {}
    /\ rec' = NoReconcile
    /\ gate' = FALSE
    /\ IF rec.by = "watcher"
         THEN /\ watcher' = [watcher EXCEPT !.pc = "poll", !.seen = watcher.scanned,
                                         !.scanned = None]
              /\ UNCHANGED control
         ELSE /\ control' = [control EXCEPT !.pc = "wait"]
              /\ UNCHANGED watcher
    /\ UNCHANGED <<disk, mode, active, registry, dirty, surfaces, terminated,
                   turns, serial, budget>>

\* Mutants: the gate opens after any failure; a failed revision becomes the
\* watcher's baseline.
ReopeningMutant ==
    /\ rec.pc # "idle"
    /\ rec' = NoReconcile
    /\ gate' = ~rec.owns
    /\ IF rec.by = "watcher"
         THEN /\ watcher' = [watcher EXCEPT !.pc = "poll", !.scanned = None]
              /\ UNCHANGED control
         ELSE control' = [control EXCEPT !.pc = "idle"] /\ UNCHANGED watcher

BaselineMutant ==
    /\ rec.pc # "idle"
    /\ rec' = NoReconcile
    /\ gate' = (dirty \/ ~rec.owns)
    /\ IF rec.by = "watcher"
         THEN /\ watcher' = [watcher EXCEPT !.pc = "poll", !.seen = watcher.scanned,
                                         !.scanned = None]
              /\ UNCHANGED control
         ELSE control' = [control EXCEPT !.pc = "idle"] /\ UNCHANGED watcher

\* The except BaseException of reconcile_changed: a failure between the
\* surfaces leaves admission closed.  The watcher tries again after the errors
\* it knows (OSError, ValueError, RuntimeError); any other ends its task.
Abort ==
    /\ rec.pc # "idle"
    /\ rec' = NoReconcile
    /\ gate' = (dirty \/ ~rec.owns)
    /\ IF rec.by = "watcher"
         THEN /\ \E pc \in {"poll", "dead"} :
                watcher' = [watcher EXCEPT !.pc = pc, !.scanned = None]
              /\ UNCHANGED control
         ELSE /\ control' = [control EXCEPT !.pc = "idle"]
              /\ UNCHANGED watcher

\* The previous MCP generation goes on, or no service is left running.
RepublishFails ==
    /\ \/ rec.pc = "build" /\ rec.todo = {} /\ dirty
       \/ rec.pc = "services"
    /\ Spend("failures", MaxFailures)
    /\ Abort
    /\ surfaces' = IF rec.pc = "services" THEN [surfaces EXCEPT !.services = {}]
                                          ELSE surfaces
    /\ UNCHANGED <<disk, mode, active, registry, dirty, terminated, turns, serial>>

\* terminate() raises: the generations after this one are dropped as they are.
TerminateFails(g) ==
    /\ CompleteDrain(g)
    /\ MustTerminate(g)
    /\ Spend("failures", MaxFailures)
    /\ Abort
    /\ UNCHANGED terminated

\* The connection of plugin/disable-and-drain closes: its task is cancelled
\* where it waits.
CancelControl ==
    /\ rec.by = "control"
    /\ Spend("failures", MaxFailures)
    /\ Abort
    /\ UNCHANGED <<disk, mode, active, registry, dirty, surfaces, terminated,
                   turns, serial>>

------------------------------------------------------------------------------
(* The watcher, which reads the fingerprint before it waits for the lock,  *)
(* and the control plane's disable-and-drain.                              *)

Scan ==
    /\ mode = "up"
    /\ watcher.pc = "poll"
    /\ watcher.forced \/ watcher.seen # WatchRevision
    /\ watcher' = [watcher EXCEPT !.pc = "want", !.scanned = WatchRevision,
                                  !.forced = FALSE]
    /\ UNCHANGED <<disk, mode, active, registry, gate, dirty, surfaces,
                   terminated, turns, rec, control, serial, budget>>

DisableAndDrain(p) ==
    /\ mode = "up"
    /\ control.pc = "idle"
    /\ p \in Loaded
    /\ SwitchPlugins(enabled \ {p})
    /\ Wake
    /\ control' = [pc |-> "reconcile", plugin |-> p]

\* One round of the wait: what has drained leaves the registry, and neither
\* its transaction nor its instance is touched.  The deadline may pass.
AwaitDrained ==
    LET left == {g \in retired \ Quiescible : g.plugin = control.plugin} IN
    /\ control.pc = "wait"
    /\ retired' = retired \ Quiescible
    /\ \/ left = {} /\ control' = [control EXCEPT !.pc = "drained"]
       \/ left # {} /\ control' \in {control, [control EXCEPT !.pc = "idle"]}
    /\ UNCHANGED <<disk, mode, active, current, drains, gate, dirty, surfaces,
                   terminated, turns, rec, watcher, serial, budget>>

ReturnDrained ==
    /\ control.pc = "drained"
    /\ control' = [control EXCEPT !.pc = "idle"]
    /\ UNCHANGED <<disk, mode, active, registry, gate, dirty, surfaces, terminated,
                   turns, rec, watcher, serial, budget>>

------------------------------------------------------------------------------
(* The process: it may end anywhere, and load_all starts the next one from *)
(* what is on disk.                                                        *)

\* All that is in memory is gone; serial goes on, as transaction ids differ
\* between processes.
Forget ==
    /\ active' = [p \in Plugins |-> None]
    /\ current' = [p \in Plugins |-> None]
    /\ retired' = {} /\ drains' = {} /\ terminated' = {}
    /\ gate' = FALSE /\ dirty' = FALSE
    /\ surfaces' = [mcp |-> {}, services |-> {}]
    /\ turn' = [t \in Turns |-> "idle"]
    /\ held' = [t \in Turns |-> {}]
    /\ rec' = NoReconcile
    /\ watcher' = [pc |-> "poll", seen |-> None, scanned |-> None, forced |-> FALSE]
    /\ control' = [pc |-> "idle", plugin |-> None]

Stop ==
    /\ mode = "up"
    /\ Spend("stops", MaxStops)
    /\ mode' = "down"
    /\ Forget
    /\ UNCHANGED <<disk, serial>>

\* The process ends within _publish_generation_transaction, which has written
\* one of its phases; without a previous generation the last is complete.
StopInPublish(p, phase) ==
    /\ rec.pc = "build"
    /\ p \in rec.todo
    /\ Admissible(p)
    /\ phase = "draining" => current[p] # None
    /\ Spend("stops", MaxStops)
    /\ mode' = "down"
    /\ journal' = journal \union
         {[tx |-> serial + 1, plugin |-> p, rev |-> source[p], phase |-> phase]}
    /\ serial' = serial + 1
    /\ Forget
    /\ UNCHANGED <<source, enabled>>

ToRestore == {r \in journal : Restores(r)}

\* What a new process publishes for a transaction it restores: the plugin is
\* there with that revision, loads, and passes its checks.
SourceMatches(r) == source[r.plugin] # 0 /\ source[r.plugin] = r.rev
GenerationMatches(r) ==
    /\ SourceMatches(r)
    /\ r.plugin \in enabled
    /\ r.rev \notin Broken \union Rejected

Loadable == {p \in Desired : source[p] \notin Broken}

\* load_all.  Serial numbers run over the plugins in some order.
Boot(number) ==
    /\ mode # "up"
    /\ \A r \in ToRestore : GenerationMatches(r)
    /\ mode' = "up"
    /\ journal' = {}
    /\ serial' = serial + Cardinality(Plugins)
    /\ active' = [p \in Plugins |->
         IF p \in Loadable THEN [rev |-> source[p], inst |-> serial + number[p]]
                           ELSE None]
    /\ current' = [p \in Plugins |->
         IF p \in Loadable /\ source[p] \notin Rejected
           THEN [plugin |-> p, rev |-> source[p], inst |-> serial + number[p],
                 id |-> serial + number[p]]
           ELSE None]
    /\ surfaces' = [mcp |-> Loadable, services |-> Loadable]
    /\ UNCHANGED <<source, enabled, retired, drains, gate, dirty, terminated,
                   turns, rec, watcher, control, budget>>

\* RuntimeError of the recovery: at once, with the journal as it was, or after
\* the generations are published, with the candidates discarded and some of
\* the transactions restored.
BootRefused ==
    /\ mode = "down"
    /\ mode' = "refused"
    /\ \/ /\ \E r \in ToRestore : ~SourceMatches(r)
          /\ UNCHANGED journal
       \/ /\ \A r \in ToRestore : SourceMatches(r)
          /\ \E r \in ToRestore : ~GenerationMatches(r)
          /\ \E done \in SUBSET {r \in ToRestore : GenerationMatches(r)} :
               journal' = ToRestore \ done
    /\ UNCHANGED <<source, enabled, active, registry, gate, dirty, surfaces,
                   terminated, turns, rec, watcher, control, serial, budget>>

\* The MCP servers or the managed services of the start fail.
BootFails ==
    /\ mode = "down"
    /\ Spend("failures", MaxFailures)
    /\ \/ (\A r \in ToRestore : SourceMatches(r)) /\ journal' = ToRestore
       \/ (\A r \in ToRestore : GenerationMatches(r)) /\ journal' = {}
    /\ UNCHANGED <<source, enabled, mode, active, registry, gate, dirty, surfaces,
                   terminated, turns, rec, watcher, control, serial>>

Reconcile ==
    \/ StartBuilding \/ RepublishMcp \/ RepublishServices \/ TakeQuiescible
    \/ EndReconcile
    \/ \E p \in Plugins : Activate(p) \/ Build(p)
    \/ \E g \in rec.todo : FinishDrain(g)

Process ==
    \/ Stop \/ BootRefused \/ BootFails
    \/ \E p \in Plugins, phase \in Phases : StopInPublish(p, phase)
    \/ \E number \in [Plugins -> 1..Cardinality(Plugins)] :
         /\ \A p, q \in Plugins : number[p] = number[q] => p = q
         /\ Boot(number)

Next ==
    \/ \E p \in Plugins, r \in Revisions : EditFiles(p, r) \/ Install(p, r)
    \/ \E p \in Plugins : Uninstall(p) \/ DisableAndDrain(p)
    \/ \E p \in Plugins, on \in BOOLEAN : SetEnabled(p, on)
    \/ \E t \in Turns : Arrive(t) \/ Admit(t) \/ Finish(t)
    \/ \E by \in {"watcher", "control"} : Begin(by)
    \/ Reconcile \/ RepublishFails \/ CancelControl
    \/ \E g \in rec.todo : TerminateFails(g)
    \/ Scan \/ AwaitDrained \/ ReturnDrained
    \/ Process

Spec == Init /\ [][Next]_vars

Fairness ==
    /\ WF_vars(Scan)
    /\ \A by \in {"watcher", "control"} : WF_vars(Begin(by))
    /\ WF_vars(Reconcile)
    /\ WF_vars(AwaitDrained)
    /\ \A t \in Turns : WF_vars(Admit(t))

FairSpec == Spec /\ Fairness

------------------------------------------------------------------------------
(* Properties.                                                             *)

\* A generation some turn holds a lease of is the current one or waits among
\* the retired: no reconcile, drain or disable takes it from the registry,
\* whatever was swapped, disabled or loaded again meanwhile (can_quiesce,
\* drain_quiescible).
LeasedGenerationsAreKept ==
    \A t \in Turns : held[t] \subseteq Generations \union retired

\* While admission is open, what the registry, the MCP catalogue and the
\* service host offer is one and the same set of loaded plugins, whichever
\* step of an earlier reconcile failed or was cancelled (reconcile_changed:
\* a failed publish stays gated).
AdmittedOnCommittedSurfaces ==
    mode = "up" /\ ~gate =>
        /\ surfaces.mcp = Loaded
        /\ surfaces.services = Loaded
        /\ {p \in Plugins : current[p] # None} \subseteq Loaded
        /\ ~dirty

\* The plugins that run are those installed and switched on, each offered by
\* the instance that is loaded and not terminated, unless the loaded code
\* fails its checks.  Which revision that code is of is not said: nothing loads
\* it again while its plugin stays (UpgradesAreServed).
Settled ==
    /\ ~gate
    /\ Loaded \subseteq Desired
    /\ \A p \in Desired \ Loaded : source[p] \in Broken
    /\ \A p \in Plugins :
         \/ current[p] = None /\ (p \in Loaded => active[p].rev \in Rejected)
         \/ /\ current[p] # None /\ p \in Loaded
            /\ current[p].inst = active[p].inst /\ active[p].inst \notin terminated

\* Once the disk stays as it is, every install, uninstall and switch has its
\* effect in the running process, after failed and cancelled reconciles and
\* changes during a reconcile too, and without another change, as long as no
\* change brings back an earlier revision and no error the watcher does not
\* know has ended its task (PluginWatcher.run).
SwitchesTakeEffect ==
    []~budget.returned => <>[](mode = "up" /\ watcher.pc # "dead" => Settled)

\* What install says of an upgrade (manager.py:1549: "Hot reload will apply it
\* shortly"): the code that runs comes to be the one on disk.  The code does
\* not keep this: build_generation gives the new revision the instance that is
\* loaded, and only a plugin that was off is loaded.
UpgradesAreServed ==
    []~budget.returned =>
        <>[](mode = "up" /\ watcher.pc # "dead" =>
               \A p \in Loaded : active[p].rev = source[p])

\* What manager.py:857 says of a failed publish: the watcher retries it until
\* it succeeds.
FailedPublishIsRetried == dirty ~> ~dirty \/ watcher.pc = "dead"
====
