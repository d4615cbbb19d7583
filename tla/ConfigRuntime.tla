----------------------------- MODULE ConfigRuntime -----------------------------
(***************************************************************************)
(* VersionCatalog, MigrationRegistry, MigrationEngine and ConfigRuntime,   *)
(* and one application that registers versions and migrations, creates     *)
(* the runtime and synchronizes a configuration, or migrates it directly.  *)
(*                                                                         *)
(* ConfigRuntime::create takes the catalog and the registry by value.      *)
(* Until it succeeds the pair here is the application's own, which may     *)
(* still grow (even from inside a migration callback of a direct           *)
(* migration); afterwards it is the runtime's, which nothing changes.      *)
(*                                                                         *)
(* Callbacks and default factories are application code: a callback leaves *)
(* any tree behind and succeeds or fails, a factory returns its version's  *)
(* defaults or fails.  std::bad_alloc may leave a call at any step.        *)
(***************************************************************************)
EXTENDS ConfigTree, FiniteSets

CONSTANTS Versions,   \* version ids that occur
          Pairs,      \* migrations the application may try to register
          Defaults,   \* what the default factory of each version builds
          NoConfig    \* a local that is not in scope

ASSUME RuntimeAssumption == /\ Versions \subseteq Nat
                            /\ Pairs \subseteq Versions \X Versions
                            /\ Defaults \in [Versions -> Trees]
                            /\ NoConfig \notin [version : Versions, model : Trees]

VARIABLES
  catalog,  \* entries_ of the VersionCatalog
  edges,    \* edges_ of the MigrationRegistry
  sealed,   \* create() has succeeded: the pair above is the runtime's
  cfg,      \* the caller's VersionedConfig
  pc,       \* where the call in progress is
  op,       \* which call: "sync" or "direct"
  target,   \* its argument `supported' or `target'
  working,  \* synchronize's clone
  next,     \* *next of the migration step in progress
  flag,     \* migrated || *repaired so far
  result,   \* what the last call returned
  start,    \* history: the version the last call began with
  known,    \* history: the versions that were registered then
  visited   \* history: the versions its completed steps migrated to

call == <<pc, op, target, working, next, flag>>
history == <<start, known, visited>>
vars == <<catalog, edges, sealed, cfg, call, result, history>>

Configs == [version : Versions, model : Trees]
Statuses == {"InSync", "DowngradeRequired"}
FactoryErrors == {"MigrationFailed", "InvalidType", "InvalidPath"}
Results == Statuses \cup FactoryErrors \cup
           {"ok", "InvalidVersion", "MissingMigration", "bad_alloc"}

TypeOK ==
  /\ catalog \subseteq Versions
  /\ edges \subseteq Pairs
  /\ sealed \in BOOLEAN
  /\ cfg \in Configs
  /\ pc \in {"idle", "migrate", "step", "callback", "repair", "commit"}
  /\ op \in {"sync", "direct"}
  /\ target \in Versions
  /\ working \in Configs \cup {NoConfig}
  /\ next \in Versions
  /\ flag \in BOOLEAN
  /\ result \in Results
  /\ start \in Versions
  /\ known \subseteq Versions
  /\ visited \subseteq Versions

-------------------------------------------------------------------------------
(* VersionCatalog and MigrationRegistry.                                   *)

\* nextVersion(v) is w; it fails when there is no such w.
IsNext(v, w) == /\ v \in catalog /\ w \in catalog /\ v < w
                /\ ~ \E u \in catalog : v < u /\ u < w

\* latestVersion() is v.
IsLatest(v) == v \in catalog /\ \A u \in catalog : u <= v

\* The application's pair may grow between calls, and from inside a callback.
Open == ~sealed /\ (pc = "idle" \/ pc = "callback")

\* registerVersion: an empty factory, then a duplicate, is refused.
RegisterVersion(v, empty) ==
  /\ Open
  /\ result' = IF empty THEN "MigrationFailed"
               ELSE IF v \in catalog THEN "InvalidVersion" ELSE "ok"
  /\ catalog' = IF empty THEN catalog ELSE catalog \cup {v}
  /\ UNCHANGED <<edges, sealed, cfg, call, history>>

\* registerMigration: an empty callable, then a duplicate, is refused.
RegisterMigration(e, empty) ==
  /\ Open
  /\ result' = IF empty THEN "MigrationFailed"
               ELSE IF e \in edges THEN "InvalidVersion" ELSE "ok"
  /\ edges' = IF empty THEN edges ELSE edges \cup {e}
  /\ UNCHANGED <<catalog, sealed, cfg, call, history>>

\* validate's rules 2 and 3, and its rule 1.
EdgesAdjacent == \A e \in edges : IsNext(e[1], e[2])
\* Mutant: the loop over adjacent versions ends one pair early.
ChainComplete_SkipLast ==
  \A v, w \in catalog : IsNext(v, w) /\ ~IsLatest(w) => <<v, w>> \in edges

ChainComplete == \A v, w \in catalog : IsNext(v, w) => <<v, w>> \in edges

-------------------------------------------------------------------------------
(* ConfigRuntime::create and the calls that end at once.                   *)

Create ==
  /\ pc = "idle" /\ ~sealed
  /\ result' = IF catalog = {} \/ ~EdgesAdjacent THEN "InvalidVersion"
               ELSE IF ~ChainComplete THEN "MissingMigration" ELSE "ok"
  /\ sealed' = (catalog # {} /\ EdgesAdjacent /\ ChainComplete)
  /\ UNCHANGED <<catalog, edges, cfg, call, history>>

\* cfg is not what a call made of it any more.
Forget(v) == start' = v /\ known' = {} /\ visited' = {}

\* createDefault of the runtime; e is what the factory or fromValue fails with.
CreateDefault(v, e) ==
  /\ pc = "idle" /\ sealed
  /\ result' = IF v \notin catalog THEN "InvalidVersion" ELSE e
  /\ \/ v \in catalog /\ e = "ok" /\ cfg' = [version |-> v, model |-> Defaults[v]] /\ Forget(v)
     \/ (v \notin catalog \/ e # "ok") /\ UNCHANGED <<cfg, history>>
  /\ UNCHANGED <<catalog, edges, sealed, call>>

\* The application loads a configuration, or edits the one it has.
Load(c) ==
  /\ pc = "idle"
  /\ cfg' = c /\ Forget(c.version)
  /\ result' = "ok"
  /\ UNCHANGED <<catalog, edges, sealed, call>>

\* The call ends and its locals go out of scope.
Return(r) ==
  /\ pc' = "idle"
  /\ result' = r
  /\ working' = NoConfig
  /\ flag' = FALSE
  /\ next' = target
  /\ UNCHANGED <<op, target, history>>

-------------------------------------------------------------------------------
(* MigrationEngine::migrate, on the clone or on the caller's own.          *)

config == IF op = "sync" THEN working ELSE cfg

\* Mutant: synchronize migrates the caller's configuration itself.
SetConfig_InPlace(c) == /\ cfg' = c
                        /\ working' = IF op = "sync" THEN c ELSE working

SetConfig(c) == IF op = "sync" THEN working' = c /\ cfg' = cfg
                               ELSE cfg' = c /\ working' = working

\* A call starts with these arguments.
Enter(o, v) ==
  /\ op' = o /\ target' = v /\ next' = v
  /\ start' = cfg.version /\ known' = catalog /\ visited' = {}

\* The direct entry point; nothing validates the pair before it.
Migrate(v) ==
  /\ pc = "idle" /\ ~sealed
  /\ Enter("direct", v)
  /\ pc' = "migrate"
  /\ UNCHANGED <<catalog, edges, sealed, cfg, working, flag, result>>

MigrateReject ==
  /\ pc = "migrate"
  /\ target \notin catalog \/ config.version > target
  /\ Return("InvalidVersion")
  /\ UNCHANGED <<catalog, edges, sealed, cfg>>

MigrateLoop ==
  /\ pc = "migrate"
  /\ target \in catalog /\ config.version <= target
  /\ pc' = "step"
  /\ UNCHANGED <<catalog, edges, sealed, cfg, op, target, working, next, flag,
                 result, history>>

\* nextVersion or findMigration fails.
StepUnknown ==
  /\ pc = "step" /\ config.version < target
  /\ ~ \E w \in catalog : IsNext(config.version, w)
  /\ Return("InvalidVersion")
  /\ UNCHANGED <<catalog, edges, sealed, cfg>>

StepMissing ==
  /\ pc = "step" /\ config.version < target
  /\ \E w \in catalog : IsNext(config.version, w) /\ <<config.version, w>> \notin edges
  /\ Return("MissingMigration")
  /\ UNCHANGED <<catalog, edges, sealed, cfg>>

\* Mutant: any edge that leads on is followed, not the one to the next version.
StepCall_AnyEdge(w) ==
  /\ pc = "step" /\ config.version < target
  /\ w \in catalog /\ w <= target /\ <<config.version, w>> \in edges
  /\ pc' = "callback" /\ next' = w
  /\ UNCHANGED <<catalog, edges, sealed, cfg, op, target, working, flag, result,
                 history>>

StepCall(w) ==
  /\ pc = "step" /\ config.version < target
  /\ IsNext(config.version, w) /\ <<config.version, w>> \in edges
  /\ pc' = "callback" /\ next' = w
  /\ UNCHANGED <<catalog, edges, sealed, cfg, op, target, working, flag, result,
                 history>>

\* Mutant: the loop forgets to advance the version.
StepApplied_NoAdvance(t) ==
  /\ pc = "callback"
  /\ SetConfig([config EXCEPT !.model = t])
  /\ visited' = visited \cup {next}
  /\ pc' = "step"
  /\ UNCHANGED <<catalog, edges, sealed, op, target, next, flag, result, start, known>>

\* The callback leaves the tree t and succeeds: the version advances.
StepApplied(t) ==
  /\ pc = "callback"
  /\ SetConfig([version |-> next, model |-> t])
  /\ visited' = visited \cup {next}
  /\ pc' = "step"
  /\ UNCHANGED <<catalog, edges, sealed, op, target, next, flag, result, start, known>>

\* Mutant: the version is advanced before the outcome is looked at.
StepFailed_Advance(t) ==
  /\ pc = "callback"
  /\ cfg' = IF op = "direct" THEN [version |-> next, model |-> t] ELSE cfg
  /\ Return("MigrationFailed")
  /\ UNCHANGED <<catalog, edges, sealed>>

\* It returns an error or throws: its partial changes stay, the version does.
StepFailed(t) ==
  /\ pc = "callback"
  /\ cfg' = IF op = "direct" THEN [cfg EXCEPT !.model = t] ELSE cfg
  /\ Return("MigrationFailed")
  /\ UNCHANGED <<catalog, edges, sealed>>

\* The loop is over; migrate returns to its caller.
MigrateDone ==
  /\ pc = "step" /\ config.version >= target
  /\ IF op = "sync"
     THEN /\ pc' = "repair" /\ flag' = TRUE
          /\ UNCHANGED <<op, target, working, next, result, history>>
     ELSE Return("ok")
  /\ UNCHANGED <<catalog, edges, sealed, cfg>>

-------------------------------------------------------------------------------
(* ConfigRuntime::synchronize.                                             *)

Synchronize(v) ==
  /\ pc = "idle" /\ sealed
  /\ \/ /\ v \notin catalog \/ (cfg.version < v /\ cfg.version \notin catalog)
        /\ result' = "InvalidVersion"
        /\ UNCHANGED <<call, history>>
     \/ /\ v \in catalog /\ cfg.version > v
        /\ result' = "DowngradeRequired"
        /\ UNCHANGED <<call, history>>
     \/ /\ v \in catalog
        /\ cfg.version = v \/ (cfg.version < v /\ cfg.version \in catalog)
        /\ Enter("sync", v)
        /\ working' = cfg
        /\ pc' = IF cfg.version = v THEN "repair" ELSE "migrate"
        /\ UNCHANGED <<flag, result>>
  /\ UNCHANGED <<catalog, edges, sealed, cfg>>

SynchronizeLatest == \E v \in catalog : IsLatest(v) /\ Synchronize(v)

\* Mutant: only a migration is worth a commit.
Repair_MigratedOnly ==
  /\ pc = "repair"
  /\ working' = [working EXCEPT !.model = Fill(working.model, Defaults[target])]
  /\ flag' = flag
  /\ pc' = "commit"
  /\ UNCHANGED <<catalog, edges, sealed, cfg, op, target, next, result, history>>

\* repair: the defaults of the supported version cannot be built.
RepairFail(e) ==
  /\ pc = "repair"
  /\ Return(e)
  /\ UNCHANGED <<catalog, edges, sealed, cfg>>

\* Mutant: the configuration is merged into the defaults.
Repair_DefaultsWin ==
  /\ pc = "repair"
  /\ working' = [working EXCEPT !.model = Fill(Defaults[target], working.model)]
  /\ flag' = (flag \/ working' # working)
  /\ pc' = "commit"
  /\ UNCHANGED <<catalog, edges, sealed, cfg, op, target, next, result, history>>

\* Mutant: fillMissing says it added something whenever there are defaults.
Repair_Always ==
  /\ pc = "repair"
  /\ working' = [working EXCEPT !.model = Fill(working.model, Defaults[target])]
  /\ flag' = (flag \/ DOMAIN Defaults[target] # {})
  /\ pc' = "commit"
  /\ UNCHANGED <<catalog, edges, sealed, cfg, op, target, next, result, history>>

\* repair: fillMissing adds what is missing and says whether it added anything.
Repair ==
  /\ pc = "repair"
  /\ working' = [working EXCEPT !.model = Fill(working.model, Defaults[target])]
  /\ flag' = (flag \/ Missing(working.model, Defaults[target]) # {})
  /\ pc' = "commit"
  /\ UNCHANGED <<catalog, edges, sealed, cfg, op, target, next, result, history>>

\* The single mutation of cfg, when there is something to commit.
Commit ==
  /\ pc = "commit"
  /\ cfg' = IF flag THEN working ELSE cfg
  /\ Return("InSync")
  /\ UNCHANGED <<catalog, edges, sealed>>

\* std::bad_alloc propagates; a callback may have changed the tree before it.
BadAlloc(t) ==
  /\ pc # "idle"
  /\ cfg' = IF pc = "callback" /\ op = "direct" THEN [cfg EXCEPT !.model = t] ELSE cfg
  /\ Return("bad_alloc")
  /\ UNCHANGED <<catalog, edges, sealed>>

-------------------------------------------------------------------------------
Init ==
  /\ catalog = {} /\ edges = {} /\ sealed = FALSE
  /\ cfg \in Configs
  /\ pc = "idle" /\ op = "sync"
  /\ target \in Versions /\ next = target /\ start = target
  /\ working = NoConfig /\ flag = FALSE
  /\ result = "ok"
  /\ known = {} /\ visited = {}

\* What the library does on its own once a call has begun.
Step ==
  \/ MigrateReject \/ MigrateLoop
  \/ StepUnknown \/ StepMissing \/ MigrateDone
  \/ \E w \in Versions : StepCall(w)
  \/ \E t \in Trees : StepApplied(t) \/ StepFailed(t) \/ BadAlloc(t)
  \/ \E e \in FactoryErrors : RepairFail(e)
  \/ Repair \/ Commit

\* What the application does.
Application ==
  \/ \E v \in Versions, empty \in BOOLEAN : RegisterVersion(v, empty)
  \/ \E e \in Pairs, empty \in BOOLEAN : RegisterMigration(e, empty)
  \/ Create
  \/ \E v \in Versions, e \in FactoryErrors \cup {"ok"} : CreateDefault(v, e)
  \/ \E c \in Configs : Load(c)
  \/ \E v \in Versions : Migrate(v) \/ Synchronize(v)
  \/ SynchronizeLatest

Next == Step \/ Application

Spec == Init /\ [][Next]_vars

\* A call in progress goes on: callbacks and factories return.
FairSpec == Spec /\ WF_vars(Step)

-------------------------------------------------------------------------------
(* Properties.                                                             *)

\* While synchronize runs, the caller's configuration changes at most once,
\* in the step that returns InSync, and then to the supported version with
\* every default in place: an error, an exception in a callback, in a factory
\* or out of memory leaves it as it was.
SyncIsTransactional ==
  [][ (sealed /\ pc # "idle" /\ cfg' # cfg) =>
        /\ result' = "InSync" /\ pc' = "idle"
        /\ cfg'.version = target
        /\ Complete(cfg'.model, Defaults[target]) ]_vars

\* Whenever synchronize has answered InSync, committed or not, the caller's
\* configuration is at the supported version and complete: the commit is never
\* skipped when there was something to commit.
InSyncIsComplete ==
  (sealed /\ pc = "idle" /\ result = "InSync") =>
     cfg.version = target /\ Complete(cfg.model, Defaults[target])

\* Synchronizing a configuration that is already at the supported version
\* never alters or drops what the user has set, at any depth.
RepairOnlyAdds ==
  [][ (op = "sync" /\ pc # "idle" /\ start = target /\ cfg' # cfg) =>
        Extends(cfg'.model, cfg.model) ]_vars

\* A runtime that create accepted never gives up between two migration steps
\* for want of a version or an edge: once synchronize has begun to migrate,
\* only application code (or memory) can make it fail.
NeverStuckMidChain ==
  (sealed /\ pc \in {"migrate", "step"}) =>
     /\ target \in catalog /\ config.version \in catalog
     /\ config.version <= target
     /\ \A w \in catalog :
           IsNext(config.version, w) => <<config.version, w>> \in edges

\* A call is at work, or the last one was a direct migrate: finished, refused,
\* failed or thrown through, it has left in cfg what config is then.
Migrating == pc # "idle" \/ op = "direct"

\* Every version on the way that was registered when the call began has been
\* stopped at, and nothing but registered versions: no callback between the
\* version the configuration had and the one it has is skipped, whatever
\* callbacks register meanwhile.  (A runtime's catalog does not grow: there
\* these are all its versions.)
WalkSkipsNothing ==
  Migrating => /\ {v \in known : start < v /\ v <= config.version} \subseteq visited
               /\ visited \subseteq {v \in catalog : start < v /\ v <= config.version}

\* The version is that of the last step that was completed, or the one the call
\* began with, and no step goes past the target.  So it is after a direct
\* migrate whose callback returned an error, threw or ran out of memory: the tree
\* may be half changed, but it is labelled with a version whose migrations have
\* all succeeded.
VersionIsLastStep ==
  Migrating => /\ config.version \in visited \cup {start}
               /\ \A v \in visited : start < v /\ v <= config.version /\ v <= target

\* synchronize commits exactly when migration or repair changed something
\* (config_runtime.hpp:51): the commit destroys the arena under every handle the
\* application holds, and must not do so for nothing.
CommitIsNeeded == pc = "commit" => (flag <=> working # cfg)

\* Every synchronize and every direct migration returns.
CallsReturn == (pc # "idle") ~> (pc = "idle")
===============================================================================
