-------------------------- MODULE ConfigRuntimeProofs --------------------------
(***************************************************************************)
(* Proofs about ConfigRuntime, for every set of versions, of migrations    *)
(* and of trees.  Lemmas about trees first; then the inductive invariant,  *)
(* which ties the locals of a call in progress to the pair that create     *)
(* accepted and to the caller's configuration.                             *)
(***************************************************************************)
EXTENDS ConfigRuntime, TLAPS

\* An ancestor of an ancestor is an ancestor: what makes a filled tree rooted.
LEMMA AboveTransitive ==
  ASSUME NEW r \in Seq(Keys), NEW q \in Seq(Keys), NEW p \in Seq(Keys),
         Above(r, q), Above(q, p)
  PROVE  Above(r, p)
<1>1. Len(r) < Len(q) /\ Len(q) < Len(p) /\ Len(r) \in Nat /\ Len(q) \in Nat /\ Len(p) \in Nat
  BY DEF Above
<1>2. r = SubSeq(q, 1, Len(r)) /\ q = SubSeq(p, 1, Len(q))
  BY DEF Above
<1>3. \A i \in 1 .. Len(r) : SubSeq(p, 1, Len(r))[i] = r[i]
  <2> SUFFICES ASSUME NEW i \in 1 .. Len(r) PROVE SubSeq(p, 1, Len(r))[i] = r[i]
    OBVIOUS
  <2>1. r[i] = q[i]
    BY <1>1, <1>2
  <2>2. q[i] = p[i]
    BY <1>1, <1>2
  <2>3. SubSeq(p, 1, Len(r))[i] = p[i]
    BY <1>1
  <2> QED BY <2>1, <2>2, <2>3
<1>4. SubSeq(p, 1, Len(r)) \in Seq(Keys) /\ Len(SubSeq(p, 1, Len(r))) = Len(r)
  BY <1>1
<1>5. SubSeq(p, 1, Len(r)) = r
  BY <1>3, <1>4
<1> QED BY <1>1, <1>5 DEF Above

\* The repaired tree is a tree, has every default that nothing shadows, and
\* says everything the tree said before (fillMissing: presence wins).
LEMMA FillTree ==
  ASSUME NEW t \in Trees, NEW d \in Trees
  PROVE  /\ Fill(t, d) \in Trees
         /\ Complete(Fill(t, d), d)
         /\ Extends(Fill(t, d), t)
<1> DEFINE f == Fill(t, d)
           M == Missing(t, d)
<1>1. /\ DOMAIN t \subseteq Paths /\ DOMAIN d \subseteq Paths
      /\ \A p \in DOMAIN t : t[p] \in Leaves \cup {Obj}
      /\ \A p \in DOMAIN d : d[p] \in Leaves \cup {Obj}
  BY DEF Trees
<1>2. Rooted(t) /\ Rooted(d)
  BY DEF Trees
<1>3. DOMAIN f = DOMAIN t \cup M /\ M \subseteq DOMAIN d
  BY DEF Fill, Missing
<1>4. \A p \in DOMAIN f : f[p] = IF p \in DOMAIN t THEN t[p] ELSE d[p]
  BY DEF Fill
<1>5. f \in [DOMAIN t \cup M -> Leaves \cup {Obj}]
  BY <1>1, <1>3 DEF Fill
<1>6. DOMAIN t \cup M \in SUBSET Paths
  BY <1>1, <1>3
<1>7. Rooted(f)
  <2> SUFFICES ASSUME NEW p \in DOMAIN f, NEW q \in Paths, Above(q, p)
               PROVE  q \in DOMAIN f /\ f[q] = Obj
    BY DEF Rooted
  <2> HIDE DEF f
  <2>1. CASE p \in DOMAIN t
    BY <2>1, <1>2, <1>3, <1>4 DEF Rooted
  <2>2. CASE p \in M
    <3>1. q \in DOMAIN d /\ d[q] = Obj
      BY <2>2, <1>2, <1>3 DEF Rooted
    <3>2. CASE q \in DOMAIN t
      BY <2>2, <3>2, <1>3, <1>4 DEF Missing
    <3>3. CASE q \notin DOMAIN t
      <4>1. ASSUME NEW r \in DOMAIN t, Above(r, q) PROVE t[r] = Obj
        <5>1. Above(r, p)
          BY <4>1, <1>1, <1>3, <2>2, AboveTransitive, TreeAssumption
        <5> QED BY <5>1, <4>1, <2>2 DEF Missing
      <4>2. q \in M
        BY <4>1, <3>1, <3>3 DEF Missing
      <4> QED BY <4>2, <3>1, <3>3, <1>3, <1>4
    <3> QED BY <3>2, <3>3
  <2> QED BY <2>1, <2>2, <1>3
<1>8. f \in Trees
  BY <1>5, <1>6, <1>7 DEF Trees
<1>9. Complete(f, d)
  <2> SUFFICES ASSUME NEW p \in DOMAIN d, p \notin DOMAIN f
               PROVE  \E q \in DOMAIN f : Above(q, p) /\ f[q] # Obj
    BY DEF Complete
  <2> HIDE DEF f
  <2>1. PICK q \in DOMAIN t : Above(q, p) /\ t[q] # Obj
    BY <1>3 DEF Missing
  <2> QED BY <2>1, <1>3, <1>4
<1>10. Extends(f, t)
  <2> HIDE DEF f
  <2> QED BY <1>3, <1>4 DEF Extends
<1> QED BY <1>8, <1>9, <1>10

\* fillMissing answers FALSE only when the tree was complete already: skipping
\* the commit then loses nothing.
LEMMA NothingMissing ==
  ASSUME NEW t \in Trees, NEW d \in Trees, Missing(t, d) = {}
  PROVE  Fill(t, d) = t
<1>1. \E S \in SUBSET Paths : t \in [S -> Leaves \cup {Obj}]
  BY DEF Trees
<1>2. t = [p \in DOMAIN t |-> t[p]]
  BY <1>1
<1>3. Fill(t, d) = [p \in DOMAIN t |-> t[p]]
  BY DEF Fill
<1> QED BY <1>2, <1>3

\* It answers TRUE only when it changed the tree: the commit is not for nothing.
LEMMA SomethingMissing ==
  ASSUME NEW t, NEW d, Missing(t, d) # {}
  PROVE  Fill(t, d) # t
<1>1. PICK p \in Missing(t, d) : p \notin DOMAIN t
  BY DEF Missing
<1>2. p \in DOMAIN Fill(t, d)
  BY DEF Fill
<1> QED BY <1>1, <1>2

-------------------------------------------------------------------------------
\* Which locals are in scope where, and whose configuration is worked on.
ScopeInv ==
  /\ pc # "idle" => (sealed <=> op = "sync")
  /\ pc \in {"repair", "commit"} => op = "sync"
  /\ (pc # "idle" /\ op = "sync") => working \in Configs /\ cfg.version = start
  /\ pc \in {"idle", "migrate", "step", "callback"} => ~flag

\* What create has checked stays true.
SealInv == sealed => EdgesAdjacent /\ ChainComplete

\* The walk is between the versions it came from and the one it goes to.
WalkInv ==
  /\ (sealed /\ pc # "idle") => target \in catalog /\ config.version \in catalog
  /\ (sealed /\ pc # "idle") \/ pc \in {"step", "callback"} => config.version <= target
  /\ pc # "idle" => start <= config.version
  /\ pc \in {"step", "callback"} => target \in catalog
  /\ pc = "migrate" => config.version = start /\ visited = {}
  /\ pc = "callback" => /\ config.version < next /\ next <= target /\ next \in catalog
                        /\ \A v \in known : ~(config.version < v /\ v < next)
  /\ known \subseteq catalog
  /\ pc \in {"repair", "commit"} => working.version = target

\* What the commit is about to do.
CommitInv ==
  /\ (pc \in {"repair", "commit"} /\ ~flag) => working = cfg
  /\ (pc = "repair" /\ flag) => working.version # cfg.version
  /\ (pc = "commit" /\ flag) => working # cfg
  /\ pc = "commit" => Complete(working.model, Defaults[target])
  /\ (pc # "idle" /\ op = "sync" /\ start = target) =>
        pc \in {"repair", "commit"} /\ Extends(working.model, cfg.model)

Inv == /\ TypeOK /\ ScopeInv /\ SealInv /\ WalkInv /\ CommitInv
       /\ WalkSkipsNothing /\ VersionIsLastStep /\ InSyncIsComplete

LEMMA InitInv == Init => Inv
BY RuntimeAssumption
   DEF Init, Inv, TypeOK, ScopeInv, SealInv, WalkInv, CommitInv,
       Migrating, WalkSkipsNothing, VersionIsLastStep, InSyncIsComplete, Results

\* A configuration that no call has made.
LEMMA ForgetInv ==
  ASSUME Inv, pc = "idle", NEW c \in Configs, cfg' = c, Forget(c.version), result' = "ok",
         UNCHANGED <<catalog, edges, sealed, call>>
  PROVE  Inv'
<1> USE RuntimeAssumption DEF Inv, Forget, call
<1>1. c.version \in Versions /\ c.version \in Nat
  BY DEF Configs
<1>2. TypeOK'
  BY <1>1 DEF TypeOK, Results
<1>3. SealInv'
  BY DEF SealInv, EdgesAdjacent, ChainComplete, IsNext
<1>4. ScopeInv' /\ WalkInv' /\ CommitInv'
  BY DEF ScopeInv, WalkInv, CommitInv
<1>5. op = "direct" => config' = c
  BY DEF config
<1>6. WalkSkipsNothing' /\ VersionIsLastStep'
  BY <1>5 DEF Migrating, WalkSkipsNothing, VersionIsLastStep
<1>7. InSyncIsComplete'
  BY DEF InSyncIsComplete
<1> QED BY <1>2, <1>3, <1>4, <1>6, <1>7

\* What the actions of the application do to the invariant.
LEMMA ApplicationInv == Inv /\ Application => Inv'
<1> SUFFICES ASSUME Inv, Application PROVE Inv'
  OBVIOUS
<1> USE RuntimeAssumption DEF Inv
<1>1. ASSUME NEW v \in Versions, NEW empty \in BOOLEAN, RegisterVersion(v, empty)
      PROVE  Inv'
  BY <1>1 DEF RegisterVersion, Open, call, history, config, TypeOK, Results, FactoryErrors,
     Statuses, ScopeInv, SealInv, WalkInv, CommitInv, Migrating, WalkSkipsNothing, VersionIsLastStep,
     InSyncIsComplete
<1>2. ASSUME NEW e \in Pairs, NEW empty \in BOOLEAN, RegisterMigration(e, empty)
      PROVE  Inv'
  BY <1>2 DEF RegisterMigration, Open, call, history, config, TypeOK, Results, FactoryErrors,
     Statuses, ScopeInv, SealInv, WalkInv, CommitInv, Migrating, WalkSkipsNothing, VersionIsLastStep,
     InSyncIsComplete
<1>3. CASE Create
  BY <1>3 DEF Create, EdgesAdjacent, ChainComplete, IsNext, call, history, config, TypeOK, Results, FactoryErrors,
     Statuses, ScopeInv, SealInv, WalkInv, CommitInv, Migrating, WalkSkipsNothing, VersionIsLastStep,
     InSyncIsComplete
<1>4. ASSUME NEW v \in Versions, NEW e \in FactoryErrors \cup {"ok"}, CreateDefault(v, e)
      PROVE  Inv'
  <2>1. CASE v \in catalog /\ e = "ok"
    <3>1. [version |-> v, model |-> Defaults[v]] \in Configs
      BY DEF Configs
    <3> QED BY <1>4, <2>1, <3>1, ForgetInv DEF CreateDefault
  <2>2. CASE UNCHANGED <<cfg, history>>
    BY <1>4, <2>2 DEF CreateDefault, EdgesAdjacent, ChainComplete, IsNext, call, history, config,
       TypeOK, Results, FactoryErrors, Statuses, ScopeInv, SealInv, WalkInv, CommitInv, Migrating,
       WalkSkipsNothing, VersionIsLastStep, InSyncIsComplete
  <2> QED BY <1>4, <2>1, <2>2 DEF CreateDefault
<1>5. ASSUME NEW c \in Configs, Load(c)
      PROVE  Inv'
  BY <1>5, ForgetInv DEF Load
<1>6. ASSUME NEW v \in Versions, Migrate(v)
      PROVE  Inv'
  <2> USE <1>6 DEF Migrate, Enter, Configs
  <2>1. /\ cfg.version \in Versions /\ cfg.version \in Nat
        /\ start' = cfg.version /\ known' = catalog /\ visited' = {}
        /\ \A w \in catalog : ~(cfg.version < w /\ w <= cfg.version)
    BY DEF TypeOK
  <2>2. TypeOK'
    BY <2>1 DEF TypeOK
  <2>3. SealInv'
    BY DEF SealInv, EdgesAdjacent, ChainComplete, IsNext
  <2>4. config'.version = cfg.version /\ cfg.version <= cfg.version
    <3>1. config' = cfg
      BY DEF config
    <3> QED BY <2>1, <3>1
  <2>5. /\ ScopeInv'
        /\ WalkInv'
        /\ CommitInv'
    <3>1. ScopeInv'
      BY <2>1, <2>4 DEF ScopeInv
    <3>2. WalkInv'
      BY <2>1, <2>4 DEF WalkInv
    <3>3. CommitInv'
      BY <2>1, <2>4 DEF CommitInv
    <3> QED BY <3>1, <3>2, <3>3
  <2>6. WalkSkipsNothing' /\ VersionIsLastStep' /\ InSyncIsComplete'
    BY <2>1, <2>4 DEF Migrating, WalkSkipsNothing, VersionIsLastStep, InSyncIsComplete, TypeOK
  <2> QED BY <2>2, <2>3, <2>5, <2>6
<1>7. ASSUME NEW v \in Versions, Synchronize(v)
      PROVE  Inv'
  <2>1. SealInv'
    BY <1>7 DEF Synchronize, SealInv, EdgesAdjacent, ChainComplete, IsNext
  <2>2. CASE UNCHANGED <<call, history>>
    BY <1>7, <2>1, <2>2 DEF Synchronize, call, history, config, TypeOK, Results,
       FactoryErrors, Statuses, ScopeInv, WalkInv, CommitInv, Migrating, WalkSkipsNothing,
       VersionIsLastStep, InSyncIsComplete
  <2>3. CASE /\ v \in catalog
             /\ cfg.version = v \/ (cfg.version < v /\ cfg.version \in catalog)
             /\ Enter("sync", v)
             /\ working' = cfg
             /\ pc' = IF cfg.version = v THEN "repair" ELSE "migrate"
             /\ UNCHANGED <<flag, result>>
    <3>1. cfg.version \in Versions /\ v \in Nat /\ cfg.version \in Nat
      BY DEF TypeOK, Configs
    <3>2. /\ config' = cfg /\ start' = cfg.version /\ known' = catalog /\ visited' = {}
          /\ target' = v /\ next' = v /\ op' = "sync" /\ sealed'
          /\ UNCHANGED <<catalog, edges, cfg>>
      BY <1>7, <2>3 DEF Enter, config, Synchronize
    <3>3. TypeOK'
      BY <1>7, <2>3, <3>1, <3>2 DEF TypeOK, Enter, Synchronize
    <3>4. ScopeInv'
      BY <1>7, <2>3, <3>1, <3>2 DEF TypeOK, ScopeInv, Synchronize, CommitInv
    <3>5. WalkInv'
      BY <2>3, <3>1, <3>2 DEF WalkInv
    <3>6. Extends(cfg.model, cfg.model)
      BY DEF Extends
    <3>7. CommitInv'
      <4>1. ~flag' /\ working' = cfg /\ pc' \in {"repair", "migrate"}
        BY <1>7, <2>3 DEF Synchronize, ScopeInv
      <4>2. start' = target' => pc' = "repair"
        BY <2>3, <3>2
      <4> QED BY <3>2, <3>6, <4>1, <4>2 DEF CommitInv
    <3>8. WalkSkipsNothing' /\ VersionIsLastStep' /\ InSyncIsComplete'
      <4>1. {w \in catalog : cfg.version < w /\ w <= cfg.version} = {}
        <5>1. ASSUME NEW w \in catalog PROVE ~(cfg.version < w /\ w <= cfg.version)
          <6>1. w \in Nat
            BY DEF TypeOK
          <6> QED BY <3>1, <6>1
        <5> QED BY <5>1
      <4>2. WalkSkipsNothing'
        BY <2>3, <3>2, <4>1 DEF Migrating, WalkSkipsNothing
      <4>3. VersionIsLastStep'
        BY <2>3, <3>2 DEF Migrating, VersionIsLastStep
      <4>4. InSyncIsComplete'
        BY <2>3, <3>2 DEF InSyncIsComplete
      <4> QED BY <4>2, <4>3, <4>4
    <3> QED BY <2>1, <3>3, <3>4, <3>5, <3>7, <3>8
  <2> QED BY <1>7, <2>2, <2>3 DEF Synchronize
<1>8. CASE SynchronizeLatest
  BY <1>7, <1>8 DEF SynchronizeLatest, TypeOK
<1> QED BY <1>1, <1>2, <1>3, <1>4, <1>5, <1>6, <1>7, <1>8 DEF Application

\* A call that returns leaves nothing of itself behind but its answer.
LEMMA ReturnInv ==
  ASSUME Inv, pc # "idle", NEW r \in Results, Return(r), cfg' \in Configs,
         UNCHANGED <<catalog, edges, sealed>>,
         op = "direct" => cfg'.version = cfg.version,
         (sealed /\ r = "InSync") =>
            cfg'.version = target /\ Complete(cfg'.model, Defaults[target])
  PROVE  Inv'
<1>1. SealInv'
  BY DEF Inv, SealInv, EdgesAdjacent, ChainComplete, IsNext
<1>2. TypeOK'
  BY DEF Inv, TypeOK, Return, history
<1>3. ScopeInv' /\ WalkInv' /\ CommitInv'
  BY DEF Return, history, Inv, ScopeInv, WalkInv, CommitInv
<1>4. op = "direct" => config' = cfg' /\ config = cfg
  BY DEF Return, config
<1>5. WalkSkipsNothing' /\ VersionIsLastStep'
  BY <1>4 DEF Return, history, Inv, Migrating, WalkSkipsNothing, VersionIsLastStep
<1>6. InSyncIsComplete'
  BY DEF Return, InSyncIsComplete
<1> QED BY <1>1, <1>2, <1>3, <1>5, <1>6 DEF Inv

\* What the library's own steps do to the invariant.
LEMMA StepInv == Inv /\ Step => Inv'
<1> SUFFICES ASSUME Inv, Step PROVE Inv'
  OBVIOUS
<1> USE RuntimeAssumption
<1>1. /\ cfg \in Configs /\ cfg.version \in Nat /\ cfg.version \in Versions
      /\ target \in Nat /\ next \in Nat /\ start \in Nat
      /\ catalog \subseteq Nat /\ visited \subseteq Nat
  BY DEF Inv, TypeOK, Configs
<1>2. pc # "idle" => config \in Configs /\ config.version \in Nat
  BY <1>1 DEF Inv, ScopeInv, TypeOK, config, Configs
<1>3. ASSUME UNCHANGED <<catalog, edges, sealed>> PROVE SealInv'
  BY <1>3 DEF Inv, SealInv, EdgesAdjacent, ChainComplete, IsNext
<1>4. CASE MigrateReject
  BY <1>1, <1>4, ReturnInv DEF MigrateReject, Results
<1>5. CASE StepUnknown
  BY <1>1, <1>5, ReturnInv DEF StepUnknown, Results
<1>6. CASE StepMissing
  BY <1>1, <1>6, ReturnInv DEF StepMissing, Results
<1>7. ASSUME NEW t \in Trees, StepFailed(t)
      PROVE  Inv'
  BY <1>1, <1>7, ReturnInv DEF StepFailed, Results, FactoryErrors, Configs
<1>8. ASSUME NEW t \in Trees, BadAlloc(t)
      PROVE  Inv'
  BY <1>1, <1>8, ReturnInv DEF BadAlloc, Results, Configs
<1>9. ASSUME NEW e \in FactoryErrors, RepairFail(e)
      PROVE  Inv'
  BY <1>1, <1>9, ReturnInv DEF RepairFail, Results, FactoryErrors
<1>10. CASE Commit
  <2>1. /\ op = "sync" /\ working \in Configs /\ working.version = target
        /\ Complete(working.model, Defaults[target])
        /\ ~flag => working = cfg
    BY <1>10 DEF Commit, Inv, ScopeInv, WalkInv, CommitInv
  <2> QED BY <1>1, <1>10, <2>1, ReturnInv DEF Commit, Results, Statuses
<1>11. CASE MigrateDone
  <2>1. CASE op = "direct"
    BY <1>1, <1>11, <2>1, ReturnInv DEF MigrateDone, Results
  <2>2. CASE op = "sync"
    <3> USE <1>11, <2>2 DEF MigrateDone, history
    <3>1. config' = config /\ config = working /\ config.version = target
      BY <1>1, <1>2 DEF config, Inv, WalkInv
    <3>2. TypeOK' /\ ScopeInv'
      BY DEF Inv, TypeOK, ScopeInv
    <3>3. WalkInv'
      BY <3>1 DEF Inv, ScopeInv, WalkInv
    <3>4. working.version # cfg.version
      BY <3>1 DEF Inv, ScopeInv, CommitInv
    <3>5. CommitInv'
      BY <3>4 DEF Inv, CommitInv
    <3>6. WalkSkipsNothing' /\ VersionIsLastStep' /\ InSyncIsComplete'
      BY <3>1 DEF history, Inv, Migrating, WalkSkipsNothing, VersionIsLastStep, InSyncIsComplete
    <3> QED BY <1>3, <3>2, <3>3, <3>5, <3>6 DEF Inv
  <2> QED BY <2>1, <2>2 DEF Inv, TypeOK
<1>12. CASE MigrateLoop
  <2> USE <1>12 DEF MigrateLoop
  <2>1. config' = config
    BY DEF config
  <2>2. TypeOK' /\ ScopeInv'
    BY DEF history, Inv, TypeOK, ScopeInv
  <2>3. WalkInv'
    BY <2>1 DEF history, Inv, WalkInv
  <2>4. CommitInv'
    BY DEF history, Inv, CommitInv
  <2>5. WalkSkipsNothing' /\ VersionIsLastStep' /\ InSyncIsComplete'
    BY <2>1 DEF history, Inv, Migrating, WalkSkipsNothing, VersionIsLastStep, InSyncIsComplete
  <2> QED BY <1>3, <2>2, <2>3, <2>4, <2>5 DEF Inv
<1>13. ASSUME NEW w \in Versions, StepCall(w)
       PROVE  Inv'
  <2> USE <1>13 DEF StepCall
  <2>1. config' = config
    BY DEF config
  <2>2. TypeOK' /\ ScopeInv'
    BY DEF history, Inv, TypeOK, ScopeInv
  <2>3. w <= target /\ config.version < w /\ w \in catalog
    BY <1>1, <1>2 DEF Inv, WalkInv, IsNext
  <2>4. WalkInv'
    BY <1>1, <1>2, <2>1, <2>3 DEF history, Inv, WalkInv, IsNext
  <2>5. CommitInv'
    BY DEF history, Inv, CommitInv
  <2>6. WalkSkipsNothing' /\ VersionIsLastStep' /\ InSyncIsComplete'
    BY <2>1 DEF history, Inv, Migrating, WalkSkipsNothing, VersionIsLastStep, InSyncIsComplete
  <2> QED BY <1>3, <2>2, <2>4, <2>5, <2>6 DEF Inv
<1>14. ASSUME NEW t \in Trees, StepApplied(t)
       PROVE  Inv'
  <2> DEFINE c == [version |-> next, model |-> t]
  <2>1. /\ pc = "callback" /\ pc' = "step" /\ visited' = visited \cup {next}
        /\ UNCHANGED <<catalog, edges, sealed, op, target, next, flag, result, start, known>>
        /\ config' = c
    BY <1>14 DEF StepApplied, SetConfig, config, Inv, TypeOK
  <2>2. c \in Configs /\ config'.version = next
    BY <2>1 DEF Inv, TypeOK, Configs
  <2>3. TypeOK'
    BY <1>14, <2>1, <2>2 DEF StepApplied, SetConfig, Inv, TypeOK
  <2>4. ScopeInv'
    BY <1>14, <2>1, <2>2 DEF StepApplied, SetConfig, Inv, ScopeInv, TypeOK
  <2>5. /\ config.version < next /\ next <= target /\ next \in catalog
        /\ start <= config.version /\ target \in catalog
        /\ \A v \in known : ~(config.version < v /\ v < next)
        /\ known \subseteq catalog /\ config.version \in Nat
    BY <1>2, <2>1 DEF Inv, WalkInv
  <2>6. WalkInv'
    BY <1>1, <2>1, <2>2, <2>5 DEF WalkInv
  <2>7. start # target
    BY <1>1, <2>5
  <2>8. CommitInv'
    BY <2>1, <2>7 DEF CommitInv
  <2>9. WalkSkipsNothing'
    <3>1. /\ {v \in known : start < v /\ v <= config.version} \subseteq visited
          /\ visited \subseteq {v \in catalog : start < v /\ v <= config.version}
      BY <2>1 DEF Inv, Migrating, WalkSkipsNothing
    <3>2. ASSUME NEW v \in known, start < v, v <= next PROVE v \in visited \cup {next}
      <4>1. v \in Nat
        BY <1>1, <2>5
      <4>2. v <= config.version \/ v = next
        BY <1>1, <2>5, <3>2, <4>1
      <4> QED BY <3>1, <3>2, <4>2
    <3>3. ASSUME NEW v \in visited \cup {next} PROVE v \in catalog /\ start < v /\ v <= next
      BY <1>1, <2>5, <3>1
    <3> QED BY <2>1, <2>2, <3>2, <3>3 DEF WalkSkipsNothing
  <2>10. VersionIsLastStep'
    <3>1. \A v \in visited : start < v /\ v <= config.version /\ v <= target
      BY <2>1 DEF Inv, Migrating, VersionIsLastStep
    <3>2. \A v \in visited \cup {next} : start < v /\ v <= next /\ v <= target
      BY <1>1, <2>5, <3>1
    <3> QED BY <2>1, <2>2, <3>2 DEF Migrating, VersionIsLastStep
  <2>11. InSyncIsComplete'
    BY <2>1 DEF InSyncIsComplete
  <2> QED BY <1>3, <2>1, <2>3, <2>4, <2>6, <2>8, <2>9, <2>10, <2>11 DEF Inv
<1>15. CASE Repair
  <2> DEFINE m == working.model
             d == Defaults[target]
  <2>1. op = "sync" /\ working \in Configs /\ m \in Trees /\ d \in Trees
        /\ working.version = target
    BY <1>15 DEF Repair, Inv, ScopeInv, WalkInv, TypeOK, Configs
  <2>2. Fill(m, d) \in Trees /\ Complete(Fill(m, d), d) /\ Extends(Fill(m, d), m)
    BY <2>1, FillTree
  <2>3. /\ working' \in Configs /\ working'.version = working.version
        /\ working'.model = Fill(m, d)
    BY <1>15, <2>1, <2>2 DEF Repair, Configs
  <2>4. /\ pc = "repair" /\ pc' = "commit"
        /\ flag' = (flag \/ Missing(m, d) # {})
        /\ UNCHANGED <<catalog, edges, sealed, cfg, op, target, next, result, start, known, visited>>
    BY <1>15 DEF Repair, history
  <2>5. config = working /\ config' = working'
    BY <2>1, <2>4 DEF config
  <2>6. TypeOK'
    BY <2>3, <2>4 DEF Inv, TypeOK
  <2>7. ScopeInv'
    BY <2>3, <2>4 DEF Inv, ScopeInv
  <2>8. WalkInv'
    BY <2>1, <2>3, <2>4, <2>5 DEF Inv, WalkInv
  <2>9. ~flag' => working' = cfg
    <3> SUFFICES ASSUME ~flag' PROVE working' = cfg
      OBVIOUS
    <3>1. ~flag /\ Missing(m, d) = {}
      BY <2>4
    <3>2. working = cfg
      BY <2>4, <3>1 DEF Inv, CommitInv
    <3>3. Fill(m, d) = m
      BY <2>1, <3>1, NothingMissing
    <3> QED BY <1>15, <2>1, <3>2, <3>3 DEF Repair, Configs
  <2>10. start = target => Extends(working'.model, cfg.model)
    <3> SUFFICES ASSUME start = target PROVE Extends(working'.model, cfg.model)
      OBVIOUS
    <3>1. Extends(m, cfg.model)
      BY <2>1, <2>4 DEF Inv, CommitInv
    <3> QED BY <2>2, <2>3, <3>1 DEF Extends
  <2>11. flag' => working' # cfg
    <3>1. CASE flag
      BY <2>3, <2>4, <3>1 DEF Inv, CommitInv
    <3>2. CASE ~flag /\ Missing(m, d) # {}
      <4>1. working = cfg
        BY <2>4, <3>2 DEF Inv, CommitInv
      <4> QED BY <2>3, <3>2, <4>1, SomethingMissing
    <3> QED BY <2>4, <3>1, <3>2
  <2>12. CommitInv'
    BY <2>2, <2>3, <2>4, <2>9, <2>10, <2>11 DEF CommitInv
  <2>13. WalkSkipsNothing' /\ VersionIsLastStep'
    BY <2>3, <2>4, <2>5 DEF Inv, Migrating, WalkSkipsNothing, VersionIsLastStep
  <2>14. InSyncIsComplete'
    BY <2>4 DEF InSyncIsComplete
  <2> QED BY <1>3, <2>4, <2>6, <2>7, <2>8, <2>12, <2>13, <2>14 DEF Inv
<1> QED BY <1>4, <1>5, <1>6, <1>7, <1>8, <1>9, <1>10, <1>11, <1>12, <1>13, <1>14, <1>15
        DEF Step

LEMMA StutterInv == Inv /\ UNCHANGED vars => Inv'
BY DEF vars, call, history, Inv, TypeOK, ScopeInv, SealInv, EdgesAdjacent, ChainComplete,
   IsNext, WalkInv, CommitInv, config, Migrating, WalkSkipsNothing, VersionIsLastStep, InSyncIsComplete

\* For every set of versions, migrations, trees and defaults: what the runs
\* check of the versions a call passes, of the version that a direct migrate
\* leaves behind when it fails, of what InSync means and of when synchronize commits.
THEOREM Safety ==
  Spec => [](/\ TypeOK /\ InSyncIsComplete /\ NeverStuckMidChain
             /\ WalkSkipsNothing /\ VersionIsLastStep /\ CommitIsNeeded)
<1>1. Inv => NeverStuckMidChain
  BY DEF Inv, WalkInv, SealInv, ChainComplete, NeverStuckMidChain, IsNext
<1>2. Inv => CommitIsNeeded
  BY DEF Inv, CommitInv, CommitIsNeeded
<1>3. Inv => TypeOK /\ InSyncIsComplete /\ WalkSkipsNothing /\ VersionIsLastStep
  BY DEF Inv
<1>4. Inv /\ [Next]_vars => Inv'
  BY ApplicationInv, StepInv, StutterInv DEF Next
<1> QED BY InitInv, <1>1, <1>2, <1>3, <1>4, PTL DEF Spec

\* synchronize is transactional: the caller's configuration changes only in
\* the step that returns InSync, to a complete one at the supported version.
THEOREM Transactional == Spec => SyncIsTransactional
<1> DEFINE A == (sealed /\ pc # "idle" /\ cfg' # cfg) =>
                  /\ result' = "InSync" /\ pc' = "idle"
                  /\ cfg'.version = target
                  /\ Complete(cfg'.model, Defaults[target])
<1>1. Inv /\ [Next]_vars => [A]_vars
  <2> SUFFICES ASSUME Inv, Next, sealed, pc # "idle", cfg' # cfg
               PROVE  /\ result' = "InSync" /\ pc' = "idle"
                      /\ cfg'.version = target
                      /\ Complete(cfg'.model, Defaults[target])
    BY DEF vars
  <2>1. op = "sync"
    BY DEF Inv, ScopeInv
  <2>2. ~Application
    BY DEF Application, RegisterVersion, RegisterMigration, Create, CreateDefault, Load,
       Migrate, Synchronize, SynchronizeLatest
  <2>3. Commit
    BY <2>1, <2>2 DEF Next, Step, MigrateReject, MigrateLoop, StepUnknown, StepMissing,
       MigrateDone, StepCall, StepApplied, SetConfig, StepFailed, BadAlloc, RepairFail, Repair
  <2> QED BY <2>3 DEF Commit, Return, Inv, WalkInv, CommitInv
<1>2. Inv /\ [Next]_vars => Inv'
  BY ApplicationInv, StepInv, StutterInv DEF Next
<1> QED BY InitInv, <1>1, <1>2, PTL DEF Spec, SyncIsTransactional

\* Repairing a configuration that is at the supported version already keeps
\* all of what it says.
THEOREM OnlyAdds == Spec => RepairOnlyAdds
<1> DEFINE A == (op = "sync" /\ pc # "idle" /\ start = target /\ cfg' # cfg) =>
                  Extends(cfg'.model, cfg.model)
<1>1. Inv /\ [Next]_vars => [A]_vars
  <2> SUFFICES ASSUME Inv, Next, op = "sync", pc # "idle", start = target, cfg' # cfg
               PROVE  Extends(cfg'.model, cfg.model)
    BY DEF vars
  <2>1. sealed
    BY DEF Inv, ScopeInv
  <2>2. ~Application
    BY <2>1 DEF Application, RegisterVersion, RegisterMigration, Open, Create, CreateDefault,
       Load, Migrate, Synchronize, SynchronizeLatest
  <2>3. Commit
    BY <2>2 DEF Next, Step, MigrateReject, MigrateLoop, StepUnknown, StepMissing,
       MigrateDone, StepCall, StepApplied, SetConfig, StepFailed, BadAlloc, RepairFail, Repair
  <2> QED BY <2>3 DEF Commit, Inv, CommitInv
<1>2. Inv /\ [Next]_vars => Inv'
  BY ApplicationInv, StepInv, StutterInv DEF Next
<1> QED BY InitInv, <1>1, <1>2, PTL DEF Spec, RepairOnlyAdds
===============================================================================
