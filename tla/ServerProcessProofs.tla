------------------------ MODULE ServerProcessProofs -------------------------
(***************************************************************************)
(* Theorems about ServerProcess.tla for every number of overlapping calls  *)
(* and every set of environments.                                          *)
(***************************************************************************)
EXTENDS ServerProcess, FiniteSetTheorems, TLAPS

Opening == {c \in Calls : call[c].pc = "opening"}

(* What a call may work with under configuration cfg, with n pools open.   *)
Usable(d, cfg, n) ==
    /\ d \in DepsType /\ d # NoDeps /\ d.pool \in 1..n
    /\ d.finders \cup d.verifiers = cfg.tiers
    /\ d.fallback = cfg.fallback

Fits(k, cfg, n) ==
    k.pc = "working" =>
        \/ k.tool = "lead" /\ k.pool \in 1..n
        \/ Usable(k.deps, cfg, n) /\ (k.tool = "verify" => k.deps.verifiers # {})

(* The pool is the last one opened; chains are built once each has a pool; *)
(* a pool that is still being opened was asked for when there was none.    *)
ProcessInv ==
    /\ config \in ConfigType \cup {NoConfig}
    /\ served \in Modes \cup {"bearer", "authless", "none"}
    /\ config # NoConfig => served = Auth(config) /\ served # "none"
    /\ opened \in Nat /\ chains \in Nat /\ pool = opened
    /\ built \in BOOLEAN
    /\ built => Usable(deps, config, opened)
    /\ ~built => deps = NoDeps /\ chains = 0
    /\ call \in [Calls -> CallType]
    /\ \A c \in Calls : Fits(call[c], config, opened)
    /\ config = NoConfig => ~built /\ \A c \in Calls : call[c].pc = "idle"
    /\ \A c \in Calls : call[c].pc = "opening" => call[c].tool \in Tools
    /\ chains <= opened
    /\ opened + Cardinality(Opening) <= Cardinality(Calls)

LEMMA Sizes ==
    /\ Cardinality(Calls) \in Nat
    /\ \A S \in SUBSET Calls :
          /\ IsFiniteSet(S)
          /\ Cardinality(S) \in Nat /\ Cardinality(S) <= Cardinality(Calls)
BY ProcessAssumption, FS_Subset, FS_CardinalityType

LEMMA ConfigShape ==
    ASSUME NEW cfg \in ConfigType
    PROVE  /\ cfg # NoConfig
           /\ cfg.tiers \subseteq Finders \cup Verifiers
           /\ cfg.fallback \in BOOLEAN
<1>1. PICK e \in Envs : cfg = Loaded(e)
  BY DEF ConfigType
<1>2. e \in EnvType
  BY ProcessAssumption
<1>3. cfg.up = TRUE /\ NoConfig.up = FALSE
  BY <1>1 DEF Loaded, NoConfig
<1> QED BY <1>1, <1>2, <1>3 DEF Loaded, EnvType

(* The chains built with a pool that is open are usable.                   *)
LEMMA ChainedUsable ==
    ASSUME config \in ConfigType, chains \in Nat, NEW n \in Nat, NEW p \in 1..n
    PROVE  Usable(Chained(p), config, n)
<1>1. config.tiers \subseteq Finders \cup Verifiers /\ config.fallback \in BOOLEAN
  BY ConfigShape
<1>2. Chained(p) \in DepsType
  BY <1>1 DEF Chained, DepsType
<1>3. Chained(p).id # NoDeps.id
  BY DEF Chained, NoDeps
<1>4. /\ Chained(p).pool = p /\ Chained(p).fallback = config.fallback
      /\ Chained(p).finders = config.tiers \cap Finders
      /\ Chained(p).verifiers = config.tiers \cap Verifiers
  BY DEF Chained
<1> QED BY <1>1, <1>2, <1>3, <1>4 DEF Usable

(* What a call becomes when it has its chains.                             *)
Worker(tool, d) ==
    IF tool = "verify" /\ d.verifiers = {} THEN NoCall
    ELSE [NoCall EXCEPT !.pc = "working", !.tool = tool, !.deps = d]

LEMMA WorkerFits ==
    ASSUME NEW tool \in Tools, NEW d, NEW n \in Nat, NEW cfg, Usable(d, cfg, n)
    PROVE  /\ Worker(tool, d) \in CallType
           /\ Fits(Worker(tool, d), cfg, n)
           /\ Worker(tool, d).pc # "opening"
<1>1. d \in DepsType
  BY DEF Usable
<1>2. CASE tool = "verify" /\ d.verifiers = {}
  BY <1>2 DEF Worker, NoCall, CallType, Fits
<1>3. CASE ~(tool = "verify" /\ d.verifiers = {})
  <2>1. Worker(tool, d) = [pc |-> "working", tool |-> tool, pool |-> 0, deps |-> d]
    BY <1>3 DEF Worker, NoCall
  <2> QED BY <1>1, <1>3, <2>1 DEF CallType, Fits
<1> QED BY <1>2, <1>3

LEMMA LeadFits ==
    ASSUME NEW n \in Nat, n > 0, NEW cfg,
           NEW k, k = [NoCall EXCEPT !.pc = "working", !.tool = "lead", !.pool = n]
    PROVE  k \in CallType /\ Fits(k, cfg, n) /\ k.pc # "opening"
<1>1. k = [pc |-> "working", tool |-> "lead", pool |-> n, deps |-> NoDeps]
  BY DEF NoCall
<1>2. k \in CallType
  BY <1>1 DEF CallType, Tools
<1>3. n \in 1..n
  OBVIOUS
<1> QED BY <1>1, <1>2, <1>3 DEF Fits

LEMMA OpeningFits ==
    ASSUME NEW tool \in Tools, NEW n, NEW cfg,
           NEW k, k = [NoCall EXCEPT !.pc = "opening", !.tool = tool]
    PROVE  k \in CallType /\ Fits(k, cfg, n) /\ k.tool = tool
<1>1. k = [pc |-> "opening", tool |-> tool, pool |-> 0, deps |-> NoDeps]
  BY DEF NoCall
<1> QED BY <1>1 DEF CallType, Fits

(* A longer list of pools spoils nothing.                                  *)
LEMMA FitsMore ==
    ASSUME NEW k, NEW cfg, NEW n \in Nat, Fits(k, cfg, n)
    PROVE  Fits(k, cfg, n + 1)
BY DEF Fits, Usable

(* A step in which call c becomes k and nothing else of the calls changes. *)
LEMMA Replaces ==
    ASSUME ProcessInv, NEW c \in Calls, NEW k \in CallType,
           Becomes(c, k), config' = config, opened' \in {opened, opened + 1},
           Fits(k, config, opened'), k.pc # "opening"
    PROVE  /\ call' \in [Calls -> CallType]
           /\ \A d \in Calls : Fits(call'[d], config, opened')
           /\ \A d \in Calls : call'[d].pc = "opening" => call'[d].tool \in Tools
           /\ Opening' = Opening \ {c}
           /\ Cardinality(Opening') <= Cardinality(Opening)
           /\ c \in Opening => Cardinality(Opening') = Cardinality(Opening) - 1
<1>1. call \in [Calls -> CallType] /\ call' = [call EXCEPT ![c] = k]
  BY DEF ProcessInv, Becomes
<1>2. ASSUME NEW d \in Calls PROVE Fits(call'[d], config, opened')
  BY <1>1, FitsMore DEF ProcessInv
<1>3. Opening' = Opening \ {c}
  BY <1>1 DEF Opening
<1>4. IsFiniteSet(Opening) /\ Opening \in SUBSET Calls
  BY Sizes DEF Opening
<1>5. Cardinality(Opening') <= Cardinality(Opening)
  BY <1>3, <1>4, FS_Subset
<1>6. c \in Opening => Cardinality(Opening') = Cardinality(Opening) - 1
  BY <1>3, <1>4, FS_RemoveElement
<1> QED BY <1>1, <1>2, <1>3, <1>5, <1>6 DEF ProcessInv

(* A call that has its pool, old or just opened.                           *)
LEMMA GotPoolKeepsInv ==
    ASSUME ProcessInv, config \in ConfigType, NEW c \in Calls, NEW tool \in Tools,
           NEW n \in Nat, n > 0, GotPool(c, tool, n),
           UNCHANGED <<config, served>>, opened' = n, pool' = n,
           \/ n = opened /\ (tool = "lead" \/ ~built) /\ call[c].pc = "idle"
           \/ n = opened + 1 /\ call[c].pc = "opening"
    PROVE  ProcessInv'
<1> DEFINE k == IF tool = "lead"
                THEN [NoCall EXCEPT !.pc = "working", !.tool = tool, !.pool = n]
                ELSE Worker(tool, Chained(n))
<1>1. opened \in Nat /\ chains \in Nat /\ n \in 1..n /\ opened' \in {opened, opened + 1}
  BY DEF ProcessInv
<1>2. Usable(Chained(n), config, n)
  BY <1>1, ChainedUsable
<1>3. k \in CallType /\ Fits(k, config, n) /\ k.pc # "opening"
  <2>1. CASE tool = "lead"
    <3>1. k = [NoCall EXCEPT !.pc = "working", !.tool = "lead", !.pool = n]
      BY <2>1
    <3> QED BY <3>1, LeadFits
  <2>2. CASE tool # "lead"
    BY <1>2, <2>2, WorkerFits
  <2> QED BY <2>1, <2>2
<1>4. Becomes(c, k)
  BY DEF GotPool, Works, Worker
<1> HIDE DEF k
<1>5. /\ call' \in [Calls -> CallType]
      /\ \A d \in Calls : Fits(call'[d], config, opened')
      /\ \A d \in Calls : call'[d].pc = "opening" => call'[d].tool \in Tools
      /\ Cardinality(Opening') <= Cardinality(Opening)
      /\ c \in Opening => Cardinality(Opening') = Cardinality(Opening) - 1
  BY <1>1, <1>3, <1>4, Replaces
<1>6. opened' + Cardinality(Opening') <= Cardinality(Calls)
  <2>1. Cardinality(Opening) \in Nat /\ Cardinality(Opening') \in Nat
    BY Sizes DEF Opening
  <2>2. opened + Cardinality(Opening) <= Cardinality(Calls) /\ Cardinality(Calls) \in Nat
    BY Sizes DEF ProcessInv
  <2>3. call[c].pc = "opening" => c \in Opening
    BY DEF Opening
  <2> QED BY <1>1, <1>5, <2>1, <2>2, <2>3
<1>7. CASE tool = "lead"
  <2>1. UNCHANGED <<deps, built, chains>>
    BY <1>7 DEF GotPool
  <2>2. built => Usable(deps, config, n)
    BY <1>1 DEF ProcessInv, Usable
  <2> QED BY <1>1, <1>5, <1>6, <2>1, <2>2, ConfigShape DEF ProcessInv
<1>8. CASE tool # "lead"
  <2>1. deps' = Chained(n) /\ built' = TRUE /\ chains' = chains + 1
    BY <1>8 DEF GotPool, Build
  <2>2. chains + 1 <= n
    BY <1>1, <1>8 DEF ProcessInv
  <2> QED BY <1>1, <1>2, <1>5, <1>6, <2>1, <2>2, ConfigShape DEF ProcessInv
<1> QED BY <1>7, <1>8

(* A call that ends, or goes on with chains that are there.                *)
LEMMA QuietKeepsInv ==
    ASSUME ProcessInv, config \in ConfigType, NEW c \in Calls, NEW k \in CallType,
           Becomes(c, k), UNCHANGED <<config, served, sharedVars>>,
           Fits(k, config, opened), k.pc # "opening"
    PROVE  ProcessInv'
<1>1. /\ UNCHANGED <<pool, deps, built, opened, chains>>
      /\ opened' \in {opened, opened + 1}
  BY DEF sharedVars
<1>2. /\ call' \in [Calls -> CallType]
      /\ \A d \in Calls : Fits(call'[d], config, opened')
      /\ \A d \in Calls : call'[d].pc = "opening" => call'[d].tool \in Tools
      /\ Cardinality(Opening') <= Cardinality(Opening)
  BY <1>1, Replaces
<1>3. opened' + Cardinality(Opening') <= Cardinality(Calls)
  <2>1. Cardinality(Opening) \in Nat /\ Cardinality(Opening') \in Nat
    BY Sizes DEF Opening
  <2> QED BY <1>1, <1>2, <2>1, Sizes DEF ProcessInv
<1> QED BY <1>1, <1>2, <1>3, ConfigShape DEF ProcessInv

LEMMA NoCallFits ==
    ASSUME NEW cfg, NEW n
    PROVE  NoCall \in CallType /\ Fits(NoCall, cfg, n) /\ NoCall.pc = "idle"
BY DEF NoCall, CallType, Fits

LEMMA InitProcessInv == Init => ProcessInv
<1> SUFFICES ASSUME Init PROVE ProcessInv
  OBVIOUS
<1>1. \A c \in Calls : call[c] = NoCall
  BY DEF Init
<1>2. Opening = {}
  BY <1>1 DEF Opening, NoCall
<1>3. Cardinality(Opening) = 0 /\ Cardinality(Calls) \in Nat
  BY <1>2, Sizes, FS_EmptySet
<1>4. call \in [Calls -> CallType]
  BY NoCallFits DEF Init
<1>5. \A c \in Calls : /\ Fits(call[c], config, opened)
                       /\ call[c].pc = "idle" /\ call[c].pc # "opening"
  BY <1>1, NoCallFits
<1>6. /\ opened \in Nat /\ chains \in Nat /\ chains = 0 /\ chains <= opened
      /\ opened + Cardinality(Opening) <= Cardinality(Calls)
  BY <1>3 DEF Init
<1>7. /\ config = NoConfig /\ served = "none" /\ pool = opened /\ deps = NoDeps
      /\ built \in BOOLEAN /\ ~built
  BY DEF Init
<1>8. \A c \in Calls : call[c].pc = "opening" => call[c].tool \in Tools
  BY <1>5
<1>9. config = NoConfig => ~built /\ \A c \in Calls : call[c].pc = "idle"
  BY <1>5, <1>7
<1> QED BY <1>4, <1>5, <1>6, <1>7, <1>8, <1>9 DEF ProcessInv

LEMMA NextProcessInv == ProcessInv /\ [Next]_vars => ProcessInv'
<1> SUFFICES ASSUME ProcessInv, [Next]_vars PROVE ProcessInv'
  OBVIOUS
<1>1. ASSUME NEW e \in Envs, Boot(e) PROVE ProcessInv'
  <2>1. config' \in ConfigType /\ config' # NoConfig
    BY <1>1, ConfigShape DEF Boot, ConfigType
  <2>2. served' \in Modes \cup {"bearer", "authless", "none"} /\ served' = Auth(config')
    BY <1>1 DEF Boot, Auth, Static, Modes
  <2>3. \A c \in Calls : call[c].pc = "idle" /\ call'[c] = call[c]
    BY <1>1 DEF Boot, ProcessInv
  <2>4. \A c \in Calls : Fits(call'[c], config', opened')
    BY <2>3 DEF Fits
  <2>5. UNCHANGED <<pool, deps, built, opened, chains, call>> /\ Opening' = Opening
    BY <1>1 DEF Boot, sharedVars, Opening
  <2>6. ~built
    BY <1>1 DEF Boot, ProcessInv
  <2>7. \A c \in Calls : call'[c].pc # "opening"
    BY <2>3
  <2>8. served' # "none"
    BY <1>1, <2>2 DEF Boot, Auth, Static, Modes
  <2> QED BY <2>1, <2>2, <2>4, <2>5, <2>6, <2>7, <2>8 DEF ProcessInv
<1>2. CASE Exit
  <2>1. \A c \in Calls : call'[c] = NoCall
    BY <1>2 DEF Exit
  <2>2. Opening' = {}
    BY <2>1 DEF Opening, NoCall
  <2>3. Cardinality(Opening') = 0 /\ Cardinality(Calls) \in Nat
    BY <2>2, Sizes, FS_EmptySet
  <2>4. call' \in [Calls -> CallType]
    BY <1>2, NoCallFits DEF Exit
  <2>5. \A c \in Calls : /\ Fits(call'[c], config', opened')
                         /\ call'[c].pc = "idle" /\ call'[c].pc # "opening"
    BY <2>1, NoCallFits
  <2>6. /\ opened' \in Nat /\ chains' \in Nat /\ chains' = 0 /\ chains' <= opened'
        /\ opened' + Cardinality(Opening') <= Cardinality(Calls)
    BY <1>2, <2>3 DEF Exit
  <2>7. /\ config' = NoConfig /\ served' = "none" /\ pool' = opened' /\ deps' = NoDeps
        /\ built' \in BOOLEAN /\ ~built'
    BY <1>2 DEF Exit
  <2>8. \A c \in Calls : call'[c].pc = "opening" => call'[c].tool \in Tools
    BY <2>5
  <2> QED BY <2>4, <2>5, <2>6, <2>7, <2>8 DEF ProcessInv
<1>3. ASSUME NEW c \in Calls, NEW tool \in Tools, Begin(c, tool) PROVE ProcessInv'
  <2>1. config \in ConfigType /\ call[c].pc = "idle" /\ UNCHANGED <<config, served>>
    BY <1>3 DEF Begin, ProcessInv
  <2>2. CASE tool # "lead" /\ built /\ Works(c, tool, deps) /\ UNCHANGED sharedVars
    <3>1. Worker(tool, deps) \in CallType /\ Fits(Worker(tool, deps), config, opened)
          /\ Worker(tool, deps).pc # "opening"
      BY <2>2, WorkerFits DEF ProcessInv
    <3>2. Becomes(c, Worker(tool, deps))
      BY <2>2 DEF Works, Worker
    <3> QED BY <2>1, <2>2, <3>1, <3>2, QuietKeepsInv
  <2>3. CASE /\ tool = "lead" \/ ~built
             /\ pool # 0
             /\ GotPool(c, tool, pool)
             /\ UNCHANGED <<pool, opened>>
    <3>1. pool \in Nat /\ pool > 0 /\ pool = opened
      BY <2>3 DEF ProcessInv
    <3> QED BY <2>1, <2>3, <3>1, GotPoolKeepsInv
  <2>4. CASE /\ tool = "lead" \/ ~built
             /\ pool = 0
             /\ Opens(c, tool)
    <3> DEFINE k == [NoCall EXCEPT !.pc = "opening", !.tool = tool]
    <3>2. k \in CallType /\ Fits(k, config, opened) /\ k.tool = tool
      BY OpeningFits
    <3>3. call' = [call EXCEPT ![c] = k] /\ UNCHANGED <<pool, deps, built, opened, chains>>
      BY <2>4 DEF Opens, Becomes, sharedVars
    <3> HIDE DEF k
    <3>4. /\ call' \in [Calls -> CallType]
          /\ \A d \in Calls : Fits(call'[d], config, opened)
          /\ \A d \in Calls : call'[d].pc = "opening" => call'[d].tool \in Tools
      BY <3>2, <3>3 DEF ProcessInv
    <3>5. opened' = 0 /\ Cardinality(Opening') \in Nat
          /\ Cardinality(Opening') <= Cardinality(Calls)
      BY <2>4, <3>3, Sizes DEF ProcessInv, Opening
    <3> QED BY <2>1, <3>3, <3>4, <3>5, ConfigShape DEF ProcessInv
  <2> QED BY <1>3, <2>2, <2>3, <2>4 DEF Begin
<1>4. ASSUME NEW c \in Calls, call[c].pc # "idle" PROVE config \in ConfigType
  BY <1>4 DEF ProcessInv
<1>5. ASSUME NEW c \in Calls, Opened(c) PROVE ProcessInv'
  <2>1. config \in ConfigType /\ call[c].tool \in Tools
    BY <1>4, <1>5 DEF Opened, ProcessInv
  <2>2. opened + 1 \in Nat /\ opened + 1 > 0
    BY DEF ProcessInv
  <2> QED BY <1>5, <2>1, <2>2, GotPoolKeepsInv DEF Opened
<1>6. ASSUME NEW c \in Calls, OpenFails(c) \/ Ends(c) PROVE ProcessInv'
  <2>1. config \in ConfigType
    BY <1>4, <1>6 DEF OpenFails, Ends
  <2> QED BY <1>6, <2>1, NoCallFits, QuietKeepsInv DEF OpenFails, Ends
<1>7. CASE UNCHANGED vars
  BY <1>7 DEF vars, sharedVars, ProcessInv, Opening
<1> QED BY <1>1, <1>2, <1>3, <1>5, <1>6, <1>7 DEF Next, Step

LEMMA ProcessInvariant == Spec => []ProcessInv
BY InitProcessInv, NextProcessInv, PTL DEF Spec

THEOREM ProcessTypeOK == Spec => []TypeOK
<1>1. ProcessInv => TypeOK
  BY DEF ProcessInv, TypeOK, Usable
<1> QED BY <1>1, ProcessInvariant, PTL

(* No deployment runs on less than its environment asks for.               *)
THEOREM NeverLessGuarded == Spec => []GuardedAsAsked
<1>1. ProcessInv => GuardedAsAsked
  <2> SUFFICES ASSUME ProcessInv, config # NoConfig PROVE GuardedAsAsked
    BY DEF GuardedAsAsked
  <2>1. served = Auth(config) /\ served \in Modes \cup {"bearer", "authless"}
    BY DEF ProcessInv
  <2>2. CASE config.oauth = ""
    <3>1. served = Static(config)
      <4>1. config.oauth \notin Modes
        BY <2>2 DEF Modes
      <4> QED BY <2>1, <2>2, <4>1 DEF Auth
    <3>2. CASE config.bearer
      BY <2>2, <3>1, <3>2 DEF GuardedAsAsked, Static
    <3>3. CASE ~config.bearer
      BY <2>2, <3>1, <3>3 DEF GuardedAsAsked, Static
    <3> QED BY <3>2, <3>3
  <2>3. CASE /\ config.oauth # "" /\ config.oauth \in Modes
             /\ Required[config.oauth] \subseteq config.given
    BY <2>1, <2>3 DEF GuardedAsAsked, Auth
  <2>4. CASE /\ config.oauth # ""
             /\ ~(config.oauth \in Modes /\ Required[config.oauth] \subseteq config.given)
    <3>1. served = "error"
      BY <2>1, <2>4 DEF Auth
    <3> QED BY <2>1, <3>1 DEF Modes
  <2> QED BY <2>2, <2>3, <2>4
<1> QED BY <1>1, ProcessInvariant, PTL

(* However first calls overlap and fail, a process opens no more pools and *)
(* builds no more chains than calls can overlap.                           *)
THEOREM RaceIsBounded == Spec => []PoolsBounded
<1>1. ProcessInv => PoolsBounded
  <2> SUFFICES ASSUME ProcessInv PROVE PoolsBounded
    OBVIOUS
  <2>1. Cardinality(Opening) \in Nat /\ Cardinality(Calls) \in Nat
    BY Sizes DEF Opening
  <2> QED BY <2>1 DEF ProcessInv, PoolsBounded
<1> QED BY <1>1, ProcessInvariant, PTL

(* Every call works on a pool that is open and on chains that are built as *)
(* configured, whoever else is building them.                              *)
THEOREM NeverUnbuilt == Spec => []WorksOnWhatIsBuilt
<1>1. ProcessInv => WorksOnWhatIsBuilt
  BY DEF ProcessInv, WorksOnWhatIsBuilt, Fits, Usable
<1> QED BY <1>1, ProcessInvariant, PTL

(* Once the first calls are through, what they built is shared for good.   *)
THEOREM SettledForGood == Spec => SharedOnceSettled
<1>1. ProcessInv /\ Next => (Settled /\ config' = config => UNCHANGED <<pool, deps>>)
  <2> SUFFICES ASSUME ProcessInv, Next, Settled, config' = config
               PROVE  UNCHANGED <<pool, deps>>
    OBVIOUS
  <2>1. built
    BY DEF ProcessInv, Settled
  <2>2. config \in ConfigType => config # NoConfig
    BY ConfigShape
  <2>3. ASSUME NEW e \in Envs, Boot(e) PROVE FALSE
    BY <2>1, <2>3 DEF Boot, ProcessInv
  <2>4. ASSUME NEW c \in Calls, Opened(c) PROVE FALSE
    BY <2>4 DEF Opened, Settled
  <2>5. ASSUME NEW c \in Calls, NEW tool \in Tools, Begin(c, tool)
        PROVE  UNCHANGED <<pool, deps>>
    BY <2>1, <2>5 DEF Begin, GotPool, Opens, sharedVars
  <2>6. ASSUME NEW c \in Calls, OpenFails(c) \/ Ends(c) PROVE UNCHANGED <<pool, deps>>
    BY <2>6 DEF OpenFails, Ends, sharedVars
  <2>7. ~Exit
    BY DEF Exit
  <2> QED BY <2>3, <2>4, <2>5, <2>6, <2>7 DEF Next, Step
<1>2. ProcessInv /\ [Next]_vars =>
         [Settled /\ config' = config => UNCHANGED <<pool, deps>>]_vars
  BY <1>1
<1> QED BY <1>2, ProcessInvariant, PTL DEF Spec, SharedOnceSettled
=============================================================================
