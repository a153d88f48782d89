--------------------------- MODULE ServerProcess ----------------------------
(***************************************************************************)
(* What the calls of one server process share: the configuration and the   *)
(* auth layer fixed when it starts, and the database pool and the chains   *)
(* of providers that its first calls build.  A call gives up control while *)
(* create_pool connects and while it works; get_pool and _deps otherwise   *)
(* run in one step of the event loop.                                      *)
(***************************************************************************)
EXTENDS Naturals, FiniteSets

CONSTANTS Calls,     \* slots for concurrent tool calls
          Envs       \* the environments a process is started with

Modes == {"authkit", "workos", "oidc", "supabase"}

Finders == {"prospeo", "apollo"}
Verifiers == {"quickemailverification", "myemailverifier"}

(* The settings of each OAuth mode (the first column of auth.py's _require)*)
Required ==
    [authkit  |-> {"authkit domain", "base url"},
     workos   |-> {"authkit domain", "client id", "client secret", "base url"},
     oidc     |-> {"config url", "oidc client id", "base url"},
     supabase |-> {"project url", "base url"}]

Settings == UNION {Required[m] : m \in Modes}

(* What the environment says: the mode asked for, the settings and keys    *)
(* that are not blank, and how the toggles and the port are spelt.         *)
EnvType == [oauth : Modes \cup {"", "unknown"}, given : SUBSET Settings,
            bearer : BOOLEAN, dsn : BOOLEAN, port : {"number", "junk"},
            tiers : SUBSET (Finders \cup Verifiers),
            fallback : {"true", "false", "other"}]

ASSUME ProcessAssumption ==
    /\ Envs \subseteq EnvType
    /\ IsFiniteSet(Calls)

VARIABLES config,    \* _config; NoConfig: no process
          served,    \* the auth layer of the app
          pool,      \* _pool, numbered in the order of opening; 0 for None
          deps,      \* _finder and _verifier
          built,     \* _deps_built
          call,      \* the tool call in each slot
          opened,    \* history: pools opened by this process
          chains     \* history: pairs of chains built by it

sharedVars == <<pool, deps, built, opened, chains>>

vars == <<config, served, sharedVars, call>>

NoConfig == [up |-> FALSE]
NoDeps == [id |-> 0]

Tools == {"lead", "resolve", "verify"}

NoCall == [pc |-> "idle", tool |-> "none", pool |-> 0, deps |-> NoDeps]

-----------------------------------------------------------------------------
(* Starting *)

(* _load_config: int() of the port may raise; a toggle keeps its default   *)
(* unless it says the opposite.                                            *)
Loads(e) == e.port = "number"

Loaded(e) ==
    [up |-> TRUE, oauth |-> e.oauth, given |-> e.given, bearer |-> e.bearer,
     dsn |-> e.dsn, tiers |-> e.tiers, fallback |-> e.fallback # "false"]

Static(cfg) == IF cfg.bearer THEN "bearer" ELSE "authless"

(* A fault: an OAuth mode that cannot be set up is ignored.                *)
AuthFallsBack(cfg) ==
    IF cfg.oauth \in Modes /\ Required[cfg.oauth] \subseteq cfg.given
    THEN cfg.oauth ELSE Static(cfg)

(* build_auth; "error" for its ValueErrors.                                *)
Auth(cfg) ==
    CASE cfg.oauth = "" -> Static(cfg)
      [] cfg.oauth \in Modes /\ Required[cfg.oauth] \subseteq cfg.given -> cfg.oauth
      [] OTHER -> "error"

ConfigType == {Loaded(e) : e \in Envs}

DepsType == [id : Nat, pool : Nat, finders : SUBSET Finders, fallback : BOOLEAN,
             verifiers : SUBSET Verifiers]

CallType == [pc : {"idle", "opening", "working"}, tool : Tools \cup {"none"},
             pool : Nat, deps : DepsType \cup {NoDeps}]

TypeOK ==
    /\ config \in ConfigType \cup {NoConfig}
    /\ served \in Modes \cup {"bearer", "authless", "none"}
    /\ pool \in Nat /\ opened \in Nat /\ chains \in Nat
    /\ deps \in DepsType \cup {NoDeps}
    /\ built \in BOOLEAN
    /\ call \in [Calls -> CallType]

Init ==
    /\ config = NoConfig /\ served = "none"
    /\ pool = 0 /\ opened = 0 /\ chains = 0
    /\ deps = NoDeps /\ built = FALSE
    /\ call = [c \in Calls |-> NoCall]

(* A fault: what build_auth raises is logged and the app served all the    *)
(* same.                                                                   *)
BootRegardless(e) ==
    /\ config = NoConfig
    /\ Loads(e)
    /\ config' = Loaded(e)
    /\ served' = Auth(Loaded(e))
    /\ UNCHANGED <<sharedVars, call>>

(* The import of server.py; if it raises there is no process.              *)
Boot(e) ==
    /\ config = NoConfig
    /\ Loads(e) /\ Auth(Loaded(e)) # "error"
    /\ config' = Loaded(e)
    /\ served' = Auth(Loaded(e))
    /\ UNCHANGED <<sharedVars, call>>

Exit ==
    /\ config # NoConfig
    /\ config' = NoConfig /\ served' = "none"
    /\ pool' = 0 /\ opened' = 0 /\ chains' = 0
    /\ deps' = NoDeps /\ built' = FALSE
    /\ call' = [c \in Calls |-> NoCall]

-----------------------------------------------------------------------------
(* The tool calls *)

Becomes(c, k) == call' = [call EXCEPT ![c] = k]

(* verify_email without a verifier ends there.                             *)
Works(c, tool, d) ==
    Becomes(c, IF tool = "verify" /\ d.verifiers = {} THEN NoCall
               ELSE [NoCall EXCEPT !.pc = "working", !.tool = tool, !.deps = d])

Chained(p) ==
    [id |-> chains + 1, pool |-> p,
     finders |-> config.tiers \cap Finders, fallback |-> config.fallback,
     verifiers |-> config.tiers \cap Verifiers]

(* A fault: the chains are built without noting that they are.             *)
BuildUnnoted(p) ==
    /\ deps' = Chained(p)
    /\ chains' = chains + 1
    /\ UNCHANGED built

(* The part of _deps behind its await.                                     *)
Build(p) ==
    /\ deps' = Chained(p)
    /\ built' = TRUE
    /\ chains' = chains + 1

(* A call goes on with the pool get_pool gave it.                          *)
GotPool(c, tool, p) ==
    \/ /\ tool = "lead"
       /\ Becomes(c, [NoCall EXCEPT !.pc = "working", !.tool = tool, !.pool = p])
       /\ UNCHANGED <<deps, built, chains>>
    \/ /\ tool # "lead"
       /\ Build(p)
       /\ Works(c, tool, Chained(p))

(* A fault: the chains pass for built while the pool is being opened.      *)
OpensNoting(c, tool) ==
    /\ Becomes(c, [NoCall EXCEPT !.pc = "opening", !.tool = tool])
    /\ built' = TRUE
    /\ UNCHANGED <<pool, deps, opened, chains>>

Opens(c, tool) ==
    /\ Becomes(c, [NoCall EXCEPT !.pc = "opening", !.tool = tool])
    /\ UNCHANGED sharedVars

Begin(c, tool) ==
    /\ config # NoConfig /\ call[c].pc = "idle"
    /\ \/ /\ tool # "lead" /\ built
          /\ Works(c, tool, deps)
          /\ UNCHANGED sharedVars
       \/ /\ tool = "lead" \/ ~built
          /\ pool # 0
          /\ GotPool(c, tool, pool)
          /\ UNCHANGED <<pool, opened>>
       \/ /\ tool = "lead" \/ ~built
          /\ pool = 0
          /\ Opens(c, tool)
    /\ UNCHANGED <<config, served>>

(* A fault: the pool is handed to the call and not kept.                   *)
OpenedUnshared(c) ==
    /\ call[c].pc = "opening" /\ config.dsn
    /\ opened' = opened + 1
    /\ GotPool(c, call[c].tool, opened + 1)
    /\ UNCHANGED <<pool, config, served>>

(* create_pool returns, and replaces whatever _pool is by now.             *)
Opened(c) ==
    /\ call[c].pc = "opening" /\ config.dsn
    /\ opened' = opened + 1
    /\ pool' = opened + 1
    /\ GotPool(c, call[c].tool, opened + 1)
    /\ UNCHANGED <<config, served>>

(* It raises, or the call is cancelled; the next one tries again.          *)
OpenFails(c) ==
    /\ call[c].pc = "opening"
    /\ Becomes(c, NoCall)
    /\ UNCHANGED <<config, served, sharedVars>>

Ends(c) ==
    /\ call[c].pc = "working"
    /\ Becomes(c, NoCall)
    /\ UNCHANGED <<config, served, sharedVars>>

Step(c) ==
    \/ \E tool \in Tools : Begin(c, tool)
    \/ Opened(c) \/ OpenFails(c) \/ Ends(c)

Next ==
    \/ \E e \in Envs : Boot(e)
    \/ Exit
    \/ \E c \in Calls : Step(c)

Spec == Init /\ [][Next]_vars

-----------------------------------------------------------------------------
(* Properties *)

(* A deployment that asks for OAuth never runs on less, and one that sets  *)
(* a token is never open: a mode that is misspelt or lacks a setting stops *)
(* the process instead (auth.py:49-81, 84-99).                             *)
GuardedAsAsked ==
    config # NoConfig =>
        CASE config.oauth # "" -> served = config.oauth /\ served \in Modes
                                     /\ Required[served] \subseteq config.given
          [] config.oauth = "" /\ config.bearer -> served = "bearer"
          [] OTHER -> served = "authless"

(* First calls that overlap may open a pool each and build chains each,    *)
(* where pool.py:22 and resolve.py:40 have one per process; but no more    *)
(* than can overlap, however many calls follow and however often opening   *)
(* fails (db/pool.py:27-32; tools/resolve.py:57-84).                       *)
PoolsBounded == opened <= Cardinality(Calls) /\ chains <= Cardinality(Calls)

(* No call works with a pool that is not open or with chains that are not  *)
(* there, not what the environment asked for, or, to verify, empty: not    *)
(* while another call builds them, and not after that failed               *)
(* (tools/resolve.py:57-86; db/pool.py:28-32).                             *)
WorksOnWhatIsBuilt ==
    \A c \in Calls : call[c].pc = "working" =>
        \/ call[c].tool = "lead" /\ call[c].pool \in 1..opened
        \/ /\ call[c].deps # NoDeps
           /\ call[c].deps.pool \in 1..opened
           /\ call[c].deps.finders \cup call[c].deps.verifiers = config.tiers
           /\ call[c].deps.fallback = config.fallback
           /\ call[c].tool = "verify" => call[c].deps.verifiers # {}

(* Once nobody is opening a pool, the pool and the chains, with what their *)
(* key pools have learnt, stay those of every later call of the process    *)
(* (tools/resolve.py:57, 84; db/pool.py:29).                               *)
Settled == deps # NoDeps /\ \A c \in Calls : call[c].pc # "opening"

SharedOnceSettled ==
    [][Settled /\ config' = config => UNCHANGED <<pool, deps>>]_vars
=============================================================================
