# TLA+ models of enrichment-mcp

These modules model the server in `src/src/mcp_server`: the start of a process and what its
calls share, the pools of API keys, the clients that rotate through them, the chain of enrichment
providers, the chain of email verifiers, the resolution that runs through all of these, and the
lead store two outreach pipelines share. TLC checks small instances; TLAPS proves the main safety
results for every value of the constants. Paths below are relative
to `src/src/mcp_server` unless they begin with `src/`.

    tlc -workers 2 -config MCKeyPool.cfg MCKeyPool.tla      check a run
    tlapm KeyPoolProofs.tla                                 check a proof

## The system

A Claude session calls seven tools of one asyncio process (Cloud Run, `--max-instances 1`, scaled
to zero when idle). Tool calls of several sessions overlap in one event loop; control passes from
one to another only at an `await` that really suspends: an HTTP request, a statement of the
database, a sleep. Everything between two such points is atomic. The process can be stopped at
any time and starts with empty memory; only the two Postgres tables outlive it. The two pipelines
(`pentest`, `avelero`) run a service each over the same tables.

| Component | State | Operations | Talks to |
|---|---|---|---|
| Key pool, `contacts/key_pool.py` | cursor; per key `exhausted_until`, `permanently_dead` | `pick`, `mark_exhausted`, `mark_dead`, `enabled` | called by the three keyed clients |
| Prospeo client, `contacts/prospeo.py` | its pool | `find` | Prospeo over HTTP, `log_usage` |
| Apollo client, `contacts/apollo/` | its pool | `find` | Apollo over HTTP, `log_usage` |
| Finder chain, `contacts/finder.py` | the tiers, `fallback_on_no_match` | `ChainedFinder.find` | the two clients, in order |
| Usage metering, `contacts/finder.py`, `db/usage.py` | table `prospeo_usage` | `log_usage`, `prospeo_credit_summary` | Postgres |
| Verifier chain, `contacts/quickemailverification.py`, `verifier.py`, `verify_chain.py` | pool of the first tier; last check per domain of the second | `verify` | two HTTP providers |
| Contact resolution, `contacts/resolve.py`, `tools/resolve.py` | none of its own | `resolve_contact`, `verify_email` | both chains |
| Lazy construction, `tools/resolve.py` `_deps`, `db/pool.py` | module globals | first call builds the chains and the connection pool | everything |
| Lead store, `db/leads.py`, `tools/leads.py`, `src/schema/` | table `leads`, one row per domain | `add_qualified_lead`, `update_lead_status`, three queries | Postgres |
| Config, auth, server wiring | the environment | start-up | |
| Session workflow, `src/skills/lead-finder` | none in the process | prose for the session | the tools |

What is hard, and what makes each part correct:

* **Key pool.** A find picks a key, waits for the network, and marks the key it was given;
  meanwhile others pick, park and kill. Right means: round robin that starves no key, dead keys
  gone for good, parked keys left alone.
* **Clients.** The loop makes as many picks as there are keys, but the cursor belongs to everybody.
  Right means: the loop ends; it raises only when no key could have served; a blocked key is not
  probed for ever; each answer has its usage row unless the write failed.
* **Finder chain.** A miss, a silence and an error of different tiers meet in one find. Right
  means: never "no such person" when nobody answered, never silence over an answer.
* **Verifier chain.** Right means: nothing accepted that no provider confirmed; an outage can be
  told from an invalid mailbox; no call is kept waiting by those that check the same domain.
* **Resolution.** All of the above in one call, interleaved with other calls over the same pools.
  Right means: the session is told what the providers said, no second provider is paid, it ends.
* **Process.** First calls race to build what all of them share. Right means: no call works with
  what is not there; one set of pools and chains once the race is over; never less auth than asked.
* **Lead store.** Two pipelines and several sessions write one row with stale knowledge. Right
  means: one owner for each lead, no status undone by a re-add, true error messages.
* **Lead queries.** Pages are cut from an order others change between two calls. Right means: what a
  walk misses or repeats has a known cause.

## Modules

| Module | Models | How it corresponds |
|---|---|---|
| `KeyPoolOps` | `KeyPool` as a value | an operator for what each method does to `[cursor, until, dead]`; `exhausted_until = None` is 0 |
| `KeyPool`, `KeyPoolHistory` | one shared pool | an action for each method, and time; the history modules add only what properties need |
| `KeyPoolScan` | the loop of `pick()` | extends `KeyPool` by the locals of the loop; an action for each iteration; `ImplementsKeyPool` maps it to `KeyPool` |
| `ReplyEffects`, `ProspeoReply`, `ApolloReply` | classification of a reply | a pure function from a class of replies (status, body, error code, person) to what the client does: retry, kill, park, miss, hit |
| `KeyedClient`, `KeyedClientHistory` | `find()` of both clients | `call[c]` holds the locals of find c: where it waits, the key in use, iterations left; `Begin`, `Rotate`, `Answer` are the code between two awaits, `LogUsage` the insert |
| `ChainPromise` | what the docstring of `ChainedFinder` promises | abstract: the answer is a function of what each tier said, and every enabled tier is heard in order |
| `ChainedFinder` | `ChainedFinder.find` | the loop with its flags; a tier is enabled or not, and says hit, miss, unavailable or breaks; one that is parked raises without giving up control |
| `Resolution` | `tools/resolve.py`, `contacts/resolve.py` over the real tiers | two instances of `KeyedClient` and the locals of the chain; a step runs through all layers up to the next real suspension; the verifier is a verdict or an exception |
| `Verdict`, `EmailVerifier`, `EmailVerifierHistory` | reports, verdicts, both tiers and the chain | `call[c].pc` is where `verify()` waits: first tier, sleep, second tier; the history keeps what was said of each key's quota |
| `LeadStore` | both writing tools over `leads` | an action for each SQL statement; the refused add has two |
| `LeadQueue` | `list_leads` over `LeadStore` | a page is the rows whose place in the order falls into it; a walk makes one `list_leads` for each page |
| `ServerProcess` | start-up, `get_pool`, `_deps` | `Boot` is the import of `server.py`; `call[c].pc` tells whether a call waits for `create_pool` or works |
| `MC*` | instances for TLC | |
| `*Proofs` | theorems | each extends the modules it is about; `LeadStoreProofs` is about `LeadQueue` too, `KeyPoolProofs` about the scan |

Methods of `KeyPool` hold an `asyncio.Lock` and await nothing under it, so the lock is never
contended and acquiring it does not suspend: a method is one step, and several in a row
(`mark_dead`, then the `pick` of the next iteration) are one step too.

Operators named for a fault (`TakenWithoutAdvance`, `LostVerdictHigh`, ...) are used by no
specification. Each is a plausible mistake in the definition that follows it, and putting it in
place of that definition breaks the property it is paired with in `PROJECT.json`.

## Runs

| Run | Question | Bounds |
|---|---|---|
| `key_pool` | Round robin fair, the dead gone, parks honoured, in any order of calls? | 3 keys, park of 1 tick, 3 ticks |
| `key_pool_scan` | Does the loop of `pick()` implement the atomic pick? | 3 keys, 2 cooldowns, 3 ticks |
| `client_finds` | Keys tried, probes paid, rows written and steps left of overlapping finds | 2 keys, 2 overlapping finds, 3 in all, 1 tick, any restarts, every effect of a reply of either provider |
| `finder_chain` | Does the loop keep the promise of `ChainPromise`? | 3 tiers, 2 overlapping finds, any restarts |
| `lead_store` | Ownership, statuses and error messages under interleaving | 1 domain, 2 projects, 2 sessions, 1 contact column, 1 `NOT NULL` column, `why` of 2 notes |
| `email_verifier` | Acceptance, silence, outages, pacing, steps left and the daily park | 2 keys, 2 overlapping calls, 1 domain, 3 ticks, with and without the second tier |
| `resolution` | Truth, cost and end of whole resolutions; do the clients refine the chain's tiers? | 1 key for each provider, 2 overlapping resolutions, 2 in all, 1 tick, any restarts, a reply of each kind, with fairness |
| `process` | Auth as asked, and what racing first calls get | 3 overlapping calls; each mode complete and lacking each setting, each set of tiers |
| `lead_queue` | What paging misses and repeats | 3 leads (symmetric), 1 project, pages of 1, 2 scores, 2 statuses |
| `early_unavailable` | The docstring of `find()` on `ProviderUnavailableError`: violated | as `client_finds` |
| `re_add_blanks` | "Re-adding never blanks existing data": violated | as `lead_store` |
| `fabricated_verdict` | "rather than ever fabricating a result": violated | as `email_verifier` |

Why the bounds are enough for the cases that matter. Three keys are the fewest for which a key can
be passed over in favour of two others; two keys and two finds are enough for one find to take the
key the other needs (that is `early_unavailable`). The third find of `client_finds` starts after
the pool is worn. A tick can end a park and the clock stops when a second one could only repeat
that. Three tiers, one more than there are, have a tier between two others. One domain suffices
for `lead_store` because no statement touches two. The status list is the full list of eleven there;
`lead_queue` moves leads between two of them, one the list asks for and one it does not. Two cooldowns
differ in `key_pool_scan`, in `client_finds` (5 minutes and an hour as 1 and 2, so the first ends
within the run and the second does not) and in `email_verifier` (2 minutes and a day as 1 and 3):
only their order matters to the guards. One key for each provider is enough for `resolution`,
because what several keys do within one client is the matter of `client_finds`; two resolutions on
one key already have it die, or rest, under each other. Three leads and pages of one are the fewest
for which a walk has rows behind it, at hand and ahead. Three calls of `process` let two race and a
third come late; with them a fourth could only repeat one of the three.

No run turns off the deadlock check: in each model something can always happen, because a process
can be restarted, or a session can call again.

### Fairness

`FairSpec` of `Resolution` is the only specification with fairness. For each call it assumes that
what it waits for comes: a request on the wire is answered or raises (`aiohttp.ClientTimeout(total=30)`,
prospeo.py:230 and apollo/client.py:257), the usage insert returns or raises, and the verifier
returns or raises (verifier.py:123, quickemailverification.py:130; its sleep is at most the interval).
Nothing obliges anyone to call again, the clock to move, or the process to end. With it,
`EveryResolutionEnds` says that a resolution ends although others park and kill the keys under it; a
chain that waited for a tier whose keys are dead, in place of passing over it, would not.
`FindsWindDown` for one client and `ResolutionsWindDown` for a resolution are the same matter
without fairness: each step takes it nearer its end, by a count no other call can raise, so no number
of replies keeps it going. `VerificationsWindDown` says so of a verification, which sleeps once
whoever checks its domain meanwhile. All three are proved.

### Divergences between the code and its documentation

* `early_unavailable`: two finds share two keys, k0 broken and k1 healthy. The first find gets k0,
  the second k1, the first fails and is handed k0 again: two picks, both k0, and it raises although
  k1, which the second find was using, was neither dead nor parked all along, and the first never
  tried it (prospeo.py:128, docstring 99-101).
  `AloneTriesEveryKey` proves that without overlap the docstring holds; `NoKeyOverlooked` is what
  holds with it.
* `re_add_blanks`: a field that is present and `None` overwrites (db/leads.py:140-157) where
  tools/leads.py:89 says it never does.
* `fabricated_verdict`: the second tier turns a transport error into `valid=False`
  (verifier.py:91-110) where verify_chain.py:7-10 and tools/resolve.py:152-155 rule that out.
  `UnheardIsLow` is what a caller can rely on: such a verdict is marked low and never accepts.

Smaller ones have no run of their own; the property that holds says how far the code goes. An
unusable Apollo key costs "exactly one probe for the process lifetime" (apollo/client.py:12-13):
overlapping finds probe it once each, and `ProbesBounded` is the bound. There is "one finder chain +
one verifier chain per process" (tools/resolve.py:40-41): first calls that overlap build one each, and
`PoolsBounded` and `SharedOnceSettled` say how many and until when. The interval is "seconds
between checks per domain" (verifier.py:28): calls that overlap may sleep to the same instant, and
`CrowdedOnlyByOverlap` says that nothing else breaks it. "`offset` paginates" (tools/leads.py:122):
`MissedOnlyAfterDeparture` and `RepeatedOnlyAfterArrival` say when pages miss or repeat a lead. A
429 that is handled after a 402 of the same key ends its daily park early (key_pool.py:85), where
quickemailverification.py:5-7 says the key is parked until midnight: `ParkedKeyRests` is claimed of
equal cooldowns only, and `SpentKeyRests` says that nothing else ends the daily park. The
reason `no_email` (contacts/resolve.py:117) can be reached by no reply of the two real clients, which return a
hit only with an address or a profile.

## Proofs

Each is for every number of keys, finds, tiers, projects, sessions and domains, and every bound.

| Theorem | Says | Argument |
|---|---|---|
| `KeyPoolProofs!TypeCorrect` | `TypeOK` | inductive; the cursor stays in range because `Successor` wraps |
| `KeyPoolProofs!RoundRobinFair` | `NoKeyOvertakenTwice` | strengthening: a key that was handed out while f waited was so once, and lies farther from the cursor than f |
| `KeyPoolProofs!DeadForGood` | `DeadKeyRetired` | strengthening: every entry of a killed key is dead; needs `DistinctKeys` |
| `KeyPoolProofs!ParkIsHonoured` | `ParkedKeyRests` | strengthening: while a key's longest rest is not over, its entry is parked at least until then, and no rest reaches beyond now plus a cooldown; needs `DistinctKeys` and a single cooldown |
| `KeyPoolProofs!ScanImplementsPool` | `ImplementsKeyPool` | invariant of the scan: the entries looked at are unusable and are the first `looked` ones round from the start; each iteration stutters, the last is the atomic pick |
| `KeyedClientProofs!NothingOverlooked` | `NoKeyOverlooked` | strengthening: a key the find has not yet seen used or unusable is nearer to the cursor than the picks the find has left, so its loop cannot end before reaching it |
| `KeyedClientProofs!EveryFindWindsDown` | `FindsWindDown` | `TryNext` hands out an entry only with an iteration less to go; nobody else changes a find |
| `KeyedClientProofs!ClientTypeCorrect`, `AnswersAreAccountedFor` | `TypeOK`, `UsageAccountsForAnswers` | both inductive, the second with the first; only an answer adds a find to those that wait for their row, only the write or a restart takes it away; needs `FiniteCalls` |
| `KeyedClientProofs!DeadKeysAreProbedRarely` | `ProbesBounded` | strengthening: a rejected key is dead, and its rejections and the finds that still hold it number at most `Cardinality(Calls)`, because a dead key is handed to nobody; needs `DistinctKeys` and `FiniteCalls` |
| `KeyedClientProofs!AloneTriesEveryKey` | `EveryKeyTried` | from the same invariant, when `Calls` has one element: nobody else moves the cursor |
| `ChainedFinderProofs!ChainTypeCorrect` | `TypeOK` | inductive |
| `ChainedFinderProofs!ChainImplementsPromise` | `KeepsPromise` | invariant: the two flags are what the tiers so far said, tiers before the current one have spoken or were skipped, the later ones have not |
| `ResolutionProofs!ResolutionTypeCorrect`, `ReasonsAreTrue`, `NobodyIsAskedTwice` | `TypeOK`, `ReasonIsTrue`, `AsksNoFurther` | one inductive invariant, `ResolutionInv`, below |
| `ResolutionProofs!ResolutionImplementsChain` | `ImplementsChain` | step by step, with `ResolutionInv`: a step of a client that leaves its find in flight stutters, the end of a find is `Reply`, and tiers that raise at once, or are passed over, in the same step are the ones `AskNext` passes over; a key that is lost makes `lost` true when it was the last |
| `ResolutionProofs!EveryResolutionWindsDown` | `ResolutionsWindDown` | from `ResolutionInv`: a retry lowers `left`, an answer ends the tries, Apollo is begun with at most one try for each of its keys, and no step of a call touches the locals of another |
| `ResolutionProofs!RepliesAreEffects` | | case by case over the two reply tables: what they yield meets the assumption the other theorems make of replies |
| `LeadStoreProofs!StoreTypeCorrect` | `TypeOK` | inductive; `Storable` keeps `NOT NULL` columns |
| `LeadStoreProofs!PipelinesStayApart` | `OneWriter` | inductive with the type; a guard in each statement |
| `LeadStoreProofs!RecordedStatusStands` | `UpdateStands` | the status an add derives is at most `contact_resolved` |
| `LeadStoreProofs!RefusalsAreTrue` | `RefusalNamesOwner` | invariant: a session in conflict holds a domain owned by another project; leads are never deleted or re-owned |
| `LeadStoreProofs!QueueTypeCorrect` | `QueueTypeOK` | invariant: a stored lead is stamped with a count of rows not above the present one, so the next stamp is new |
| `LeadStoreProofs!PagesMissOnlyAfterDeparture`, `PagesRepeatOnlyAfterArrival` | `MissedOnlyAfterDeparture`, `RepeatedOnlyAfterArrival` | invariant: among the leads that stayed, those in the rows passed are the ones seen, as long as none left (came). A statement writes one row; if that takes another lead over the boundary, the written one crossed it the other way, by counting the rows before each. A short page is the last because every place before a lead's is filled. Needs `FiniteDomains` |
| `EmailVerifierProofs!VerifierTypeOK`, `NothingAcceptedUnconfirmed`, `RaisesWithoutReport`, `GuessesAreLow` | `QuotaTypeOK`, `AcceptedIsConfirmed`, `RaisesOnlyInSilence`, `UnheardIsLow` | one inductive invariant: a call that still asks has heard nothing, so what it returns is judged by the report at hand; only a report that confirms parses to an accepted verdict |
| `EmailVerifierProofs!PacedButForSleepers` | `CrowdedOnlyByOverlap` | the same invariant has `lastCheck` equal to the true times, and a sleeper wakes no later than an interval after the last check |
| `EmailVerifierProofs!EveryVerificationWindsDown` | `VerificationsWindDown` | what a call becomes at the second tier is at most two steps from its end, and at the first tier each key costs a step; no step of a call touches another |
| `EmailVerifierProofs!SpentKeysRest` | `SpentKeyRests` | strengthening: a key whose quota is spent, and that no later reply curtailed, is dead or parked at least until the quota is new; needs `DistinctKeys` |
| `ServerProcessProofs!ProcessTypeOK`, `NeverUnbuilt`, `SettledForGood` | `TypeOK`, `WorksOnWhatIsBuilt`, `SharedOnceSettled` | inductive: chains are there if they are noted, with a pool that is open and the configuration of the process |
| `ServerProcessProofs!NeverLessGuarded` | `GuardedAsAsked` | inductive: what is served is what `Auth` makes of the configuration |
| `ServerProcessProofs!RaceIsBounded` | `PoolsBounded` | strengthening: the pools opened and the calls still opening one number at most `Cardinality(Calls)` once there is a pool, for only calls that began before it open another |

`KeyPoolOpsProofs` holds the lemmas about the pool they share. The assumptions are the named
`ASSUME`s of the modules (types of the constants; `FiniteCalls` and `FiniteDomains`, that there
are finitely many calls and rows), plus `DistinctKeys`, one cooldown or one call
where the theorem says so: with a key configured twice the second entry is never marked
(key_pool.py:83-99), and with two cooldowns the later mark replaces the earlier, so those two
statements are false without them.

Why `ResolutionInv` is needed: `ReasonIsTrue` and `AsksNoFurther` speak of what the providers
answered, which no program variable holds. A find that has its answer and still writes its usage row
has been heard, but neither the chain nor the request knows; and the chain knows of an earlier miss by its
flag alone. So the invariant says, for each call: a client's find is in flight exactly while the chain
waits for that tier; what was heard is the miss the flag remembers and the word of the find that
writes its row, and nothing else; the flag is up at the second tier only with the fallback on; and a
finished request is already told the truth, one with the verifier has had a hit. TLC found it to hold
on the instance of `resolution` before it was proved. `ResolutionAssumption` gives the proofs the types of
the constants: each provider has a key (one without is no tier, tools/resolve.py:61-65;
the loop passes over a tier whose keys are all dead, so a chain of one behaves as one whose other tier is), keys are
listed by entry, and replies are effects as `ReplyEffects` has them,
which `RepliesAreEffects` proves of both reply tables. Since `ResolutionImplementsChain`
ends in `ChainedFinder` with two tiers, `ChainImplementsPromise` applies: a resolution keeps the
promise of the chain's docstring.

Only model-checked: `EveryResolutionEnds`, which is liveness. Its step-by-step part is
`EveryResolutionWindsDown`.

## Abstractions, and what is not modelled

* A reply is a class: status, whether the body is an object, the error code, whether a person has
  an address, a profile, a phone. A body with fields of the wrong JSON type, which makes the code
  raise `AttributeError`, is left out.
* Text is left out: names, addresses, notes, prompts; an address is its domain, a note a value,
  `why` a sequence of notes. `domain` is taken to be stripped already (`add_qualified_lead` strips
  it, `update_lead_status` and `get_lead` do not).
* A call its client cancels is not modelled; it leaves pool and table as a request that never
  returns would, and may cost its usage row.
* Columns of a lead are of two kinds, nullable and `NOT NULL`, some of them contact fields.
  Arguments that fail validation, failing statements and lost connections are the one action
  `Fails`; a caller whose reply is lost cannot be told from one whose reply came.
* The usage table is kept per key for one client; `prospeo_credit_summary` is a read.
* Acquiring a connection from the asyncpg pool is part of the statement it serves.
* An empty `SUPABASE_DB_URL` is a `create_pool` that never succeeds.
* `created_at` is taken to be different for any two leads; rows with equal scores and equal times
  may come in any order from Postgres. A page is read in one statement.
* Not modelled: `close_pool` and `verify_batch`, which nothing calls; `get_lead`, a read of one row by
  its key; `get_uncontacted`, a read in the order of `list_leads` with two statuses and no `OFFSET` (it
  claims nothing for its caller, so two sessions may be handed the same lead);
  `prospeo_credit_summary`, a read nothing calls either; `helpers.py` (text); what the auth
  layer does with a request (fastmcp); registration of the tools; settings that are only passed on
  (bind address, `leads_project`, `prospeo_enrich_mobile`, a constant of the client models);
  migrations (run by hand, in order); the session workflow (prose).

## Plan

Done, in this order: the key pool; the keyed clients; the finder chain; the lead store; the email
verifier; proofs of the first four; the resolution; the process; the queries; proofs of the email
verifier, of the process and of all invariants of the keyed clients; the daily park;
proofs of the queries; proofs of the resolution.

Next:

1. `EmailVerifier` in the place of the verifier in `Resolution`, if an instance small enough for TLC
   still has both second tiers.
