# HermesCloak in TLA+

HermesCloak stands between an agent program ("hermes") and a language model. On the way out it
replaces the real values in a request (names, numbers, addresses) by tokens such as `⟦NAME_3⟧`;
on the way back it puts the real values in again. This directory holds TLA+ specifications of
that program, the TLC configurations that check them, and proofs that TLAPS checks.

Paths are relative to `src/hermescloak/`. Line numbers without a file are lines of
`durable_vault.py` in sections about the vault, and of `adapter/hermes_live.py` ("HL") where said.

## 1. The system

| part | source | state it keeps | operations | how it meets the others |
|---|---|---|---|---|
| durable vault | `durable_vault.py`, `vault.py` | per process: both maps, counters, generation, flags, offset in the journal. On disk: snapshot, `.bak`, `.journal`, `.cleared` | `__init__`/`_load`, `tokenize`, `restore_token`, `sync`, `save`, `clear`, `sweep_expired` | shared by all threads of a process, and by all processes through the files |
| file lock | `_filelock.py` | one `flock` per file | enter (10 s for the vault, 2 s for the audit log, then on without it), exit | guards minting, loading, syncing, compacting, dropping, rotating |
| tokenizing engine | `engine.py`, `pseudonymizer.py`, `restorer.py`, `tokens.py` | LRU of already tokenized contents, list of known values | tokenize a content, restore a text | asks detection for spans, the vault for tokens |
| detection | `detection.py`, `recognizers/`, `span.py`, `phone.py`, `profile.py` | none | find and resolve spans | called by the engine |
| hermes adapter | `adapter/hermes_live.py` | engines with the signature of their files, last good contents, tokens shown per session, scope per thread, audit log | sanitize a request, restore a reply, its text, its tool arguments, the stream | called by the plugin on the host's threads |
| payload walker | `adapter/payload.py` | none | apply a function to every human text of a request, put in the instruction | called by the adapter |
| plugin | `hermes_plugin/`, `__init__.py` | which functions of the host are wrapped, what is degraded | register, the wraps, the middleware | calls the adapter |
| NER client and service | `adapter/ner_client.py`, `service/` | token file, port, model holder, circuit breaker | start, health, recognize, load, unload | HTTP, and a token in a file |
| decider | `decide.py`, `residual.py` | slots, breaker, daily count, whether the cap was told | `decide`, shadow calls | asks a model for the second opinion on a masked request |
| replay cache | `replay.py` | restored text → model text, by generation; `replay.json` | `lookup`, `remember`, `save` | keyed to the vault's generation |
| egress | `egress.py`, `integrations/requests_egress.py` | none of its own | read the vault's files without the lock, restore a text or what a script posts | another reader of the vault's files |
| stream filter | `adapter/hermes_live.py` 731-783 | the held tail of each stream | delta, flush, reset | restores piece by piece |

What is hard in it, and what makes each part right:

- *Vault*: several processes and threads, a journal and two copies of a snapshot, crashes between
  any two writes, keys that differ between processes, a lock that gives up. A token never stands
  for two values and a value keeps one token; what was handed out can be restored whatever
  crashed; a lifetime that was dropped stays dropped; a process without the key harms nothing;
  every call returns.
- *Engine, detection*: what was found is masked whatever happens to the vault meanwhile, with the
  vault's tokens; a cache must not serve what was made before the vault learnt a value; spans of
  three sources that overlap and move as they are replaced.
- *Adapter, replay cache*: sessions share threads, the vault, bounded memories and a file. A session
  gets back its own values, all of them and no other; what was said is replayed only where it
  stands for the same; nothing leaves in clear that is said to be filtered. Engines follow the files
  they are built from while those are edited, broken and deleted.
- *Plugin*: wraps of a host that has or lacks each target, by threads at once, without wrapping twice.
- *Decider, NER*: slots are given back, the cap is told once, the breaker closes again, services that
  start at once agree on a token.
- *Egress*: a reader without the lock; what cannot be restored is reported.
- *Stream filter*: what is delivered is the restored text and nothing of it is lost.

`PROJECT.json` lists each hazard at its line with the properties that speak of it.

## 2. The modules

| module | what it is |
|---|---|
| `TokenStore` | the abstract specification of the vault: tokens handed out in lifetimes, what each process can restore |
| `VaultData` | the data of the vault and the functions of `durable_vault.py` and `vault.py` that do not depend on who runs when |
| `DurableVault` | the state machine: processes, threads, the lock, the files, crashes and faults; implements `TokenStore` |
| `DurableVaultProofs` | lemmas on the operators of `VaultData`; the invariant of the vault's form, one lemma per action, its theorems |
| `VaultStoreProofs` | what is kept is not lost: the vault's safety properties and the refinement of `TokenStore` |
| `VaultKeysProofs` | processes with different keys: who is locked out has a lifetime of its own and spoils nothing; what was dropped on purpose stays dropped |
| `EgressReader`, `EgressProofs` | `load_token_map`, read by read, composed with `DurableVault`; its theorems |
| `ContentCache`, `ContentCacheProofs` | the engine's cache, the passes of `pseudonymize`, the list of known values; its theorems |
| `EnginePool` | `_engine_for_session`: engines by the signature of their files, last good contents |
| `Registration` | `register` and the patches of the plugin |
| `EgressSend` | the wrap of `requests`: which host, which places of a body, what is reported |
| `AuditLog` | the audit log and its rotation by threads of several processes |
| `Engines`, `EnginesProofs` | `ContentCache` and the four modules above, one per behaviour; the theorems of those four |
| `LiveSession`, `LiveSessionProofs` | sessions, requests, replies, scopes, the replay cache, the mode; its theorems |
| `Decider` | `decide` with its breaker, slots, cap, fallback and shadow |
| `NerService` | the token file, the port, the model holder, the clients with their breakers |
| `StreamFilter` | the filter, over all texts and all cuts, with edits of MODE and new attempts |
| `Spans` | the resolution of spans, one after the other, and the replacement, over all finds |
| `CoreParts`, `CorePartsProofs` | `Decider`, `NerService`, `Spans` and `StreamFilter` in one module, without recursion; the theorems of the four |
| `Payload`, `Tree` | the walk over a request and the instruction, over trees |
| `Parts` | `CoreParts` and `Payload`, one part per behaviour |
| `MC*` | the instances for TLC |

`EgressReader` extends `DurableVault`, so the reader runs against every step of the writers.
`LiveSession` has the replay cache, the plugin's order of checks and the second opinion in it, since
they are right or wrong only together with the session; of the vault it takes what one process sees
of it: its map grows (`Learnt`), or another lifetime begins (`Look`). `ContentCache` takes the same.

`Parts` and `Engines` put modules together that share no state. A step of one leaves the variables and the
guards of the others alone, so an interleaving of two of them shows nothing that one alone does
not: a behaviour is that of one part, chosen at the start, and every property is one of that part. It
keeps the number of configurations small without leaving any out.

### State and code

`DurableVault`:

| model | code |
|---|---|
| `mem[p]` | the fields of the one `DurableVault` object of process `p` (162-178); `seen` compares `_seen` with the file's stat now: never read, stale, equal |
| `disk.main`, `disk.bak` | the snapshot and its backup: absent, not parsing, or a payload (405-418) with the key it is written under |
| `disk.journal`, `disk.torn` | the complete lines, and the tail that has no newline |
| `disk.cleared` | the tombstone: absent, empty, or the generation dropped |
| `disk.idle` | the last change is older than the TTL |
| `up`, `pc`, `job`, `raw` | the life of a process; where a thread is, its local variables, and the payload its compaction is writing (428) |
| `holder` | the thread that holds the `flock` |
| `issued` | history: which token was handed out for which value in which generation |
| `dropped` | history: the lifetime that the last drop ended, which the tombstone of a sweep does not name |
| `upsets` | history: how many faults of each kind have happened |

A handler is one action where nothing can come between, and is cut where a crash, another thread of
the process or, after a lock timeout, another process can see the difference:

```
tokenize   Reuse | TokenizeFar | TokenizeNew -> Sync -> MintLockedOut | MintFound
                                               | MintNew -> AppendLine | AppendFails -> [compact] -> Return
compact    Payload -> WriteBak -> WriteMain -> RemoveTombstone -> Truncate     (CompactFails, CompactNothing)
start      Start -> SweepExpired -> Unlink* -> Tombstone | SweepNothing -> Load -> [compact]
                                               | LoadExpired -> Unlink* -> Tombstone
restore    RestoreHit | RestoreMiss -> Sync -> [compact]
save       Save -> Sync -> compact
clear      Clear -> ClearFiles -> Unlink* -> Tombstone
egress     Look -> [ReadMain -> [ReadBak] -> ReadLines]                        (EgressReader, no lock)
```

The refinement mapping to `TokenStore` takes `mem[p].gen` for the lifetime a process is in, and the
tokens handed out in it that its map restores for what it knows.

The other state machines:

| module | variables | code | steps of the main handler |
|---|---|---|---|
| `ContentCache` | `token`, `list`, `cache`, `work`; history `life`, `given` | `Vault._real_to_token`, `_known_cache`, `Engine._content_cache`, locals of `pseudonymize` | `Hit` or `Miss -> Learn* -> Scan -> Replace* -> Measure -> Store` |
| `LiveSession` | `mode`, `setup`, `token`, `life`, `sent`, `shown`, `entries`, `saved`, `turn`; history `hist` is the host's, `had`, `wrote` | the MODE file, `_DEGRADED` and the profile, the vault, `_SENT`, `_SHOWN`, `ReplayCache`, `replay.json`, locals of the handlers | `Request -> Walk* -> Remember -> Send` (or `Fail`) `-> Reply -> Restore` (or `RestoreFails`) |
| `EnginePool` | `config`, `good`, `pool`, `engine`, `work`; history `came` | the files, `_LAST_GOOD`, `_ENGINES` with its order, `_ENGINE_SIG`, locals of `_engine_for_session` | `Begin -> Stat* -> Found`, or `Miss -> Load* -> Store`; `Peek -> Note` |
| `Registration` | `host`, `registry`, `layers`, `hook`, `stream`, `aux`, `status`, `degraded` | the host's modules and `_REGISTRY`, marks on wrapped functions, `_STATUS`, `_DEGRADED` | `Register -> List -> Wrap* -> Hook -> Stream -> Auxiliary -> SelfTest -> Clear -> Update` |
| `EgressSend` | `listed`, `vault`, `url`, `body`, `todo`, `reported` | `egress_hosts`, the vault's files, locals of the wrapped `request` | `Post -> RestoreAt* -> Send` |
| `AuditLog` | `log`, `writer`, `opened`; history `written`, `killed`, `late` | `audit.log` and its old files, locals of `_audit` | `Audit -> [Lock -> Move*] -> Open -> Write` |
| `Decider` | `breaker`, `day`, `free`, `shadowed`, `call`; history `told` | the fields of `Decider`, its two semaphores, locals of `decide` and `_one` | `Ask -> CheckBreaker -> Count -> [Announce] -> Post -> Answer -> Record` |
| `NerService` | `file`, `start`, `service`, `control`, `timely`, `open`, `up`, `client`, `rec`, `hand` | the token file, the starting processes, the port, whether what runs there answers in time, the client's breaker, the holder's model | `ReadFirst -> Link -> Reread -> Bind`; `Begin -> Hello -> Recognize -> Spans`, or (`Late`) `-> Trip -> Down` |
| `StreamFilter` | `text`, `at`, `buf`, `out`, `mode`; history `steady`, `failed` | the stream, `_STREAM_BUF`, the MODE file | `Delta* -> End`, each of which may raise (`DeltaRaises`, `EndRaises`), `Reset`, `Flip` |
| `Spans` | `primary`, `secondary`, `known`, `spans`, `kept`, `end`, `detected`, `text` | the finds, the locals of `_resolve`, `detect` and `pseudonymize` | `LookAt* -> DetectPrimary -> LookAt* -> DetectSecondary -> LookAt* -> Settle -> Replace* -> Done` |
| `Payload` | `request`, `api` | the request | `Transform -> Inject -> Inject` |

### Abstractions

*Vault.* The journal offset counts lines: all lines have the same length. A new file always has
another stat than the one remembered. A generation is a fresh member of `Gens`, as a `uuid4` is.
The half second between two syncs of `restore_token` and the five minutes between two touches are
choices. The random base of a memory-only process is `FarBase`. Reading the files in `_load` and in
`_sync_locked` is one step: a writer without the lock (after a timeout) comes before or after it.
Deletions of `_delete_file` are one step per file.

*Content cache.* `Values` are values of at least `KNOWN_MIN_LEN` characters whose occurrences in a
content do not overlap (overlaps are `Spans`). All values count in one sequence of numbers without
gaps. The order of the LRU is left out: `Kept` may drop any entries beyond the bound.

*Sessions.* A text is the set of real values and the set of tokens in it. All values are found by the
detectors (what detection misses no model can tell). What the model writes is any member of `Replies`:
it may guess tokens it was never shown. Each text of a request
is a step of its own. Fields of `setup` stand for what does not change in a run:
whether registration found everything, the fail mode, whether the second opinion blocks. The vault's
lifetime may end at any look at the disk.

*Engine pool.* A file is absent or an edit that loads or does not; the signature of a file is its edit.
*Egress.* A body is a set of places with the tokens they hold. *Audit log.* A line is its number;
the limit is in lines. *Decider.* The validity and width of a question matter, its words do not.
*Stream, spans.* Texts are sequences of character classes (opening and closing bracket, the rest of
a token, anything) and of positions. *Payload.* Trees with human and protocol strings at the leaves.

## 3. The runs

Every fault happens at most as often as the run's `Budget` says; `gateway` and `cron` are two
processes on one directory, `gw1`, `gw2` threads of the gateway, `cr1` that of the cron job.

| run | instance | what it shows |
|---|---|---|
| `vault_crash` | 2 processes, 3 values, 4 numbers, 4 generations; one kill, one torn line, one copy damaged or lost while no process runs | form of the state; durability; nothing restores to another value; one lifetime; a restore finds what was handed out before; `TokenStore` is implemented |
| `vault_threads` | 2 threads of one process, 2 values; one lock timeout, two failed writes | the two maps stay inverse; what a failed write left out is known to be unwritten; every call returns |
| `vault_drop` | 2 processes, 2 values; one `clear`, one expiry, one exit | a lifetime that was cleared or has expired is not written back; `TokenStore` is implemented across lifetimes |
| `vault_keys` | gateway with a key, cron without; 2 values, 5 numbers; one kill, one failed write | the process without the key has a lifetime of its own and touches nothing it cannot read |
| `egress` | 2 writing processes and a script; 2 values; one kill, one torn line, one copy damaged or lost | of a vault whose snapshot is there the reader gets what was handed out before, unless the journal is emptied between its reads; of one without a snapshot nothing; and nothing as another value |
| `engines` | the five parts of `Engines`, see below | found values are masked with the vault's tokens, known ones too; engines are those of the files; a reply is restored once; nothing leaves silently; the log is kept; protection is not lost |
| `live` | 2 sessions, 2 threads, 2 values, 2 requests (turns or auxiliary calls), one edit of MODE, new lifetime or restart; one remembered session, one replay entry; 3 setups | own values come back, others' do not; what is sent stands for what was to be sent; nothing filtered is in clear |
| `parts` | the five parts of `Parts`, see below | slots, cap, token, model, streams, spans, requests; `decide` returns, the breaker closes |
| `vault_reuse_race` | 2 threads, one kill | **violation** of `Durable` |
| `vault_torn_encrypted` | two processes with the key, one torn line | **violation** of `KeyHolderGetsIn` |
| `content_stale` | 2 threads, 2 values, one lifetime | **violation** of `LaterMasked` |
| `spans_displaced` | the instance of `parts` | **violation** of `FoundBroken` |

Distinct states, with the symmetry of each run: `vault_crash` 250,948, `vault_threads` 123,107, `vault_drop`
412,988, `vault_keys` 310,652, `egress` 654,188, `engines` 1,868,791, `live` 2,952,481, `parts` 356,721.

Why the bounds suffice.

- *Vault.* `CompactEvery = 2` (256 in the code) makes the journal fill, compact and start again within
  two mints, so every interleaving of an append with a compaction occurs. Three values let a number be
  minted before, between and after a crash. A fourth generation is needed only when each process starts
  twice. Two processes are enough for the races: the lock admits one writer, and a property speaks of at
  most two records. `MaxN` leaves room above the numbers a run can use; `vault_keys` needs some above
  `FarBase = 3`.
- *Content cache.* One thread makes a text while the other one, or a look at the disk, changes the
  vault: one value is found by a rule, one by the NER service or the known list only. Two contents
  compete for one entry. A second lifetime can have the same size as the first.
- *Engine pool.* A file with a last good content and one without; two sessions compete for one place;
  three edits: one before a build, one in it, one after it.
- *Registration.* A class of its own, one that inherits from it, one that overrides, one without the
  method, half of them registered later, on hosts with every subset of the targets; three calls by two
  threads, so a third call meets what two made at once.
- *Posts.* Every place a token can be in, alone and next to others; hosts on the list, under one, and
  off it, with the list missing, empty or edited; the vault grows and changes its lifetime.
- *Audit log.* Ten lines of which two fill a file (`Limit = 1`), so that the three old files fill and
  the oldest is dropped; one writer is killed, one goes on without the lock.
- *Sessions.* `MaxSent = 1` and `ReplayMax = 1` make every second session and entry evict the first;
  two turns are enough for a reply to come back in a history or to meet a reused thread. Prompts hold
  a value, and one also a token that somebody typed; replies name both tokens, or write a value.
- *Decider.* Two callers and the shadow with one slot, a cap of two, a breaker that opens at two, three
  calls and one midnight: every limit is met by two actors at once.
- *NER.* Two starters and two clients; a breaker of two ticks; the service falters and recovers at any time.
- *Streams* of five characters hold a whole token with a neighbour on each side, or one cut by another
  bracket; up to two restores raise in an attempt; *texts* of four characters with finds of at least two, up to two of each kind, have every way in
  which three spans overlap; *requests* are one per wire format and form of system prompt, and arguments
  nested up to and beyond the depth of the walk (`MaxDepth`, 64 in the code and 8 here).

Values are interchangeable in the vault's runs, threads and sessions in `engines` and `live`; runs with
liveness use no symmetry. `CHECK_DEADLOCK FALSE`: once budgets, values, generations or turns are used up
there is nothing left to do; a call that hangs is looked for by `EveryCallReturns`, `EveryDecideReturns` and
`ComesBack`. Each property has a mutant, a plausible bug under which TLC finds it violated in the same
run.

Fairness. `EveryCallReturns` assumes strong fairness of the steps of a handler that is running. A waiter
for the lock polls every 10 ms for ten seconds (`_filelock.py` 28-43) while a holder keeps it for the
milliseconds of a few writes, and goes on without it in the end; strong fairness says just this: who
finds the lock free again and again gets it. `EveryDecideReturns` assumes weak fairness of each step
of a call that is under way: threads are scheduled, and waits (for a slot, for a backend) have a
timeout that is a step of its own (`decide.py` 348, 353). `ComesBack` assumes that time passes and that a client whose
call is under way goes on (its connections have timeouts); that the service answers in time from some
point on is the hypothesis of the property, not an assumption. No fairness is assumed of
new calls, faults, or the operator.

## 4. What is proved

Each theorem holds for every value of the constants that satisfies the assumptions the modules name:

- `ConstantsAssumption`, `PartsAssumption`, `ReaderAssumption`, `TextAssumption`: what kind of value each
  constant is; limits are positive, values that stand for none are in no set they are compared with.
- `NoSnapshotAssumption` (`VaultData`): the values for an absent and for a damaged file are no snapshots.
- `BlankAssumption` (`VaultData`): the empty tombstone, which the expiry of an idle vault leaves, names no generation.
- `StartersAssumption`: no starting NER service is the value that stands for none.
- `StreamAssumption`: a held tail may be longer than one character (`_MAX_TOKEN_HOLD`, HL 739, is 48).

The vault's theorems name one of four hypotheses on the constants more. They are about how the vault
is used and what happens to it, not about what it does, and each part is there because the property is
false without it (section 5 says how, and the runs of section 3 or TLC found it). Of `Dropping` this is
known of kills, failed writes and timeouts: TLC finds `DroppedStaysDropped` violated in `vault_drop` with one
of them next to the `clear`. With a second thread, another key, or damage in use it finds no violation
there; those parts are what the proof needs.

| hypothesis | says | without it |
|---|---|---|
| `OneCallEach` | no two threads of a process are in the vault at once | `vault_reuse_race`; a waiting thread undoes that its process was locked out |
| `Orderly` | `OneCallEach`; one valid key for all or none for all, torn lines only without a key; no lock timeout, no write that raises, no drop, no line that lost just its newline; files are damaged only while no process runs. Kills, torn lines and that damage are unbounded | each of them loses or renumbers tokens |
| `Undisturbed` | `OneCallEach`; each process any valid key or none; no torn line, timeout, drop or damage of files in use. Kills, failed writes and damage to files at rest are unbounded | a writer overwrites what it has not read |
| `Dropping` | `OneCallEach`; one valid key for all or none for all; no kill, torn line, timeout, write that raises, or damage to files in use (without a failed write `save` has nothing to do). `clear`, expiry, clean exits and damage to files at rest are unbounded | a process that knows only the journal, which a kill before the first snapshot leaves, writes it back; so does one with an unwritten mint (346-347), and one that goes on without the lock during a drop |

For the reader `OneHarm` adds that one copy is harmed at most: after a start has written both copies
anew, a second harm can meet the reader between its reads.

| theorem | says |
|---|---|
| `DurableVaultProofs!TypeCorrect` | `Spec => []TypeOK`: `_load` and `_sync_locked` give well-formed objects from whatever the files hold, and only a process with a lifetime writes one |
| `DurableVaultProofs!CoherentVault` | `Spec => []Coherent`: a value's token restores to that value in every process, through merges, swaps, mints, crashes and faults |
| `VaultStoreProofs!NothingIsLost` | `Orderly => (Spec => []Durable)`: whatever crashes, who starts next restores all that was handed out |
| `VaultStoreProofs!RestoredValuesAreRight`, `LifetimeIsShared`, `RestoreFinds` | likewise `RestoresFaithfully`, `SharedLifetime` and `RestoreFindsIssued` |
| `VaultStoreProofs!VaultIsAStore` | `Orderly => (Spec => ImplementsStore)`: `DurableVault` refines `TokenStore` |
| `VaultStoreProofs!StoreInvariance` | the inductive invariant behind these five |
| `VaultKeysProofs!LockedOutStaysPrivate` | `OneCallEach => (Spec => []LockedOutIsPrivate)`: under any faults |
| `VaultKeysProofs!LockedIsUntouched` | `Undisturbed => (Spec => NeverTouchesLocked)` |
| `VaultKeysProofs!DroppedStays` | `Dropping => (Spec => DroppedStaysDropped)`: however often the vault is cleared or expires, the lifetime dropped last is not written back next to its tombstone, be it named there or not |
| `EgressProofs!SentAsHandedOut` | `Orderly => (ReadSpec => []EgressFaithful)` |
| `EgressProofs!SentInFull` | `Orderly /\ OneHarm => (ReadSpec => []EgressComplete)`: all of a vault that has a snapshot, good or bad, and no tombstone; nothing of any other |
| `ContentCacheProofs!CacheTypeCorrect`, `FoundIsMasked`, `TokensAreTheVaults`, `KnownIsMasked` | the bound of the cache; what rules or gazetteer found is masked; within a lifetime tokens are the vault's; in the first one every value known when a text is made is masked |
| `EnginesProofs!ConfigIsInForce`, `ProtectionIsKept` | a request is given an engine of the files as they are; an edit that does not load takes no protection away |
| `EnginesProofs!RegisteredOnce` | replies are restored exactly once, whatever classes inherit from one another |
| `EnginesProofs!TokensAreReported` | a token that leaves where the net looks is reported |
| `EnginesProofs!AuditIsKept` | old audit files are full, and what is gone is old |
| `LiveSessionProofs!LiveTypeCorrect` | `[]TypeOK`, with the bounds of the replay cache and of the sessions remembered |
| `LiveSessionProofs!ScopeIsOwn`, `ReplyGetsItsValues` | in the first lifetime a session gets no value it did not itself send; a reply gets its own values back, evicted or not |
| `LiveSessionProofs!WhatIsSentStands`, `NothingLeavesInClear` | what is sent, replayed or made anew, stands for what was to be sent; nothing filtered is in clear |
| `CorePartsProofs!DeciderTypeCorrect`, `SlotsAreConserved`, `CapAnnouncedOnce` | the decider's form; no slot is lost or made; the cap is told once a day |
| `CorePartsProofs!TokenIsOne`, `ModelStaysInHand` | one token for all; a recognition keeps its model |
| `CorePartsProofs!SettledAreBroken`, `OthersStayUntouched` | every value settled on is masked; the text around the values stays whole and in order |
| `CorePartsProofs!StreamsComeWhole` | a streamed reply of any length, cut anywhere, is its restored beginning but for a held tail, and whole at its end, as long as no restore raises; edits of MODE lose and repeat no character, a restore that raises at most one held tail |

The arguments:

- *Form of the vault.* `TypeOK /\ Coherent` is not inductive: a thread about to append or compact must
  have a generation to write (`InLifetime`), and what it put aside earlier in the handler must be there
  when a later step takes it up (`Carrying`). There is a lemma per action; those that load, sync, mint or
  merge rest on the first part of the module, which says of each operator of `VaultData` that it takes a
  typed, coherent object and good files to a typed, coherent object. `_merge` keeps its own token for a
  value and its own value for a token, so the entry it adds must be for a token it had not known.
- *What is kept* (`SInv`). `KeptOn(disk)` is the set of pairs that the good copies and the journal hold
  together. It is one to one and contains everything that was handed out (`IssuedKept`). Each good copy holds with the journal all of it and at most one copy is bad
  (`FilesSound`), so a start that has to take the backup finds all. A process knows what it has read, to
  its offset, and nothing that is not kept (`Knows`). Who holds the lock has synced: it knows all that is
  kept, so its next number is free and the payload it writes holds everything a truncation takes away
  (`Does`). There is a lemma per action. `NothingIsLost` and the others are consequences; the refinement maps an append
  to `Hand`, a load, sync or merge to `Learn`, the start of a process to `Join`, and all else to a stutter.
- *Locked out* (`PrivInv`). A generation of a locked-out process is drawn fresh and is written by no
  handler: `memory_only` is looked at before every write, and with one call at a time nothing turns it
  between the look and the write.
- *Foreign keys* (`KeysInv`). A process that may write has read the snapshot that is there, and
  all lines of the journal to its offset (`Acquainted`); what lies beyond it reads before it writes,
  under the lock, and is locked out if one line is not its own (`Careful`). Who is shut out of the
  snapshot is shut out of the backup too (`CopiesAgree`).
- *Dropped* (`DropInv`). There is a whole snapshot, or one of four reasons why there is none: nothing was
  written yet or all was dropped, it is being written or dropped, or it was harmed while nobody ran and
  its backup is whole (`FilesKept`). Who has seen a snapshot holds at least one token (`Lasting`), so its
  next sync sees the drop, of which `_sync_locked` asks `_seen` and a map that is not empty. Who has seen
  none has a lifetime that is in no snapshot, no tombstone and no other process, and is not the one dropped
  while the drop or its tombstone stands (`Unshared`, `Standing`). A tombstone is empty or names the lifetime
  dropped last (`Named`), and an empty one stops every process that has seen a snapshot. So who writes
  a snapshot where there is none has the lock and a lifetime other than the one dropped (`Heeding`).
- *Reader* (`ReadInv`, `FoundInv`). What is kept only grows while the reader reads, and every snapshot
  a writer puts in place holds with the journal what was handed out before; so what it does not
  find in the copy it finds in the journal, unless that was emptied meanwhile. A vault that is not listed
  leaves its map empty.
- *Content cache.* Of a text in the making, what was found is masked or still to do; of every text,
  entry and work alike the tokens stand. The second survives every step because the vault either grows,
  keeping its tokens, or begins a lifetime with a higher number. For `KnownIsMasked`: as long as the first
  lifetime lasts the list of known values has the length it is keyed by only if it is all the vault has.
- *Engine pool.* A signature that matches was taken before the files it names were read, and edits only
  move it on: an engine stored under the signature in force was made of the files in force. Builds come
  one after the other: once an engine has a file's content there is a last good one, and a builder that
  found neither came before it (`ProtectionInv`).
- *Registration.* A class has a layer of its own for each wrapped method exactly if it is listed and owns
  the method; what is inherited is restored where it is defined.
- *Posts.* A place is restored or still to do, and what is left there when it is passed is on the report.
- *Audit log.* As long as nobody rotates without the lock, each full file stands before a younger one
  and the lines behind a line fill the files between (`FullBefore`, `GoneAreOld`); a kill costs one file.
- *Sessions.* The four properties say nothing of the replay cache, the sets of shown tokens or a turn
  half done, so none is inductive. `IInv` adds: every entry of the cache, in memory and in the file,
  stands for its text in its own lifetime (`EntryInv`); every token in a session's set is of a value the
  session had, in the first lifetime (`SentInv`); the pairs of a turn stand, the tokens it put in are of
  its session's values and are in its thread's scope until the reply has been restored (`TurnInv`). It
  rests on the vault's map being injective: a map onto `1..n` from `n` values is one-to-one
  (`MapsInjective`). A step is that of one thread; the turns of the others stay because the vault
  grows and the histories grow (`TurnStays`, `OneTurn`), and a new lifetime makes each claim about
  the old one void (`LookInv`). `LiveTypeCorrect` needs that what is evicted was over the bound by one.
- *Decider.* The slots that are out are those of the calls at their backend; the cap is told by the one
  call that finds it untold, and midnight resets the count and the telling together.
- *NER.* The token file is written once, by a link that fails when it is there, and whoever goes on has
  read it after that.
- *Spans* (`MaskInv`). A pass goes from left to right and the last span kept ends last (`PassInv`), so a
  span that is dropped overlaps with one kept: in the second pass each value settled on is to be looked
  at, or overlaps a kept span (`SettledInv`). Those kept do not overlap, so a replacement leaves the text
  before it as it was given, up to the end of every span still to come (`TextInv`): the offsets hold, and
  a replaced span takes a character from every value it overlaps.

- *Stream* (`StreamInv`). What has arrived is what was sent on and what is held, and what is held is empty
  or begins with a bracket. No token spans such a cut: `restore_text` of the whole is that of the part
  before it followed by that of the rest. With MODE off for a while only numbers of characters are kept,
  and a restored value counts for the three it stands for; each restore that raises moves them apart by no
  more than the longest tail that is held. `Restoring` is a recursive function on positions;
  that it exists and has its properties is shown with the least position that has not (`WFMin` over a
  set), since an induction theorem with an operator parameter is beyond the provers here.

Only model-checked: `RequestReady`, which speaks of RECURSIVE operators over trees (`Payload`) and would
need induction over the tree; `KnowsUnwritten`. Liveness (`EveryCallReturns`, `EveryDecideReturns`,
`ComesBack`) is out of the prover's reach.

## 5. Where code and documentation differ

Four runs end in a counterexample; `PROJECT.json` quotes the lines.

1. *A token handed out before it is durable* (`vault_reuse_race`). A second thread reuses a token that
   the first has put into the maps (579) and not yet appended (583).
2. *A torn line locks an encrypted vault* (`vault_torn_encrypted`). Terminated by the next writer
   (478-482), it cannot be told from a line under a foreign key (105-106).
3. *A value learned later is not masked in older content* (`content_stale`). `engine.py` 58 computes the
   key anew after the text is made; if the vault learnt a value after the list was read, the text is
   stored under the size that includes the value, and later calls get it until the vault grows.
4. *A value found is sent whole* (`spans_displaced`). `detection.py` 83-85 drops a find of the second
   rank for one of the first, which a known value then displaces (`pseudonymizer.py` 30).

### Seen while modelling, without a run

Vault (lines of `durable_vault.py`):
- a process that learns in the middle of a `tokenize` that it is locked out mints without the far base
  (574-576; docstring 280-283, `docs/INTEGRATION.md` 105);
- the write-back of a lost snapshot empties a journal it has not read, and the next mint reuses its
  numbers (350-353, 455; comment 348-349);
- two drops in a row leave a tombstone for the second only (509), so a process of the first lifetime writes
  it back (`DroppedStaysDropped` speaks of the last), and a process that has only read the
  journal does not notice a drop (334); `clear` can race a mint of another thread (545);
- a journal deleted and rewritten to the old length is not read again (381), nor is one that is absent when
  looked at, for which the offset stays as it was (380-381): `ReadJournal` takes an absent journal for an empty
  one and sets the offset back; a live process that finds
  the snapshot unreadable does not look at the backup (378);
- an invalid key makes `_load` quarantine an intact encrypted snapshot (185, 248); a process with a key
  skips the plaintext lines of one without (108);
- an `os.write` that writes part of a line and does not raise counts as a success (486-490); what it leaves
  is the torn line of a crash, with the process going on, and is not modelled;
- a crash between the deletions of a drop and its tombstone leaves a drop that can be undone;
- a crash that takes just the newline of a whole line: the next writer terminates the line without having
  read it (478-482) and may mint its number again, and the earlier line wins in every reader. TLC finds
  `Durable` violated in `vault_crash` once its budget allows such a line (`torn_whole`), which no run does;
- a thread that waited for the lock while another one of its process was locked out goes on in
  `_sync_locked`, which does not look at `memory_only` again (324-389), and adopts the generation of
  a snapshot that can be read again (against 280-283): why `LockedOutIsPrivate` is proved for one call at a time;
- a torn line of a process with another key is terminated by a process that cannot read it, and the journal
  is emptied later (478-482).

Engine and cache: entries outlive the lifetime of the vault (`engine.py` 51); a text made while the NER
service is down is cached (57); the list of known values is keyed by length (`vault.py` 41); of two
values that partly overlap the tail of the dropped one stays in clear.

Engine pool (HL): a file that is made and deleted again while an engine is built leaves no trace in the
signature, in which an absent file is `(None, None)` (132-140), and the engine that has read it stays in
force (284-292); a read that fails once keeps the defaults under a good signature until the next edit;
`_fail_closed` may note an older profile as last good (302-306); of two profiles that differ in
`vault_ttl` the first one's holds.

Sessions (HL): a request that is off or refused leaves its thread with the scope of an earlier turn
(477, 482), so `OnlyOwnValues` speaks of turns with a scope of their own; `_SENT` is not keyed by the
vault's generation, so in a later lifetime a session's old numbers let it have values of others, which is
why the property is about the first; the generation is read once at the start of a request (500); a reply whose restoring raises is kept as it
came, with its tokens (662-663), of which `OwnValuesReturn` does not speak.

Stream (HL 742-783): when restoring raises, `cloak_filter_stream_delta` returns its argument although the
buffer is set already (758, 766-767): what was held before the delta is lost, and what is held now comes
again, against the docstring ("on any error, returns the original text", 747); `cloak_flush_stream` has
taken the tail out of the buffer and drops it (774, 782-783), the loss of which its docstring speaks (772).
The model has both; `StreamsWhole` bounds what they cost. An edit of MODE in the middle lets the held
tail come after later text, which is why `StreamsWhole` speaks of characters then; legacy requests with
a `prompt` get no instruction.

Decider (`decide.py`): lines 18-19 say that a `local` primary never sends text to the vendor, and lines
319-320 start a shadow call to the other backend; midnight may come between the count and the
announcement; the announcement may be used up by an attempt whose result nobody sees; a shadow thread that cannot be started
keeps its place; callers past the breaker's check go on when it opens.

NER: several clients may probe at once; an answer that comes while the breaker is open sets `up`; two
models may be in memory while one is unloaded in use.

Egress: a vault without `*.json` is not looked at (`egress.py` 63-65): of one whose snapshot is lost, or
that has only a journal because its first process was killed, a script gets nothing though backup or
journal hold every token (against 16-17), and a `.cleared` that a kill has left next to a good snapshot
hides it; `EgressComplete` says so. A compaction between the two reads hides the tokens of the journal
(66-78, against 16-17), which is `emptied` in `EgressComplete`; with two harms, one to the snapshot and,
after a start has written both copies anew, one to the backup, the reader misses everything; one line
under another key hides the whole journal. `requests_egress.py`: a form given as a dict is restored in
place (170-172); tokens written as `\u27e6`, in keys, in wrapped base64, in lists of pairs are neither
restored nor reported.

Plugin: in the hook `_wrap_normalize` runs without `_PATCH_LOCK`, and its look at the mark and its setting
of the wrapper are two steps (133-138, 105-119), so a registration by the host next to `register` may wrap
a class twice; an override that calls `super()` is restored by its own wrap and by the inherited one.
`Registration` has neither: it wraps a class in one step, and an override there does not call what it
overrides. It lists each class once, under one `api_mode`; under a second one the mark (110) stops the wrap.
A class registered between the list and the hook is wrapped only at the next call
(`hermes_plugin/__init__.py` 125-140); with an empty registry the hook is not installed; a request
dispatched before `_DEGRADED` is filled is not withheld (297-298).

Files: the audit log after a lock timeout may lose its youngest full file (HL 107-113), and a kill between
two moves costs an old one early; `restore_file` (`egress.py` 115) and `install/apply_hooks.py` 116 write in place.

## 6. Not modelled

- *Recognizers, profile, gazetteer data*: regular expressions, checksums and tables over text. What they
  find is an input of `Spans` and `ContentCache`, in every combination.
- *Tolerant forms of tokens* (`restorer.py` 32-41): a regular expression over what models make of a token.
- *`sanitize_outbound`, `restore_inbound`, `hermes_hooks.py`, `guard.py`*: older entry points to the same
  engine that the plugin does not call.
- *What the audit lines and alerts say, names of sessions, permissions of files, the command line*: no state
  the properties tell apart.
- *Several homes*: each has its own files and shares nothing with the others but the process.
- *HTTP*: a call is answered, refused, or late.
- *Installer, end-to-end check, demo*: scripts that edit or exercise an installation once.

What a continuation could add: the vault's theorems with failed writes, which keep what is on the disk;
`DroppedStays` with kills, for processes that have seen a snapshot.
