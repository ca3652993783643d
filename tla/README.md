# Linkly: a TLA+ verification project

Linkly compiles `.lnpl` programs (entities, services, workflows made of `find`,
`set`, `create`, `update`, `delete`, `emit`, `call` and `reject` steps) into an
IR and runs them: in an interpreter (`impl/lnpl/interp.py`), behind HTTP
(`wsgi.py`, `serve.py`), over stores, caches and networks (`drivers.py`), with
an outbox whose emissions a relay process carries to other services (`cli.py`),
or compiled ahead of time (`backend.py`, "mode B"). Agents change a compiled
program through a protocol of proposals (`protocol.py`, `agents.py`), an editor
and MCP clients look at it (`lsp.py`, `mcp_http.py`), and tools migrate, back up
and launch what runs. This directory models what several runs, threads,
processes and clients do to each other, and what the compiler promises of a
program it accepted.

Paths below are relative to the repository root; `impl/lnpl/` is dropped from
the names of its files.

## 1. Inventory

### Components, their state and their operations

| component | state | operations | interacts with |
|---|---|---|---|
| sqlite repository driver (`drivers.py` 560-1300) | tables `lnpl_rows`, `lnpl_outbox`; per thread a connection, the flags `_in_tx` and `_sql_tx_open` | `begin` (lazy), `select`/`query`, `persist` of an assignment (version check), create, `update` (`_touch`), `delete`, `emit`, `commit`, `rollback`, `close` | called by the interpreter, one transaction per run; its outbox is read by the relay and the SSE tail |
| idempotency claims (`drivers.py` 920-1010) and their routes (`wsgi.py` 2600-2900) | table `lnpl_idempotency`: key, state, recorded result, time of creation | `idempotency_begin` (SELECT, DELETE of an expired row, INSERT), `_finish`, `_release` | wrapped around one run by the HTTP route and by the CloudEvents route; fed by the relay's redeliveries |
| outbox relay (`cli.py` 970-1190) | the process's batch and list of acks; `delivered_at` in the outbox | drain, POST, ack, sleep, `--once` | reads the repository's outbox, posts to the event route of another service |
| SSE tail (`wsgi.py` 2380-2480) | `after_seq` of a generator | subscribe (with `Last-Event-ID`), poll, yield, idle out | reads the outbox while runs commit |
| network resilience (`drivers.py` 1620-1760) | `_Breaker` per target in the driver's dict | `allow`, `record`, the retry loop | called by the threads of the server inside `call` steps |
| HTTP connections (`drivers.py` 1833-2042) | per-thread cache of connections | call, reuse, silent reconnect, close | below the retry loop |
| parallel blocks (`interp.py` 2820-3060) | futures, a lock, `cancel_event`, the virtual clock, outcomes by index | submit, run a branch (attempt, retry, backoff), wait, cancel, join, verdict | runs steps of a workflow on a pool made for the block |
| read-through cache (`interp.py` 1750-1800, 2500-2540) | cache entries of rows; the run's `_read_through_writes` | cached read, fill, invalidate after commit, discard after rollback | shared by all runs of a service, beside the repository |
| workflow execution (`interp.py` 1990-2370, 2850-2880) | bindings, virtual clock, attempts, the transaction | guard, effect, retry, deadline, commit, rollback | drives all of the above |
| expression evaluation (`interp.py` 700-1130, `money.py`) | none | compare, compute, assign, aggregate | interpreter; checked by lowering; compiled by mode B |
| compiler front end (`parser.py`, `lower.py`, ...) | the parser's pending guard, block, `otherwise` | text to items, items to IR, refusals, warnings | produces what the interpreter runs |
| mode B back end (`backend.py`, `differential.py`) | none at run time | unroll, refuse, compile guards; compare with mode A | the compiler's IR |
| HTTP shell (`wsgi.py`, `serve.py`) | token bucket, in-flight count and its condition, shutdown flag, metrics, audit | gate, limit, route, authenticate, dispatch, stream, drain | around runs and claims |
| read routes (`wsgi.py` 600-760, 2200-2570) | none; the client's cursor and ETag | list pages, single row, If-Match | rows, while other runs commit |
| token providers (`drivers.py` 1302-1550) | the pair of keys, its age, a lock | verify, lazy re-read, probe | the operator's rotation |
| agent protocol (`protocol.py`, `agents.py`) | document, tasks, proposals, answered keys | dispatch, propose, report, decide, merge | agents that draft from older documents |
| MCP servers (`mcp_server.py`, `mcp_http.py`) | sessions, tool slots, child processes | initialize, tools/call, DELETE, eviction, timeout | one thread per request |
| language server (`lsp.py`) | open documents, lifecycle | open, change, close, hover, code action, shutdown | an editor that does not wait |
| migration, backup (`migrate.py`, `sqlite_backup.py`) | files, one transaction | scan, re-read, persist; copy | the store a live server writes |
| configuration and launch (`config.py`, `cli.py`, `wsgi.py`) | none | `config check`, `serve`, `build_app` | file, environment, options |
| commands, generators, knowledge base, driver tests | files | batch | |

`PROJECT.json` lists the same components with the modules that model them and
what each leaves out.

### What is hard here

* Runs interleave statement by statement on sqlite connections: a `BEGIN` that
  takes no lock, a refused first write after which a read pins an old snapshot,
  a conditional `UPDATE` that matches no row, a retried step.
* A claim is three separately committed transactions around a fourth one. Each
  may be refused, each may be the last thing the process did, and the TTL may
  run out between any two.
* Delivery is at least once: relays die between POST and ack, several relays
  read the same rows, answers are late or lost, claims expire.
* A breaker and a cache are shared by threads without a lock; a virtual clock is
  shared by the branches of a block and partly read without the lock.
* Cancellation of a block races threads that pick up the next queued branch.
* Emissions are numbered when inserted and visible when committed.
* A request is counted, limited, logged and accounted at different places of a
  chain of generators that a host may close at any of them, while a drain waits
  for the count.
* Secrets rotate in two reads, cursors and ETags outlive the rows they name,
  kept-alive connections outlive the peer's patience.
* Proposals, quick fixes and migrations are computed from a state that is older
  than the one they are applied to.
* The compiler judges the text alone: which steps run before which, under which
  guards; two execution modes and three launch paths must then agree.

`PROJECT.json`, "hazards", places each of these at its line with the property
that would catch it going wrong.

### What makes each component correct

* Repository: a run is one atomic step on current rows (`ImplementsLedger`,
  `AllOrNothing`); what it reports done is done
  (`CommittedSetsLand`); nobody's assignment disappears (`NoLostUpdate`, which
  `ImplementsLedger` contains for runs without update and delete).
* Claims: one effect per key and window (`OncePerWindow`), answers that agree
  with the store (`TruthfulAnswers`), no key blocked without cause
  (`NoStuckClaim`).
* Relay: ack only what was settled, one effect per emission until its claim first
  expires and no more per expiry than the service has deliveries in progress,
  every routable emission delivered while a relay is at work. Tail: every committed emission of the event once, in order.
* Breaker: open after N failed calls in a row, recovery. Connections: an answer
  is the one of its call, a connection closed while idle is nobody's concern.
* Parallel block: returns, leaves no thread behind, reports completion only when
  every branch ran, and its verdict does not depend on the interleaving.
* Cache: no entry of a row that was not committed, stale entries only for the
  reason the design admits.
* Workflow: effects outside the transaction are made once, assignments apply
  once, no late run is reported as completed.
* Expressions: an accepted text fails for its values alone, does not depend on
  where the epoch is, leaves values of the declared type, and compiles to the
  same decision.
* Compiler: no line is lost; a program without warnings meets no unbound result,
  no event without its operation and no unfilled list. Modes A and B make the
  same effects wherever both can run.
* HTTP shell: the drain waits for exactly what is in flight, every response is
  accounted for once, the bucket grants its rate and an honest Retry-After.
  Reads: pages are whole, an ETag protects the row it names.
* Tokens: a rotation by the documented procedure is unnoticed.
* Agents: every node hangs under one owner, an approval takes nothing of others.
* MCP: slots and calls add up, a session's end is final, calls are answered.
* Language server: what the editor shows is of the text the server has.
* Migration and backup: a live server loses nothing, copies are whole.
* Launch: what `config check` passes is launched, with the verifier it names,
  by either entry point.

## 2. Modules

| module | models | shape of the state |
|---|---|---|
| `RunLedger` | what the repository promises: a run is one atomic step | `stored`, `feed`, `fate` |
| `SqliteRepository` | every statement of a run; implements `RunLedger` | committed store and its generation, write lock, per run the SQL transaction (`none`, `begun`, `pinned`, `writing`) and its view, bound rows, owed retries |
| `IdempotentRequest` | claims and the two routes around one run | the claim row, the clock, per request the next statement, the run's transaction, outcome, answer |
| `Maintenance` | migration and backup beside a live server | rows with their version and birth, the migration's candidates and re-read row, its pending writes, the file |
| `OutboxRelay` | relays and the threads of the consuming service | rows, delivered rows, per relay its batch and acks, per thread of the consumer its delivery and next statement, per emission the claim row and its age |
| `OutboxTail` | an SSE subscriber and emitting runs | committed and pending rows, the generator's cursor, frames on the wire, what the client has |
| `Breaker` | retry loop and breaker of a target | the registered instance, counters and age per instance, per thread its attempt, whether the target is well |
| `ConnectionCache` | one thread's connections to a target | cached and used socket, the peer's side of each, requests and answers on the wire |
| `ParallelBlock` | a parallel block | the calling thread, futures, lock, clock, outcomes |
| `ReadThroughCache` | cached reads beside the store | stored row, cache entry, per run what it has read, written and filled |
| `WorkflowRun` | the sequential step loop | step, attempts, clock, bound row, transaction, effects made |
| `Values` | acceptance, evaluation and compilation of one guard, assignment or aggregate | the text, the verdict of lowering, the values held, the outcome |
| `HttpShell` | gates, count, limit, streams, accounting, drain | per request its place, status and records; count, flag, bucket, clock |
| `Resource` | list pages and If-Match while others commit | rows with versions, the walker's cursor, the poster's tag |
| `RotatingKeys` | a rotating secret and the threads that verify | provider, issuer, the pair and its age, lock, per thread its step |
| `McpHttp` | sessions, slots and children of MCP over HTTP | per request its place and child; `tool_slots`, `sessions` |
| `WorkflowText` | the parser of a workflow's body | the lines read, the items, what is still open |
| `Lowering` | refusals and warnings over the items | none: operators |
| `TwoModes` | parse, lower, run in mode A, plan in mode B; extends the two above | the items, the run's scope and effects, what it missed |
| `AgentProtocol` | dispatch, propose, report, decide, merge and the agents' assessment | document, tasks, proposals, answered keys |
| `LanguageServer` | one editor session | two streams, documents, what the editor holds and shows |
| `Launch` | three judgements of one situation | the situation and the three verdicts |

Eight modules hold the theorems: `SqliteRepositoryProofs` (the store and its
refinement of the ledger), `DatabaseProofs` (claims, migration and backup, on
`MCDatabase`), `OutboxRelayProofs`, `OutboundProofs` (breaker, connections and
tail, on `MCOutbound`), `ExecutionProofs` (block, step loop, cache, guards, and
the ledger beside them, on `MCExecution`), `McpHttpProofs`, `InboundProofs`
(shell, bucket, keys, If-Match and MCP, on `MCInbound`) and `ToolchainProofs`
(agents, launch, editor, the text of a workflow and its run's warnings, on
`MCToolchain`).

`MC...` modules give TLC's instances their programs, profiles and symmetries,
and compose: `MCDatabase`, `MCExecution`, `MCOutbound`, `MCInbound` and
`MCToolchain` extend one module and instantiate others beside it, and `which`
chooses at the start of a behaviour which of them runs, the others staying in
their initial states. The parts of such a run share no state in the code (or
only through what one already abstracts of the other, as the head of each MC
module says); the composition puts questions about one side of the system into
one run. Where components do interact they are composed in earnest:

* `SqliteRepository` maps onto `RunLedger` by `INSTANCE ... WITH`, a row becoming
  the set of runs whose assignments it carries;
* `OutboxRelay` has the relays, the rows `SqliteRepository` commits in number
  order, and the consumer's threads racing for the claim row statement by
  statement (SELECT, DELETE, INSERT, the run, UPDATE) as in `IdempotentRequest`;
  the consumer's store is in WAL mode, as the driver creates it, so that no COMMIT
  of a run is refused there;
* `OutboxTail` does not assume that order but models insertion and commit apart;
* `Maintenance` has the migration, the backups and the server on one store;
* `TwoModes` carries one text through parser, lowering, interpreter and plan.

### How state and actions correspond to the code

*SqliteRepository.* `Begin` is `begin()`, which only sets a flag; the SQL
`BEGIN` comes with the first write (`WriteStatement`), and a `WriteRefused`
leaves it open (`begun`), so that the next `SelectStatement` pins a snapshot
(`pinned`). A write from a stale snapshot is refused as sqlite does it
(`CanWrite`). `SetLands`/`SetConflicts`/`SetRefused` are the three results of
`persist()`; `CreateLands`... those of a create; `TouchRead` and `TouchLands`
are the SELECT and the UPDATE of `_touch`, two statements with others between
them; `Retry` is the interpreter's retry of an idempotent step. Sqlite itself
(locks, snapshots, busy refusals) is external and modelled from how the driver
depends on it.

*IdempotentRequest.* One action per SQL statement of `idempotency_begin`,
`_finish` and `_release` and one for each way in which the run between them can
end, including the one where an exception other than the expected ones leaves
`run_workflow` with its transaction open. `Wal = FALSE`, which the run uses, is a
store in rollback-journal mode, where a COMMIT can be refused; it only adds
behaviours.

*Maintenance.* `Scan` is the query before any transaction; `ReRead`, `Skip` and
`Persist` are the loop over the candidates, the lock being taken by the first
`Persist`; `Finish` commits or, when a row could not be resolved, rolls back. A
transaction of the server is one step: `SqliteRepository` has its statements.
`CreateOut`, `Copy` and `CopyFails` are `O_EXCL`, `.backup` and the removal of a
partial file. A row carries its birth, so that a row created anew is told from
the one that was deleted although both have version 0.

*OutboxRelay.* `Drain`, `Post`, `PostUnroutable`, `PostUnreachable` and `Ack` follow
`_relay_drain_once`/`_relay_pass`: ack after the whole batch, next pass after a full
batch with at least one ack (`NextMode`). `Post` only hands the delivery to a thread
of the consumer. `Select`, `Clear`, `Insert`, `Commits`, `Finishes` and `Releases` are
that thread's statements on the event route, `StatementRefused` is "database is
locked" at any of them; a row of the claim table, in progress or done, grows older
than its TTL whoever works on it (`Expires`). A response that does not come in time
(`ResponseLost`) ends the relay's process, because `_relay_post` catches no
TimeoutError, and so does the connection a dying service drops (`ServiceDies`); the
thread works on for nobody. A relay that has ended forgets its acks and is started
again or not.

*OutboxTail.* `ReadOutbox` and `YieldFrame` are the generator of
`_sse_frames`; a reconnect passes the last id the client has received.

*Breaker.* A method of `_Breaker` is one step: each is a few bytecodes between
I/O. The look-up in `breakers` and the registration are two, because the
capability policy is parsed in between.

*ConnectionCache.* The steps of `_one_http_attempt` between two waits: take or
make a connection, send, read; a failure on a reused connection before anything
was answered is tried once more on a new one, any other failure closes the
connection. The target executes, drops, delays and closes on its own.

*ParallelBlock.* What a thread does with the lock held is one step. The lock is
dropped around a network call, and `_retryable` reads the clock without it.
Futures and pool (`concurrent.futures`) are external: FIFO, `cancel()` fails
once a thread has begun.

*ReadThroughCache, WorkflowRun.* Described at the head of the modules.

*Values.* `Lower` is the judgement of `lower.py` (dimensions, text equality,
declared membership, presence, aggregates); `Decide`, `Assign` and
`AssignAggregate` are `eval_condition`, `eval_value` and the aggregates of
`interp.py`, with money in minor units as in `money.py`; `CompiledHolds` is the
sequence of i64 instructions `backend.py` emits for a guard, wrap-around and
truncating division included. A value is its kind, a number and a tag; the
range -8..7 stands for 64 bits, so that overflow and the most negative dividend
occur.

*HttpShell.* `Admit`/`TurnAway` are `_admit`, the flag and the count in one hold
of `_inflight_cv`; `Acquire`/`Limit` the two ways out of `TokenBucket.acquire`;
`Verdict` the order of the checks before a handler; `Leave`, `StreamEnds` and
`CloseStream` the places where `_inflight_wrap` gives the count back;
`Finalize` and `_done` the accounting; `Sigterm`, `Drained`, `GraceEnds`, `Exit`
the drain thread of `serve.py`. Tokens are counted in units so that fractions of
a token and of a second occur.

*Resource.* `GetList` is one page: the store's order, the cursor's position and
the page boundary; `CheckPasses`/`CheckRefuses`/`CheckFaults` are
`_check_if_match`, `RunReads` and `RunWrites` the run behind it with its own read.

*RotatingKeys.* `Verify` reads the clock and the pair; `TryLock`, `Stamp`,
`GetCurrent`, `Install`, `ReadFails`, `Release` are `_refresh_if_stale`; `Probe`
is `refresh_for_probe`; `Rotate`, `IssuerSwitches`, `DeletePrevious` the
operator's documented procedure.

*McpHttp.* `Arrive` is the chain of header and body checks, `FindSession`,
`EndSession`, `OpenSession` the three holds of the session lock, `Acquire` to
`Release` run_tool_call with its child.

*WorkflowText.* One step reads one line; what is open (block, guard, `otherwise`)
is the state. *Lowering* holds operators only. *TwoModes* runs an accepted text:
`EnterItem`, `RunStep`, `EndRound`, `Complete` are the interpreter's loop over
flattened items, `Compiled` the scan, the unrolled plan and the guards decided
with the values the run starts with.

*AgentProtocol.* One step is one request to its end (the transport is
in-process). `Propose` checks rights and structure against the document of that
moment, `Judge` assesses against the present one, `Override` does not, `Report`
settles a task; `AgentWorks` makes the drafts `agents.py` makes.

*LanguageServer.* The editor's steps append to one stream, the server's read it
and append to the other. What the compiler says of a text is the text itself, so
that a diagnostic carries whose it is.

*Launch.* `ConfigCheck`, `Serve` and `BuildApp` are chains of checks of which the
first that fails refuses; a behaviour judges one situation three times.

## 3. Runs

Bounds are constants of the cfg or, for programs and profiles, definitions of
the MC module. A "violation" run states what a doc, comment or test of the
repository says and shows a counterexample in the code as it is;
`PROJECT.json`, "findings", quotes the line.

| run | what it shows | bounds |
|---|---|---|
| `database` | with every operation, retries, refusals and crashes nothing of an uncommitted run is visible and a committed run's sets are there; one request of a key takes effect per window, answers agree with the store, no key stays blocked without cause; a migration and two backups take nothing from a live server | 2 runs, 2 keys, 4 effects; 3 requests on two routes, TTL 2, clock to 3; 2 rows, 2 backups to one file, 3 transactions of the server |
| `relay` | acks only of settled rows; one effect per emission until its claim first expires, and one more per expiry and delivery then in progress; undisturbed `--once` relays exit with the backlog delivered; every routable emission is delivered while some relay is at work | 2 relays, 3 threads of the consumer, batch 2, 3 rows, 1 expiry of a row under a running delivery, and six scenarios: two relays that run on, one beside one with `--once`, two with `--once`; no row, the first, the second or a full batch that cannot be routed; one fault or none; which rows expire while worked on |
| `execution` | every block returns and leaves no thread behind and completes only if every branch did; no deadline is missed unnoticed; calls, emits and creates are made once, assignments land once; cache entries are stale by overlap or outage only; conditions and assignments are sound and compile alike; runs that read, list, set, create and emit are atomic steps of the ledger | 3 branches (a call, two idempotent ones) on 2 threads, 1 retry, deadline 110 ms; 7 steps of every kind, 2 retries, deadline 720 ms; 1 reader, 2 updaters, 2 creators; about nine thousand guards and assignments over twelve declared and three undeclared names, with every value each may hold; two runs of four effects and one of one over a store with 2 keys: a refused first write, a snapshot pinned behind it, a write from a stale snapshot |
| `outbound` | the breaker is open after N failed calls in a row and recovers; an answer is its call's, a stale connection is invisible; a reconnecting subscriber gets every emission once, in order | 3 threads, threshold 2, 1 retry, window 2; 2 sockets, 2 calls of 2 attempts; 2 writers, 4 rows, 2 broken connections |
| `inbound` | drain, count and accounting are exact, the bucket honours its rate, a rotation is smooth, MCP slots and sessions add up, pages are whole, an ETag protects its row, drain and calls end | 3 requests (one that a gate may refuse, a probe or a stream, a workflow), a bucket of one token, clock to 2; 2 verifiers, 1 probe, 1 rotation; 4 MCP requests, 1 session, 1 slot; 3 rows, pages of 1 and 2, 2 writes |
| `toolchain` | no line is lost; warnings are complete; both modes agree; documents stay trees and approvals keep the rest; the editor agrees; configurations launch alike | all texts of up to 5 lines over nine alphabets, `until` capped at 2 rounds, both values of every input the text reads (a run of a text without a presence or a call is the same whatever those are); 7 nodes, 2 proposals and the tasks of both (or one and a task of a Reviewer asked for beside it), six hand-written drafts under two keys beside the agents' own; 6 messages; 116 thousand situations |
| `relay_lost_answer` | *violation*: a request that got no response ends the relay, and no next drain tries again | 1 relay, 2 rows, 1 failure |
| `store_update_loses` | *violation*: `update` writes back what it read before it had the lock | 2 runs, 1 key, 2 effects |
| `parallel_escape` | *violation*: a branch that raises something else is taken for a cancelled one | 2 steps |
| `retried_set` | *violation*: a retried `set` increments twice | 2 steps, 1 retry |
| `migration_overwrites` | *violation*: the migration overwrites a value of a row created anew | as `database` |
| `instant_set` | *violation*: a `set` of a DateTime field stores milliseconds | as `execution` |

Every property of a passing run has a mutant in `PROJECT.json`: an alternative
of one definition, written as a plausible bug (a dropped version check, a
forgotten release, an ack before the answer...), under which TLC refutes it.
The mutants stand in the modules, just before what they mutate.

Several properties name what the code cannot keep from happening, and say that
nothing else breaks them: a claim that another request's DELETE took away
(`ousted`), a refused COMMIT (`outcome = "refused"`), a replaced breaker
(`split`), an escaped branch (`Escaped`), a discard that was never made
(`abandoned`), a `set` retried half done (`again`), a stream closed before its
first chunk (`Leaked`), a token that met a re-read under way (`keyExcuse`), a
row behind an unroutable one that can end a full batch (`HeldUp`) or behind a
full batch of them (`Blocked`), a claim that expires while deliveries are in
progress (`lapses` in `EffectivelyOnce`), an If-Match check that failed, was
overtaken or met a row born again (`unchecked`, `overtaken`, `reborn`),
diagnostics the editor itself sent out of date (`misfits`), programs mode B
refuses or decides from other values (`Predictable`), settings the two entry
points read differently (`SameWords`). Section 5 lists them.

### Bounds

`MaxOps`, `MaxTime`, `MaxSeq`, `MaxThreads`, `MaxLapses`, the `faults` of a
scenario, `MaxBreaks`, `MaxCalls`, `MaxWrites`, `MaxKey`, `MaxKeyTime`,
`MaxLines`, `MaxProposals`, `MaxTasks`, `MaxVersion` and `MaxSent` bound what
may happen and appear in guards only; `Brief` and `InTurn` bound the runs on the
store inside `execution` (one of the three executes one effect, the other two
are alike and begin in the order of their numbers). Three requests are the least
with which a claim can be taken over and then be released by its old owner under
a third one; three runs the least with which a reader is overtaken while another
writer waits, and four effects of a run the least with which it is refused its
first write, pins a snapshot, writes from it and is refused once that snapshot
is stale. Three threads of the consumer are the least with which a delivery
nobody waits for, and two others, meet at one expired row; three rows the least
with which a row stands behind a full batch of two. The TTL is two ticks, so
that "begun before, expired now" and "taken anew" are different times. Virtual
time is in the code's milliseconds (6 per step, backoffs of 100, 200, 400...),
not scaled. Five lines are the least with which a guard, its step, an
`otherwise`, its step and a reader of the result fit. Two proposals are the
least of which one can be stale. Symmetry is used over runs and over requests of
a route, in runs of invariants and action properties only; of the consumer's
threads, which are alike, the first idle one takes a delivery (`Free`). Deadlock
is not checked where the system may stop: relays started with `--once`, a store
whose migration is over, a server that has exited, a program that has been
compiled and run.

### Fairness

* `OutboxRelay`: a running relay loops, so drain, post and ack are weakly fair; the
  threads of the consumer are scheduled and its runs end (run deadlines), so that
  their statements on the claim are; a claim nobody works on reaches its TTL.
  Nothing starts a relay again: `EventuallyDelivered` speaks of behaviours in which
  some relay is at work from some time on.
* `OutboxTail`: the client reconnects (SSE clients do), the generator polls on a
  timer, TCP delivers what was yielded on a connection that stays up.
* `Breaker`: time passes and calls keep coming. Strong fairness of a successful
  attempt says that a well target eventually answers a thread that keeps
  calling, since a breaker in between may refuse the call. Nothing is assumed of
  the attempts that fail.
* `ParallelBlock`: threads are scheduled and network calls time out.
* `HttpShell`: threads are scheduled, handlers and streams end (run deadlines,
  the idle timeout), and the drain thread is notified; nothing makes the grace
  period expire.
* `McpHttp`: threads are scheduled and `communicate` has a timeout; a child need
  never end.

Kills, refusals, failures and arrivals are never fair and are bounded.

## 4. Proofs

Forty-seven theorems in eight modules, each for every value of the constants
that the named assumptions admit. Each property follows from an inductive
invariant; one lemma shows it initially, one shows that `[Next]_vars` keeps it,
with a step per action, and the temporal step is PTL. Where a module composes
several parts, an invariant speaks of one part's variables, the others' steps
leave those alone, and the theorem is about the specification the run checks
(`MCSpec`). A theorem without a property of a run is either the invariant itself
or a part of such a property, as noted.

The assumptions are those the modules name and TLC evaluates on every run:
sentinels are distinct from values, counts and bounds are naturals, sets of
requests and threads are disjoint. They are finite only where cardinalities are
compared (`IsFiniteSet(Calls)` of `SlotsStayExact`, finitely many requests in
`ShellAssumption`) or something is run through to its end (the rows of
`ResourceAssumption`, the nodes of `DocumentAssumption`).
The bounds of a run (`MaxOps`, `MaxTime`, `MaxThreads`...) stay constants of any
value.

### The store (`SqliteRepositoryProofs`)

`TypeCorrect`, `StoreInvariant`, `AtomicRuns`. `AllOrNothing` is
not inductive: that a commit publishes only what the run itself wrote depends on
the view it commits. `StoreInv` adds

* `WriterOnCurrent`: the writer holds the lock and its view is of the current
  generation, hence no other run has committed since it was taken;
* `SnapshotsHold`: a pinned snapshot of the current generation equals the store,
  needed when a pinned transaction is upgraded to a writing one;
* `FeedExtends`: the writer's outbox is the committed one followed by its own
  emissions, in order;
* `NothingDirty`: views, bound rows and rows read by `_touch` consist of
  committed assignments and the run's own;
* `OpenWhileRunning`: only a running run has a transaction, and one without
  writes has emitted nothing.

A step of a working run leaves the store alone and either leaves its view alone,
pins the store, or writes with the lock held (`KeyStepWorks`, `RunStepWorks`),
and any step of that shape keeps the invariant (`WorkingKeeps`); so do rolling
back or crashing (`AbandonKeeps`) and committing, because the view is the current
store plus the run's own (`CommitKeeps`).

`CommittedSetsHaveLanded` is the action property `CommittedSetsLand`, with every
operation. `LandInv` says of each run that what it assigned is still owed (a
conflict the interpreter will retry or fail on) or stands in the view it would
commit, unless the run itself deleted the row; a row it created is there or
deleted; and the row `_touch` has read is the view's, so that its UPDATE puts
back nothing older within the run's own transaction. A commit needs an empty
list of what is owed.

`StoreImplementsLedger` is the refinement, from the same assumption and
`NoRewrites` (no `update`, no `delete`). `StoreInv` says that a writer is alone
on the current store, not what its commit makes of a row others have assigned
to. `LedgerInv` adds, per run, that a bound object is never ahead of its row and
carries the row's assignments when its version is the row's (`Tracks`), that a
writer's view is one step of that run from the store (`RowStep`), and that a row
the run created is in no one else's store. It holds because every change of a
row that is not the run's own raises its version; both excluded operations break
exactly this. Work is then a stutter of the ledger (`WorkStutters`), a commit is
`CommitRun` (`CommitCommits`), the other ends are `AbortRun` (`AbandonAborts`).
`StoreKeepsItsLedger` (`ExecutionProofs`) says the same of the specification the run
checks, beside whatever else executes there: the part of a behaviour that concerns
the store is a behaviour of `SqliteRepository` (`StoreBehaves`).

### Claims, migration and backup (`DatabaseProofs`)

`OncePerWindowInDatabase`, `TruthfulAnswersInDatabase`, `NoStuckClaimInDatabase`.
`RunInv` says where a request may be with which transaction and outcome, that a
claim row which is settled records the outcome of the run it names
(`RowIsTrue`), and that an answer, the last thing of a request, does too.
`OwnerIsKnown` adds what the owner of a row in progress is doing. `WindowInv`
says that a claim which counts (its run is not over, or took effect) is in the
row, past its time or ousted, and that any two such claims are a window apart.

`MaintenanceStaysSafe`. `UpkeepInv` says what the migration's re-read is worth
while the server writes on: the row in hand is the store's or the store has
moved on in version (`HandIsTrue`), what has been written under the lock is one
version ahead of a store that can no longer change (`PendingIsAhead`), and one
backup at most owns the file (`BackupsOwn`).

### The relay (`OutboxRelayProofs`)

`RelayInvariant`, `AckedIsSettled`, `EffectivelyOnceHolds`. What a relay holds to
ack, and a result the consumer would replay, is of a settled emission
(`AnswersAreSettled`). `RunsAreBudgeted` adds, per emission, the runs that committed,
those in progress and those that may still begin (`Admits`): one for an absent row,
one for every thread about to delete the row, and, once the row has expired, one for
every thread there is. The sum stays within `1 + lapses * MaxThreads`: an expiry
raises it by `MaxThreads` at most, a DELETE trades its thread for the absent row, and
the primary key lets one INSERT take that.

`CalmInvariant`, `OnceDrainsBacklog`: when every `--once` relay has exited and
nothing failed, the backlog is delivered. That one relay ends its pass with a
full batch confirmed proves nothing of the rows behind it; several relays hold
overlapping batches and answer each other 409. `DrainInv` says that every
routable row some relay could see is *carried* (`NoneIsLeft`): by one that will
drain it, has it in hand, or will go on after its full batch, because something
of the batch is confirmed or its last row may still be. That needs that what a
relay has in hand it drained (`HandsAreHonest`), that a busy thread has one relay
waiting for it and nobody leaves a claim behind (`ThreadsAreWaitedOn`,
`ClaimsAreCertain`), that a short batch was all there was (`ShortMeansAll`), and that two relays which share the last row of a full batch
share what follows, or both go on (`EndIsShared`). The attempt to prove it
without an exception failed on a case that the bounds of the run did not reach;
section 5 has it (`HeldUp`).

### Calls and streams (`OutboundProofs`)

`BreakerInvariant` (which includes the type invariant), `TripsHolds`. While no
registered breaker has been replaced, every failure is counted on the one in the
dict, which has seen as many as were in a row (`CountedOnOne`); an instance is
open exactly when it has counted enough.

`ConnectionsHonest`. That an answer is the one of its call rests on where
answers can be: only the connection being read from holds one, to this attempt,
and a request anywhere else was given up on (`WireIsKnown`); `ConnPlaces` ties
the cached and the used connection to the thread's step. A call that has met no
trouble was executed as often as it has made attempts (`CallIsSmooth`), which is
kept across the silent reconnect because a connection closed while idle never
took the request.

`TailIsExact`. `StreamFollows`: what the client has, what is on the wire and what
the generator has fetched follow one another in the event's committed rows
without a gap. It holds because numbers are given out under the write lock
(`StoreOrdered`): one run at a time has uncommitted numbers and they come after
every committed one. `Lists` (a sequence that lists a set in order) has lemmas
for its ends and for two lists that join.

### The interpreter (`ExecutionProofs`)

`BlockInvariant`, `NothingIsLeft`, `CompletedMeansAll`. A thread is in the worker
exactly while its future runs, the cancel loop has still to visit every future
that waits in the queue (`QueueIsVisited`), and a future says how its worker left
(`FuturesTell`).

`VerdictsStayHonest`. The verdict is given by a clock that every thread of the
block moves, and compared with a sum over the steps. `CostInv`: the clock is the
sum of what each step has spent so far (`ClockAddsUp`), and what a step has spent
is told by its attempts and its place in the retry loop (`Spent`), so that a
block in which everything was made has spent `TotalCost`, and one that met the
deadline would have exceeded it. `SumGrows` and `SumAdds` are proved of the
recursive functions by the induction lemma below.

`EffectsLandOnce`, `RunsCompleteInTime`, for any program. A step that is not
retried makes its effect once and in its turn (`MadeInTurn`); the transaction has
the sum of the `set`s that ran and the bound object agrees with it
(`TransactionIsOnCourse`), unless a `set` was retried that had already changed the
object (`again`); a run that goes on is within its deadline (`GoesOnInTime`).

`CachedReadsAreHonest`. A reader fills only committed values, a creator only its
own (`RunsFill`); one run at a time has an uncommitted row (`LockIsHeld`); an
uncommitted entry belongs to a creator that can still discard it or was given up
on (`EntryHasOwner`).

`CompiledGuardsDecideAlike`. For every set of texts within `Grammar`, every row
that `ValuesAssumption` calls well typed and every range of integers around 0. A
guard that compiles compares no texts, so each operand in the interpreter comes to
a fault or to the number the i64 channel carries; where the interpreter decides,
no arithmetic left the range, so the compiled arithmetic did not wrap and a divisor
was not 0. The negated predicate of `until` is the opposite for one term, and a
conjunction is inverted as a whole.

`DimensionsStaySound`. `Sound` says what a value of each dimension evaluates to,
`Moved` what the same expression gives when every instant of the row is moved by
the same amount: an instant moves with it, a duration and a number do not. Both
hold of each operator by the case the acceptance took, so an accepted `set`
writes a value that its field's dimension foresees, a comparison that was accepted
compares values of one dimension, and an aggregate picks a member of what it
ranges over.

### The HTTP surface (`InboundProofs`, `McpHttpProofs`)

`ShellInvariant`, `CountsHold`. The count is the cardinality of the requests in
flight and of the leaked streams (`Leaked`, the one named way out that keeps it;
any other that did would break `InflightExact`), so each step is shown to move
one thread into, out of or past that set; `Books` says what has been recorded of
a request by where its thread is.

`BucketInvariant`, `RateIsBounded`, `RateIsHonoured`. `GrantsAreCovered`: the
grants of any interval and what is left in the bucket are paid for by one full
bucket and the refill since; the lazy refill makes it a statement about every
pair of times. `WaitIsPaid`: a client that was told to wait is owed at least what
refills from then on, unless somebody else is granted a token after it.
`RateIsHonoured` needs `One <= Capacity`: a bucket that can never hold a token
grants none (a rate below one per second, section 5). `RateIsBounded` does not.

`RotationGoesUnnoticed`. The provider holds every key a valid token can be signed
with and the issuer is one rotation behind at most (`StoreHasTheKeys`, the
documented procedure); a pair that has been read is the provider's of some time
after its stamp (`PairIsKnown`), also half-read, which is why a read that
straddles a rotation is harmless: `previous` is fetched after `current`.

`MatchStaysProtective` is `MatchProtects`, a part of `ReadsAreHonest`: while a
conditional request is under way its row has the tagged version, or another run
has written and the row is gone or ahead (`TagIsDated`).

`ReadsStayHonest` is all of `ReadsAreHonest`. `WalkInv` says of a walk in progress
that it has been sent rows in the store's order up to its cursor, and of a row
that has stayed put that it was sent at its place if the cursor has come past it
(`HasComePast`). It rests on `OneOrder`: the order of the statement, with rows
that lack the field last, and the comparison with a cursor are one strict order.
A cursor is told from no cursor by its content, so that the theorem needs
`0 \notin Keys` (a row key is a nonempty text in the code); without it a row
with key 0 and no value would restart the walk.

`SlotsStayExact`, `SessionsStayHonest`, and both in the composition as
`SlotsAndSessionsStayExact`. Free slots and threads in a tool's places add up to
`MaxToolCalls` on every path, and a child exists only while its thread waits. The
session table lists opened, unended sessions, oldest first, and behind each there
is room for exactly those opened after it (`Listed`), so that a session which is
missing was ended or has seen `MaxSessions` later ones (`Missing`); what a call was
told is then right whenever it was told it (`Told`).

### The toolchain (`ToolchainProofs`)

`ApprovalsKeep` (an action property), `OwnersAreUnique`, `EveryNodeHangs`. A decision is judged
on the document as it is then, not as it was when the proposal was drafted;
`DocumentStands` (no node owned twice, none without an owner but the entries) is
kept by every approval because the structure check precedes the merge, and is
what the assessment's comparison of old and new references starts from.
`OwnersAreUnique` is the local half of `EveryNodeIsReachedOnce`. `EveryNodeHangs` is
all of it, and needs that nothing is below itself (`DocumentIsWhole`): going from a
node to its owner, ever more is below, so in a finite document the climb ends, and
it ends at an entry. What is below a node is defined by levels, as many as there
are nodes; `BelowIsClosed` and `BelowIsLeast` say that these are enough, the first
because a level that adds nothing is the last one.

Induction over the naturals is proved where it is used, from the library's
`WFMin` and `NatLessThanWellFounded`: the set of numbers of which a fact fails has
no least element (`Induction`), and a function declared by recursion satisfies its
equation (`Recursion`).

`CheckedLaunches`, `EntryPoints`. `JudgedOnce`: each verdict is the one function of
the situation the code applies. The rest compares three orders of the same
checks: what `config check` passes `serve` passes (`CheckedLaunches`), the verifier
and the network of `serve` and `build_app` come from the same words
(`SameVerifier`, `SameNetwork`), so that both make one server or both refuse.

`EditorIsInStep` is `EditorAgrees`. It speaks of the moment when both streams are
empty, which no step but the last has anything to say about. `EditorInv` extends
it to every moment by telling what the streams will say (`Tells`): the last
announcement of a document on a stream, or what its reader holds if there is
none, is what its writer holds; a request is answered about the text the editor
had when it asked, because the announcements before it are all read first; the
answers owed are the requests and answers on the streams (`Number`). No text
comes to a server that would drop it, since an editor sends texts between
`initialize`'s answer and its own `shutdown` (`SessionHolds`).

`NothingIsLost` is `NothingIsDropped`, for texts of any length: an accepted workflow
says the lines it was written with, in their order. `TextInv` says what holds
while the lines are read. `Kept`: the items, without the line that will close the
open block and with what is still owed (a guard with its `or` conditions, or an
`otherwise`), say the lines so far. `OneWaits`: a block, a guard and an `otherwise`
never wait for their steps together, so a line that comes has one place to go.
Each line then appends to one of the four (`AttachSays`, `BranchGrows`), and at the
end nothing is owed. What an item says is flattened from its parts, by
`FlattenSeq`; the one fact used of it is that it distributes over appending an item
(`FlattenAppend`). `TextAssumption` names what a line is: a keyword and a rest, the
rest empty where the parser keeps only the keyword.

`WarningsStayComplete` is `WarningsAreComplete`, for texts of any length, whatever
rounds an `until` takes and in whatever order the steps of a parallel block run.
`RunInv` says what a run has behind it: the steps of this branch that are not left
have run; a branch that the run has passed ran as a whole or not at all; every
unguarded step before the place has run; and before a step every one that
`Precedes` it (`PastKnown`). A result that was made stays bound, so a read that
misses had no such maker before it (`ResultsKnown`). What remains is the compiler's
identity of a guard: equal keys mean the same branch, or guards written alike
(`SameKeys`), since only a `when` has an `otherwise` (`OnlyWhens`, an invariant of the
parser). `NoRowAssumption`: no row is not a value a row has.

### What is only model-checked, and why

* All liveness (`EventuallyDelivered`, `BlockDone`, `Recovers`, `TailComplete`,
  `DrainCompletes`, `EveryCallIsAnswered`): fairness and ENABLED are out of the
  prover's reach.
* `ModesAgree`: the plan and its scan are folds over the whole text, and the two
  runs are compared as sequences. What such a fold returns for every text is
  induction over data; the run tries all texts up to its bound.

## 5. Where the code disagrees with what the repository says

Checked by a run of its own:

1. `update` overwrites a `set` committed between its two statements
   (`store_update_loses`).
2. An unexpected exception in a branch leaves the block `completed`
   (`parallel_escape`).
3. A retried `set` applies its increment twice (`retried_set`).
4. The migration overwrites a value written after it looked, when the row has
   been deleted and created anew meanwhile (`migration_overwrites`).
5. An instant is stored as an integer of milliseconds in a field declared
   `DateTime` (`instant_set`).
6. A request that gets no response, because of a timeout or a dropped connection,
   ends the relay's process (`cli.py` 994 catches only HTTPError and URLError), where
   the docstring of `_relay_post` (`cli.py` 975-980) says that it is left un-acked and
   the next drain cycle tries again (`relay_lost_answer`).

Stated as the exception of a passing property, or met while modelling:

*The store and its users*

* Two requests that saw the same expired claim both run: the second DELETE by
  key removes the first one's new claim (`drivers.py` 944; `ousted`).
* After a refused COMMIT (a store that is not in WAL mode) the flags are cleared,
  the rollback does nothing and the release commits the partial writes with a
  503 (`drivers.py` 884; `"refused"` in `TruthfulAnswers`).
* A row that is deleted and created again restarts at version 0 and passes the
  check of a run that has read the old one (`drivers.py` 634).
* A cached read that a commit overtook refills the cache after the invalidation;
  a `commit()` that raises leaves the run's cached row; a run that creates a row
  and reads it `cached` puts the uncommitted row into the shared cache
  (`interp.py` 2530, 2180).
* "database is locked" on a `set` or an emit carries no `failure_kind`, so a
  consumed event is dead-lettered instead of retried (`wsgi.py` 1070). Two
  producers in front of one consumer share the ids `outbox-<seq>`
  (`wsgi.py` 2792).
* A backup that is killed mid-copy leaves a partial `--out`.

*The relay and calls*

* A full batch of rows nobody can route ends the pass without an ack and is
  drained again (`cli.py` 1172): the rows behind it are not delivered while it
  stands there (`Blocked` in `EventuallyDelivered`; one scenario of `relay` has it).
* One unroutable row can do it to a second `--once` relay: when it is the last of
  a full batch whose other rows another relay is posting, those are answered 409,
  nothing of the batch is acked, and the relay exits before the rows behind it
  (`docs/backends.en.md` 338-342 describes this for a batch of rows whose publish
  fails). Three rows, the second unroutable, and `Limit = 2` show it (`HeldUp`);
  the proof of `OnceDrains` found it.
* An emission whose claim row has expired may run once for every delivery then in
  progress, not only for one: each has seen the expired row, and its DELETE by key
  removes the claim another has made since (`drivers.py` 928-957). The age is the
  row's, so that a claim whose run is still at work expires too (`drivers.py` 936;
  `lapses` in `EffectivelyOnce`).
* A half-open breaker lets every caller through until an outcome is recorded
  (`drivers.py` 1651), where a comment says "a single trial"; concurrent first
  calls register two breakers for a target (`drivers.py` 1692; `split`).
* A call can be executed twice within one attempt: a connection that closed
  after the request was taken is opened again and the request resent
  (`drivers.py` 485-498).
* The failed step a block reports is the one whose span began first, not the one
  that stopped it (`interp.py` 3013); two branches can find the same room before
  the deadline (`interp.py` 2858).

*HTTP and tokens*

* `docs/serving.en.md` 280-286 name two cases in which If-Match is not checked
  and say that a request is never let through silently; `_check_if_match` also
  lets it through when its read raises (`wsgi.py` 2550-2558; `CheckFaults`).
  The check and the run are separate reads, and a row born again has its ETag.
* A row whose declared integer id a `set` changes has a cursor other than its
  stored key, and a walk may skip or repeat rows.
* A stream closed before its first chunk never gives its place in the count back
  (`wsgi.py` 1605; the comments at 1448 and 1761-1767 say that every path out does;
  `Leaked` in `InflightExact` and `DrainCompletes`). The
  count is given back before metrics, audit and the host's write of the body;
  requests to `/-/` may start after the drain saw zero.
* A `--rate-limit` below 1 passes its validation (`wsgi.py` 3065) and admits
  nothing, ever.
* The age of the key pair is not looked at again under the lock, and a new key
  may be refused while a re-read is under way (`docs/backends.en.md` 1755-1757).
* An MCP request whose body never arrives whole ends at the host's timeout; the
  exit of the server abandons its daemon threads and their children.

*Language, compiler, mode B*

* `list where dueAt <= input.createdAt + 30d` is accepted and raises an uncaught
  TypeError (`interp.py` 792). Scalar minus instant and instant times scalar are
  accepted, which RFC-0016 section 3 does not list. An aggregate's result is not
  compared with its target's type. The sum of no Money has a null currency.
* A name compared as text in one term of a guard makes its numeric `==` terms
  textual. Mode B gives 0 for absent names and for digit strings
  (`differential.py` 146-150), wraps at 64 bits without a word and turns a
  divisor 0 into 1.
* `set` before `read` fails in mode A and completes in mode B; an `until` whose
  value a step assigns is decided at the start in mode B (`backend.py` 1658-1663
  against 907-919); presence guards share one flag there.
* The warning of a result bound under a guard does not cover `with` arguments,
  `by` lookups and guards; the one of a list nothing aggregates is false for a
  guarded list that ran. `repeat 0` is accepted, and `fail` in both branches.

*Agents, editor, launch*

* A decision on a review task that has ended merges first and then answers with
  an error (`protocol.py` 546). `_structure_fault` rejects documents the compiler
  itself writes (Assignment and Refinement nodes; `examples/staged.lir.json`). A
  repeated `agent.report` is an error where the RFC says idempotent, and an
  override's approval may drop references.
* Of a reference that two fields of a node give up, the assessment looks at the
  last field only (`agents.py` 343): an approval that moves a policy's reference
  can let the ownership of a workflow go when two fields named it. `UndoesNothing`
  therefore asks for the reference in one of the fields that gave it up.
* A quick fix is computed from the diagnostics the client sends, which may be
  those of an older text.
* `config check` passes a secret in the environment that is empty or too short,
  which `serve` refuses (`docs/serving.en.md` 1030-1036);
  `LNPL_JWT_SECRET_ENV=""` switches the file's secret off in `build_app`; with
  `--network http` and URL targets only, `serve` calls and `build_app` fakes;
  `build_app` applies neither the file's log format nor its exporter.

## 6. Not modelled

* `testing.py` and `spec.py` (specifications and tests of programs),
  `scripts/validate_ir.py`, the OpenAPI and deployment generators, the knowledge
  base, diagnostics' wording and the formatter: sequential, no state of their
  own, text in and text out.
* The lexer, declarations and types of the front end: the bodies of workflows are
  modelled, what surrounds them is assumed well formed. MLIR text and the C
  runtime: what they execute is (`TwoModes`, `Values`), not how it is printed.
* In the modelled components: row contents other than who assigned them,
  authorization, validation and `respond` of a run in `WorkflowRun`, the
  classification of a consumed event's result (a nondeterministic choice),
  lengths of real delays, the publisher variant of the relay (same control),
  logs, metrics and traces, doubled keys in the migration.

`PROJECT.json`, "components", gives each part its status.

## 7. Plan

Done: everything in section 2, with the theorems of section 4. Left, most
important first:

1. `map_consume_result` (`wsgi.py` 1029-1076) over all results of a run, in place
   of the nondeterministic choice, composed with `OutboxRelay`; two producers in
   front of one consumer.
2. Authorization, validation and `respond` in `WorkflowRun`, and row sets.
3. Theorems: `ModesAgree`, and the refinement of the ledger with `delete`.
4. The specifications and tests of programs (`testing.py`), as operators over the
   runs `TwoModes` produces.
