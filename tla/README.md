# Formal model of the checkout saga and of the squad's tools

TLA+ modules, TLC configurations and TLAPS proofs about the code of this
repository. Names of definitions follow the source; `PROJECT.json` maps every
definition to the lines it models.

## 1. The system

The repository holds two programs.

**The checkout** (`services/`, Java 21, Spring Boot, PostgreSQL, Kafka). A
`POST /orders` makes an order; an orchestrated saga reserves stock, authorises
the payment and, for a physical order, creates a shipment; then it confirms the
order, or undoes in reverse order what was done and cancels it.

| part | state | operations | hard because of |
|---|---|---|---|
| order-service | `orders`, its outbox | create under an Idempotency-Key, `order.confirm`, `order.cancel` | concurrent requests with one key, commands that come twice |
| saga-orchestrator | `saga_instance`, its outbox, `resumed` (memory) | start, accept or ignore a reply, tick (retry, time out, compensate), start-up grace | late, repeated, reordered replies; several replicas; restarts; timers |
| inventory-service | `stock`, `reservations`, its outbox | `inventory.reserve`, `inventory.release` | competition for stock, a release before its reserve, duplicates |
| payment-service | `payments`, `delayed_replies`, its outbox | `payment.authorize`, `payment.refund`, the poller of late replies | a refund before its authorisation, answers long after the timeout |
| shipping-service | `shipments`, its outbox | `shipment.create`, `shipment.cancel` | as above |
| common | `outbox`, `processed_messages`, Kafka offsets | write in the transaction, relay, consume once | failed sends, crashes between two stores, several relays |

The services share nothing but messages. A handler is one database transaction
that locks the order's (or saga's) row and writes its answers to the outbox; the
relay sends the outbox to Kafka, keyed by `orderId`; a listener commits its
offset after its transaction. Everything is at-least-once.

**The squad tools** (`tools/squad/`, Python, `squad-control/`): a control panel for
a team of agents that develop the checkout. Nearly everything they agree on is one
append-only log, `docs/squad/memory/decisions.jsonl`, which each branch of git has its own copy
of; what a tool believes is what it last read there.

| part | state | operations | hard because of |
|---|---|---|---|
| publisher (`publisher.py`, `publication.py`) | process, child server, `status.json`, `requests/`, a worktree to go back to | publish, swap, roll back, restart, replace itself, stop | HEAD moving under it, deaths at any step, checks that fail by chance |
| test environment (`testenv.py`) | the log folded by `derive`, containers, a worktree, a lock | request, publish, release, reset, `reconcile` | requests without the lock, PRs that move or end during a build, kills |
| production (`prod.py`) | image tags, containers, the last production event, a lock | update with rollback points, baseline | docker commands that stop half way, a copy that moves during a build |
| executor settings (`executores.py`, `run_agent.py`) | a versioned file, a photo and overrides per demand, a cache of logins | save, migrate, resolve with fallback, run, retry | editors and first steps that race, a cache that is stale |
| conversations (`conversa.py`) | a JSONL file and images per conversation, one active turn | send, cancel, deadline, stop, recover; propose, confirm, discard | threads that end the same turn, a log that other processes write |
| intake (`server.py`, `log.py`, `product.py`, `bugs.py`, `triage.py`) | the log, `codes.json`, folders, index and drafts of bugs, `inbox/` | register, add evidence, clarify, edit, control, start, triage | requests that read and append later, torn lines, stops half way |
| delivery (`gate.py`, `gitflow.py`, `pending.py`) | branches, pull requests, verification files | verify, record a gate, finish, review-sync, release, back-merge; feature-sync, review-update | one log per branch, commands that stop after any git or gh call |
| alerts (`alerts.py`) | none: a replay of the log | open and close alerts of gates, triage, reviews, handoffs | an event that changes an alert it does not evaluate |
| mirror (`github_sync.py`) | `github-sync.json`, issues and cards | handle each event once, in order | an event is several calls, any of which may fail |

The parts meet in the log and in GitHub: the intake writes what the delivery starts
from, the delivery's `review` and outcome are what the test environment, the alerts and
the mirror read, an alert is what a conversation may propose to delegate, a delegation
ends in `review-update`, a merge in a production update.

What makes each part correct:

* coordinator: a saga in progress is never forgotten and never charged twice for
  one try; it never sends both verdicts; it compensates all it may have done, in
  reverse; a late reply never turns it round; a silent participant cannot hold it;
* participants: one effect per order however often and in whatever order commands
  come; contradictory answers never; nothing held after a compensation;
* relay and consumer: nothing committed is lost; effects once and in order per key;
* order intake: one key, one order, one story told to all its clients;
* the whole checkout: a confirmed order holds all it needs, a cancelled one holds
  nothing, and every order gets there;
* publisher: what it says is on the port is; a bad commit goes back to a good one and
  does not return by itself; every request is answered;
* test environment: what is announced ready is what runs; nothing is published
  unasked; a demand that is over leaves, the next one gets its turn;
* production: an update recorded as done left what runs as its commit makes it, service by
  service, but for what was astray before it and what git shows it no path of; of what was
  saved and tagged again, "rolled back" means that what ran before runs again;
* settings: no edit overwrites one its author has not seen; one photo per demand;
  the Orchestrator stays on claude;
* conversations: one turn at a time, every question answered, every turn ended;
  one delegation of a demand at a time, a gate decided once per card, and what is pushed
  was confirmed and approved;
* demands: a demand the log can give back keeps its code; a bug is whole or absent; what
  starts was ready; one review per pull request, never without the Auditor's approval, and
  the outcome reaches develop;
* alerts and mirror: they show what the whole log calls for.

## 2. Modules

| module | models | state ↔ code |
|---|---|---|
| `SagaStatus` | `SagaStatus.java` and the transition table of `SagaStateMachine` | constant operators |
| `SagaCoordinator` | `SagaService`, `SagaRepository`, `SagaTimeoutScheduler`, `SagaStateMachine` | `saga` = `saga_instance`; `commands` = the commands ever in the outbox; `resumed` = the scheduler's flag, per replica |
| `Participant` | reply policy, reply envelope, simulated faults | constant operators |
| `InventoryService`, `PaymentService`, `ShippingService`, `OrderService` | the command handlers | one variable per table, one for the replies ever written to the outbox |
| `CheckoutSaga` | all of the above over Kafka | INSTANCEs sharing the variables; any message ever sent may be handled at any time, any number of times |
| `AtomicCheckout` | the contract: take in order, confirm with all or give back in reverse and cancel with nothing | abstract; `CheckoutSaga!Contract` maps the tables to it |
| `FairCheckout` | `CheckoutSaga` with delivery and scheduling fairness | `delivered`: what was handled since it was last sent |
| `OutboxRelay` | `OutboxWriter`, `OutboxRelay`, `IdempotencyGuard`, the listener container | `outbox` rows by id, the open transaction of each relay (`batch`, `sent`), the partition, offset, `processed_messages` |
| `OrderIntake` | `OrderService.create` | `pc` between its transactions; `rows` = `orders` by key |
| `StartupGrace` | the first scan against the listener's row locks | extends `SagaCoordinator` with `handling`, `down`, `overdue` |
| `Publisher` | `Supervisor` of `publisher.py`, the requests of `publication.py` | `status` = `status.json`, `requests` = the files in `requests/`, `worktree` = `plankton-squad-prev`, `head`, `tree` = the main copy; `memory`, `pc`, `job` = the process, lost when it ends; `child` = the server, `maintenance` = the page on its port |
| `TestEnvironment` | `testenv.py`, with what `gitflow.py` and the panel write that it reads | `env`, `queue`, `republish`, `reset` = what `derive` makes of the log; `stack` = the containers; `worktree`; `op` = the process that holds the lock; `asking` = a `request` between its reading and its writing; `owed` is a history |
| `SharedEnvironment` | what the test environment promises | `TestEnvironment` under names of its own, so that its theorems stand next to the publisher's |
| `ProductionUpdate` | `prod.py` | `image` = the `:local` tags, `running`, `defined` = the containers; `log` = the last production event; `caller` = what `update` read before the lock; `op` = the update that holds it, with three histories: what ran `before` it, the services put `back`, those `astray` when it started |
| `ExecutorSettings` | `executores.py`, the start and the retry of `run_agent.py` | `file` = `executores.json`; `photo`, `override` = events of the log; `panel` = what an editor has on screen; `run` = the processes between two reads; `known` = the cache |
| `Conversation` | `Store` and `Engine` of `conversa.py`, `chat()` of `server.py`, `install_signals` of `publication.py` | `store`, `images` = the files; `turns`, `active` = the `Turn` objects in memory; `sending` = what a request inside `send` has read |
| `DemandIntake` | the writing routes of `server.py`, `log.py`, `triage.py`, `product.py`, `bugs.py` | `rows` = the log, torn lines included; `codesLock`, `bugsLock`; `drafts`, `folders`, `index`, `inbox` = files; `req` = what each thread has read; `told`, `fromDraft`, `cut` are histories |
| `DemandDelivery` | `gate.py`, `gitflow.py` (start to back-merge), `pending.py` | `where` = the branch of the main copy; `log` = the log of each branch; `pushed`, `prs`, `verdicts` (verification files), `released`; `judged` = an opinion `gate.py` has checked and not yet written; `step` = the command that runs |
| `Alerts` | `Rules` and the delegations of `alerts.py` | constant operators on a log |
| `Delegation` | proposals of `conversa.py`, `delegation_check` of `server.py`, `feature-sync` and `review-update` of `gitflow.py` | `log`; `proposals` = the records of the conversation; `conf` = the confirmation under way (it holds the server's locks); `watch` = alerts read off running processes; `tree` = the demand's worktree; `pushing` = a `review-update` that has read the log |
| `DelegationScenarios` | logs to start `Delegation` from | one per kind of alert |
| `GitHubSync` | `github_sync.py` | `events` = the log; `mem`, `saved` = the state in memory and in its file; `hub` = issues with their cards |
| `Services` | coordinator, inventory, relay and order intake, one by one | INSTANCEs that share nothing, and the property of each |
| `SquadParts` | production, mirror and intake | INSTANCEs under names of their own |
| `SquadTools` | settings, production, delivery, mirror, intake and delegation, one by one | the same; `part` says which one moves |
| `Subsequences` | what is kept of a sequence, by its positions | constant operators |
| `FiniteSetFacts` | lemmas on sums, least and greatest elements, ascending enumerations and appended sequences | constant operators |
| `SagaCoordinatorProofs`, `CheckoutSagaProofs`, `ServicesProofs`, `ConversationProofs`, `PublisherProofs`, `SquadPartsProofs`, `SquadToolsProofs` | theorems (section 6) | |
| `MC*` | constants and bounds for TLC, fairness of a run with several parts | |

One action is one transaction where the code has transactions. In the tools an action
is what a thread or process does between two points where another one's writing can
come in: a lock taken or given back, a file read whose content is used later, a call of
git, gh or docker that may fail or take minutes, a wait. So `request` of the test
environment is two actions (it reads, then appends, without the lock), a save of the settings
is one (it holds the file's lock throughout), the record of a gate is two (the verification is
read, the event written, with nothing held), `update` of production is one per docker
command. In `Conversation` writing `stop_reason` and killing the process
of that moment is one action, since a process born in between meets `checkStop`.
In `Publisher` an action is what the supervisor's thread does between two waits.
A handler of `GitHubSync` is the sequence of its calls, and one action makes them in
order and stops at the first checked one that fails: one process handles events, and
nobody else reads what it has half done but itself, in the next cycle.

Abstractions: messages and events are records of kind, subject, and the fields that some
decision reads; amounts, addresses, titles and wording are left out; a `messageId` is
the number of the saga's state; an event's id is its place in the log; a time is not
set, ahead, or reached. `Publisher` and `ProductionUpdate` number commits in the order of
develop; what a commit makes of a service is a number. `TestEnvironment` keeps what
`derive` makes of the log, one operator per event, because nothing reads the log
otherwise; `DemandIntake`, `DemandDelivery`, `Delegation` and `GitHubSync` keep the log
itself. Histories, variables or fields the code does not have, are marked as such and read by
properties only.

A definition no specification uses, placed before one it resembles, is a faulty
variant: put in its place it must violate a property (`mutants` in `PROJECT.json`).

## 3. Runs

| run | question | expected | distinct states |
|---|---|---|---|
| `services` | is the coordinator right against *any* replies, with 2 replicas and 2 restarts? is stock conserved under any commands? does one relay lose, double or reorder anything? one order per Idempotency-Key? | holds | 183 000 |
| `checkout` | does the composition implement `AtomicCheckout`, do verdicts, late refusals and compensations behave, and is every order decided? | holds | 549 000 |
| `squad_flows` | one turn at a time, every question answered and every turn ended, images kept? does the outcome of every pull request reach develop? is what the test environment announces ready what runs, was it asked for, and does the queue move? | holds | 698 000 |
| `publisher` | does `status.json` tell the truth, is there a way back, does nothing that failed return alone, and does it settle? | holds | 880 000 |
| `squad_tools` | thirteen properties of settings, production, delivery, mirror, intake, alerts and delegations (below) | holds | 1 405 000 |
| `two_relays` | is the order per key also kept with two relays? | **violated** | – |
| `restart_grace` | is no deadline that expired during a downtime charged? | **violated** | – |
| `barred_commit` | does a commit the preflight refused stay off the port? | **violated** | – |
| `duplicate_issue` | does a failure half way not duplicate issues? | **violated** | – |
| `chat_race` | does a decision confirmed in the chat answer the verdict its human saw? | **violated** | – |
| `code_reuse` | is a code never used again? | **violated** | – |
| `double_delegation` | does a card confirmed twice delegate once? | **violated** | – |

Some runs put instances of several modules side by side: a variable `part`, chosen at the
start, says which one moves, and the others stay as they begin. The parts share nothing,
so the states of a run are the sum, not the product, of those of its parts, and each
property is looked at in the part it is about. Fairness is stated part by part
(`ServicesSpec`, `FlowsSpec`). `services` holds the coordinator, the inventory, the
relay and the order intake; `checkout` the composed saga; `squad_flows` the
conversations, a delivery with a release and the test environment; `squad_tools` three instances of the
settings, production, a delivery with two pull requests and a reopening, the mirror, the
intake, and the scenarios of delegation.

The properties of `squad_tools`, each against what a test would hardly reach:

* `NoLostEdit`, `OnePhoto`, `OrchestratorOnClaude` (settings): two panels and the command
  line save over each other, two first steps of a demand take their photo at once, an
  executor is logged out between the cache and the run;
* `UpdatedIsDeployed`, `RolledBackIsBefore` (production): merges and pulls during a build,
  docker commands that stop half way, kills, an `up` that fails its health, images that
  could not be saved or tagged again, changes the plan does not see;
* `ReviewsAreSound` (delivery): a finish that stops after any call and is run again, pull
  requests closed and reopened, logs that differ per branch, commands run on any branch;
* `MirrorIsSound`: calls of gh that fail at any place of a handler, an outage, restarts;
* `CodesStand`, `BugsWhole`, `StartsReady` (intake): two requests at any two places,
  torn lines, busy locks, stops of the server, drafts that expire;
* `AlertsExact`: the replay of the log event by event, which evaluates only the demand an
  event is about and only at some types of event, against the alerts of the whole log;
* `DelegatedOnce`, `PushIsAuthorised` (delegations): confirmations, crashes between the
  event and its record, a delegation that ends or a gate that is repeated while
  `review-update` runs, develop moving under a pull request.

The violations are disagreements between documentation or comments and code:

* `two_relays`: `docs/contracts/events.md` §1 guarantees the order per order id
  and `docs/architecture/README.md` §6 allows N replicas of the orchestrator. With
  `FOR UPDATE SKIP LOCKED` a second relay takes a later row of an order while the
  first holds the earlier one. `saga.md` does say "relay único"; and the run
  `checkout`, which assumes no order at all, shows the tombstones make it harmless.
* `restart_grace`: "nenhum timeout é cobrado antes dela" (`saga.md` §3.5). The
  grace itself uses `SKIP LOCKED`: a saga whose row the listener holds at that
  moment (for a late reply that will be ignored) keeps its old deadline, the
  replica is marked as resumed, and the same scan charges the timeout. The cost is
  one attempt of the retry budget.
* `barred_commit`: an import error "é barrado no pré-voo (…, o servidor nunca cai)" and
  "a 7070 responde com o commit anterior" (`publicacao-do-squad-control.md`, CA-2). The
  fast-forward has already put the refused commit in the main copy. When the server of
  the commit before it dies, `on_crash` starts the main copy again, under the old
  commit's name and without looking at its health: refused code is on the port until
  `CRASH_MAX` crashes bring the worktree back.
* `duplicate_issue`: "salva a cada evento: uma falha no meio não duplica issues"
  (`github_sync.py:422`). `create_issue` opens the issue, then adds its card, and only then
  remembers it. When the card fails the event is handled again and opens a second issue;
  the first is never closed.
* `chat_race`: "revalidação + gravação atômicas em relação aos demais escritores do log"
  (`conversa.py:1790`). The lock is the server's own; `gate.py` and `log.py` append from
  other processes without it. A gate's next verdict may fall between the validation and
  the record, and is then answered by a decision taken on the verdict before it.
* `code_reuse`: "Um código nunca é reutilizado" (`f2a-resolvedor-de-produto.md:106`).
  `append_task` (`product.py:374`) appends to the log without looking at how it ends. After a
  crash in the middle of a task's line the next task is joined to it, and readers skip the
  line the two make: that demand was answered 201 with its code and is lost, and the next
  demand is given the same code. `CodesStand`, which holds and is proved, therefore speaks of the
  demands that can be read in the log: no two of those share a code and each has the one
  it was answered with.
* `double_delegation`: "Confirmar duas vezes → 2ª `409 ja_decidida`; um só `delegation`"
  (`delegacao-pela-conversa.md:314`, CA-11). A step without a target (`ajuste-pontual`,
  `teste-quebrado` on a demand without review) shares its key with every other one of the
  demand, and an end "ok" clears the count of the key (`conversa.py:641`). A crash between
  `record_delegation` and the record of the conversation leaves the card open; its orphan is
  refused by the round, another delegation of the key ends well, and the first card is
  confirmed again: two `delegation` events of one card. `DelegatedOnce` holds of steps
  with a target, where the attempts in the card refuse the second confirmation.

What the models reach and the properties do not promise:

* *conversations*: two requests that read a file before either wrote give two questions one turn
  number (line 1421 uses the records of line 1407), so recovery counts the second as
  answered by the answer to the first: `AnswersAreSound` therefore speaks of numbers, as
  `recover` does. A turn's thread past its look at `stop_reason` writes its answer even
  after a shutdown that stopped waiting has marked the turn as interrupted, although the
  comment of line 1478 says a late `_finish` is ignored: one of each is allowed, no more.
* *publisher*: a request whose publication replaces the supervisor's own code is not removed
  before `execv`, so the new process publishes it again. A stop that comes while a server
  is being checked counts as its failure: a sound commit is recorded in `failedCommit`.
  A publication does not reset `next_restart`, so a crash noted before it makes the next
  one restart at once and uncounted. HEAD moving between the guards and the swap makes
  the target fail as "commit errado" though neither commit is bad. After the maintenance
  page, `prev_commit` may be older than the commit in the worktree.
* *production*: `rolledBack: true` says only that the last `up` was healthy. `rollback_points`
  leaves out a service whose inspect or tag fails (`prod.py:179-189`) and the result of
  tagging one back is not looked at (`prod.py:242-243`): such a service stays on the new
  image, although CA15 (`ambiente-de-teste.md:307`) says it returns to the one before.
  `RolledBackIsBefore` speaks of the services saved and tagged again (`back`).
  `plan_paths` is given one path per change: what a rename took out of a service is not seen
  (`Unseen`), and the service is recorded as updated without being built. A build that fails
  or is killed has rewritten some `:local` tags; a later update that recreates one of these
  services for its new definition alone starts the image of the failed build. Both are
  what `UpdatedIsDeployed` excepts (`Astray`): a service the update does not build and that was
  not, when it began, what the commit it starts from made, or whose change it is not
  shown. The code keeps no record of these, so they stay until something builds them. The log is
  read before the lock (`prod.py:197`), so an update may be planned from a commit
  deployed before the last one, and a pull during a build makes images of a commit other
  than their label: the property asks nothing of an update whose HEAD moved.
* *test environment*: `closed_reason` looks at the last outcome of a demand and not at
  whether a newer review is open; `publish` on the command line goes ahead of the queue;
  `reset-data` without a worktree to read fails in every cycle until something is
  published, and holds the queue (the exception in `QueueServed`).
* *delivery*: the outcome of a pull request opened again after its rejection was logged
  is lost, since `review-sync` finds the first one (`gitflow.py:331`); a release
  published in part cannot be run again (`gitflow.py:430`). A pull request may have two
  outcomes in the log: `review-sync` records on whatever branch is checked out
  (`gitflow.py:341-349`) and looks for an earlier outcome there alone, so one recorded on a
  branch is recorded again on develop and both meet when the branch's log is imported; and
  `release-publish` looks for none (`gitflow.py:419`). `ReviewsAreSound` speaks of reviews.
  `gate.py` checks an opinion against the last verification and appends the gate later
  with no lock (`gate.py:334-374`): a verification that ends in between may contradict the
  approval, and nothing is promised of it. Nor does a verification file name the commit
  it verified.
* *intake*: two requests may both start a demand, or answer one set of questions; each
  looked at the log before the other wrote.
* *mirror*: the exit of `gh issue close` is not looked at when a demand is cancelled: the
  mirror then says closed of an open issue (`unheard` in `MirrorIsTrue`).
* *mirror, repeated handlers*: the handoff of an agent with two open tasks takes the last
  one not handed over and marks it in memory before it moves the card. When the call of the
  card fails, the next cycle takes the task before it; when that attempt moves the card to
  "Gate (Auditor)" and then fails at the comment on the demand, and the process is restarted,
  the marks are lost and the third attempt takes the last task again: GitHub shows the other
  card in the gate while the mirror says "Em andamento", until an event moves it. TLC finds it with two
  failing calls, so `MirrorIsTrue` speaks of the first failure only; `ClosedByTheLog`
  holds whatever number of calls fail (section 6).

## 4. Bounds

* `StepMaxRetries` 2 (coordinator) or 1 (composition): the code compares the
  attempt with it once; both sides of the comparison are reached.
* `AttemptCap`: attempts are exact up to it, which is past the last comparison,
  then saturate; compensations retry for ever in a finite state space.
* `MaxRestarts`: 2 with two replicas, so each may restart between any two steps; 1
  in the compositions, where a restart only re-arms a deadline.
* One order in the composition: orders meet only in the stock, and the inventory's
  instance has three orders competing for two SKUs and an unknown one; its
  `CommandIds` is {1}, since the handler reads a command's id only to answer it.
* participants' `attempts` saturate at 2, the value `ReplyPolicy` compares with.
* the relay: two keys, three rows, batches of two, two failures: a retry
  row, and a second failure during the recovery of the first.
* the order intake: two requests, two keys, three bodies (one invalid).
* conversations: two requests, since a third is refused like the second; two
  questions, so that a turn can meet the end of the one before; one image, which is
  absent, pending, or in a question; one exit of the process, after which everything
  in memory is gone.
* publisher: three commits: the first, one that changes nothing under `watch_paths`
  yet breaks the server, and one that mends it and changes the publisher itself; two
  mishaps, so that a rollback can fail like the publication before it; two waiting
  requests, one being served and one that came meanwhile; `CRASH_MAX` 2, both sides of
  its comparison. In `barred_commit` the second commit is one that is published.
* test environment: two demands, one in the environment and one waiting; a second
  commit of the first one, which the guard refuses; two requests, so that one is being
  written while the other is served; one mishap (a failing command, a fallen container or
  a kill) at any step; `MaxRound` 3 for the 12 rounds of a reconcile, enough for what one
  cycle can find in a row (an interrupted publication, a demand that is over, the next).
* production: two services that are built and one that is restarted; the second commit
  makes one of them unhealthy and the third takes both back with another definition and a
  migration, one of them by a change no path shows (`Unseen`), so that every kind of plan, a
  stale tag, a partial set of rollback points and a refused rollback occur; two callers, one
  mishap and one pull during an update. Both properties are proved for any number.
* settings: two roles, one of them the Orchestrator; one editor with a run, two editors
  without, two runs without: the three pairs that can meet in the file.
* delivery: one demand with two pull requests, a stop and a reopening (`squad_tools`), or
  with a release and its back-merge (`squad_flows`). There are two events of agents in the first, so
  that the logs of two branches can diverge both ways, and a gate over one check; one
  event and no check in the second, whose question is the outcome. `MaxAside` 3: an outcome may be
  recorded on another branch until the third event, that is, after a gate and a review
  (otherwise every branch would multiply them for ever).
* mirror: histories of a delivered demand and of an agent with two tasks, two events
  more, one failing call and one restart: a handler is retried once from its beginning.
* intake: two threads and three requests; one legacy demand, frozen; one mishap.
* delegations: one demand per scenario; a scenario bounds its own events, proposals
  and alarms, just past the tries a category allows (two, one for a stalled agent).

## 5. Fairness

* time passes (`TimerExpires`); the timeout scheduler and the relay are
  fixed-delay tasks that catch every exception, hence weak fairness of a tick, of
  the first scan and of the relay's steps;
* a message in flight is handled at least once after it was last sent: the relay
  retries, the listener container retries transient errors without limit. Nothing
  is assumed of a *second* delivery, nor of replies to commands given up: progress
  that depends on retries must come from the coordinator's retries;
* a turn's thread goes on, its deadline comes, and a process that was killed ends
  (SIGKILL follows SIGTERM). A runner left alone may run for ever, nobody has to
  cancel it, and the deadline counts only while `stop_reason` is empty;
* the supervisor's thread goes on (no wait of it is without a limit) and its two timers
  come due while the loop turns: `TakeRequest` and `AutoPublish` happen again and again
  when they may. Strong fairness, since between two turns they are not enabled; nothing
  is assumed of HEAD, signals or people. `Settles` promises only once the main copy is
  left clear and the supervisor running;
* `plantao.sh` runs `reconcile` in every cycle, and a process that holds the lock of the
  test environment goes on: weak fairness of the steps of publish, release, reset and of a
  reconcile that has something to do (`Work`), and of a request that has begun. Nothing is
  assumed of people, pull requests or containers;
* the duty agent is started in every cycle in which `pending.py` lists work (`plantao.sh:24`):
  a main copy left on another branch comes back to develop (weak fairness), and what is
  pending there is recorded (`Duty`, strong fairness, since others switch branches in
  between); a command that has begun goes on or stops (weak fairness). Nothing is assumed of
  the human on GitHub;
* restarts and failures are bounded, that is, they come to an end. The coordinator
  alone (`ActionsEnd`) assumes nothing of the participants.

## 6. Proofs

| module | proves, for every value of the constants |
|---|---|
| `SagaCoordinatorProofs` | types, `TriesAreSound` and `VerdictIsSound` with each of their parts, `NoWayBack` |
| `CheckoutSagaProofs` | `VerdictsHold`, `UndoneStaysUndone`; that the composition implements `SagaCoordinator` and `AtomicCheckout` (`AllOrNothing`) |
| `ServicesProofs` | `StockIsSound`, `DecidedOnce`, `RelayIsSound`, `KeysAreKept` |
| `ConversationProofs` | `OneActiveTurn`, `AnswersAreSound`, `ImagesKept` |
| `PublisherProofs` | publisher: types, `StatusTruthful`, `OneOwner`, `NotRetriedAlone`, `WayBack`; test environment: `ReadyMeansRunning`, `PublishedOnRequest` |
| `SquadToolsProofs` | settings: `OrchestratorOnClaude`, `OnePhoto`, `NoLostEdit`; production: `UpdatedIsDeployed`, `RolledBackIsBefore`; delivery: `ReviewsAreSound`; intake: `CodesStand`, `BugsWhole`, `StartsReady`; mirror: `MirrorIsSound`; delegations: `AlertsExact`, `DelegatedOnce`, `PushIsAuthorised` |

`FiniteSetFacts` holds the lemmas several of them need, `SquadPartsProofs` the proofs about
production, the intake and the mirror that `SquadToolsProofs` extends.

Each theorem is of the specification of its part (`Spec`, `Inventory!Spec`, `Relay!Spec`,
`Intake!Spec`, `Test!Spec`), or of `ToolsSpec`, whose steps are those of its parts; fairness is used by
none. The assumptions are those the modules state about the constants, which TLC evaluates in
the runs: kinds of values and the relations between sets that the code fixes. Four of them
say more: an order has finitely many lines (`InventoryAssumption`), so that what is reserved
is a sum; one relay (`Replica`), since two break `OrderPerKey` (run `two_relays`); and
`Scenario`, that a log a delegation starts from is one the tools write: event ids are
places, a clarification answers a validation of its own demand, nothing was delegated yet;
and `SyncAssumption`, that a log the mirror finds is one the tools write (`IsLog`): an event
names a demand registered before it, and moves it as the server, the gates and the Git Flow
allow. What is appended while it watches is held to the same.

Induction over sequences and sets cannot be cited from the library, whose rules take an
operator. `FiniteSetFacts` proves what is needed by the least counterexample, from the
theorem that a well-founded relation has minimal elements.

`SagaCoordinatorProofs` goes row by row. `Successors` lists what a row may become in one
step and `StepOfRow` shows every action moves a row to one of these and adds the
command `Sent` of the new row. Then three strengthenings are shown inductive:

* timers: `TypeOK`, `OneTimer` and `RetryBudget` hold together. A due retry is
  pending only with a try left, which is what bounds the attempt it starts;
* commands: `CommandInv` = `CommandPerState` plus `History`. None of the
  properties about commands sent is inductive: the state alone does not tell what
  was sent on the way. `History` does: the types sent are among those the present
  status can have been reached through (`SentBy`), and the way back has been
  walked in order, a compensation only after the one before it. From it follow
  `NeverBothVerdicts` and `CompensatedInReverse`;
* ids: `IdsKnown` says which ids a row on the way to confirmation has learnt;
  `ConfirmCarriesIds` is its case of the last state.

`NoWayBack` follows from the same successor relation, with no invariant but types.

`CheckoutSagaProofs` is about any number of orders among participants that answer late, twice
or in any order. `CheckoutInv` has three layers. What the participants wrote is true for ever: a
reply says of its row what stays so (`RepliesTrue`), because no row goes back and a
compensation leaves a tombstone. No participant did what it was not told to (`RowsAsTold`),
and the coordinator told nobody to go on, or back, before the one before had done its part
(`ToldInOrder`); the second needs the first, since a reply the coordinator accepts is only
as good as the row behind it. Then the rows of the saga and of the order agree
(`SagaOfOrder`). From the three, a confirmed order holds all it needs and a cancelled one
nothing. `CoordinatorStep` shows that among the participants the coordinator takes steps it
takes alone, so `CommandInv` is used here and not proved again, and
`CheckoutImplementsCoordinator` follows. For `AtomicCheckout` every step is one of one
order (`StepOfOrder`), which moves its outcome as the contract does or not at all
(`AbstractStepOfOrder`).

`ServicesProofs`. *Stock*: what is reserved of a SKU equals the sum of what the reservations in
force hold (`Balanced`). The model adds with a fold; `SumsUp` ties it to a function on subsets, and a
row that comes or goes changes the sum by its quantity. What a reply says, its row says from
then on (`Tells`), so two answers to an order cannot disagree. *Relay*: `Written` says rows of
one key are written one after the other, so that ids ascend with messages within a
key although they interleave across keys. The batch holds, with a row, every earlier
one of its key that is not yet in the partition (`BatchInv`); with one relay this survives
a failed send, which drops the row and all after it. `PredecessorFirst` and `ConsumerInv` follow
the partition and the consumer: effects are a prefix of each key's messages. *Order intake*: one
transaction inserts under a key at a time, and every answer given still stands, because
the row never changes (`IntakeInv`).

`ConversationProofs`: inductive for `OneActiveTurn` is `TurnsInv`: whatever turn is open is the active one. It
holds because a thread that empties `active` has finished its own turn before, and
`send` looks at `done` and not only at `active`; numbers of turns never dangle
(`Numbers`), since turns are dropped only with the process. For `AnswersAreSound`
two counts are needed per file and number (`Budget`): marks of interruption plus open turns, and
answers plus threads that may still write, are each at most the questions. A thread
past its turn's end counts in the second and not in the first, which is why an answer and an
interruption of one question are both possible and a second of either is not. `Owed`: a
question without an answer has an open turn, while the server runs.

`PublisherProofs`:
`StatusTruthful` speaks of the loop at rest only, so the inductive `StatusInv` says what
holds on the way there: up to the safe point `status.json` still describes the port
(`Recorded`) although its state is another; from the swap on it does not, but the
server on the port is the one the step is waiting for (`Runs`), which is what the
record will say when it comes up. That the page never shares the port needs the same
facts: a rollback keeps the page as it is, and it is off because a server is there.
Lemmas say what each helper (`GiveUp`, `Rollback`, a server coming up, a step that
leaves port and record alone) establishes; each action is one of these.
`NotRetriedAlone` rests on HEAD never going back (`Behind`: every commit on record was
HEAD once): between the look at what failed and the guards HEAD may move, but only to a
commit nobody has seen fail (`Untried`). `WayBack` needs `WayInv`: the worktree is older
than HEAD, than the commit under way and than the one to go back to unless it is that
one, and what the process remembers as previous is never newer than the worktree; this
is where the truth of `status.json` is used, since the way back starts from it.

The test environment (`TestInv`): the process that publishes and the log it writes to are two
places, and others append to the log all the while. `IsOp` and `Publishes` say what the
process may rely on at each step: from `test-env-publishing` to the smoke test the
environment is its own (`publicando`, its demand, its commit), because the events others can
write under it, requests, leave the occupant alone (`AskedKeeps`); `Carries` says the containers have the
commit of an announcement unless they are gone. A kill leaves `publicando` behind, which
announces nothing. `DerivedInv` is about the fold of the log: who waits is not the occupant and
waits once, and who waits or is to be published again has a request unpaid (`IsOwed`), from
which `PublishedOnRequest` follows, since `publish` looks for that request under the lock
after the log may have changed.

`SquadToolsProofs`, settings: `OrchestratorOnClaude` is about three places at once. A run may hold a
file it loaded long ago, so the inductive invariant says of what a run has *seen*, of the
photo it may still take, and of what it is configured with, what the property says of the
file: the Orchestrator resolves to claude there. The squad's executor may be codex, so the
fallback needs the policy's case analysis. `OnePhoto` needs that a run whose source
is the photo was configured from the one that stands, which the second look under the lock
gives; `NoLostEdit` follows from the version: a panel that carries the file's version
has the file's content, because every save raises it.

Production (`SquadPartsProofs`): both properties speak of the last step of an update that took
many. `UpdateInv` says what the update may rely on at each of them, with HEAD moving under it. A service it answers
for and does not build is, until `up`, as its commit makes it, but for what `up` will recreate
or a restart reload (`Planned`); what it builds has an image of the commit, and after `up`
what runs is right but for the restarts (`OfTheCommit`). Both are conditional on HEAD being where
the update began, since a build uses the copy as it is. For the rollback, the
points saved are the images that ran before, and what was tagged again has them
(`WayBack`); the others are in neither set, whatever became of them. A step that ends an
update needs nothing (`EndKeeps`): what it leaves astray is found by the next one's start,
which compares what runs with the commit it starts from.

Delivery: `ReviewsAreSound` is about the log of develop, but what comes into it was written on
other branches, from copies of develop that may be old. `DeliveryInv` therefore relates the logs
of all branches. An id is of one event wherever it was copied to, so leaving out what
develop knows by its id loses nothing; and every `review` on any branch is on develop as
well (`EventsInv`), since only `open_review` writes one and does it there: hence
`import_memory` brings none, and the look for an earlier `review` of a pull request sees them
all. The approval is looked at before the push, on the demand's branch, and the command
may wait there: it stands in that branch's log, which nothing shortens while the command
runs (`StepInv`), so the import brings it before the `review` if develop has not got it.
Whatever a command does, a log ends up with events some log had and at most one new
event (`EventsFlow`), which keeps the first part (`EventsGo`).

Intake: `IntakeInv` of `SquadPartsProofs` has a part per property. *Codes* (`CodesPart`):
`product.py` computes every code anew from the whole log, so a new line might change the
code of an old task. It does not, because codes recorded in the log ascend, each is above
every code in force when it was written, and a demand has one task; whoever is about to write
holds `codes.lock` with a code that is the highest still, since under the lock nobody
else adds a task and a torn line adds no demand. What the two recursive
passes compute is then known in closed form (`AcceptedAre`, `CodesAre`): a recorded code is
always accepted, a task without one comes before all recorded ones and gets the next free
number. *Bugs* (`BugsPart`): past the verification of its draft a
request holds `bugs.LOCK`, so the mark it took is still where its own line of the index
begins, and cutting the index there drops that line only; the draft it works on was used by no bug
before. The evidence logged of a bug is fewer than its files, by one more while somebody is
between the file and the line. *Starts* (`StartsPart`): a validation names its place in the
log and a clarification such a place, also while a thread holds it unwritten; a start
that waits was ready in a log of which the present one is a continuation, and a
start is written behind all it relied on.

Mirror: `MirrorIsSound` says something only of a mirror with no event half handled, while
steps go through the middle of handlers, through restarts that forget what was done since
the last save, and through handlers begun again. `MirrorInv` says of the memory and of the
file alike (`Mirrored`) that each record is of an issue opened for it, that an issue not of
the diary is of the agent of its event, and that the issues of the demands are closed as the
events handled say. This last part needs that the log is one the tools write: a delivery or a
cancellation comes last (`MoveFollows`), so no event that closes or reopens the issue of a
demand comes after it, and what a gate or a human closes or reopens are issues of agents,
which no demand's is (`HelpersAre`). A handler that concludes a demand closes its issue in
its last call (`Concludings`), so a failure before it leaves the issue as it was
(`Closings`); hence `ClosedByTheLog` whatever number of calls fail. For `MirrorIsTrue`, with
an event half handled, the file and GitHub may disagree, but in nothing that the handler, run
again from the file, does not put right (`Mendable`): a wrong card has a call ahead that
moves it, an issue wrongly open or closed one that closes or reopens it. The repeated
handler is the same one only while the file it starts from is what the first attempt started
from; an attempt in the same process starts from the memory, which agrees with GitHub
(`Agrees`) or is what the file holds. Each call is shown once to be a step of one kind
(`Step`), so that a run of any length, with any of its calls failing, is an induction over
its calls (`RunKeeps`); what the handlers call is told by which issues they may touch
(`Tells`), since the lists the code builds are of any length.

Delegations: `AlertsExact` compares the alerts kept event by event, where an event has only its
own demand evaluated and only if it is of some types, with those of the whole log. The
proof does not go along the replay: for a demand, it takes the last event that had it
evaluated (`PartStands`) and shows that nothing the rules read of this demand was logged since,
so that each rule says the same of the log then and of the log now (`SameStanding`,
`SameGates`, `SameTriage`, `SameReviews`, `SameRequests`). It holds of logs of any
length and is where a type of event missing from the list of evaluated ones would show.
`ChatInv` is about the conversation's cards and the log that others append to. What a
card put in the log is what the card says and counts among the attempts of its step
(`DecidedInv`); a confirmation between its validation and its writing holds the server's
lock, and what it validated stands, since the other writers never delegate (`WriteInv`). A
second confirmation after a crash finds the attempt of its card used up where the step has a
target, which gives `DecidedOnce`; `DelegationInv` bounds the active ones. A push is `Backed`: a start,
then an approval at G3 of the same delegation, stand in the log before it, and the log only
grows.

Only model-checked: the liveness properties (`ActionsEnd`, `EveryOrderDecided`,
`EveryMessageArrives`, `TurnsEnd`, `LastOutcomeRecorded`, `QueueServed`, `Settles`), which
are out of the prover's reach here, as is all that rests on fairness or ENABLED. Nothing is
proved, either, of what a recursive definition computes for every input where the proof would be
an induction over data; a filter is therefore written over the positions it keeps
(`Subsequences`), a reader over the positions it reads, and the calls of a handler over the
issues and the deeds they pair (`Each`).

## 7. Not modelled

* checkout: step log, metrics, traces, `saga.step-changed` and the order's status history;
  the queries and controllers; validation field by field; dead letters (only malformed
  messages reach them, and no service writes one); the scheduler's batch of 50, ordered by
  `updated_at`, in which sagas whose tick keeps failing could hold up others; the
  clean-up of old rows, which the code does not do;
* publisher: the fast-forward that carries live memory of the panel along, the report of
  a blocked synchronisation, its events, a failing `git worktree`, the lock of the
  process (one supervisor is taken for granted) and the guards of the command line;
* test environment: which ports and paths the guard refuses (a commit is fit or not), the view;
* production: paths one by one (`plan_paths` is which services differ, less those whose
  change no path shows), warnings;
* settings: models and efforts, quotas, the agent's process, its output and its deadlines;
* conversations: creating one, the event stream, sessions and contexts, parsing of the runner's
  output, `stop_reason` set by the deadline in two steps (it only changes the word
  recorded), a torn last line after a power failure;
* intake: masking of evidence, detection of personal data, scanning of attachments, the
  registry of products; the command that freezes codes, run once (the models start frozen); an I/O error of `put_bug`, which stands outside the `try` that
  would undo it (`server.py:1585`);
* delivery: the checks of `gate_checks.json` themselves, the import of memory line by
  line, the texts of opinions (an opinion is a verdict with a claim per check);
* alerts: how a stalled process is found (its alert comes and goes by itself), texts;
* mirror: bodies, labels, priorities;
* server: routes that only read; instances, transcripts, usage figures;
* the consoles, containers and build.

## 8. What is left

The order of the work was: what a customer can lose first (coordinator, participants,
composition, relay, intake), then the tools by how much concurrency and recovery they
hold. What would come next: the publisher's `ff_with_memory`, where a crash between the
copy and the merge may lose lines of the log; and a composition of `DemandDelivery` with
`TestEnvironment`, which now sees pull requests and outcomes as its environment.
