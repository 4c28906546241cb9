# A verification project for workspace-os

workspace-os is a TypeScript monorepo in which humans and agents are *members* of one workspace.
They share a board of work items, call models and tools through gateways that meter and police them,
and leave an activity trail. State lives in Postgres (through drizzle), in a few maps of the server
process, and on disk; there is no lock and no queue in the process itself. Every hard behaviour
therefore sits at an `await`: two statements of one handler, with anybody else's statements, a
restart or an error between them.

This directory holds TLA+ modules of the parts that carry that logic, TLC configurations that check
them on small instances, and TLAPS proofs of what holds for every instance. Paths below are relative
to `src/`; PROJECT.json maps every definition to the lines it stands for.

## 1. The system

| Part | State it keeps | Operations | Who it meets | What is hard | What makes it correct |
|---|---|---|---|---|---|
| Work item (`packages/core/src/domain/work-item.ts`) | an immutable value | create, claimBy, start, complete, block, unblock, cancel | the board's repository and routes | guards are evaluated on a copy | its lifecycle only goes forward |
| Shared board (`drizzle-work-item-repository.ts`, `apps/server/src/routes/work-items.ts`) | table `work_items` | publish, list, claim-next, start, complete | members, activity log, runner | concurrent claims, stale whole-row saves, failure between two statements | claimed exactly once, by somebody eligible, in order of priority |
| Agent runner (`packages/agent/src/runtime/agent-runner.ts`) | a `Member` object and the locals of `runOnce` | runOnce | board, model gateway, activity log | crash after claiming, roles read long ago, a gateway that refuses what was claimed | works on nobody else's item, pays for none twice |
| Members (`member.ts`, `drizzle-member-repository.ts`, `routes/members.ts`) | table `members` | upsert, find, list | every handler | roles and identities replaced while in use | one row per identity |
| Activity log (`drizzle-activity-log.ts`) | table `activities` | record, list | board, runner, tool gateway | written apart from the change it describes | tells what happened, once, in order, in the right name |
| Sign-up and login (`signup-service.ts`, `routes/auth.ts`, `drizzle-human-credential-repository.ts`) | tables `members`, `human_credentials` | signup, login | members | two requests for one address; two inserts without a transaction | an address belongs to whoever was answered 201 |
| Sessions, agent credentials (`session-token.ts`, `agent-credential.ts`, `agent-credential-service.ts`) | none; signed tokens, judged by the clock | issue, verify | every authenticated route | expiry at the boundary, times that are no numbers | no token is good for more than an hour |
| Model gateway (`packages/agent/src/model/model-gateway.ts`) | a `Map` of used tokens per member | complete, usageFor | runner, providers | quota checked before the await, metered after it; restart | quota, no-egress |
| Tool gateway, policy engine, MCP tool (`tool-gateway.ts`, `mcp-tool.ts`, `policy-engine.ts`) | none | invoke, authorize | persona, policy, secrets broker, tools, activity log | five awaits, each of which may be the last | nothing forbidden runs; every answer is on the log |
| Secrets broker (`env-secrets-broker.ts`) | the environment | get | tool gateway | a secret is missing half-way | secrets go to allowed calls only |
| Message queue (`postgres-queue.ts`) | table of messages | enqueue, claim, complete, fail | its consumers | complete and fail by id, whatever the state; lost answers | one holder per message, never again once completed |
| Persona and policy versions (`persona.ts`, `policy-definition.ts`, their repositories) | tables `persona_versions`, `policy_versions` | create, revise, saveVersion, findVersion, findLatest | reviewers, tool gateway | two writers revise the same version | immutable versions, linear history |
| Sandbox runner (`docker-sandbox-runner.ts`) | one child process and one timer per run | run | the docker command line, through it a daemon and a container | timeout, exit and error race to settle; the kill and `docker rm` race the daemon | the answer is true, a timed run is answered, an overrun is stopped |
| Object store (`filesystem-object-store.ts`) | files below a root | put, get, delete, exists, list | its callers | listing while others write, puts that fail half-way, keys that are each other's directories | an object is what was put last; a listing shows what was there |
| Wiring (`build-server.ts`, `profile/*`) | nothing after start-up | select adapters | all | - | - |

Components call each other directly; what they *share* is the tables. So one module is one table, or
the few tables one operation touches, with everybody who reads and writes them as processes.

## 2. The modules

Conventions. An action is one awaited statement, with the synchronous code before it; statements are
atomic and everything else interleaves. Payload (titles, descriptions, prompts, tokens of a session,
wording of errors) is left out. Each definition that starts with "Mutant" in its comment is a
plausible wrong version of the one below it: no specification uses it, and PROJECT.json says which
property it must violate. Where one question has two answers, under different assumptions on the
environment, the assumption is a constant or a variable that no step changes (`Failures`,
`OneRequestPerUser`; `edits`, `failures`, `retries`, `chains`, grouped in `conditions`), and the
property names it: one run covers all the cases, and so does one proof.

### WorkItem, WorkBoard, SharedBoard, MCWorkBoard

`WorkItem` is the domain object: the claim rule, and the lifecycle as a table. `WorkBoard` is the
system around it. A process is an HTTP request or a runner. `pc` says before which statement it
stands, `job` holds its local variables: the copy of its member row, the item, and the copy of the
item it is going to save.

| Action | Code |
|---|---|
| `PublishRequest`, `ClaimRequest`, `TransitionRequest` | a handler has authenticated and parsed its request (`routes/work-items.ts`, `require-member.ts`): from here it holds its own copy of the member |
| `Select`, `SelectNone` | `SELECT ... WHERE state = 'open' AND eligible ORDER BY priority DESC, created_at LIMIT 1 FOR UPDATE SKIP LOCKED` |
| `Commit`, `Rollback` | `claimBy`, `UPDATE`, end of the transaction |
| `Read`, `Refuse` | `findById`, the assignee check, the domain transition |
| `Save` | the upsert of the *whole row*, without a condition; an insert is stamped (`Stamp`) with `created_at`, the start of its transaction |
| `Record` | the activity log's insert, then the answer |
| `Build`, `Stop`, `RunOnce`, `Reason` | the life of a runner; `Reason` is the model's answer and `start().complete()` on the claimed copy |
| `UpsertMember` | `POST /members` |
| `Fail` | a statement or a process fails at any point |

`created` is the column the queue is ordered by. It is any member of `Times`, since `defaultNow()` is
the start of a transaction and says nothing of the order in which rows become visible; that order is
the history variable `arrived`.

`SharedBoard` is what the board promises, without rows, copies or transactions: an item appears, is
handed to one member for good, and that claim is credited at most once. `WorkBoard` implements it
under `OwnerMap` and `CreditMap`.

`block`, `unblock` and `cancel` are in the lifecycle table and are not actions, because nothing in
the repository calls them.

### Signup, Accounts

Requests insert a member whose `identity_ref` is `local|<email>` and then a credential; the unique
index on either table may refuse. `POST /members` may rewrite an `identity_ref` in between
(`EditMember`), unless `edits` is false. `identityRef` and `credential` are the two tables, `pc` says
where a request is or how it was answered.

`Accounts` extends it with what the accounts are for. `POST /login` is `LoginArrives`, `LoginFinds`
(the credential's row), `VerifyPassword` (the slow hash) and `Grant` (`findById`, then a session token
good until `clock + Hour`); a password is named by the sign-up that chose it. `IssueKey` gives an agent
a credential with a time to live from `Ttls`, which has 0, the maximum, more than the maximum, and
`NaN`, with the arithmetic and comparisons JavaScript has for it. `Tick` is the clock. The two
history fields `mine` and `since` of a login say whether the sender was the owner of the account when
the login was sent, and when its token was issued.

### ModelGateway, AgentSystem

`Dispatch` and the four refusals are `complete` up to the await, in one step; `Answer`, of any number
of tokens from none to `MaxCost`, and `ProviderFails` come after it. `config.limited` says whether there
is a quota at all. `Restart` builds another gateway, of any configuration - only a workspace with quotas
stays one - with an empty meter. `usage` is the meter; `spent` is a history variable that no restart clears.

`AgentSystem` is `runOnce` between its two partners: it extends `ModelGateway`, whose callers are now
the runners, and uses the board through `SharedBoard`, which `WorkBoard` is proved to implement.
`turn` says where each runner is and with which item: `ClaimNext`, `ReportClaim`, then `Reason` (the
gateway lets the call through), or `Refused` (it throws, and nobody catches), then `Answered` or
`Rejected`, `Save`, `ReportDone`. `TurnFails` is a failing statement; `RestartProcess` ends runners and
gateway together. People publish and claim beside them.

### PolicyEngine, ToolGateway

`PolicyEngine` is `authorize` as an operator. `ToolGateway` is `invoke` from the allow-list to the
audit entry, each await a stage. Persona, registry, policy, required secrets and environment are the
record `setup`, chosen freely in the initial state. The order in which secrets are fetched is left
open. `Fail` is a failing statement; a failing insert of the entry may have committed, with its answer
lost. `Register` gives a member its row while calls are under way: the log refuses an actor who has
none.

### MessageQueue, JobQueue, MCMessageQueue

The table, and consumers written from the port's contract: each claims from its own queue, works, and
reports. After an error from `complete` it calls `fail`; it may repeat a `fail` that was not answered
(`retries`). `Select` is the subquery, which locks a row, `Claim` the commit of the update around it;
`Complete` and `FailMessage` ask for the id alone, as the code does. `Enqueue` takes `createdAt` from
`Times` in any order, since `now()` is the start of a transaction.

`JobQueue` is what the port promises, without rows, locks or statements: a message that is not done is
leased to a consumer, who finishes it or gives it back; the leases of a message are numbered. Two
conditions say how far one may rely on it: `exclusive`, one lease of a message at a time, and
`reliable`, what is done stays done and no lease gets lost. `MessageQueue` implements it with
`exclusive` as "no consumer repeats a `fail`, or nothing errs" and `reliable` as "nothing errs";
`LeasedMap`, `NumberMap` and `DoneMap` give the mapping.

### VersionStore, History, MCVersionStore

One persona or one policy. Every writer holds an immutable object (`draft`), which it created, loaded
or revised; two history fields say from which saved version it was made (`base`, 0 for one that was
created) and what the writer changed since (`changed`). `Insert` is `INSERT ... ON CONFLICT DO NOTHING`. With `chains`, a writer also revises objects that were never
saved or were refused. Content that a constructor refuses makes no object, hence no step.

`History` is the store with no writer or object in sight: versions are appended and never change, and
each one is the version before it but for what was changed in it, unless somebody chains
(`linear` is `~chains`). `VersionStore` implements it.

### SandboxRunner

One call of `run`; every call has a container name of its own, so calls do not meet. `Node` are the
callbacks of its event loop: `Spawn` and its two failures, `Error`, `Close`, and the timeout in two
steps, `TimerFires` (`timedOut = true`, `docker rm -f` is spawned) and `Kill` (SIGKILL to the command
line), because `docker rm` runs beside the rest of that callback. `Docker` is the world the code runs
in, not in the repository and modelled from its use: a command line that asks a daemon to create and
then to start a container and waits for it, a daemon that handles a request even when its sender has
been killed, a command that ends with any code, or never. Any of them may hang, refuse or die. When
the daemon refuses - no image, no container, no such command in it - `docker run` exits with one of
`Refused`, 125 to 127, which commands may exit with too. `TimeoutExitCode` is a constant, as the option
of that name is the caller's.

### ObjectStore, MCObjectStore

A tree of paths, of which some are keys. `put` is `MakeDirectory` (once per level), `Open` (created or
truncated) and one `Write` per chunk; `get` opens and reads chunk by chunk; `delete` and `exists` are
one call; `list` walks directory by directory. `PutFails` may follow any of the awaits. `at` says what
each path is, `data` what each inode holds, so that a reader keeps the file it has opened when the key
is deleted. Three history variables: `promised` is what a key should hold (`Unknown` after puts or
deletes of it overlapped or a put failed half-way; a get beside them changes nothing), `always` and
`ever` are the keys there were throughout a listing and at some time during it. A file-system call is
atomic; `rm` without `recursive` is taken to remove a file or nothing, at once, and how Node divides it
into a look and a removal is left out, as are objects of no bytes.

## 3. What is checked

| Run | Question | Bounds |
|---|---|---|
| `board_members` | Is each item handed out once and for good, worked on by one process, only to somebody who has held its role; does its life go forward and its trail tell it in order; is a claimer told "nothing" rightly? Refinement of `SharedBoard`. | a user with one request at a time, a runner, one item, two roles of which one is blank, failures |
| `board_live` | Is every effect recorded, is work claimed in order of priority, and is it claimed at all? | a user and a runner, two items, two priorities, two stamps, no failures, fair |
| `board_stale_save` | *violated*: does the lifecycle go forward when a user's requests overlap? | two requests of one user |
| `accounts` | Who gets in, for whom, and for how long, with and without failures and edits; is an address ever owned? | two sign-ups, two addresses, a foreign id and a foreign identity, one login, one credential, clock to twice the hour |
| `signup_race_answer` | *violated*: is a lost race answered 409? | two requests, one address |
| `agent_turns` | What is a quota worth under overlap and restarts; who pays for what; what strands an item; does every turn end? | two runners of an agent, a person, three items, one task and provider under every configuration, a quota of 2 or none, cost 0 to 2, one restart |
| `tool_calls` | Do permission, secrets, execution, log and answer agree? | two calls, one tool, two secrets, one role, failures |
| `tool_unaudited` | *violated*: is every execution on the log when the call is over? | one call, no failures |
| `queue_consumers` | Who holds a message, and is it done once, under each pair of assumptions? Refinement of `JobQueue`. | three consumers on two queues, two messages, two clock readings, three attempts |
| `versions` | Are versions immutable and the history linear, under contention and errors; what can be lost by writers who go on from refused objects? Refinement of `History`. | two writers, two fields of two values, three versions |
| `sandbox` | Is the answer the command's, does it come, and is an overrun stopped? | one run, exit codes 0, 7 and 124 to 127, `TimeoutExitCode` 124 |
| `objects` | Does a key hold what was put last, and a listing what was there? | two clients, keys `d`, `d/f` and `e/g`, values of one and of two writes |

Why these bounds. Each hazard here is a matter of two processes and one shared row; the bounds have
one more of whatever could interfere: a second item to be passed over, a third item to be stranded, a
third consumer on another queue, a third version to make a gap, a key that is another key's directory.
Two priorities with two items are enough for `NoOvertaking`, whose statement is about pairs. Two
sign-ups are enough for a race, since a third meets the same index; the theorems hold for any number.
A quota of 2 and costs up to 2 let calls land below, at and above the cap. With two stamps two items
come in the order of `created_at`, in the other order, or with equal ones; `board_live` has one user
and so publishes one item at a time, and `NobodyIsOvertaken` is proved for any number of publishers. Three attempts let a
message fail, come back, and be claimed while a late `fail` is under way. With an hour of one tick,
tokens issued at 0 and at 1 expire before the clock stops at 2. A value of two chunks is what can be
torn. `board_members` needs one item only, because two items meet in nothing but the choice between
them, which `board_live` is about; that the results hold for any number of items, requests and runners
is proved. Symmetry is used for requests, runners, clients, writers and field values, and only in runs
without liveness properties; `Objects.cfg` also has a `VIEW` that forgets the names of inodes, which tells apart exactly
the states that differ in contents or in sharing. Counters that grow without end in the code are
capped in guards and named: `MaxRestarts`, `MaxAttempts`, `MaxVersion`, `MaxClock`, `Times`; the finite
set `Items` bounds publication. Deadlock is not checked where the system really is done: all sign-ups
answered, all items taken, all tool calls ended, all messages completed, the sandboxed run over. TLC
evaluates the `ASSUME` of every module on each run.

Inductive invariants that are proved (`SignupInv`, `ToolInv`, `QueueInv`, `VersionInv`, `StoreInv`,
`SandboxInv`, `TurnInv` of the board, and `GatewayInv` as a part of `AgentInv`) do not all appear in
the configurations: the runs are for the properties they imply.

### Fairness

- A process under way takes its next statement (`WF` on `Proceed`, on `RunOnce` of `AgentSystem`):
  Postgres answers a statement or fails it. Where failures are in the model, liveness is stated for
  the behaviours without them, or says how it may end.
- `WF` on `Build` and `SF` on `RunOnce` of the board: the host of a runner builds it and calls
  `runOnce` over and over. That host is not in the repository yet; the tests drain the board with such
  a loop. The fairness must be strong because `Stop` may take an idle runner down and interrupt the
  enabling.
- `TurnsAreSettled` assumes besides that a provider answers or fails in the end (`WF` on `RunOnce` of
  `AgentSystem`). No code makes it do so - `complete` has no timeout - so a provider that hangs keeps a
  runner and its item. The property says that nothing *else* does: no refusal, failure or race.
- Queue consumers poll: `WF` on `Proceed` and `Select` together, per consumer. They may fail a message
  as often as `MaxAttempts` allows, and `EveryMessageServed` says what happens then: with a bounded
  number of failures nobody starves, although a failed message goes back to the *head* of its queue.
  One that fails for ever does starve those behind it; no code limits that, and no property says
  otherwise.
- The sandbox: the event loop runs what is due (`Error`, `TimerFires`, `Kill`, `Close`), and a
  `docker rm` that was spawned comes to an end, well or badly. Nothing at all is assumed of `docker run`,
  the daemon and the command, which is the point of a timeout.
- Nothing is assumed of clients: no request need ever arrive.

### Findings

1. **A stale save takes an item back** (`board_stale_save`). `work-item.ts:38-39` calls the
   transitions guarded. The guard is evaluated on the row that was read; `save` then overwrites the row
   unconditionally. A `start` and a `complete` that overlap can leave a finished item `in_progress`.
   `board_members` shows, and `LifecycleOnlyForward` proves, that it takes overlap: users who wait for
   each answer never see this.
2. **A lost sign-up race is a 500** (`signup_race_answer`). The comment expects the e-mail index to
   fire, and it is the members' identity index that does, one statement earlier, where nothing
   translates the error.
3. **A tool that throws is not audited** (`tool_unaudited`). The entry follows the tool's return; an
   `isError` answer of an MCP server, or a log that refuses the actor, leaves an executed call
   without one.

Behaviour that the properties had to be stated around:

- **the blank role** (`NothingLeftOut`): an item published with `requiredRole: ""` is unrestricted to
  `canBeClaimedBy` (`work-item.ts:110`) and restricted to holders of the role `""` for the query
  (`drizzle-work-item-repository.ts:56`), so `claimNext` answers null with such an item open. It is the
  only exception;
- **a time to live that is no number** (`NothingOutlivesTheHour`): `NaN` passes both checks of
  `AgentCredential.create`, and a credential with such an expiry is never expired, although
  `agent-credential.ts:1-4` calls an hour the hard ceiling. It is the only exception;
- **refused agents strand items** (`StrandedMeansRefused`): the runner claims before it asks the
  gateway, so an agent without quota or route that keeps polling claims every item it is eligible for,
  one per turn, and finishes none;
- **`docker rm` before the kill** (`OverrunsAreStopped`): it is spawned first, and when the daemon
  handles it before the command line has created or started the container, the container runs on
  after the timeout. It takes a daemon that is slow with one request and quick with the next;
- **124 to 127** (`AnswerIsTrue`): a command may exit with 124 itself, and one that ended just as the
  timer fired is reported as timed out; 125, 126 and 127 are docker's own answers when it has run
  nothing, or the command's code, and the runner passes them on (`:105`) without telling which; and a
  command line that somebody else kills yields -1 while its container runs on;
- **secrets of a call that ends for want of another** (`CredentialsConfined`): secrets are fetched one
  by one, so a permitted call may take some out of the vault and then end in a credential error. None
  is taken for a call that is not permitted;
- **writers that go on** (`NoSilentLoss`): whoever revises an object that was refused, or never saved,
  may save the next version over what others saved meanwhile. What is lost is exactly what was saved
  after the object's base, and only in fields the version's ancestors did not change anew;
- **equal stamps** (`NoOvertaking`): of two items of one priority and one `created_at`, or of which the
  one visible later carries the earlier stamp, the query decides; nothing is promised of them;
- **puts that overlap** (`PromisesKept`): two puts of one key may leave a mixture, of which the next put
  that nothing overlaps makes a whole object again, and a get that overlaps a put may read a part.
  `exists` answers true for a directory, and throws where a file is in the way of the key;
- a `complete` whose answer was lost, followed by `fail`, makes a completed message pending again
  (`ImplementsJobQueue` maps it to a step of an unreliable queue), and repeated `fail`s give one message
  two holders (`ExclusiveClaim` excludes them); `attempts` still tells the holders apart
  (`AttemptsTellApart`), so it could serve as a fencing token;
- calls that overlap overshoot a quota, by what `OvershootBounded` says and no more;
- a crash between the two inserts of a sign-up leaves an address that nobody can register or log in with;
- a runner that dies after claiming leaves its item claimed for good, as the code's comment on
  durable replay admits;
- a revoked role is still good for the claims of whoever read it before (`GatedClaim` says *has held*).

## 4. What is proved

All theorems hold for every value of the constants that satisfies the module's named assumption
(`ConstantsAssumption`, `SignupAssumption`, `AccountsAssumption`, `GatewayAssumption`,
`AgentAssumption`, `ToolAssumption`, `QueueAssumption`, `VersionAssumption`, `CodesAssumption`): null
values are no members of the sets they stand beside, bounds are natural numbers, `Items` and `Callers`
are finite, the keys of an object store lie in a tree of paths below its root, and exit codes are those
of a process. What a theorem assumes besides (`OneRequestPerUser`, `~Failures`) stands in its statement.

| Module | Theorems | The argument |
|---|---|---|
| `WorkBoardProofs` | `BoardInvariant`, `TypeCorrect`, `AuditIsTruthful`, `SelectionIsStable`, `WorkIsExclusive`, `BoardImplementsSharedBoard`, `GatedItemsStayGated`, `NullAnswersAreRight`, `LifecycleOnlyForward`, `TrailTellsTheLife`, `NothingGoesUnrecorded`, `NobodyIsOvertaken` | below |
| `AccountsProofs`, the tables | `SignupInvariant`, `CreatedIsExclusive`, `IdentityIndexSuffices`, `LoginIsFaithful`, `NothingIsStranded` | Identities are unique among rows. A request past its first insert holds the identity of its address, so nobody else gets past it and the second index is never needed - unless identities are edited, and then the second index alone keeps `CreatedOwnsEmail`. `NothingIsStranded` follows from the same two facts: without failures and edits the second insert is never refused. |
| `AccountsProofs`, logins and tokens | `AccountsInvariant`, `AccountsKeepSignup`, `RegisteredUsersGetIn`, `SessionsHaveOwners`, `TokensExpire` | Every step is one of `Signup` or leaves its tables alone (`AccountsKeepSignup`), so `SignupInv` is kept. A login carries what it has read (`LoginInv`); sign-up never changes or removes a credential, so the row a login holds across the slow hash is still the row in the table. |
| `AgentProofs`, the gateway | `GatewayInvariant`, `QuotaOvershoot`, `SpendingOverRestarts`, `RefusalIsFinal`, `NoEgressHolds` | Where there is a quota, `usage + MaxCost * (calls under way)` is the potential. `Dispatch` raises it by `MaxCost` only while `usage < Quota`, so it stays within `Worth = Quota - 1 + MaxCost * callers`; an answer moves tokens from the second summand to the first. A restart starts another `Worth`. The meter only grows within a process, so a refusal stands. |
| `AgentProofs`, the turns | `AgentInvariant`, `AgentsUseGateway`, `AgentsUseBoard`, `TokensBuyItems`, `OnlyRefusalsStrand` | The system implements both `ModelGateway` and `SharedBoard`. No two runners share an item, since a claim takes it from nobody; an item moves into `Settled` in the step that pays for it, at most `MaxCost`, and never leaves it, restarts included. While nothing fails there is no restart either, so what the gateway refuses an agent it goes on refusing (configuration and runners are fixed, the meter only grows), and a turn ends only after its item is saved or by such a refusal (`TurnFate`, `StrandInv`). |
| `ToolGatewayProofs` | `ToolInvariant`, `NothingForbiddenExecutes`, `SecretsStayHome`, `LogIsTruthful`, `AnswersReachTheLog` | A call in stage `broker` is permitted, because `setup` and the call's roles do not change after the decision (`AllowedIsPermitted`). Stage, outcome and `executed` agree (`CallInv`), and the log has at most one entry of a call, written in the step that answers or in one that fails after its commit. |
| `MessageQueueProofs` | `QueueInvariant`, `ClaimsAreExclusive`, `AttemptsIdentifyClaims`, `QueueImplementsJobQueue`, `CompletedIsFinal` | A message somebody holds is not pending (`HeldIsNotPending`), so it cannot be selected - until an unconditional `fail` is repeated. Without failures, `claimed` and "has a holder" agree, so `complete` and `fail` only meet the row of their own claim. Each claim raises `attempts`, whatever else fails. `QueueInv` makes every step one of `JobQueue`: `Claim` a lease whose number is the new value of `attempts` (or a lost one), a `complete` or `fail` that arrives the end of the consumer's own lease, one whose answer is lost an unnoticed end. |
| `VersionStoreProofs` | `VersionInvariant`, `HistoryIsLinear`, `ChangesAreKept`, `SavedIsForEver`, `StoreImplementsHistory` | Every object and every row differs from its base in `changed` alone (`Descends`), and without chains the base is the version before. Rows never change, so this stays true while other writers save; and the insert that succeeds extends the history by exactly that version. That is the step of `History`; a conflict or an error that inserted nothing is a stutter. With chains, a difference between two versions is traced along bases: either the field was changed on the way, or a base is older than the earlier version (`GapsAreKnown` for the versions that were skipped and filled in later). |
| `ObjectStoreProofs` | `StoreInvariant`, `KeepsPromises`, `ListsExactly` | below |
| `SandboxProofs` | `SandboxInvariant`, `AnswersTruly`, `OverrunsStayStopped` | What is on the wire fixes where the container can be (`InStep`), so an exit code other than -1 is the command's, or one of docker's own, 125 to 127, with no container running (`CodeIsTrue`), and the promise keeps what first settled it (`Settled`). A removal handled after the command line was gone finds nothing that could start the container again (`Over`). |

The board. Exclusion is not inductive alone: that nobody else works on an item depends on why each
process may touch it. `BoardInv` therefore says of each item that it has an assignee exactly when it
has left the open state (`ItemInv`), of each process what it may rely on at its next statement
(`JobInv`: before the commit of a claim the row is the one it read; before a save by id the row and
the copy are assigned to the actor; a claim that is going to be recorded is not on record yet), and
who excludes whom (`Exclusive`). A stale save may then change an item's *state*, but writes the
assignee the row already has. That is why the board refines `SharedBoard` even in behaviours in which
the lifecycle goes backwards: the steps of `Save` map to `Publish` or to a stutter, those of `Commit`
to `Claim`, those of `Record` to `Credit` or to a stutter, everything else to a stutter.

Four invariants stand on top of `BoardInv`, each in a section of its own:

- roles (`RolesInv`, for `GatedItemsStayGated`): every set of roles anybody carries - a row, a
  request's copy, a runner's `Member` - is within what that member has held. A save must also write the
  role the row has, so copies and rows agree on the required role;
- order (`OrderInv`, for `LifecycleOnlyForward` and `TrailTellsTheLife`): while users wait for their
  answers no two requests act for one member (`Alone`), so whoever is about to save an assigned item
  is ahead of its row, whoever is about to record has the row where the record says it is, and the
  trail tells less than that and never more than the row;
- audit (`AuditInv`, for `NothingGoesUnrecorded`): without failures, whatever a row says has happened
  is on record or owed by a process that stands before its insert; a stale save overwrites the row, but
  owes a record of its own. This needs no assumption on overlap;
- turns (`TurnInv`, for `NobodyIsOvertaken`): an insert arrives after every row there is, whatever its
  stamp; stamps never change, copies keep the priority of their row, and a request acts for a member who has a row and keeps it. The order
  itself could be lost in three ways. A `Select` takes the best of the rows it sees, so a row it passed
  over was locked. A lock could go without a claim: without failures and with agents registered before
  there is work, the domain rule and the foreign key accept every claim (`ClaimsAreAccepted`), so
  `Rollback` never happens. A row could become open again, or rise: no save does either.

The object store. `PromisesKept` says what a file holds, and a put that is half-way through another
file must not disturb it. So `StoreInv` says first that the paths that exist form a tree whose leaves
are files of their own (`TreeInv`), then what each call may rely on (`CallInv`: a put that is alone on
its key has written what its file holds, a get that is alone has read it) and that two calls meet in a
file only if they are on one key (`PairInv`). A file that was opened afresh is referred to by no path
and no call. The promise of a key then holds as long as no put has touched its file (`Untouched`). For a
listing, `WalkInv` says that a key which was there throughout is either found or below a directory that
is still to be read: reading a directory replaces it by the entries between it and the key, one of
which leads there, because directories are never removed.

Only model-checked: liveness, which is `OpenWorkIsClaimed`,
`EffectsAreRecorded`, `EmailGetsRegistered`, `TurnsAreSettled`, `EveryMessageServed`,
`TimedRunsAnswer` and `OverrunsAreStopped`: the prover does not reason about
fairness and `ENABLED`. Of the last, `OverrunsStayStopped` proves the safety half. Every invariant,
action property and refinement of the passing runs is stated by a theorem.

No module declares a recursive operator, and no claim is made about what recursive code computes.

## 5. Hazards

PROJECT.json lists, line by line, what is hard to test in this code, and the properties that would
notice it going wrong. Those without a property say why: the code makes no promise there (no
redelivery, no limit on attempts). Two hazards are listed with a property that names their worst order
as its exception or its assumption: a `docker rm` that overtakes the kill, and a provider that never
answers.

## 6. What is not modelled, and the plan

Not modelled for good: cryptography, password hashes and signatures, the translation of messages to a
vendor API, start-up wiring and selection of adapters (no state afterwards), read-only routes, the
front end; what a sandboxed command may do inside its container, which is a list of arguments to
docker; keys the object store rejects. Relationship gates of `authorize` are in `PolicyEngine` but the
gateway never passes relationships. `block`, `unblock` and `cancel` have no caller. Scopes of agent
credentials are compared in one expression and nothing in the repository enforces them yet; the
store behind `AgentCredentialService` has no implementation here.

Next:

1. An abstract specification of the tool gateway as a reference monitor - decide, execute, answer,
   log - for `ToolGateway` to implement; its theorems say the same piece by piece.
2. `AgentSystem` over `WorkBoard` itself instead of `SharedBoard`, with roles, when the repository has
   a host for runners that says when they are built and rebuilt.

## 7. Running

`tlc -workers 2 -config BoardMembers.cfg MCWorkBoard` checks the run `board_members`; PROJECT.json
names the module and configuration of each. `tlapm WorkBoardProofs.tla` checks a proof module. The
longest runs, `versions` and `agent_turns`, take about two minutes each; the longest proofs are those of the board.
