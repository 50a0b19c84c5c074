# kidproxy: TLA+ models and proofs

kidproxy is a single-backend HTTPS reverse proxy that records every exchange in
SQLite, rewrites responses with ordered rules, and is configured and reloaded
from a local admin UI. This directory holds TLA+ modules translated from the
Rust source, the TLC configurations that check them on small instances, and
TLAPS proofs for every size. `PROJECT.json` maps each definition to the lines it
stands for, and lists runs, mutants, findings, hazards and theorems.

Paths are relative to the root of the repository; `writer.rs` is
`src/writer.rs`, and so on.

## Inventory

| Component | State | Operations | Interacts with |
|---|---|---|---|
| SQLite writer (`writer.rs`) | bounded mpsc channel, buffer, two counters, the table | `try_send`, `shutdown`, the task's receive / tick / flush / drain | called by every exchange and by the runtime's owner |
| Exchange capture, observed bodies (`capture.rs`) | a mutex-protected capture per request, an accumulator per body, flags of the body wrapper | setters, `finalize_and_send`, `finalize_with_body_error_and_send`, `poll_frame`, `Drop` | driven by `handle()` and by the HTTP server; sends one event to the writer |
| Proxy service (`proxy.rs`, `handle`) | none of its own | one async handler with eight ways to return | capture, transforms, upstream client, request timeout |
| Server task and `ProxyHandle` (`proxy.rs`) | a spawned task, a oneshot stop signal | bind, serve, graceful stop with a limit, join, abort | owns a writer handle; started and stopped by the manager |
| Runtime manager (`runtime_manager.rs`) | a slot with the active runtime, a snapshot for the UI, the config file | `start`, `save_config`, `reload`, `shutdown` | admin handlers call it concurrently; starts and stops runtimes |
| Transforms (`transform.rs`) | compiled rules | `apply_until_body`, `apply_with_body`, `needs_plaintext_upstream_body` | called by `handle()` before and after the body is collected |
| Configuration (`config.rs`) | the JSON file | load, validate, write | manager, admin UI |
| Admin UI, editing (`admin.rs`) | none on the server: a draft lives in a browser's form and is merged into the snapshot when it is posted | the two editor pages, save, reload, add / move / remove a rule | manager's snapshot, save and reload; handlers run concurrently |
| Admin UI, results (`admin.rs`) | none | filtered and paged list, detail page | database of the runtime in the slot, snapshot for the caption |
| TLS, probe, migration, entity, CLI | set-up only | - | used at start |

What is hard here: a non-blocking channel that may refuse, a batch that fails
and is retried while events keep coming, a shutdown that races with senders that
outlive the server; several places that can finish an exchange; a reload that
releases its lock between taking the old runtime and publishing the new one;
errors in the middle of it (`?`); a snapshot computed from stale comparisons; a
rewriting pass split in two around an await; browser tabs that post forms older
than the file they are merged into. `PROJECT.json` lists each hazard at
its line with the properties that cover it, or why none does.

## Modules

* `EventLog` is the abstract promise of the writer: accepted events wait, reach
  the table in order in atomic batches, and only the end of the writer may
  discard the ones that wait.
* `SqliteWriter` is `writer.rs`. `wstate` is the program counter of
  `WriterState::run`; a message in `queue` is an event or the `shutdown()` call
  whose oneshot it carries; `done` is the sender `run()` answers last. A whole
  `flush()` is one step, because nobody else touches the buffer or the table
  meanwhile and the channel may grow before or after it. `accepted` and
  `sent_in` are history variables. That a bind limit exists is external
  (`MaxInsertRows`: SQLite's 32766 variables over 65 columns).
* `SqliteWriterProofs` holds the theorems about it.
* `BodyAccumulator` has the hash/preview accumulator as operators on lengths:
  the hash of a body is known by how long a prefix was hashed.
* `Exchange` is one request: every return of `ProxyService::handle`, both
  finalizers, `ObservedBody::poll_frame` and `Drop`. Client, backend and rules
  are the environment; any outcome the code distinguishes may happen.
* `ExchangeProofs` holds the theorems about it and about `BodyAccumulator`.
* `ActiveRuntime` composes several exchanges with one writer (`INSTANCE
  SqliteWriter`), the server task and the owner that stops both
  (`shutdown_active_runtime`) or drops them. An exchange names its event.
* `ActiveRuntimeProofs` holds the theorems about it. It uses those about the
  exchange (`EXTENDS`) and about the writer (`INSTANCE SqliteWriterProofs`).
* `RuntimeManager` is `save_config`, `reload_inner`, `shutdown`, with one step
  per stretch between lock operations, file-system calls and awaits. A runtime
  is named after the call that started it; of its inside only the listener is
  kept. `fs::write` is two steps.
  `ReloadJoin` is both halves of `shutdown_active_runtime`: the server task is
  joined or aborted, and the writer is shut down, a wait without a limit of its
  own. That it ends is `ShutdownReturns` and `ShutdownTerminates` of the modules
  that model it, and an assumption here.
* `ResultsPages` adds the readers of the captured events: a page looks up the
  database of the runtime in the slot, awaits its query and then reads the
  snapshot for its caption. The properties of what the snapshot says of the
  active runtime are here, with their history variables: `overtaken` (the last
  reload to end had lost its runtime to another one between publishing it and
  storing its summary), and for each page `lagging` (the summary was behind when
  the page looked up its database) and `later` (the runtimes that came into the
  slot since).
* `RuntimeManagerProofs` holds the theorems about both.
* `Transform` is the two-pass application of rules, against a single pass with
  the body at hand (`OnePass`) as the reference. A replacement rewrites a whole
  text; a matcher is the set of what it matches.
* `TransformProofs` holds the theorems about it; `NatInduction` is induction on
  naturals in a form the provers can use (see Proofs).
* `ConfigForm` has the pure half of the admin UI's editor: what a page puts into
  its form, what `runtime_from_form`, `transforms_from_form` and
  `apply_editor_action` make of the form that comes back, and what
  `to_runtime_config` accepts. A posted form is a function over the names that
  were sent; of the settings there is one for each way a field is read (text,
  path, optional text, number, choice, checkbox, list).
* `ConfigFormProofs` proves that both forms are read back as they were shown, and
  what the editor's operators return.
* `AdminConsole` composes it with `RuntimeManager`: browser tabs open the editor's
  pages, post forms and reload while the manager's calls run. `wanted`
  (what users saved last, per section) and `overlapped` (whether calls of the
  manager met) are history variables. Everything a handler computes between
  reading the snapshot and the first lock of `save_config` is one step.
  `Settings` and `Rules` are the values users' forms can lead to, valid or not,
  and `Closed` says that no form leads out of them: with the whole types
  `RuntimeSettingsFile` and `TransformRuleFile` for them that is no restriction,
  and a small instance may take less.
* `AdminConsoleProofs` holds the theorems about it, from those of
  `RuntimeManagerProofs` and `ConfigFormProofs`.
* `MCSqliteWriter`, `MCActiveRuntime`, `MCRuntimeManager`, `MCAdminConsole`,
  `MCTransform` give
  symmetry sets and the values of structured constants. `Exchange` needs none.

An operator whose comment begins with "Mutant" is a plausible wrong version of
the definition after it. It is used by no specification; `PROJECT.json` says
which property fails when the two are exchanged.

## Runs

| Run | Bounds | Shows |
|---|---|---|
| `writer` | 4 events, 2 shutdown calls, capacity 2, batches of 2, 2 transient failures, 2 rows per INSERT | `Conservation`, `StoredInOrder`, `LossIsLateOrCounted`, `AcknowledgedMeansWritten`, refinement of `EventLog` |
| `writer_live` | 3 events, 2 shutdown calls, batches that can always be bound | `EventuallyStored`, `ShutdownReturns` |
| `exchange` | bodies of up to 3 and 4 bytes, cap 2 | one truthful event per exchange, exact accumulators, `EventuallyLogged` |
| `active_runtime` | 2 exchanges, a channel of 1, flush batches of 2 (so that a batch can be pending when the channel closes) | end-to-end accounting, what stopping may lose, `StoppedMeansFlushed` |
| `active_runtime_live` | 1 exchange | `ShutdownTerminates`, `AbandonedWriterEnds` |
| `manager` | 3 configs on 2 addresses (one taken by another process), 2 databases, 2 reloads, 1 save, 1 reader of results, signals | mutual exclusion by the empty slot, `NoOrphan`, `OnlyForeignersBlock`, `SummaryIsCurrent`, `CaptionNamesDatabase`, `ReloadReturns` |
| `console` | 2 tabs (one for settings, one for both editor pages), 2 saves, 1 reload, files of at most 1 rule, lists of at most 1 name | `NoLostUpdate`, `SavedIsWhatWasShown`, `MatchesIsTrue` |
| `transform` | all lists of up to 2 of 132 rules, 24 responses | `TwoPassesAreOne`, `ContentLengthHonest`, `RewriteSeesPlaintext` |
| `writer_oversize` | one row per INSERT | violated: `EventuallyStored` |
| `exchange_dropped` | as `exchange` | violated: `DroppedBeforeCompletion` |
| `manager_race` | 1 reload, 1 save | violated: `SidebarIsRight` |
| `console_editor` | files of up to 2 rules | violated: `ButtonActsOnItsRule` |

The four violations are findings, quoted in `PROJECT.json`: a batch SQLite
cannot bind is retried for ever and only grows; a response with an empty body is
logged as dropped by the client; a reload stores the config it loaded, and that
nothing is pending, over what a save put into the snapshot since, so that the
sidebar calls a stale proxy current; the Up, Down and Remove buttons of any
rule act on the last rule of the page.

Why the bounds suffice. The writer's interesting cases are a full channel, a
batch below, at and above its size, a failed batch with later events behind it,
and a shutdown message before, between and behind events: four events, a
capacity of two and two failures reach all of them, and the theorems remove the
bounds. Bodies go below, to and over the cap in one or several frames. Two
exchanges let one outlive the server while the other is stored or refused. Two
reloads are enough for every conflict over the slot, one after the other or one
overtaking the other, and a third config on the first address for a reload that
changes the config and the database and not the address. One reader is enough,
since readers change nothing; its page may be looked up and rendered at any point
of the reloads. In
`console`, two tabs and two saves give each order of a form shown, another save,
a reload, and the form posted late; what may be typed is one bundle of settings
(`TypedSettings`) that touches every kind of field, with a number that does not
parse, or nothing, and one rule (`TypedRules`) with a pattern its matcher has no
use for. `MCSettings` and `MCRules` are all that can come of these, and
`ConsoleAssumption`, which TLC evaluates, says so. One rule is enough for the forms; that a button picks among rules needs
two, which is the bound of `console_editor`. Foreign addresses and the end of
`main()` are left to `manager`. Two
rules cover each ordered pair of header rule, body rule, stop rule and
content-type rule; longer lists repeat such pairs.

Deadlock checking is off in every run: a writer that ended, an answered request
and an administrator who does nothing more are legitimate ends.

## Fairness

* Writer: the task is scheduled and its ticker fires (weak fairness of
  `WriterStep`); `tokio::select!` polls its branches in random order, so a
  receive that is ready again and again is taken (strong fairness of `Recv`);
  `shutdown()` sleeps 10 ms and tries again until it leaves its loop (strong
  fairness of `SendShutdown`). Nothing is assumed of SQLite except that
  transient failures are finitely many (`MaxFailures`).
* Exchange: `tokio::time::timeout` fires; the HTTP server drops a body it is
  done with. Nothing is assumed of clients and backends, and nothing of
  `collect()`, which has no timeout.
* ActiveRuntime: tasks are scheduled and the timers of `ProxyHandle::shutdown`
  fire; exchanges may live for ever.
* RuntimeManager: server tasks, the blocking task of a reload and the handler of
  a save run; the writer that a reload shuts down ends (see `ReloadJoin`). Nothing
  is assumed of a results page's query.
* AdminConsole: none; its properties are safety properties.

## Proofs

`SqliteWriterProofs` proves for every set of events and callers and all sizes
(assumption `WriterAssumption`: events are not callers, sizes are positive, as
`config.rs` validates):

* `TypeCorrect`, with the channel's capacity;
* `WriterInvariant`, the inductive invariant `WriterInv`, from which
  `ConservationHolds`, `StoredInOrderHolds` and `LossIsLateOrCountedHolds`
  follow. The properties alone are not inductive. `StoredInOrder` needs that
  the channel is in arrival order (`QueueInOrder`) and younger than the buffer
  (`BufferInOrder`); the loss property needs that after the drain the channel
  holds latecomers only (`LateQueue`) and that a buffer which survives the last
  flush was counted (`FailedBuffer`); uniqueness needs that acceptance leaves a
  mark (`MarkedOnce`). `WriterInv` was checked by TLC first;
* `CallerInvariant`: each waiting `shutdown()` call is tied to one oneshot
  sender;
* `AcknowledgedMeansWrittenHolds`, an action property, from both invariants;
* `Refinement`: `Spec => Log!Spec`, with channel and buffer mapped to the
  pending events. `FlushOk` is `Commit` (by `BufferInOrder` the batch is the
  oldest), an accepted `TrySend` is `Accept`, `Close` is `Close`, every other
  step is a stutter.

`RuntimeManagerProofs` proves for any number of configs, addresses, reloads and
saves (assumption `ManagerAssumption`: there is a config, every config has an
address, runtimes are told apart from `Nobody` and configs from the two
placeholders):

* `ManagerInvariant`, the inductive invariant `ManagerInv`, from which
  `TypeCorrect`, `OneReloadAtATimeHolds`, `NoOrphanHolds` and
  `OnlyForeignersBlockHolds` follow. Not even the types are inductive: that the
  snapshot names configs needs what a reload and a save know at each program
  point (`LoadedValid`, `SummaryKnown`, `DraftValid`) and that only started
  runtimes get into the slot (`SlotBorn`, `PreviousBorn`, `NotBornYet`, `Born`).
  `OnlyForeignersBlock` needs `OneLive`, at most one runtime bound or about to
  bind. `OneLive` needs that the previous task has ended before the next runtime
  starts (`PreviousEnded`) and `Kept`, which sharpens `NoOrphan`: a live runtime
  that nobody holds leaves the slot empty for ever, so no later reload can start
  a second one. `ManagerInv` was checked by TLC first;
* the argument has one lemma per action. `InSection` collects what a reload
  between `take()` and publication may rely on, `TasksProgress` shows that server
  tasks cannot break the invariant on their own, `SlotFrame` disposes of saves;
* `ResultsRunManager`: `ResultsSpec => Spec`, so that the manager's theorems hold
  with any number of readers (assumption `ResultsAssumption`: every config names a
  database);
* `ResultsInvariant`, from which `SummaryIsCurrentHolds` and
  `CaptionNamesDatabaseHolds` follow. That the summary is the one of the runtime in
  the slot is not inductive: it has to follow the runtime into a reload's hands and
  back (`CurrentInv`), and needs that a reload in its tail that nobody overtook
  still has its own runtime in the slot and read nothing else (`TailInv`), for
  which a runtime that was not published yet cannot have been taken
  (`Unpublished`). A reload that ends undisturbed makes the summary current again
  whatever happened before. For a page that waits, each summary that is stored or
  about to be stored belongs to a runtime that was in the slot since its lookup
  (`QueryAt`). `ManagerStepKinds` sorts the manager's steps by what they mean for
  the slot and the summary. `ResultsInv` was checked by TLC first, also with three
  reloads.

`ExchangeProofs` proves for any set of exchanges, bodies of any size and any cap
(assumptions `BodyMaxAssumption`: the cap is positive, and `ExchangeAssumption`:
the sizes are numbers):

* `ObserveExact`: `observe` keeps hash, preview and flag exact wherever a frame
  ends relative to the cap;
* `ExchangeInvariant`, the inductive invariant `ExchangeInv`, from which
  `ExchangeTypeCorrect`, `AccumulatorsExactHolds`, `OneEventHolds` and
  `EventTruthfulHolds` follow. It is a predicate `Good` on the values one exchange
  has, so that a step is "one exchange gets new values" (`Becomes`) and one lemma,
  `BecomesGood`, disposes of the other exchanges. Truth of an event is not
  inductive: the event is built from the capture, so the accumulators must have
  counted what really went by (`Counted`), nothing may be known of an outcome
  before there is one (`NoOutcome`), a response under way must carry success and
  its status (`UnderWay`), and it must be known which stages have finalized
  (`FinalizedAt`); a truthful event must also stay so, so a rejected request
  can have no upload that goes on (`TruthfulEvent`);
* there is one lemma per action. `SendGood` is shared by the three ways in which
  an observed body finalizes its capture: end of stream, error, `Drop`.

`ActiveRuntimeProofs` proves for any set of exchanges and all sizes (assumption
`RuntimeAssumption`: the owner is no exchange, sizes are positive; it implies the
writer's assumption, `WriterAssumed`):

* `RunsTheWriter` and `RunsTheExchanges`: the composition makes only steps of
  `SqliteWriter` and of `Exchange`, so their theorems hold in it, for instance
  `RuntimeEventTruthful` and `RuntimeAcknowledged`;
* `RuntimeInvariant`, the inductive invariant `RuntimeInv`, from which
  `RuntimeTypeCorrect`, `PipelineAccountingHolds`, `OnlyOutlivedIsLostHolds` and
  `StoppedMeansFlushedHolds` follow. To the components' invariants it adds what
  relates them. `StopInv` ties the owner's progress to the writer's: the owner
  asks once (`ToldOnce`), the writer leaves its loop only when told
  or when all handles are gone (`LeavesLoopTold`), drains for the owner (`DrainsForOwner`) and answers last
  (`AnsweredLast`). `SentInv` ties the events to the channel: an exchange that
  has logged was offered to the channel (`Offered`), a refused event is counted
  (`RefusedCounted`), whatever is alive when the writer is told was noted
  (`Noted`), and an event that comes too late is of one of those (`LateIsNoted`).
  The loss property is not inductive without the last two: it is about an order of steps
  of three tasks.

`TransformProofs` proves for any rules, responses and length of the list
(assumption `TransformAssumption`: texts, bytes that are no text and absence are
told apart, lengths are printable texts, the backend's own `content-length` is
right):

* `TransformInvariant`, the inductive invariant `TransformInv`, from which
  `TransformTypeCorrect`, `TwoPassesAreOneHolds`, `ContentLengthHonestHolds` and
  `RewriteSeesPlaintextHolds` follow. Its heart is `InStep`: in both passes the
  response is what the reference has made of it after `index - 1` rules.
  `FirstPass` (the body is untouched, headers are the original ones unless
  `headers_changed`) gives the honest length of a streamed response, `AskedFirst`
  (the request was sent with what the rules ask for) the plaintext of a rewritten
  one;
* the reference is a recursive function. That it exists and meets its equation is
  `PassExists` and `OnePassUnfolds`, by induction; that rules behind a triggered
  stop rule or an error change nothing is `Frozen`, by induction.

`ConfigFormProofs` proves for any words, rules and bounds (assumption
`FormAssumption`: malformed words are words, and a word is not the blank, the
missing option or a number):

* `SettingsRoundTrip` and `RulesRoundTrip`: `runtime_from_form` and
  `transforms_from_form` undo the pages, whatever they may fall back to, also for
  an option that is not set, an empty list and a checkbox that is not sent. That
  `comma_list` keeps a list without blanks is `WordsAreKept`, by induction.

`AdminConsoleProofs` proves for any number of tabs, saves, reloads, settings and
rules (assumption `ConsoleAssumption`: `Closed`; a reload accepts exactly the files
`to_runtime_config` accepts; the program is started with one of them):

* `ConsoleRunsManager`: `ConsoleSpec => Spec` of `RuntimeManager`, so that the
  manager's theorems hold under the admin UI. `StepKinds` sorts the steps: a page
  is turned, a save begun, a reload begun, or the manager works on its own;
* `ConsoleInvariant`, the inductive invariant `BaseInv`, from which
  `ConsoleTypeCorrect` and, with the round trips, `SavedIsWhatWasShownHolds`
  follow;
* `NoLostUpdateHolds`. What is inductive is `UpdateInv`: as long as calls have not
  met, the snapshot is what users want (`SavedWanted`), the file is too except
  between its truncation and its write (`DiskWanted`, `WritesAlone`), a draft that
  is being saved carries the other page's section as it was saved last
  (`Merged`), and a reload under way will publish what was saved last
  (`AppliesWanted`). `OneCaller` and `Called` tie saves to handlers;
* `MatchesIsTrueHolds`, an action property, from `MatchInv`: without a pending
  reload the runtime in the slot, or the one a reload has just taken out of it,
  runs the saved file (`NothingPending`); a save that found a match is right until
  it is over (`MatchFound`); a reload runs what it read (`ReloadRuns`). `Current`
  has to follow the runtime out of the slot and back, because a reload that fails
  may restore it. `UpdateInv` and `MatchInv` were checked by TLC first.

Induction. The library's induction theorems have an operator as a parameter, which
the provers cannot instantiate. `NatInduction` states induction for a set
(`SetInduction`), from the existence of minimal elements in a well-founded
relation; a property of naturals is then the set of the numbers that have it.

Only model-checked: the liveness properties `EventuallyStored`, `ShutdownReturns`,
`EventuallyLogged`, `ShutdownTerminates`, `AbandonedWriterEnds` and
`ReloadReturns`, since fairness and `ENABLED` are out of the prover's reach. Each
invariant, action property and refinement of a passing run is a theorem.

## Not modelled

* TLS set-up, the backend probe, migration, entity, command line, logging:
  set-up without state or pure I/O.
* Header, cookie, TLS and timing columns of an event; the text of errors.
* Glob matching, JSON and the parsing of addresses, URLs and header names: a
  word is malformed or not. The kinds of check `to_runtime_config` makes are in
  `ConfigForm`; in `RuntimeManager` alone a config is valid or not.
* HTML layout, and `list_events`: result filters, ordering and paging are SQL
  over columns the models do not have. `ResultsPages` has the results pages only
  as readers of the slot and of the snapshot.
* Trailers and frames without data: `poll_frame` passes them on and `observe`
  returns at once.
* Texts within a field: a list item that holds a comma or surrounding blanks
  would be split or trimmed by `comma_list`; words are taken to have neither.
* Time: a timeout is a step that may happen whenever its wait is pending, so
  neither the 100 ms restart of the drain's timer nor the 5 s / 10 s mismatch of
  the shutdown limits is measured; their orderings are explored.
* A crash of the process: only committed rows and the config file survive one,
  and nothing is recovered from them beyond the ordinary start.

Behaviours the models show that are no violation of a stated claim: events
accepted between the end of the drain and the end of the task vanish uncounted
(`LossIsLateOrCounted` delimits that window); while writes fail the buffer is
unbounded; a reload reports success before the new listener is bound; a
reload that is overtaken between publishing its runtime and storing its summary
can store an older summary over a newer one, or none; a results page may name the
database of a runtime that a reload put in the slot while its query ran; a reload
that fails early leaves the slot empty for good, and meanwhile, as during any reload, the results
pages answer with an error; saves that overlap can undo each other, since each
writes a whole file built from the snapshot it read (`NoLostUpdate` says when
they cannot); a non-text header makes any rule that selects it answer 502,
whether or not there is something to replace.

## Plan

Done: `EventLog`, `SqliteWriter`, `BodyAccumulator`, `Exchange`,
`ActiveRuntime`, `RuntimeManager`, `ResultsPages`, `Transform`, `ConfigForm` and
`AdminConsole`, each with the proofs of its safety properties.

Next, in this order:

1. The safety half of the liveness properties: a variant for the writer's drain
   and for a reload (what each step of it uses up), as action properties.
2. An abstract specification of a reload (an old configuration is replaced by a
   new one, restored, or lost), and `RuntimeManager` as an implementation of it.
3. What a rule list may never do to a response it does not match, for any list,
   and that the order of rules which select different headers is irrelevant.
