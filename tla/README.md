# A formal model of the modular agentic system

TLA+ modules, TLC configurations and TLAPS proofs for the kernel of this
repository (`src/src/`), the program that takes a chat message, gets a sandbox for
it, hands it to a *harness* (pi, opencode, a CLI agent), pumps what the harness
emits to the client, and lets a harness delegate to others; for the adapters below
it (harnesses, environments); and for the web client above it
(`src/apps/next/`), as far as it keeps state. Paths below are relative to those
two directories; line numbers are in `PROJECT.json`.

Everything is JavaScript on one event loop. There are no threads, but almost every
operation is `async`, so two requests interleave at each `await`, and timers and
callbacks run in between. **An action of these modules is the code between two
awaits** (or one callback); a whole `async` method is a chain of actions tied by a
program counter. Anything the code does in one synchronous piece is one action.

## 1. The system

| Component | State it keeps | Operations | Module |
|---|---|---|---|
| Warm pool (`kernel/prewarmPool.ts`) | ready handles and in-flight counts per key; a TTL timer per handle | `ensure`, `provisionOne`, `claim`, `evict`, `destroyAll` | `PrewarmPool` |
| Sessions (`kernel/session.ts`) | session id -> sandbox, environment, profile, owner | `ensureWorkspace`, `end`, `get` | `Workspace` |
| Admission (`kernel/admission.ts`) | the set of sessions with a run | `admit`, `release` | `Workspace`, `RunLifecycle` |
| Kernel (`kernel/index.ts`) | wires the above; `childSessions` | `runMessage`, `warmSession`, `prewarmProject`, `endSession`, the delegator | `Workspace`, `RunLifecycle`, `Delegation` |
| Orchestrator, settlement (`kernel/orchestrator.ts`, `settlement.ts`) | first terminal cause, usage totals | `run`, `emit`, `observe`, `settle` | `RunLifecycle` |
| Preview registry (`kernel/preview.ts`) | session -> live url, durable snapshot | `set`, `setSnapshot`, `clear` | `RunLifecycle` |
| Delegation (`kernel/index.ts`, `harnesses/pi/delegateTool.ts`) | child sessions per (harness, environment); depth | `delegate`, the `childSink`, the roll-up | `Delegation` |
| HTTP and SSE (`server/http.ts`) | per request: an `AbortController`, the open stream | `/message`, `/warm`, `/prewarm` | `RunLifecycle`, `KernelService`, `Workspace` |
| Session memory (`server/sessionMemory.ts`) | one JSON file of recent turns for all sessions | read, update | `SessionMemory`, with `RunRecords` in `Persistence` |
| Persistence (`server/db/*`) | rows of runs, events, sessions, messages | begin, append, complete, bump | `RunRecords` |
| Harness adapters (`harnesses/*`) | per run: the SDK's session, an exactly-once settler, usage meters, the noted preview | `run` | `PiHarness`, `OpenCodeHarness`, `SdkHarness`, composed in `Harnesses` |
| Environments (`environments/*`) | a sandbox, its proxies (`entries`), detached processes | `provision`, `exposePort`, `exec`, `destroy` | `Environments` |
| Stream client (`core/chat.ts`, `core/kernel.ts`, `core/kernelTranslator.ts`) | per stream: the stack of open sub-runs, whether a terminal was seen | `admitAndSend`, `subscribeRun`, `translate` | `KernelTranslator`, `ChatClient` |
| Chat pane (`features/chat`) | the store of chats, the queue of prompts, the session, the one subscription | `useChat`, `useChatRun`, `useChatSession`, `useChatHistory`, `applyFrame` | `ChatClient` |
| Navigation (`app/shell`, `features/shell`, `state/uiStore.ts`) | the URL, the scope, the tab strips, the selection, calls under way | rail, explorer, tabs, history, settings, creations, redirects | `Shell` |
| Canvas (`features/canvas`, `shared/PreviewIframeHost.tsx`) | per surface: the url, file, mount or snapshot on screen, the calls and timers it waits for | preview bus, file reader, app mount, runner preview | `KernelPreview`, `FileReader`, `ChildMount`, `RunnerPreview`, composed in `Canvas` |

How they interact. `POST /prewarm` calls `Kernel.prewarmProject`, which fills the
pool in the background. `POST /warm` calls `warmSession`, and `POST /message` calls
`runMessage`; both go through `ensureWorkspace`, which reuses the session's sandbox,
claims one from the pool, or provisions. `runMessage` takes the admission lock
before and gives it back in a `finally`. The orchestrator then builds a settlement
and an `emit` pump, gives them to the harness, and synthesises a terminal if the
harness left none. A harness that may delegate calls back into the kernel, which
runs the whole pipeline again on a child session with an `emit` of its own that
wraps the parent's. When the client goes away the route aborts the run's signal.

In the browser a prompt goes from the composer through a queue (until its chat has
a session) into one `fetch` of `POST /message`; the frames of its answer pass the
translator and the reducer into the store, by chat, whichever chat is on screen.
Which chat that is, the URL says; effects copy it into the store and ask the
server for a chat when the URL names a project alone. Beside the chat, a canvas
shows what the agent made: the pane of the session's preview reads a bus that the
run's frames fill (and, after a page load, the kernel's registry), a file reader
follows `file_changed` events, an embedded app is found, loaded in an iframe and
handed its token, and a runner session's preview is polled and shown in two iframes
that take turns.

What is hard in it, and what therefore is modelled:

- `ensureWorkspace` takes no lock and awaits twice; it decides on an entry it read
  before, and `/warm` is not admitted at all, so it overlaps runs of its session.
- A pool provision resumes after its key was refilled, claimed or torn down.
- A TTL timer races the claim of the handle it guards.
- A run can end in nine ways (refused, no workspace, invalid request, spoken
  `done`/`error`/`cancelled`, silent return, throw before or after speaking), with
  the client leaving at any moment, and the client must be told exactly once.
- A harness may be aborted at any await, before its SDK listens, after its
  verdict, or while a tool it queued still runs.
- A provision fails at any of its steps; tools expose ports side by side, viewers
  keep connections open, and a destroy runs across all of them.
- A tool abandoned by its harness emits a preview after the run settled.
- Delegated runs overlap and nest; each event passes every pump above it.
- The browser keeps one stream for all chats, queues prompts before their session
  is there, and receives histories, created chats and redirects after the user has
  moved on.
- In the canvas an answer comes for a session, a file or an app that is no longer
  the one on screen; callbacks read refs that are copied at a commit; timers
  outlive the mount they were set for; an embedded app may never answer.
- What a run leaves behind is written after its lock is free: one file for all
  sessions is read, changed and rewritten, and most database writes are fired and
  forgotten, so they land late, out of order or never.

The complete list, each at its line and with the properties that watch it, is
`hazards` in `PROJECT.json`.

## 2. The modules

### `PrewarmPool`

`ready`, `inflight` and `timers` are the class's own fields. `box`, `home`, `tenant`
and `destroys` say what the code's objects mean: the state of each sandbox, whom it
was warmed for, who claimed it, how often the pool destroyed it. `Ensure` is
`ensure` up to its first await (all in-flight counts are raised before any
provision settles), `ProvisionOk` and `ProvisionFail` the two continuations of
`provisionOne`, `Claim` is `claim`, `Evict` the timer callback, `DestroyAll`
`destroyAll`. A source is kept as its kind, the mark the fingerprint sees
(for a file seed the *number* of files) and the content that the fingerprint does
not see. `teardown` is a history variable.

### `Workspace`

Composes the pool (`INSTANCE PrewarmPool`) with sessions and the lock. A call is a
`/warm` or a `/message` request. Arrival is cut by what it finds: `Reject` (lock
taken), `Deny` (another owner), `Reuse`, `Switch` (another environment or profile:
the old sandbox is destroyed, first await), `Adopt` (a warm sandbox), `ColdStart`
(second await). `ResumeAdopt`, `ResumeCold`, `Provisioned` and `ProvisionThrew`
are what follows the awaits, `Finish` is the end of the run or of the throw, with
the `finally` that releases, `End` is `SessionManager.end`, `PoolStep` the pool's
own steps. `crossed` is a history variable: the sessions on which two operations
overlapped (an operation started while another waited, or an end or a switch
during a run). Three invariants hold only outside it. That is the point of it:
sequential use is safe, overlapping use is not, and section 4 shows where.

### `RunContract`, `KernelService` and `RunLifecycle`

`RunContract` is what a client may rely on, without the mechanism: a run is
dismissed or accepted, one at a time per session; charged; told one verdict; closed
with an answer that repeats the verdict and the bill. `KernelService` is what a client
can observe of `POST /message` and the lock behind it: a message is posted, admitted or
refused, concluded, and answered once its session is free again. The two abstractions
differ in what they leave out: `RunContract` has no lock and no streams, `KernelService`
no verdicts and no bill. `RunLifecycle` is the code:
`stage` is the program counter of `runMessage` and its route. `Admit`, `Reject`,
`NoWorkspace`, `Refuse` and `Start` are the ways in; `Usage`, `Speak`,
`PreviewReady` and `SnapshotReady` are events through the pump (`LateUsage` those of a
sub-run that an aborted harness left behind, which reach the settlement after the result
was read off it); `Return` and
`Throw` are the two halves of the orchestrator's defensive settlement; `Resolve` is
the `finally`; `Answer` the `settled` frame; `Cancel` the client leaving;
`EndSession` the preview registry's `clear`. The harness is the environment and is
held to the settler it is built with (one terminal of its own, of any cause: Claude's
adapter may say `cancelled` unasked) and nothing else. `Contract == INSTANCE RunContract WITH ...` and
`Service == INSTANCE KernelService WITH ...` at the end of the module are the refinement
mappings; in the second the lock is `Admission.active` itself.

### `Delegation`

The tree of runs below one top-level message. `Root` is that message's run and
session; a task is one call of the delegate tool and names the run, the session and
the sandbox that come into being for it. `Delegate` is the kernel's delegator up
to its first await, `RefuseDelegate` the depth cap (`MAX_DELEGATION_DEPTH` is 2 as
in the code), `ChildProvisioned`/`ChildNotProvisioned` the two outcomes of the
child's `ensureWorkspace`. `Usage` and `Speak` are events of a run's harness on their
way up: `Reaches` follows them from pump to pump for as long as the `childSink` of the
delegate call in between forwards them (`Forwards`), every settlement they reach folds
them in (`billed`; `Terminal` for `cause`, first cause first), and `told` is what comes
out at the top. `Return` is the harness's return or throw with the terminal that the
orchestrator then emits for a settlement still open. `EndSession` is `Kernel.endSession` for the top session after its run. The
top session's own sandbox is left to `Workspace`.

### `SessionMemory`

One memory file for every session. A message goes through `Recall`
(`getSessionMemory`, before the run), `Merge` (`updateSessionMemory` reads the file
and adds its turn), `Truncate` and `Write` (the two halves of `writeFile`). What a
read gives is `Read`: the file's store, or an empty one when the read fails, since
`readStore` swallows the error. `Fail` is an exception anywhere in the write, `Crash` the end of the server process. A write
that lands on the text of another may leave the tail of the longer one behind;
`file.text` is then `"garbage"`, which `readStore` takes for an empty store. `told` and
`disturbed` are history variables. The key `owner:session` is a pair: owner ids are
uuids, so the colon keeps them apart.

### `RunRecords`

The rows of one persisted message. `Begin` to `Answer` is the awaited spine of
`persistence.ts`; `UserStored`, `LookedUp`/`Linked`, `Appended` and
`BumpRead`/`BumpWritten` are the queries nobody waits for, each its own action, so
they interleave with the spine and with other messages. Every one may fail. `Emit`
is possible after the answer (a tool that outlived its run). Statuses are kept as
open or closed; the messages themselves, tool calls and costs are not. `tainted`
marks a session where a query failed (also the select of `ensureSession`, which reads
as "no row" and may insert a second one) or where a message began before the writes of
the one before had landed; the late writes of a message itself do not taint it.

`Persistence` is the file and the tables together. They share no state and no
invariant speaks of both, so a behaviour of it follows one of them and leaves the
other as it was.

### `HarnessContract`, `HarnessRuntime`, `Harnesses`

`HarnessContract` is what the kernel may assume of an adapter: it charges until it
has named its one verdict, does not return without one, and says "cancelled" only of
a run whose signal fired, unless it is an adapter that may call a run cancelled of its
own accord (`resigns`). `HarnessRuntime` is what the adapters share
(`harnesses/_shared/harnessRuntime.ts`): `Settle` is `createSettler`, `ObserveCumulative` a
meter of running totals, `Abort` the run's signal, which reaches the SDK only if a
listener is there. The adapters are one module each, with `run()` cut at its awaits
and the SDK as its environment:

- `PiHarness`: `PiSetup`, `PiCreate` (the listener is added here), the subscription
  (`PiUsage`, `PiExposed`, `PiSnapshot`, `PiAgentEnd`), `PiPromptEnds` with the
  safety-net snapshot, `PiCaptured`.
- `OpenCodeHarness`: set-up that may throw at each await, `OpenCodePrompt` and
  `OpenCodeDispatch` (not awaited), the event loop (`OpenCodeUsage`,
  `OpenCodeSettle`), which looks at the verdict and the signal only at the next
  event (`OpenCodeStop`), and the end of the stream.
- `SdkHarness`: `openai-agents` with the environment's tool queue (`OpenAiCallTool`,
  `ToolDone`) and `claude-agent-sdk`, whose loop meters the usage of each assistant
  message (`ClaudeMessage`) and then the total of the result on top of it
  (`ClaudeResult`), and whose catch takes an `AbortError` of the SDK for a cancel
  (`ClaudeThrows`).

`Harnesses` is their union: the adapter of a run is chosen in `Init`.

### `Environments`

One sandbox of one of the five adapters. `Create`, `Prepare` and `Materialize` are
the awaits of `provision`, each with its failure; `Expose`, `ExposeFails` and
`Listening` are `exposePort` around the await of a free port, and `ListenFails` is that
port taken by another listener before the server has it, an error event nobody handles,
which ends the process; `ViewerArrives` and `ViewerLeaves` are connections of a browser;
`Destroy`, `CloseServer`, `ServerClosed`, `ProxiesClosed` and `Deleted` are `destroy`,
whose loop runs over the live map, and which may be called again.
`crossed` and `late` are history variables: two exposes of a port overlapped, or an
operation overlapped the destroy.

### `KernelTranslator` and `ChatClient`

`KernelTranslator` has no variables: `Advance` and `Translate` are
`createKernelTranslator`, `ApplyFrame` is the reducer. A frame of a sub-run is
marked with who spoke, which neither function may read: that is what the
property is about. `ChatClient` is the pane over its store. `OpenChat`, `GoHome` and
`Settings` move it, `SessionReady`, `Submit`, `SubmitToNew` and `Flush` are the
queue (`SendPrompt` is what it comes to; `sentTo` is the `sessionId` of its request),
`Stop` and `Unsubscribed` the one subscription, `HistoryLoads` the history
that arrives when it likes. The kernel is `KernelService`: `Admit`, `Conclude`, `NoWorkspace`,
`Release`, `FinishRun`, or `Refuse` when the session is busy, each an action of that
module (`Kernel!Admit` and so on) together with the frame that `http.ts` writes in it, if
any; `Speak`, `OpenKid` and `CloseKid` are frames while it works. `RunLifecycle`
implements the same module, so the pane is checked against what the kernel does.
`Break` is a stream that is refused, breaks off, or ends cleanly before its terminal, which
the reader takes for its end.

### `Shell`

`route` is the URL and the authority; `Stage` is the render that follows a handler,
with its effects: those that depend on the project and chat (selection, tab) and
the one that also depends on the workspace (`ensureMainChat`). Every handler is an
action that names its store and its route and goes through `Stage`: `Switch`,
`CreateOrg` (rail), `Open`, `OpenProject` (explorer), `OpenFromHistory`, `PressTab`,
`CloseTab`, `Reorder` (tab bar), `NewChat`, `NewChatIn`, `NewApp`, `PickTarget`, `Send`
(creations, answered by `Finish` or `Fail`), `Back`, `OpenSettings`, `LeaveSettings`,
`ShowPanel`, `ManagePeople`, `Reload`. `Redirect` and `RedirectFails` answer
`ensureMainChat`. `carried` and `rescoped` are history variables. `ClientBase` holds the
one constant the models of the browser share.

### `KernelPreview`, `FileReader`, `ChildMount`, `RunnerPreview`, `Canvas`

One module per surface, with `CanvasBase` for the constants they share, and `Canvas`
for the canvas with one of them: they share no state.

- `KernelPreview`: `registry` is the kernel's, `wire` the preview frames on their
  way, `bus` the client's map, `asks` the calls of `GET /preview`. `SurfaceLive` and
  `SurfaceSnapshot` are the pump, `FrameArrives` the bus with the pane's listener,
  `ShowSession` the effect with its cleanup, `AnswerAsk` and `AskArrives` the two
  ends of the call.
- `FileReader`: `NoticeArrives` is a `file_changed` that makes the read effect run
  again (`Restart` aborts the read before), `ServeRead` and `ReadArrives` the two ends
  of a read, `SaveLands` and `SaveSucceeds` those of a save. Texts are numbered in the
  order they are written. `missed` is a history variable.
- `ChildMount`: `load` is the resolution effect, `mount` the reducer, `seen` the copy
  its callbacks read (`Commit`), `sends` the `sendInit` calls that wait for a token.
  `Place` says where the screen puts the iframe; another place is another iframe.
- `RunnerPreview`: a callback together with the render and the effects that follow it
  (`Render`: `TokenEffect`, `UrlEffect`, `TimerEffects`, and `Hosted` for the iframes).
  Reads are taken and answered apart, so they overtake each other. A url is the stamp of
  a snapshot with the epoch its token was fetched in: a fresh token changes it. The
  runner service is external.

An operator called `X_Y` beside `X` is `X` with the slip `Y` in it (a missing guard,
a lost reset). Put in place of `X` it breaks the property `PROJECT.json` names
beside it: this is how each property is known to constrain the code.

## 3. What the runs show

| Run | Instance | Result |
|---|---|---|
| `pool` (`MCPrewarmPool.cfg`) | two owners of one project, two project-less file seeds of equal size, targets 1 and 2, three handles | holds |
| `workspace` (`MCWorkspace.cfg`) | three calls on one session, an owner who switches between two environments, a second owner, one pool handle | holds |
| `lifecycle` (`MCRunLifecycle.cfg`) | two messages on one session, two snapshots, two usage events each | holds, and implements `RunContract` and `KernelService` |
| `delegation` (`MCDelegation.cfg`) | three delegate calls, one target that delegates further and one that does not | holds |
| `persistence` (`MCPersistence.cfg`) | file: three messages of one session, one of another owner with the same session id, two turns kept; tables: two messages of one session, two events of the first | holds |
| `harnesses` (`MCHarnesses.cfg`) | each of four adapters, usage readings up to 3, two queued tools | holds, and implements `HarnessContract` |
| `environments` (`MCEnvironments.cfg`) | each of five adapters, three kinds of source, two tools, two ports, two servers a port | holds |
| `chat_client` (`MCChatClient.cfg`) | two chats, one with a history, two prompts, two sub-runs | holds, and uses `KernelService` as a client may |
| `shell` (`MCShell.cfg`) | two organisations, three projects, three chats, four moves, two creations under way | holds |
| `canvas` (`MCCanvas.cfg`) | each of four surfaces: two sessions and one server; three texts, two notices; two apps, two polls; two stamps, three runner versions, one read beside the poll | holds |
| `delegation_end` (`MCDelegationEnd.cfg`) | the same as `delegation` | a counterexample, section 4 |
| `chat_refused` (`MCChatRefused.cfg`) | one chat, two prompts | a counterexample, section 4 |

**Pool.** `AdoptedByItsOwn`: a claimed sandbox matches the claimer's owner,
environment, profile and project. `AdoptedNeverReaped`: a claim and a TTL never
both win. `NoOvershoot`: ready plus booting stays within the largest
target asked, until a teardown. `NoPhantomProvision`: the in-flight count is never
above the truth, so a key is never starved of refills. `NoneLingers` (liveness):
each sandbox is adopted or destroyed. Three handles are needed for a target of two
with a replacement under way; the fourth identity only differs in the content of
its files, which is the case where keys collide.

**Workspace.** `OwnersApart` holds with any overlap. `NoOrphan` and `RunsOnLiveSandbox` hold for sessions that were never
crossed. `LockReturns` (liveness). Three calls are the least in which a call
overtakes a second one that overtook a first; sessions share only the pool, so one
session with two owners and the pool covers what they can do to each other. (That an
entry describes its sandbox, and that the lock set is exactly that of the messages under
way, are theorems, section 5.)

**Lifecycle.** `EveryRunAnswered` (liveness): every message sent gets its `settled`
frame. `KeepsContract`: `RunContract!Spec`, that is one run at a time in a session,
one verdict that no later cause overwrites, and an answer with that verdict and the
bill as it is then. `ServesClients`: `KernelService!Spec`, that is a refused message
leaves the lock alone, and a session is freed once, by its own run, after the verdict
was written and before the answer is. (One terminal per stream and the survival of a durable snapshot
are theorems, section 5.)

**Delegation.** `BillRollsUp`: a run is billed for its own usage and that of all
runs below it, each event once. `OnlyOwnTerminalSettles`: whatever terminals
the children's harnesses and the orchestrator emit, a run is settled as its own harness
said, or at its return if that said nothing, and the top stream has one terminal. It
rests on what `Forwards` lets through: a sink that forwards everything settles the
parent, one that forwards too little breaks `BillRollsUp`.
`WorkspacesApart`: a child never works in an ancestor's session, and shares one
only with children of the same target. Three tasks reach the cap with one to spare
and leave room for overlapping siblings. (What `endSession` leaves is of children of
children, as `delegation_end` shows; that it is never of the session's own children is
a theorem, section 5.) Tasks are symmetric and the run checks safety only. It has one
cause: a terminal that settles the wrong run settles one that has not spoken, which
shows whatever the cause is; the theorem is for any causes.

**Memory.** `ConversationInOrder` holds whatever overlaps, tears or crashes: what a
message recalls are its own owner's turns in the order they happened.
`RemembersLatest` holds while updates come one at a time and can read the file: it is
exactly the latest turns of each session, also across crashes that fall between updates. Three
messages fill two turns and push one out; the fourth belongs to the other owner.

**Records.** `ReplayInOrder`: a run's stored events sorted by `seq` are in emission
order, up to `completeRun`; later events restart at 1, which is why the property
stops there. `TallyCountsTranscript`: where messages of a session begin after the
writes of the one before have landed, and no query fails, the session has one row,
every answer has its question in the transcript and no other message stands between
them, however the unawaited writes of one message overtake its answer. Its tally is
the number of transcript rows, or two less: a first bump may come before the row is
inserted, and it does not catch up (§4). The events of two runs share nothing, so only the first emits.

**Harnesses.** `DoneIsBilledInFull`: a run that is done is charged all that its provider
told of it, however the readings came (totals that rise, fall or repeat, deltas, one
sum at the end), and no run is charged more, save by the Claude adapter: it adds the
result's total to the messages that total counts, and charges up to twice the usage
(§4). `LivePreviewIsKept`:
a PI run that showed a preview, was not cancelled and did not throw has tried to
snapshot it, although `agent_end` gave its verdict before. `KeepsHarnessContract`: one verdict, no
charge after it, and no "cancelled" of a run whose signal did not fire, which three
adapters keep; Claude's says it too when its SDK throws an `AbortError` of its own
(`claude-agent-sdk/index.ts:131`), and charges nothing for that run.
`CancelEnds` (liveness): a run whose signal fires while its SDK works is over in the
end. Readings up to 3 allow a total that rises twice and falls between; two tools
are one that runs and one that waits.

**Environments.** `AllOrNothing`: the Daytona adapter hands out a filled workspace
or leaves no sandbox behind. `DestroyTakesAll`: after a destroy nothing listens,
runs or is billed, if nothing overlapped it. `DestroyEnds` (liveness): destroy waits
for viewers, not for ever, unless a proxy that cannot listen ends the process. Two callers and two ports are the least in which a port
is exposed twice and beside another.

**Chat.** `SaidWhereShown`: a turn holds what its own run's main agent said, however
runs and sub-runs overlap. `ShownIsKept`: no step takes back or reorders a turn.
`QueuedOrSent`: a prompt that is shown waits in its chat's queue or was sent; out is
the one a later prompt may replace, after the stream of an earlier one broke off,
which takes three prompts in a chat (two in this run) and is in the theorem.
`LockedIsBusy`: a locked composer has something under way that will unlock it; three
cases are out: a stream dropped for the sake of another chat or by a stop before the
session is there again, one that ended cleanly without a terminal, and the refusal of
section 4. `UsesService`: `KernelService!Spec` from the other side. The kernel's own steps
are that module's by construction; what can go wrong is the browser's half, that
no flush of the queue, second visit, stop or lost stream posts a prompt a second time or
without a session. The mutant leaves a prompt in the queue after it was sent.
Two chats and two prompts are one to stream and one to interfere; sub-runs
are symmetric (the run checks no liveness). Two more bounds are state constraints of
`MCChatClient`: `OneFetch`, the history of one chat at a time is on its way, and
`FewKids`, of the two runs only the first has both sub-runs open at once. The theorems
about `ChatClient` have neither.

**Shell.** `OwnScope`: the page and the tabs are of the organisation on screen, but
for projects that were carried over (see `carried` in the module).
`SelectionMirrorsRoute`: the selection is the URL's and the chat on screen has its
tab. `RedirectStaysHome`: a call for a main chat that can still move the user is of
the page on screen. `ProjectOpensAChat` (liveness): a project page comes to a chat
unless the call fails or the page is left. Four moves reach a page, cover or leave
it, come back and act on what was left; with two creations one may overtake the
other.

**Canvas.** `PaneShowsItsSession`: the preview pane shows what the bus has for its own
session, whatever answers for a session that was left. `ReaderShowsTheFile`: when
nothing is under way the reader shows the file as it is; three writes listed in the
module are out. `InitReachesItsApp`: the token of `AOS_INIT` reaches no iframe but
that of the app it was made for. `LoadingEnds` (liveness): the spinner of an app comes
to an end, with an app that never answers too. `ReadyIsShown` (liveness): a session that
is ready comes to be seen with its last url, but for one left without a token and one
whose url went back while its successor warmed. Three texts are one to read, one
to type and one that the agent writes between them; three runner versions are a
preview, its successor and one more while that one warms, or a new epoch; two polls are
one that is repeated and the last.

Bounds, all of them constants: `Handle`, `Target`, `Calls`, `Request`, `Opened`,
`Run`, `Snapshot`, `MaxUsage`, `Task`, `Key`, `Message`, `MAX_TURNS` (6 in the code, 2 in
the run), `MaxEvents`, `MaxTokens`, `MaxTools`, `Caller`, `Port`, `MaxServers`, `Chat`,
`ChatId`, `Kid`, `MaxPrompts`, `Archived`, `Org`, `Project`, `MaxGestures`, `MaxPending`;
`Session`, `Server`, `App`, `Stamp`, `MaxMoves`, `MaxTexts`, `MaxNotices`, `MaxPolls` (40 in the code), `MaxReads`. Deadlock is not checked
(`CHECK_DEADLOCK FALSE`) because each instance runs out of requests, handles,
tasks or moves and then has legally nothing left to do; that requests are not stuck
is what the liveness properties say. Each module's `TypeOK` was checked and most are
proved (section 5); the runs spend their properties on the rest.

**Fairness.** Weak fairness of: a TTL timer firing, `provision()` and `destroy()`
settling, a harness returning or throwing, and the event loop running what a
settled promise has made ready. The first and the last are Node's; the others are
promises of the adapters, for the kernel sets no timeout on them. Of an SDK: that it
ends a prompt whose abort it *heard* (each adapter wires the signal to its SDK for
that), answers a dispatched request, and, for `opencode`, ends a turn it accepted;
the capture's commands have timeouts. Of a viewer: that it leaves. Of the browser:
that the call for a main chat of the page on screen is answered, well or not; in the
canvas, that React commits, an iframe loads, timers fire and calls for a token, a
node, a session or its status are answered, well or not (a poll is repeated 40 times
at most). No embedded app has to answer and no runner has to move. No
client action is fair: nobody has to send, cancel, claim, open or end anything, and
no harness has to emit anything.

## 4. Where the code and its own words part

Two runs that TLC finds violated; each property quotes the repository.

`delegation_end`: `endSession` tears down "every child workspace"
(`src/kernel/index.ts:314`), except those of children of children.

`chat_refused`: a message that admission refuses is to be told a terminal "so the SSE
consumer settles" (`src/kernel/index.ts:243`). The terminal is written before
`runMessage` returns, `run_started` after it (`src/server/http.ts:508`); the client takes
that for a new start and ignores the `settled` that follows a terminal. A prompt that
is stopped and followed by another before the kernel is done with it is enough: the
composer of that chat stays locked.

Other limits are written into the properties: each is the reason for a condition,
and dropping the condition makes TLC show it.

- Pool: `destroyAll` does not reach provisions under way, which land in the pool
  afterwards (`NoOvershoot` holds until a teardown).
- Delegation: two delegate calls for one child session that overlap both provision, and the
  sandbox that is registered first is forgotten (`ChildProvisioned`; `EndSessionTakesOwn` is
  about what is registered).
- Workspace: two calls for a new session that overlap both provision and one
  sandbox is lost (`crossed`), although `warmSession` is called idempotent
  (`src/kernel/index.ts:114`). `/warm` sends no project, so it asks the pool under
  another key than the message that follows (`ClaimId`).
- Memory: two updates that overlap lose a turn, and an update that fails to read an
  intact file writes back a store with nothing but its own turn
  (`sessionMemory.ts:76`; `RemembersLatest` outside `disturbed`). Records: two first
  messages insert two session rows, and so does a select that fails
  (`sessionStore.ts:23-31`; `TallyCountsTranscript` outside `tainted`). Within it, the
  bump of a first message may find no row yet and be skipped, and the tally stays two
  short for good (`sessionStore.ts:68`); the user's row may land after the answer, so a
  transcript in order of insertion can show the answer first (`persistence.ts:96`).
- Harnesses: the Claude adapter adds the usage of the result to that of the messages
  it totals (`claude-agent-sdk/index.ts:111` and `113`), where the meter's own words are
  "provider reports incremental usage" (`_shared/harnessRuntime.ts:56`), so a run is
  charged up to twice (`DoneIsBilledInFull`); an `AbortError` its SDK throws of its own
  accord settles "cancelled" though nobody cancelled (`resigns`). An abort during `createAgentSession` is never heard by PI; an OpenCode
  dispatch that rejects settles the run but leaves its loop waiting (both outside
  `CancelEnds`, which speaks of `cutShort`).
- Environments: four of five adapters leave a sandbox behind when materialising
  fails (`AllOrNothing` names the fifth); overlapping exposes of one port leak a
  server (`crossed`), and a proxy whose port is taken before it listens ends the kernel
  (`docker/proxy.ts:67` has no error handler; `ListenFails`), whose sandboxes then go on.
- Chat: one subscription serves all chats, so a prompt in one drops the stream of
  another, whose composer stays locked. So does a stop pressed before the chat has its
  session again, which drops the stream and unlocks nothing (`useChatRun.ts:113-124`), and
  a stream that ends cleanly before its terminal, which `subscribeRun` does not tell from
  a finished one (`core/kernel.ts:146`). These and the refusal above are outside
  `LockedIsBusy`. A prompt for a new chat typed from within another one is posted with the
  session of the page left, whose effects run in the commit that moves
  (`useChat.ts:127-143`), although sessions are "keyed stably by chat"
  (`core/runnerSession.ts:84`); the run then counts as the other session's. The queue has one place per chat and counts on the locked composer,
  but a stream that breaks off after its terminal unlocks it: a prompt that waits for
  its session then loses its place to the next one and is never sent, although "the
  effect sends when ready" (`features/chat/hooks/useChat.ts:196`; the exception in
  `QueuedOrSent`).
- Shell: a new organisation is made active before `switchScope` looks for a change,
  so the page of the old one stays (`carried`); the history panel lists every
  organisation's chats; picking the active organisation clears the selection and
  keeps the page (`rescoped`); settings opened from settings become the page settings
  go back to (`OpenSettings`), against the comment at `app/shell/AppShell.tsx:50`; closing the
  last tab leads to a project page that names no workspace and so never asks for a
  chat (`CloseTab`).
- Canvas. A late answer of `GET /preview` replaces the newer url of the bus
  (`AskArrives`). Between a save and its answer a newer text may be written and read;
  the save puts its own back (`missed`), and what is typed meanwhile is dropped
  (`SaveSucceeds`). A ready app is moved to another place of the screen, so its iframe
  is made anew and gets no `AOS_INIT` (`Place`), against "a SINGLE stable iframe"
  (`features/canvas/components/child-app-mount/ChildAppIframe.tsx:5`). A token call that
  fails, or is cancelled as the path goes and comes back, is not repeated (`Starved`).
  Retry applies its read without the gate (`RetryArrives`), so "a replayed older
  snapshot" does regress a ready preview until the next poll
  (`features/canvas/lib/previewState.ts:48`). A url that goes back to the one in front
  while its successor warms is overtaken by that successor (`bounced`). Eviction is
  never taken back. The timer that would discard a broken frame (10 s) comes after the
  one that promotes it (1.5 s), and the state `router_upgrade` waits for
  `location.status`, which no browser has.

## 5. What is proved

TLAPS checks the theorems below for all values of the constants, from the named
assumptions of the modules (finite sets of handles and targets, well-formed
identities; sessions of runs; `None` outside the data).

`PrewarmPoolProofs`. `TypeOK`, `AdoptedByItsOwn`, `AdoptedNeverReaped`, `ReapedOnce`,
`NoPhantomProvision` and `NoOvershoot` are invariants of `Spec`. None of them is
inductive alone. `IInv` adds that a handle is on at most one list, once, and on the
list of the key it was warmed for; that listed handles are up, untenanted, armed
and never destroyed; that an armed handle is untenanted. The two counting properties
need more: `Counted` relates the in-flight counter to the *number* of booting
handles of its key (equal until a teardown, below it afterwards), which needs
lemmas on how the cardinality of that set changes when `ensure` adds a set of fresh
handles and when a provision settles.

`RunLifecycleProofs`. `LInv` is `TypeOK`, `StagesAgree` (what each stage implies
about settlement, terminals, result and `settled`) and `LockIsExact` (the lock set
is that of the runs between admission and release). From it `OneTerminal`;
`SnapshotSurvives` as an action property; and the refinement `KeepsContract`: the
initial states map to initial states, and each of the fifteen actions maps to a
step of `RunContract` or a stutter. `LockIsExact` is needed exactly once, for
`Accept`: an admitted run is the only open one of its session. `LifecycleServesClients`
maps each action to a step of `KernelService` or a stutter: what a run has reached is
read off its stage and whether a terminal is on its stream (`PhaseByStage`).

`PersistenceProofs`. The file: `TInv` is the types and the clipping: no store, on disk
or in hand, holds more than `MAX_TURNS` turns of a key. `ConversationInOrder` speaks of
what was recalled only; `StoresInOrder` says the same of the file and of every copy
an update holds between its read and its write, where the copy of an update has that
update's own turn behind the past it read. That turn is not filed yet, so an update
that files first must be shown to slip in before it: the lemmas `OrderedSuffix`,
`OrderedExtend`, `OrderedInsert` and `OrderedAppend` say when an order-preserving
embedding of one sequence in another survives clipping and appending.
`RemembersLatest` speaks of a file nobody writes; `UpToDate` adds that there is one
update at most and that what it is going to write are the latest turns and its own.
The events: `Numbering` says that until `completeRun` the counter counts the events
seen, so an event's number is its place, and whatever comes later has a place behind
those; `ReplayInOrder` follows. The tally: `TallyCountsTranscript` speaks of a session at
rest. `Pending` says what holds on the way there, with a number `base` of messages that
were in the transcript before the one run with writes under way (`Counted`): how far
its route is says how many it has added (`Stored`), whether its bump is behind it says
how far the row may lag (`Bumps`, `Lags`), and before the row is there `base` is zero.
An answer's question is stored or on its way (`Asked`), nobody writes behind the run's
own messages (`Last`), so those of one run stay together (`Together`), and one run at
most is under way (`Alone`); `tainted` takes the other sessions out.

`WorkspaceProofs`. Every step is a step of the pool or leaves it alone, so the pool's
invariant is cited (`PoolIsKept`), not proved again. `WInv` has two halves that share only types.
Sandboxes: what a call holds or an entry names is *born* (up, or provisioned by a call),
so its identity is fixed; entries describe it and holders may have it. A claim is
justified by the key: every listed handle is up and under its own key, and equal keys
mean equal owner, environment and profile. Lock: every step leaves the set of messages
under way, adds one whose session was free, or takes one out. From it `OwnersApart`,
`EntryDescribesSandbox`, `LockIsExact`, with no condition on overlap. Lifetimes need two
more. `Apart`, of every session: a sandbox is registered for one session at most and held
by its calls only, a fresh one is registered and held by none. `Calm`, of a session that
was never `crossed`: one call at most waits, the entry's sandbox is up unless that call is
switching away from it, a run works in the entry's sandbox, and every other sandbox a
call ever had is destroyed. `NoOrphan` and `RunsOnLiveSandbox` follow
from `Calm`.

`DelegationProofs`. `DInv` ties the stage of a task to its brackets, its child session
and its place in the lineage; `TypeOK`, `OnlyOwnTerminalSettles`, `BracketsClose` and
`WorkspacesApart` follow. `OnlyOwnTerminalSettles` rests on `TerminalStops`: given what
the `childSink` lets through, a terminal passes the pump of its own run and no other.
`WorkspacesApart` rests on the depth: an ancestor's session was
made by a run of smaller depth. `BillRollsUp` says what a fold over the tree of runs is, while
the tree grows. Its proof first shows what such a fold is for every finite set: that the
recursive function inside it exists, that any term may be taken out of the sum
(`SumTakesOff`), that a term of zero adds nothing (`SumOverZero`) and that raising one term
raises the sums it is in (`SumIncremented`). The induction theorems take an operator and
cannot be used; each of these lemmas instead takes the least cardinality at which it
fails (`LeastNat`). Then a usage event raises one term, and a task that is put below a run
has used nothing (`BillInv`). `EndSessionTakesOwn` needs that Root's record has the session
of every child of its own, that only those have depth 1, and that nothing below Root is
under way once Root is settled (`EndInv`).

`HarnessesProofs`. `HInv` is the types, what each step of each adapter implies about
verdict and listener, the meters (what is billed is what the meter has charged, and
never more than was reported, or twice that where Claude's total was added) and the
preview. From it `DoneIsBilledInFull`,
`LivePreviewIsKept`, and the refinement: each adapter action is a step of
`HarnessContract` or a stutter.

`EnvironmentsProofs`. `EInv` counts: without overlap a port has one server exactly
when it has an entry, or is the one being closed, and none once its entry was
visited. `AllOrNothing` and `DestroyTakesAll` follow.

`ClientProofs` is about the three parts of the browser. *Shell.* Everything that moves the
user goes through `Stage`, so the argument is about `Stage` once (`StageTypes`,
`StageMirrors`, `StageStaysHome`): given the store a handler leaves. Each handler then owes
its store; taking a tab out of the strip (`TabRemoved`) or putting it elsewhere
(`TabInserted`) must keep the tab of the chat on screen. `SInv` is inductive:
`SelectionMirrorsRoute` needs the types only, and `RedirectStaysHome` itself. `OwnScope` speaks
of the page and the tabs; `ScopeInv` asks the same of what may be shown next without
another look at the scope: the way back out of settings and the selection, which the
last closed tab falls back to. `FitsStays` says that no step takes a project out of its
organisation or out of `carried`, so a step owes where it leads (`MoveScope`); a call that
redirects leads to the project that is open, which is `RedirectStaysHome`.

*ChatClient.* `SaidWhereShown` needs the translator: an open sub-run is on its stack
(`OpenRun`), whichever sub-run is taken out of it (`Without`), so nothing of it passes as
the main agent's; and that a frame lands on its own turn needs that nothing of another
run follows it (`AnswersLast`), although `updateAssistantParts` writes to the last
assistant turn whosever it is. `LockedIsBusy` and `QueuedOrSent` need each other: an
open stream's prompt is the last of its chat or stands before one that waits, and what
waits is the last prompt of its chat, locked unless an earlier stream was lost
(`OpenInv`, `QueueInv`); a lock comes from the last prompt (`LockInv`); a prompt is shown by
one chat, and that is where its stream goes (`PlaceInv`). Four things happen to the
store (a prompt is sent, one is queued, an open stream is read, a stream ends) and each has a
lemma that it keeps the invariant; the actions are instances. `TranscriptsOnlyGrow` is
the action property `ShownIsKept` from the same steps: a history that comes late finds
turns, or a chat without any. `BrowserUsesService` needs one more fact, that the kernel
knows nothing of a prompt that was not sent (`SentInv`); what is sent then comes from
the queue or was typed in that step, and both are unsent by the invariant. Together with
`LifecycleServesClients` this ties the browser to the code of the kernel: both sides
implement the one module between them.

*Canvas.* The surfaces share no state, so each has its own invariant. The pane:
`UrlsInv`, every url on its way to a session is that session's, and the calls under way are
of the session on screen only (the effect's cleanup). The reader: while its channel is
there and nothing was missed, a write it does not know of has a notice on its way
(`ReaderInv`). The mount: a send that still holds a window holds that of its own app's
frame (`WindowInv`), which is an invariant of `Commit`.

Only model-checked: all liveness, with `LoadingEnds`, `ReadyIsShown`, `ProjectOpensAChat`,
`CancelEnds`, `DestroyEnds`, `LockReturns`, `EveryRunAnswered` and `NoneLingers` (outside the
prover's reach). Every safety property of a run is a theorem.

## 6. What is not modelled

Text (deltas, tool output, prompts, logging), authentication and request defaulting,
the read-only routes and the queries behind them, the registry's tables (static
look-ups), snapshot files on disk (content-addressed directories), the exit codes and
file access of environments, credential detection. In the browser: everything that
only renders (message list, input bar, settings pages, the diff, graph and history
screens), which is most of the lines of `apps/next`; forms that make one call and show its answer; renames and
deletes in the explorer; the layout of panes; the REST helpers of `core/chat.ts`
for the old runner; `writeLock.ts`, a polled badge. Of the canvas: the messages an app
gets after its handshake and the callback for a session that is gone. Of the chat: the
session `project-<id>` that a project's page without a chat has
(`core/runnerSession.ts:99`), in which nothing is sent but a prompt for a new chat as
above; and frames of sub-runs after a verdict (PI's terminal waits for its tools, a harness
that threw leaves their brackets open, and a run is only cancelled once its stream is
dropped). The shell hands
the canvas neither an app nor a file today and shows a kernel session's preview only;
the other surfaces are exported by the feature and modelled as their hooks and screens
are. `PROJECT.json` lists every component with its status and reason.

## 7. Plan

Done: every component of the kernel that keeps state, the adapters below it, and the
client's chat, navigation and canvas; the chat and the kernel against
one service between them; proofs in eight modules.

Left: deletes and renames in `Shell`; several workspaces of one organisation; the events
and sub-runs of `ChatClient` tied to `Delegation` the way its messages are to
`RunLifecycle`.
