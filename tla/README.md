# spilltea in TLA+

spilltea is an intercepting HTTP(S) proxy with a terminal interface. Proxy
goroutines, the terminal's event loop, background commands and Lua plugins share
requests, an SQLite file and a few in-memory lists. These modules model that
interplay, TLC checks it on small instances, and TLAPS proves every safety property that
the passing runs check of it, for any number of flows, entries, plugins, keys and texts. Liveness
is model-checked only.

Source paths are relative to the repository's root (`src/` in `PROJECT.json`).

## The system

### Parts

| Part | State | Operations | Hard behaviours |
|---|---|---|---|
| Intercept broker (`internal/intercept`) | channels `Incoming`, `IncomingResponse`; a decision channel per flow; `captureResponse`; the marks `outOfScope`, `droppedFlows` | `Hold`, `HoldResponse`, `SaveEntry`, `Decide`, `DecideResponse`, `SetCaptureResponse`, the watchers `WaitForRequest`, `WaitForResponse` | goroutines block on full channels and on a person; a flow is in a channel, with a watcher or on the page; marks outlive the call that leaves them |
| Proxy addon (`internal/proxy`) | the flow go-mitmproxy hands over | hooks `Request`, `Response` | plugin verdicts cut the hooks short; a dropped flow still reaches `Response` |
| Intercept page (`internal/ui/intercept`) | two lists and cursors, saved edits, text area, body view, switches | every key; arrivals; the editor's result | arrivals interleave with keys; views are copies redrawn by hand; switches race with what is on its way |
| App shell (`internal/ui/app`) | the page shown, overlays, sidebar | routing of every message, ticks, page changes, quit | a message for a page that is not shown is dropped; an overlay swallows messages |
| Database (`internal/db`) | tables `entries`, `replay_entries`, `findings` | inserts, deduplication, flags, bulk deletes, queries | check-then-insert, count-then-delete, from many goroutines |
| History page (`internal/ui/history`) | list, cursor, search | loads, searches, deletes, flags | results of asynchronous queries arrive late and out of order |
| Replay page (`internal/ui/replay`) | list, filtered copy of it, cursor, sends under way | edit, send, delete, filter | results are addressed by index; copies diverge |
| Findings page (`internal/ui/findings`) | list, unread mark | reload, dismiss, flag | a reload read before a dismissal arrives after it |
| Plugin manager (`internal/plugins`) | plugins with a Lua state and a lock each, `plugins.yaml` | hooks, toggling, configuration | synchronous hooks block flows; a plugin may disable itself while it is toggled |
| Diff page (`internal/ui/diff`) | two slots, aligned rows, focus, two viewports | fill, clear, align, scroll | the alignment algorithm; rows and offsets kept by hand beside the slots |
| Notifications, copy overlays (`internal/ui/components`) | a queue with a timer for each item; an open list | notify, dismiss; copy in one of seven formats | an overlay takes the messages of others; two parsers of one text |
| Editor, raw HTTP, cursor helpers (`internal/util`) | none | external editor, parse, cursor moves, page bounds | results that come back late; indices at the borders |
| Docs, home, config, style | small or none | | |

### How they interact

```
client -> go-mitmproxy -> interceptAddon.Request -> plugins -> Broker.Hold --Incoming--> watcher --msg--> app.Update -> intercept page
                                                                  ^                                                        |
                                                                  +------------- decision channel <----- Decide -----------+
server -> go-mitmproxy -> interceptAddon.Response -> plugins -> Broker.HoldResponse  (the same way, if captureResponse)
                                                  -> Broker.SaveEntry -> plugins -> DB
```

bubbletea runs one `Update` at a time, so every key and message is one atomic step.
Proxy goroutines, watchers (a command that returns one message and is registered
again by the app) and plugin goroutines run between steps.

### What makes each part correct

* Broker: no flow is lost or doubled between goroutine and page; a decision never
  blocks the event loop; an auto-forwarded or dropped flow leaves no trace in the
  history; every other flow is stored once at most, as what was sent and received or as
  what a plugin made of it since; nobody writes to a flow while a person decides it; with a
  database marks are reclaimed; every flow ends if somebody decides it.
* Intercept page: cursors stay in range; what is shown is what is forwarded; a
  saved edit belongs to its flow and is sent with it; switching interception off
  releases everything.
* Replay page: list, filtered view and database agree; a response belongs to the
  request it is shown under; what is edited is what is sent.
* Database: one row per deduplicated request; a flagged row survives a bulk delete.
* History and findings: what is shown converges to the table; a dismissed finding
  stays away.
* Plugins: no two hooks are in one Lua state; `plugins.yaml`, memory and page agree
  once a toggle or save is over; the first plugin by priority that decides decides;
  a plugin knows its present configuration. (Not: a disabled plugin runs no hook. A
  hook called while it was enabled still runs, and saving runs `on_config` anyway.)
* Diff: each panel draws the text of its own slot, aligned along a longest common
  subsequence; removed and added lines of one change share rows; both panels show the
  same rows.
* App shell: a message reaches the page it is for, or a later one makes up for it; a
  notification goes; the mark of unseen findings is off while they are shown.

## Modules

| Module | Models | Notes |
|---|---|---|
| `FlowGate` | what proxy and broker promise about a flow, nothing of how | abstract specification |
| `InterceptBroker` | `proxy.go` hooks, `broker.go`, `cmd.go`, with an abstract page (two sets of held flows) | refines `FlowGate` |
| `MCInterceptBroker` | instances of it | |
| `InterceptBrokerProofs` | type correctness, nothing lost, decisions never block; history, marks, held texts, auto-forward, refinement of `FlowGate` | TLAPS |
| `ListCursor` | `util/cursor.go` and the cursor after a removal | operators only |
| `Positions` | numbers in order, and a list at some of its positions: a loop that filters a slice, `ORDER BY id` | operators only, without recursion |
| `ListFacts` | what those two give: cursors in range, a filtered list in order and complete | TLAPS |
| `InterceptPage` | the page of `internal/ui/intercept` in place of the abstract one, with the app's routing as the page sees it | refines `InterceptBroker` |
| `MCInterceptPage` | instances of it | |
| `InterceptPageProofs` | its safety properties and the refinement of `InterceptBroker` | TLAPS |
| `ReplayPage` | `internal/ui/replay`, its table, the sends, the app's routing of its messages | |
| `MCReplayPage` | instances of it | |
| `ReplayPageProofs` | its safety properties | TLAPS |
| `HistoryDB` | the writers of `entries` and `findings`, `dedupMu`, the pages' statements, restarts | |
| `MCHistoryDB` | an instance of it | proofs: see `HistoryPageProofs` |
| `PluginManager` | `manager.go`, `pluginsfile.go`, the hook calls, the keys of the plugins page, quitting | |
| `MCPluginManager` | two plugins, after three of `plugins/` | |
| `PluginManagerProofs` | its safety properties | TLAPS |
| `HistoryPage` | `internal/ui/history`, its commands, the app's routing of their messages | over the table of `HistoryDB` |
| `MCHistoryPage` | an instance of it | |
| `HistoryPageProofs` | its safety properties, and those of `HistoryDB` | TLAPS |
| `FindingsPage` | `internal/ui/findings` and its table | extended by `AppShell` |
| `AppShell` | `internal/ui/app`: who gets a message, ticks, overlays, notifications, around `FindingsPage` | |
| `AppShellProofs` | types and the mark of unseen findings | TLAPS |
| `DiffAlignment` | the pure part of `diff/model.go`: common subsequences, pairing, word by word | recursive functions |
| `DiffPage` | slots, rows, focus and viewports of `internal/ui/diff` | |
| `MCDiffPage` | an instance of it | |
| `DiffPageProofs` | its safety properties: what the rows of any two texts are | TLAPS |
| `CopyFormats` | `ParseRawRequest` and what the copy overlays make of a request | operators only |
| `MCAppShell` | an instance of `AppShell`, and `CopyFormats` on all small requests | |

### How state and actions correspond to the code

**InterceptBroker.** A flow is a model value. `pc[f]` is where its goroutine is
(`HoldSend` is the send on `Incoming`, `HoldReturn` the receive of the decision, and
so on). `incoming`, `incomingResponse` are the channels; `arrived`,
`arrivedResponse` what a watcher has received and not yet delivered; `decision[f]`
the content of the flow's decision channel of capacity 1. `held`, `heldResponses`
are the sets an abstract page holds. `request[f]`, `response[f]` say which text a
flow carries (original, edited, a text of `Rewritten`); formatting is not modelled
character by character. Plugins are choices: any verdict, and any text of `AfterHooks`
left in a flow they see. `RequestHook` and `ResponseHook` are the synchronous ones, the
latter with both sides of the flow; `AsyncOnRequest` and `AsyncOnResponse` are the
goroutines that nobody waits for, from the line that starts them on (`HooksStarted`), any
number of times: during the round trip, the wait for a response's decision, `SaveEntry`,
and after the end. They do not run while the request itself is held, because
`RunAsyncOnRequest` is reached only after `Hold` has returned (`proxy.go:52`, `:62`).
What `isAutoForwarded` looks at is the text the plugins left, so `AutoForward` is a set of
pairs of flow and text. `database` says whether `db.Open` worked; without one no plugin is
loaded either (`app/model.go:96`), nothing is stored, and `SaveEntry` takes no mark back.
`fate[f]` (what became of the request) and `sent[f]` (what went upstream) are history
variables.

**InterceptPage** replaces the two sets by lists with cursors. One action per key
(`DecideKey` is Forward, Drop and their All variants, on the focused list), per
message and per routing decision of the app. A text on the screen is the flow it was
made from, the side and what it says; `Applied` is what `parseRawRequest` and
`parseRawResponse` leave in a flow when such a text is applied to it: `Parse` of what it
says, which is any function to the text itself or to one of `Parsed` (the parsers keep
only the last of several headers of one name, and neither CRLF nor the newlines at the
end of a body), or `Foreign` if the text belongs to another flow. `Hooks` are the
asynchronous plugins of the broker, which know nothing of the page. Scrolling, layout
and help are left out; `Resize` stands for everything that only redraws.

**ReplayPage.** `allEntries` and `entries` are sequences of records; `entries` is the
same sequence without a filter, and a copy with one, which is what makes `SetRequest`
change one or both. The code's `entryIndices` is not a variable: it is `Matching` of
the list, because every change of list or filter recomputes it. A filter is the set of
entries it matches (host, path and method of an entry never change). `rows` is the
table, `Restart` reads it again. `inFlight` is a bag of sends, each with the index its
`sentMsg` will carry. `screen` says who gets the messages of the program; `Typeahead`
whether a key can be handled before a message the program has sent itself earlier.

**HistoryDB.** One SQL statement is one step, because the read-write pool has one
connection. `pc` is where a goroutine is in `InsertIfNotDuplicate`, `InsertEntry` or
`UpsertFinding`; a flow here starts where `SaveEntry` of `InterceptBroker` decides to
save. A row of `entryRows` is the flow it stores, `flaggedEntries` the ids with the column
set; a finding is its `(plugin_name, dedup_key)`. `bulk` is the bulk operation the event
loop is in the middle of. `Restart` ends every goroutine wherever it is and may change
`skip_duplicates`. Its specification is `DBSpec`: no name of it is one of `HistoryPage`, so
that one module can extend both.

**PluginManager.** A walk over the plugins is `RunOnStart` (`on_config` of all, then
`on_start`), `RunOnQuit`, or an event: one call of a flow's hooks, a synchronous pass
and then, in a goroutine, an asynchronous one. `walk` says where each is; it looks at a
plugin (`Skip` reads `Enabled` without the lock) and is blocked while a synchronous hook
runs. `calls` are the hook calls that wait for `Plugin.mu`, `running` those inside; a
call remembers who made it. `LockAndEnter` is `p.mu.Lock()` with what the hook reads
first, `LeaveWalk` and `LeaveAlone` the return of the hook, what its caller makes of the
answer, and `p.mu.Unlock()`. `ui` is where the event loop is inside `TogglePlugin`,
`SaveConfig` or `RunOnQuit`, which it runs itself and so blocks in. The map of
`PluginsFile` has no lock: two writes at once are a data race the model does not have
(`setEnabled` and `setConfig` are one step each). Every call of a hook chooses its answer
anew (`Answers`): an `on_start` may return `false` now and not the next time, or raise an
error. `steady` and `said` only serve `VerdictByPriority`; `refusal` only serves
`PluginsFileAgrees` and `SelfDisabledStaysOff`: of each plugin, whether an `on_start` ever
answered `false`, whether the last one did, and whether it did so after `TogglePlugin` had
switched the plugin on and before it wrote that to the file (`"overtook"`).

**HistoryPage.** `entries` holds ids with the flag as it was read, which may differ from
the table's. A command is a record of `jobs`: `Run` is its goroutine reading the table,
`Deliver` its message coming to `app.Update`, in any order with those of the others;
`lost` says when the message reaches nobody. `EntriesLoaded`, `SearchResult` and
`SearchErr` are the three cases of the page's `Update`. A text that is typed is the set
of ids it matches, for a full-text search and for a query alike; only the empty text is
an error of syntax. `searchErr` is an error shown in place of the list: the page's `"own"`,
of a search that is open, or a `"stray"` one, which came when none was. `QueryFails` is
the database refusing: a load that fails delivers an empty list, a search or a query its
error. `LeavePage`, `EnterPage` and the two overlay actions are what the app does around
the page.

**AppShell** and **FindingsPage.** Findings are never deleted, so ids are `1 .. lastId`.
`loads` are the `RefreshCmd`s under way. `FindingsLoaded` takes the list of one of them;
`pager` is what the paginator keeps, and is left on its page as the code leaves it.
`AppShell` has one action per message and per key, with the guard that says whether an
overlay takes it: `overlay` stands for both overlays, which are handled alike.
`Announce` puts a `NotificationMsg` under way, `timers` are the `DismissMsg`s to come.
In the code a page shortcut also falls through to the page that is shown now, which
ignores digits.

**DiffPage** and **DiffAlignment.** A text is the sequence of its lines, a line the
sequence of its tokens, each a model value; `normRaw` and `HighlightHTTP` are modelled by
what they do to lines. What the code keeps in two slices of the same length, `leftLines`
and `rightLines`, is one sequence of rows with two cells. `dp` and the walk through it are
recursive functions with the code's choice on ties, and so is the loop of
`pairAndHighlight`: `PairedFrom` gives what it makes of the rows from each one on.
`wordDiff` has the same table and walk over tokens in the code, and uses `Alignment` here.
`Token` is what lines are made of; `DiffAssumption` says that texts are sequences of
sequences of tokens.

**CopyFormats.** A raw request is its first line and a sequence of lines, each empty, a
lone carriage return, a header or another text; a snippet is the URL, headers and body it
says are to be sent.

## Runs

| Run | Instance | Shows |
|---|---|---|
| `broker` | 3 flows, one auto-forwarded, capacity 1, with and without a database | no flow is lost, the channels keep their capacity, marks are reclaimed, under every interleaving of three goroutines, two watchers and a page |
| `broker_hooks` | 2 flows that plugins rewrite, one of them auto-forwarded unless a plugin sends it elsewhere, the other if a plugin does | the history is truthful; nobody writes to what is held; `FlowGate` is implemented; every flow finishes |
| `page` | 2 flows, capacity 1, a parser that changes what it is given | invariants of the page, arrival order, edits are sent, refinement of `InterceptBroker` |
| `page_editor` | 1 flow that plugins rewrite, with `$EDITOR` | switching interception off releases a request wherever it is, also while a text is with the editor |
| `replay` | 2 entries, deletions, keys that overtake messages | list, filtered view, cursor and table agree; the cursor follows its entry |
| `replay_sends` | 2 entries, edits, no deletions, no overtaking | every response reaches its entry; edits stay with theirs; a send that is watched ends |
| `replay_index` | with deletions | violation: a response reaches another entry |
| `history_db` | 3 flows, two with one request; 2 reports of one finding | no duplicate gets in; flagged entries go last; every call ends |
| `plugins` | 2 plugins, one of them with an `on_start` that answers `false` whenever it likes; 1 event, 2 keys, quit | at rest file and memory agree, and the page with them, but for the cases named in the properties; verdicts follow the priorities; nobody is stuck |
| `diff` | every pair of texts of up to 3 lines over 4 lines, and two with a body that is pretty printed | each panel draws its slot; the comparison is the smallest; removed and added lines share rows |
| `history_page` | 2 entries, a term that matches one, 7 keys, 2 commands under way | the cursor follows its entry; what was asked for comes to be shown, with no error over it, in whatever order results arrive, unless an error came when no search was open |
| `shell` | 2 findings, 2 loads and 2 notifications, 4 keys | the findings come to be shown; notifications go. Its module evaluates `CopiesAgree` |

`CopiesAgree`, an assumption of `MCAppShell` that TLC evaluates, says of every request of
up to four lines (headers, a repeated header, a length, empty lines, lone carriage
returns, text) and of a URL with and without a query: the two overlays agree on URL,
headers and body (without a lone carriage return, see below), and every snippet sends the
request to its URL with its body and, if no header is repeated, with its headers, without
the length that an edit would make wrong.

### Bounds

Three flows and channels of capacity 1 are the smallest instance in which one flow is
on the page, a second with the watcher or in the channel and a third blocked on the
full channel; auto-forwarding needs one more kind of flow. Plugins that write to flows
meet two of them (`broker_hooks`) or one on the page (`page_editor`): what they write to a
flow touches no other, and with them the other two instances would take more than the few
minutes a run should. What these show is proved for every `Rewritten`. The page has two flows,
so that a removal leaves a list with another item, and a list of one row per page, so
that page moves differ from single steps; the two can be renamed, so symmetry is used. One
text to type, plus `Foreign`, tells edited from unedited and right from wrong, and one of
`Parsed`, which typed and received texts become, tells what is shown from what is sent.
No counter is bounded otherwise: the models are finite by themselves once the flows are.

Replay: two entries are enough for one to take the index of the other; of the filters,
one matches nothing and one hides the first entry, so that positions and indices
differ. `MaxEntries` bounds the requests sent to replay in a behaviour; deleted ids
are not used again, as in SQLite's AUTOINCREMENT. The sends under way are bounded by
the entries' `sending` marks and the finite set of different sends, plus repetitions,
which the bag counts. `Deletions = FALSE` and `Typeahead = FALSE` are assumptions on
the person of the run `replay_sends`, without which its properties fail, as
`replay_index` shows of the first.

History: two flows with one request race for the mutex, a third makes the table differ
from it; two reports of one finding are one before and one after a dismissal. Ids are
bounded by the number of flows.

Editor: with one flow the text of one side can already come back to the other, which is
all that another flow could add to the refinement. Releasing is about one request, too:
those before it in the channel or on the page only leave earlier.

Plugins: two plugins give an order of priority, and one of them that starts in a goroutine,
may disable itself there and answers requests next to one that is synchronous and has a
configuration gives every pair of locks and callers. Two keys are a toggle of each
plugin, two of one, a toggle with a save, or one of them and quit. One event at a time
(`MaxEvents`), out of a request and an entry, meets the walk at startup and the keys;
that any number exclude each other is proved. One of the two configurations does not
parse.

Diff: three lines over two tokens have texts without, with one and with several common
subsequences of the same length, runs of removed and added lines of different lengths, and
pairs whose lines share a token; four lines add nothing that the walk has not met at its
two borders and in the middle. Heights of 2 and 3 are smaller than, and as large as, the
texts. The reference of `FewestChanges`, `MostMatches`, is the definition: the largest set
of pairs of equal lines of which no two cross.

History page: two entries and a term that matches the older one make the index of the
selection differ between list and search in both directions. Two commands are what it
takes for a late result; seven keys are a search opened, typed, accepted, an entry
deleted, and the search left again. `MaxEntries`, `MaxKeys` (keys, page changes and
queries that fail) and `MaxJobs` bound inputs.

Shell: two findings, of which one may be dismissed or flagged, two loads that may pass each
other, two notifications of which the first may be dismissed before the second comes, four
keys to leave a page, open an overlay and act in it. A list of one and of two rows per page
makes the pager move.

### Fairness

`InterceptBroker!Fairness`: weak fairness of every goroutine and of the two watchers
(the Go scheduler runs what can run), of the page taking an arrival (the event loop
handles every message), and of the person deciding what is held; the last is assumed
only where a property needs it, and `EveryFlowFinishes` does. `InterceptPage!Fairness`
assumes nothing of the person. Round trips end, one way or the other, because
go-mitmproxy's transport has timeouts.

`ReplayPage!FairSpec`: weak fairness of the end of each entry's send; the HTTP client
has a timeout of 30 seconds, and the event loop handles each message, if only by
giving it to a page that ignores it.

`HistoryDB!DBFairSpec`: weak fairness of each goroutine. It is enough for the mutex too:
each goroutine takes it once, so it is free for good in the end.

`PluginManager!FairSpec`: weak fairness of the program as a whole, which is less than
that of each goroutine: something that can run runs. It is enough because no goroutine
has endless work. A hook is taken to end (requests and commands of a plugin have
timeouts of 30 seconds; an endless loop in a script would hold its lock for ever).
Keys, flows and quitting are nobody's duty.

`HistoryPage!FairSpec`, `AppShell!FairSpec`: weak fairness of the oldest command (a query
on a local file ends, and the event loop handles its message), which passes to the next
when it is gone; of the tick, which a timer fires; of notifications and their timers. The
person owes nothing. `CHECK_DEADLOCK` is off in both: an overlay ends the chain of ticks,
and with the person gone the program then rests. `ShowsWhatIsAsked` and
`FindingsReachTheUser` say so: they speak of behaviours in which no tick met an overlay.
`ShowsWhatIsAsked` also leaves out an SQL query, which nothing refreshes, and a `"stray"`
error, which nothing but another search clears (both below).

## Proofs

Each proof is about `Spec` for every value of the constants that the named assumption of
the module allows (`BrokerAssumption`, `PageAssumption`, `ReplayAssumption` and so on: a
channel has room for one item, a page of a list for one row, a bound is a number). TLC
evaluates these assumptions in the runs. The strengthenings of the broker, of the replay
page and of the diff page were model-checked as invariants before they were proved.

**The broker** (`InterceptBrokerProofs`).

1. `TypeCorrect`: `TypeOK` is inductive.
2. `NothingLost`: `NoFlowLost` says that a flow is in one of the places channel, watcher,
   page and decision channel exactly if its goroutine waits, and in one only. It covers
   both directions because they share the goroutine: with `TypeOK` it is inductive.
   `DecideNeverBlocksCorrect` follows, as a flow with a decision is in no other place.
3. `HeldTextsCorrect`: what is on the page, or on its way there, is written by nobody until
   it is decided: the asynchronous hooks of a request start after `Hold`, those of a response
   after `HoldResponse`, and the former do not write to the response. A lemma,
   `StepRespects`, says of every step what it may change of a flow that waits; the proofs
   of the page rest on it.
4. `LedgerCorrect`: `Ledger` adds which marks and which history entries a flow has at each
   place of its goroutine, with a database and without, and that what it carries after the
   round trip is what was sent or a text of `Rewritten`. `HistoryCorrect`,
   `AutoForwardCorrect` and `MarksCorrect` follow from it.
5. `GateImplemented`: each step maps to a step of `FlowGate` or a stutter; it needs
   `TypeOK`, `NoFlowLost` and `Ledger`.

**The intercept page** (`InterceptPageProofs`) uses them under the refinement mapping,
`held <- ToSet(queue)`.

1. `PageInvariant`: its invariant, `PageInv`, has the broker's own invariants as a part:
   without them a step of the page is not one of the broker (a flow on the page could have
   a full decision channel). The other parts say that no flow stands twice in a list, the
   cursors are in range, edits are of flows in the list, and that each text on the
   screen is `Known`: what may be put into a flow. A text outlives its flow's stay, so
   `Known` admits any text of a flow that is `Past`.
2. `PageRefinesBroker` takes each key and message to a step of the broker or a stutter;
   `All` keys and the switches decide several flows in one step. `PageLosesNothing` and
   `PageKeepsHistory` carry the broker's theorems over.
3. `BodyCorrect`, `EditsCorrect`, `EditsSentCorrect` are from `InStep`: what is open in
   the text area belongs to the item under the cursor, although the lists grow under it,
   and otherwise the body view shows what Forward would send. They assume
   `~ExternalEditor`, as the properties do in the runs: a text that comes back from
   `$EDITOR` is shown and not forwarded (`ForwardSendsWhatIsShown`, below).
   `EditsSentCorrect` holds for every `Parse`: what it says is that the edit, and no other
   text, goes through the parser into its own flow.
4. `OrderCorrect` is about `queue`, watcher and channel as one line, `Line`; each step
   removes items of it or appends one.

**The replay page** (`ReplayPageProofs`).

1. `PageInvariance`: `ListsInv` says that the list has each id of the table once, in
   order (`Ascends`, `Covers`), with the flags and responses of the table (`Agrees`; the
   answer to a send reaches the row before the list, or never the list), and that what is
   shown is the list or the filter's positions of it. `MessagesInv` types what is typed and
   under way. `TypeCorrect` and `ListsCorrect` follow. `ListsAgree` says
   the same through `Ascending`; unfolded, it can be taken through a deletion of one entry, or
   of all but the flagged ones, item by item. What it lacks to be inductive is the cursor
   in range, a filter without a term that is off, and that an id is still to be given
   while a request is queued.
2. `ResponseCorrect`, with `~Deletions`: every send under way has the index at which its
   entry still is (`SendsNameTheirEntry`). With deletions it is false: `replay_index`.
3. `EditsCorrect`, with `~Typeahead`: while a text is typed, or with the editor, the page is
   shown, no request is queued, and the entry of the text is under the cursor (`EditsInv`).
   `Typeahead` is a key that is handled before a message the program has sent itself.
4. `SelectionCorrect` is about the steps that filter, send or answer: `ApplyFilter` finds
   the entry it was told to prefer, wherever the filter leaves it.

**The database** (second part of `HistoryPageProofs`). `StoreTypeCorrect` says that
`DBTypeOK` is inductive. `LedgerOK` ties mutex, goroutines and rows:
`Guarded` (who is past the search holds `dedupMu`, and the search still holds), `RowsSaved`,
`Counted` (what is unflagged after a count of 0 is new). Without `Guarded`, "no duplicate
is added" is not inductive: a second goroutine could stand between search and insertion.
`NoDuplicateCorrect`, `DuplicatesCorrect` and `FlaggedCorrect` follow; `DismissedCorrect`
holds of every step by itself. The assumption is `HistoryAssumption`: each flow has a
request, each report a finding, and flows and reports are different goroutines.

**The plugin manager** (`PluginManagerProofs`). `ManagerInv` is the invariant of all.

1. `LuaExclusiveCorrect` from `Locked` (who is inside holds the lock).
2. `FileInv` says who is about to put right what differs: `Toggling` and `Saving` (what the
   event loop is about to write is what it put in memory, unless the plugin has disabled
   itself since), `UIWaits` (it waits for its own synchronous call, and has one at most),
   `Started`, `EnabledSaved` (file and memory agree, the event loop is about to write, or an
   answer was overtaken), `Refused` (what `refusal` may be), `ConfigSaved`.
   `FileAgreesCorrect` is this at rest; `PluginsFileAgrees` alone says nothing of the steps
   in between. `ConfigAppliedCorrect` adds `Told`.
3. `VerdictCorrect`: `EventsInv` says that all targets before the present one have been heard
   and none has decided. It needs `WalkInv`: a walk that waits for a synchronous hook has
   the call of that hook pending and of no other, so that an answer is that of the plugin
   the walk stands at (`Awaited`, `WalksWait`); `WalkKinds` says which hooks a stage calls.
4. `SelfDisabledCorrect`: `SwitchInv` says that a plugin whose last `on_start` answered
   `false` is off or has the next one ahead: called, or in the hands of the event loop
   (`ToStart`). One that never answered so differs from what the page shows only while the
   event loop is inside its toggle.

Nothing is assumed of the answers: every call may give any.

**The history page** (`HistoryPageProofs`). `CursorCorrect` (a non-empty list has its cursor
on an entry) is inductive once what the commands under way have read is known to be a list
(`JobsOf`), and the ids of the table to be finitely many (for `Listing`). `SelectionCorrect`
is about the step that delivers a message: the index `Anchored` chooses is one whose entry
has the selected id, whichever such index it is. `TypeCorrect` adds `Typed`: a result under
way lists no id the table has not given yet, so it can be shown whenever it comes.

**The shell** (`AppShellProofs`). `NoMarkCorrect`: every action that shows the Findings page
or changes its list while it is shown clears the mark. `TypeCorrect` is from `FindingsInv`
(a load under way lists ids up to `lastId` and has no more items than that, so a late one
leaves `knownCount` and cursor in range) and `NoticeInv`: a notification is queued only with
its timer.

**The diff page** (`DiffPageProofs`). What is drawn comes from four recursive functions: the
table, the walk back through it, the rows from each row on, and `FlattenSeq`. The theorems
hold for any texts of any length.

1. `RecursionDefines`: each of them has the values its equation gives. A value depends on
   values that are less deep (nearer to the corner of the table, or to the end of the rows),
   and that is all the lemma assumes; it is proved once for the four.
2. `MostMatchesInTable`: the last corner of the table has the size of the largest set of
   matches that do not cross, `MostMatches`. `LongestMatch` and `LongestNoMatch` take
   such a set to a shorter pair of texts and back; `TableEven` says that neighbours differ
   by one at most.
3. `AlignmentWalks`: the walk goes from corner to corner to the last one, meets every line of
   both texts once and in order, has met as many matches at each corner as the table says,
   and never removes a line right after it added one (`NoAddedBefore`: the choice on ties).
   `WordDiffWords` is the same for the tokens of a pair of lines.
4. `DiffFromWalk`: the rows of `LcsAlignedDiff` go through the same corners.
5. `ChangeSpans` and `ChangeIsFlat`: a run of removed rows with the added ones after it lies
   between two corners with one value in the table, so the table has that value at
   every corner between (`TableGrows`), and no line removed there equals a line added there.
   This is why the code may put any of them on one row.
6. `BlockBetween`: the rows that pairing makes of a change still go from its first corner to
   its last, and a line stands alone only where the other side is used up.
   `PairedRows` joins them from the last row up: the result is a `Comparison`.
7. `DrawnLeft`, `DrawnRight`, `UnchangedCounted`, `ChangesHold`: what the three properties and
   the last part of `TypeOK` say follows from `Comparison`.
8. `DiffInvariant`: `rows = ComputeDiff(left, right)` in every state, although the code
   computes them in one handler and resets them in others; with it, the second slot is only
   filled after the first and both panels have one offset (`ComparisonCorrect`). The
   last needs that `Content` gives both panels the same number of lines once both slots
   are filled, or clamping would part them. `PanelsCorrect`, `FewestCorrect`,
   `PairsCorrect` and `TypeCorrect` follow.

The exception of `PanelsShowTheirSlots` is a real one: where pretty printing changes the
lines of a body, the code shows highlighted lines at the indices of plain ones.

**Lists** (`ListFacts`). Paging, jumping and removing leave a valid cursor; `Ascending` and
`Kept` give what is selected, all of it, once, in order. That is induction over the size of a
set. The induction theorems of the library take an operator, which the provers cannot
instantiate, so the proofs take the least counterexample instead: a set of numbers that
is not empty has a least one (`LeastExists`, from the well-foundedness of `<`). The same
argument, as `Induction` over a set of numbers, is what `DiffPageProofs` uses throughout.

### Only model-checked

* Liveness: `EveryFlowFinishes`, `InterceptOffReleases`, `AnsweredWhileWatched`, `CallsEnd`,
  `HooksSettle`, `ShowsWhatIsAsked`, `FindingsReachTheUser`, `NotificationsGo`.
* `CopiesAgree`, over all small requests.

`AutoForwardUnseen`, `DecideNeverBlocks`, `DuplicatesWereStored`, `DismissedForGood`,
`LuaExclusive`, `NoMarkWhileShown` and `PanelsScrollTogether` are proved and no part of a run.

## Disagreements found

The run `replay_index` exhibits the first; `PROJECT.json` quotes the lines.

* The result of a replayed request goes to the entry at an index, which a deletion shifts.

Six more are stated as properties of the modules, and TLC finds them violated when they
take the place of the properties of a configuration (`ForwardSendsWhatIsShown`,
`FilledAfterSend` and `SqlRunsOnEnter` as a PROPERTY, the others as an INVARIANT):

* `ForwardSendsWhatIsShown` in `MCInterceptPage.cfg` with `ExternalEditor = TRUE`: a text
  modified in `$EDITOR` is shown but not forwarded, unless edit mode is entered and left
  afterwards (`README.md:55`, "Inspect and modify them (even with your favorite editor)
  before forwarding").
* `FilledAfterSend` in `MCReplaySends.cfg`: a response that comes while another page or an
  overlay is shown is lost, and its entry can then not be sent again
  (`ui/replay/model.go:33`, "filled after send").
* `OnStartAfterOnConfig` in `MCPluginManager.cfg` with `Mode <- MCModeFilter`: a plugin that
  was off at startup and is switched on from the page runs `on_start` without `on_config`:
  `RunOnStart` has passed over it and `TogglePlugin` does not make up for it
  (`docs/plugins.md:39` and `:180`). `ip_filter.lua`, which is off by default, then checks
  empty lists.
* `SqlRunsOnEnter` in `MCHistoryPage.cfg`: a full-text result that arrives after `:` was
  pressed accepts the query that is being typed (`docs/history.md`: "then `Enter` to run"),
  and so hides its input.
* `BoundsInList` in `MCAppShell.cfg`: the pager of the findings list is left on a page that
  a dismissal or a larger window has done away with; `renderList` then slices the list
  beyond its length, and beyond its capacity the program panics
  (`util/util.go:40`, "clamped start/end indices").
* `ReadyWhenBothFilled` in `MCDiffPage.cfg`: the history page sends an empty response to the
  diff, which reports that it is ready with one slot empty (`ui/diff/update.go:16`, "emitted
  when both slots are filled").

More were met while modelling:

* On the replay page, edits made under a filter are written to the filtered copy and are
  not sent (`SetRequest`, `Escape`); `README.md:57` says "modify it if needed, and send
  it again".
* A plugin whose `on_start` answers `false` between the two steps of `TogglePlugin` (it was
  called before, by the walk at startup or by an earlier toggle) is left enabled in
  `plugins.yaml` and disabled in memory: `TogglePlugin` writes the file after it has given
  the lock back (`Flip`, `SaveFlip`; the case `"overtook"` of `PluginsFileAgrees`).
* The plugins page shows the opposite of what it showed, not what the manager has: a
  plugin that has disabled itself is shown as enabled, and after the next toggle the other
  way round (`PressToggle`; `SelfDisabledStaysOff` says it of no other plugin).
* Switching response capture off forwards the responses held with `DecideResponse`
  directly (`ui/intercept/update.go:151`), without their saved edits, where switching
  interception off goes through `applyAndDecide` (`ToggleCaptureResponse`).
* `default_config.yaml:16` says that `queue_size` bounds what is pending before the
  proxy blocks. It is the capacity of a channel which the watcher empties at once
  (`TakeRequest`, `RequestArrived`); the page's list has no bound.
* The comment on `SetAutoForwardRegex` (`broker.go:77-78`) promises no history logging.
  Only `Hold` leaves the mark `SaveEntry` looks for, so a matching request that a
  synchronous plugin forwards itself is logged (`RequestHook`, `SaveEntry`).
* Under an SQL query nothing refreshes the history list: a flag or a deletion is not shown,
  and Delete all decides by the flags as they were read. Pressed between Enter and the
  result, it deletes the list that was shown before (`Enter`, `ToDelete`).
* An error that arrives after its search was left is drawn in place of the list, and loads
  fill the list behind it without clearing it: the history stays hidden until a search is
  opened and left, or brings a result (`SearchErr`, `EntriesLoaded`; the `"stray"` error of
  `ShowsWhatIsAsked`).
* A saved edit is sent as the parsers read it: of several headers of one name the last is
  kept, CRLF in a body becomes LF, and newlines at its end are lost, also when the text was
  opened and saved unchanged (`Parse`).
* Without a database the marks of auto-forwarded and dropped flows are never taken back
  (`SaveEntry` returns before it looks at them): the maps grow with the traffic.
* An entry of the history shows the request as it is when it is saved. A plugin that
  writes to it after the round trip, in `on_response` or in an asynchronous hook, changes
  what the history says was sent (`HistoryTruthful` allows that and nothing else).
* An overlay that is open when the tick arrives ends the chain of ticks: History and
  Findings are no longer refreshed until the program is started again (`Tick`). It also
  takes the messages that bring a request to the replay page, a ready diff, and an error
  of the proxy.
* The count the unread mark compares with is only brought up to date when the Findings page
  is shown: after a dismissal a new finding may leave no mark (`ClearUnread`,
  `FindingsLoaded`).
* The Python and Go snippets keep one of several headers of the same name (`AsMap`); the
  HTTPie snippet writes the line breaks of a body as `\n`, which the shell leaves as they
  are; ffuf keeps an empty scheme; the two overlays disagree on a header block that ends
  in a lone carriage return (`FirstOf`).

## Not modelled, and why

* The listener, TLS, certificates, proxy authentication, the file system: I/O.
* Rendering, scrolling, layout, icons, style: no state that anything else reads.
* Wording and quoting of the copy formats, colours of the syntax highlighting: pure text.
  Lines that highlighting adds or takes away are modelled, in `DiffPage`.
* Docs page, home page, command line, configuration: texts, choices and file system access
  before or beside the program's work; values of the configuration are constants.
* Sidebar, log viewer and the end of the program after an error of the proxy.
* On the history page, the focus of the panels and the keys that send an entry to the replay
  or diff page; what arrives there is in `ReplayPage` and `DiffPage`.
* A flow whose connection breaks between the two hooks (go-mitmproxy calls no
  Response hook then): its marks stay. How the library ends such a flow is outside
  this repository.
* The bundled Lua scripts: the models allow any verdict a script could give. A script that
  keeps the table of a flow and writes through it after its hook has returned is not
  modelled.
* Data races as such: an asynchronous hook and the proxy may be at the header maps of a
  request at once, and two writers at the map of `plugins.yaml`; the models order them.

## Plan

1. `PluginManager` composed with the broker's hooks: its verdicts in place of choices.
2. A fault model of the table in `ReplayPage`, as `HistoryPage` has it: insertions that fail.
3. The home page: the sessions it creates, opens and deletes.
