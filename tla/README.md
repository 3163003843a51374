# TLA+ models of bulk-client

The repository is a client SDK for the Bulk exchange: a Rust crate (`api-rust`), two command line
tools built on it (`cli`, `cli-sdk`) and a Python package (`api-python`). This directory holds the
TLA+ modules that model its stateful parts, the TLC configurations that check them on small
instances and the proofs that TLAPS checks for every instance.

To run: `tlc -config WsRequests.cfg MCWsClient.tla` for a run, `tlapm WsClientProofs.tla` for
the proofs. `PROJECT.json` lists the runs, the source lines of every definition, the hazards, the
findings and the theorems.

## Inventory

| Component | State | Operations | Hard part |
|---|---|---|---|
| Rust WebSocket client, `api/bulk_ws.rs` | handle: request counter, join handle behind a mutex, connected flag; actor: socket, pending map; channels: commands (512), events (32768), a oneshot per call | connect, place_orders and its wrappers, update_oracle, open_orders, subscribe_*, shutdown, closed, subscribe_disconnect | calls, actor, dispatch task and exchange interleave; timeouts race late replies; the actor ends in five ways, one of them a panic |
| Account state, `handle_account` in the same file | margin, positions, open orders, leverage, approvals; published on a watch channel | snapshot, order, fill, margin, position and leverage updates | fills and order updates for one order in either order; snapshots over stale state; partly parsed snapshots |
| Event handlers, `on` and the dispatch task | handlers by topic behind a std mutex | registration, dispatch | handlers that register handlers or panic while the mutex is held |
| Rust HTTP client, `api/bulk_http.rs` | none between calls | queries, `place_tx` and ten methods for single actions, history pages | a request that was executed although its answer is lost; error bodies read up to a limit |
| Transactions, `transaction/*.rs` | cached order id | build, link, nest, hash, sign, verify, render in clear text | the same action as signed bytes, as JSON and as text; ids cached before the nonce is known |
| Ledger, `transaction/ledger.rs` | connected devices | resolve a wallet with retries, sign | devices that come, go and are swapped between two steps |
| Solana, `solana/*`, `cli/handlers/solana.rs` | a sent transaction | deposit, withdraw, confirm | confirmation poll: errors and time limits while the transaction may still land |
| CLI, `cli/src` | config file, a batch of actions, a nonce | all commands: check, build, wrap in multisig proposals, preview, prompt, submit, report | order of a batch across proposals; time between preview and post; a verdict from several results |
| Market plans, `cli-sdk/src` | configuration files | read plan, select definitions, build actions, propose | choice among several definitions, order of actions, what is in one proposal |
| Python WebSocket client, `bulk_api/api/bulk_ws.py` | socket, receive task, pending futures, subscriptions, account, books, inventory | connect, disconnect, reconnect, subscribe, place_orders, update_oracle, on/off | handlers awaited in the receive loop, single-attempt reconnect, shared request ids, replay of subscriptions |
| Python order books, `data/orderbook*.py` | sorted levels, fixed arrays in the compiled one | snapshot, delta, best prices, depth, sweep | sorting under a limit on the levels, one-sided books |
| Python inventory, `common/inventory.py` | position and cost by symbol | traded, position_for | crossing zero; fills counted twice |
| Message types, `msgs/*`, `messages/*` | none (values) | parse, build | status tables |

The parts interact as follows. A task that holds a clone of the Rust handle sends commands on a bounded
channel to the actor task, which alone owns the socket and the pending map, and waits on a oneshot; the
actor pushes state on watch channels and events on a bounded event channel, drained by a dispatch task
that calls the registered handlers; a shared flag and a broadcast channel announce the end of the actor.
The Python client runs the same protocol in one asyncio loop: callers, the receive loop and the user's
handlers are coroutines that interleave at awaits. The command line tools call the clients from one task.

What makes each component correct:

- **Rust WebSocket client.** An answer reaches the call it is for and is true of its request; a call
  that is told "not sent" is never executed; no call waits on a dead actor; `shutdown()` and `closed()`
  return, and only after the actor; whoever is told of the disconnection finds the flag down; every
  disconnect receiver fires.
- **Account state.** After any sequence of messages the readable parts equal the exchange's; what is
  published between messages is the actor's own state; an event is not ahead of the publication it
  announces; a waiting task gets a later publication.
- **Event handlers.** Handlers run in the order of the events; a handler that registers another, or
  panics, does not end the dispatch of the events that follow.
- **Transactions, ledger.** What the exchange accepts is what the caller built, signed for its network by
  the announced key; what is signed is accepted; a Ledger shows what it signs; an order id computed
  beforehand is the exchange's; a wallet named by its key is the one that signs although devices change
  under the search, and a search gives up only when there is nothing to find.
- **HTTP client, Solana, command line tools.** What is executed is what the preview showed and the user
  confirmed, at most once per run; a batch keeps its order when part of it is wrapped in proposals, and
  nothing that needs an admin multisig goes past it; a new market comes up configured and suspended; what
  is reported has happened; a confirmed command ends.
- **Python WebSocket client.** As the Rust client, and: `disconnect()` is final, subscriptions are
  replayed, a lost connection is replaced, and a handler may use the client it is called by.
- **Order books.** The book follows the exchange's; the compiled book is sorted and agrees with the
  plain one; queries equal their plain definitions.
- **Inventory.** Position and cost follow the fills, once each, across zero.

## Plan

The order is that of the damage an error would do, and of what later modules build on.

| Step | Modules | Content | State |
|---|---|---|---|
| 1 | `RequestReply`, `WsClient`, `MCWsClient`, `WsClientProofs` | requests, actor, lifecycle; contract of a trading call | checked and proved |
| 2 | `AccountState`, `MCAccountState`, `SharedLemmas`, `AccountStateProofs` | account, publication, events, waits | checked and proved |
| 3 | `PyWsClient`, `MCPyWsClient`, `PyWsClientProofs` | connect, reconnect, disconnect, subscriptions, futures; contract of a trading call | safety checked and proved |
| 4 | `OrderBook`, `FastOrderBook`, `BookFeed`, `MCBookFeed`, `BookFeedProofs` | both books, their queries and the feed | checked and proved |
| 5 | `Inventory`, `PyAccount`, `MCPyAccount`, `PyAccountProofs` | fills, position updates and snapshots in the Python client, cost basis and profit | checked and proved |
| 6 | `CliArgs`, `Commands`, `MarketPlan`, `HttpClient`, `SolanaTransfer`, `BulkCli`, `MCBulkCli`, `BulkCliProofs` | runs of the command line tools and of programs that use the HTTP client | safety checked and proved |
| 7 | `Actions`, `ClearSign`, `LedgerWallet`, `TxSigning`, `MCTxSigning`, `SigningProofs` | a transaction from the caller to the exchange's verdict | checked and proved |
| 8 | `EventDispatch` | `on` against the dispatch task: mutex held by a handler, poisoning, order | not modelled |

`RequestReply` is the abstract specification of a trading call, implemented by `WsClient` and by the part
of `PyWsClient` that does not share ids with `update_oracle`. `EventDispatch` would compose with `WsClient`
over the event channel; `PyAccount` is built on `Inventory`; `BulkCli` composes `HttpClient` and
`SolanaTransfer` with the tools and their plans; `TxSigning` composes the rendering and the search for a
device with the signature. `BulkCli` and `TxSigning` meet in `Actions`, which holds the fields of every
action: `BulkCli` treats a signature as one step that may fail, `TxSigning` takes it apart. `SharedLemmas`
holds the lemmas that several of the proofs share, on paths of messages, on loops and on totals.

## Modules

### RequestReply

What a trading call promises: it is issued once, the exchange judges the request at most once, and the
call returns the verdict, "not sent" (then the exchange never executes it, not even later) or "unknown"
(timeout, disconnect, dropped sender).

### WsClient (`api/bulk_ws.rs`)

A task makes one call, so a call is a model value of `Requests` (`place_orders`, `update_oracle`),
`Readers` (`open_orders`), `Subscribers` (`subscribe_*`), `Stoppers` (`shutdown`) or `Waiters` (`closed`).

| Variable | In the code |
|---|---|
| `call`, `outcome` | how far the method has got (`sending`: in `cmd_tx.send().await`; `waiting`: on the oneshot; `locking`, `joining`: at the join handle), what it returned |
| `nextId`, `id` | `next_request_id` and the id a call took |
| `cmds`, `chan` | the mpsc command channel, each command's oneshot |
| `pc`, `cur`, `pending` | where the actor task is, the command being written, the `pending` map |
| `connected`, `handle`, `lock` | the shared flag, the `JoinHandle` in its `tokio::Mutex`, who holds it |
| `watcher` | receivers of `subscribe_disconnect` |
| `events`, `seen` | the event channel, the kinds of event handlers have been called with |
| `net`, `inbox`, `exchange` | the socket, messages in flight, what the exchange did: the environment |

Each action is what one task does between two awaits. The caller's are `Begin`, `Enqueue`, `SendFails`,
`Receive`, `Timeout`, `TakeHandle`, `Joined`, `CancelClose`, `Watch`. The actor's are `Start` or
`StartFails`; one branch of its `select!` (`ReadEnds`; `HandlePost`, `HandlePostPanics`, `HandleUpdate`;
the four `Take...`); `WriteDone` or `WriteFails` for the await on the sink; and the teardown. Up to the
close of the socket the teardown does not await, but other threads see the flag, the resolved oneshots,
the event and the broadcast one after another, so these are steps of their own. `Die` is the drop of the
actor: after a failed start, on the panic at an unknown reply type, and after the teardown that a lost
connection or a shutdown brings.

Abstracted: payloads (a reply is one of five kinds), the ticker and other latest-value watch channels,
handler registration, `AsyncTx` and `SendRaw` (no public method sends them). The drop of the last handle
makes `cmd_rx` yield `None`, which the code treats as `Shutdown`; the model has only `Shutdown`.

### AccountState (`handle_account`, `wait_*`)

`exch` is the account at the exchange, changed by placing, filling, amending and ending orders and by
leverage changes; each change appends the messages the exchange would send to `inbox`. `HandleAccount`
takes one message and changes `acct` as `handle_account` does; what follows in the handler (the
publication and the event, in the order of the message's kind) is in `todo`, run by `PublishAccount` and
`EmitEvent`, since other tasks see these one by one. `watch` is the watch channel with its version, and
`WaitChanged`, `WaitNext`, `Wake` and `Read` are the two `wait_*` methods: `changed()` and the `borrow()`
after it are two steps. A snapshot carries the set of its parts that fail to parse. `unread` is a history
variable: the parts whose latest news could not be read.

One symbol stands for all of them; position, margin, leverage and approvals are numbers that tell
versions apart, sizes are signed. The fields of an order other than its size are left out.

### PyWsClient (`bulk_api/api/bulk_ws.py`)

Everything runs in one asyncio loop: a step is what happens between two awaits. Connections are numbered,
and the receive loop created with a connection has its number; task 0 is the user's. `task[p]` says at
which await a task is, `job[p]` what its `connect()` has still to subscribe to. `UserConnect`, `Opened`,
`OpenFails`, `Subscribed`, `SubscribeFails` are `connect()`, run by the user or, through `Reconnect` and
`WakeUp`, by the `_reconnect` of a loop. `Disconnect`, `Joined`, `Close`, `DisconnectReturns` are
`disconnect()`; the cancellation it requests is delivered later, at whatever await the loop is
(`Cancelled`). `HandleUpdate` runs a handler inside the loop; it may await a trading call, and the loop
then waits at `handling`. `Debug` wraps the socket in `LoggingWebSocket`, which turns an abnormal end into
a normal one; `Hasty` lets the user connect again while an old loop lives; `Errors` and `UnknownStatus` let
the exchange send errors that name no request, and replies the client cannot read.

`HandlePost` takes the future out of `pending` (`bulk_ws.py:1048`) before the statuses are parsed (line
1059). A status that `OrderStatus.from_string` does not know (`enums.py:112`), or an error body that is not a
dictionary, raises; the receive loop logs it and goes on, and the call waits for its timeout with a future
that neither a reply nor a protocol error reaches any more. `PendingIsAwaited` is stated around that: the
map holds nothing stale, and only such a call is missing from it.

The contract of `RequestReply` is stated of the awaited calls: a call is open between its write and its
return, and one whose task is cancelled has returned without knowing anything. `update_oracle` takes the id
of the last trading call and keeps no future, so with it the contract fails; it is checked and proved for
`Oracles = {}`, and `OwnAnswersAreTrue` says what is left for a call in the presence of oracle updates.

A `ws.send` that raises is taken to have written nothing: the library raises before it hands a frame to
a connection that is no longer open. Left out: `unsubscribe` (no public method), handlers of error
messages, and what the messages do to tickers (`PyAccount` has the account, `BookFeed` the books).

### Inventory, PyAccount (`common/inventory.py`, account handlers of `bulk_ws.py`)

`Inventory` is operators: `Traded` is `traded()` with its four cases, `Net` the result of `pv()`. Prices
are whole numbers. The averages are too, because the exchange only makes fills that leave it with one
(`Whole` in `FillOrder`, a named bound; in the run every price is a multiple of 16, so that `Whole` cuts
nothing off). The client divides as the code does, and that its averages are whole is a consequence. `PyAccount` has the
exchange place, fill and end orders and send what follows from it (fill, order update, position update,
and perhaps the public trade of the fill before or after them), lose the connection with or without what
was in flight, and begin the next one with a snapshot. A message in flight when the connection is lost can
still be handled, since the library hands out what it has buffered. The client's handlers take one message
each; a message that does not parse is logged and changes nothing. Three history variables say what may
be claimed: `unsure` (what an unread or lost message, or a trade booked twice, may have left wrong),
`exact` and `flows` (units and money of the fills since the last snapshot, if each was booked once).

### OrderBook, FastOrderBook, BookFeed (`data/orderbook.py`, `data/orderbook_jit.py`)

The first two are operators: a side of the plain book is a function from keys (negated price for bids) to
sizes, a side of the compiled book the sequence of the entries in use of its fixed arrays. `UpdateLevel`
is `_update_level_sorted` with its binary search, full array included: `Narrowed` is one turn of the
search, `FastSteps` what the arrays hold after each level of a delta. The code stores a level that is
worse than all of a full array one slot past it, which here leaves the entries as they are. `BookFeed` has the exchange
change its book and send deltas and snapshots on one stream, lose the stream in a reconnection, and the
client's two handlers apply what arrives. Snapshots are complete (`nlevels` is not modelled), messages of
a connection arrive in order, and `Absent` is the client without a book, which only emits deltas. The
history variable `wasFull` has the sides whose array was full before, within or after a delta since the
last snapshot: levels that were dropped then are missing for good.

### Actions, ClearSign, LedgerWallet, TxSigning (`transaction/*.rs`, `msgs/*.rs`)

A transaction is a function from positions to actions, since `MultisigPropose`, `Trigger` and `OnFill` hold
lists of actions: `<<2>>` is its second action, `<<2, 1>>` the first one in that. Encoding, parsing and
rendering then work at every position by itself, and what stands under what is a matter of prefixes.
`Actions` has the schema: the fields of every kind of action, each with the class of its encoding (exact,
fixed point, optional, a map, ...), and what a value of a class becomes in the signable bytes
(`Binary`) and after a trip through JSON (`Reparsed`). `ClearSign` lists what the line of a kind leaves
out (`LineTables`) and the nested actions it only counts. `LedgerWallet` has one search over the bus: which interfaces count, which are usable, which one the
locator names, and the advice when there is none. `TxSigning` is the state machine:

| Variable | In the code |
|---|---|
| `actions`, `meta`, `orderId` | `Transaction.actions`, the `ActionMeta` of the first one with its cached hash, the last id that `hash()` returned |
| `bus`, `attempt`, `wallet`, `pubkey` | HID interfaces, retries of `resolve_wallet`, the device it found, the key the signer announced when it was built |
| `domain`, `signature` | the client's `SignatureDomain`, the bytes or the envelope signed and by which key |
| `advice`, `verdict` | the hint of a failed search; the exchange's verification: the environment |

`Link` and `HashFirst` are the caller's; `Resolve` is one attempt of the search, made when the signer is
built and again for each signature; `SignRaw`, or `SignOffchain` and `DeviceSigns`, are
`Transaction::sign`; `Post` and `Judge` are the way through JSON and the exchange. `ChangeBus` is the user
with the cables. A value is a token of its class (`"a"`, `"nan"`, a number with more than eight decimals, a
map of two entries): byte formats, hashing and signatures are kept to what they tell apart.

### CliArgs, Commands, MarketPlan, HttpClient, SolanaTransfer, BulkCli (`cli`, `cli-sdk`, `api/bulk_http.rs`)

`CliArgs` has the arguments of each command as clap delivers them, `Commands` the checks of each handler
and the actions it builds, `MarketPlan` those of `bulk-sdk`: selection of definitions, models and
policies, and the order of a market's actions. `HttpClient` is `place_tx` over a network that loses
requests and answers, the methods for single actions, and the reading methods with the chunks of an error
body. `SolanaTransfer` is blockhash, send and poll over a network where a call may fail whether or not it
took effect. `BulkCli` composes them into whole runs:

| Variable | In the code |
|---|---|
| `stage` | where `main` is: saving the config, wrapping, submitting, at the prompt, posting, waiting, on chain |
| `stored` | the config file, `"broken"` after a cut-off save |
| `asked`, `at`, `wrapped`, `pending` | input, position, output and open proposal of `wrap_admin_actions`; a proposal holds the positions of its actions |
| `nonce`, `clock` | `make_nonce`, taken before the preview, and the wall clock, which may go back |
| `phase`, `tx`, `result` | `place_tx` |
| `rpc`, `transfers` | the RPC calls of a transfer; what the chain took (environment) |
| `inbox`, `answer`, `executed` | the network and the exchange (environment) |
| `page` | a reading request and what is left of its body |
| `runs` | history: what was shown, said, told and reported in each run |

`HandleConfig`, `HandleLedgerInfo`, `HandleOnChain`, `HandleSigned`, `HandleSdk` and `HandleLibrary` start
a command as the two `main`s do, up to the first refusal; `WrapNext` is one turn of the loop of
`wrap_admin_actions`; `Submit` and `SubmitAction` take the nonce and show the preview; `Answer` is the
prompt; `Post`, `Report` and the actions of `HttpClient` are the submission. `MayRun` is the user: one
command, again after an error, or another one after the configuration was changed. Left out: the parsing by
clap, the layout of previews and reports, and which API url a request goes to.

## Runs

| Run | Configuration | What it shows |
|---|---|---|
| `ws_requests` | `WsRequests.cfg` | two trading calls and a `shutdown`, every kind of reply: types, `AnswersAreTrue`, `NoStrandedCall`, `NoStaleEntry`, and that `WsClient` implements `RequestReply` |
| `ws_liveness` | `WsLiveness.cfg` | under fairness: calls return, `shutdown` and `closed` complete although one is cancelled, watchers are notified, flag before notice |
| `ws_exit_silent` | `WsExitSilent.cfg` | finding: a disconnect receiver never fires after a failed start or a panic |
| `acct_mirror` | `AcctMirror.cfg` | the account mirrors the exchange's, publication and events in order, waits return later publications |
| `signing` | `Signing.cfg` | every kind of action with every class of value, alone and nested, signed by either kind of signer for either network: accepted is what was built, signed is accepted, the device tells it, the named wallet signs, order ids agree |
| `submission` | `Submission.cfg` | every command and every method over a lossy network and run again after an error: executed is what was confirmed, once per run, through the multisig it needs; markets come up suspended; reports are true; commands end |
| `http_account` | `HttpAccount.cfg` | finding: the account and the nonce given to a method for a single action do not reach its transaction |
| `py_calls` | `PyCalls.cfg` | a call of a task and one of a handler, late and unreadable replies, errors, a reconnection: true answers, nothing stale pending and nobody missing from the map but a call whose reply could not be read, and the contract `RequestReply` kept |
| `py_connect` | `PyConnect.cfg` | losses, failed attempts and `disconnect()` at every await: disconnection is final, subscriptions replayed |
| `py_handler` | `PyHandler.cfg` | finding: a handler that awaits a trading call is answered only by its timeout |
| `py_account` | `PyAccount.cfg` | fills, updates, snapshots, own public trades and a lost connection: positions and orders follow the exchange, profit is that of the fills |
| `book_feed` | `BookFeed.cfg` | both books follow the exchange's, the compiled one stays sorted and agrees with the plain one, queries equal their definitions |

Bounds, and why they suffice:

- `WsClient`: two requests (a misdirected reply needs two), command and event channels of one slot (both
  full at once: callers wait, events are lost), two messages in flight (a late reply behind another).
  `ws_requests` is symmetric in the requests; its properties are safety properties. `ws_liveness` has one
  call of each kind that has no timeout, one of each that joins the actor, and no symmetry.
- `AccountState`: one buy and one sell order of up to two units (partial and full fills of both signs),
  two changes by the exchange after a first snapshot, an event channel of two, one waiting task,
  unreadable margin or orders. `WorkingUpdate = FALSE` is the harder case: after a partial fill the order
  is known from the fill alone.
- `PyWsClient`: three connections where reconnection is the subject (one lost, one that replaces it, one
  that must not come), one failed attempt, two ends by the other side; two connections where calls are.
  The last connection of the bound is never ended by the other side. `py_calls` has no oracle update, so
  that the condition of `OwnAnswersAreTrue` always holds in it; the theorem has any number of them. Only
  `py_calls` has unreadable replies: in `py_handler` they would be a second reason to wait.
- `PyAccount`: one symbol, a buy and a sell order of up to two units, positions up to two, two prices:
  a position is opened, added to, reduced, closed and reversed. Three changes by the exchange, one lost
  connection; the account changes only while at most one message is in flight.
- `BookFeed`: three prices and arrays of two levels, so that the arrays overflow and a deleted level
  makes room again; two sizes; deltas of one and two levels, of which the first may fill the arrays
  before the second is applied; one message in flight. The connection is lost only after a first
  snapshot; before it the books hold nothing that could be stale.
- `TxSigning`: every kind with every value of every field alone, nestings of two levels, three drafting
  steps (hash, link, hash: a stale cache needs all three), two networks. A limit order is also signed
  against all buses of up to two devices, each with a known or unknown product id, ready, held or locked,
  which change twice, so that one change may come before and one after the signer is built. Texts of up to three lines fit an
  envelope, so that one of four does not.
- `BulkCli`: for every command the arguments its code tells apart, with and without preview, prompt,
  Ledger, key and domain; two runs (a repetition needs two); a clock of two readings; five lists of
  statuses, with none, one and several outcomes; bodies one chunk below, at and above a limit of three;
  two polls. `http_account` has one run of a single-action method. The lists that the commands build are
  of one sort each: all ordinary or all of one multisig. In the runs a proposal is therefore extended,
  and flushed at the end of the list; the flush before an ordinary action or before one of another
  multisig is taken by no command, and rests on the proof, whose inductive step (`WrapNextStep`) is
  about any list.
- `CHECK_DEADLOCK FALSE` stands where the system really stops: every call made has returned and the
  actor has ended, the transaction has its verdict, the last run is over, or the bound on the changes is
  used up.

## Fairness

`ws_liveness` and `ws_exit_silent` assume what tokio does for a task that is ready. Weak fairness: the
actor's start, its teardown and the end of a socket write (which completes or fails); a failed send; a
ready oneshot; a timer; the join of an ended task; the dispatch task. Strong fairness: the two branches of
the actor's `select!`, because it polls them in random order and either may be disabled in between by
the other; a slot of the command channel and the mutex of the join handle, because tokio's semaphore
serves first come first served. Not assumed: that anyone calls, that the exchange answers, that the
connection ends.

`submission` assumes that the program goes on by itself and that the timeout of the HTTP client fires
(`main.rs:403` and `bulk_http.rs:152` give every client one). Not assumed: the network, the exchange, the
user, the clock, and the Solana RPC client, which has no timeout; so `CommandEnds` says nothing of deposits
and withdrawals. `signing` has only safety
properties and states no fairness.

`py_handler` assumes that the event loop runs every ready task and that a write or a
connection attempt ends one way or the other. It also assumes an exchange that executes and
answers what it received, so that the counterexample cannot blame it. Timers, users and the network are
free.

## Findings

| Run | Where | What |
|---|---|---|
| `ws_exit_silent` | `bulk_ws.rs:1023` | `run()` returns before the loop when the initial subscriptions fail, and panics on an unknown reply type (line 1441), without the teardown: no broadcast, although the doc of `subscribe_disconnect` promises one for any reason. `is_connected()` stays true by the same exits |
| `py_handler` | `bulk_ws.py:1089` | handlers are awaited in the receive loop, which alone can read the reply they wait for; the documented example does exactly that |
| `http_account` | `bulk_http.rs:564` | the methods for single actions put `account` and `nonce` into the action's meta data only, and call `place_tx` without them; the docs promise that every method takes them |

Known limits without a run of their own, most of them actions or cases of the models.

*Rust WebSocket client.* `Disconnected` is lost to handlers when the event channel is full
(`bulk_ws.rs:1453`); a cancelled `closed()` or `shutdown()` drops the join handle it took, and the next one
returns while the actor runs; `wait_account_changed` may return one publication twice; callers wait without
a limit for a slot of the command channel (line 203); a status `modified` removes an order from the open
ones (`order_status.rs:56`); a negative ack becomes a response of status `"Error"` for which `is_error()` is
false, and so does `"transactionRejected"` (`responses.rs:21`); an order of unknown status is ignored; `connect()`
starts the actor before the caller can register a handler, so that `Connected` may reach none (line 1029).

*Transactions.* A `max_leverage` map of several entries is signed in the order of one `HashMap` and
verified in that of another; NaN signs as a number and is posted as null (both are exceptions in
`SignedIsAccepted`); `as u64` saturates; an unknown time in force is read as GTC; a Ledger found without a
key in the locator may be swapped for another, whose signature is then rejected; the actions under a trigger
or a fill are only counted on the device; only the HTTP client sends `X-Bulk-Sig-Mode`;
`docs/clear-sign-v1.md` describes older wording.

*HTTP client and tools.* A method for a single action panics when the exchange answers with no status; a
request that timed out may be executed, and the command run again executes it a second time with another
nonce; nonces are the wall clock in nanoseconds, neither monotonic nor unique; the config file is
truncated before it is written (`config.rs:28`), and a cut-off save makes every later command fail; the
exit code is 0 when the exchange rejects; of several created proposals the first is printed; without a
preview there is no prompt; `create-multisig` counts a signer given twice; `update-multisig` does not
compare the threshold with the signers; `create-bip1` reads the executor file twice. A Solana signature
is printed only when it is confirmed, so that a deposit repeated after an error may be a second one. A
preview that cannot be rendered ends the command before the prompt (`submit.rs:34`); that way out is not
modelled, it only makes fewer requests.

*Python.* A reply of a status the client does not know, or of an error that is no dictionary, takes its
call out of `pending_requests` and leaves it to its timeout, although the order may rest on the
exchange; the table of the Rust client knows `modified`, `pending`, `canceled` and `triggered` besides;
`update_oracle` uses the id of the last trading call (`bulk_ws.py:315`), and a reply then answers the
trading call still waiting under it; `_reconnect` makes one attempt (line 642); `connect()` returns
False when a subscription fails but leaves a receive loop that reconnects by itself (line 165), so that
after another `connect()` one of two loops survives `disconnect()`: `PyConnect.cfg` with `Hasty = TRUE`
violates `DisconnectIsFinal` and `SubscriptionsReplayed`; a loop that ends normally (a clean close by
the server, or any loss with `debug=True`) does not reconnect; one order of unknown status makes the
client drop a whole account snapshot; a fill that also comes as a public trade is booked twice until the
next position update, in the cash for good; a popped `Position` is zeroed and never updated again (line
899); a BBO without asks leaves the asks in the book; `get_depth` of the plain book is 0 for bids
(`orderbook.py:162`).

## Proofs

`tlapm` checks each of these modules to the last leaf. They hold for any sets of calls, orders, readers,
command lines, transactions and prices that satisfy the named assumptions of the modules, and any
capacities and bounds. The assumptions that say more than what kind of value a constant is:
`CallsAssumption` (the kinds of call are disjoint), `BoundsAssumption` (channels have at least one slot),
`AccountAssumption` and `PyAccountAssumption` (the statuses that end an order are not those of a live
one; in `PyAccount` there are finitely many orders, and prices are whole numbers), `SigningAssumption` (a case is a transaction with a position for every parent, and a locator that
names a key names one seed), `LinesAreTotal` (every kind has a line), `FeedAssumption` (finitely many
prices, positive sizes, and `Absent` is not a book). The others are `PyAssumption`, `BulkCliAssumption`,
`HttpAssumption`, `SolanaAssumption`, `MaxLevelsAssumption` and `StableAssumption`.

**`SharedLemmas`** has the lemmas that several proofs share. A client that handles messages one after the
other goes through a path of views; a copy follows the original when the last view of the path agrees with
it. Sending extends the path at its end (`LeadsConcat`), handling shortens it at its beginning
(`LeadsTail`). For loops inside one handler there is `Turns`: what holds before the first turn and is kept
by each holds at the end. The library's induction theorems take an operator and cannot be instantiated, so
induction here is over a set: the least turn that is not in it (`Least`, from the well-foundedness of the
naturals) has no predecessor.

The same way round the obstacle gives the totals. The library's sums are folds over a set, defined by a
function on the subsets with a choice at each; the lemmas say what such a function is for a finite set, and
then that a sum does not depend on the order of the choices, splits over a disjoint union, and changes by
what one of its terms changes (`SumFacts`, `SumUnion`, `SumChange`). `BookFeedProofs` and `PyAccountProofs`
rest on them.

### Rust WebSocket client

**`WsClientProofs`.** `TypeCorrect`, `Inductive`, `AnswersTrue`, `NoStranded`, `NothingStale`.
`AnswersAreTrue` is not inductive: that a returned answer is true follows from what the oneshot holds, which
follows from the reply taken from the socket, whose id must be that of one call only. The invariant `IInv`
says so in parts:

- `IdsUnique`: an id is below the counter and belongs to one call;
- `QueueOnce`: a command is in the channel once, and only after its call has sent it;
- `PlaceInv`: a request is unsent, queued, being written, pending or out of the map, one at a time, and
  until it is written the exchange has not seen it; this is what "not sent" rests on;
- `AnswerInv`: what the oneshot and the return value say of a request is true, and a "not sent" request
  has no copy left that could still be written;
- `InboxInv`: a reply in flight tells the verdict on the request with its id;
- `WaitingInv`: a waiting call has its sender in the channel or in the map. When the actor dies both are
  dropped, hence `NoStranded`, however it ends.

`NothingStale` adds `StaleInv`: while the connection lasts, the answer to a request that is pending and
judged is in flight, and what is in flight without an id answers nothing. Taking the answer removes the
entry, so that an entry which outlives its answer cannot be.

`Implements`: every step of `WsClient` is a step of `RequestReply` or leaves its variables alone. Under
`IInv` only `Begin` issues, only `Execute` judges, and `Receive`, `Timeout` and `SendFails` return; the
lemmas state, for each of them, what the caller's view of its request becomes.

`FlagDownFirst` follows from an invariant on the control point of the actor: until the flag is down nothing
that announces the end (an outcome, a notified watcher, an event queued or seen) exists. `ReturnsAfterExit`
follows from where the join handle is: in the mutex, with the one task that holds the lock, or gone because
the actor has ended or a call was cancelled.

**`AccountStateProofs`.** `Published`, `PublishedBeforeEvents`, `NextLater`. The invariant `PubInv` lists
what can be left of a message: nothing, one event, one publication, or both in the order of its kind; with
no publication to come the watch channel holds the actor's account. An event of a fill or margin update
of the current message is queued only once its publication is out, and a task in
`wait_next_account_update` has marked what was there at its first poll.

`Mirrors`: the invariant `MirrorInv` says of the exchange that its orders have sizes of the sign of their
side, and of the messages in flight that they lead from the actor's account to one that agrees with the
exchange's. Each change of the exchange has a lemma: the messages it sends take any account that agreed
before the change to one that agrees after it. A trade sends several, and after the first of them the
order is reduced and the position is not, which is why the invariant is about the end of the path. A part
that does not parse stays among those that may differ (`unread`) until a snapshot brings it, and an order
update of a status the client does not know makes the orders one of them.

### HTTP client and command line tools

**`BulkCliProofs`.** `ThroughMultisig`: for any command lines, `wrap_admin_actions` yields the actions asked
for, in order, each in the multisig it belongs to and two neighbouring proposals to one multisig merged. The
invariant `WrapInv` says of every turn of the loop that what is flushed together with the open proposal
wraps the prefix read so far; `WrapsAlone` and its companion lemmas say what an append to such a list is.
`bulk-sdk` proposes its list as a whole, so that its part rests on a lemma that goes through its commands:
all they build is admin work of one multisig.

`MarketSuspended`: the list that a command of `bulk-sdk` builds has each new market between its
configuration and the action that suspends it (`Followed`), and is proposed as a whole. `bulk-cli` appends
the suspension right after the market, and wrapping keeps neighbours of one multisig in one proposal
(`CliTogether`). Either way the two are together when they are submitted (`Together`, `Modelled`);
`MarketInv` says which of these facts holds at which stage.

`AtMostOnce` and `OnlyWhatWasConfirmed`, for any network, any number of runs and any clock. What is executed
comes from a request in flight, so the invariant `SubmitInv` speaks of both:

- `Histories`: the lists are lists, and what is in flight, executed or transferred names a run that exists;
- `Once`: the requests in flight and the executed ones are of different runs;
- `Confirmed`: each of them is what its run showed, and the user agreed;
- `Progress`: nothing of the current run is out before it is posted or sent, and by then `shown` is exactly
  the transaction that `place_tx` will make of what was wrapped, nonce included.

`ServersOwnError`: `PageInv` says of a body being read that what was kept followed by the chunks to come is
what the server sent, and that no more than the limit was kept; a body that ends within the limit is then
the server's. `ReportsAreTrue`: `ReportInv` follows the good news from where it arises to where it is
printed: an answer without error is of a request the exchange has executed (`Answered`), a signature of a
transfer the chain has confirmed (`Polled`), and what a run has printed stays true (`Honest`). Lemmas on the formatters say that what they leave out of the statuses was
followed by one they print (`FormattedTells`).

### Transactions and signing

**`SigningProofs`**, for any transactions, any nesting, any devices and any changes of the bus. Because a
transaction is a function from positions, what the code does recursively is stated position by position and
needs no induction. `SigningInv` has the type invariant and

- `Devices`: the key the client uses, and the one that signs, is of a device the locator names;
- `Signed`: what a signature is over, and that there is none before the nesting was found valid;
- `Hashed`: a cached hash is of the meta data that goes with it;
- `Judged`: what the exchange accepted it parsed from the client's JSON, with the bytes that were signed.

From it `SigningTypes`, `ExecutedWasSigned` (what is executed means what the caller built), `SignedAccepted` (the exchange recomputes the bytes that were signed: `Binary` of what JSON
brings back is `Binary` of what was sent, kind by kind), `TargetKeySigns`, `SearchFinds`,
`DeviceTold` (the clear text has a line for every action, nested ones counted or shown) and `OrderIdsAgree`.

### Python client

**`PyWsClientProofs`.** `ImplementsReply`: every step of `PyWsClient` is a step of `RequestReply` or leaves
its variables alone, under the assumption `Oracles = {}`. It follows from `CallInv`, described next, step by step: the lemmas
say what the caller's view of its request becomes when a call begins, is resolved, times out, is cancelled
with the handler it is in, or is judged; a request that could not be written has never been received, so
that "not sent" stays true after the call has returned.

`OwnAnswersTrue` and `PendingAwaited`, for any calls of tasks and of handlers, any oracle updates and
any number of connections. `CallInv` says that awaited calls have ids of their own, how far a request
can be at the exchange by how far its call is, and that a reply in flight tells the verdict on some
request with its id, or is the unreadable reply to it (`Mail`). The latter is what `PendingAwaited`
needs: its second half, that a waiting call outside the map was answered unreadably, follows in the step
that takes the reply out, and is kept by every other because no other step takes a waiting call out of
the map (`PendingKept`). An oracle update may share that id; a call whose id no update has used (`Own`)
is then the only one it can be about. That ids are given to idle calls only makes `Own` a property that
is lost and never regained, which is why the invariant can be conditional on it.

`DisconnectStays` and `ReplayComplete`, under the assumption `~Hasty`: the user does not connect again while
a receive loop is about (with it both are false, see the known limits). `DownInv` says that of a chain of
loops that replaced one another only the one the client remembers is live, and only its connection open
(`OneLoop`), and what `disconnect()` has taken down at each of its awaits (`GoingDown`). `ReplayInv` adds
that on an open connection every kept topic is served, or is in the message that some `connect()` is about
to write to that connection.

**`PyAccountProofs`.** `AccountFollows` and `PnlHolds`. `FollowInv` is the Python counterpart of `MirrorInv`: on a
connection the messages in flight lead to an account that agrees with the exchange's wherever none was lost
or left unread (`unsure`); without one everything may differ. What the client makes of a fill is put right
by the position update that follows it, so that between the two its symbol is left out (`AgreesBut`); a
public trade, which the client takes for a fill of its own, leaves its symbol unsure until the next
position update.

`PnlHolds`: while every fill since the last snapshot is counted once, the profit of the inventory at any
prices is what the fills brought. The invariant `BookInv` says more of the inventory: the units counted are
its quantities, and the money paid is their cost at the averages less the cash (`Rebase`). That `traded()`
keeps this is arithmetic, one lemma for each of its cases: a reduction moves to the cash what it takes off
the cost, a growing position divides without remainder. The latter, and that a position update in between
changes neither, is true only because the client's position is the exchange's at that point of the
stream; so `BookInv` has a second path, of positions known to the client, which ends at the exchange's
positions or, after a public trade was counted, nowhere (`Lost`). A fill or an update that would not fit
leads to `Wrong`, from which no path comes back (`WrongStays`); hence none is in flight.

**`BookFeedProofs`.** `BookFollows`, `FastStaysSorted`, `FastFollows`, `SweepHolds`, `AggregateHolds`, for any prices, any sizes of the
arrays and any number of changes. `FeedInv` in parts:

- `Sound`: both books are books and the exchange's is not crossed;
- `InFlight`: the stream has snapshots of books and deltas of levels;
- `Follows`: there is a book that the messages in flight take to the exchange's, and it is the client's once
  a snapshot has been handled. Before that the client's book may be any or none: a snapshot makes the same
  of every book;
- `Compiled`: the entries of the compiled book are strictly sorted, with positive sizes, and fit its arrays;
- `Agrees`: each is a level of the plain book with its size, and unless the side's array was full none is
  missing.

Under them lie the lemmas on the data: the loop of the binary search ends at the number of entries that
come before a price, `UpdateLevel` keeps the entries sorted whether it overwrites, inserts, drops off the
end or removes, a delta applied to the book it was taken from gives the new one, and a snapshot of a
book's levels is that book. The proof corrected the model: a side counted as full by its length after a
delta, but an array that is full between two levels of one delta has already dropped one. `wasFull` now
follows the steps within a delta (`FastSteps`).

`SweepHolds` and `AggregateHolds` compare loops over the entries with totals over sets of levels. The loops
are folds over a sequence, whose value after every turn a lemma gives: the running total of a sweep is the
total to the price of the entry, and since sizes are positive and entries sorted, the first entry at which
it reaches the wanted size has less than that size before it. The aggregation keeps, turn by turn,
one bucket for each rounded price of the levels so far, in order, with the sum of their sizes; that only
the last bucket can go on growing needs the entries to be sorted, which is part of `Compiled`.

### Only model-checked

- Liveness: the four properties of `ws_liveness`, `CommandEnds`, and what the violated runs refute.

## Not modelled

- `EventDispatch` of the plan: `on()` takes the mutex that the dispatch task holds while handlers run
  (`bulk_ws.rs:209`); a handler that registers another blocks the task, and one that panics poisons the
  mutex. `WsClient` has the dispatch task and the order of its events without the registration.
- The latest-value watch channels other than the account's (tickers, books, candles): the last message wins
  and nothing is derived from it.
- The Python HTTP client (stateless, as the Rust one), Python signing (byte formats, covered by the
  repository's vectors) and Python message types (data classes).
- What market data and account answers hold, formatting of output and previews, the parsing of arguments
  and configuration files, the choice of the API url.
- Byte formats, hashes, key derivation, instruction layouts and the encryption of keys: cryptography and
  wire detail. The models keep which values they cover.
- Scripts, examples, documentation and CI: no program state.
