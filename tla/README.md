# cc-squash, verified

cc-squash sits between Claude Code and the Anthropic API. A Go daemon
supervises a Rust proxy; the proxy forwards each request, replaces parts of the
conversation by shorter forms, stores the originals by content address, and
gives them back through an MCP tool. This directory models its control flow in
TLA+: what can interleave, fail, arrive late or be lost, and what stays true.

## Inventory

| component | state | operations | hard behaviour | correct when |
|---|---|---|---|---|
| request relay (`relay.rs`, `forward.rs`) | sessions map, kill and shadow flags | one handler per request | handlers of one session overlap, the client may drop any of them, flags flip in between | one staging task per session, a floor that covers what is in flight |
| session state (`session.rs`) | staged plan, working state, fast-lane set, window, breaker, estimate | `observe`, `calibrate`, `run_breaker` | shared by handlers, drains and staging tasks | no fold lost, usage matched with its request |
| interceptor (`intercept.rs`) | none, pure over a snapshot | `run`, `fast_lane_entries`, `continuous`, `deterministic_compact`, `finish` | works on a snapshot that is stale when its result is committed; fails open | only bytes upstream never saw are cleaned afresh |
| staging task (`staging.rs`) | the cloned working state, the plan under construction | `stage_next`, `commit`, `StagingGuard` | read, many awaits, write back | originals stored before the plan is published |
| demux, usage tap | none; a scan buffer | `inspect_for`; `tap` | session gone between two looks; stream without usage | fail open |
| ref store (`ccs-refs`) | one SQLite table, durable | `put`, `retrieve`, `gc` | sessions share rows by content; sweeps at the cap and the grace edge | an original outlives its use |
| retrieve tool (`mcp.rs`) | hot refs of the session | `cc_squash_retrieve`, `mark_hot` | races turns, mints and sweeps | what was read back is not squashed again |
| seam (`seam.rs`, `proxyseam`) | the registered session, its write gate and deadline; a line reader | `Serve`, `send`, `Close`; `run_seam` with the frames mint, evict, kill, shadow, gc, shutdown | two children overlap; a child that stops reading; a deadline in the middle of a frame; an interrupt that fires late | an ordered channel that may be cut; every send returns; the session of the live child is never dropped by another |
| supervisor and policy (`supervisor`) | crash-loop count, backoff, known skew, captured identity | `Tick`, `revive`, `Replace`, `Reconcile` | probes race registrations; crash between any two steps | the proxy comes back, no flapping, bounded crash loop |
| control server (`control/server.go`) | tokens, kill, shadow, port, status file | `handleMint`, `handleKill`, `handleShadow`, `repushTokens`, `publishStatus`, the spawner | requests run concurrently with respawns | tokens survive restarts, what is reported is what runs |
| segmenter, targets, splice, gate, breakpoints, budget ladder (`ccs-policy`) | none, pure | `segment_prompt`, `squash_targets`, `splice`, `validate`, `plan_breakpoints`, the passes | plans are by content and meet a conversation that went on; hint caps; indices of segments and of messages | the request keeps its shape, the latest thinking and at most four hints |
| controller, economics (`controller.rs`, `ccs-economics`) | none, pure | `decide`, `npv` | boundaries of prices and floors | a flush pays |
| recode chain (`pipeline`, `passes`) | the ledger, one proposal per segment; checkpoints | `run`, nine passes, `rewind` | passes feed each other; a later pass recodes what an earlier one made of a leaf, and refers to other segments' leaves | the original of anything lost is carried with the proposal; a diff's base does not change under it |
| summarizer client (`ccs-summarizer`) | none | `decide`, `fold` over `call` | rate limits, retry-after, timeouts, answers that do not fit their schema | every call ends; what is to stay verbatim is never offered |
| markup stripper (`markup_strip.rs`) | a scanner and a renderer | `strip_html` | torn tags, comments, quotes, nested pre, entities | no text lost, pre verbatim, blocks apart |
| markers, compaction synthesis, configuration, CLI | none, or a file | formatting and I/O | - | - |

The daemon talks to the proxy over one socket pair per child (the seam): the
child registers, the daemon pushes frames. Handlers, staging tasks, drains and
the retrieve tool share `SessionEcon` behind a mutex; handlers, the tool, the
staging tasks and sweeps share the store behind one connection.

## Modules

`Relay` is one session of the data plane. An action is what a task does between
two lock acquisitions or awaits: `Arrive` (demux and kill check), `ReadFails`,
`Passthrough`, `ShadowForward`, `Synthesize`, `SetupGone` and `Setup`
(`forward_setup`), `TakeInputs` (`intercept_inputs`), `Identity` or `Splice`
(the interceptor and the commits after it), `Stash` (`stash_egress_snapshot`),
`Send`, `Respond`, `Abort`; `Observe` and `TapEnds` for the drain; `StageBegin`,
`StageSkip`, `StageCommit`, `StageRelease` for the staging task; `Mint`,
`Evict`, `SetKill`, `SetShadow` for the seam. A body is a prefix of one
transcript; a position of it is one segment (in the code a segment may span
several messages; it then enters and leaves the window as a whole), and its
content address is its key. The history variable `seen` is the longest body
upstream received, `left` the positions an interception sent untouched,
`orphaned` the session states whose guard lost its handler to a disconnect. A
body that does not parse is forwarded verbatim and has no messages for upstream
either, so it counts for nothing in `seen`. What the controller decides and the summarizer answers is any choice the code allows.

`RefStore` is the table as operators (`put`, `retrieve`, `gc`). `Squash`
composes it with the sessions that put and splice, the retrieve tool and the
collector; a session has one turn and one staging task at a time there, since
`Relay` treats their overlap, and two sessions share rows. Pass-through and
synthesized requests do not touch the store and are left out of it.

`ControlPlane` composes the seam server, the spawner, the supervisor with its
policy, the control handlers and the seam loops of successive children. A write
to a child that lives and reads may still fail, with nothing, a piece or all of
the frame written: the caller is told, and `unpushed` has the tokens for which
it was. A piece and the frame behind it end the child's seam loop, and the
process serves on without a control plane, on its port (`standalone`), until
`Crash`: the next child cannot bind (`BindFails`). Stops fail too (`StopFails`,
`reapWedged`). Pids are left out and a port is named after the child that got
it first; a timeout may expire whenever the code waits, so no property depends
on durations. Slots of children that are gone and no longer served are used
again; `verified` and `flaps` are histories.

`Rewrite` is the interceptor's pure half over a conversation of messages and
blocks that grows between requests: `Prompt`, `Reply` and `Answer` are the
client, `Stage` publishes any plan `stage_next` could come to, `Continuous` is a
turn with a plan (hold, ride, or flush with breakpoints) and `Compact` one
without (the budget ladder under pressure); `turn` is what the last request
came to. A block is its type, id and length, whether it carries a hint, how
many more are nested in its tool input or result (`inner`; the gate counts the
bytes `"cache_control"` wherever they stand, while the splice takes off and
counts those of whole blocks), and whether it was re-serialized (`canon`): `edit_message` parses and rewrites a
touched message whole, which changes the bytes of blocks it did not mean to
change. A message has at most one thinking block, one text, one call and one
result: parallel calls, redacted thinking and images are not among the
conversations. One unit of length is one token. Prices, scores and summaries are any
the code could come to, so `live` is an upper bound and a turn takes any subset
of it; a back-reference, shorter than its placeholder, is rendered like one.

`Recode` is the recode chain over one request. A text is the document it
renders and the features (escape codes, blanks, markup, long JSON, ...) a pass
can still strip, so that identical texts are equal and each pass is what it
takes away. A segment is open, a source of a live constraint, without a single
leaf, pinned by its position, typed, or a huge paste; the last three are never
recoded, but only what was typed and the sources are gated, so that a pinned
segment or a paste can still be staged by the summarizer's decision. The runner, its checkpoints and rewinds, the ledger with its
carried originals, and the nine passes are as in the code; `Staging` extends it
with the task: the early return when every segment is gated (`ReturnEarly`), the
chain (`RunChain`), a recode (`stage_recode`) or a call of the summarizer per
segment (`Post`, `RateLimited`, `Tick`, `CallFails`, `Decided`), the fold
(`Folded`), and the turn that shows the plan (`Show`). `Relay` has the same
task without its content.

`Seam` is the daemon's end of the socket pair (`Serve`, `setConn`, `clearConn`,
`Close`, and `send` as `send`, `TakeGate`, `Write`, `WriteTimeout`,
`WriteFails`, `Finish`, with its interrupt as an actor of its own) and the
child's (`next_line`, `apply`). A frame is three parts, so a write can be cut
in its JSON or before its newline. `ControlPlane` has the same seam with frames
that are whole, cut or lost, and with what becomes of a child that lost it. `SeamChannel` says what the control plane may rely on: per child an
ordered channel, without gaps or repetitions, that may be cut at any time.
`Seam` implements it with `sent` the frames whose JSON went out, `got` those
applied, and `up` the children whose loop has not ended. A frame counts as sent
before its newline is out, because a reader takes the end of the stream for the
end of a line: the child may apply a frame whose `send` returned an error.

`Markup` is the largest recoder, symbol by symbol, one step per construct the
scanner comes to. A page is a sequence of symbols together with the pieces its
author made it of, and a rendered character remembers where it comes from.
Quotes are of one kind: a quote that the other kind would close is not among
the pages. Whether a page is whole (`AllWhole`) is said by a grammar of its own, which has
nothing of the scanner: the pieces tile the page, a tag ends at its first bracket
with an even number of quotes before it, a comment at its first `-->`, a script
at the first tag that closes it. Loss, order and separation are then stated by
places in the page. What a torn page becomes is up to the code, which may give
up; the properties are about whole ones.

`MCRelay`, `MCSquash`, `MCControlPlane`, `MCRewrite`, `MCStaging`, `MCSeam` and
`MCMarkup` hold the instances. `RefStore` has the sweep twice: as the code
computes it (`scan`: sort, then scan) and in closed form (`victims`, what `gc`
deletes), which are shown to agree.

Operators marked "Mutant" are plausible bugs. For every property of a passing
run one of them, put in place of the definition it follows, makes TLC report
the property violated.

## Runs

| run | bounds | shows |
|---|---|---|
| `relay_staging` | 2 requests, 2 session states, bodies without messages, of 1 segment, or that do not parse, mints and disconnects at any time | one stager, a guard that only a disconnect orphans, a floor that covers what is in flight, no lost fold. Two of each is enough for every pairwise race, re-mints included |
| `relay_window` | 1 slot (one handler at a time, its drain and staging task still running), growing bodies of up to 3 segments, disconnects, every frame, every usage | fresh cleaning only past what upstream saw; nothing sent raw is cleaned later. One slot is enough for a serial client: plans and breaker are read in `TakeInputs` only |
| `squash_shared` | 1 ref in two sessions, 2 reads, seconds 0 and 1 with a grace of 0, cap 0, every frame | first owner protected through the grace window; a ref read twice is hot; nothing spliced unstored. The cap of 0 makes every old row a victim; the clock has the last second of the window and one past it. Refs do not influence each other's hotness |
| `squash_sweep` | every table of up to 4 rows of sizes 1..4, cap 4, every plan | the scan equals its closed form, never underflows, and is a least prefix in access order |
| `control_safety` | 1 token, 1 toggle, 2 slots of children, 3 faults (crashes, failed and cut writes, failed spawns and stops, children that do not register), an upgrade from one foreign version to another, breaker 3 | the served child knows every token whose push was not reported as failed; verified respawns stay below the breaker; a verified child is replaced at most once per upgrade. Tokens do not influence each other; two slots are a child and its successor |
| `control_liveness` | 2 faults, breaker 2, 2 slots, a foreign version, late registrations and failed stops, fair | the proxy comes back, or the breaker is open, which two faults do reach, or a process nobody can stop has the port |
| `rewrite_turns` | every conversation of up to 5 messages, any plan and lane; 3 hints in tools and system, so the splice has one of its own; tool blocks with 0 or 2 hints inside; lengths on both sides of every threshold | skeleton and latest thinking kept, hints refused only for the client's own, lane commitments truthful. Five messages have an older and a newer assistant turn, two rewritten messages that both want the one hint, and a pair the ladder and the lane both want |
| `staging_recode` | 4 segments, the last one pinned, the chain once and replayed twice; back-offs, a retry-after within and one past the timeout; any entry dropped on the way to the wire; fair | the original of whatever a proposal loses is carried, a diff's base is final, what is shown can be had back, what is gated goes out as it came, the task ends. There are a base, which may be typed, pasted or the source of a constraint, a leaf that differs from it and one that repeats or resembles either |
| `seam` | 2 children, 2 sends, one a shutdown, a socket smaller than a frame, 1 fault (a death, a foreign register frame, a cancelled context), fair | the channel is implemented; sends return; a late interrupt cuts nobody else; a garbled stream was cut before, and ends its session. A second send is all that a held gate, a stale interrupt or a torn frame can hurt, a second child all that a stale `Serve` can |
| `markup` | pages of 5 pieces of flow content or 3 of scanner content, whole or torn | text kept, pre verbatim, blocks and cells apart. The renderer's state is a depth, a pending separator and up to two newlines: five pieces reach each of its combinations |

What the bounds leave out on purpose: `TokensSurvive` and `CrashLoopBounded`
need registrations that do not outlive `awaitReady` (`control_late` shows why).

`SYMMETRY` permutes request slots and session states, or sessions, which the
specifications never tell apart; liveness runs use none. Three runs have a
`VIEW`: what it leaves out is read by no property of the run but the type
invariant, and decides no step. `squash_shared` leaves out the time of a
session's last put, `relay_window` the orphans and the estimate, and
`relay_staging` the estimate and, since no body there has a segment before its
last and so nothing to splice, the interceptor's inputs and the fast lane's
window. `rewrite_turns` stops when the conversation is full and `markup` when
the page is rendered; deadlock is checked everywhere else: a control plane
always has a tick, a relay a client.

Two runs end in a counterexample, where a comment of the repository says other
than its code does:

| run | property | comment | code |
|---|---|---|---|
| `control_replace` | `KeepsReplacing` | `server.go:304`: "the supervisor will Replace it every tick", "the proxy flaps"; the warning at 308 says the same | a proxy at another version is replaced once at most: `noteSpawnedVersion` remembers the version of a verified spawn, and `isSkew` lets it be |
| `seam_malformed` | `MalformedSkipped` | `seam.rs:180`: "A malformed line is logged and skipped (fail-open), keeping the loop alive for the next frame" | `apply` returns `ProtocolError` and the loop ends, as the comment of `run_seam` (115-119) says |

More configurations of the same modules, to be run by hand
(`tlc -config <name>.cfg MC...`). `relay_release` passes: while clients stay
connected, a claimed staging guard is released (`StagingReleased`). Each of the
others ends in a counterexample. Where the repository states the property, the
statement is quoted:

| configuration | property | what happens |
|---|---|---|
| `relay_side_request` | `FreshNeverSeen` | after a re-mint a short side request reopens the window below cached messages |
| `relay_repeated_leaf` | `LaneKeepsSentBytes` | a key committed for a fresh leaf also rewrites an older, cached segment with the same content |
| `relay_estimate` | `EstimateOwn` | a late usage report is calibrated with the next request's estimate |
| `squash_cross_session` | `SquashRecoverable` | two sessions squash the same bytes, only the first can have them back |
| `squash_inflight` | `WireStored` | a second put does not renew `created_at`, so a ref that was just staged and spliced is swept |
| `squash_staged` | `StagedStored` | a plan is committed between the reachable set and its sweep |
| `control_switch` | `SwitchMirrored` | kill is not pushed again after a respawn |
| `control_status` | `StatusFresh` | snapshots of two toggles are written in the other order |
| `control_identity` | `FreshIdentity` | the old child's version is noted for its replacement |
| `control_retreat` | `RetreatRetries` | an open breaker never lets go: `sawUnhealthy` stays set, so the hazard window is not looked at, although `proxypolicy.go:103` says the next tick retries |
| `control_late` | `TokensSurvive` | a registration that outlives `awaitReady`'s patience is taken for the next child's (the goroutine that reads the frame has to be slow; `LateRegister` allows it) |
| `control_orphan` | `ReplacementBinds` | a child that could not be stopped, or that lost its seam to a cut frame, serves on with the port its successor is told to bind; nobody knows it any more, and no successor comes up |
| `rewrite_recency` | `RecencyKept` | a segment of the recency window is rewritten: the veto is minus infinity, which the default floor admits, and staged recodes are not looked at; `segment.rs:14` says such segments "are always kept verbatim" |
| `rewrite_thinking` | `ThinkingExact` | a rewritten text next to a historical thinking block re-serializes that block too; `targets.rs:4` says "byte-intact" |
| `rewrite_breakpoints` | `BreakpointsClearFloor` | a position of the breakpoint plan is the index of a segment and is taken for the index of a message; after a tool pair the hint lands on an earlier message, below the cache floor the position was chosen for |
| `staging_base` | `DiffBaseShown` | a base that is final in the chain is dropped, summarized or recoded away by what follows; `seq_diff.rs:21` says "Every diff's base renders verbatim for the model" |
| `staging_backref` | `BackrefHasTarget` | the first occurrence a back-reference points to is itself replaced, or the entry that would have shown it is dropped |

## Fairness

`Relay`: every task that can run is polled again by the runtime, and upstream
answers or the connection fails. The client has a connect timeout and none on
the response, so the second part is an assumption on upstream. Clients and the
control plane owe nothing.

`ControlPlane`: the supervisor, each Serve goroutine, each child and each
request keep running. `Revive` is strongly fair: the backoff holds a tick off
only until `retryAt`, which the clock passes, and ticks recur. Faults, upgrades
and requests are not fair. `ProxyComesBack` excepts the two states the code does
stay in: an open breaker (`control_retreat`) and a port that a process without
an owner keeps (`control_orphan`).

`Staging`: the task is polled, time passes, and an upstream that does not
answer is met by `CALL_TIMEOUT`, which bounds a call with its retries. Nothing
is assumed of the upstream.

`Seam`: `Serve`, the senders and their timers run. A child need not read, so
that every send returns rests on the deadline alone; `GarbledSessionEnds` is
about a child that does read, and says so in its hypothesis.

## Proofs

`RelayProofs` proves for any number of requests and session states, any
transcript and any environment (aborts, frames, usages): `TypeOK`,
`AtMostOneStager`, `FloorCoversEgress`, and the action property
`WorkingNeverLost`. The invariants are not inductive alone. The strengthening
says for each handler which fields its program counter has filled in
(`ShapeInv`), that a slot which claimed the guard finds it set and is the only
one (`GuardInv`), and that a running staging task's clone still is the session's
working state while the floor covers the bodies on their way. That the clone is
current is what makes the write-back safe, and it rests on the exclusion.
`TypeOK` needs the shape because the interceptor writes back what
`intercept_inputs` read. `StagingHasOwner` is proved for clients that
disconnect too: a session state in use with a set guard always has a slot that
claimed, spawned or runs the task, and each step hands that role on, but for the
disconnect of a client between `claim_staging` and the first poll of
`stage_next`. That one leaves the guard set, and the session never stages again
(`staging.rs:390` says that "one failed turn can never wedge staging shut"); it
is recorded in `orphaned`, and an orphaned guard stays set and without an owner
(`OrphanInv`), so that the exception cannot hide another leak.

It also proves the two fast-lane properties, for any session states, transcript,
disconnects, frames and usages, under what they need of the client.
`FreshNeverSeen` needs one request in flight at a time and a conversation that
only grows (`Serial /\ AppendOnly`; `relay_side_request` refutes it without);
`LaneKeepsSentBytes` also that no cleanable content occurs twice
(`CleanableOnce`; `relay_repeated_leaf`). The strengthening follows a body
through the handler: an open window is past all that upstream has seen, in the
session state, in the snapshot and in what is about to be sent, and a body that
goes upstream uninspected finds the window closed (`WindowInv`); what was sent
raw is no key of the lane, and neither is what is about to be (`LaneInv`). The
steps of drains, staging tasks and seam frames are treated once, as quiet steps.

`SquashProofs` proves for any sessions, refs, sizes, cap, grace window and
clock: `TypeOK`, `FirstPutProtected`, `SplicedWasStored`. The strengthening:
`RowsFaithful`, a row keeps the owner and time of its insertion and is there
while the grace window is open; `PlansStored`, each stage of a plan (task,
session, turn, wire) names inserted refs only; for these, of the sweep only that
victims are eligible is needed. `HotAfterReads` needs
that the row of a ref is there and has counted at least the reads of each
session (`ReadsCounted`), so that the second read of a session finds the count
that makes it hot. The action property `SweepIsTight` needs that the table has
finitely many rows (rows are put one at a time), so that their sizes have a sum
that can be split anywhere (`BytesSum`), and that the order of the sweep is
total and has least elements (`EarlierOrder`): the victims are then a prefix,
what precedes the first row kept is exactly what was deleted, and what precedes
the last victim is all the others (`VictimsTight`). `ScanTakesVictims` needs no
more of the state, but the scan is a fold: what it has taken of any set of rows,
in closed form, satisfies the recursion that defines it (`ScanStep`, which rests
on `VictimsTight` for the rows before the latest one), and by induction over the
size of the set only one function does (`IsScan`).

`ControlPlaneProofs` proves for any tokens, children, versions, breaker and
faults: `TypeOK`; `TokensSurvive` and `CrashLoopBounded` when no registration
outlives `awaitReady` (`~LateRegister`); and `NoFlap` while the binary on disk
is not upgraded, late registrations or not (with upgrades, TLC only). The
strengthening: the session is the child whose `Serve` goroutine holds it, and a
child that may still register is the one awaited (`SessionOwned`), which is what
a late registration breaks; a token the served child does not know is in its
channel, in a running mint, still to be pushed by the supervisor, or was
reported as not pushed (`TokensKept`), for which no token may be handed out before the first child is
noted (`TokensAfterPort`); every verified respawn was counted before, as the
death it answers (`DeathsCounted`). `CrashLoopBounded` does fail with late
registrations: one of them hides a death from the count.

`SeamProofs` proves for any number of children and sends, any socket and any
faults: `TypeOK`, `OwnDeadline`, `SessionIsLatest`, `GarbledMeansCut`, and that
`Seam` implements `SeamChannel` (`ImplementsChannel`). The strengthening: a call
that writes has the gate of its connection and is the only one (`GateInv`); a
deadline in the past was put there by the interrupt of the call that has the
gate (`DeadlineInv`), which holds because `Finish` waits for a running
interrupt; a call that stopped between two parts tore its stream (`CutInv`), so
the parts a child has still to apply in a clean stream are whole frames that end
where the gate's holder is (`WireInv`). For the refinement, the JSONs in a
child's queue are exactly the written frames behind the applied ones, in order
(`QueueInv`, with the positions as a witness, so that no induction over
sequences is needed), and a frame counts as written only when its call is past
its JSON (`FreshInv`). A write of the second part is then `Take`, a line that
decodes is `Deliver`, a loop that ends or a child that dies is `Cut`; every
other step leaves the channel as it is.

`StagingProofs` proves for any segments, texts, pipelines, answers and drops:
`TypeOK`, `OriginalCarried`, `ShownRecoverable`, `GatedStaysVerbatim`, and
`DiffBaseFinal` for pipelines that diff in their last stage only (`DiffsLast`,
true of `deterministic`, the pipeline the proxy runs). The
strengthening: every proposal carries the original of its leaf as soon as it
loses something, and what a pass reads of another proposal keeps that
(`ChainInv`); an entry of the plan carries what it loses into the store, a call
is posted at most three times, the fold is taken once (`TaskInv`); an entry is
made only for content that some candidate has (`PlanOffered`: the plan is keyed
by content, so a gated twin of a candidate shares its entry); a base is bare, earlier, and no longer touched (`DiffsInv`). `seq_diff` carries
the last text of each tool along a scan of all segments, so its part is an
induction over the segments.

`RewriteProofs` proves for conversations, blocks and thresholds of any size:
`TypeOK`, `SkeletonKept`, `ThinkingKept`, `SpliceNeedsNoGate` and
`CommittedWasSent`. A turn is written once, so the invariant is what `finish`
establishes from well-formed replacements (`RenderedOK`: of a string, a text or
a tool result of the body, with its id). Segments are of messages of the body
(`SegmentsOK`, by induction over `Starts`), hence the plan's, the ladder's and
the lane's replacements are well formed; the splice keeps each message's frame
(`SpliceOK`). The thinking stays in its place because a message written again
has none of its blocks as they were, and another message has thinking of its
own, so that the one place where the gate can find it is its own (`BodyOK`). The
hint cap is a sum over the messages, at most one per kept position
(`HintsBound`), and the splice puts none inside a tool block, so that what is
nested in a request was nested in the body (`NoNested`).

`MarkupProofs` proves `TextKept`, `PreVerbatim` and `BlocksApart` for any set of
pages, of any length, and any thresholds. First, the scanner reads what the
author wrote (`Reads`). For tags this is `TagEnd`: `find_tag_end` jumps from one
quote that closes to the next, so by induction from the tag's end every place it
goes on at has an even number of quotes before it, and the bracket it stops at is
the first outside quotes; that the recursion is a function at all is
`JumpsExist`, since it only jumps ahead. Second, what `push` can do to a
character: drop it, append it, or append a separator and it (`PushShape`). The
inductive invariant (`Inv`): on a whole page the scanner stands between two
pieces, the depth is the nesting there, and of the pieces behind it the text is
kept, in order (`Kept`), a separator stands or is pending only where something
ended (`Parted`), and where something ended there is one behind the last letter,
standing or pending (`Apart`). The last two need each other: `push` omits the
newline of a separator when it counts two, and nothing is lost by that only
because the newlines it counts are the end of the text. The page does not change,
so what is said of it alone carries over a step (`Static`). `TypeCorrect` is for
torn pages too: wherever a construct is found to end, the scanner goes on in the
page or stops just behind it (`TagEndRange`).

`Induction` has the lemmas for these: the library's induction theorems take an
operator as parameter, which these provers cannot instantiate, but that every
nonempty set of numbers has a least element (`Smallest`) does not, and it gives
induction on sets of numbers (`SetInduction`), least and greatest elements, and
sums over finite sets, in any order and split anywhere. A recursive function is
then unfolded by showing that it exists.

Assumptions on constants are named in the modules that declare them; TLC
evaluates them in every run.

Only model-checked: the liveness properties `ProxyComesBack`, `StagingEnds`,
`SendsReturn`, `GarbledSessionEnds` and `StagingReleased` (fairness is out of
this prover's reach), `NoFlap` across upgrades, and `DiffBaseFinal` with passes
replayed after the diffs.

## Not modelled, and why

Lock poisoning and runtime shutdown; the bare development path without a
token; `capture_auth`; a panic in the staging task between two puts; pinned
rows (no code pins one); the daemon's own shutdown; headers, logging, formats.
Prices, scores and the texts of the summarizer are nondeterministic. Of the
recoders other than the markup stripper the model has when they fire, what they
compare and what they carry, and not what they do to characters; the JSON and
diff libraries under them are external. A tool
result that does not follow its call at once (the API refuses it) is not among
the conversations of `Rewrite`.

## Plan

1. Economics over scaled integers: the choice between Flush, RideFreeBust and
   Hold against its priced definition, at the boundaries.
2. The usage scanner over chunked streams; compaction detection; the daemon's
   shutdown in `ControlPlane`.
3. Abstract specifications: a recoverable store that `Squash` implements for
   the first owner, and a supervised service that `ControlPlane` implements.
4. Proofs: `DiffBaseFinal` under replay, which needs the checkpoints in the invariant;
   the abstract specifications of item 3.
