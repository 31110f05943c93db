------------------------------- MODULE Relay -------------------------------
(***************************************************************************)
(* One session of the ccs-proxy data plane: the request handler            *)
(* (relay.rs), the state it keeps per session (session.rs), the off-path   *)
(* staging task (staging.rs), the on-path interceptor (intercept.rs) and   *)
(* the flags the control seam sets (seam.rs).                              *)
(*                                                                         *)
(* Handlers, staging tasks and usage drains are tokio tasks on several     *)
(* threads.  Each holds the session mutex only inside one synchronous      *)
(* block, so one action of this module is one such block: everything a     *)
(* task does between two lock acquisitions or awaits.                      *)
(*                                                                         *)
(* A request body is a prefix of Transcript.  Position i of it stands for  *)
(* one segment (a turn, or a tool_use/tool_result pair), Transcript[i] for *)
(* the content address of that segment's payload, so two positions with    *)
(* equal content have one key.                                             *)
(***************************************************************************)
EXTENDS Naturals, Sequences, FiniteSets

CONSTANTS
    Reqs,           \* request slots: at most this many requests in flight
    Econs,          \* identities of SessionEcon values (one per mint)
    Keys,           \* content addresses
    Transcript,     \* the conversation, as the sequence of its keys
    Cleanable,      \* keys whose leaf fast_lane_clean can shrink
    None,           \* Option::None
    ClientAborts,   \* whether the client may drop a connection
    Serial,         \* whether the client has one request in flight at a time
    AppendOnly,     \* whether the client never sends a shorter body again
    Frames,         \* the seam frames the control plane may send
    Usages          \* the cache usage upstream may report

ASSUME TranscriptAssumption == Transcript \in Seq(Keys)

ASSUME NoneAssumption ==
    /\ None \notin Reqs \cup Econs \cup {"zero"}
    /\ "absent" \notin Econs
    /\ "fresh" \notin Econs

ASSUME EnvironmentAssumption ==
    /\ {ClientAborts, Serial, AppendOnly} \subseteq BOOLEAN
    /\ Frames \subseteq {"mint", "evict", "kill", "shadow"}
    /\ Usages \subseteq {"ok", "cold", "overran"}

VARIABLES
    kill, shadow,   \* the control plane's flags in AppState
    session,        \* the sessions entry of the token
    econ,           \* every SessionEcon
    req,            \* every request slot: handler, usage drain, staging task
    seen,           \* history: longest body upstream has received
    asked,          \* longest body an append-only client has submitted
    orphaned        \* history: the states whose guard lost its handler

vars == <<kill, shadow, session, econ, req, seen, asked, orphaned>>

Lengths == 0 .. Len(Transcript)
KeysOf(I) == {Transcript[i] : i \in I}
Larger(a, b) == IF a >= b THEN a ELSE b

(***************************************************************************)
(* The session state.  turn is counted up to WARMUP_TURNS, past which      *)
(* run_breaker does not tell turns apart.  scale says what token_scale was *)
(* calibrated from: only estimates of the observed request itself ("own")  *)
(* or some other request's ("foreign").  left is a history variable: the   *)
(* cleanable positions an interception sent with their original bytes.     *)
(***************************************************************************)
WARMUP_TURNS == 2

EconType ==
    [ staging : BOOLEAN,
      staged : (SUBSET Keys) \cup {None},
      working : SUBSET Lengths,
      known : BOOLEAN,
      enabled : BOOLEAN,
      turn : 0 .. WARMUP_TURNS,
      lane : SUBSET Keys,
      floor : Lengths,
      closed : BOOLEAN,
      est : Reqs \cup {"zero", None},
      pred : BOOLEAN,
      scale : {"own", "foreign"},
      left : SUBSET Lengths ]

NewEcon(known) ==
    [ staging |-> FALSE, staged |-> None, working |-> {}, known |-> known,
      enabled |-> TRUE, turn |-> 0, lane |-> {}, floor |-> 0, closed |-> TRUE,
      est |-> None, pred |-> FALSE, scale |-> "own", left |-> {} ]

(***************************************************************************)
(* A request slot.  pc is the handler's next synchronous block, tap the    *)
(* drain task, stage the staging task.  staged .. closed are the           *)
(* InterceptInputs; fresh, lane_in and out_left are what the interceptor   *)
(* did to the body; base is the WorkingState the staging task cloned.      *)
(***************************************************************************)
HandlerPC == {"idle", "read", "inputs", "rewrite", "stash", "send", "raw", "sent"}
StagePC == {"none", "spawned", "running", "release"}
Kinds == {"turn", "compact", "bad"}

Inputs == [staged : (SUBSET Keys) \cup {None}, lane : SUBSET Keys,
           floor : Lengths, closed : BOOLEAN]
NoInputs == [staged |-> None, lane |-> {}, floor |-> 0, closed |-> TRUE]

ReqType ==
    [ pc : HandlerPC, kind : Kinds, n : Lengths, inspect : BOOLEAN,
      econ : Econs \cup {None}, claimed : BOOLEAN, inputs : Inputs,
      fresh : SUBSET Lengths, lane_in : SUBSET Lengths, out_left : SUBSET Lengths,
      tap : BOOLEAN, stage : StagePC, base : SUBSET Lengths ]

IdleReq ==
    [ pc |-> "idle", kind |-> "turn", n |-> 0, inspect |-> FALSE,
      econ |-> None, claimed |-> FALSE, inputs |-> NoInputs,
      fresh |-> {}, lane_in |-> {}, out_left |-> {},
      tap |-> FALSE, stage |-> "none", base |-> {} ]

(* A slot whose handler, drain and staging task have all ended is free.    *)
Settle(q) ==
    IF q.pc = "idle" /\ ~q.tap /\ q.stage = "none" THEN IdleReq ELSE q

Init ==
    /\ kill = FALSE
    /\ shadow = FALSE
    /\ session = "absent"
    /\ econ = [e \in Econs |-> NewEcon(FALSE)]
    /\ req = [r \in Reqs |-> IdleReq]
    /\ seen = 0
    /\ asked = 0
    /\ orphaned = {}

-----------------------------------------------------------------------------
(***************************************************************************)
(* Frames of the control seam.                                             *)
(***************************************************************************)

\* A mint replaces the entry, dropping any SessionEcon it had.
Mint ==
    /\ "mint" \in Frames
    /\ session' = "fresh"
    /\ UNCHANGED <<kill, shadow, econ, req, seen, asked, orphaned>>

Evict ==
    /\ "evict" \in Frames
    /\ session # "absent"
    /\ session' = "absent"
    /\ UNCHANGED <<kill, shadow, econ, req, seen, asked, orphaned>>

SetKill ==
    /\ "kill" \in Frames
    /\ kill' = ~kill
    /\ UNCHANGED <<shadow, session, econ, req, seen, asked, orphaned>>

SetShadow ==
    /\ "shadow" \in Frames
    /\ shadow' = ~shadow
    /\ UNCHANGED <<kill, session, econ, req, seen, asked, orphaned>>

-----------------------------------------------------------------------------
(***************************************************************************)
(* The request handler.                                                    *)
(***************************************************************************)

\* Mutant: the uninspected forward forgets the window.
close_window_nothing == econ

close_window ==
    IF session \in Econs THEN [econ EXCEPT ![session].closed = TRUE] ELSE econ

\* The demux inspects the messages of a registered token.
inspect_for == session # "absent"

\* A body that does not parse has no messages, for upstream either.  The kill
\* flag, read first, turns inspection into passthrough and shuts the fast-lane window.
Arrive(r, kind, n) ==
    /\ req[r] = IdleReq
    /\ Serial => \A q \in Reqs : req[q].pc = "idle"
    /\ AppendOnly /\ kind # "bad" => n >= asked
    /\ kind = "bad" => n = 0
    /\ req' = [req EXCEPT ![r] = [IdleReq EXCEPT
                    !.pc = "read", !.kind = kind, !.n = n,
                    !.inspect = inspect_for /\ ~kill]]
    /\ econ' = IF kill THEN close_window ELSE econ
    /\ asked' = IF AppendOnly THEN Larger(asked, n) ELSE asked
    /\ UNCHANGED <<kill, shadow, session, seen, orphaned>>

\* The body could not be read: 502, nothing forwarded.
ReadFails(r) ==
    /\ req[r].pc = "read"
    /\ req' = [req EXCEPT ![r] = IdleReq]
    /\ UNCHANGED <<kill, shadow, session, econ, seen, asked, orphaned>>

Passthrough(r) ==
    /\ req[r].pc = "read"
    /\ ~req[r].inspect
    /\ req' = [req EXCEPT ![r].pc = "raw"]
    /\ UNCHANGED <<kill, shadow, session, econ, seen, asked, orphaned>>

ShadowForward(r) ==
    /\ req[r].pc = "read"
    /\ req[r].inspect
    /\ req[r].kind = "compact"
    /\ shadow
    /\ econ' = close_window
    /\ req' = [req EXCEPT ![r].pc = "raw"]
    /\ UNCHANGED <<kill, shadow, session, seen, asked, orphaned>>

\* A compaction request is answered locally from the working state.
Synthesize(r) ==
    /\ req[r].pc = "read"
    /\ req[r].inspect
    /\ req[r].kind = "compact"
    /\ ~shadow
    /\ req' = [req EXCEPT ![r] = IdleReq]
    /\ UNCHANGED <<kill, shadow, session, econ, seen, asked, orphaned>>

\* The session was evicted since the demux looked: forward untapped.
SetupGone(r) ==
    /\ req[r].pc = "read"
    /\ req[r].inspect
    /\ req[r].kind # "compact"
    /\ session = "absent"
    /\ req' = [req EXCEPT ![r].pc = "raw"]
    /\ UNCHANGED <<kill, shadow, session, econ, seen, asked, orphaned>>

\* No entry, task or handler refers to e any more.
Dropped(e) == session # e /\ \A r \in Reqs : req[r].econ # e

\* Mutant: the guard is set without testing it.
Claim_unchecked(q, s) == [q EXCEPT !.claimed = TRUE]

\* claim_staging, a compare-and-swap on the guard.
Claim(q, s) == [q EXCEPT !.claimed = ~s.staging]

\* lazy_econ, the drain's spawn and claim_staging.
Setup(r, e, known) ==
    /\ req[r].pc = "read"
    /\ req[r].inspect
    /\ req[r].kind # "compact"
    /\ \/ session = e
       \/ session = "fresh" /\ Dropped(e)
    /\ LET s == IF session = e THEN econ[e] ELSE NewEcon(known)
       IN  /\ econ' = [econ EXCEPT ![e] = [s EXCEPT !.staging = TRUE]]
           /\ req' = [req EXCEPT ![r] = [Claim(req[r], s) EXCEPT
                            !.pc = "inputs", !.econ = e, !.tap = TRUE]]
    /\ session' = e
    /\ orphaned' = IF session = e THEN orphaned ELSE orphaned \ {e}
    /\ UNCHANGED <<kill, shadow, seen, asked>>

\* intercept_inputs: the snapshot takes the staged plan away.
TakeInputs(r) ==
    /\ req[r].pc = "inputs"
    /\ LET e == req[r].econ
           s == econ[e]
       IN  IF s.enabled /\ s.known
           THEN /\ econ' = [econ EXCEPT ![e].staged = None]
                /\ req' = [req EXCEPT ![r].pc = "rewrite",
                                      ![r].inputs = [staged |-> s.staged, lane |-> s.lane,
                                                     floor |-> s.floor, closed |-> s.closed]]
           ELSE /\ req' = [req EXCEPT ![r].pc = "stash"]
                /\ UNCHANGED econ
    /\ UNCHANGED <<kill, shadow, session, seen, asked, orphaned>>

-----------------------------------------------------------------------------
(***************************************************************************)
(* The interceptor, a pure function of the body and the inputs.            *)
(***************************************************************************)

\* Mutant: off by one, the last message of the previous turn counts as new.
uncached_off_by_one(i, floor) == i >= floor

\* Position i is past every message the floor vouches for.
provably_uncached(i, floor) == i > floor

\* The segment has a leaf that cleaning shrinks; the last segment is pinned.
fast_lane_leaf(i, n) == i < n /\ Transcript[i] \in Cleanable

\* The leaf at i is cleaned this turn.
Enters(i, n, in) ==
    /\ fast_lane_leaf(i, n)
    /\ \/ Transcript[i] \in in.lane
       \/ /\ in.staged = None \/ Transcript[i] \notin in.staged
          /\ ~in.closed
          /\ provably_uncached(i, in.floor)

fast_lane_entries(n, in) == {i \in 1 .. n : Enters(i, n, in)}

\* With no plan, the budget ladder may squash any segments but the pinned one.
deterministic_compact(n) == SUBSET (1 .. n - 1)

\* The proposals of the plan that are live; a Hold or no live one is {}.
continuous(n, in) == SUBSET {i \in 1 .. n : Transcript[i] \in in.staged}

BaseRenders(n, in) ==
    IF in.staged = None THEN deterministic_compact(n) ELSE continuous(n, in)

\* The interceptor failed open: over 50 ms, panicked, too large, did not
\* parse, nothing to splice, or the splice or its gate refused.
Identity(r) ==
    /\ req[r].pc = "rewrite"
    /\ req' = [req EXCEPT ![r].pc = "stash", ![r].inputs = NoInputs]
    /\ UNCHANGED <<kill, shadow, session, econ, seen, asked, orphaned>>

\* finish with a successful splice, then stash_predicted_bust and
\* commit_fast_lane: base wins over the lane, and only a staged base
\* predicts a bust and un-commits the keys it renders over.
Splice(r, base) ==
    /\ req[r].pc = "rewrite"
    /\ req[r].kind = "turn"
    /\ LET in   == req[r].inputs
           n    == req[r].n
           e    == req[r].econ
           lane == fast_lane_entries(n, in) \ base
           new  == {i \in lane : Transcript[i] \notin in.lane}
           plan == in.staged # None /\ base # {}
           gone == IF plan THEN KeysOf(base) \cap in.lane ELSE {}
       IN  /\ base \cup lane # {}
           /\ econ' = [econ EXCEPT ![e].pred = @ \/ plan,
                                   ![e].lane = (@ \cup KeysOf(new)) \ gone]
           /\ req' = [req EXCEPT ![r].pc = "stash", ![r].inputs = NoInputs,
                                 ![r].fresh = new, ![r].lane_in = lane,
                                 ![r].out_left = {i \in (1 .. n) \ (base \cup lane) :
                                                    Transcript[i] \in Cleanable}]
    /\ UNCHANGED <<kill, shadow, session, seen, asked, orphaned>>

-----------------------------------------------------------------------------
(***************************************************************************)
(* Egress and the response.                                                *)
(***************************************************************************)

\* Mutant: the last snapshot wins instead of the largest.
stash_last_wins(s, r) ==
    IF req[r].kind = "bad"
    THEN [s EXCEPT !.est = "zero"]
    ELSE [s EXCEPT !.est = r, !.floor = req[r].n, !.closed = FALSE]

\* Mutant: the floor also covers the message that is still to come.
stash_one_past(s, r) ==
    IF req[r].kind = "bad"
    THEN [s EXCEPT !.est = "zero"]
    ELSE [s EXCEPT !.est = r, !.floor = Larger(@, req[r].n + 1), !.closed = FALSE]

\* An unparseable body stashes a zero estimate and leaves floor and window.
stash_egress_snapshot(s, r) ==
    IF req[r].kind = "bad"
    THEN [s EXCEPT !.est = "zero"]
    ELSE [s EXCEPT !.est = r, !.floor = Larger(@, req[r].n), !.closed = FALSE]

Stash(r) ==
    /\ req[r].pc = "stash"
    /\ econ' = [econ EXCEPT ![req[r].econ] = stash_egress_snapshot(@, r)]
    /\ req' = [req EXCEPT ![r].pc = "send"]
    /\ UNCHANGED <<kill, shadow, session, seen, asked, orphaned>>

\* Upstream receives the body.
Send(r) ==
    /\ req[r].pc \in {"send", "raw"}
    /\ seen' = Larger(seen, req[r].n)
    /\ econ' = IF req[r].econ = None THEN econ
               ELSE [econ EXCEPT ![req[r].econ].left = @ \cup req[r].out_left]
    /\ req' = [req EXCEPT ![r].pc = "sent", ![r].fresh = {},
                          ![r].lane_in = {}, ![r].out_left = {}]
    /\ UNCHANGED <<kill, shadow, session, asked, orphaned>>

\* forward returns, with the response or with a 502; the staging task is
\* spawned either way.  A failed send drops the sink, which ends the drain.
Respond(r, ok) ==
    /\ req[r].pc \in {"send", "raw", "sent"}
    /\ ok => req[r].pc = "sent"
    /\ req' = [req EXCEPT ![r] = Settle([req[r] EXCEPT
                    !.pc = "idle", !.claimed = FALSE, !.fresh = {},
                    !.lane_in = {}, !.out_left = {}, !.tap = req[r].tap /\ ok,
                    !.stage = IF req[r].claimed THEN "spawned" ELSE "none"])]
    /\ UNCHANGED <<kill, shadow, session, econ, seen, asked, orphaned>>

\* The client disconnects: the handler future is dropped at its await, and
\* with it the claim on the guard; only the staging task would release it.
Abort(r) ==
    /\ ClientAborts
    /\ req[r].pc \in {"read", "rewrite", "send", "raw", "sent"}
    /\ req' = [req EXCEPT ![r] = IdleReq]
    /\ orphaned' = IF req[r].claimed THEN orphaned \cup {req[r].econ} ELSE orphaned
    /\ UNCHANGED <<kill, shadow, session, econ, seen, asked>>

-----------------------------------------------------------------------------
(***************************************************************************)
(* The usage drain: SessionEcon::observe, calibrate and run_breaker.       *)
(***************************************************************************)

NextTurn(s) == IF s.turn = WARMUP_TURNS THEN s.turn ELSE s.turn + 1

\* The realized-bust breaker: one failure opens it; open, it ignores calls
\* until its cooldown ended, then lets one through.
BreakerAllows(s, usage, cooled) ==
    LET fail == /\ NextTurn(s) >= WARMUP_TURNS
                /\ usage = "cold" \/ (usage = "overran" /\ s.pred)
    IN  (s.enabled \/ cooled) /\ ~fail

calibrate(s, r) ==
    IF s.est \in {None, "zero", r} THEN s.scale ELSE "foreign"

Observe(r, usage, cooled) ==
    /\ req[r].pc = "idle"
    /\ req[r].tap
    /\ LET s == econ[req[r].econ]
       IN  econ' = [econ EXCEPT ![req[r].econ] = [s EXCEPT
                        !.turn = NextTurn(s),
                        !.enabled = BreakerAllows(s, usage, cooled),
                        !.scale = calibrate(s, r),
                        !.est = None,
                        !.pred = FALSE]]
    /\ req' = [req EXCEPT ![r] = Settle([req[r] EXCEPT !.tap = FALSE])]
    /\ UNCHANGED <<kill, shadow, session, seen, asked, orphaned>>

\* The stream ended, or 64 KiB of it passed, without a message_start.
TapEnds(r) ==
    /\ req[r].pc = "idle"
    /\ req[r].tap
    /\ req' = [req EXCEPT ![r] = Settle([req[r] EXCEPT !.tap = FALSE])]
    /\ UNCHANGED <<kill, shadow, session, econ, seen, asked, orphaned>>

-----------------------------------------------------------------------------
(***************************************************************************)
(* The staging task: stage_next and its StagingGuard.                      *)
(***************************************************************************)

\* The task is polled first: it owns the guard and clones its inputs.
StageBegin(r) ==
    /\ req[r].stage = "spawned"
    /\ req' = [req EXCEPT ![r].stage = "running",
                          ![r].base = econ[req[r].econ].working]
    /\ UNCHANGED <<kill, shadow, session, econ, seen, asked, orphaned>>

\* Mutant: an early return that does not run the guard's drop.
StageSkip_leaks(r) ==
    /\ req[r].stage = "running"
    /\ req' = [req EXCEPT ![r] = Settle([req[r] EXCEPT !.stage = "none", !.base = {}])]
    /\ UNCHANGED <<kill, shadow, session, econ, seen, asked, orphaned>>

\* No candidates, an unparseable body, or a panic: nothing is committed.
StageSkip(r) ==
    /\ req[r].stage = "running"
    /\ req' = [req EXCEPT ![r].stage = "release", ![r].base = {}]
    /\ UNCHANGED <<kill, shadow, session, econ, seen, asked, orphaned>>

\* The segments the salience gate leaves: none is in the protected tail.
Candidates(n) == KeysOf(1 .. n - 1)

\* Commit the plan and the folded state; a failed fold keeps the old state.
StageCommit(r, plan, folded) ==
    /\ req[r].stage = "running"
    /\ req[r].kind = "turn"
    /\ plan \subseteq Candidates(req[r].n)
    /\ econ' = [econ EXCEPT ![req[r].econ].staged = plan,
                            ![req[r].econ].working =
                                req[r].base \cup (IF folded THEN {req[r].n} ELSE {})]
    /\ req' = [req EXCEPT ![r].stage = "release", ![r].base = {}]
    /\ UNCHANGED <<kill, shadow, session, seen, asked, orphaned>>

\* StagingGuard::drop.
StageRelease(r) ==
    /\ req[r].stage = "release"
    /\ econ' = [econ EXCEPT ![req[r].econ].staging = FALSE]
    /\ req' = [req EXCEPT ![r] = Settle([req[r] EXCEPT !.stage = "none"])]
    /\ UNCHANGED <<kill, shadow, session, seen, asked, orphaned>>

-----------------------------------------------------------------------------
Control == Mint \/ Evict \/ SetKill \/ SetShadow

Client(r) ==
    \/ \E kind \in Kinds, n \in Lengths : Arrive(r, kind, n)
    \/ Abort(r)

Handler(r) ==
    \/ ReadFails(r)
    \/ Passthrough(r)
    \/ ShadowForward(r)
    \/ Synthesize(r)
    \/ SetupGone(r)
    \/ \E e \in Econs, known \in BOOLEAN : Setup(r, e, known)
    \/ TakeInputs(r)
    \/ Identity(r)
    \/ \E base \in BaseRenders(req[r].n, req[r].inputs) : Splice(r, base)
    \/ Stash(r)
    \/ Send(r)
    \/ \E ok \in BOOLEAN : Respond(r, ok)

Drain(r) ==
    \/ \E usage \in Usages, cooled \in BOOLEAN :
            Observe(r, usage, cooled)
    \/ TapEnds(r)

Stager(r) ==
    \/ StageBegin(r)
    \/ StageSkip(r)
    \/ \E plan \in SUBSET Keys, folded \in BOOLEAN : StageCommit(r, plan, folded)
    \/ StageRelease(r)

Next ==
    \/ Control
    \/ \E r \in Reqs : Client(r) \/ Handler(r) \/ Drain(r) \/ Stager(r)

Spec == Init /\ [][Next]_vars

(***************************************************************************)
(* The runtime keeps polling a task that is ready and upstream answers or  *)
(* fails in the end; the client and the control plane owe nothing.         *)
(***************************************************************************)
Fairness ==
    \A r \in Reqs : WF_vars(Handler(r)) /\ WF_vars(Drain(r)) /\ WF_vars(Stager(r))

FairSpec == Spec /\ Fairness

-----------------------------------------------------------------------------
(***************************************************************************)
(* Properties.                                                             *)
(***************************************************************************)

(* Every variable keeps its type: the shape of AppState's flags, the       *)
(* sessions entry, each SessionEcon and each handler with its two tasks.   *)
TypeOK ==
    /\ kill \in BOOLEAN
    /\ shadow \in BOOLEAN
    /\ session \in {"absent", "fresh"} \cup Econs
    /\ econ \in [Econs -> EconType]
    /\ req \in [Reqs -> ReqType]
    /\ seen \in Lengths
    /\ asked \in Lengths
    /\ orphaned \subseteq Econs

\* The request won the guard of its session and has not released it yet.
Holds(r) == req[r].claimed \/ req[r].stage # "none"

(* claim_staging: a stage_next is never started while another one for the  *)
(* same session state is claimed, spawned or running, however handlers,    *)
(* staging tasks, evictions and repeated mints interleave.                 *)
AtMostOneStager ==
    \A r, q \in Reqs :
        r # q /\ Holds(r) /\ Holds(q) => req[r].econ # req[q].econ

\* A handler that will spawn the staging task of e, or that task itself.
Owned(e) == \E r \in Reqs : Holds(r) /\ req[r].econ = e

(* claim_staging and StagingGuard: while a session state is in use, its    *)
(* guard is set exactly when somebody is going to release it or the claim  *)
(* died with a dropped handler.  So a disconnect between the claim and the *)
(* spawn is the only thing that shuts staging for good, and neither an     *)
(* upstream failure nor an early return of the task does.                  *)
StagingHasOwner ==
    \A e \in Econs :
        \/ Dropped(e)
        \/ econ[e].staging <=> (e \in orphaned \/ Owned(e))

(* stage_next clones the working state, folds it over several awaits and   *)
(* writes it back: no commit may lose what another commit folded in        *)
(* between.                                                                *)
WorkingNeverLost ==
    [][\A e \in Econs : Dropped(e) \/ econ[e].working \subseteq econ'[e].working]_vars

(* stash_egress_snapshot: while an inspected body is on its way to         *)
(* upstream, the session's floor covers all of its messages, whatever      *)
(* shorter bodies are stashed meanwhile.                                   *)
FloorCoversEgress ==
    \A r \in Reqs :
        req[r].pc \in {"send", "sent"} /\ req[r].econ # None
            => req[r].n <= econ[req[r].econ].floor

(* provably_uncached: a leaf the fast lane cleans as fresh belongs to a    *)
(* message upstream has never received, so cleaning it can bust no cached  *)
(* prefix.                                                                 *)
FreshNeverSeen ==
    \A r \in Reqs :
        req[r].pc \in {"stash", "send"} => \A i \in req[r].fresh : i > seen

(* fast_lane_entries: the lane cleans the uncached tail and afterwards the *)
(* same leaves again; it never starts to clean a message that an earlier   *)
(* interception of the session sent with its original bytes.               *)
LaneKeepsSentBytes ==
    \A r \in Reqs :
        req[r].pc \in {"stash", "send"} /\ req[r].econ # None
            => req[r].lane_in \cap econ[req[r].econ].left = {}

(* calibrate: the token scale is only ever folded from the estimate of the *)
(* request whose usage is being observed.                                  *)
EstimateOwn == \A e \in Econs : econ[e].scale = "own"

(* StagingGuard: a claimed guard is released in the end, whether the       *)
(* staging task commits, returns early, or upstream fails; unless the      *)
(* client disconnects before the task is spawned.                          *)
StagingReleased ==
    \A e \in Econs : econ[e].staging ~> (~econ[e].staging \/ e \in orphaned)
=============================================================================
