------------------------------ MODULE Staging ------------------------------
(***************************************************************************)
(* The off-path staging task over the recoded request, with the calls it   *)
(* makes to the summarizer, and the next turn that shows its plan.  The    *)
(* task of Relay is the same one with its content left out.                *)
(*                                                                         *)
(* Time counts from the start of a summarizer call, in units of the first  *)
(* back-off.                                                               *)
(***************************************************************************)
EXTENDS Recode

CONSTANTS
    Envelope,               \* length of the JSON around the leaf of a tool pair
    MIN_RECODE_SHRINK_PCT,  \* a recode must remove this much of the payload
    pre_gate_min_chars,
    CALL_TIMEOUT,
    RetryAfters             \* delays the upstream asks for

RETRY_BACKOFFS == <<1, 4>>

ASSUME StagingAssumption ==
    /\ {Envelope, pre_gate_min_chars} \subseteq Nat
    /\ MIN_RECODE_SHRINK_PCT \in 1 .. 100
    /\ CALL_TIMEOUT \in Nat \ {0}
    /\ RetryAfters \subseteq Nat

VARIABLES
    next,       \* the segment to stage, N + 1: the fold, N + 2: ended
    call,       \* the summarizer call under way
    stored,     \* payloads in the ref store
    plan,       \* the staged plan, by payload
    working,    \* folds the working state has been through
    shown       \* the next turn; None: not yet sent

task_vars == <<next, call, stored, plan, working, shown>>
vars == <<chain_vars, task_vars>>

\* A decision, with the field its choice calls for.
Decisions ==
    [choice : {"keep", "compress"}, ranges : {FALSE}, summary : {"none"}]
    \cup [choice : {"truncate", "keep"}, ranges : BOOLEAN, summary : {"none"}]
    \cup [choice : {"summarize", "compress"}, ranges : {FALSE},
          summary : {"none", "short", "longer"}]
CallType == [phase : {"idle", "posted", "waiting"}, tries : 0 .. 3,
             clock : 0 .. CALL_TIMEOUT, due : Nat]
\* A staged entry; of a decision only its choice is told apart.
Entries == [recode : {None}, decision : {"truncate", "summarize", "compress"}, marker : BOOLEAN]
           \cup [recode : Texts, decision : {None}, marker : BOOLEAN]

\* Tool pairs carry their ids; equal texts of other turns are one payload,
\* named by the first segment that has it.
Payload(s) ==
    IF segs[s].tool # NoTool THEN s
    ELSE Min({e \in Segs : segs[e].tool = NoTool /\ segs[e].raw = segs[s].raw})

payload_len(s) == Length(segs[s].raw) + IF segs[s].tool # NoTool THEN Envelope ELSE 0

NoCall == [phase |-> "idle", tries |-> 0, clock |-> 0, due |-> 0]

TaskInit ==
    /\ next = 1
    /\ call = NoCall
    /\ stored = {}
    /\ plan = [s \in Segs |-> None]
    /\ working = 0
    /\ shown = None

Init == ChainInit /\ TaskInit

Staging == ChainDone /\ next \in Segs

\* is_squash_candidate rejects the source of a live constraint and what the
\* human typed, unless it is huge; it does not look at the pin by position.
Gated(s) == segs[s].status \in {"typed", "salient"}

prefers_recode(s) ==
    /\ ledger[s] # None
    /\ payload_len(s) > 0
    /\ 100 * Length(ledger[s].content) <= (100 - MIN_RECODE_SHRINK_PCT) * payload_len(s)

-----------------------------------------------------------------------------
(***************************************************************************)
(* The loop over the segments.                                             *)
(***************************************************************************)
Advance ==
    /\ next' = next + 1
    /\ call' = NoCall

\* No candidate at all: the task returns before the chain, and commits nothing.
AllGated == \A s \in Segs : Gated(s)

ReturnEarly ==
    /\ AllGated /\ next = 1
    /\ next' = N + 2
    /\ UNCHANGED <<chain_vars, call, stored, plan, working, shown>>

RunChain == ~AllGated /\ Chain /\ UNCHANGED task_vars

SkipGated ==
    /\ Staging /\ Gated(next)
    /\ Advance
    /\ UNCHANGED <<chain_vars, stored, plan, working, shown>>

\* Mutant: the marker is left out when the content is not empty.
recode_entry_bare(s) ==
    [recode |-> ledger[s].content, decision |-> None,
     marker |-> ledger[s].needs_ref # None /\ ledger[s].content = Empty]

recode_entry(s) ==
    [recode |-> ledger[s].content, decision |-> None, marker |-> ledger[s].needs_ref # None]

\* Mutant: a segment the chain recoded is staged without asking the gate.
stage_recode_ungated ==
    /\ Staging /\ prefers_recode(next)
    /\ Advance
    /\ stored' = stored \cup {Payload(next)}
    /\ plan' = [plan EXCEPT ![Payload(next)] = recode_entry(next)]
    /\ UNCHANGED <<chain_vars, working, shown>>

stage_recode ==
    /\ Staging /\ ~Gated(next) /\ prefers_recode(next)
    /\ Advance
    /\ \/ /\ stored' = stored \cup {Payload(next)}
          /\ plan' = [plan EXCEPT ![Payload(next)] = recode_entry(next)]
       \/ UNCHANGED <<stored, plan>>    \* the put failed
    /\ UNCHANGED <<chain_vars, working, shown>>

Asks == Staging /\ ~Gated(next) /\ ~prefers_recode(next)

\* Too short to ask about: kept without a call.
DecideShort ==
    /\ Asks /\ payload_len(next) < pre_gate_min_chars
    /\ Advance
    /\ UNCHANGED <<chain_vars, stored, plan, working, shown>>

-----------------------------------------------------------------------------
(***************************************************************************)
(* SummarizerClient::call, for a decision and for the fold.                *)
(***************************************************************************)
Calling == (Asks /\ payload_len(next) >= pre_gate_min_chars) \/ (ChainDone /\ next = N + 1)

Post ==
    /\ Calling
    /\ \/ call.phase = "idle"
       \/ call.phase = "waiting" /\ call.clock >= call.due
    /\ call' = [call EXCEPT !.phase = "posted", !.tries = @ + 1]
    /\ UNCHANGED <<chain_vars, next, stored, plan, working, shown>>

\* Mutant: a retry-after header is followed however often it comes.
RateLimited_endless ==
    /\ Calling /\ call.phase = "posted"
    /\ \E d \in RetryAfters :
          call' = [call EXCEPT !.phase = "waiting", !.due = call.clock + d]
    /\ UNCHANGED <<chain_vars, next, stored, plan, working, shown>>

\* A 429 or 529 while a back-off is left: wait, then post again.
RateLimited ==
    /\ Calling /\ call.phase = "posted" /\ call.tries <= Len(RETRY_BACKOFFS)
    /\ \E d \in RetryAfters \cup {RETRY_BACKOFFS[call.tries]} :
          call' = [call EXCEPT !.phase = "waiting", !.due = call.clock + d]
    /\ UNCHANGED <<chain_vars, next, stored, plan, working, shown>>

Tick ==
    /\ Calling /\ call.phase # "idle" /\ call.clock < CALL_TIMEOUT
    /\ call' = [call EXCEPT !.clock = @ + 1]
    /\ UNCHANGED <<chain_vars, next, stored, plan, working, shown>>

\* Mutant: the timeout covers the post but not the wait before the next one.
CallFails_waiting ==
    /\ Calling
    /\ call.phase = "posted"
    /\ Advance
    /\ UNCHANGED <<chain_vars, stored, plan, working, shown>>

\* A transport error, a status, a body without JSON, or the timeout.
CallFails ==
    /\ Calling
    /\ call.phase = "posted" \/ call.clock = CALL_TIMEOUT
    /\ Advance
    /\ UNCHANGED <<chain_vars, stored, plan, working, shown>>

normalize(d) ==
    CASE d.choice = "truncate" /\ ~d.ranges -> [d EXCEPT !.choice = "keep"]
      [] d.choice = "summarize" /\ d.summary = "none" -> [d EXCEPT !.choice = "compress"]
      [] OTHER -> d

\* The rewrite cannot pay off; the summary of a compression is not looked at.
pre_gate(d) == d.choice = "summarize" /\ d.summary = "longer"

\* The answer to decide, repaired and gated; kept, put and staged, or the
\* put failed.
Decided ==
    /\ Calling /\ next \in Segs /\ call.phase = "posted"
    /\ \E d \in Decisions :
          LET decision == normalize(d)
              keeps == decision.choice = "keep" \/ pre_gate(decision)
          IN  \/ keeps /\ UNCHANGED <<stored, plan>>
              \/ /\ ~keeps
                 /\ stored' = stored \cup {Payload(next)}
                 /\ plan' = [plan EXCEPT ![Payload(next)] =
                                [recode |-> None, decision |-> decision.choice, marker |-> TRUE]]
              \/ ~keeps /\ UNCHANGED <<stored, plan>>
    /\ Advance
    /\ UNCHANGED <<chain_vars, working, shown>>

Folded ==
    /\ Calling /\ next = N + 1 /\ call.phase = "posted"
    /\ working' = working + 1
    /\ Advance
    /\ UNCHANGED <<chain_vars, stored, plan, shown>>

-----------------------------------------------------------------------------
(***************************************************************************)
(* The next turn sends the same segments.  An entry that is hot or that    *)
(* the gates of the on-path spine drop is not applied (Rewrite has those). *)
(***************************************************************************)
Applied(s, dropped) == plan[Payload(s)] # None /\ s \notin dropped

\* A payload shown before, and long enough for a back reference; forced are
\* the segments whose pin or role on the next turn forbids it.
backref_allowed(s, dropped, forced) ==
    /\ s \notin forced
    /\ payload_len(s) >= DEDUPE_MIN_CHARS
    /\ \E e \in 1 .. s - 1 : Payload(e) = Payload(s) /\ Applied(e, dropped)

render_recode_segment(entry) ==
    [text |-> entry.recode,
     marker |-> IF ~entry.marker THEN "none"
                ELSE IF entry.recode = Empty THEN "backref" ELSE "placeholder"]

render_reversible_segment(s, dropped, forced) ==
    [text |-> Empty,
     marker |-> IF backref_allowed(s, dropped, forced) THEN "backref" ELSE "placeholder"]

render_segments(dropped, forced) ==
    [s \in Segs |->
        IF ~Applied(s, dropped)
        THEN [text |-> segs[s].raw, marker |-> "none"]
        ELSE IF plan[Payload(s)].recode # None
        THEN render_recode_segment(plan[Payload(s)])
        ELSE render_reversible_segment(s, dropped, forced)]

Show ==
    /\ next = N + 2 /\ shown = None
    /\ LET staged == {s \in Segs : plan[Payload(s)] # None}
       IN  \E dropped \in SUBSET staged : \E forced \in SUBSET staged :
              shown' = render_segments(dropped, forced)
    /\ UNCHANGED <<chain_vars, next, call, stored, plan, working>>

Task ==
    \/ ReturnEarly \/ SkipGated \/ stage_recode \/ DecideShort
    \/ Post \/ RateLimited \/ Tick \/ CallFails \/ Decided \/ Folded

Done == shown # None /\ UNCHANGED vars

Next == RunChain \/ Task \/ Show \/ Done

Spec == Init /\ [][Next]_vars

\* The task runs on its own; time passes; an upstream that does not answer
\* is met by the timeout.
FairSpec ==
    /\ Spec
    /\ WF_vars(RunChain)
    /\ WF_vars(ReturnEarly \/ SkipGated \/ stage_recode \/ DecideShort)
    /\ WF_vars(Post) /\ WF_vars(Tick)
    /\ WF_vars(CallFails /\ call.clock = CALL_TIMEOUT)

-----------------------------------------------------------------------------
TypeOK ==
    /\ ChainTypeOK
    /\ next \in 1 .. N + 2
    /\ call \in CallType
    /\ stored \subseteq Segs
    /\ plan \in [Segs -> Entries \cup {None}]
    /\ working \in 0 .. 1
    /\ shown \in [Segs -> [text : Texts, marker : {"none", "placeholder", "backref"}]]
                 \cup {None}

(* The whole way from the chain to the wire: a turn that no longer shows   *)
(* what a segment said carries a marker for it, and its payload is in the  *)
(* store; a turn without a marker shows the segment but for cosmetics.     *)
ShownRecoverable ==
    shown # None =>
        \A s \in Segs :
            Lossy(segs[s].raw, shown[s].text) =>
                shown[s].marker # "none" /\ Payload(s) \in stored

(* The gate of staging: the chain recodes the whole request, the sources   *)
(* of live constraints included (it runs with an empty working state), and *)
(* the plan is keyed by content.  What is_pinned says to keep verbatim is  *)
(* on the next turn as it was, whatever the chain proposed and the         *)
(* summarizer answered, unless a candidate has the very same payload.      *)
GatedStaysVerbatim ==
    shown # None =>
        \A s \in Segs :
            Gated(s) =>
                \/ shown[s] = [text |-> segs[s].raw, marker |-> "none"]
                \/ \E e \in Segs : ~Gated(e) /\ Payload(e) = Payload(s)

(* Whatever the upstream answers or does not answer, the chain ends and    *)
(* the task comes to its end, which is what releases the staging guard.    *)
StagingEnds == <>(next = N + 2)

(* seq_diff: "Every diff's base renders verbatim for the model".           *)
DiffBaseShown ==
    shown # None =>
        \A s \in Segs :
            shown[s].text.form = "diff" =>
                LET base == shown[s].text.base
                IN  shown[base.seg] = [text |-> base.text, marker |-> "none"]

(* dedup_backref: a duplicate is replaced "with a backref to the earlier   *)
(* occurrence", which is kept.                                             *)
BackrefHasTarget ==
    shown # None =>
        \A s \in Segs :
            shown[s].marker = "backref" =>
                \E e \in 1 .. s - 1 :
                    segs[e].raw = segs[s].raw /\ shown[e].marker # "backref"
=============================================================================
