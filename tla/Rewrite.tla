------------------------------ MODULE Rewrite ------------------------------
(***************************************************************************)
(* One conversation through the interceptor's pure half: the segmenter,    *)
(* the choice of segments and blocks to replace, the budget ladder, the    *)
(* breakpoint plan, the splice and its gate.  Relay has the state around   *)
(* it; here the bodies have messages and blocks.                           *)
(*                                                                         *)
(* Abstracted: a block is its type, its id and its length, one token per   *)
(* unit of length; prices, summaries and scores are any the code could     *)
(* come to.  Positions count from 1.  A message has at most one text, one  *)
(* call or one result: no parallel calls, and no redacted thinking or      *)
(* images, which the code passes over as it does thinking.                 *)
(***************************************************************************)
EXTENDS Integers, Sequences, FiniteSets, FiniteSetsExt, SequencesExt

CONSTANTS
    PromptLens,     \* lengths of a typed prompt
    TextLens,       \* lengths of a text or a tool result
    ThinkLen,       \* length of a thinking block
    RenderLens,     \* lengths of a staged replacement
    HeadTokens,     \* sizes of the tools and system segments
    PrefixHints,    \* cache_control hints in tools and system
    ClientHints,    \* the client marks its last block
    InnerHints,     \* the hints a tool block can have below its top level
    HintLen,        \* length of a hint
    LaneLen,        \* length of a cleaned tool result
    DropLen,        \* length of DROP_PLACEHOLDER
    MIN_BLOCK_SPAN,
    recency_window_n, human_verbatim_max, pre_gate_min_chars,
    cache_hint_cap, lookback_positions,
    ScoreFloor,     \* a finite score_floor is configured
    min_cache_floor,
    HardTarget,     \* hard_target: 256, as the window is passed for both sizes
    Pressing,       \* half the soft cap: a larger last segment is pressure
    MaxMessages,    \* bound: messages of the conversation
    None

ASSUME SizesAssumption ==
    /\ PromptLens \cup TextLens \cup RenderLens \subseteq Nat
    /\ 0 \in InnerHints /\ InnerHints \subseteq Nat
    /\ HeadTokens \in Seq(Nat)
    /\ {PrefixHints, ThinkLen, HintLen, LaneLen, DropLen, MIN_BLOCK_SPAN, recency_window_n,
        human_verbatim_max, pre_gate_min_chars, cache_hint_cap, lookback_positions,
        min_cache_floor, HardTarget, Pressing, MaxMessages} \subseteq Nat
    /\ ClientHints \in BOOLEAN /\ ScoreFloor \in BOOLEAN

VARIABLES
    msgs,       \* the client's conversation
    plan,       \* the staged plan, by content; None: nothing staged
    turn        \* what the last request came to

vars == <<msgs, plan, turn>>

CACHE_HINT_CAP == 4

Roles == {"user", "assistant", "system"}
BlockKinds == {"string", "text", "tool_use", "tool_result", "thinking"}
Lens == PromptLens \cup TextLens \cup RenderLens \cup {LaneLen, DropLen, ThinkLen, 1}
BlockType == [kind : BlockKinds, id : 0 .. MaxMessages, len : Lens, hint : BOOLEAN,
              inner : InnerHints, canon : BOOLEAN]
MessageType == [role : Roles, blocks : Seq(BlockType)]
EntryType == [recode : BOOLEAN, len : RenderLens]
Verdicts == {"ok", "identity", "pairs", "hints", "grew", "thinking"}

\* hint: a cache_control of the block's own; inner: those in what it holds,
\* blocks of a tool result and keys of a call's input.
Tool(kind, id, len, inner) ==
    [kind |-> kind, id |-> id, len |-> len, hint |-> FALSE, inner |-> inner, canon |-> FALSE]

Block(kind, id, len) == Tool(kind, id, len, 0)

\* The bytes of a block.
span(b) == b.len + IF b.hint THEN HintLen ELSE 0

Ids(m, kind) == {m.blocks[j].id : j \in {j \in DOMAIN m.blocks : m.blocks[j].kind = kind}}
IsString(m) == Len(m.blocks) = 1 /\ m.blocks[1].kind = "string"

NoTurn == [body |-> <<>>, sent |-> <<>>, base |-> {}, committed |-> {}, verdict |-> "identity"]

Init ==
    /\ msgs = <<>>
    /\ plan = None
    /\ turn = NoTurn

-----------------------------------------------------------------------------
(***************************************************************************)
(* The client.                                                             *)
(***************************************************************************)
Next1 == Len(msgs) + 1

Say(role, blocks) ==
    /\ Len(msgs) < MaxMessages
    /\ msgs' = Append(msgs, [role |-> role, blocks |-> blocks])
    /\ turn' = NoTurn
    /\ UNCHANGED plan

\* A prompt the user typed, or a reminder the client injects.
Prompt ==
    \E role \in {"user", "system"}, len \in PromptLens :
        Say(role, <<Block("string", 0, len)>>)

ClosesTurn == msgs # <<>> /\ Last(msgs).role = "assistant"

Reply ==
    /\ msgs # <<>> /\ ~ClosesTurn
    /\ \E len \in TextLens, thinks, uses \in BOOLEAN, inner \in InnerHints :
        Say("assistant",
            (IF thinks THEN <<Block("thinking", Next1, ThinkLen)>> ELSE <<>>)
            \o <<Block("text", 0, len)>>
            \o (IF uses THEN <<Tool("tool_use", Next1, 1, inner)>> ELSE <<>>))

Answer ==
    /\ ClosesTurn
    /\ \E id \in Ids(Last(msgs), "tool_use"), len \in TextLens, inner \in InnerHints :
        Say("user", <<Tool("tool_result", id, len, inner)>>)

\* The request: the client marks its last block unless that is a string.
Body ==
    LET n == Len(msgs)
        last == Len(msgs[n].blocks)
    IN  IF ClientHints /\ ~IsString(msgs[n])
        THEN [msgs EXCEPT ![n].blocks[last].hint = TRUE]
        ELSE msgs

Requesting == msgs # <<>> /\ ~ClosesTurn

\* A request of the present conversation; one repeated with the same plan
\* comes to one of the same outcomes, so it is taken once.
Unsent == Requesting /\ turn = NoTurn

-----------------------------------------------------------------------------
(***************************************************************************)
(* segment_prompt.                                                         *)
(***************************************************************************)
paired_user(body, i) ==
    /\ body[i].role = "assistant"
    /\ i < Len(body)
    /\ body[i + 1].role = "user"
    /\ Ids(body[i], "tool_use") \cap Ids(body[i + 1], "tool_result") # {}

\* Message i is the second of a pair.
Absorbed(body, i) == i > 1 /\ paired_user(body, i - 1)

MessageTokens(m) == MapThenSumSet(LAMBDA j : span(m.blocks[j]), DOMAIN m.blocks)

SegmentAt(body, i) ==
    LET pair == paired_user(body, i)
        own  == IF pair THEN {i, i + 1} ELSE {i}
    IN  [kind   |-> IF pair THEN "pair" ELSE body[i].role,
         msgs   |-> own,
         pinned |-> ~pair /\ Ids(body[i], "tool_use") # {},
         human  |-> body[i].role = "user" /\ IsString(body[i]),
         tokens |-> MapThenSumSet(LAMBDA m : MessageTokens(body[m]), own)]

HeadSegments ==
    [k \in DOMAIN HeadTokens |->
        [kind |-> "head", msgs |-> {}, pinned |-> FALSE, human |-> FALSE,
         tokens |-> HeadTokens[k]]]

\* The messages that begin a segment, in order.
Starts(body) ==
    LET upto[n \in 0 .. Len(body)] ==
            IF n = 0 THEN <<>>
            ELSE IF Absorbed(body, n) THEN upto[n - 1]
            ELSE Append(upto[n - 1], n)
    IN  upto[Len(body)]

segment_prompt(body) ==
    LET starts == Starts(body)
        all    == HeadSegments \o [k \in DOMAIN starts |-> SegmentAt(body, starts[k])]
    IN  [all EXCEPT ![Len(all)].pinned = TRUE]

is_recency_protected(k, segs) == k > Len(segs) - recency_window_n

\* The content address: the blocks, hints included, and not the position.
KeyOf(body, seg) ==
    FlattenSeq([k \in 1 .. Cardinality(seg.msgs) |->
                  body[Min(seg.msgs) + k - 1].blocks])

Total(segs) == MapThenSumSet(LAMBDA k : segs[k].tokens, DOMAIN segs)

-----------------------------------------------------------------------------
(***************************************************************************)
(* squash_targets: the blocks <<message, block>> that may be replaced.     *)
(***************************************************************************)

\* Mutant: a thinking block counts as text.
Replaceable_thinks(kind) ==
    CASE kind = "pair" -> {"tool_result"}
      [] kind \in {"assistant", "user"} -> {"string", "text", "tool_result", "thinking"}
      [] kind = "system" -> {"string"}
      [] OTHER -> {}

Replaceable(kind) ==
    CASE kind = "pair" -> {"tool_result"}
      [] kind \in {"assistant", "user"} -> {"string", "text", "tool_result"}
      [] kind = "system" -> {"string"}
      [] OTHER -> {}

\* Whatever their size.
Leaves(body, seg) ==
    UNION {{<<m, j>> : j \in {j \in DOMAIN body[m].blocks :
                                body[m].blocks[j].kind \in Replaceable(seg.kind)}}
             : m \in {m \in seg.msgs : seg.kind = "pair" => body[m].role = "user"}}

At(body, t) == body[t[1]].blocks[t[2]]

squash_targets(body, seg) ==
    {t \in Leaves(body, seg) : span(At(body, t)) > MIN_BLOCK_SPAN}

\* Mutant: the marker is appended to a length that already counts it.
Rendered_marked(b, len) ==
    [kind |-> IF b.kind = "tool_result" THEN "tool_result" ELSE "text",
     id |-> b.id, len |-> len + 1, hint |-> FALSE, inner |-> 0, canon |-> TRUE]

\* placeholder_block_json: a tool result keeps its id, all else becomes text.
Rendered(b, len) ==
    [kind |-> IF b.kind = "tool_result" THEN "tool_result" ELSE "text",
     id |-> b.id, len |-> len, hint |-> FALSE, inner |-> 0, canon |-> TRUE]

\* recode_leaf and raw_recode_leaf: the one string of a segment, and of a pair
\* the one block that would be replaced.
HasLeaf(body, seg) ==
    LET strings == {t \in Leaves(body, seg) :
                      seg.kind = "pair" \/ At(body, t).kind # "tool_result"}
    IN  /\ ~seg.pinned /\ ~seg.human
        /\ Cardinality(strings) = 1
        /\ \A t \in strings : At(body, t).len > MIN_BLOCK_SPAN
        /\ seg.kind = "pair" => Cardinality(squash_targets(body, seg)) = 1

-----------------------------------------------------------------------------
(***************************************************************************)
(* Staging, and what the passes of a turn admit.                           *)
(***************************************************************************)
is_huge_human_paste(seg) ==
    seg.human /\ seg.kind = "user" /\ seg.tokens > human_verbatim_max

\* is_pinned, of salience.
Salient(seg) == seg.kind = "user" /\ seg.human

is_squash_candidate(seg) == ~Salient(seg) \/ is_huge_human_paste(seg)

\* stage_next: any of the candidates, recoded or behind a reference.  It runs
\* after a request; taken before that request it gives the same plans.
Stage ==
    /\ Unsent
    /\ LET segs  == segment_prompt(Body)
           cands == {k \in DOMAIN segs : segs[k].msgs # {} /\ is_squash_candidate(segs[k])}
           keys(S) == {KeyOf(Body, segs[k]) : k \in S}
       IN  \E K \in SUBSET keys(cands) :
           \E R \in SUBSET (K \cap keys({k \in cands : HasLeaf(Body, segs[k])})) :
           \E len \in RenderLens :
               plan' = [key \in K |-> [recode |-> key \in R, len |-> len]]
    /\ UNCHANGED <<msgs, turn>>

\* SegmentScore::admitted: a vetoed score is minus infinity, which a floor of
\* minus infinity admits.
admitted(k, segs) ==
    ScoreFloor => ~is_recency_protected(k, segs) /\ ~Salient(segs[k])

\* The passes: salience gate, ladder with its pre-gate, economics gate.
Proposed(k, segs) ==
    LET seg == segs[k]
    IN  /\ is_squash_candidate(seg)
        /\ admitted(k, segs)
        /\ \/ is_huge_human_paste(seg)
           \/ ~seg.pinned /\ seg.tokens >= pre_gate_min_chars

\* The segments a turn may rewrite by the plan: prices and hot refs take some
\* away.
live(body, segs) ==
    {k \in DOMAIN segs :
        /\ squash_targets(body, segs[k]) # {}
        /\ KeyOf(body, segs[k]) \in DOMAIN plan
        /\ plan[KeyOf(body, segs[k])].recode \/ Proposed(k, segs)}

\* The replacements of the segments S, those of segment k of length lens[k].
RenderAll(body, segs, S, lens) ==
    LET owner(t) == CHOOSE k \in S : t[1] \in segs[k].msgs
    IN  [t \in UNION {squash_targets(body, segs[k]) : k \in S} |->
            Rendered(At(body, t), lens[owner(t)])]

\* post_squash_below_floor, over the segments S of the batch.
post_squash_below_floor(body, segs, base) ==
    LET removed == MapThenSumSet(LAMBDA t : At(body, t).len - base[t].len, DOMAIN base)
    IN  Total(segs) - removed < min_cache_floor

-----------------------------------------------------------------------------
(***************************************************************************)
(* The budget ladder.  A rung stops at the first segment that finds the    *)
(* running estimate at the target.                                         *)
(***************************************************************************)
Before(S, k) == {i \in S : i < k}

StripReasoning(body, segs) ==
    LET turns == {k \in DOMAIN segs : segs[k].kind = "assistant"}
    IN  {k \in turns :
            /\ k # Max(turns)
            /\ \E m \in segs[k].msgs : Ids(body[m], "thinking") # {}}

shed_tokens(body, seg) ==
    MapThenSumSet(LAMBDA m : MapThenSumSet(LAMBDA j : span(body[m].blocks[j]),
                      {j \in DOMAIN body[m].blocks : body[m].blocks[j].kind = "thinking"}),
                  seg.msgs)

Rung(segs, S, running) ==
    {k \in S : running - MapThenSumSet(LAMBDA i : segs[i].tokens, Before(S, k)) > HardTarget}

budget_fallback(body, segs) ==
    LET total  == Total(segs)
        strip  == StripReasoning(body, segs)
        left   == total - MapThenSumSet(LAMBDA k : shed_tokens(body, segs[k]), strip)
        pairs  == Rung(segs, {k \in DOMAIN segs : segs[k].kind = "pair" /\ ~segs[k].pinned}, left)
        left2  == left - MapThenSumSet(LAMBDA k : segs[k].tokens, pairs)
        oldest == Rung(segs, {k \in DOMAIN segs \ pairs :
                                k # Len(segs) /\ segs[k].kind \notin {"system", "head"}}, left2)
    IN  IF total <= HardTarget THEN {} ELSE strip \cup pairs \cup oldest

-----------------------------------------------------------------------------
(***************************************************************************)
(* Breakpoints, splice and gate.                                           *)
(***************************************************************************)

\* The latest n of a set of positions.
Latest(S, n) == {p \in S : Cardinality({q \in S : q > p}) < n}

\* Positions are indices of segments.
plan_breakpoints(segs) ==
    LET clears(k) == MapThenSumSet(LAMBDA i : segs[i].tokens, 1 .. k) >= min_cache_floor
    IN  Latest({k \in DOMAIN segs : /\ k > Len(segs) - lookback_positions
                                    /\ clears(k)
                                    /\ ~is_recency_protected(k, segs)}, cache_hint_cap)

\* They are taken for indices of messages from here on.
safe_breakpoints(positions, rendered) ==
    positions \cap {t[1] : t \in DOMAIN rendered}

\* Mutant: the hints of tools and system are not counted.
effective_cap_full == CACHE_HINT_CAP

effective_cap == IF PrefixHints > CACHE_HINT_CAP THEN 0 ELSE CACHE_HINT_CAP - PrefixHints

\* has_hint_raw: at any depth.
HasHint(m) == \E j \in DOMAIN m.blocks : m.blocks[j].hint \/ m.blocks[j].inner > 0

\* edit_message: an untouched message keeps its bytes; any other is parsed
\* and written again, the hints of its blocks taken off, those deeper left,
\* and the plan's put on.
edit_message(body, i, rendered, wants) ==
    LET m == body[i]
        n == Len(m.blocks)
        new(j) == IF <<i, j>> \in DOMAIN rendered THEN rendered[<<i, j>>] ELSE m.blocks[j]
    IN  IF (\A j \in 1 .. n : <<i, j>> \notin DOMAIN rendered) /\ ~wants /\ ~HasHint(m)
        THEN m
        ELSE [m EXCEPT !.blocks =
                [j \in 1 .. n |->
                    [new(j) EXCEPT
                        !.hint = wants /\ j = n, !.canon = TRUE,
                        !.kind = IF wants /\ @ = "string" THEN "text" ELSE @]]]

splice(body, rendered, positions) ==
    LET kept == Latest(positions \cap DOMAIN body, effective_cap)
    IN  [i \in DOMAIN body |-> edit_message(body, i, rendered, i \in kept)]

AllIds(body, kind) == UNION {Ids(body[i], kind) : i \in DOMAIN body}

Hints(body) ==
    MapThenSumSet(LAMBDA i : Cardinality({j \in DOMAIN body[i].blocks : body[i].blocks[j].hint}),
                  DOMAIN body)

\* The hints below the top level of a body, each by its place.
Nested(body) ==
    UNION {UNION {{<<i, j, k>> : k \in 1 .. body[i].blocks[j].inner}
                    : j \in DOMAIN body[i].blocks} : i \in DOMAIN body}

check_tool_pairs(body) == AllIds(body, "tool_use") = AllIds(body, "tool_result")

\* Every occurrence in the bytes counts, whatever its depth.
check_hint_cap(new) ==
    PrefixHints + Hints(new) + Cardinality(Nested(new)) <= CACHE_HINT_CAP

\* Less in all, and no block longer.
check_shrink(body, new) ==
    LET bytes(b) == MapThenSumSet(LAMBDA i : MessageTokens(b[i]), DOMAIN b)
    IN  /\ bytes(new) < bytes(body)
        /\ \A i \in DOMAIN body : \A j \in DOMAIN body[i].blocks :
            span(new[i].blocks[j]) <= span(body[i].blocks[j])

Assistants(body) == {i \in DOMAIN body : body[i].role = "assistant"}

\* Mutant: the first assistant message is looked at.
check_thinking_first(body, new) ==
    Assistants(body) # {} =>
        \A j \in DOMAIN body[Min(Assistants(body))].blocks :
            LET b == body[Min(Assistants(body))].blocks[j]
            IN  b.kind = "thinking" => \E i \in DOMAIN new : b \in ToSet(new[i].blocks)

\* The thinking of the latest assistant message is found again somewhere.
check_thinking(body, new) ==
    Assistants(body) # {} =>
        \A j \in DOMAIN body[Max(Assistants(body))].blocks :
            LET b == body[Max(Assistants(body))].blocks[j]
            IN  b.kind = "thinking" => \E i \in DOMAIN new : b \in ToSet(new[i].blocks)

\* In the order of the code; the splice touches neither roles nor the envelope,
\* whose checks are left out.
validate(body, new) ==
    CASE ~check_tool_pairs(new) -> "pairs"
      [] ~check_hint_cap(new) -> "hints"
      [] ~check_shrink(body, new) -> "grew"
      [] ~check_thinking(body, new) -> "thinking"
      [] OTHER -> "ok"

-----------------------------------------------------------------------------
(***************************************************************************)
(* A turn.                                                                 *)
(***************************************************************************)
Domains(S) == UNION {DOMAIN r : r \in S}

\* Mutant: a lane leaf is not held against the base.
Uncontested_all(base, lane) == lane

\* The lane entries none of whose blocks the base replaces.
Uncontested(base, lane) == {e \in lane : DOMAIN e.rendered \cap DOMAIN base = {}}

\* finish: base and lane together, splice, gate, and the commitments.
finish(body, base, lane, positions) ==
    LET kept == Uncontested(base, lane)
        both == [t \in DOMAIN base \cup Domains({e.rendered : e \in kept}) |->
                    IF t \in DOMAIN base THEN base[t]
                    ELSE (CHOOSE e \in kept : t \in DOMAIN e.rendered).rendered[t]]
        new  == splice(body, both, safe_breakpoints(positions, base))
        verdict == IF DOMAIN both = {} THEN "identity" ELSE validate(body, new)
    IN  [body |-> body, verdict |-> verdict, base |-> DOMAIN base,
         sent |-> IF verdict = "ok" THEN new ELSE body,
         committed |-> IF verdict = "ok" THEN {e \in kept : e.fresh} ELSE {}]

\* fast_lane_entries: any tool pairs the session's window and commitments let
\* in; a fresh one is not covered by the plan.
LaneEntries(body, segs) ==
    LET leaf(k) == segs[k].kind = "pair" /\ HasLeaf(body, segs[k])
        covered(k) == plan # None /\ KeyOf(body, segs[k]) \in DOMAIN plan
        entry(k, fresh) == [fresh |-> fresh,
                            rendered |-> RenderAll(body, segs, {k}, [i \in {k} |-> LaneLen])]
        shrinks(k) == \A t \in squash_targets(body, segs[k]) : LaneLen < span(At(body, t))
        able == {k \in DOMAIN segs : leaf(k) /\ shrinks(k)}
    IN  {entry(k, FALSE) : k \in able} \cup {entry(k, TRUE) : k \in {k \in able : ~covered(k)}}

\* A leaf enters the lane fresh or committed, not both.
Lanes(body, segs) ==
    {L \in SUBSET LaneEntries(body, segs) :
        \A a, b \in L : a.rendered = b.rendered => a = b}

NoBase == [t \in {} |-> None]

\* continuous: hold, ride a free bust, or flush with breakpoints.
Continuous ==
    /\ Unsent
    /\ plan # None
    /\ LET body == Body
           segs == segment_prompt(body)
       IN  \E lane \in Lanes(body, segs), S \in SUBSET live(body, segs) :
           LET base == RenderAll(body, segs, S, [k \in S |-> plan[KeyOf(body, segs[k])].len])
           IN  \/ turn' = finish(body, NoBase, lane, {})
               \/ /\ ~post_squash_below_floor(body, segs, base)
                  /\ \E positions \in {{}, plan_breakpoints(segs)} :
                        turn' = finish(body, base, lane, positions)
    /\ UNCHANGED <<msgs, plan>>

\* deterministic_compact: the ladder under pressure, what is pinned or recent
\* or would not shrink left alone.
Compact ==
    /\ Unsent
    /\ plan = None
    /\ LET body == Body
           segs == segment_prompt(body)
           drops == IF segs[Len(segs)].tokens <= Pressing THEN {}
                    ELSE {k \in budget_fallback(body, segs) :
                            ~segs[k].pinned /\ ~is_recency_protected(k, segs)}
           all  == RenderAll(body, segs, drops, [k \in drops |-> DropLen])
           base == [t \in {t \in DOMAIN all : DropLen < span(At(body, t))} |-> all[t]]
       IN  \E lane \in Lanes(body, segs) : turn' = finish(body, base, lane, {})
    /\ UNCHANGED <<msgs, plan>>

Next == Prompt \/ Reply \/ Answer \/ Stage \/ Continuous \/ Compact

Spec == Init /\ [][Next]_vars

-----------------------------------------------------------------------------
(***************************************************************************)
(* Properties.                                                             *)
(***************************************************************************)

(* Bodies, plan and turn keep their types.                                 *)
TypeOK ==
    /\ msgs \in Seq(MessageType)
    /\ plan = None \/ \A key \in DOMAIN plan : key \in Seq(BlockType) /\ plan[key] \in EntryType
    /\ turn.body \in Seq(MessageType)
    /\ turn.sent \in Seq(MessageType)
    /\ turn.verdict \in Verdicts

\* A block that is no more than re-serialized.
Rewritten(a, b) == a.len # b.len \/ a.kind # b.kind

(* squash_targets and splice: whatever is staged, cleaned or dropped, the  *)
(* request keeps its messages, roles, blocks and ids, and only strings,    *)
(* texts and tool results are ever replaced.                               *)
SkeletonKept ==
    /\ DOMAIN turn.sent = DOMAIN turn.body
    /\ \A i \in DOMAIN turn.body :
        /\ turn.sent[i].role = turn.body[i].role
        /\ DOMAIN turn.sent[i].blocks = DOMAIN turn.body[i].blocks
        /\ \A j \in DOMAIN turn.body[i].blocks :
            LET a == turn.body[i].blocks[j]
                b == turn.sent[i].blocks[j]
            IN  a.id = b.id /\ (Rewritten(a, b) => a.kind \in {"string", "text", "tool_result"})

(* check_thinking: the thinking of the latest assistant message goes out   *)
(* byte for byte and in its place, although the gate only looks for it     *)
(* anywhere in the request and a touched message is written again whole.   *)
ThinkingKept ==
    Assistants(turn.body) # {} =>
        LET i == Max(Assistants(turn.body))
        IN  \A j \in DOMAIN turn.body[i].blocks :
                turn.body[i].blocks[j].kind = "thinking"
                    => turn.sent[i].blocks[j] = turn.body[i].blocks[j]

(* validate, "the fail-safe backstop": the splice counts the hints of      *)
(* tools and system itself and never severs a pair, so what the gate       *)
(* refuses is the client's own doing: for hints, more than the cap in      *)
(* tools and system or hints nested in a tool's call or result, which the  *)
(* splice neither counts nor takes off; for pairs, broken ones.            *)
SpliceNeedsNoGate ==
    /\ turn.verdict = "hints" =>
        PrefixHints > CACHE_HINT_CAP \/ Nested(turn.body) # {}
    /\ turn.verdict = "pairs" => ~check_tool_pairs(turn.body)

(* finish: a lane key is committed only if its cleaned bytes are what was  *)
(* sent, so that a later turn can repeat them.                             *)
CommittedWasSent ==
    \A e \in turn.committed : \A t \in DOMAIN e.rendered :
        At(turn.sent, t).len = e.rendered[t].len

(* SegmentScore: "a pinned or recency-protected segment can never be       *)
(* selected for rewrite".                                                  *)
RecencyKept ==
    turn.body # <<>> =>
        LET segs == segment_prompt(turn.body)
        IN  \A t \in turn.base : \A k \in DOMAIN segs :
                t[1] \in segs[k].msgs => ~is_recency_protected(k, segs)

(* targets: "leaving thinking/redacted_thinking/tool_use byte-intact".     *)
ThinkingExact ==
    \A i \in DOMAIN turn.body : \A j \in DOMAIN turn.body[i].blocks :
        turn.body[i].blocks[j].kind \in {"thinking", "tool_use"} /\ ~turn.body[i].blocks[j].hint
            => turn.sent[i].blocks[j] = turn.body[i].blocks[j]

(* plan_breakpoints: each position is "at the end of a stable cacheable    *)
(* prefix" that clears the floor.                                          *)
BreakpointsClearFloor ==
    turn.verdict = "ok" =>
        \A i \in DOMAIN turn.sent :
            (\E j \in DOMAIN turn.sent[i].blocks : turn.sent[i].blocks[j].hint) =>
                MapThenSumSet(LAMBDA k : HeadTokens[k], DOMAIN HeadTokens)
                + MapThenSumSet(LAMBDA m : MessageTokens(turn.body[m]), 1 .. i)
                    >= min_cache_floor
=============================================================================
