---------------------------- MODULE RelayProofs ----------------------------
(***************************************************************************)
(* Proofs about Relay, for any number of requests and session states, any  *)
(* transcript and any client.                                              *)
(***************************************************************************)
EXTENDS Relay, TLAPS

(***************************************************************************)
(* Type correctness.                                                       *)
(***************************************************************************)

\* How a slot's fields depend on each other: which blocks run with a session
\* state, and that only an idle handler leaves a staging task behind.
ReqShape(q) ==
    /\ q.pc \in {"read", "raw"} => q.econ = None /\ ~q.claimed
    /\ q.pc \in {"inputs", "rewrite", "stash", "send"} => q.econ \in Econs
    /\ q.claimed => q.pc \in {"inputs", "rewrite", "stash", "send", "sent"}
    /\ q.stage # "none" => q.pc = "idle"
    /\ (q.claimed \/ q.tap \/ q.stage # "none") => q.econ \in Econs
    /\ q.kind = "bad" => q.n = 0

ShapeInv == \A r \in Reqs : ReqShape(req[r])

\* Len of the transcript is a natural number and its entries are keys.
LEMMA TranscriptFacts ==
    /\ Len(Transcript) \in Nat
    /\ \A i \in 1 .. Len(Transcript) : Transcript[i] \in Keys
BY TranscriptAssumption

\* The types of the initial records.
LEMMA RecordTypes ==
    /\ IdleReq \in ReqType
    /\ NoInputs \in Inputs
    /\ \A known \in BOOLEAN : NewEcon(known) \in EconType
<1>0. 0 \in Lengths /\ {} \in SUBSET Lengths
  BY TranscriptFacts DEF Lengths
<1>1. NoInputs \in Inputs
  BY <1>0 DEF NoInputs, Inputs
<1>2. IdleReq \in ReqType
  BY <1>0, <1>1 DEF IdleReq, ReqType, HandlerPC, Kinds, StagePC
<1>3. ASSUME NEW known \in BOOLEAN PROVE NewEcon(known) \in EconType
  BY <1>0, <1>3 DEF NewEcon, EconType, WARMUP_TURNS
<1> QED BY <1>1, <1>2, <1>3

\* What Setup makes of a slot and of its session state.
LEMMA SetupFields ==
    ASSUME NEW q \in ReqType, NEW s \in EconType, NEW e
    PROVE  LET z == [Claim(q, s) EXCEPT !.pc = "inputs", !.econ = e, !.tap = TRUE]
           IN  /\ z.claimed = ~s.staging /\ z.stage = q.stage /\ z.econ = e
               /\ [s EXCEPT !.staging = TRUE].staging
BY DEF Claim, EconType, ReqType

\* Settle keeps the type of a slot.
LEMMA SettleType == ASSUME NEW q \in ReqType PROVE Settle(q) \in ReqType
BY RecordTypes DEF Settle

\* close_window keeps the type of the session states.
LEMMA CloseType ==
    ASSUME econ \in [Econs -> EconType]
    PROVE  close_window \in [Econs -> EconType]
<1>1. CASE session \in Econs
  <2>1. [econ[session] EXCEPT !.closed = TRUE] \in EconType
    BY <1>1 DEF EconType
  <2> QED BY <1>1, <2>1 DEF close_window
<1>2. CASE session \notin Econs
  BY <1>2 DEF close_window
<1> QED BY <1>1, <1>2

\* Larger stays within the lengths.
LEMMA LargerType ==
    ASSUME NEW a \in Lengths, NEW b \in Lengths
    PROVE  Larger(a, b) \in Lengths /\ a <= Larger(a, b) /\ b <= Larger(a, b)
BY TranscriptFacts DEF Lengths, Larger

\* The keys of positions of the transcript are keys.
LEMMA KeysOfType ==
    ASSUME NEW I, I \subseteq 1 .. Len(Transcript)
    PROVE  KeysOf(I) \in SUBSET Keys
BY TranscriptFacts DEF KeysOf

\* A stashed session state keeps its type.
LEMMA StashType ==
    ASSUME NEW s \in EconType, NEW r \in Reqs, req[r] \in ReqType
    PROVE  stash_egress_snapshot(s, r) \in EconType
<1>1. Larger(s.floor, req[r].n) \in Lengths
  BY LargerType DEF EconType, ReqType
<1> QED BY <1>1 DEF stash_egress_snapshot, EconType

\* Every step keeps the types of flags, entry, session states and slots.
LEMMA TypeStep == TypeOK /\ ShapeInv /\ [Next]_vars => TypeOK'
<1> SUFFICES ASSUME TypeOK, ShapeInv, [Next]_vars PROVE TypeOK'
  OBVIOUS
<1> USE RecordTypes
<1>u. CASE UNCHANGED vars
  BY <1>u DEF TypeOK, vars
<1>c. CASE Control
  BY <1>c DEF Control, Mint, Evict, SetKill, SetShadow, TypeOK
<1>1. ASSUME NEW r \in Reqs, NEW kind \in Kinds, NEW n \in Lengths, Arrive(r, kind, n)
      PROVE  TypeOK'
  <2>1. [IdleReq EXCEPT !.pc = "read", !.kind = kind, !.n = n,
                        !.inspect = session # "absent" /\ ~kill] \in ReqType
    BY DEF ReqType, HandlerPC
  <2>2. req' \in [Reqs -> ReqType]
    BY <1>1, <2>1 DEF Arrive, inspect_for, TypeOK
  <2>3. econ' \in [Econs -> EconType]
    BY <1>1, CloseType DEF Arrive, TypeOK
  <2>4. asked' \in Lengths
    BY <1>1, LargerType DEF Arrive, TypeOK
  <2> QED BY <1>1, <2>2, <2>3, <2>4 DEF Arrive, TypeOK
<1>2. ASSUME NEW r \in Reqs, ReadFails(r) \/ Synthesize(r) \/ Abort(r)
      PROVE  TypeOK'
  <2>1. req[r].claimed => req[r].econ \in Econs
    BY DEF ShapeInv, ReqShape
  <2> QED BY <1>2, <2>1 DEF ReadFails, Synthesize, Abort, TypeOK
<1>3. ASSUME NEW r \in Reqs, Passthrough(r) \/ ShadowForward(r) \/ SetupGone(r)
      PROVE  TypeOK'
  <2>1. [req[r] EXCEPT !.pc = "raw"] \in ReqType
    BY DEF ReqType, HandlerPC, TypeOK
  <2>2. req' \in [Reqs -> ReqType]
    BY <1>3, <2>1 DEF Passthrough, ShadowForward, SetupGone, TypeOK
  <2>3. econ' \in [Econs -> EconType]
    BY <1>3, CloseType DEF Passthrough, ShadowForward, SetupGone, TypeOK
  <2> QED BY <1>3, <2>2, <2>3 DEF Passthrough, ShadowForward, SetupGone, TypeOK
<1>4. ASSUME NEW r \in Reqs, NEW e \in Econs, NEW known \in BOOLEAN, Setup(r, e, known)
      PROVE  TypeOK'
  <2> DEFINE s == IF session = e THEN econ[e] ELSE NewEcon(known)
  <2>1. s \in EconType
    BY DEF TypeOK
  <2>2. [s EXCEPT !.staging = TRUE] \in EconType
    <3> HIDE DEF s
    <3> QED BY <2>1 DEF EconType
  <2>3. [Claim(req[r], s) EXCEPT !.pc = "inputs", !.econ = e, !.tap = TRUE] \in ReqType
    <3>1. Claim(req[r], s) \in ReqType
      <4>1. (~s.staging) \in BOOLEAN
        OBVIOUS
      <4> HIDE DEF s
      <4> QED BY <4>1 DEF Claim, ReqType, TypeOK
    <3> HIDE DEF s
    <3> QED BY <3>1 DEF ReqType, HandlerPC
  <2>4. /\ econ' = [econ EXCEPT ![e] = [s EXCEPT !.staging = TRUE]]
        /\ req' = [req EXCEPT ![r] = [Claim(req[r], s) EXCEPT
                                        !.pc = "inputs", !.econ = e, !.tap = TRUE]]
        /\ session' = e
        /\ orphaned' \subseteq orphaned
        /\ UNCHANGED <<kill, shadow, seen, asked>>
    BY <1>4 DEF Setup
  <2> HIDE DEF s
  <2> QED BY <2>2, <2>3, <2>4 DEF TypeOK
<1>5. ASSUME NEW r \in Reqs, TakeInputs(r) PROVE TypeOK'
  <2> DEFINE e == req[r].econ
  <2>1. e \in Econs /\ econ[e] \in EconType /\ req[r] \in ReqType
    BY <1>5 DEF TakeInputs, ShapeInv, ReqShape, TypeOK
  <2>2. [econ[e] EXCEPT !.staged = None] \in EconType
    BY <2>1 DEF EconType
  <2>3. [staged |-> econ[e].staged, lane |-> econ[e].lane,
         floor |-> econ[e].floor, closed |-> econ[e].closed] \in Inputs
    BY <2>1 DEF EconType, Inputs
  <2>4. ASSUME NEW in \in Inputs
        PROVE  [req[r] EXCEPT !.pc = "rewrite", !.inputs = in] \in ReqType
    BY <2>1 DEF ReqType, HandlerPC
  <2>5. [req[r] EXCEPT !.pc = "stash"] \in ReqType
    BY <2>1 DEF ReqType, HandlerPC
  <2>6. econ' \in [Econs -> EconType]
    BY <1>5, <2>1, <2>2 DEF TakeInputs, TypeOK
  <2>7. req' \in [Reqs -> ReqType]
    BY <1>5, <2>1, <2>3, <2>4, <2>5 DEF TakeInputs, TypeOK
  <2> QED BY <1>5, <2>6, <2>7 DEF TakeInputs, TypeOK
<1>6. ASSUME NEW r \in Reqs, Identity(r) PROVE TypeOK'
  <2>1. [req[r] EXCEPT !.pc = "stash", !.inputs = NoInputs] \in ReqType
    BY DEF ReqType, HandlerPC, TypeOK
  <2> QED BY <1>6, <2>1 DEF Identity, TypeOK
<1>7. ASSUME NEW r \in Reqs, NEW base, Splice(r, base) PROVE TypeOK'
  <2> DEFINE in == req[r].inputs
             n == req[r].n
             e == req[r].econ
             lane == fast_lane_entries(n, in) \ base
             new == {i \in lane : Transcript[i] \notin in.lane}
             plan == in.staged # None /\ base # {}
             gone == IF plan THEN KeysOf(base) \cap in.lane ELSE {}
             left == {i \in (1 .. n) \ (base \cup lane) : Transcript[i] \in Cleanable}
  <2>1. e \in Econs /\ econ[e] \in EconType /\ req[r] \in ReqType
    BY <1>7 DEF Splice, ShapeInv, ReqShape, TypeOK
  <2>2. 1 .. n \subseteq 1 .. Len(Transcript) /\ 1 .. n \subseteq Lengths
    BY <2>1, TranscriptFacts DEF ReqType, Lengths
  <2>3. /\ lane \in SUBSET Lengths /\ new \in SUBSET Lengths /\ left \in SUBSET Lengths
        /\ new \subseteq 1 .. Len(Transcript)
    BY <2>2 DEF fast_lane_entries
  <2>4. KeysOf(new) \in SUBSET Keys
    BY <2>3, KeysOfType
  <2> HIDE DEF lane, new, plan, gone, left
  <2>5. [econ[e] EXCEPT !.pred = @ \/ plan, !.lane = (@ \cup KeysOf(new)) \ gone] \in EconType
    <3>1. (econ[e].pred \/ plan) \in BOOLEAN
      OBVIOUS
    <3>2. (econ[e].lane \cup KeysOf(new)) \ gone \in SUBSET Keys
      BY <2>1, <2>4 DEF EconType
    <3>3. ASSUME NEW s \in EconType, NEW b \in BOOLEAN, NEW l \in SUBSET Keys
          PROVE  [s EXCEPT !.pred = b, !.lane = l] \in EconType
      BY ONLY <3>3, Zenon DEF EconType
    <3> QED BY ONLY <2>1, <3>1, <3>2, <3>3, Zenon
  <2>6. [req[r] EXCEPT !.pc = "stash", !.inputs = NoInputs, !.fresh = new,
                       !.lane_in = lane, !.out_left = left] \in ReqType
    BY <2>1, <2>3 DEF ReqType, HandlerPC
  <2>7. /\ econ' = [econ EXCEPT ![e].pred = @ \/ plan,
                                ![e].lane = (@ \cup KeysOf(new)) \ gone]
        /\ req' = [req EXCEPT ![r].pc = "stash", ![r].inputs = NoInputs,
                              ![r].fresh = new, ![r].lane_in = lane,
                              ![r].out_left = left]
        /\ UNCHANGED <<kill, shadow, session, seen, asked, orphaned>>
    BY <1>7 DEF Splice, lane, new, plan, gone, left
  <2>8. econ' \in [Econs -> EconType]
    BY <2>1, <2>5, <2>7 DEF TypeOK
  <2>9. req' \in [Reqs -> ReqType]
    BY <2>1, <2>6, <2>7 DEF TypeOK
  <2> QED BY <2>7, <2>8, <2>9 DEF TypeOK
<1>8. ASSUME NEW r \in Reqs, Stash(r) PROVE TypeOK'
  <2>1. req[r].econ \in Econs /\ req[r] \in ReqType
    BY <1>8 DEF Stash, ShapeInv, ReqShape, TypeOK
  <2>2. [req[r] EXCEPT !.pc = "send"] \in ReqType
    BY <2>1 DEF ReqType, HandlerPC
  <2>3. stash_egress_snapshot(econ[req[r].econ], r) \in EconType
    BY <2>1, StashType DEF TypeOK
  <2> QED BY <1>8, <2>1, <2>2, <2>3 DEF Stash, TypeOK
<1>9. ASSUME NEW r \in Reqs, Send(r) PROVE TypeOK'
  <2>1. req[r] \in ReqType
    BY DEF TypeOK
  <2>2. [req[r] EXCEPT !.pc = "sent", !.fresh = {}, !.lane_in = {}, !.out_left = {}]
            \in ReqType
    BY <2>1 DEF ReqType, HandlerPC
  <2>3. seen' \in Lengths
    BY <1>9, <2>1, LargerType DEF Send, TypeOK, ReqType
  <2>4. ASSUME NEW e \in Econs
        PROVE  [econ[e] EXCEPT !.left = @ \cup req[r].out_left] \in EconType
    BY <2>1 DEF EconType, ReqType, TypeOK
  <2>5. econ' \in [Econs -> EconType]
    BY <1>9, <2>4 DEF Send, TypeOK
  <2> QED BY <1>9, <2>2, <2>3, <2>5 DEF Send, TypeOK
<1>10. ASSUME NEW r \in Reqs, NEW ok \in BOOLEAN, Respond(r, ok) PROVE TypeOK'
  <2> DEFINE q == [req[r] EXCEPT
                    !.pc = "idle", !.claimed = FALSE, !.fresh = {},
                    !.lane_in = {}, !.out_left = {}, !.tap = req[r].tap /\ ok,
                    !.stage = IF req[r].claimed THEN "spawned" ELSE "none"]
  <2>1. q \in ReqType
    <3>1. (req[r].tap /\ ok) \in BOOLEAN
      OBVIOUS
    <3>2. req[r] \in ReqType
      BY DEF TypeOK
    <3>3. "idle" \in HandlerPC /\ FALSE \in BOOLEAN /\ {} \in SUBSET Lengths
          /\ (IF req[r].claimed THEN "spawned" ELSE "none") \in StagePC
      BY DEF HandlerPC, StagePC
    <3>4. ASSUME NEW s \in ReqType, NEW pc \in HandlerPC, NEW c \in BOOLEAN,
                 NEW b \in BOOLEAN, NEW none \in SUBSET Lengths, NEW st \in StagePC
          PROVE  [s EXCEPT !.pc = pc, !.claimed = c, !.fresh = none, !.lane_in = none,
                           !.out_left = none, !.tap = b, !.stage = st] \in ReqType
      BY ONLY <3>4, Zenon DEF ReqType
    <3> QED BY ONLY <3>1, <3>2, <3>3, <3>4, Zenon
  <2>2. /\ req' = [req EXCEPT ![r] = Settle(q)]
        /\ UNCHANGED <<kill, shadow, session, econ, seen, asked, orphaned>>
    BY <1>10 DEF Respond
  <2>3. Settle(q) \in ReqType
    BY <2>1, SettleType
  <2> HIDE DEF q
  <2> QED BY <2>2, <2>3 DEF TypeOK
<1>11. ASSUME NEW r \in Reqs, NEW usage \in Usages, NEW cooled \in BOOLEAN,
              Observe(r, usage, cooled)
       PROVE  TypeOK'
  <2> DEFINE e == req[r].econ
             allows == BreakerAllows(econ[e], usage, cooled)
  <2>1. e \in Econs /\ econ[e] \in EconType /\ req[r] \in ReqType
    BY <1>11 DEF Observe, ShapeInv, ReqShape, TypeOK
  <2>2. allows \in BOOLEAN
    BY DEF BreakerAllows
  <2>3. calibrate(econ[e], r) \in {"own", "foreign"}
    BY <2>1 DEF calibrate, EconType
  <2>4. NextTurn(econ[e]) \in 0 .. WARMUP_TURNS
    BY <2>1 DEF EconType, WARMUP_TURNS, NextTurn
  <2> HIDE DEF allows
  <2>5. [econ[e] EXCEPT !.turn = NextTurn(econ[e]),
                        !.enabled = allows, !.scale = calibrate(econ[e], r),
                        !.est = None, !.pred = FALSE] \in EconType
    BY <2>1, <2>2, <2>3, <2>4 DEF EconType
  <2>6. Settle([req[r] EXCEPT !.tap = FALSE]) \in ReqType
    <3>1. [req[r] EXCEPT !.tap = FALSE] \in ReqType
      BY <2>1 DEF ReqType
    <3> QED BY <3>1, SettleType
  <2>7. /\ econ' = [econ EXCEPT ![e] = [econ[e] EXCEPT
                        !.turn = NextTurn(econ[e]),
                        !.enabled = allows, !.scale = calibrate(econ[e], r),
                        !.est = None, !.pred = FALSE]]
        /\ req' = [req EXCEPT ![r] = Settle([req[r] EXCEPT !.tap = FALSE])]
        /\ UNCHANGED <<kill, shadow, session, seen, asked, orphaned>>
    BY <1>11 DEF Observe, allows
  <2>8. econ' \in [Econs -> EconType]
    BY <2>1, <2>5, <2>7 DEF TypeOK
  <2> QED BY <2>6, <2>7, <2>8 DEF TypeOK
<1>12. ASSUME NEW r \in Reqs, TapEnds(r) PROVE TypeOK'
  <2>1. [req[r] EXCEPT !.tap = FALSE] \in ReqType
    BY DEF ReqType, TypeOK
  <2>2. Settle([req[r] EXCEPT !.tap = FALSE]) \in ReqType
    BY <2>1, SettleType
  <2> QED BY <1>12, <2>2 DEF TapEnds, TypeOK
<1>13. ASSUME NEW r \in Reqs, StageBegin(r) \/ StageSkip(r) PROVE TypeOK'
  <2>1. req[r] \in ReqType
    BY DEF TypeOK
  <2>2. ASSUME NEW base \in SUBSET Lengths, NEW pc \in StagePC
        PROVE  [req[r] EXCEPT !.stage = pc, !.base = base] \in ReqType
    BY ONLY <2>1, <2>2, Zenon DEF ReqType
  <2>3. CASE StageBegin(r)
    <3>1. req[r].econ \in Econs
      BY <2>3 DEF StageBegin, ShapeInv, ReqShape
    <3>2. econ[req[r].econ].working \in SUBSET Lengths
      BY <3>1 DEF TypeOK, EconType
    <3>3. [req[r] EXCEPT !.stage = "running", !.base = econ[req[r].econ].working] \in ReqType
      BY <2>2, <3>2, Zenon DEF StagePC
    <3> QED BY <2>3, <3>3 DEF StageBegin, TypeOK
  <2>4. CASE StageSkip(r)
    <3>1. [req[r] EXCEPT !.stage = "release", !.base = {}] \in ReqType
      BY <2>2, Zenon DEF StagePC
    <3> QED BY <2>4, <3>1 DEF StageSkip, TypeOK
  <2> QED BY <1>13, <2>3, <2>4
<1>14. ASSUME NEW r \in Reqs, NEW plan \in SUBSET Keys, NEW folded \in BOOLEAN,
              StageCommit(r, plan, folded)
       PROVE  TypeOK'
  <2> DEFINE e == req[r].econ
             working == req[r].base \cup (IF folded THEN {req[r].n} ELSE {})
  <2>1. e \in Econs /\ econ[e] \in EconType /\ req[r] \in ReqType
    BY <1>14 DEF StageCommit, ShapeInv, ReqShape, TypeOK
  <2>2. working \in SUBSET Lengths
    BY <2>1 DEF ReqType
  <2>3. [req[r] EXCEPT !.stage = "release", !.base = {}] \in ReqType
    BY <2>1 DEF ReqType, StagePC
  <2>4. /\ econ' = [econ EXCEPT ![e].staged = plan, ![e].working = working]
        /\ req' = [req EXCEPT ![r].stage = "release", ![r].base = {}]
        /\ UNCHANGED <<kill, shadow, session, seen, asked, orphaned>>
    BY <1>14 DEF StageCommit
  <2> HIDE DEF working
  <2>5. [econ[e] EXCEPT !.staged = plan, !.working = working] \in EconType
    BY <2>1, <2>2 DEF EconType
  <2>6. econ' \in [Econs -> EconType]
    BY <2>1, <2>4, <2>5 DEF TypeOK
  <2> QED BY <2>3, <2>4, <2>6 DEF TypeOK
<1>15. ASSUME NEW r \in Reqs, StageRelease(r) PROVE TypeOK'
  <2>1. req[r] \in ReqType /\ req[r].econ \in Econs /\ econ[req[r].econ] \in EconType
    BY <1>15 DEF StageRelease, ShapeInv, ReqShape, TypeOK
  <2>2. [econ[req[r].econ] EXCEPT !.staging = FALSE] \in EconType
    BY <2>1 DEF EconType
  <2>3. [req[r] EXCEPT !.stage = "none"] \in ReqType
    BY <2>1 DEF ReqType, StagePC
  <2>4. Settle([req[r] EXCEPT !.stage = "none"]) \in ReqType
    BY <2>3, SettleType
  <2> QED BY <1>15, <2>1, <2>2, <2>4 DEF StageRelease, TypeOK
<1> QED
  BY <1>u, <1>c, <1>1, <1>2, <1>3, <1>4, <1>5, <1>6, <1>7, <1>8, <1>9, <1>10, <1>11,
     <1>12, <1>13, <1>14, <1>15
  DEF Next, Client, Handler, Drain, Stager

(***************************************************************************)
(* The shape of the slots.                                                 *)
(***************************************************************************)

\* Every step keeps the shape of the slots.
LEMMA ShapeStep == TypeOK /\ ShapeInv /\ [Next]_vars => ShapeInv'
<1> SUFFICES ASSUME TypeOK, ShapeInv, [Next]_vars, NEW p \in Reqs
             PROVE  ReqShape(req'[p])
  BY DEF ShapeInv, ReqShape
<1> USE NoneAssumption
<1>0. ReqShape(req[p]) /\ req[p] \in ReqType
  BY DEF ShapeInv, TypeOK
<1>idle. ReqShape(IdleReq)
  BY DEF ReqShape, IdleReq
<1>same. ASSUME req'[p] = req[p] PROVE ReqShape(req'[p])
  BY <1>0, <1>same
<1>settle. ASSUME NEW q, ReqShape(q) PROVE ReqShape(Settle(q))
  BY <1>settle, <1>idle DEF Settle
<1>u. CASE UNCHANGED vars
  BY <1>u, <1>same DEF vars
<1>c. CASE Control
  BY <1>c, <1>same DEF Control, Mint, Evict, SetKill, SetShadow
<1>1. ASSUME NEW r \in Reqs, NEW kind \in Kinds, NEW n \in Lengths, Arrive(r, kind, n)
      PROVE  ReqShape(req'[p])
  BY <1>1, <1>same DEF Arrive, TypeOK, ReqShape, IdleReq
<1>2. ASSUME NEW r \in Reqs, ReadFails(r) \/ Synthesize(r) \/ Abort(r)
      PROVE  ReqShape(req'[p])
  BY <1>2, <1>same, <1>idle DEF ReadFails, Synthesize, Abort, TypeOK
<1>3. ASSUME NEW r \in Reqs, Passthrough(r) \/ ShadowForward(r) \/ SetupGone(r)
      PROVE  ReqShape(req'[p])
  BY <1>3, <1>0, <1>same
  DEF Passthrough, ShadowForward, SetupGone, TypeOK, ReqShape, ReqType
<1>4. ASSUME NEW r \in Reqs, NEW e \in Econs, NEW known \in BOOLEAN, Setup(r, e, known)
      PROVE  ReqShape(req'[p])
  BY <1>4, <1>0, <1>same DEF Setup, Claim, TypeOK, ReqShape, ReqType
<1>5. ASSUME NEW r \in Reqs, TakeInputs(r) PROVE ReqShape(req'[p])
  BY <1>5, <1>0, <1>same DEF TakeInputs, TypeOK, ReqShape, ReqType
<1>6. ASSUME NEW r \in Reqs, Identity(r) PROVE ReqShape(req'[p])
  <2>1. CASE p # r
    BY <1>6, <2>1, <1>same DEF Identity, TypeOK
  <2>2. CASE p = r
    <3>1. req'[p] = [req[p] EXCEPT !.pc = "stash", !.inputs = NoInputs] /\ req[p].pc = "rewrite"
      BY <1>6, <2>2 DEF Identity, TypeOK
    <3> DEFINE z == [req[p] EXCEPT !.pc = "stash", !.inputs = NoInputs]
    <3>2. /\ z.pc = "stash" /\ z.econ = req[p].econ /\ z.claimed = req[p].claimed
          /\ z.stage = req[p].stage /\ z.tap = req[p].tap /\ z.kind = req[p].kind
          /\ z.n = req[p].n
      BY ONLY <1>0 DEF ReqType
    <3>3. req'[p] = z
      BY ONLY <3>1, Zenon
    <3> HIDE DEF z
    <3> QED BY ONLY <1>0, <3>1, <3>2, <3>3 DEF ReqShape
  <2> QED BY <2>1, <2>2
<1>7. ASSUME NEW r \in Reqs, NEW base, Splice(r, base) PROVE ReqShape(req'[p])
  BY <1>7, <1>0, <1>same DEF Splice, TypeOK, ReqShape, ReqType
<1>8. ASSUME NEW r \in Reqs, Stash(r) PROVE ReqShape(req'[p])
  BY <1>8, <1>0, <1>same DEF Stash, TypeOK, ReqShape, ReqType
<1>9. ASSUME NEW r \in Reqs, Send(r) PROVE ReqShape(req'[p])
  BY <1>9, <1>0, <1>same DEF Send, TypeOK, ReqShape, ReqType
<1>10. ASSUME NEW r \in Reqs, NEW ok \in BOOLEAN, Respond(r, ok) PROVE ReqShape(req'[p])
  <2> DEFINE q == [req[r] EXCEPT
                    !.pc = "idle", !.claimed = FALSE, !.fresh = {},
                    !.lane_in = {}, !.out_left = {}, !.tap = req[r].tap /\ ok,
                    !.stage = IF req[r].claimed THEN "spawned" ELSE "none"]
  <2>1. CASE p = r
    <3>1. ReqShape(q)
      BY <1>0, <2>1 DEF ReqShape, ReqType
    <3>2. req'[p] = Settle(q)
      BY <1>10, <2>1 DEF Respond, TypeOK
    <3> QED BY <3>1, <3>2, <1>settle
  <2>2. CASE p # r
    BY <1>10, <2>2, <1>same DEF Respond, TypeOK
  <2> QED BY <2>1, <2>2
<1>11. ASSUME NEW r \in Reqs,
              \/ TapEnds(r)
              \/ \E usage \in Usages, cooled \in BOOLEAN : Observe(r, usage, cooled)
       PROVE  ReqShape(req'[p])
  <2>1. CASE p = r
    <3>1. ReqShape([req[r] EXCEPT !.tap = FALSE])
      BY <1>0, <2>1 DEF ReqShape, ReqType
    <3>2. req'[p] = Settle([req[r] EXCEPT !.tap = FALSE])
      BY <1>11, <2>1 DEF TapEnds, Observe, TypeOK
    <3> QED BY <3>1, <3>2, <1>settle
  <2>2. CASE p # r
    BY <1>11, <2>2, <1>same DEF TapEnds, Observe, TypeOK
  <2> QED BY <2>1, <2>2
<1>12. ASSUME NEW r \in Reqs, StageBegin(r) \/ StageSkip(r) PROVE ReqShape(req'[p])
  BY <1>12, <1>0, <1>same DEF StageBegin, StageSkip, TypeOK, ReqShape, ReqType
<1>13. ASSUME NEW r \in Reqs, NEW plan, NEW folded, StageCommit(r, plan, folded)
       PROVE  ReqShape(req'[p])
  BY <1>13, <1>0, <1>same DEF StageCommit, TypeOK, ReqShape, ReqType
<1>14. ASSUME NEW r \in Reqs, StageRelease(r) PROVE ReqShape(req'[p])
  <2>1. CASE p = r
    <3>1. ReqShape([req[r] EXCEPT !.stage = "none"])
      BY <1>0, <1>14, <2>1 DEF ReqShape, ReqType
    <3>2. req'[p] = Settle([req[r] EXCEPT !.stage = "none"])
      BY <1>14, <2>1 DEF StageRelease, TypeOK
    <3> QED BY <3>1, <3>2, <1>settle
  <2>2. CASE p # r
    BY <1>14, <2>2, <1>same DEF StageRelease, TypeOK
  <2> QED BY <2>1, <2>2
<1> QED
  BY <1>u, <1>c, <1>1, <1>2, <1>3, <1>4, <1>5, <1>6, <1>7, <1>8, <1>9, <1>10, <1>11,
     <1>12, <1>13, <1>14
  DEF Next, Client, Handler, Drain, Stager

\* The initial state has the types and the shape.
LEMMA InitShape == Init => TypeOK /\ ShapeInv
<1> SUFFICES ASSUME Init PROVE TypeOK /\ ShapeInv
  OBVIOUS
<1>1. TypeOK
  <2>1. 0 \in Lengths
    BY TranscriptFacts DEF Lengths
  <2>2. NewEcon(FALSE) \in EconType /\ IdleReq \in ReqType
    BY RecordTypes
  <2> QED BY <2>1, <2>2 DEF Init, TypeOK
<1>2. ShapeInv
  BY DEF Init, ShapeInv, ReqShape, IdleReq
<1> QED BY <1>1, <1>2

(***************************************************************************)
(* Mutual exclusion of the staging tasks.                                  *)
(*                                                                         *)
(* AtMostOneStager is not inductive: Setup grants the guard when the       *)
(* session state says it is free, so whoever holds it must have it set.    *)
(* A session state that is created again by Setup starts with the guard    *)
(* free, but Dropped says that no slot refers to it.  A guard whose claim  *)
(* died with its handler is never free again, so nobody releases it.       *)
(***************************************************************************)

\* Whoever holds the guard of its session state has it set.
HolderSet == \A r \in Reqs : Holds(r) => econ[req[r].econ].staging

\* An orphaned guard stays set, and nobody holds it.
OrphanInv == \A e \in orphaned : econ[e].staging /\ ~Owned(e)

GuardInv == AtMostOneStager /\ HolderSet /\ OrphanInv

\* A step that leaves every guard alone, and every slot's claim and session
\* state except to end a claim, keeps the exclusion.
LEMMA GuardFrame ==
    ASSUME GuardInv, ShapeInv, orphaned \subseteq Econs,
           \A e \in Econs : econ'[e].staging = econ[e].staging,
           orphaned' \subseteq orphaned,
           \A r \in Reqs : Holds(r)' => Holds(r) /\ req'[r].econ = req[r].econ
    PROVE  GuardInv'
<1>1. \A r \in Reqs : Holds(r) => req[r].econ \in Econs
  BY DEF ShapeInv, ReqShape, Holds
<1>2. AtMostOneStager' /\ HolderSet'
  BY <1>1 DEF GuardInv, AtMostOneStager, HolderSet
<1>3. OrphanInv'
  BY DEF GuardInv, OrphanInv, Owned
<1> QED BY <1>2, <1>3 DEF GuardInv

\* Every step keeps the exclusion.
LEMMA GuardStep == TypeOK /\ ShapeInv /\ GuardInv /\ [Next]_vars => GuardInv'
<1> SUFFICES ASSUME TypeOK, ShapeInv, GuardInv, [Next]_vars PROVE GuardInv'
  OBVIOUS
<1> DEFINE Kept == /\ \A e \in Econs : econ'[e].staging = econ[e].staging
                   /\ orphaned' \subseteq orphaned
           Fewer == \A r \in Reqs : Holds(r)' => Holds(r) /\ req'[r].econ = req[r].econ
<1>frame. ASSUME Kept, Fewer PROVE GuardInv'
  BY <1>frame, GuardFrame DEF TypeOK
<1>t. /\ \A e \in Econs : econ[e] \in EconType
      /\ \A r \in Reqs : req[r] \in ReqType
      /\ econ = [e \in Econs |-> econ[e]]
      /\ req = [r \in Reqs |-> req[r]]
  BY DEF TypeOK
<1>idle. ~IdleReq.claimed /\ IdleReq.stage = "none"
  BY DEF IdleReq
<1>close. \A e \in Econs : close_window[e].staging = econ[e].staging
  BY <1>t DEF close_window, EconType
<1>u. CASE UNCHANGED vars
  BY <1>u, <1>frame DEF vars, Holds
<1>c. CASE Control
  BY <1>c, <1>frame DEF Control, Mint, Evict, SetKill, SetShadow, Holds
<1>1. ASSUME NEW r \in Reqs, NEW kind \in Kinds, NEW n \in Lengths, Arrive(r, kind, n)
      PROVE  GuardInv'
  <2>1. Kept
    BY <1>1, <1>close DEF Arrive
  <2>2. Fewer
    BY <1>1, <1>t DEF Arrive, Holds, IdleReq
  <2> QED BY <1>frame, <2>1, <2>2
<1>2. ASSUME NEW r \in Reqs, ReadFails(r) \/ Synthesize(r) PROVE GuardInv'
  <2>1. Kept
    BY <1>2 DEF ReadFails, Synthesize
  <2>2. Fewer
    BY <1>2, <1>t, <1>idle DEF ReadFails, Synthesize, Holds
  <2> QED BY <1>frame, <2>1, <2>2
<1>a. ASSUME NEW r \in Reqs, Abort(r) PROVE GuardInv'
  <2>1. econ' = econ /\ ~Holds(r)' /\ \A q \in Reqs \ {r} : req'[q] = req[q]
    BY <1>a, <1>t, <1>idle DEF Abort, Holds
  <2>2. \A q \in Reqs : Holds(q)' => q # r /\ Holds(q) /\ req'[q].econ = req[q].econ
    BY <2>1 DEF Holds
  <2>3. \A e \in orphaned' : e \in orphaned \/ (Holds(r) /\ e = req[r].econ)
    BY <1>a DEF Abort, Holds
  <2>4. AtMostOneStager' /\ HolderSet'
    BY <2>1, <2>2 DEF GuardInv, AtMostOneStager, HolderSet
  <2>5. ASSUME NEW e \in orphaned' PROVE econ'[e].staging /\ ~Owned(e)'
    <3>1. CASE e \in orphaned
      BY <2>1, <2>2, <3>1 DEF GuardInv, OrphanInv, Owned
    <3>2. CASE Holds(r) /\ e = req[r].econ
      BY <2>1, <2>2, <3>2 DEF GuardInv, AtMostOneStager, HolderSet, Owned
    <3> QED BY <2>3, <3>1, <3>2
  <2> QED BY <2>4, <2>5 DEF GuardInv, OrphanInv
<1>3. ASSUME NEW r \in Reqs, Passthrough(r) \/ ShadowForward(r) \/ SetupGone(r)
      PROVE  GuardInv'
  <2>1. Kept
    BY <1>3, <1>close DEF Passthrough, ShadowForward, SetupGone
  <2>2. Fewer
    BY <1>3, <1>t DEF Passthrough, ShadowForward, SetupGone, Holds, ReqType
  <2> QED BY <1>frame, <2>1, <2>2
<1>4. ASSUME NEW r \in Reqs, NEW e \in Econs, NEW known \in BOOLEAN, Setup(r, e, known)
      PROVE  GuardInv'
  <2> DEFINE s == IF session = e THEN econ[e] ELSE NewEcon(known)
  <2>1. s \in EconType
    BY RecordTypes, <1>t
  <2>2. /\ econ'[e].staging
        /\ \A d \in Econs \ {e} : econ'[d] = econ[d]
        /\ req'[r].claimed = ~s.staging
        /\ req'[r].stage = req[r].stage
        /\ req'[r].econ = e
        /\ \A q \in Reqs \ {r} : req'[q] = req[q]
        /\ orphaned' = IF session = e THEN orphaned ELSE orphaned \ {e}
    <3> DEFINE z == [Claim(req[r], s) EXCEPT !.pc = "inputs", !.econ = e, !.tap = TRUE]
               v == [s EXCEPT !.staging = TRUE]
    <3>1. /\ econ' = [econ EXCEPT ![e] = v] /\ req' = [req EXCEPT ![r] = z]
          /\ orphaned' = IF session = e THEN orphaned ELSE orphaned \ {e}
      BY <1>4 DEF Setup
    <3>2. z.claimed = ~s.staging /\ z.stage = req[r].stage /\ z.econ = e /\ v.staging
      BY <1>t, <2>1, SetupFields
    <3> HIDE DEF z, v, s
    <3> QED BY <1>t, <3>1, <3>2
  <2>3. ~Holds(r)
    BY <1>4 DEF Setup, ShapeInv, ReqShape, Holds
  <2>4. ASSUME NEW q \in Reqs, q # r, Holds(q), req[q].econ = e
        PROVE  s.staging
    BY <1>4, <2>4 DEF GuardInv, HolderSet, Setup, Dropped
  <2>o. session = e => s = econ[e]
    OBVIOUS
  <2> HIDE DEF s
  <2>5. AtMostOneStager'
    <3>1. req[r].stage = "none"
      BY <2>3 DEF Holds
    <3>2. \A q \in Reqs \ {r} : Holds(q)' = Holds(q) /\ req'[q].econ = req[q].econ
      BY <2>2 DEF Holds
    <3>3. Holds(r)' => \A q \in Reqs \ {r} : Holds(q) => req[q].econ # e
      BY <2>2, <2>4, <3>1 DEF Holds
    <3>4. req'[r].econ = e
      BY <2>2
    <3> QED BY <3>2, <3>3, <3>4 DEF GuardInv, AtMostOneStager
  <2>6. HolderSet'
    <3>1. \A q \in Reqs : Holds(q) => req[q].econ \in Econs
      BY DEF ShapeInv, ReqShape, Holds
    <3> QED BY <2>2, <3>1 DEF GuardInv, HolderSet, Holds
  <2>7. ASSUME NEW d \in orphaned' PROVE econ'[d].staging /\ ~Owned(d)'
    <3>1. d \in orphaned /\ econ[d].staging /\ ~Owned(d) /\ d \in Econs
      BY <2>2, <2>7 DEF GuardInv, OrphanInv, TypeOK
    <3>2. \A q \in Reqs \ {r} : Holds(q)' = Holds(q) /\ req'[q].econ = req[q].econ
      BY <2>2 DEF Holds
    <3>3. CASE d # e
      BY <2>2, <3>1, <3>2, <3>3 DEF Owned
    <3>4. CASE d = e
      <4>1. s.staging
        BY <2>2, <2>7, <2>o, <3>1, <3>4
      <4>2. ~Holds(r)'
        BY <2>2, <2>3, <4>1 DEF Holds
      <4> QED BY <2>2, <3>1, <3>2, <3>4, <4>2 DEF Owned
    <3> QED BY <3>3, <3>4
  <2> QED BY <2>5, <2>6, <2>7 DEF GuardInv, OrphanInv
<1>5. ASSUME NEW r \in Reqs, TakeInputs(r) PROVE GuardInv'
  <2>1. Kept
    <3>1. \/ econ' = [econ EXCEPT ![req[r].econ].staged = None]
          \/ econ' = econ
      BY <1>5 DEF TakeInputs
    <3>2. /\ \A s \in EconType : [s EXCEPT !.staged = None].staging = s.staging
          /\ orphaned' = orphaned
      BY <1>5 DEF EconType, TakeInputs
    <3>3. CASE econ' = [econ EXCEPT ![req[r].econ].staged = None]
      BY <3>2, <3>3, <1>t
    <3>4. CASE econ' = econ
      BY <3>2, <3>4
    <3> QED BY <3>1, <3>3, <3>4
  <2>2. Fewer
    BY <1>5, <1>t DEF TakeInputs, Holds, ReqType
  <2> QED BY <1>frame, <2>1, <2>2
<1>6. ASSUME NEW r \in Reqs, Identity(r) PROVE GuardInv'
  BY <1>6, <1>t, <1>frame DEF Identity, Holds, ReqType
<1>7. ASSUME NEW r \in Reqs, NEW base, Splice(r, base) PROVE GuardInv'
  <2>1. Kept
    BY <1>7, <1>t DEF Splice, EconType
  <2>2. Fewer
    BY <1>7, <1>t DEF Splice, Holds, ReqType
  <2> QED BY <1>frame, <2>1, <2>2
<1>8. ASSUME NEW r \in Reqs, Stash(r) PROVE GuardInv'
  <2>1. Kept
    BY <1>8, <1>t DEF Stash, stash_egress_snapshot, EconType
  <2>2. Fewer
    BY <1>8, <1>t DEF Stash, Holds, ReqType
  <2> QED BY <1>frame, <2>1, <2>2
<1>9. ASSUME NEW r \in Reqs, Send(r) PROVE GuardInv'
  <2>1. Kept
    BY <1>9, <1>t DEF Send, EconType
  <2>2. Fewer
    BY <1>9, <1>t DEF Send, Holds, ReqType
  <2> QED BY <1>frame, <2>1, <2>2
<1>10. ASSUME NEW r \in Reqs, NEW ok \in BOOLEAN, Respond(r, ok) PROVE GuardInv'
  <2> DEFINE q == [req[r] EXCEPT
                    !.pc = "idle", !.claimed = FALSE, !.fresh = {},
                    !.lane_in = {}, !.out_left = {}, !.tap = req[r].tap /\ ok,
                    !.stage = IF req[r].claimed THEN "spawned" ELSE "none"]
  <2>1. q.stage # "none" => req[r].claimed
    BY <1>t DEF ReqType
  <2>2. ~q.claimed /\ q.econ = req[r].econ
    BY <1>t DEF ReqType
  <2>3. /\ req' = [req EXCEPT ![r] = Settle(q)]
        /\ econ' = econ /\ orphaned' = orphaned
    BY <1>10 DEF Respond
  <2> HIDE DEF q
  <2>4. Fewer
    BY <2>1, <2>2, <2>3, <1>t, <1>idle DEF Holds, Settle
  <2> QED BY <1>frame, <2>3, <2>4
<1>11. ASSUME NEW r \in Reqs,
              \/ TapEnds(r)
              \/ \E usage \in Usages, cooled \in BOOLEAN : Observe(r, usage, cooled)
       PROVE  GuardInv'
  <2>1. Kept
    <3>1. CASE TapEnds(r)
      BY <3>1 DEF TapEnds
    <3>2. ASSUME NEW usage \in Usages, NEW cooled \in BOOLEAN, Observe(r, usage, cooled)
          PROVE  Kept
      <4>1. /\ \A d \in Econs : d # req[r].econ => econ'[d] = econ[d]
            /\ req[r].econ \in Econs =>
                 econ'[req[r].econ].staging = econ[req[r].econ].staging
            /\ orphaned' = orphaned
        BY <3>2, <1>t DEF Observe, EconType
      <4> QED BY <4>1
    <3> QED BY <1>11, <3>1, <3>2
  <2> DEFINE q == [req[r] EXCEPT !.tap = FALSE]
  <2>2. req' = [req EXCEPT ![r] = Settle(q)]
    BY <1>11 DEF TapEnds, Observe
  <2>3. q.claimed = req[r].claimed /\ q.stage = req[r].stage /\ q.econ = req[r].econ
    BY <1>t DEF ReqType
  <2> HIDE DEF q
  <2>4. Fewer
    BY <2>2, <2>3, <1>t, <1>idle DEF Holds, Settle
  <2> QED BY <1>frame, <2>1, <2>4
<1>12. ASSUME NEW r \in Reqs, StageBegin(r) \/ StageSkip(r) PROVE GuardInv'
  BY <1>12, <1>t, <1>frame DEF StageBegin, StageSkip, Holds, ReqType
<1>13. ASSUME NEW r \in Reqs, NEW plan, NEW folded, StageCommit(r, plan, folded)
       PROVE  GuardInv'
  <2>1. Kept
    BY <1>13, <1>t DEF StageCommit, EconType
  <2>2. Fewer
    BY <1>13, <1>t DEF StageCommit, Holds, ReqType
  <2> QED BY <1>frame, <2>1, <2>2
<1>14. ASSUME NEW r \in Reqs, StageRelease(r) PROVE GuardInv'
  <2>1. Fewer /\ ~Holds(r)'
    <3>1. ~req[r].claimed
      BY <1>14 DEF StageRelease, ShapeInv, ReqShape
    <3> QED BY <1>14, <1>t, <1>idle, <3>1 DEF StageRelease, Holds, Settle, ReqType
  <2>2. \A d \in Econs : d # req[r].econ => econ'[d].staging = econ[d].staging
    BY <1>14, <1>t DEF StageRelease
  <2>3. Holds(r)
    BY <1>14 DEF StageRelease, Holds
  <2>4. \A q \in Reqs : Holds(q) => req[q].econ \in Econs
    BY DEF ShapeInv, ReqShape, Holds
  <2>5. \A q \in Reqs : q # r /\ Holds(q)' => req[q].econ # req[r].econ
    BY <2>1, <2>3 DEF GuardInv, AtMostOneStager
  <2>6. AtMostOneStager'
    BY <2>1 DEF GuardInv, AtMostOneStager
  <2>7. HolderSet'
    BY <2>1, <2>2, <2>4, <2>5 DEF GuardInv, HolderSet
  <2>8. ASSUME NEW d \in orphaned' PROVE econ'[d].staging /\ ~Owned(d)'
    <3>1. d \in orphaned /\ econ[d].staging /\ ~Owned(d) /\ d \in Econs
      BY <1>14, <2>8 DEF StageRelease, GuardInv, OrphanInv, TypeOK
    <3>2. d # req[r].econ
      BY <2>3, <3>1 DEF Owned
    <3> QED BY <2>1, <2>2, <3>1, <3>2 DEF Owned
  <2> QED BY <2>6, <2>7, <2>8 DEF GuardInv, OrphanInv
<1> QED
  BY <1>u, <1>c, <1>1, <1>2, <1>a, <1>3, <1>4, <1>5, <1>6, <1>7, <1>8, <1>9, <1>10, <1>11,
     <1>12, <1>13, <1>14
  DEF Next, Client, Handler, Drain, Stager

(***************************************************************************)
(* The working state and the floor.                                        *)
(*                                                                         *)
(* Both facts say that what a slot knows of its session state stays true:  *)
(* a running staging task's clone is the working state, and the floor      *)
(* covers a body that has left.  Only the holder of the guard writes the   *)
(* working state, and the floor never falls.                               *)
(***************************************************************************)

\* The clone a running staging task folds is still the working state.
CloneCurrent ==
    \A r \in Reqs : req[r].stage = "running" => req[r].base = econ[req[r].econ].working

\* A session state is kept when its working state is and its floor has not fallen.
EconKept(e) == econ'[e].working = econ[e].working /\ econ'[e].floor >= econ[e].floor

\* What may happen to the session states, step by step: only a commit grows
\* a working state, only a mint of a dropped identity resets one.
LEMMA EconStep ==
    ASSUME TypeOK, ShapeInv, NEW r \in Reqs,
           Client(r) \/ Handler(r) \/ Drain(r) \/ Stager(r), NEW e \in Econs
    PROVE  \/ EconKept(e)
           \/ Dropped(e)
           \/ \E plan, folded : StageCommit(r, plan, folded) /\ req[r].econ = e
<1> USE DEF EconKept
<1>t. /\ econ[e] \in EconType
      /\ econ = [d \in Econs |-> econ[d]]
      /\ req[r] \in ReqType
  BY DEF TypeOK
<1>f. econ[e].floor \in Nat /\ econ[e].floor >= econ[e].floor
  BY <1>t, TranscriptFacts DEF EconType, Lengths
<1>same. ASSUME econ'[e] = econ[e] PROVE EconKept(e)
  BY <1>same, <1>f
<1>close. close_window[e].working = econ[e].working /\ close_window[e].floor = econ[e].floor
  BY <1>t DEF close_window, EconType
<1>1. CASE \E kind \in Kinds, n \in Lengths : Arrive(r, kind, n)
  BY <1>1, <1>f, <1>close, <1>same DEF Arrive
<1>2. CASE ReadFails(r) \/ Synthesize(r) \/ Abort(r) \/ Identity(r) \/ TapEnds(r)
           \/ StageBegin(r) \/ StageSkip(r) \/ \E ok \in BOOLEAN : Respond(r, ok)
  BY <1>2, <1>same
  DEF ReadFails, Synthesize, Abort, Identity, TapEnds, StageBegin, StageSkip, Respond
<1>3. CASE Passthrough(r) \/ ShadowForward(r) \/ SetupGone(r)
  BY <1>3, <1>f, <1>close, <1>same DEF Passthrough, ShadowForward, SetupGone
<1>4. CASE \E d \in Econs, known \in BOOLEAN : Setup(r, d, known)
  <2>1. PICK d \in Econs, known \in BOOLEAN : Setup(r, d, known)
    BY <1>4
  <2>2. CASE d # e
    BY <2>1, <2>2, <1>t, <1>same DEF Setup
  <2>3. CASE d = e /\ session = e
    <3>1. econ'[e] = [econ[e] EXCEPT !.staging = TRUE]
      BY <2>1, <2>3, <1>t DEF Setup
    <3> QED BY <3>1, <1>t, <1>f DEF EconType
  <2>4. CASE d = e /\ session # e
    BY <2>1, <2>4 DEF Setup
  <2> QED BY <2>2, <2>3, <2>4
<1>5. CASE TakeInputs(r)
  <2>1. \/ econ' = [econ EXCEPT ![req[r].econ].staged = None]
        \/ econ' = econ
    BY <1>5 DEF TakeInputs
  <2>2. [econ[e] EXCEPT !.staged = None].working = econ[e].working
        /\ [econ[e] EXCEPT !.staged = None].floor = econ[e].floor
    BY <1>t DEF EconType
  <2>3. CASE econ' = [econ EXCEPT ![req[r].econ].staged = None]
    BY <2>2, <2>3, <1>t, <1>f
  <2>4. CASE econ' = econ
    BY <2>4, <1>same
  <2> QED BY <2>1, <2>3, <2>4
<1>6. CASE \E base \in BaseRenders(req[r].n, req[r].inputs) : Splice(r, base)
  <2>1. PICK base : Splice(r, base)
    BY <1>6
  <2>2. econ'[e].working = econ[e].working /\ econ'[e].floor = econ[e].floor
    BY <2>1, <1>t DEF Splice, EconType
  <2> QED BY <2>2, <1>f
<1>7. CASE Stash(r)
  <2>1. CASE req[r].econ # e
    BY <1>7, <2>1, <1>t, <1>same DEF Stash
  <2>2. CASE req[r].econ = e
    <3>1. econ'[e] = stash_egress_snapshot(econ[e], r)
      BY <1>7, <2>2, <1>t DEF Stash
    <3>2. Larger(econ[e].floor, req[r].n) >= econ[e].floor
      BY <1>t, <1>f, LargerType DEF EconType, ReqType
    <3> QED BY <3>1, <3>2, <1>f, <1>t DEF stash_egress_snapshot, EconType
  <2> QED BY <2>1, <2>2
<1>8. CASE Send(r)
  <2>1. econ'[e].working = econ[e].working /\ econ'[e].floor = econ[e].floor
    BY <1>8, <1>t DEF Send, EconType
  <2> QED BY <2>1, <1>f
<1>9. CASE \E usage \in Usages, cooled \in BOOLEAN : Observe(r, usage, cooled)
  <2>1. PICK usage \in Usages, cooled \in BOOLEAN : Observe(r, usage, cooled)
    BY <1>9
  <2>2. econ'[e].working = econ[e].working /\ econ'[e].floor = econ[e].floor
    <3>1. CASE req[r].econ # e
      BY <2>1, <3>1, <1>t DEF Observe
    <3>2. CASE req[r].econ = e
      <4>1. \E turn, enabled, scale :
               econ'[e] = [econ[e] EXCEPT !.turn = turn, !.enabled = enabled,
                              !.scale = scale, !.est = None, !.pred = FALSE]
        BY <2>1, <3>2, <1>t, Zenon DEF Observe
      <4>2. ASSUME NEW turn, NEW enabled, NEW scale
            PROVE  LET z == [econ[e] EXCEPT !.turn = turn, !.enabled = enabled,
                               !.scale = scale, !.est = None, !.pred = FALSE]
                   IN  z.working = econ[e].working /\ z.floor = econ[e].floor
        BY <1>t DEF EconType
      <4> QED BY <4>1, <4>2
    <3> QED BY <3>1, <3>2
  <2> QED BY <2>2, <1>f
<1>10. CASE \E plan \in SUBSET Keys, folded \in BOOLEAN : StageCommit(r, plan, folded)
  BY <1>10, <1>t, <1>same DEF StageCommit
<1>11. CASE StageRelease(r)
  <2>1. econ'[e].working = econ[e].working /\ econ'[e].floor = econ[e].floor
    BY <1>11, <1>t DEF StageRelease, EconType
  <2> QED BY <2>1, <1>f
<1> QED
  BY <1>1, <1>2, <1>3, <1>4, <1>5, <1>6, <1>7, <1>8, <1>9, <1>10, <1>11
  DEF Client, Handler, Drain, Stager

\* A slot starts to run, or to send, only on a state that supports it.
LEMMA SlotStep ==
    ASSUME TypeOK, ShapeInv, FloorCoversEgress, CloneCurrent, NEW r \in Reqs,
           Client(r) \/ Handler(r) \/ Drain(r) \/ Stager(r)
    PROVE  /\ req'[r].stage = "running" =>
                 req'[r].econ \in Econs /\ req'[r].base = econ'[req'[r].econ].working
           /\ req'[r].pc \in {"send", "sent"} /\ req'[r].econ # None =>
                 req'[r].econ \in Econs /\ req'[r].n <= econ'[req'[r].econ].floor
<1> DEFINE Runs == req'[r].stage = "running" =>
                     req'[r].econ \in Econs /\ req'[r].base = econ'[req'[r].econ].working
           Covered == req'[r].pc \in {"send", "sent"} /\ req'[r].econ # None =>
                     req'[r].econ \in Econs /\ req'[r].n <= econ'[req'[r].econ].floor
<1> SUFFICES Runs /\ Covered
  OBVIOUS
<1>t. /\ req[r] \in ReqType
      /\ req = [q \in Reqs |-> req[q]]
      /\ ReqShape(req[r])
      /\ \A e \in Econs : econ[e] \in EconType
      /\ econ = [e \in Econs |-> econ[e]]
  BY DEF TypeOK, ShapeInv
<1>idle. IdleReq.pc = "idle" /\ IdleReq.stage = "none"
  BY DEF IdleReq
<1>stage. req[r].pc # "idle" => req[r].stage = "none"
  BY <1>t DEF ReqShape, ReqType
<1>else. ASSUME req'[r].stage # "running", req'[r].pc \notin {"send", "sent"}
         PROVE  Runs /\ Covered
  BY <1>else
<1>1. CASE \E kind \in Kinds, n \in Lengths : Arrive(r, kind, n)
  <2>1. PICK kind \in Kinds, n \in Lengths : Arrive(r, kind, n)
    BY <1>1
  <2>2. req'[r] = [IdleReq EXCEPT !.pc = "read", !.kind = kind, !.n = n,
                                  !.inspect = session # "absent" /\ ~kill]
    BY <2>1, <1>t DEF Arrive, inspect_for
  <2>3. req'[r].pc = "read" /\ req'[r].stage = "none"
    BY <2>2 DEF IdleReq
  <2> QED BY <2>3, <1>else
<1>2. CASE ReadFails(r) \/ Synthesize(r) \/ Abort(r)
  BY <1>2, <1>t, <1>idle, <1>else DEF ReadFails, Synthesize, Abort
<1>3. CASE Passthrough(r) \/ ShadowForward(r) \/ SetupGone(r)
  BY <1>3, <1>t, <1>stage, <1>else DEF Passthrough, ShadowForward, SetupGone, ReqType
<1>4. CASE \E e \in Econs, known \in BOOLEAN : Setup(r, e, known)
  <2>1. PICK e \in Econs, known \in BOOLEAN : Setup(r, e, known)
    BY <1>4
  <2>2. req'[r].pc = "inputs" /\ req'[r].stage = req[r].stage
    BY <2>1, <1>t DEF Setup, Claim, ReqType
  <2>3. req[r].stage = "none"
    BY <2>1, <1>stage DEF Setup
  <2> QED BY <2>2, <2>3, <1>else
<1>5. CASE TakeInputs(r)
  <2>1. req'[r].pc \in {"rewrite", "stash"} /\ req'[r].stage = req[r].stage
    BY <1>5, <1>t DEF TakeInputs, ReqType
  <2> QED BY <1>5, <2>1, <1>stage, <1>else DEF TakeInputs
<1>6. CASE Identity(r)
  <2>1. /\ req'[r] = [req[r] EXCEPT !.pc = "stash", !.inputs = NoInputs]
        /\ req[r].stage = "none"
    BY <1>6, <1>t, <1>stage DEF Identity
  <2>2. req'[r].pc = "stash" /\ req'[r].stage = "none"
    <3>1. ASSUME NEW s \in ReqType
          PROVE  LET z == [s EXCEPT !.pc = "stash", !.inputs = NoInputs]
                 IN  z.pc = "stash" /\ z.stage = s.stage
      BY ONLY <3>1 DEF ReqType
    <3>2. req[r] \in ReqType
      BY <1>t
    <3> QED BY ONLY <2>1, <3>1, <3>2
  <2> QED BY <2>2, <1>else
<1>7. CASE \E base \in BaseRenders(req[r].n, req[r].inputs) : Splice(r, base)
  <2>1. PICK base : Splice(r, base)
    BY <1>7
  <2>2. req'[r].pc = "stash" /\ req'[r].stage = req[r].stage
    BY <2>1, <1>t DEF Splice, ReqType
  <2>3. req[r].stage = "none"
    BY <2>1, <1>stage DEF Splice
  <2> QED BY <2>2, <2>3, <1>else
<1>8. CASE Stash(r)
  <2> DEFINE e == req[r].econ
  <2>1. e \in Econs
    BY <1>8, <1>t DEF Stash, ReqShape
  <2>2. econ'[e] = stash_egress_snapshot(econ[e], r)
    BY <1>8, <2>1, <1>t DEF Stash
  <2>3. req'[r].econ = e /\ req'[r].n = req[r].n /\ req'[r].stage = "none"
    BY <1>8, <1>t, <1>stage DEF Stash, ReqType
  <2>4. req[r].n <= Larger(econ[e].floor, req[r].n)
    BY <2>1, <1>t, LargerType DEF EconType, ReqType
  <2>5. req[r].kind = "bad" => req[r].n <= econ[e].floor
    BY <2>1, <1>t, TranscriptFacts DEF ReqShape, EconType, Lengths
  <2>6. req[r].n <= econ'[e].floor
    BY <2>1, <2>2, <2>4, <2>5, <1>t DEF stash_egress_snapshot, EconType
  <2> QED BY <2>1, <2>3, <2>6
<1>9. CASE Send(r)
  <2> DEFINE e == req[r].econ
  <2>1. req'[r].econ = e /\ req'[r].n = req[r].n /\ req'[r].stage = "none"
    BY <1>9, <1>t, <1>stage DEF Send, ReqType
  <2>2. CASE req[r].pc = "raw"
    BY <2>1, <2>2, <1>t DEF ReqShape
  <2>3. CASE req[r].pc = "send"
    <3>1. e \in Econs /\ e # None
      BY <2>3, <1>t, NoneAssumption DEF ReqShape
    <3>2. econ'[e].floor = econ[e].floor
      BY <1>9, <3>1, <1>t DEF Send, EconType
    <3>3. req[r].n <= econ[e].floor
      BY <2>3, <3>1 DEF FloorCoversEgress
    <3> QED BY <2>1, <3>1, <3>2, <3>3
  <2> QED BY <1>9, <2>2, <2>3 DEF Send
<1>10. CASE \E ok \in BOOLEAN : Respond(r, ok)
  <2>1. PICK ok \in BOOLEAN : Respond(r, ok)
    BY <1>10
  <2> DEFINE q == [req[r] EXCEPT
                    !.pc = "idle", !.claimed = FALSE, !.fresh = {},
                    !.lane_in = {}, !.out_left = {}, !.tap = req[r].tap /\ ok,
                    !.stage = IF req[r].claimed THEN "spawned" ELSE "none"]
  <2>2. q.pc = "idle" /\ q.stage # "running"
    BY <1>t DEF ReqType
  <2>3. req'[r] = Settle(q)
    BY <2>1, <1>t DEF Respond
  <2> HIDE DEF q
  <2> QED BY <2>2, <2>3, <1>idle, <1>else DEF Settle
<1>11. CASE Drain(r)
  <2> DEFINE q == [req[r] EXCEPT !.tap = FALSE]
  <2>1. /\ req'[r] = Settle(q)
        /\ req[r].pc = "idle"
    BY <1>11, <1>t DEF Drain, Observe, TapEnds
  <2>2. /\ q.pc = "idle" /\ q.stage = req[r].stage
        /\ q.econ = req[r].econ /\ q.base = req[r].base
    BY <2>1, <1>t DEF ReqType
  <2> HIDE DEF q
  <2>3. Covered
    BY <2>1, <2>2, <1>idle DEF Settle
  <2>4. ASSUME req'[r].stage = "running"
        PROVE  req'[r].econ \in Econs /\ req'[r].base = econ'[req'[r].econ].working
    <3>1. /\ req[r].stage = "running" /\ req'[r].econ = req[r].econ
          /\ req'[r].base = req[r].base
      BY <2>1, <2>2, <2>4, <1>idle DEF Settle
    <3>2. req[r].econ \in Econs
      BY <3>1, <1>t DEF ReqShape
    <3>3. req[r].base = econ[req[r].econ].working
      BY <3>1 DEF CloneCurrent
    <3>4. econ'[req[r].econ].working = econ[req[r].econ].working
      <4>1. CASE TapEnds(r)
        BY <4>1 DEF TapEnds
      <4>2. CASE \E usage \in Usages, cooled \in BOOLEAN : Observe(r, usage, cooled)
        BY <4>2, <3>2, <1>t DEF Observe, EconType
      <4> QED BY <1>11, <4>1, <4>2 DEF Drain
    <3> QED BY <3>1, <3>2, <3>3, <3>4
  <2> QED BY <2>3, <2>4
<1>12. CASE StageBegin(r)
  <2>1. req[r].econ \in Econs /\ req[r].pc = "idle"
    BY <1>12, <1>t DEF StageBegin, ReqShape
  <2>2. /\ req'[r].econ = req[r].econ /\ req'[r].pc = "idle" /\ econ' = econ
        /\ req'[r].base = econ[req[r].econ].working
    BY <1>12, <2>1, <1>t DEF StageBegin, ReqType
  <2> QED BY <2>1, <2>2
<1>13. CASE StageSkip(r) \/ \E plan, folded : StageCommit(r, plan, folded)
  <2>1. req[r].pc = "idle"
    BY <1>13, <1>t DEF StageSkip, StageCommit, ReqShape
  <2>2. req'[r] = [req[r] EXCEPT !.stage = "release", !.base = {}]
    BY <1>13, <1>t DEF StageSkip, StageCommit
  <2>3. req'[r].pc = "idle" /\ req'[r].stage = "release"
    BY <2>1, <2>2, <1>t DEF ReqType
  <2> QED BY <2>3, <1>else
<1>14. CASE StageRelease(r)
  <2> DEFINE q == [req[r] EXCEPT !.stage = "none"]
  <2>1. req[r].pc = "idle" /\ req'[r] = Settle(q)
    BY <1>14, <1>t DEF StageRelease, ReqShape
  <2>2. q.pc = "idle" /\ q.stage = "none"
    BY <2>1, <1>t DEF ReqType
  <2> HIDE DEF q
  <2> QED BY <2>1, <2>2, <1>idle, <1>else DEF Settle
<1> QED
  BY <1>1, <1>2, <1>3, <1>4, <1>5, <1>6, <1>7, <1>8, <1>9, <1>10, <1>11, <1>12, <1>13, <1>14
  DEF Client, Handler, Stager

\* Every step keeps both facts.
LEMMA KnowledgeStep ==
    TypeOK /\ ShapeInv /\ GuardInv /\ CloneCurrent /\ FloorCoversEgress /\ [Next]_vars
        => (CloneCurrent /\ FloorCoversEgress)'
<1> SUFFICES ASSUME TypeOK, ShapeInv, GuardInv, CloneCurrent, FloorCoversEgress, [Next]_vars
             PROVE  (CloneCurrent /\ FloorCoversEgress)'
  OBVIOUS
<1>1. CASE UNCHANGED vars
  BY <1>1 DEF vars, CloneCurrent, FloorCoversEgress
<1>2. CASE Control
  BY <1>2 DEF Control, Mint, Evict, SetKill, SetShadow, CloneCurrent, FloorCoversEgress
<1>3. ASSUME NEW r \in Reqs, Client(r) \/ Handler(r) \/ Drain(r) \/ Stager(r),
             NEW p \in Reqs
      PROVE  /\ req'[p].stage = "running" => req'[p].base = econ'[req'[p].econ].working
             /\ req'[p].pc \in {"send", "sent"} /\ req'[p].econ # None
                  => req'[p].n <= econ'[req'[p].econ].floor
  <2>1. CASE p = r
    <3>1. /\ req'[r].stage = "running" => req'[r].base = econ'[req'[r].econ].working
          /\ req'[r].pc \in {"send", "sent"} /\ req'[r].econ # None
                => req'[r].n <= econ'[req'[r].econ].floor
      BY <1>3, SlotStep
    <3> QED BY ONLY <2>1, <3>1, Zenon
  <2>2. CASE p # r
    <3> DEFINE e == req[p].econ
    <3>1. req'[p] = req[p]
      BY <1>3, <2>2
      DEF TypeOK, Client, Handler, Drain, Stager, Arrive, Abort, ReadFails, Passthrough,
          ShadowForward, Synthesize, SetupGone, Setup, TakeInputs, Identity, Splice, Stash,
          Send, Respond, Observe, TapEnds, StageBegin, StageSkip, StageCommit, StageRelease
    <3>2. CASE e \notin Econs
      BY <3>1, <3>2 DEF ShapeInv, ReqShape, TypeOK, ReqType
    <3>3. CASE e \in Econs
      <4>1. ~Dropped(e)
        BY DEF Dropped
      <4>2. CASE EconKept(e)
        <5>1. econ'[e].floor >= econ[e].floor /\ econ'[e].working = econ[e].working
          BY <4>2 DEF EconKept
        <5>2. econ[e].floor \in Nat /\ econ'[e].floor \in Nat /\ req[p].n \in Nat
          <6>1. TypeOK'
            BY TypeStep
          <6> QED BY <3>3, <6>1, TranscriptFacts DEF TypeOK, EconType, ReqType, Lengths
        <5> QED BY <3>1, <5>1, <5>2 DEF CloneCurrent, FloorCoversEgress
      <4>3. ASSUME NEW plan, NEW folded, StageCommit(r, plan, folded), req[r].econ = e
            PROVE  /\ req[p].stage # "running"
                   /\ econ'[e].floor = econ[e].floor
        <5>1. Holds(r)
          BY <4>3 DEF StageCommit, Holds
        <5>2. ~Holds(p)
          BY <2>2, <4>3, <5>1 DEF GuardInv, AtMostOneStager
        <5>3. econ'[e].floor = econ[e].floor
          BY <3>3, <4>3 DEF StageCommit, TypeOK, EconType
        <5> QED BY <5>2, <5>3 DEF Holds
      <4>4. CASE \E plan, folded : StageCommit(r, plan, folded) /\ req[r].econ = e
        BY <3>1, <4>3, <4>4 DEF FloorCoversEgress
      <4>5. \/ EconKept(e) \/ Dropped(e)
            \/ \E plan, folded : StageCommit(r, plan, folded) /\ req[r].econ = e
        BY <1>3, <3>3, EconStep
      <4> QED BY <4>1, <4>2, <4>4, <4>5
    <3> QED BY ONLY <3>2, <3>3, Zenon
  <2> QED BY <2>1, <2>2
<1>4. ASSUME NEW r \in Reqs, Client(r) \/ Handler(r) \/ Drain(r) \/ Stager(r)
      PROVE  (CloneCurrent /\ FloorCoversEgress)'
  BY <1>3, <1>4 DEF CloneCurrent, FloorCoversEgress
<1> QED BY <1>1, <1>2, <1>4 DEF Next

\* The inductive invariant of the module.
Inv == TypeOK /\ ShapeInv /\ GuardInv /\ CloneCurrent /\ FloorCoversEgress

\* The invariant holds in every reachable state.
LEMMA Invariance == Spec => []Inv
<1>1. Init => GuardInv /\ CloneCurrent /\ FloorCoversEgress
  <2>1. Init => \A r \in Reqs : ~Holds(r) /\ req[r].stage = "none" /\ req[r].pc = "idle"
    BY DEF Init, Holds, IdleReq
  <2>2. Init => orphaned = {}
    BY DEF Init
  <2> QED
    BY <2>1, <2>2
    DEF GuardInv, AtMostOneStager, HolderSet, OrphanInv, CloneCurrent, FloorCoversEgress
<1> QED
  BY <1>1, InitShape, TypeStep, ShapeStep, GuardStep, KnowledgeStep, PTL DEF Spec, Inv

(* Every behaviour of the data plane keeps the types of TypeOK: no frame,  *)
(* handler, drain or staging task ever writes a value of another shape.    *)
THEOREM TypeCorrect == Spec => []TypeOK
<1>1. Inv => TypeOK
  BY DEF Inv
<1> QED BY <1>1, Invariance, PTL

(* claim_staging and StagingGuard: two staging tasks of one session never  *)
(* overlap, whatever clients, mints and evictions do.                      *)
THEOREM StagerExclusion == Spec => []AtMostOneStager
<1>1. Inv => AtMostOneStager
  BY DEF Inv, GuardInv
<1> QED BY <1>1, Invariance, PTL

(* stash_egress_snapshot: however handlers overlap, and whatever is minted *)
(* or evicted meanwhile, a body in flight is covered by the floor of the   *)
(* session state it was rewritten with.                                    *)
THEOREM FloorCovers == Spec => []FloorCoversEgress
<1>1. Inv => FloorCoversEgress
  BY DEF Inv
<1> QED BY <1>1, Invariance, PTL

(* stage_next: read-fold-write across awaits never loses another commit's  *)
(* fold while the session state is alive.                                  *)
THEOREM WorkingMonotone == Spec => WorkingNeverLost
<1>1. ASSUME Inv, [Next]_vars
      PROVE  [\A e \in Econs : Dropped(e) \/ econ[e].working \subseteq econ'[e].working]_vars
  <2> SUFFICES ASSUME NEW e \in Econs, ~Dropped(e), ~UNCHANGED vars
               PROVE  econ[e].working \subseteq econ'[e].working
    OBVIOUS
  <2>1. CASE Control
    BY <2>1 DEF Control, Mint, Evict, SetKill, SetShadow
  <2>2. ASSUME NEW r \in Reqs, Client(r) \/ Handler(r) \/ Drain(r) \/ Stager(r)
        PROVE  econ[e].working \subseteq econ'[e].working
    <3>1. CASE EconKept(e)
      BY <3>1 DEF EconKept
    <3>2. ASSUME NEW plan, NEW folded, StageCommit(r, plan, folded), req[r].econ = e
          PROVE  econ[e].working \subseteq econ'[e].working
      <4>1. req[r].base = econ[e].working
        BY <1>1, <3>2 DEF StageCommit, Inv, CloneCurrent
      <4>2. econ'[e].working = req[r].base \cup (IF folded THEN {req[r].n} ELSE {})
        BY <1>1, <3>2 DEF StageCommit, Inv, TypeOK, EconType
      <4> QED BY <4>1, <4>2
    <3> QED BY <1>1, <2>2, <3>1, <3>2, EconStep DEF Inv
  <2> QED BY <1>1, <2>1, <2>2 DEF Next
<1> QED BY <1>1, Invariance, PTL DEF Spec, WorkingNeverLost

(***************************************************************************)
(* The owner of the guard.                                                 *)
(*                                                                         *)
(* A set guard is owned or orphaned: a claim ends in the spawn of the task *)
(* or with its dropped handler, and the task only in the release.  The     *)
(* converse needs that nobody can claim, and so release, an orphaned guard *)
(* (OrphanInv), and that a holder's guard is set (HolderSet).              *)
(***************************************************************************)

\* A set guard has an owner or lost it.
OwnerInv ==
    \A e \in Econs : econ[e].staging => Dropped(e) \/ e \in orphaned \/ Owned(e)

\* A step that sets no guard, moves no slot to another session state and
\* ends no claim keeps the owners.
LEMMA OwnerFrame ==
    ASSUME OwnerInv,
           \A e \in Econs : econ'[e].staging => econ[e].staging,
           session' \in {session, "absent", "fresh"},
           orphaned \subseteq orphaned',
           \A r \in Reqs :
              /\ req'[r].econ \in {req[r].econ, None}
              /\ Holds(r) => Holds(r)' /\ req'[r].econ = req[r].econ
    PROVE  OwnerInv'
<1> SUFFICES ASSUME NEW e \in Econs, econ'[e].staging
             PROVE  \/ Dropped(e)' \/ e \in orphaned'
                    \/ \E r \in Reqs : Holds(r)' /\ req'[r].econ = e
  BY DEF OwnerInv, Owned
<1>1. Dropped(e) \/ e \in orphaned \/ \E r \in Reqs : Holds(r) /\ req[r].econ = e
  BY DEF OwnerInv, Owned
<1>2. CASE Dropped(e)
  BY <1>2, NoneAssumption DEF Dropped
<1> QED BY <1>1, <1>2

\* Every step keeps the owners, or records the loss of one.
LEMMA OwnerStep ==
    TypeOK /\ ShapeInv /\ OwnerInv /\ [Next]_vars => OwnerInv'
<1> SUFFICES ASSUME TypeOK, ShapeInv, OwnerInv, [Next]_vars
             PROVE  OwnerInv'
  OBVIOUS
<1> DEFINE Kept == \A e \in Econs : econ'[e].staging => econ[e].staging
           Entry == /\ session' \in {session, "absent", "fresh"}
                    /\ orphaned \subseteq orphaned'
           Stays == \A r \in Reqs :
                      /\ req'[r].econ \in {req[r].econ, None}
                      /\ Holds(r) => Holds(r)' /\ req'[r].econ = req[r].econ
<1>frame. ASSUME Kept, Entry, Stays PROVE OwnerInv'
  BY <1>frame, OwnerFrame
<1>t. /\ \A e \in Econs : econ[e] \in EconType
      /\ \A r \in Reqs : req[r] \in ReqType
      /\ econ = [e \in Econs |-> econ[e]]
      /\ req = [r \in Reqs |-> req[r]]
  BY DEF TypeOK
<1>s. \A r \in Reqs : ReqShape(req[r])
  BY DEF ShapeInv
<1>idle. ~IdleReq.claimed /\ IdleReq.stage = "none" /\ IdleReq.econ = None
  BY DEF IdleReq
<1>close. \A e \in Econs : close_window[e].staging = econ[e].staging
  BY <1>t DEF close_window, EconType
<1>u. CASE UNCHANGED vars
  BY <1>u, <1>frame DEF vars, Holds
<1>c. CASE Control
  BY <1>c, <1>frame DEF Control, Mint, Evict, SetKill, SetShadow, Holds
<1>1. ASSUME NEW r \in Reqs, NEW kind \in Kinds, NEW n \in Lengths, Arrive(r, kind, n)
      PROVE  OwnerInv'
  <2>1. Kept /\ Entry
    BY <1>1, <1>close DEF Arrive
  <2>2. Stays
    BY <1>1, <1>t DEF Arrive, Holds, IdleReq
  <2> QED BY <1>frame, <2>1, <2>2
<1>2. ASSUME NEW r \in Reqs, ReadFails(r) \/ Synthesize(r) PROVE OwnerInv'
  <2>1. ~Holds(r)
    BY <1>2, <1>s DEF ReadFails, Synthesize, ReqShape, Holds
  <2>2. Kept /\ Entry
    BY <1>2 DEF ReadFails, Synthesize
  <2>3. Stays
    BY <1>2, <1>t, <1>idle, <2>1 DEF ReadFails, Synthesize, Holds
  <2> QED BY <1>frame, <2>2, <2>3
<1>a. ASSUME NEW r \in Reqs, Abort(r) PROVE OwnerInv'
  <2>1. /\ econ' = econ /\ session' = session /\ orphaned \subseteq orphaned'
        /\ req[r].claimed => req[r].econ \in orphaned'
        /\ req'[r].econ = None /\ \A q \in Reqs \ {r} : req'[q] = req[q]
    BY <1>a, <1>t, <1>idle DEF Abort
  <2>2. req[r].stage = "none"
    BY <1>a, <1>s DEF Abort, ReqShape
  <2>3. ASSUME NEW e \in Econs, econ'[e].staging
        PROVE  Dropped(e)' \/ e \in orphaned' \/ Owned(e)'
    <3>1. CASE Dropped(e)
      BY <2>1, <3>1, NoneAssumption DEF Dropped
    <3>2. CASE e \in orphaned
      BY <2>1, <3>2
    <3>3. ASSUME NEW q \in Reqs, Holds(q), req[q].econ = e
          PROVE  e \in orphaned' \/ Owned(e)'
      BY <2>1, <2>2, <3>3 DEF Holds, Owned
    <3> QED BY <2>1, <2>3, <3>1, <3>2, <3>3 DEF OwnerInv, Owned
  <2> QED BY <2>3 DEF OwnerInv
<1>3. ASSUME NEW r \in Reqs, Passthrough(r) \/ ShadowForward(r) \/ SetupGone(r)
      PROVE  OwnerInv'
  <2>1. Kept /\ Entry
    BY <1>3, <1>close DEF Passthrough, ShadowForward, SetupGone
  <2>2. Stays
    BY <1>3, <1>t DEF Passthrough, ShadowForward, SetupGone, Holds, ReqType
  <2> QED BY <1>frame, <2>1, <2>2
<1>4. ASSUME NEW r \in Reqs, NEW e \in Econs, NEW known \in BOOLEAN, Setup(r, e, known)
      PROVE  OwnerInv'
  <2> DEFINE s == IF session = e THEN econ[e] ELSE NewEcon(known)
  <2>1. s \in EconType
    BY RecordTypes, <1>t
  <2>2. /\ \A d \in Econs \ {e} : econ'[d] = econ[d]
        /\ req'[r].claimed = ~s.staging
        /\ req'[r].econ = e
        /\ \A q \in Reqs \ {r} : req'[q] = req[q]
        /\ session' = e
        /\ orphaned' = IF session = e THEN orphaned ELSE orphaned \ {e}
    <3> DEFINE z == [Claim(req[r], s) EXCEPT !.pc = "inputs", !.econ = e, !.tap = TRUE]
               v == [s EXCEPT !.staging = TRUE]
    <3>1. /\ econ' = [econ EXCEPT ![e] = v] /\ req' = [req EXCEPT ![r] = z] /\ session' = e
          /\ orphaned' = IF session = e THEN orphaned ELSE orphaned \ {e}
      BY <1>4 DEF Setup
    <3>2. z.claimed = ~s.staging /\ z.stage = req[r].stage /\ z.econ = e /\ v.staging
      BY <1>t, <2>1, SetupFields
    <3> HIDE DEF z, v, s
    <3> QED BY <1>t, <3>1, <3>2
  <2>3. ~Holds(r) /\ req[r].econ = None
    BY <1>4, <1>s DEF Setup, ReqShape, Holds
  <2>4. s.staging => session = e /\ econ[e].staging
    BY DEF NewEcon
  <2> HIDE DEF s
  <2>5. \A q \in Reqs : Holds(q) => Holds(q)' /\ req'[q].econ = req[q].econ
    BY <2>2, <2>3 DEF Holds
  <2>6. e \in orphaned' \/ Owned(e)'
    <3>1. CASE s.staging
      <4>1. ~Dropped(e)
        BY <2>4, <3>1 DEF Dropped
      <4>2. e \in orphaned \/ \E q \in Reqs : Holds(q) /\ req[q].econ = e
        BY <2>4, <3>1, <4>1 DEF OwnerInv, Owned
      <4>3. orphaned' = orphaned
        BY <2>2, <2>4, <3>1
      <4> QED BY <4>2, <4>3, <2>5 DEF Owned
    <3>2. CASE ~s.staging
      BY <3>2, <2>2 DEF Holds, Owned
    <3> QED BY <3>1, <3>2
  <2>7. ASSUME NEW d \in Econs, d # e, econ'[d].staging
        PROVE  Dropped(d)' \/ d \in orphaned' \/ Owned(d)'
    <3>1. Dropped(d) \/ d \in orphaned' \/ \E q \in Reqs : Holds(q) /\ req[q].econ = d
      BY <2>2, <2>7 DEF OwnerInv, Owned
    <3>2. CASE Dropped(d)
      BY <2>2, <2>7, <3>2 DEF Dropped
    <3> QED BY <2>5, <3>1, <3>2 DEF Owned
  <2> QED BY <2>6, <2>7 DEF OwnerInv
<1>5. ASSUME NEW r \in Reqs, TakeInputs(r) PROVE OwnerInv'
  <2>1. Kept
    <3>1. \/ econ' = [econ EXCEPT ![req[r].econ].staged = None]
          \/ econ' = econ
      BY <1>5 DEF TakeInputs
    <3>2. \A s \in EconType : [s EXCEPT !.staged = None].staging = s.staging
      BY DEF EconType
    <3>3. CASE econ' = [econ EXCEPT ![req[r].econ].staged = None]
      BY <3>2, <3>3, <1>t
    <3> QED BY <3>1, <3>3
  <2>2. Stays /\ Entry
    BY <1>5, <1>t DEF TakeInputs, Holds, ReqType
  <2> QED BY <1>frame, <2>1, <2>2
<1>6. ASSUME NEW r \in Reqs, Identity(r) PROVE OwnerInv'
  BY <1>6, <1>t, <1>frame DEF Identity, Holds, ReqType
<1>7. ASSUME NEW r \in Reqs, NEW base, Splice(r, base) PROVE OwnerInv'
  <2>1. Kept /\ Entry
    BY <1>7, <1>t DEF Splice, EconType
  <2>2. Stays
    BY <1>7, <1>t DEF Splice, Holds, ReqType
  <2> QED BY <1>frame, <2>1, <2>2
<1>8. ASSUME NEW r \in Reqs, Stash(r) PROVE OwnerInv'
  <2>1. Kept /\ Entry
    BY <1>8, <1>t DEF Stash, stash_egress_snapshot, EconType
  <2>2. Stays
    BY <1>8, <1>t DEF Stash, Holds, ReqType
  <2> QED BY <1>frame, <2>1, <2>2
<1>9. ASSUME NEW r \in Reqs, Send(r) PROVE OwnerInv'
  <2>1. Kept /\ Entry
    BY <1>9, <1>t DEF Send, EconType
  <2>2. Stays
    BY <1>9, <1>t DEF Send, Holds, ReqType
  <2> QED BY <1>frame, <2>1, <2>2
<1>10. ASSUME NEW r \in Reqs, NEW ok \in BOOLEAN, Respond(r, ok) PROVE OwnerInv'
  <2> DEFINE q == [req[r] EXCEPT
                    !.pc = "idle", !.claimed = FALSE, !.fresh = {},
                    !.lane_in = {}, !.out_left = {}, !.tap = req[r].tap /\ ok,
                    !.stage = IF req[r].claimed THEN "spawned" ELSE "none"]
  <2>1. req[r].claimed => q.stage = "spawned"
    BY <1>t DEF ReqType
  <2>2. q.econ = req[r].econ
    BY <1>t DEF ReqType
  <2>3. /\ req' = [req EXCEPT ![r] = Settle(q)] /\ econ' = econ /\ session' = session
        /\ orphaned' = orphaned
    BY <1>10 DEF Respond
  <2>4. req[r].stage = "none"
    BY <1>10, <1>s DEF Respond, ReqShape
  <2> HIDE DEF q
  <2>5. Stays
    BY <2>1, <2>2, <2>3, <2>4, <1>t, <1>idle DEF Holds, Settle
  <2> QED BY <1>frame, <2>3, <2>5
<1>11. ASSUME NEW r \in Reqs,
              \/ TapEnds(r)
              \/ \E usage \in Usages, cooled \in BOOLEAN : Observe(r, usage, cooled)
       PROVE  OwnerInv'
  <2>1. Kept
    <3>1. CASE TapEnds(r)
      BY <3>1 DEF TapEnds
    <3>2. ASSUME NEW usage \in Usages, NEW cooled \in BOOLEAN, Observe(r, usage, cooled)
          PROVE  Kept
      <4>1. /\ \A d \in Econs : d # req[r].econ => econ'[d] = econ[d]
            /\ req[r].econ \in Econs =>
                 econ'[req[r].econ].staging = econ[req[r].econ].staging
        BY <3>2, <1>t DEF Observe, EconType
      <4> QED BY <4>1
    <3> QED BY <1>11, <3>1, <3>2
  <2> DEFINE q == [req[r] EXCEPT !.tap = FALSE]
  <2>2. req' = [req EXCEPT ![r] = Settle(q)] /\ session' = session /\ orphaned' = orphaned
    BY <1>11 DEF TapEnds, Observe
  <2>3. q.claimed = req[r].claimed /\ q.stage = req[r].stage /\ q.econ = req[r].econ
    BY <1>t DEF ReqType
  <2>4. ~req[r].claimed
    BY <1>11, <1>s DEF TapEnds, Observe, ReqShape
  <2> HIDE DEF q
  <2>5. Stays
    BY <2>2, <2>3, <2>4, <1>t, <1>idle DEF Holds, Settle
  <2> QED BY <1>frame, <2>1, <2>2, <2>5
<1>12. ASSUME NEW r \in Reqs, StageBegin(r) \/ StageSkip(r) PROVE OwnerInv'
  BY <1>12, <1>t, <1>frame DEF StageBegin, StageSkip, Holds, ReqType
<1>13. ASSUME NEW r \in Reqs, NEW plan, NEW folded, StageCommit(r, plan, folded)
       PROVE  OwnerInv'
  <2>1. Kept /\ Entry
    BY <1>13, <1>t DEF StageCommit, EconType
  <2>2. Stays
    BY <1>13, <1>t DEF StageCommit, Holds, ReqType
  <2> QED BY <1>frame, <2>1, <2>2
<1>14. ASSUME NEW r \in Reqs, StageRelease(r) PROVE OwnerInv'
  <2> DEFINE q == [req[r] EXCEPT !.stage = "none"]
  <2>1. q.econ = req[r].econ
    BY <1>t DEF ReqType
  <2>2. /\ req' = [req EXCEPT ![r] = Settle(q)] /\ session' = session
        /\ orphaned' = orphaned
        /\ \A d \in Econs : d # req[r].econ => econ'[d] = econ[d]
        /\ req[r].econ \in Econs => ~econ'[req[r].econ].staging
    BY <1>14, <1>t DEF StageRelease, EconType
  <2> HIDE DEF q
  <2>3. /\ req'[r].econ \in {req[r].econ, None}
        /\ \A p \in Reqs \ {r} : req'[p] = req[p]
    BY <2>1, <2>2, <1>t, <1>idle DEF Settle
  <2>4. ASSUME NEW d \in Econs, econ'[d].staging
        PROVE  Dropped(d)' \/ d \in orphaned' \/ Owned(d)'
    <3>1. d # req[r].econ /\ econ[d].staging
      BY <2>2, <2>4
    <3>2. Dropped(d) \/ d \in orphaned' \/ \E p \in Reqs : Holds(p) /\ req[p].econ = d
      BY <2>2, <3>1 DEF OwnerInv, Owned
    <3>3. CASE Dropped(d)
      BY <2>2, <2>3, <3>3, NoneAssumption DEF Dropped
    <3>4. ASSUME NEW p \in Reqs, Holds(p), req[p].econ = d
          PROVE  Holds(p)' /\ req'[p].econ = d
      BY <2>3, <3>1, <3>4 DEF Holds
    <3> QED BY <3>2, <3>3, <3>4 DEF Owned
  <2> QED BY <2>4 DEF OwnerInv
<1> QED
  BY <1>u, <1>c, <1>1, <1>2, <1>a, <1>3, <1>4, <1>5, <1>6, <1>7, <1>8, <1>9, <1>10, <1>11,
     <1>12, <1>13, <1>14
  DEF Next, Client, Handler, Drain, Stager

(* claim_staging and StagingGuard: whatever upstream fails, the control    *)
(* plane mints or evicts, and however requests overlap, the guard of a     *)
(* session state in use is set exactly when a handler or a staging task    *)
(* will release it, or its claim died with a disconnected client.          *)
THEOREM GuardOwned == Spec => []StagingHasOwner
<1>1. Init => OwnerInv
  BY DEF Init, OwnerInv, NewEcon
<1>2. Inv => TypeOK /\ ShapeInv
  BY DEF Inv
<1>3. TypeOK /\ ShapeInv /\ OwnerInv /\ [Next]_vars => OwnerInv'
  BY OwnerStep
<1>4. ASSUME Inv, OwnerInv PROVE StagingHasOwner
  <2> SUFFICES ASSUME NEW e \in Econs, ~Dropped(e)
               PROVE  econ[e].staging <=> (e \in orphaned \/ Owned(e))
    BY DEF StagingHasOwner
  <2>1. econ[e].staging => e \in orphaned \/ Owned(e)
    BY <1>4 DEF OwnerInv
  <2>2. e \in orphaned => econ[e].staging
    BY <1>4 DEF Inv, GuardInv, OrphanInv
  <2>3. Owned(e) => econ[e].staging
    BY <1>4 DEF Inv, GuardInv, HolderSet, Owned
  <2>4. econ[e].staging \in BOOLEAN
    BY <1>4 DEF Inv, TypeOK, EconType
  <2> QED BY <2>1, <2>2, <2>3, <2>4
<1> QED BY <1>1, <1>2, <1>3, <1>4, Invariance, PTL DEF Spec

-----------------------------------------------------------------------------
(***************************************************************************)
(* The fast lane, for a client that has one request in flight at a time    *)
(* and never sends a shorter conversation again, and for any number of     *)
(* session states, any transcript, disconnects, seam frames and usages.    *)
(***************************************************************************)


(***************************************************************************)
(* The inductive invariants.                                               *)
(***************************************************************************)

\* The handler of the slot is at work.
Active(r) == req[r].pc # "idle"

\* No content that cleaning shrinks occurs twice in the conversation.
CleanableOnce ==
    \A i, j \in 1 .. Len(Transcript) :
        Transcript[i] \in Cleanable /\ Transcript[i] = Transcript[j] => i = j

\* A handler works on the longest body the client has submitted, and has
\* rewritten nothing before the interceptor has run.
SlotAsked(r) ==
    /\ req[r].n <= asked
    /\ req[r].kind # "bad" => req[r].n = asked
    /\ req[r].pc \notin {"stash", "send"} =>
            req[r].fresh = {} /\ req[r].lane_in = {} /\ req[r].out_left = {}

SerialInv ==
    /\ seen <= asked
    /\ \A r, q \in Reqs : Active(r) /\ Active(q) => r = q
    /\ \A r \in Reqs : Active(r) => SlotAsked(r)

\* An open window is past everything upstream has received.
OpenIsPast(closed, floor) == ~closed => seen <= floor

\* Where the window stands, block by block: a body that goes upstream
\* uninspected finds it closed, and a handler's session state is the entry's
\* unless the entry was minted or evicted meanwhile.
SlotWindow(r) ==
    /\ (req[r].pc = "raw" \/ (req[r].pc = "read" /\ ~req[r].inspect)) /\ session \in Econs
            => econ[session].closed
    /\ req[r].econ \in Econs => session \in {req[r].econ, "fresh", "absent"}
    /\ req[r].pc = "inputs" =>
            OpenIsPast(econ[req[r].econ].closed, econ[req[r].econ].floor)
    /\ req[r].pc = "rewrite" => OpenIsPast(req[r].inputs.closed, req[r].inputs.floor)
    /\ req[r].pc \in {"stash", "send"} => \A i \in req[r].fresh : i > seen

WindowInv ==
    /\ session \in Econs => OpenIsPast(econ[session].closed, econ[session].floor)
    /\ \A r \in Reqs : Active(r) => SlotWindow(r)

\* What was sent with its original bytes is no key of the lane, and the lane
\* has only keys of positions before the last one submitted.
EconLane(e) ==
    /\ \A i \in econ[e].left :
            i \in 1 .. seen /\ Transcript[i] \in Cleanable /\ Transcript[i] \notin econ[e].lane
    /\ \A k \in econ[e].lane : \E i \in 1 .. Len(Transcript) : i < asked /\ Transcript[i] = k

\* The snapshot of the lane is current, and what the handler is about to send
\* with its original bytes is no key of the lane.
SlotLane(r) ==
    /\ req[r].pc = "rewrite" => req[r].inputs.lane = econ[req[r].econ].lane
    /\ req[r].pc \in {"stash", "send"} =>
            /\ \A i \in req[r].out_left :
                  /\ i \in 1 .. req[r].n /\ Transcript[i] \in Cleanable
                  /\ Transcript[i] \notin econ[req[r].econ].lane
            /\ req[r].lane_in \cap econ[req[r].econ].left = {}

LaneInv ==
    /\ \A e \in Econs : EconLane(e)
    /\ \A r \in Reqs : Active(r) => SlotLane(r)

(***************************************************************************)
(* Frames.                                                                 *)
(***************************************************************************)

\* The window may close; floor, lane and what was left are kept.
EconTighter(e) ==
    /\ econ'[e].floor = econ[e].floor /\ econ'[e].lane = econ[e].lane
    /\ econ'[e].left = econ[e].left
    /\ econ[e].closed => econ'[e].closed

\* The handler's part of the slot is kept.
SlotKept(r) ==
    /\ req'[r].pc = req[r].pc /\ req'[r].kind = req[r].kind /\ req'[r].n = req[r].n
    /\ req'[r].inspect = req[r].inspect /\ req'[r].econ = req[r].econ
    /\ req'[r].inputs = req[r].inputs /\ req'[r].fresh = req[r].fresh
    /\ req'[r].lane_in = req[r].lane_in /\ req'[r].out_left = req[r].out_left

\* A step that sends and asks nothing, and leaves every handler alone or idle.
Quiet ==
    /\ seen' = seen /\ asked' = asked
    /\ session' \in {session, "fresh", "absent"}
    /\ \A e \in Econs : EconTighter(e)
    /\ \A r \in Reqs : req'[r].pc = "idle" \/ SlotKept(r)

\* Handlers at work have a session state when their block needs one.
LEMMA ActiveEcon ==
    ASSUME ShapeInv
    PROVE  \A r \in Reqs :
              req[r].pc \in {"inputs", "rewrite", "stash", "send"} => req[r].econ \in Econs
BY DEF ShapeInv, ReqShape

\* A quiet step keeps the three invariants.
LEMMA QuietSerial == ASSUME SerialInv, Quiet PROVE SerialInv'
BY DEF SerialInv, Quiet, Active, SlotAsked, SlotKept

\* A step that leaves the handlers alone opens no window.
LEMMA QuietWindow == ASSUME ShapeInv, WindowInv, Quiet PROVE WindowInv'
<1>1. session' \in Econs => session' = session
  BY NoneAssumption DEF Quiet
<1>2. session' \in Econs => OpenIsPast(econ[session].closed, econ[session].floor)'
  BY <1>1 DEF WindowInv, Quiet, EconTighter, OpenIsPast
<1>3. ASSUME NEW r \in Reqs, Active(r)' PROVE SlotWindow(r)'
  <2>1. SlotKept(r) /\ SlotWindow(r) /\ seen' = seen
    BY <1>3 DEF Quiet, Active, WindowInv, SlotKept
  <2>2. /\ session' \in {session, "fresh", "absent"}
        /\ \A e \in Econs : econ[e].closed => econ'[e].closed
        /\ \A e \in Econs : econ'[e].floor = econ[e].floor
    BY DEF Quiet, EconTighter
  <2>3. req[r].pc = "inputs" => req[r].econ \in Econs
    BY ActiveEcon
  <2> QED BY <1>1, <2>1, <2>2, <2>3 DEF SlotWindow, SlotKept, OpenIsPast
<1> QED BY <1>2, <1>3 DEF WindowInv

\* Nor does it change a lane or what was left raw.
LEMMA QuietLane == ASSUME ShapeInv, LaneInv, Quiet PROVE LaneInv'
<1>1. ASSUME NEW e \in Econs PROVE EconLane(e)'
  BY DEF LaneInv, EconLane, Quiet, EconTighter
<1>2. ASSUME NEW r \in Reqs, Active(r)' PROVE SlotLane(r)'
  <2>1. SlotKept(r) /\ SlotLane(r)
    BY <1>2 DEF Quiet, Active, LaneInv, SlotKept
  <2>2. req[r].pc \in {"rewrite", "stash", "send"} =>
            /\ econ'[req[r].econ].lane = econ[req[r].econ].lane
            /\ econ'[req[r].econ].left = econ[req[r].econ].left
    BY ActiveEcon DEF Quiet, EconTighter
  <2> QED BY <2>1, <2>2 DEF SlotLane, SlotKept
<1> QED BY <1>1, <1>2 DEF LaneInv

\* The steps that are quiet.
QuietStep(r) ==
    \/ Abort(r) \/ ReadFails(r) \/ Synthesize(r)
    \/ \E ok \in BOOLEAN : Respond(r, ok)
    \/ Drain(r) \/ Stager(r)

\* Failures, answers, drains and staging tasks are such steps.
LEMMA QuietSteps ==
    ASSUME TypeOK, ShapeInv, NEW r \in Reqs, QuietStep(r)
    PROVE  Quiet
<1>t. /\ \A e \in Econs : econ[e] \in EconType
      /\ \A q \in Reqs : req[q] \in ReqType
      /\ econ = [e \in Econs |-> econ[e]]
      /\ req = [q \in Reqs |-> req[q]]
  BY DEF TypeOK
<1>idle. IdleReq.pc = "idle"
  BY DEF IdleReq
<1>kept. \A q \in Reqs : req'[q] = req[q] => SlotKept(q)
  BY DEF SlotKept
<1>same. \A e \in Econs : econ'[e] = econ[e] => EconTighter(e)
  BY DEF EconTighter
<1>1. CASE Abort(r) \/ ReadFails(r) \/ Synthesize(r)
  BY <1>1, <1>t, <1>idle, <1>kept, <1>same DEF Abort, ReadFails, Synthesize, Quiet
<1>settle. ASSUME NEW q, q.pc = "idle" PROVE Settle(q).pc = "idle"
  BY <1>settle, <1>idle DEF Settle
<1>2. ASSUME NEW ok \in BOOLEAN, Respond(r, ok) PROVE Quiet
  <2> DEFINE q == [req[r] EXCEPT
                    !.pc = "idle", !.claimed = FALSE, !.fresh = {},
                    !.lane_in = {}, !.out_left = {}, !.tap = req[r].tap /\ ok,
                    !.stage = IF req[r].claimed THEN "spawned" ELSE "none"]
  <2>1. q.pc = "idle"
    BY <1>t DEF ReqType
  <2>2. /\ req' = [req EXCEPT ![r] = Settle(q)]
        /\ UNCHANGED <<kill, shadow, session, econ, seen, asked>>
    BY <1>2 DEF Respond
  <2> HIDE DEF q
  <2>3. req'[r].pc = "idle" /\ \A p \in Reqs \ {r} : req'[p] = req[p]
    BY <2>1, <2>2, <1>t, <1>settle
  <2> QED BY <2>2, <2>3, <1>kept, <1>same DEF Quiet
<1>3. CASE Drain(r)
  <2> DEFINE q == [req[r] EXCEPT !.tap = FALSE]
  <2>1. /\ req' = [req EXCEPT ![r] = Settle(q)] /\ req[r].pc = "idle"
        /\ UNCHANGED <<session, seen, asked>>
    BY <1>3 DEF Drain, Observe, TapEnds
  <2>2. q.pc = "idle"
    BY <2>1, <1>t DEF ReqType
  <2> HIDE DEF q
  <2>3. req'[r].pc = "idle" /\ \A p \in Reqs \ {r} : req'[p] = req[p]
    BY <2>1, <2>2, <1>t, <1>settle
  <2>4. ASSUME NEW e \in Econs PROVE EconTighter(e)
    <3>1. CASE TapEnds(r)
      BY <3>1, <1>same DEF TapEnds
    <3>2. ASSUME NEW usage \in Usages, NEW cooled \in BOOLEAN, Observe(r, usage, cooled)
          PROVE  EconTighter(e)
      <4>1. CASE e # req[r].econ
        BY <3>2, <4>1, <1>t, <1>same DEF Observe
      <4>2. CASE e = req[r].econ
        BY <3>2, <4>2, <1>t DEF Observe, EconType, EconTighter
      <4> QED BY <4>1, <4>2
    <3> QED BY <1>3, <3>1, <3>2 DEF Drain
  <2> QED BY <2>1, <2>3, <2>4, <1>kept DEF Quiet
<1>4. CASE Stager(r)
  <2>0. UNCHANGED <<session, seen, asked>> /\ req[r].stage # "none"
    BY <1>4 DEF Stager, StageBegin, StageSkip, StageCommit, StageRelease
  <2>1. req[r].pc = "idle"
    BY <2>0 DEF ShapeInv, ReqShape
  <2>2. \A p \in Reqs \ {r} : req'[p] = req[p]
    BY <1>4, <1>t DEF Stager, StageBegin, StageSkip, StageCommit, StageRelease
  <2>3. req'[r].pc = "idle"
    <3>1. CASE StageRelease(r)
      <4>1. [req[r] EXCEPT !.stage = "none"].pc = "idle"
        BY <2>1, <1>t DEF ReqType
      <4> QED BY <3>1, <4>1, <1>t, <1>settle DEF StageRelease
    <3>2. CASE StageBegin(r) \/ StageSkip(r)
      BY <3>2, <2>1, <1>t DEF StageBegin, StageSkip, ReqType
    <3>3. CASE \E plan \in SUBSET Keys, folded \in BOOLEAN : StageCommit(r, plan, folded)
      BY <3>3, <2>1, <1>t DEF StageCommit, ReqType
    <3> QED BY <1>4, <3>1, <3>2, <3>3 DEF Stager
  <2>4. ASSUME NEW e \in Econs PROVE EconTighter(e)
    <3>1. CASE StageRelease(r)
      BY <3>1, <1>t DEF StageRelease, EconType, EconTighter
    <3>2. CASE StageBegin(r) \/ StageSkip(r)
      BY <3>2, <1>same DEF StageBegin, StageSkip
    <3>3. CASE \E plan \in SUBSET Keys, folded \in BOOLEAN : StageCommit(r, plan, folded)
      BY <3>3, <1>t DEF StageCommit, EconType, EconTighter
    <3> QED BY <1>4, <3>1, <3>2, <3>3 DEF Stager
  <2> QED BY <2>0, <2>2, <2>3, <2>4, <1>kept DEF Quiet
<1> QED BY <1>1, <1>2, <1>3, <1>4 DEF QuietStep

\* So are the frames of the control plane.
LEMMA QuietControl ==
    ASSUME Control \/ UNCHANGED vars
    PROVE  Quiet
BY DEF Control, Mint, Evict, SetKill, SetShadow, vars, Quiet, EconTighter, SlotKept

(***************************************************************************)
(* What the handler's own steps do to the slot and its session state.      *)
(***************************************************************************)

Others(r) == \A q \in Reqs \ {r} : req'[q] = req[q]

\* The step is of the only handler at work, or of the first one.
Alone(r) == Others(r) /\ (Active(r) \/ \A q \in Reqs : ~Active(q))

\* After such a step no other handler is at work.
LEMMA AloneAfter ==
    ASSUME SerialInv, NEW r \in Reqs, Alone(r)
    PROVE  \A q \in Reqs : Active(q)' => q = r
BY DEF SerialInv, Alone, Others, Active

\* close_window closes the entry's window and changes nothing else.
LEMMA CloseEffect ==
    ASSUME TypeOK
    PROVE  /\ session \in Econs => close_window[session].closed
           /\ \A e \in Econs :
                /\ close_window[e].floor = econ[e].floor
                /\ close_window[e].lane = econ[e].lane
                /\ close_window[e].left = econ[e].left
                /\ econ[e].closed => close_window[e].closed
BY DEF TypeOK, close_window, EconType

\* A request starts alone, no shorter than the last one.
LEMMA ArriveEffect ==
    ASSUME TypeOK, Serial, AppendOnly, NEW r \in Reqs, NEW kind \in Kinds,
           NEW n \in Lengths, Arrive(r, kind, n)
    PROVE  /\ Alone(r)
           /\ session' = session /\ seen' = seen /\ asked <= asked'
           /\ \A e \in Econs : EconTighter(e)
           /\ req'[r].pc = "read" /\ req'[r].econ = None
           /\ ~req'[r].inspect /\ session \in Econs => econ'[session].closed
           /\ SlotAsked(r)'
<1>t. /\ req = [q \in Reqs |-> req[q]] /\ asked \in Nat /\ n \in Nat
  BY TranscriptFacts DEF TypeOK, Lengths
<1>1. /\ Alone(r) /\ session' = session /\ seen' = seen
  BY <1>t DEF Arrive, Alone, Others, Active
<1>2. /\ req'[r].pc = "read" /\ req'[r].econ = None /\ req'[r].kind = kind /\ req'[r].n = n
      /\ req'[r].inspect = (inspect_for /\ ~kill)
      /\ req'[r].fresh = {} /\ req'[r].lane_in = {} /\ req'[r].out_left = {}
  BY <1>t DEF Arrive, IdleReq
<1>3. asked' = Larger(asked, n) /\ (kind # "bad" => n >= asked)
  BY DEF Arrive
<1>4. asked <= asked' /\ n <= asked' /\ (kind # "bad" => n = asked')
  BY <1>t, <1>3 DEF Larger
<1>5. \A e \in Econs : EconTighter(e)
  BY CloseEffect DEF Arrive, EconTighter
<1>6. ~req'[r].inspect /\ session \in Econs => econ'[session].closed
  BY <1>2, CloseEffect, NoneAssumption DEF Arrive, inspect_for
<1> QED BY <1>1, <1>2, <1>4, <1>5, <1>6 DEF SlotAsked

\* A request forwarded unseen closes the window.
LEMMA RawEffect ==
    ASSUME TypeOK, ShapeInv, WindowInv, NEW r \in Reqs,
           Passthrough(r) \/ ShadowForward(r) \/ SetupGone(r)
    PROVE  /\ Alone(r)
           /\ session' = session /\ seen' = seen /\ asked' = asked
           /\ \A e \in Econs : EconTighter(e)
           /\ req[r].pc = "read" /\ req'[r] = [req[r] EXCEPT !.pc = "raw"]
           /\ req[r].econ = None
           /\ session \in Econs => econ'[session].closed
<1>t. req = [q \in Reqs |-> req[q]]
  BY DEF TypeOK
<1>1. /\ Alone(r) /\ session' = session /\ seen' = seen /\ asked' = asked
      /\ req[r].pc = "read" /\ req'[r] = [req[r] EXCEPT !.pc = "raw"]
  BY <1>t DEF Passthrough, ShadowForward, SetupGone, Alone, Others, Active
<1>2. \A e \in Econs : EconTighter(e)
  BY CloseEffect DEF Passthrough, ShadowForward, SetupGone, EconTighter
<1>3. req[r].econ = None
  BY <1>1 DEF ShapeInv, ReqShape
<1>4. ASSUME session \in Econs PROVE econ'[session].closed
  <2>1. CASE Passthrough(r)
    <3>1. SlotWindow(r)
      BY <1>1 DEF WindowInv, Active
    <3> QED BY <2>1, <3>1, <1>4 DEF Passthrough, SlotWindow
  <2>2. CASE ShadowForward(r)
    BY <2>2, <1>4, CloseEffect DEF ShadowForward
  <2>3. CASE SetupGone(r)
    BY <2>3, <1>4, NoneAssumption DEF SetupGone
  <2> QED BY <2>1, <2>2, <2>3
<1> QED BY <1>1, <1>2, <1>3, <1>4

\* The handler gets the session state, old or new.
LEMMA SetupEffect ==
    ASSUME TypeOK, ShapeInv, NEW r \in Reqs, NEW e \in Econs, NEW known \in BOOLEAN,
           Setup(r, e, known)
    PROVE  /\ Alone(r)
           /\ session' = e /\ seen' = seen /\ asked' = asked
           /\ \A d \in Econs \ {e} : econ'[d] = econ[d]
           /\ req[r].pc = "read" /\ req'[r].pc = "inputs" /\ req'[r].econ = e
           /\ req'[r].n = req[r].n /\ req'[r].kind = req[r].kind
           /\ req'[r].fresh = req[r].fresh /\ req'[r].lane_in = req[r].lane_in
           /\ req'[r].out_left = req[r].out_left
           /\ \/ session = e /\ EconTighter(e) /\ econ'[e].closed = econ[e].closed
              \/ econ'[e].closed /\ econ'[e].lane = {} /\ econ'[e].left = {}
<1>t. /\ req = [q \in Reqs |-> req[q]] /\ req[r] \in ReqType
      /\ econ = [d \in Econs |-> econ[d]] /\ econ[e] \in EconType
  BY DEF TypeOK
<1> DEFINE s == IF session = e THEN econ[e] ELSE NewEcon(known)
<1>1. /\ econ' = [econ EXCEPT ![e] = [s EXCEPT !.staging = TRUE]]
      /\ req' = [req EXCEPT ![r] = [Claim(req[r], s) EXCEPT
                                !.pc = "inputs", !.econ = e, !.tap = TRUE]]
      /\ session' = e /\ seen' = seen /\ asked' = asked /\ req[r].pc = "read"
  BY DEF Setup
<1>2. s \in EconType
  BY <1>t, RecordTypes
<1>3. \/ session = e /\ s = econ[e]
      \/ s.closed /\ s.lane = {} /\ s.left = {}
  BY DEF NewEcon
<1> HIDE DEF s
<1>4. /\ econ'[e].closed = s.closed /\ econ'[e].lane = s.lane /\ econ'[e].left = s.left
      /\ econ'[e].floor = s.floor
      /\ \A d \in Econs \ {e} : econ'[d] = econ[d]
  BY <1>1, <1>2, <1>t DEF EconType
<1>5. /\ req'[r].pc = "inputs" /\ req'[r].econ = e
      /\ req'[r].n = req[r].n /\ req'[r].kind = req[r].kind
      /\ req'[r].fresh = req[r].fresh /\ req'[r].lane_in = req[r].lane_in
      /\ req'[r].out_left = req[r].out_left
      /\ Others(r)
  BY <1>1, <1>t DEF Claim, ReqType, Others
<1>6. Alone(r)
  BY <1>1, <1>5 DEF Alone, Active
<1> QED BY <1>1, <1>3, <1>4, <1>5, <1>6 DEF EconTighter

\* The snapshot has the lane, the floor and the window of the session state.
LEMMA TakeEffect ==
    ASSUME TypeOK, ShapeInv, NEW r \in Reqs, TakeInputs(r)
    PROVE  /\ Alone(r)
           /\ session' = session /\ seen' = seen /\ asked' = asked
           /\ req[r].pc = "inputs" /\ req[r].econ \in Econs
           /\ \A d \in Econs : EconTighter(d) /\ econ'[d].closed = econ[d].closed
           /\ req'[r].econ = req[r].econ
           /\ req'[r].n = req[r].n /\ req'[r].kind = req[r].kind
           /\ req'[r].fresh = req[r].fresh /\ req'[r].lane_in = req[r].lane_in
           /\ req'[r].out_left = req[r].out_left
           /\ \/ /\ req'[r].pc = "rewrite"
                 /\ req'[r].inputs.closed = econ[req[r].econ].closed
                 /\ req'[r].inputs.floor = econ[req[r].econ].floor
                 /\ req'[r].inputs.lane = econ[req[r].econ].lane
              \/ req'[r].pc = "stash"
<1> DEFINE e == req[r].econ
<1>t. /\ req = [q \in Reqs |-> req[q]] /\ req[r] \in ReqType
      /\ econ = [d \in Econs |-> econ[d]]
      /\ \A d \in Econs : econ[d] \in EconType
      /\ req[r].pc = "inputs" /\ e \in Econs
  BY DEF TypeOK, TakeInputs, ShapeInv, ReqShape
<1> DEFINE in == [staged |-> econ[e].staged, lane |-> econ[e].lane,
                  floor |-> econ[e].floor, closed |-> econ[e].closed]
<1>1. /\ session' = session /\ seen' = seen /\ asked' = asked
      /\ \/ /\ econ' = [econ EXCEPT ![e].staged = None]
            /\ req' = [req EXCEPT ![r] = [req[r] EXCEPT !.pc = "rewrite", !.inputs = in]]
         \/ /\ req' = [req EXCEPT ![r].pc = "stash"]
            /\ econ' = econ
  BY <1>t DEF TakeInputs
<1>2. in.closed = econ[e].closed /\ in.floor = econ[e].floor /\ in.lane = econ[e].lane
  OBVIOUS
<1> HIDE DEF in
<1>3. \A d \in Econs : EconTighter(d) /\ econ'[d].closed = econ[d].closed
  <2>1. CASE econ' = econ
    BY <2>1 DEF EconTighter
  <2>2. CASE econ' = [econ EXCEPT ![e].staged = None]
    BY <2>2, <1>t DEF EconTighter, EconType
  <2> QED BY <1>1, <2>1, <2>2
<1>4. Others(r) /\ Alone(r)
  BY <1>1, <1>t DEF Others, Alone, Active
<1>5. CASE req' = [req EXCEPT ![r] = [req[r] EXCEPT !.pc = "rewrite", !.inputs = in]]
  <2>1. /\ req'[r].pc = "rewrite" /\ req'[r].inputs = in /\ req'[r].econ = req[r].econ
        /\ req'[r].n = req[r].n /\ req'[r].kind = req[r].kind
        /\ req'[r].fresh = req[r].fresh /\ req'[r].lane_in = req[r].lane_in
        /\ req'[r].out_left = req[r].out_left
    BY <1>5, <1>t DEF ReqType
  <2> QED BY <1>1, <1>2, <1>3, <1>4, <1>t, <2>1
<1>6. CASE req' = [req EXCEPT ![r].pc = "stash"]
  <2>1. /\ req'[r].pc = "stash" /\ req'[r].econ = req[r].econ
        /\ req'[r].n = req[r].n /\ req'[r].kind = req[r].kind
        /\ req'[r].fresh = req[r].fresh /\ req'[r].lane_in = req[r].lane_in
        /\ req'[r].out_left = req[r].out_left
    BY <1>6, <1>t DEF ReqType
  <2> QED BY <1>1, <1>3, <1>4, <1>t, <2>1
<1> QED BY <1>1, <1>5, <1>6

\* A request sent as it is changes no lane.
LEMMA IdentityEffect ==
    ASSUME TypeOK, NEW r \in Reqs, Identity(r)
    PROVE  /\ Alone(r)
           /\ session' = session /\ seen' = seen /\ asked' = asked /\ econ' = econ
           /\ req[r].pc = "rewrite" /\ req'[r].pc = "stash"
           /\ req'[r].econ = req[r].econ
           /\ req'[r].n = req[r].n /\ req'[r].kind = req[r].kind
           /\ req'[r].fresh = req[r].fresh /\ req'[r].lane_in = req[r].lane_in
           /\ req'[r].out_left = req[r].out_left
<1>t. req = [q \in Reqs |-> req[q]] /\ req[r] \in ReqType
  BY DEF TypeOK
<1>1. /\ req' = [req EXCEPT ![r] = [req[r] EXCEPT !.pc = "stash", !.inputs = NoInputs]]
      /\ session' = session /\ seen' = seen /\ asked' = asked /\ econ' = econ
      /\ req[r].pc = "rewrite"
  BY <1>t DEF Identity
<1>2. Alone(r)
  BY <1>1, <1>t DEF Alone, Others, Active
<1>3. req'[r] = [req[r] EXCEPT !.pc = "stash", !.inputs = NoInputs]
  BY <1>1, <1>t
<1> QED BY <1>1, <1>2, <1>3, <1>t DEF ReqType

\* A rewritten request commits what it cleaned afresh, and drops what the plan took.
LEMMA SpliceEffect ==
    ASSUME TypeOK, ShapeInv, NEW r \in Reqs, NEW base, Splice(r, base)
    PROVE  /\ Alone(r)
           /\ session' = session /\ seen' = seen /\ asked' = asked
           /\ req[r].pc = "rewrite" /\ req[r].kind = "turn" /\ req[r].econ \in Econs
           /\ \A d \in Econs :
                /\ econ'[d].floor = econ[d].floor /\ econ'[d].left = econ[d].left
                /\ econ'[d].closed = econ[d].closed
                /\ d # req[r].econ => econ'[d].lane = econ[d].lane
           /\ req'[r].pc = "stash" /\ req'[r].econ = req[r].econ
           /\ req'[r].n = req[r].n /\ req'[r].kind = req[r].kind
           /\ \A k \in econ'[req[r].econ].lane :
                k \in econ[req[r].econ].lane \/ \E i \in req'[r].fresh : Transcript[i] = k
           /\ \A i \in req'[r].fresh :
                /\ i \in 1 .. req[r].n /\ i < req[r].n /\ Transcript[i] \in Cleanable
                /\ ~req[r].inputs.closed /\ i > req[r].inputs.floor
           /\ \A i \in req'[r].lane_in :
                /\ i \in 1 .. req[r].n
                /\ i \in req'[r].fresh \/ Transcript[i] \in req[r].inputs.lane
           /\ \A i \in req'[r].out_left :
                /\ i \in 1 .. req[r].n /\ Transcript[i] \in Cleanable /\ i \notin req'[r].fresh
                /\ i < req[r].n => Transcript[i] \notin req[r].inputs.lane
<1> DEFINE in   == req[r].inputs
           n    == req[r].n
           e    == req[r].econ
           lane == fast_lane_entries(n, in) \ base
           new  == {i \in lane : Transcript[i] \notin in.lane}
           plan == in.staged # None /\ base # {}
           gone == IF plan THEN KeysOf(base) \cap in.lane ELSE {}
           left == {i \in (1 .. n) \ (base \cup lane) : Transcript[i] \in Cleanable}
           q    == [req[r] EXCEPT !.pc = "stash", !.inputs = NoInputs, !.fresh = new,
                                  !.lane_in = lane, !.out_left = left]
           s    == [econ[e] EXCEPT !.pred = @ \/ plan, !.lane = (@ \cup KeysOf(new)) \ gone]
<1>t. /\ req = [p \in Reqs |-> req[p]] /\ req[r] \in ReqType
      /\ econ = [d \in Econs |-> econ[d]] /\ e \in Econs /\ econ[e] \in EconType
  BY DEF TypeOK, Splice, ShapeInv, ReqShape
<1>1. /\ econ' = [econ EXCEPT ![e] = s] /\ req' = [req EXCEPT ![r] = q]
      /\ session' = session /\ seen' = seen /\ asked' = asked
      /\ req[r].pc = "rewrite" /\ req[r].kind = "turn"
  BY <1>t DEF Splice
<1>2. \A i \in new : /\ i \in 1 .. n /\ i < n /\ Transcript[i] \in Cleanable
                     /\ ~in.closed /\ i > in.floor
  BY DEF fast_lane_entries, Enters, fast_lane_leaf, provably_uncached
<1>3. \A i \in lane : i \in 1 .. n /\ (i \in new \/ Transcript[i] \in in.lane)
  BY DEF fast_lane_entries
<1>4. \A i \in left : /\ i \in 1 .. n /\ Transcript[i] \in Cleanable /\ i \notin new
                      /\ i < n => Transcript[i] \notin in.lane
  BY DEF fast_lane_entries, Enters, fast_lane_leaf
<1>5. \A k \in KeysOf(new) : \E i \in new : Transcript[i] = k
  BY DEF KeysOf
<1> HIDE DEF lane, new, plan, gone, left
<1>6. /\ q.pc = "stash" /\ q.econ = e /\ q.n = n /\ q.kind = req[r].kind
      /\ q.fresh = new /\ q.lane_in = lane /\ q.out_left = left
  BY <1>t DEF ReqType
<1>7. /\ s.floor = econ[e].floor /\ s.left = econ[e].left /\ s.closed = econ[e].closed
      /\ s.lane = (econ[e].lane \cup KeysOf(new)) \ gone
  BY <1>t DEF EconType
<1> HIDE DEF q, s
<1>8. req'[r] = q /\ Alone(r)
  BY <1>1, <1>t DEF Alone, Others, Active
<1>9. \A d \in Econs : econ'[d] = IF d = e THEN s ELSE econ[d]
  BY <1>1, <1>t
<1>10. \A k \in econ'[e].lane : k \in econ[e].lane \/ \E i \in new : Transcript[i] = k
  BY <1>5, <1>7, <1>9, <1>t
<1>11. \A d \in Econs :
                /\ econ'[d].floor = econ[d].floor /\ econ'[d].left = econ[d].left
                /\ econ'[d].closed = econ[d].closed
                /\ d # e => econ'[d].lane = econ[d].lane
  BY <1>7, <1>9
<1> QED BY <1>1, <1>2, <1>3, <1>4, <1>6, <1>8, <1>10, <1>11, <1>t

\* The floor rises to the body about to be sent, or the window stays as it was.
LEMMA StashEffect ==
    ASSUME TypeOK, ShapeInv, NEW r \in Reqs, Stash(r)
    PROVE  /\ Alone(r)
           /\ session' = session /\ seen' = seen /\ asked' = asked
           /\ req[r].pc = "stash" /\ req[r].econ \in Econs
           /\ \A d \in Econs \ {req[r].econ} : econ'[d] = econ[d]
           /\ econ'[req[r].econ].lane = econ[req[r].econ].lane
           /\ econ'[req[r].econ].left = econ[req[r].econ].left
           /\ \/ req[r].kind # "bad" /\ req[r].n <= econ'[req[r].econ].floor
              \/ /\ econ'[req[r].econ].closed = econ[req[r].econ].closed
                 /\ econ'[req[r].econ].floor = econ[req[r].econ].floor
           /\ req'[r].pc = "send" /\ req'[r].econ = req[r].econ
           /\ req'[r].n = req[r].n /\ req'[r].kind = req[r].kind
           /\ req'[r].fresh = req[r].fresh /\ req'[r].lane_in = req[r].lane_in
           /\ req'[r].out_left = req[r].out_left
<1> DEFINE e == req[r].econ
           s == stash_egress_snapshot(econ[e], r)
<1>t. /\ req = [p \in Reqs |-> req[p]] /\ req[r] \in ReqType
      /\ econ = [d \in Econs |-> econ[d]] /\ e \in Econs /\ econ[e] \in EconType
  BY DEF TypeOK, Stash, ShapeInv, ReqShape
<1>1. /\ econ' = [econ EXCEPT ![e] = s] /\ req' = [req EXCEPT ![r].pc = "send"]
      /\ session' = session /\ seen' = seen /\ asked' = asked /\ req[r].pc = "stash"
  BY <1>t DEF Stash
<1>2. req[r].n <= Larger(econ[e].floor, req[r].n)
  BY <1>t, LargerType DEF EconType, ReqType
<1>3. /\ s.lane = econ[e].lane /\ s.left = econ[e].left
      /\ \/ req[r].kind # "bad" /\ req[r].n <= s.floor
         \/ s.closed = econ[e].closed /\ s.floor = econ[e].floor
  BY <1>2, <1>t DEF stash_egress_snapshot, EconType
<1> HIDE DEF s
<1>4. econ'[e] = s /\ \A d \in Econs \ {e} : econ'[d] = econ[d]
  BY <1>1, <1>t
<1>5. Alone(r)
  BY <1>1, <1>t DEF Alone, Others, Active
<1>6. /\ req'[r].pc = "send" /\ req'[r].econ = req[r].econ
      /\ req'[r].n = req[r].n /\ req'[r].kind = req[r].kind
      /\ req'[r].fresh = req[r].fresh /\ req'[r].lane_in = req[r].lane_in
      /\ req'[r].out_left = req[r].out_left
  BY <1>1, <1>t DEF ReqType
<1> QED BY <1>1, <1>3, <1>4, <1>5, <1>6, <1>t

\* Upstream has seen the body; what went out raw is remembered.
LEMMA SendEffect ==
    ASSUME TypeOK, ShapeInv, NEW r \in Reqs, Send(r)
    PROVE  /\ Alone(r)
           /\ session' = session /\ seen' = Larger(seen, req[r].n) /\ asked' = asked
           /\ \/ req[r].pc = "send" /\ req[r].econ \in Econs
              \/ req[r].pc = "raw" /\ req[r].econ = None
           /\ \A d \in Econs :
                /\ econ'[d].floor = econ[d].floor /\ econ'[d].lane = econ[d].lane
                /\ econ'[d].closed = econ[d].closed
                /\ econ'[d].left = IF d = req[r].econ THEN econ[d].left \cup req[r].out_left
                                   ELSE econ[d].left
           /\ req'[r].pc = "sent" /\ req'[r].econ = req[r].econ
           /\ req'[r].n = req[r].n /\ req'[r].kind = req[r].kind
           /\ req'[r].fresh = {} /\ req'[r].lane_in = {} /\ req'[r].out_left = {}
<1> DEFINE e == req[r].econ
<1>t. /\ req = [p \in Reqs |-> req[p]] /\ req[r] \in ReqType
      /\ econ = [d \in Econs |-> econ[d]] /\ \A d \in Econs : econ[d] \in EconType
  BY DEF TypeOK
<1>1. /\ session' = session /\ seen' = Larger(seen, req[r].n) /\ asked' = asked
      /\ req[r].pc \in {"send", "raw"}
      /\ req' = [req EXCEPT ![r] = [req[r] EXCEPT !.pc = "sent", !.fresh = {},
                                                  !.lane_in = {}, !.out_left = {}]]
  BY <1>t DEF Send
<1>2. \/ req[r].pc = "send" /\ e \in Econs
      \/ req[r].pc = "raw" /\ e = None
  BY <1>1 DEF ShapeInv, ReqShape
<1>3. Alone(r)
  BY <1>1, <1>t DEF Alone, Others, Active
<1>4. req'[r] = [req[r] EXCEPT !.pc = "sent", !.fresh = {}, !.lane_in = {}, !.out_left = {}]
  BY <1>1, <1>t
<1>5. /\ req'[r].pc = "sent" /\ req'[r].econ = req[r].econ
      /\ req'[r].n = req[r].n /\ req'[r].kind = req[r].kind
      /\ req'[r].fresh = {} /\ req'[r].lane_in = {} /\ req'[r].out_left = {}
  BY <1>4, <1>t DEF ReqType
<1>6. ASSUME NEW d \in Econs
      PROVE  /\ econ'[d].floor = econ[d].floor /\ econ'[d].lane = econ[d].lane
             /\ econ'[d].closed = econ[d].closed
             /\ econ'[d].left = IF d = e THEN econ[d].left \cup req[r].out_left
                                ELSE econ[d].left
  <2>1. CASE d # e
    BY <2>1, <1>t DEF Send
  <2>2. CASE d = e
    <3>1. econ'[d] = [econ[d] EXCEPT !.left = @ \cup req[r].out_left]
      BY <2>2, <1>t, NoneAssumption DEF Send
    <3> QED BY <2>2, <3>1, <1>t DEF EconType
  <2> QED BY <2>1, <2>2
<1> QED BY <1>1, <1>2, <1>3, <1>5, <1>6

(***************************************************************************)
(* The window: fresh leaves are past what upstream has received.           *)
(***************************************************************************)

\* A lone step keeps the invariants if it keeps them for its own slot.
LEMMA AloneKeeps ==
    ASSUME SerialInv, NEW r \in Reqs, Alone(r)
    PROVE  /\ seen' <= asked' /\ SlotAsked(r)' => SerialInv'
           /\ /\ session' \in Econs => OpenIsPast(econ[session].closed, econ[session].floor)'
              /\ SlotWindow(r)'
              => WindowInv'
           /\ (\A e \in Econs : EconLane(e)') /\ SlotLane(r)' => LaneInv'
<1>1. \A q \in Reqs : Active(q)' => q = r
  BY AloneAfter
<1>2. seen' <= asked' /\ SlotAsked(r)' => SerialInv'
  BY <1>1 DEF SerialInv
<1>3. /\ session' \in Econs => OpenIsPast(econ[session].closed, econ[session].floor)'
      /\ SlotWindow(r)'
      => WindowInv'
  BY <1>1 DEF WindowInv
<1>4. (\A e \in Econs : EconLane(e)') /\ SlotLane(r)' => LaneInv'
  BY <1>1 DEF LaneInv
<1> QED BY <1>2, <1>3, <1>4

\* What the lone steps assume of the state before.
LEMMA LoneFacts ==
    ASSUME TypeOK, SerialInv
    PROVE  /\ seen \in Nat /\ asked \in Nat /\ seen <= asked
           /\ \A r \in Reqs : req[r].n \in Nat
           /\ \A e \in Econs : econ[e].floor \in Nat
           /\ \A r \in Reqs : Active(r) => SlotAsked(r)
BY TranscriptFacts DEF TypeOK, SerialInv, Lengths, ReqType, EconType

\* Every step keeps the client's order and the window.
LEMMA WindowStep ==
    ASSUME Serial, AppendOnly, TypeOK, ShapeInv, FloorCoversEgress,
           SerialInv, WindowInv, [Next]_vars
    PROVE  SerialInv' /\ WindowInv'
<1> DEFINE Entry == session' \in Econs =>
                        OpenIsPast(econ[session].closed, econ[session].floor)'
<1>n. /\ seen \in Nat /\ asked \in Nat /\ seen <= asked
      /\ \A r \in Reqs : req[r].n \in Nat
      /\ \A e \in Econs : econ[e].floor \in Nat
      /\ \A r \in Reqs : Active(r) => SlotAsked(r)
  BY LoneFacts
<1>w. /\ session \in Econs => OpenIsPast(econ[session].closed, econ[session].floor)
      /\ \A r \in Reqs : Active(r) => SlotWindow(r)
  BY DEF WindowInv
<1>quiet. ASSUME Quiet PROVE SerialInv' /\ WindowInv'
  BY <1>quiet, QuietSerial, QuietWindow
<1>lone. ASSUME NEW r \in Reqs, Alone(r), seen' <= asked', SlotAsked(r)', Entry, SlotWindow(r)'
         PROVE  SerialInv' /\ WindowInv'
  BY <1>lone, AloneKeeps
<1>1. ASSUME NEW r \in Reqs, NEW kind \in Kinds, NEW n \in Lengths, Arrive(r, kind, n)
      PROVE  SerialInv' /\ WindowInv'
  <2>1. /\ Alone(r) /\ SlotAsked(r)'
        /\ session' = session /\ seen' = seen /\ asked <= asked'
        /\ \A e \in Econs : EconTighter(e)
        /\ req'[r].pc = "read" /\ req'[r].econ = None
        /\ ~req'[r].inspect /\ session \in Econs => econ'[session].closed
    BY <1>1, ArriveEffect
  <2>2. asked' \in Nat
    BY <1>1, TypeStep, TranscriptFacts DEF TypeOK, Lengths
  <2>3. seen' <= asked'
    BY <2>1, <2>2, <1>n
  <2>4. Entry
    BY <2>1, <1>w DEF OpenIsPast, EconTighter
  <2>5. SlotWindow(r)'
    BY <2>1, NoneAssumption DEF SlotWindow
  <2> QED BY <2>1, <2>3, <2>4, <2>5, <1>lone
<1>2. ASSUME NEW r \in Reqs, Passthrough(r) \/ ShadowForward(r) \/ SetupGone(r)
      PROVE  SerialInv' /\ WindowInv'
  <2>1. /\ Alone(r)
        /\ session' = session /\ seen' = seen /\ asked' = asked
        /\ \A e \in Econs : EconTighter(e)
        /\ req[r].pc = "read" /\ req'[r] = [req[r] EXCEPT !.pc = "raw"]
        /\ req[r].econ = None
        /\ session \in Econs => econ'[session].closed
    BY <1>2, RawEffect
  <2>2. /\ req'[r].pc = "raw" /\ req'[r].n = req[r].n /\ req'[r].kind = req[r].kind
        /\ req'[r].econ = None /\ req'[r].fresh = req[r].fresh
        /\ req'[r].lane_in = req[r].lane_in /\ req'[r].out_left = req[r].out_left
    BY <2>1 DEF TypeOK, ReqType
  <2>3. SlotAsked(r)'
    BY <2>1, <2>2, <1>n DEF SlotAsked, Active
  <2>4. SlotWindow(r)'
    BY <2>1, <2>2, NoneAssumption DEF SlotWindow
  <2>5. Entry
    BY <2>1, <1>w DEF OpenIsPast, EconTighter
  <2> QED BY <2>1, <2>3, <2>4, <2>5, <1>n, <1>lone
<1>3. ASSUME NEW r \in Reqs, NEW e \in Econs, NEW known \in BOOLEAN, Setup(r, e, known)
      PROVE  SerialInv' /\ WindowInv'
  <2>1. /\ Alone(r)
        /\ session' = e /\ seen' = seen /\ asked' = asked
        /\ req[r].pc = "read" /\ req'[r].pc = "inputs" /\ req'[r].econ = e
        /\ req'[r].n = req[r].n /\ req'[r].kind = req[r].kind
        /\ req'[r].fresh = req[r].fresh /\ req'[r].lane_in = req[r].lane_in
        /\ req'[r].out_left = req[r].out_left
        /\ \/ session = e /\ EconTighter(e) /\ econ'[e].closed = econ[e].closed
           \/ econ'[e].closed
    BY <1>3, SetupEffect
  <2>2. SlotAsked(r)'
    BY <2>1, <1>n DEF SlotAsked, Active
  <2>3. OpenIsPast(econ'[e].closed, econ'[e].floor)
    BY <2>1, <1>w DEF OpenIsPast, EconTighter
  <2>4. Entry /\ SlotWindow(r)'
    BY <2>1, <2>3 DEF OpenIsPast, SlotWindow
  <2> QED BY <2>1, <2>2, <2>4, <1>n, <1>lone
<1>4. ASSUME NEW r \in Reqs, TakeInputs(r) PROVE SerialInv' /\ WindowInv'
  <2> DEFINE e == req[r].econ
  <2>1. /\ Alone(r)
        /\ session' = session /\ seen' = seen /\ asked' = asked
        /\ req[r].pc = "inputs" /\ e \in Econs
        /\ \A d \in Econs : EconTighter(d) /\ econ'[d].closed = econ[d].closed
        /\ req'[r].econ = req[r].econ
        /\ req'[r].n = req[r].n /\ req'[r].kind = req[r].kind
        /\ req'[r].fresh = req[r].fresh /\ req'[r].lane_in = req[r].lane_in
        /\ req'[r].out_left = req[r].out_left
        /\ \/ /\ req'[r].pc = "rewrite"
              /\ req'[r].inputs.closed = econ[e].closed
              /\ req'[r].inputs.floor = econ[e].floor
           \/ req'[r].pc = "stash"
    BY <1>4, TakeEffect
  <2>2. SlotAsked(r) /\ SlotWindow(r)
    BY <2>1, <1>n, <1>w DEF Active
  <2>3. SlotAsked(r)'
    BY <2>1, <2>2 DEF SlotAsked
  <2>4. SlotWindow(r)'
    BY <2>1, <2>2 DEF SlotAsked, SlotWindow, OpenIsPast
  <2>5. Entry
    BY <2>1, <1>w DEF OpenIsPast, EconTighter
  <2> QED BY <2>1, <2>3, <2>4, <2>5, <1>n, <1>lone
<1>5. ASSUME NEW r \in Reqs, Identity(r) PROVE SerialInv' /\ WindowInv'
  <2>1. /\ Alone(r)
        /\ session' = session /\ seen' = seen /\ asked' = asked /\ econ' = econ
        /\ req[r].pc = "rewrite" /\ req'[r].pc = "stash"
        /\ req'[r].econ = req[r].econ
        /\ req'[r].n = req[r].n /\ req'[r].kind = req[r].kind
        /\ req'[r].fresh = req[r].fresh
    BY <1>5, IdentityEffect
  <2>2. SlotAsked(r) /\ SlotWindow(r)
    BY <2>1, <1>n, <1>w DEF Active
  <2>3. SlotAsked(r)' /\ SlotWindow(r)'
    BY <2>1, <2>2 DEF SlotAsked, SlotWindow
  <2>4. Entry
    BY <2>1, <1>w DEF OpenIsPast
  <2> QED BY <2>1, <2>3, <2>4, <1>n, <1>lone
<1>6. ASSUME NEW r \in Reqs, NEW base, Splice(r, base) PROVE SerialInv' /\ WindowInv'
  <2>1. /\ Alone(r)
        /\ session' = session /\ seen' = seen /\ asked' = asked
        /\ req[r].pc = "rewrite"
        /\ \A d \in Econs :
             econ'[d].floor = econ[d].floor /\ econ'[d].closed = econ[d].closed
        /\ req'[r].pc = "stash" /\ req'[r].econ = req[r].econ
        /\ req'[r].n = req[r].n /\ req'[r].kind = req[r].kind
        /\ \A i \in req'[r].fresh :
             i \in 1 .. req[r].n /\ ~req[r].inputs.closed /\ i > req[r].inputs.floor
    BY <1>6, SpliceEffect
  <2>2. SlotAsked(r) /\ SlotWindow(r)
    BY <2>1, <1>n, <1>w DEF Active
  <2>3. SlotAsked(r)'
    BY <2>1, <2>2 DEF SlotAsked
  <2>4. req[r].inputs.floor \in Nat
    BY TranscriptFacts DEF TypeOK, ReqType, Inputs, Lengths
  <2>5. \A i \in req'[r].fresh : i > seen
    BY <2>1, <2>2, <2>4, <1>n DEF SlotWindow, OpenIsPast
  <2>6. SlotWindow(r)'
    BY <2>1, <2>2, <2>5 DEF SlotWindow
  <2>7. Entry
    BY <2>1, <1>w DEF OpenIsPast
  <2> QED BY <2>1, <2>3, <2>6, <2>7, <1>n, <1>lone
<1>7. ASSUME NEW r \in Reqs, Stash(r) PROVE SerialInv' /\ WindowInv'
  <2> DEFINE e == req[r].econ
  <2>1. /\ Alone(r)
        /\ session' = session /\ seen' = seen /\ asked' = asked
        /\ req[r].pc = "stash" /\ e \in Econs
        /\ \A d \in Econs \ {e} : econ'[d] = econ[d]
        /\ \/ req[r].kind # "bad" /\ req[r].n <= econ'[e].floor
           \/ econ'[e].closed = econ[e].closed /\ econ'[e].floor = econ[e].floor
        /\ req'[r].pc = "send" /\ req'[r].econ = e
        /\ req'[r].n = req[r].n /\ req'[r].kind = req[r].kind
        /\ req'[r].fresh = req[r].fresh
    BY <1>7, StashEffect
  <2>2. SlotAsked(r) /\ SlotWindow(r)
    BY <2>1, <1>n, <1>w DEF Active
  <2>3. SlotAsked(r)'
    BY <2>1, <2>2 DEF SlotAsked
  <2>4. SlotWindow(r)'
    BY <2>1, <2>2 DEF SlotWindow
  <2>5. econ'[e].floor \in Nat
    BY <2>1, TypeStep, TranscriptFacts DEF TypeOK, EconType, Lengths
  <2>6. req[r].kind # "bad" => seen <= req[r].n
    BY <2>2, <1>n DEF SlotAsked
  <2>7. session = e => OpenIsPast(econ'[e].closed, econ'[e].floor)
    BY <2>1, <2>5, <2>6, <1>n, <1>w DEF OpenIsPast
  <2>8. Entry
    BY <2>1, <2>7, <1>w DEF OpenIsPast
  <2> QED BY <2>1, <2>3, <2>4, <2>8, <1>n, <1>lone
<1>8. ASSUME NEW r \in Reqs, Send(r) PROVE SerialInv' /\ WindowInv'
  <2> DEFINE e == req[r].econ
  <2>1. /\ Alone(r)
        /\ session' = session /\ seen' = Larger(seen, req[r].n) /\ asked' = asked
        /\ \/ req[r].pc = "send" /\ e \in Econs
           \/ req[r].pc = "raw" /\ e = None
        /\ \A d \in Econs :
             econ'[d].floor = econ[d].floor /\ econ'[d].closed = econ[d].closed
        /\ req'[r].pc = "sent" /\ req'[r].econ = e
        /\ req'[r].n = req[r].n /\ req'[r].kind = req[r].kind
        /\ req'[r].fresh = {} /\ req'[r].lane_in = {} /\ req'[r].out_left = {}
    BY <1>8, SendEffect
  <2>2. SlotAsked(r) /\ SlotWindow(r)
    BY <2>1, <1>n, <1>w DEF Active
  <2>3. SlotAsked(r)'
    BY <2>1, <2>2 DEF SlotAsked
  <2>4. SlotWindow(r)'
    BY <2>1, <2>2 DEF SlotWindow
  <2>5. seen' <= asked'
    BY <2>1, <2>2, <1>n DEF SlotAsked, Larger
  <2>6. ASSUME session \in Econs, ~econ[session].closed PROVE seen' <= econ[session].floor
    <3>1. req[r].pc = "send" /\ e \in Econs
      BY <2>1, <2>2, <2>6 DEF SlotWindow
    <3>2. session = e
      BY <2>2, <2>6, <3>1, NoneAssumption DEF SlotWindow
    <3>3. req[r].n <= econ[e].floor
      BY <3>1, NoneAssumption DEF FloorCoversEgress
    <3>4. seen <= econ[e].floor
      BY <2>6, <3>2, <1>w DEF OpenIsPast
    <3> QED BY <2>1, <3>2, <3>3, <3>4 DEF Larger
  <2>7. Entry
    BY <2>1, <2>6 DEF OpenIsPast
  <2> QED BY <2>1, <2>3, <2>4, <2>5, <2>7, <1>lone
<1>9. ASSUME NEW r \in Reqs, QuietStep(r) PROVE SerialInv' /\ WindowInv'
  BY <1>9, <1>quiet, QuietSteps
<1>10. CASE Control \/ UNCHANGED vars
  BY <1>10, <1>quiet, QuietControl
<1> QED
  BY <1>1, <1>2, <1>3, <1>4, <1>5, <1>6, <1>7, <1>8, <1>9, <1>10
  DEF Next, Client, Handler, QuietStep

(* provably_uncached: with one request in flight at a time and a           *)
(* conversation that only grows, a leaf the fast lane cleans as fresh is   *)
(* past everything upstream has received, whatever is minted, evicted,     *)
(* killed, shadowed or disconnected in between.                            *)
THEOREM FreshIsUncached == Serial /\ AppendOnly => (Spec => []FreshNeverSeen)
<1> SUFFICES ASSUME Serial, AppendOnly PROVE Spec => []FreshNeverSeen
  OBVIOUS
<1>1. Init => SerialInv /\ WindowInv
  <2> SUFFICES ASSUME Init PROVE SerialInv /\ WindowInv
    OBVIOUS
  <2>1. seen <= asked /\ session \notin Econs /\ \A r \in Reqs : ~Active(r)
    BY NoneAssumption DEF Init, Active, IdleReq
  <2> QED BY <2>1 DEF SerialInv, WindowInv
<1>2. Inv /\ SerialInv /\ WindowInv /\ [Next]_vars => SerialInv' /\ WindowInv'
  BY WindowStep DEF Inv
<1>3. WindowInv => FreshNeverSeen
  BY DEF WindowInv, FreshNeverSeen, Active, SlotWindow
<1> QED BY <1>1, <1>2, <1>3, Invariance, PTL DEF Spec

(***************************************************************************)
(* The lane: what was sent with its original bytes is never cleaned later. *)
(***************************************************************************)

\* The session states keep their part when the lane and what was left are
\* kept and neither seen nor asked falls.
LEMMA EconLaneKept ==
    ASSUME NEW e \in Econs, EconLane(e),
           seen \in Nat, seen' \in Nat, asked \in Nat, asked' \in Nat,
           seen <= seen', asked <= asked',
           econ'[e].lane = econ[e].lane, econ'[e].left = econ[e].left
    PROVE  EconLane(e)'
<1>1. \A i \in econ[e].left : i \in 1 .. seen /\ i \in 1 .. seen'
  BY DEF EconLane
<1>2. \A i \in 1 .. Len(Transcript) : i < asked => i < asked'
  BY TranscriptFacts
<1> QED BY <1>1, <1>2 DEF EconLane

\* Every step keeps the lane, if no cleanable content repeats.
LEMMA LaneStep ==
    ASSUME Serial, AppendOnly, CleanableOnce, TypeOK, ShapeInv,
           SerialInv, WindowInv, LaneInv, [Next]_vars
    PROVE  LaneInv'
<1>n. /\ seen \in Nat /\ asked \in Nat /\ seen <= asked
      /\ \A r \in Reqs : req[r].n \in Nat
      /\ \A r \in Reqs : Active(r) => SlotAsked(r)
  BY LoneFacts
<1>p. seen' \in Nat /\ asked' \in Nat /\ asked' <= Len(Transcript)
  BY TypeStep, TranscriptFacts DEF TypeOK, Lengths
<1>l. /\ \A e \in Econs : EconLane(e)
      /\ \A r \in Reqs : Active(r) => SlotLane(r)
  BY DEF LaneInv
<1>quiet. ASSUME Quiet PROVE LaneInv'
  BY <1>quiet, QuietLane
<1>lone. ASSUME NEW r \in Reqs, Alone(r), \A e \in Econs : EconLane(e)', SlotLane(r)'
         PROVE  LaneInv'
  BY <1>lone, AloneKeeps
<1>kept. ASSUME seen' = seen, asked <= asked',
                \A e \in Econs : econ'[e].lane = econ[e].lane /\ econ'[e].left = econ[e].left
         PROVE  \A e \in Econs : EconLane(e)'
  BY <1>kept, <1>n, <1>p, <1>l, EconLaneKept
<1>1. ASSUME NEW r \in Reqs, NEW kind \in Kinds, NEW n \in Lengths, Arrive(r, kind, n)
      PROVE  LaneInv'
  <2>1. /\ Alone(r) /\ seen' = seen /\ asked <= asked'
        /\ \A e \in Econs : EconTighter(e)
        /\ req'[r].pc = "read"
    BY <1>1, ArriveEffect
  <2>2. \A e \in Econs : EconLane(e)'
    BY <2>1, <1>kept DEF EconTighter
  <2>3. SlotLane(r)'
    BY <2>1 DEF SlotLane
  <2> QED BY <2>1, <2>2, <2>3, <1>lone
<1>2. ASSUME NEW r \in Reqs, Passthrough(r) \/ ShadowForward(r) \/ SetupGone(r)
      PROVE  LaneInv'
  <2>1. /\ Alone(r) /\ seen' = seen /\ asked' = asked
        /\ \A e \in Econs : EconTighter(e)
        /\ req'[r] = [req[r] EXCEPT !.pc = "raw"]
    BY <1>2, RawEffect
  <2>2. \A e \in Econs : EconLane(e)'
    BY <2>1, <1>n, <1>kept DEF EconTighter
  <2>3. req'[r].pc = "raw"
    BY <2>1 DEF TypeOK, ReqType
  <2>4. SlotLane(r)'
    BY <2>3 DEF SlotLane
  <2> QED BY <2>1, <2>2, <2>4, <1>lone
<1>3. ASSUME NEW r \in Reqs, NEW e \in Econs, NEW known \in BOOLEAN, Setup(r, e, known)
      PROVE  LaneInv'
  <2>1. /\ Alone(r) /\ seen' = seen /\ asked' = asked
        /\ req'[r].pc = "inputs"
        /\ \A d \in Econs \ {e} : econ'[d] = econ[d]
        /\ \/ econ'[e].lane = econ[e].lane /\ econ'[e].left = econ[e].left
           \/ econ'[e].lane = {} /\ econ'[e].left = {}
    BY <1>3, SetupEffect DEF EconTighter
  <2>2. ASSUME NEW d \in Econs PROVE EconLane(d)'
    <3>1. CASE econ'[d].lane = econ[d].lane /\ econ'[d].left = econ[d].left
      BY <2>1, <3>1, <1>n, <1>p, <1>l, EconLaneKept
    <3>2. CASE econ'[d].lane = {} /\ econ'[d].left = {}
      BY <3>2 DEF EconLane
    <3> QED BY <2>1, <3>1, <3>2
  <2>3. SlotLane(r)'
    BY <2>1 DEF SlotLane
  <2> QED BY <2>1, <2>2, <2>3, <1>lone
<1>4. ASSUME NEW r \in Reqs, TakeInputs(r) PROVE LaneInv'
  <2> DEFINE e == req[r].econ
  <2>1. /\ Alone(r) /\ seen' = seen /\ asked' = asked
        /\ req[r].pc = "inputs" /\ e \in Econs
        /\ \A d \in Econs : EconTighter(d)
        /\ req'[r].econ = e
        /\ req'[r].lane_in = req[r].lane_in /\ req'[r].out_left = req[r].out_left
        /\ \/ req'[r].pc = "rewrite" /\ req'[r].inputs.lane = econ[e].lane
           \/ req'[r].pc = "stash"
    BY <1>4, TakeEffect
  <2>2. \A d \in Econs : EconLane(d)'
    BY <2>1, <1>n, <1>kept DEF EconTighter
  <2>3. SlotAsked(r)
    BY <2>1, <1>n DEF Active
  <2>4. SlotLane(r)'
    BY <2>1, <2>3 DEF SlotLane, SlotAsked, EconTighter
  <2> QED BY <2>1, <2>2, <2>4, <1>lone
<1>5. ASSUME NEW r \in Reqs, Identity(r) PROVE LaneInv'
  <2>1. /\ Alone(r) /\ seen' = seen /\ asked' = asked /\ econ' = econ
        /\ req[r].pc = "rewrite" /\ req'[r].pc = "stash"
        /\ req'[r].lane_in = req[r].lane_in /\ req'[r].out_left = req[r].out_left
    BY <1>5, IdentityEffect
  <2>2. \A d \in Econs : EconLane(d)'
    BY <2>1, <1>n, <1>kept
  <2>3. SlotAsked(r)
    BY <2>1, <1>n DEF Active
  <2>4. SlotLane(r)'
    BY <2>1, <2>3 DEF SlotLane, SlotAsked
  <2> QED BY <2>1, <2>2, <2>4, <1>lone
<1>6. ASSUME NEW r \in Reqs, NEW base, Splice(r, base) PROVE LaneInv'
  <2> DEFINE e == req[r].econ
             n == req[r].n
             new == req'[r].fresh
  <2>1. /\ Alone(r) /\ seen' = seen /\ asked' = asked
        /\ req[r].pc = "rewrite" /\ req[r].kind = "turn" /\ e \in Econs
        /\ \A d \in Econs :
             /\ econ'[d].left = econ[d].left
             /\ d # e => econ'[d].lane = econ[d].lane
        /\ req'[r].pc = "stash" /\ req'[r].econ = e /\ req'[r].n = n
        /\ \A k \in econ'[e].lane :
             k \in econ[e].lane \/ \E i \in new : Transcript[i] = k
        /\ \A i \in new : i \in 1 .. n /\ i < n /\ Transcript[i] \in Cleanable
        /\ \A i \in req'[r].lane_in :
             i \in 1 .. n /\ (i \in new \/ Transcript[i] \in req[r].inputs.lane)
        /\ \A i \in req'[r].out_left :
             /\ i \in 1 .. n /\ Transcript[i] \in Cleanable /\ i \notin new
             /\ i < n => Transcript[i] \notin req[r].inputs.lane
    BY <1>6, SpliceEffect
  <2>2. \A i \in new : i > seen
    <3>2. SlotWindow(r)
      BY <2>1 DEF WindowInv, Active
    <3>3. \A i \in new : ~req[r].inputs.closed /\ i > req[r].inputs.floor
      BY <1>6, SpliceEffect
    <3>4. req[r].inputs.floor \in Nat
      BY TranscriptFacts DEF TypeOK, ReqType, Inputs, Lengths
    <3> QED BY <2>1, <3>2, <3>3, <3>4, <1>n DEF SlotWindow, OpenIsPast
  <2>3. n = asked /\ req[r].inputs.lane = econ[e].lane
    BY <2>1, <1>n, <1>l DEF Active, SlotAsked, SlotLane
  <2>4. 1 .. n \subseteq 1 .. Len(Transcript)
    BY <2>1, <2>3, <1>n, <1>p, TranscriptFacts
  <2>5. EconLane(e)
    BY <2>1, <1>l
  <2>6. ASSUME NEW d \in Econs, d = e PROVE EconLane(d)'
    <3>1. ASSUME NEW i \in econ[e].left PROVE Transcript[i] \notin econ'[e].lane
      <4>1. i \in 1 .. seen /\ Transcript[i] \in Cleanable /\ Transcript[i] \notin econ[e].lane
        BY <2>5 DEF EconLane
      <4>2. i \in 1 .. Len(Transcript)
        BY <4>1, <2>1, <1>n, <1>p, TranscriptFacts
      <4>3. \A j \in new : Transcript[j] # Transcript[i]
        BY <4>1, <4>2, <2>1, <2>2, <2>4, <1>n DEF CleanableOnce
      <4> QED BY <4>1, <4>3, <2>1
    <3>2. ASSUME NEW k \in econ'[e].lane
          PROVE  \E i \in 1 .. Len(Transcript) : i < asked /\ Transcript[i] = k
      BY <2>1, <2>3, <2>4, <2>5 DEF EconLane
    <3> QED BY <3>1, <3>2, <2>1, <2>5, <2>6 DEF EconLane
  <2>7. ASSUME NEW d \in Econs PROVE EconLane(d)'
    <3>1. CASE d = e
      BY <3>1, <2>6
    <3>2. CASE d # e
      BY <2>1, <3>2, <1>n, <1>p, <1>l, EconLaneKept
    <3> QED BY <3>1, <3>2
  <2>8. ASSUME NEW i \in req'[r].out_left PROVE Transcript[i] \notin econ'[e].lane
    <3>1. i \in 1 .. n /\ i \in 1 .. Len(Transcript) /\ Transcript[i] \in Cleanable
      BY <2>1, <2>4
    <3>2. \A j \in new : Transcript[j] # Transcript[i]
      BY <2>1, <2>4, <3>1 DEF CleanableOnce
    <3>3. CASE i < n
      BY <3>2, <3>3, <2>1, <2>3
    <3>4. CASE i = n
      <4>1. Transcript[i] \notin econ[e].lane
        BY <3>1, <3>4, <2>3, <2>5 DEF EconLane, CleanableOnce
      <4> QED BY <4>1, <3>2, <2>1
    <3> QED BY <3>1, <3>3, <3>4, <1>n
  <2>9. req'[r].lane_in \cap econ'[e].left = {}
    <3> SUFFICES ASSUME NEW i \in req'[r].lane_in, i \in econ[e].left PROVE FALSE
      BY <2>1
    <3>1. i \in 1 .. seen /\ Transcript[i] \notin econ[e].lane
      BY <2>5 DEF EconLane
    <3>2. i \in new
      BY <3>1, <2>1, <2>3
    <3> QED BY <3>1, <3>2, <2>2, <1>n
  <2>10. SlotLane(r)'
    BY <2>1, <2>8, <2>9 DEF SlotLane
  <2> QED BY <2>1, <2>7, <2>10, <1>lone
<1>7. ASSUME NEW r \in Reqs, Stash(r) PROVE LaneInv'
  <2> DEFINE e == req[r].econ
  <2>1. /\ Alone(r) /\ seen' = seen /\ asked' = asked
        /\ req[r].pc = "stash" /\ e \in Econs
        /\ \A d \in Econs \ {e} : econ'[d] = econ[d]
        /\ econ'[e].lane = econ[e].lane /\ econ'[e].left = econ[e].left
        /\ req'[r].pc = "send" /\ req'[r].econ = e /\ req'[r].n = req[r].n
        /\ req'[r].lane_in = req[r].lane_in /\ req'[r].out_left = req[r].out_left
    BY <1>7, StashEffect
  <2>2. \A d \in Econs : EconLane(d)'
    <3>1. \A d \in Econs : econ'[d].lane = econ[d].lane /\ econ'[d].left = econ[d].left
      BY <2>1
    <3> QED BY <2>1, <3>1, <1>n, <1>kept
  <2>3. SlotLane(r)
    BY <2>1, <1>l DEF Active
  <2>4. SlotLane(r)'
    BY <2>1, <2>3 DEF SlotLane
  <2> QED BY <2>1, <2>2, <2>4, <1>lone
<1>8. ASSUME NEW r \in Reqs, Send(r) PROVE LaneInv'
  <2> DEFINE e == req[r].econ
  <2>1. /\ Alone(r) /\ seen' = Larger(seen, req[r].n) /\ asked' = asked
        /\ \/ req[r].pc = "send" /\ e \in Econs
           \/ req[r].pc = "raw" /\ e = None
        /\ \A d \in Econs :
             /\ econ'[d].lane = econ[d].lane
             /\ econ'[d].left = IF d = e THEN econ[d].left \cup req[r].out_left
                                ELSE econ[d].left
        /\ req'[r].pc = "sent"
    BY <1>8, SendEffect
  <2>2. seen <= seen' /\ req[r].n <= seen'
    BY <2>1, <1>n DEF Larger
  <2>3. ASSUME NEW d \in Econs PROVE EconLane(d)'
    <3>1. CASE d # e
      <4>1. econ'[d].lane = econ[d].lane /\ econ'[d].left = econ[d].left /\ asked' = asked
        BY <3>1, <2>1
      <4>2. asked <= asked' /\ EconLane(d)
        BY <4>1, <1>n, <1>l
      <4> QED BY <4>1, <4>2, <2>2, <1>n, <1>p, EconLaneKept
    <3>2. CASE d = e
      <4>1. SlotLane(r) /\ req[r].pc = "send"
        BY <2>1, <3>2, <1>l, NoneAssumption DEF Active
      <4>2. \A i \in req[r].out_left :
               /\ i \in 1 .. req[r].n /\ Transcript[i] \in Cleanable
               /\ Transcript[i] \notin econ[d].lane
        BY <3>2, <4>1 DEF SlotLane
      <4>3. EconLane(d)
        BY <1>l
      <4>4. \A i \in econ'[d].left : i \in 1 .. seen'
        <5>1. \A i \in econ'[d].left : i \in 1 .. seen \/ i \in 1 .. req[r].n
          BY <2>1, <4>2, <4>3 DEF EconLane
        <5>2. 1 .. seen \subseteq 1 .. seen' /\ 1 .. req[r].n \subseteq 1 .. seen'
          BY <2>2, <1>n, <1>p
        <5> QED BY <5>1, <5>2
      <4>5. \A i \in econ'[d].left :
               Transcript[i] \in Cleanable /\ Transcript[i] \notin econ[d].lane
        BY <2>1, <4>2, <4>3 DEF EconLane
      <4> QED BY <2>1, <4>3, <4>4, <4>5 DEF EconLane
    <3> QED BY <3>1, <3>2
  <2>4. SlotLane(r)'
    BY <2>1 DEF SlotLane
  <2> QED BY <2>1, <2>3, <2>4, <1>lone
<1>9. ASSUME NEW r \in Reqs, QuietStep(r) PROVE LaneInv'
  BY <1>9, <1>quiet, QuietSteps
<1>10. CASE Control \/ UNCHANGED vars
  BY <1>10, <1>quiet, QuietControl
<1> QED
  BY <1>1, <1>2, <1>3, <1>4, <1>5, <1>6, <1>7, <1>8, <1>9, <1>10
  DEF Next, Client, Handler, QuietStep

(* fast_lane_entries: with such a client and no cleanable content that     *)
(* occurs twice, a leaf once sent with its original bytes is never cleaned *)
(* by the lane again, across plans, disconnects, mints and breaker trips.  *)
(* A repeated leaf refutes it, since its key stands for both positions.    *)
THEOREM SentBytesKept ==
    Serial /\ AppendOnly /\ CleanableOnce => (Spec => []LaneKeepsSentBytes)
<1> SUFFICES ASSUME Serial, AppendOnly, CleanableOnce PROVE Spec => []LaneKeepsSentBytes
  OBVIOUS
<1>1. Init => SerialInv /\ WindowInv /\ LaneInv
  <2> SUFFICES ASSUME Init PROVE SerialInv /\ WindowInv /\ LaneInv
    OBVIOUS
  <2>1. seen <= asked /\ session \notin Econs /\ \A r \in Reqs : ~Active(r)
    BY NoneAssumption DEF Init, Active, IdleReq
  <2>2. \A e \in Econs : econ[e].left = {} /\ econ[e].lane = {}
    BY DEF Init, NewEcon
  <2> QED BY <2>1, <2>2 DEF SerialInv, WindowInv, LaneInv, EconLane
<1>2. Inv /\ SerialInv /\ WindowInv /\ LaneInv /\ [Next]_vars
        => SerialInv' /\ WindowInv' /\ LaneInv'
  BY WindowStep, LaneStep DEF Inv
<1>3. LaneInv => LaneKeepsSentBytes
  BY DEF LaneInv, LaneKeepsSentBytes, Active, SlotLane
<1> QED BY <1>1, <1>2, <1>3, Invariance, PTL DEF Spec
=============================================================================
