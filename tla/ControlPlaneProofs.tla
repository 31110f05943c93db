------------------------- MODULE ControlPlaneProofs -------------------------
(***************************************************************************)
(* For any tokens, versions, upgrades, breaker and bounds: the types of    *)
(* the control plane, that no handed-out token is lost silently, that a    *)
(* crash loop is bounded, and that a verified child is not replaced for    *)
(* its version.                                                            *)
(*                                                                         *)
(* The inductive invariant says who may hold the seam's session in each    *)
(* state of the supervisor, where a token may be that the served child     *)
(* does not know yet, and how the breaker's count runs ahead of the        *)
(* respawns.                                                               *)
(***************************************************************************)
EXTENDS ControlPlane, SequenceTheorems, TLAPS

\* Serve has made the child the session and has not let go of it.
Holds(c) == serve[c].pc \in {"set", "noted", "snapped", "open"}

\* The supervisor waits for a child it has spawned.
Awaiting(c) == sup.pc = "await" /\ managed = c

\* A child has its Serve goroutine until the channel is closed, and a port to
\* bind; only a child that wrote a register frame is ever the session.
Attended(c) ==
    /\ child[c].pc = "none" => serve[c].pc = "none"
    /\ child[c].pc # "none" => child[c].port # None
    /\ child[c].pc \in {"none", "starting"} => ~child[c].reg
    /\ child[c].pc = "starting" => serve[c].pc = "wait"
    /\ child[c].pc \in {"serving", "gone"} => serve[c].pc # "none"
    /\ child[c].pc \in {"serving", "standalone"} => child[c].reg
    /\ Holds(c) => child[c].reg

AllAttended == \A c \in Children : Attended(c)

\* The supervisor is in a replacement, in a revival, or in neither.
WhyMatches ==
    /\ sup.pc = "await" => managed # None
    /\ sup.pc \in {"shutdown", "gone", "reap", "reaped"} => sup.why = "replace"
    /\ sup.pc \in {"revive", "died", "breaker"} => sup.why = "revive"
    /\ sup.pc \in {"verify", "snapshot", "repush"} => sup.why # "boot"

\* The session is the child whose Serve goroutine holds it; a child that may
\* still register is the one awaited.
SessionOwned ==
    /\ \A c \in Children : Holds(c) <=> session = c
    /\ \A c \in Children :
        serve[c].pc = "wait" /\ (child[c].pc # "gone" \/ child[c].reg) => Awaiting(c)
    /\ sup.pc = "await" => session \in {None, managed}
    /\ session # None /\ ident = None => Awaiting(session) /\ serve[session].pc = "set"
    /\ sup.pc \in {"revive", "died"} => session = None

\* No token is handed out before the first child is noted.
TokensAfterPort ==
    /\ port = None => tokens = {}
    /\ sup.why = "boot" /\ sup.pc = "ensure" =>
        port = None /\ \A c \in Children : child[c].pc = "none"
    /\ sup.why = "boot" /\ sup.pc = "await" /\ port # None =>
        serve[managed].pc \notin {"wait", "set"}

\* A frame that mints the token has been written to the child.
InChan(t, c) == \E i \in 1 .. Len(chan[c]) : chan[c][i] = [kind |-> "mint", arg |-> t]

\* The token is known to the child, on its way to it, still to be pushed, or
\* its push was reported as failed.
OnItsWay(t, c) ==
    \/ t \in child[c].tokens
    \/ InChan(t, c)
    \/ t \in minting
    \/ t \in unpushed
    \/ sup.pc \in {"await", "verify", "snapshot"} /\ sup.why # "boot"
    \/ sup.pc = "repush" /\ t \in sup.todo

TokensKept ==
    session # None /\ child[session].pc = "serving" =>
        \A t \in tokens : OnItsWay(t, session)

\* Every verified respawn was counted before, as the death it answers.
DeathsCounted ==
    /\ spree < ReviveBreaker
    /\ spree <= sup.hazard
    /\ sup.sawUnhealthy => spree + 1 <= sup.hazard
    /\ sup.pc \in {"died", "breaker"} => sup.sawUnhealthy
    /\ sup.pc \in {"ensure", "await", "verify"} /\ sup.why = "revive" =>
        sup.sawUnhealthy /\ sup.hazard < ReviveBreaker

TypeInv == TypeOK /\ WhyMatches

IInv == TypeInv /\ AllAttended /\ SessionOwned /\ TokensAfterPort /\ TokensKept /\ DeathsCounted

\* Without an upgrade there is one version, and a verified spawn knows it.
OneVersion ==
    /\ disk = DiskVersion
    /\ ident \in {None, DiskVersion}
    /\ \A c \in Children : child[c].pc # "none" => child[c].ver = DiskVersion
    /\ verified # None => sup.spawnedSkew = DiskVersion \/ DiskVersion = MyVersion
    /\ flaps = 0

-----------------------------------------------------------------------------
(***************************************************************************)
(* Types.                                                                  *)
(***************************************************************************)

\* The states of the supervisor's loop.
SupPcs == {"ensure", "await", "grace", "idle", "revive", "died", "breaker", "verify",
           "snapshot", "repush", "shutdown", "gone", "reap", "reaped"}

(* A failed spawn delays the next.                                         *)
LEMMA FailureType == \A s \in SupType : noteSpawnFailure(s) \in SupType
BY DEF noteSpawnFailure, SupType

\* The types hold at first,
LEMMA InitType == Init => TypeInv
<1> SUFFICES ASSUME Init PROVE TypeInv
    OBVIOUS
<1>1. Off \in SwitchType
    BY DEF Off, SwitchType
<1>2. NoChild \in ChildType /\ NoServe \in ServeType /\ <<>> \in Seq(FrameType)
    BY <1>1 DEF NoChild, NoServe, ChildType, ServeType
<1>3. sup \in SupType
    BY DEF Init, SupType
<1>4. /\ child \in [Children -> ChildType] /\ serve \in [Children -> ServeType]
      /\ chan \in [Children -> Seq(FrameType)]
    BY <1>2 DEF Init
<1>6. /\ disk \in Nat /\ faults \in 0 .. MaxFaults /\ toggled \in 0 .. MaxToggles
      /\ spree \in Nat /\ flaps \in Nat
    BY BoundsAssumption DEF Init
<1>7. TypeOK
    BY <1>1, <1>3, <1>4, <1>6 DEF Init, TypeOK
<1>5. WhyMatches
    BY DEF Init, WhyMatches
<1> QED BY <1>5, <1>7 DEF TypeInv

(* A frame appended to the session's channel keeps its type.               *)
LEMMA WrittenType ==
    ASSUME TypeOK, Listening, NEW f \in FrameType
    PROVE  Written(f) \in [Children -> Seq(FrameType)]
<1>1. session \in Children
    BY DEF Listening, Connected, TypeOK
<1>2. Append(chan[session], f) \in Seq(FrameType)
    BY <1>1 DEF TypeOK
<1> QED BY <1>2 DEF Written, TypeOK

(* A send appends the frame, a piece of it or nothing to the channel.      *)
LEMMA SendType ==
    ASSUME TypeOK, NEW kind, NEW arg, [kind |-> kind, arg |-> arg] \in FrameType,
           Send(kind, arg)
    PROVE  chan' \in [Children -> Seq(FrameType)] /\ faults' \in 0 .. MaxFaults
<1> DEFINE f == [kind |-> kind, arg |-> arg]
<1>1. f \in FrameType /\ Torn \in FrameType
    BY DEF Torn, FrameType
<1>2. \/ chan' = chan
      \/ Listening /\ (chan' = Written(Torn) \/ chan' = Written(f))
    BY DEF Send, SendDone, SendFails
<1>3. faults' = faults \/ (faults < MaxFaults /\ faults' = faults + 1)
    BY DEF Send, SendDone, SendFails
<1>4. faults' \in 0 .. MaxFaults
    BY <1>3, BoundsAssumption DEF TypeOK
<1> HIDE DEF f
<1> QED BY <1>1, <1>2, <1>4, WrittenType DEF TypeOK

(* A push of a token is a send of its mint frame.                          *)
LEMMA MintType ==
    ASSUME TypeOK, NEW t \in Tokens, SendMint(t)
    PROVE  /\ Send("mint", t) /\ unpushed' \in {unpushed \ {t}, unpushed \cup {t}}
           /\ chan' \in [Children -> Seq(FrameType)] /\ faults' \in 0 .. MaxFaults
           /\ unpushed' \subseteq Tokens
<1>1. [kind |-> "mint", arg |-> t] \in FrameType
    BY DEF FrameType
<1>2. Send("mint", t) /\ unpushed' \in {unpushed \ {t}, unpushed \cup {t}}
    BY DEF SendMint, Send
<1>3. unpushed' \subseteq Tokens
    BY <1>2 DEF TypeOK
<1> QED BY <1>1, <1>2, <1>3, SendType

(* An empty slot.                                                          *)
LEMMA NoChildType == NoChild \in ChildType
<1>1. Off \in SwitchType
    BY DEF Off, SwitchType
<1> QED BY <1>1 DEF NoChild, ChildType

(* A process that ends leaves a record of its type and an empty channel.   *)
LEMMA EndType ==
    ASSUME TypeOK, NEW c \in Children, End(c)
    PROVE  child' \in [Children -> ChildType] /\ chan' \in [Children -> Seq(FrameType)]
<1>1. child[c] \in ChildType /\ Off \in SwitchType
    BY DEF TypeOK, Off, SwitchType
<1>2. Ended(c) \in ChildType
    BY <1>1, NoChildType DEF Ended, ChildType
<1>3. <<>> \in Seq(FrameType)
    OBVIOUS
<1> QED BY <1>2, <1>3 DEF End, TypeOK

(* Serve and the child keep the types.                                     *)
LEMMA ChildTypeStep ==
    ASSUME TypeInv, NEW c \in Children,
           Serve(c) \/ ChildRegister(c) \/ BindFails(c) \/ ChildApply(c) \/ Crash(c)
    PROVE  TypeOK'
<1>t. TypeOK /\ child[c] \in ChildType /\ serve[c] \in ServeType /\ Off \in SwitchType
      /\ chan[c] \in Seq(FrameType)
    BY DEF TypeInv, TypeOK, Off, SwitchType
<1>0. \A p \in {"set", "noted", "none"} : [serve[c] EXCEPT !.pc = p] \in ServeType
    BY <1>t DEF ServeType
<1>r. ServeReturns(c) => child' \in [Children -> ChildType] /\ serve' \in [Children -> ServeType]
    BY <1>t, <1>0, NoChildType DEF ServeReturns, TypeOK
<1>1. CASE ServeRegister(c)
    BY <1>1, <1>0, <1>t DEF ServeRegister, TypeOK, daemon, bounds, history
<1>2. CASE ServeReject(c)
    BY <1>2, <1>r, <1>t DEF ServeReject, TypeOK, daemon, bounds, history
<1>3. CASE OnRegister(c)
    <2>1. child[c].ver \in Nat /\ child[c].port \in Children \cup {None}
        BY <1>t DEF ChildType
    <2> QED BY <1>3, <1>0, <1>t, <2>1 DEF OnRegister, TypeOK, bounds, history
<1>4. CASE ServeSnapshot(c)
    <2>1. [pc |-> "snapped", snap |-> switch] \in ServeType
        BY <1>t DEF TypeOK, ServeType
    <2> QED BY <1>4, <1>t, <2>1 DEF ServeSnapshot, TypeOK, daemon, bounds, history
<1>5. CASE ServeWrite(c)
    <2>1. [pc |-> "open", snap |-> Off] \in ServeType /\ serve[c].snap \in SwitchType
        BY <1>t DEF ServeType
    <2> QED BY <1>5, <1>t, <2>1 DEF ServeWrite, TypeOK, bounds, history
<1>6. CASE ServeEnds(c)
    BY <1>6, <1>r, <1>t DEF ServeEnds, clearConn, TypeOK, daemon, bounds, history
<1>7. CASE ChildRegister(c)
    <2>1. [child[c] EXCEPT !.pc = "serving", !.reg = TRUE] \in ChildType
        BY <1>t DEF ChildType
    <2> QED BY <1>7, <1>t, <2>1 DEF ChildRegister, TypeOK, daemon, bounds, history
<1>8. CASE ChildApply(c)
    <2>1. child' \in [Children -> ChildType] /\ chan' \in [Children -> Seq(FrameType)]
        <3> DEFINE f == Head(chan[c])
        <3>1. f \in FrameType /\ Tail(chan[c]) \in Seq(FrameType)
            BY <1>8, <1>t DEF ChildApply
        <3>2. CASE End(c)
            BY <3>2, <1>t, EndType
        <3>3. CASE /\ f.kind = "mint"
                   /\ child' = [child EXCEPT ![c].tokens = @ \cup {f.arg}]
                   /\ chan' = [chan EXCEPT ![c] = Tail(@)]
            <4>1. f.arg \in Tokens
                BY <3>1, <3>3, BoundsAssumption DEF FrameType
            <4> HIDE DEF f
            <4>2. [child[c] EXCEPT !.tokens = @ \cup {f.arg}] \in ChildType
                BY <1>t, <4>1 DEF ChildType
            <4> QED BY <3>1, <3>3, <4>2, <1>t DEF TypeOK
        <3>4. CASE /\ f.kind \in Switches
                   /\ child' = [child EXCEPT ![c].switch[f.kind] = f.arg]
                   /\ chan' = [chan EXCEPT ![c] = Tail(@)]
            <4>1. f.arg \in BOOLEAN
                BY <3>1, <3>4, BoundsAssumption DEF FrameType
            <4> HIDE DEF f
            <4>2. [child[c].switch EXCEPT ![f.kind] = f.arg] \in SwitchType
                BY <1>t, <4>1 DEF ChildType, SwitchType
            <4>3. [child[c] EXCEPT !.switch = [child[c].switch EXCEPT ![f.kind] = f.arg]]
                    \in ChildType
                BY <1>t, <4>2 DEF ChildType
            <4>4. child' = [child EXCEPT ![c] =
                    [child[c] EXCEPT !.switch = [child[c].switch EXCEPT ![f.kind] = f.arg]]]
                BY <3>4
            <4> QED BY <3>1, <3>4, <4>3, <4>4, <1>t DEF TypeOK
        <3>5. CASE /\ child' = [child EXCEPT ![c].pc = "standalone"]
                   /\ chan' = [chan EXCEPT ![c] = <<>>]
            <4>1. [child[c] EXCEPT !.pc = "standalone"] \in ChildType
                BY <1>t DEF ChildType
            <4>2. <<>> \in Seq(FrameType)
                OBVIOUS
            <4> QED BY <3>5, <4>1, <4>2, <1>t DEF TypeOK
        <3> QED BY <1>8, <3>2, <3>3, <3>4, <3>5 DEF ChildApply
    <2> QED BY <1>8, <2>1, <1>t DEF ChildApply, TypeOK, daemon, bounds, history
<1>9. CASE Crash(c)
    <2>1. child' \in [Children -> ChildType] /\ chan' \in [Children -> Seq(FrameType)]
        BY <1>9, <1>t, EndType DEF Crash
    <2>2. faults' \in 0 .. MaxFaults
        BY <1>9, <1>t, BoundsAssumption DEF Crash, TypeOK
    <2> QED BY <1>9, <2>1, <2>2, <1>t DEF Crash, TypeOK, daemon, history
<1>10. CASE BindFails(c)
    <2>1. child' \in [Children -> ChildType] /\ chan' \in [Children -> Seq(FrameType)]
        BY <1>10, <1>t, EndType DEF BindFails
    <2> QED BY <1>10, <2>1, <1>t DEF BindFails, TypeOK, daemon, bounds, history
<1> QED BY <1>1, <1>2, <1>3, <1>4, <1>5, <1>6, <1>7, <1>8, <1>9, <1>10 DEF Serve

(* The control handlers and the operator keep the types.                   *)
LEMMA HandlerTypeStep ==
    ASSUME TypeOK,
           \/ Upgrade
           \/ \E t \in Tokens : HandleMint(t) \/ MintPush(t)
           \/ \E op \in Switches, on \in BOOLEAN : HandleToggle(op, on)
           \/ \E j \in jobs : Toggle(j)
    PROVE  TypeOK'
<1>t. switch \in SwitchType /\ Off \in SwitchType /\ toggled \in Nat
    BY BoundsAssumption DEF TypeOK, Off, SwitchType
<1>1. CASE Upgrade
    BY <1>1 DEF Upgrade, TypeOK, wires, daemon, history
<1>2. ASSUME NEW t \in Tokens, HandleMint(t) PROVE TypeOK'
    BY <1>2 DEF HandleMint, TypeOK, wires, bounds, history
<1>3. ASSUME NEW t \in Tokens, MintPush(t) PROVE TypeOK'
    <2>1. /\ chan' \in [Children -> Seq(FrameType)] /\ faults' \in 0 .. MaxFaults
          /\ unpushed' \subseteq Tokens
        BY <1>3, MintType DEF MintPush
    <2> QED BY <1>3, <2>1 DEF MintPush, TypeOK
<1>4. ASSUME NEW op \in Switches, NEW on \in BOOLEAN, HandleToggle(op, on) PROVE TypeOK'
    <2>1. [id |-> toggled, op |-> op, on |-> on, pc |-> "send", snap |-> Off] \in JobType
        BY <1>t DEF JobType
    <2>2. switch' \in SwitchType
        BY <1>4, <1>t DEF HandleToggle, SwitchType
    <2>3. toggled' \in 0 .. MaxToggles
        BY <1>4, <1>t, BoundsAssumption DEF HandleToggle, TypeOK
    <2> QED BY <1>4, <2>1, <2>2, <2>3 DEF HandleToggle, TypeOK, wires, history
<1>5. ASSUME NEW j \in jobs, Toggle(j) PROVE TypeOK'
    <2>t. j \in JobType
        BY DEF TypeOK
    <2>1. CASE TogglePush(j)
        <3>1. [kind |-> j.op, arg |-> j.on] \in FrameType
            BY <2>t DEF FrameType, JobType
        <3>2. chan' \in [Children -> Seq(FrameType)] /\ faults' \in 0 .. MaxFaults
            BY <2>1, <3>1, SendType DEF TogglePush
        <3>3. [j EXCEPT !.pc = "publish"] \in JobType
            BY <2>t DEF JobType
        <3> QED BY <2>1, <3>2, <3>3 DEF TogglePush, TypeOK, history
    <2>2. CASE ToggleSnapshot(j)
        <3>1. [j EXCEPT !.pc = "write", !.snap = switch] \in JobType
            BY <1>t, <2>t DEF JobType
        <3> QED BY <2>2, <3>1 DEF ToggleSnapshot, TypeOK, wires, bounds, history
    <2>3. CASE ToggleWrite(j)
        <3>1. j.snap \in SwitchType
            BY <2>t DEF JobType
        <3> QED BY <2>3, <3>1 DEF ToggleWrite, TypeOK, wires, bounds, history
    <2> QED BY <1>5, <2>1, <2>2, <2>3 DEF Toggle
<1> QED BY <1>1, <1>2, <1>3, <1>4, <1>5

(* The supervisor keeps the types: its record, and what it does to the     *)
(* children.                                                               *)
LEMMA SuperviseTypeStep ==
    ASSUME TypeInv, Supervise
    PROVE  TypeOK'
<1>t. TypeOK /\ sup \in SupType /\ tokens \in SUBSET Tokens /\ spree \in Nat
    BY DEF TypeInv, TypeOK
<1>f. /\ sup.hazard \in Nat /\ sup.todo \in SUBSET Tokens
      /\ sup.sawUnhealthy \in BOOLEAN /\ sup.acked \in BOOLEAN
    BY <1>t DEF SupType
<1>e. Ensured(sup) \in SupType /\ NotEnsured(sup) \in SupType
    <2>1. \A p \in {"grace", "verify", "idle"} : [sup EXCEPT !.pc = p] \in SupType
        BY <1>t DEF SupType
    <2>2. noteSpawnFailure([sup EXCEPT !.pc = "idle"]) \in SupType
        BY <2>1, FailureType
    <2> QED BY <2>1, <2>2 DEF Ensured, NotEnsured
<1>p. \A p \in SupPcs : [sup EXCEPT !.pc = p] \in SupType
    BY <1>t DEF SupType, SupPcs
<1>q. /\ "await" \in SupPcs /\ "idle" \in SupPcs /\ "shutdown" \in SupPcs
      /\ "revive" \in SupPcs /\ "died" \in SupPcs /\ "breaker" \in SupPcs
      /\ "ensure" \in SupPcs /\ "snapshot" \in SupPcs /\ "repush" \in SupPcs
      /\ "gone" \in SupPcs /\ "reap" \in SupPcs /\ "reaped" \in SupPcs
    BY DEF SupPcs
<1>1. ASSUME sup' \in SupType, spree' \in Nat,
             UNCHANGED <<wires, ident, managed, daemon, bounds, verified, flaps, unpushed>>
      PROVE  TypeOK'
    BY <1>1, <1>t DEF TypeOK, wires, daemon, bounds
<1>2. CASE EnsureAlready \/ AwaitReady
    BY <1>2, <1>1, <1>e, <1>t DEF EnsureAlready, AwaitReady, history
<1>3. CASE Spawn
    <2>1. PICK c \in Children :
            /\ child' = [child EXCEPT ![c] =
                            [NoChild EXCEPT !.pc = "starting", !.ver = disk,
                                            !.port = IF port = None THEN c ELSE port]]
            /\ serve' = [serve EXCEPT ![c].pc = "wait"]
            /\ managed' = c
            /\ verified' \in {None, verified}
        BY <1>3 DEF Spawn
    <2> DEFINE p == IF port = None THEN c ELSE port
    <2>2. p \in Children \cup {None} /\ serve[c] \in ServeType /\ disk \in Nat
        BY <1>t DEF TypeOK
    <2> HIDE DEF p
    <2>3. /\ [NoChild EXCEPT !.pc = "starting", !.ver = disk, !.port = p] \in ChildType
          /\ [serve[c] EXCEPT !.pc = "wait"] \in ServeType
        BY <2>2, NoChildType DEF ChildType, ServeType
    <2>4. child' \in [Children -> ChildType] /\ serve' \in [Children -> ServeType]
        BY <2>1, <2>3, <1>t DEF TypeOK, p
    <2>5. sup' \in SupType
        BY <1>3, <1>p, <1>q DEF Spawn
    <2>6. UNCHANGED <<chan, session, ident, daemon, bounds, spree, flaps, unpushed>>
        BY <1>3 DEF Spawn
    <2> QED BY <2>1, <2>4, <2>5, <2>6, <1>t DEF TypeOK, daemon, bounds
<1>4. CASE SpawnFails
    <2>1. faults' \in 0 .. MaxFaults
        BY <1>4, <1>t, BoundsAssumption DEF SpawnFails, TypeOK
    <2> QED BY <1>4, <2>1, <1>e, <1>t DEF SpawnFails, TypeOK, wires, daemon, history
<1>5. CASE AwaitTimeout \/ StopFails
    <2>1. managed \in Children
        BY <1>5, <1>t DEF AwaitTimeout, StopFails, DeadlinePasses, TypeInv, TypeOK, WhyMatches
    <2>2. child' \in [Children -> ChildType] /\ chan' \in [Children -> Seq(FrameType)]
        BY <1>5, <2>1, <1>t, EndType DEF AwaitTimeout, StopFails, TypeOK
    <2>3. faults' \in 0 .. MaxFaults
        BY <1>5, <1>t, BoundsAssumption DEF AwaitTimeout, StopFails, TypeOK
    <2> QED BY <1>5, <2>2, <2>3, <1>e, <1>t
            DEF AwaitTimeout, StopFails, DeadlinePasses, TypeOK, daemon, history
<1>6. CASE StartLoop \/ NoDeath \/ Retreat \/ Backoff \/ Revive \/ RepushDone
    BY <1>6, <1>1, <1>p, <1>q, <1>t
    DEF StartLoop, NoDeath, Retreat, Backoff, Revive, RepushDone, history
<1>7. CASE TickSettled
    <2>1. (IF ident = MyVersion THEN 0 ELSE sup.hazard) \in Nat
        BY <1>f
    <2>2. sup' \in SupType
        <3> DEFINE k == IF ident = MyVersion THEN 0 ELSE sup.hazard
        <3>1. sup' = [sup EXCEPT !.sawUnhealthy = FALSE, !.retryAt = FALSE, !.hazard = k]
            BY <1>7 DEF TickSettled
        <3> HIDE DEF k
        <3> QED BY <3>1, <2>1, <1>t DEF SupType, k
    <2> QED BY <1>7, <1>1, <2>2, <1>t DEF TickSettled
<1>8. CASE TickSkew
    <2>1. [sup EXCEPT !.sawUnhealthy = FALSE, !.pc = "shutdown", !.why = "replace"] \in SupType
        BY <1>t DEF SupType
    <2>2. flaps' \in Nat /\ verified' \in Children \cup {None}
        BY <1>8, <1>t DEF TickSkew, TypeOK
    <2> QED BY <1>8, <2>1, <2>2, <1>t DEF TickSkew, TypeOK, wires, daemon, bounds
<1>9. CASE TickDown
    <2>1. [sup EXCEPT !.pc = "revive", !.why = "revive"] \in SupType
        BY <1>t DEF SupType
    <2> QED BY <1>9, <1>1, <2>1, <1>t DEF TickDown, history
<1>10. CASE CountDeath
    <2>1. PICK k \in {sup.hazard + 1, 1} :
            sup' = [sup EXCEPT !.pc = "died", !.sawUnhealthy = TRUE, !.hazard = k]
        BY <1>10 DEF CountDeath
    <2>2. k \in Nat
        BY <1>f
    <2>3. sup' \in SupType
        BY <2>1, <2>2, <1>t DEF SupType
    <2>4. spree' \in Nat
        BY <1>10, <1>t DEF CountDeath
    <2>5. UNCHANGED <<wires, ident, managed, daemon, bounds, verified, flaps, unpushed>>
        BY <1>10 DEF CountDeath
    <2> QED BY <1>1, <2>3, <2>4, <2>5
<1>11. CASE ChildDied
    BY <1>11, <1>p, <1>q, <1>t DEF ChildDied, TypeOK, wires, daemon, bounds, history
<1>12. CASE Verify
    <2> DEFINE b == IF sup.why = "revive" THEN FALSE ELSE sup.sawUnhealthy
    <2> DEFINE r == [sup EXCEPT !.pc = "snapshot", !.retryAt = FALSE, !.sawUnhealthy = b]
    <2> DEFINE v == IF ident = MyVersion THEN None ELSE ident
    <2>1. b \in BOOLEAN
        BY <1>f
    <2>2. v \in Nat \cup {None}
        BY <1>t DEF TypeOK
    <2>3. sup' = [r EXCEPT !.spawnedSkew = v]
        BY <1>12 DEF Verify, noteSpawnedVersion
    <2> HIDE DEF b, v
    <2>4. r \in SupType
        BY <2>1, <1>t DEF SupType
    <2> HIDE DEF r
    <2>5. sup' \in SupType
        BY <2>2, <2>3, <2>4 DEF SupType
    <2>6. session \in Children /\ spree' \in Nat
        BY <1>12, <1>t DEF Verify, Registered, Connected, TypeOK
    <2> QED BY <1>12, <2>5, <2>6, <1>t DEF Verify, TypeOK, wires, daemon, bounds
<1>13. CASE VerifyFails
    <2>1. [sup EXCEPT !.pc = "idle"] \in SupType
        BY <1>p, <1>q
    <2>2. noteSpawnFailure([sup EXCEPT !.pc = "idle"]) \in SupType
        BY <2>1, FailureType
    <2> QED BY <1>13, <1>1, <2>2, <1>t DEF VerifyFails, history
<1>14. CASE RepushSnapshot
    <2>1. [sup EXCEPT !.pc = "repush", !.todo = tokens] \in SupType
        BY <1>t DEF SupType
    <2> QED BY <1>14, <1>1, <2>1, <1>t DEF RepushSnapshot, history
<1>15. ASSUME NEW t \in Tokens, Repush(t) PROVE TypeOK'
    <2>2. /\ chan' \in [Children -> Seq(FrameType)] /\ faults' \in 0 .. MaxFaults
          /\ unpushed' \subseteq Tokens
        BY <1>15, <1>t, MintType DEF Repush
    <2>3. sup' \in SupType
        <3> DEFINE T == sup.todo \ {t}
        <3>1. T \in SUBSET Tokens
            BY <1>f
        <3>2. sup' = [sup EXCEPT !.todo = T]
            BY <1>15 DEF Repush
        <3> HIDE DEF T
        <3> QED BY <3>1, <3>2, <1>t DEF SupType
    <2> QED BY <1>15, <2>2, <2>3, <1>t DEF Repush, TypeOK, daemon
<1>16. CASE Shutdown
    <2>1. [kind |-> "shutdown", arg |-> None] \in FrameType
        BY DEF FrameType
    <2>2. chan' \in [Children -> Seq(FrameType)] /\ faults' \in 0 .. MaxFaults
        BY <1>16, <1>t, <2>1, SendType DEF Shutdown, Send
    <2>3. sup' \in SupType
        <3>1. \A b \in BOOLEAN : [sup EXCEPT !.pc = "gone", !.acked = b] \in SupType
            BY <1>t DEF SupType
        <3> QED BY <1>16, <3>1 DEF Shutdown
    <2> QED BY <1>16, <2>2, <2>3, <1>t DEF Shutdown, TypeOK, daemon, history
<1>17. CASE WaitGone
    <2>1. [sup EXCEPT !.pc = "ensure", !.acked = FALSE] \in SupType
        BY <1>t DEF SupType
    <2> QED BY <1>17, <1>1, <2>1, <1>t DEF WaitGone, history
<1>18. CASE WaitGoneTimeout
    <2>1. \A p \in {"reap", "idle"} : [sup EXCEPT !.pc = p, !.acked = FALSE] \in SupType
        BY <1>t DEF SupType
    <2> QED BY <1>18, <1>1, <2>1, <1>t DEF WaitGoneTimeout, history
<1>19. CASE reapWedged
    <2>1. /\ child' \in [Children -> ChildType] /\ chan' \in [Children -> Seq(FrameType)]
          /\ managed' \in Children \cup {None}
        BY <1>19, <1>t, EndType DEF reapWedged, TypeOK
    <2>2. faults' \in 0 .. MaxFaults
        BY <1>19, <1>t, BoundsAssumption DEF reapWedged, TypeOK
    <2>3. sup' \in SupType
        BY <1>19, <1>p, <1>q DEF reapWedged
    <2> QED BY <1>19, <2>1, <2>2, <2>3, <1>t DEF reapWedged, TypeOK, daemon, history
<1> QED
    BY <1>2, <1>3, <1>4, <1>5, <1>6, <1>7, <1>8, <1>9, <1>10, <1>11, <1>12, <1>13, <1>14,
       <1>15, <1>16, <1>17, <1>18, <1>19 DEF Supervise

\* The supervisor goes to pc p and keeps its reason, its count of deaths and
\* the tokens it has to push.
Moved(p) ==
    /\ sup'.pc = p
    /\ sup'.why = sup.why /\ sup'.todo = sup.todo
    /\ sup'.hazard = sup.hazard /\ sup'.sawUnhealthy = sup.sawUnhealthy
    /\ sup'.spawnedSkew = sup.spawnedSkew

(* What each step of the supervisor does to its record.                    *)
LEMMA SupMoves ==
    ASSUME sup \in SupType
    PROVE  /\ EnsureAlready \/ AwaitReady =>
                Moved(IF sup.why = "boot" THEN "grace" ELSE "verify")
           /\ SpawnFails \/ AwaitTimeout \/ StopFails =>
                Moved(IF sup.why = "boot" THEN "grace" ELSE "idle")
           /\ Spawn => Moved("await")
           /\ StartLoop \/ Retreat \/ Backoff \/ RepushDone \/ VerifyFails => Moved("idle")
           /\ NoDeath \/ ChildDied => Moved("breaker")
           /\ Revive \/ WaitGone => Moved("ensure")
           /\ Shutdown => Moved("gone")
           /\ WaitGoneTimeout => Moved("reap") \/ Moved("idle")
           /\ reapWedged => Moved("ensure") \/ Moved("reaped") \/ Moved("idle")
           /\ TickSettled => /\ sup'.pc = "idle" /\ sup'.why = sup.why /\ ~sup'.sawUnhealthy
                             /\ sup'.hazard = (IF ident = MyVersion THEN 0 ELSE sup.hazard)
                             /\ sup'.spawnedSkew = sup.spawnedSkew
           /\ TickSkew => /\ sup'.pc = "shutdown" /\ sup'.why = "replace"
                          /\ ~sup'.sawUnhealthy /\ sup'.hazard = sup.hazard
                          /\ sup'.spawnedSkew = sup.spawnedSkew
           /\ TickDown => /\ sup'.pc = "revive" /\ sup'.why = "revive"
                          /\ sup'.sawUnhealthy = sup.sawUnhealthy /\ sup'.hazard = sup.hazard
                          /\ sup'.spawnedSkew = sup.spawnedSkew
           /\ CountDeath => /\ sup'.pc = "died" /\ sup'.why = sup.why /\ sup'.sawUnhealthy
                            /\ sup'.spawnedSkew = sup.spawnedSkew
                            /\ \/ sup'.hazard = sup.hazard + 1 /\ spree' = spree
                               \/ sup'.hazard = 1 /\ spree' = 0
           /\ Verify => /\ sup'.pc = "snapshot" /\ sup'.why = sup.why
                        /\ sup'.hazard = sup.hazard
                        /\ sup'.sawUnhealthy => sup.sawUnhealthy /\ sup.why # "revive"
                        /\ sup'.spawnedSkew = IF ident = MyVersion THEN None ELSE ident
           /\ RepushSnapshot => /\ sup'.pc = "repush" /\ sup'.why = sup.why
                                /\ sup'.todo = tokens /\ sup'.hazard = sup.hazard
                                /\ sup'.sawUnhealthy = sup.sawUnhealthy
                                /\ sup'.spawnedSkew = sup.spawnedSkew
           /\ \A t \in Tokens : Repush(t) =>
                /\ sup'.pc = "repush" /\ sup'.why = sup.why /\ sup'.todo = sup.todo \ {t}
                /\ sup'.hazard = sup.hazard /\ sup'.sawUnhealthy = sup.sawUnhealthy
                /\ sup'.spawnedSkew = sup.spawnedSkew
<1>0. \A p \in SupPcs : sup' = [sup EXCEPT !.pc = p] => Moved(p)
    BY DEF SupType, SupPcs, Moved
<1>p. /\ "grace" \in SupPcs /\ "verify" \in SupPcs /\ "idle" \in SupPcs /\ "await" \in SupPcs
      /\ "breaker" \in SupPcs /\ "ensure" \in SupPcs /\ "reaped" \in SupPcs
    BY DEF SupPcs
<1>f. sup' = noteSpawnFailure([sup EXCEPT !.pc = "idle"]) => Moved("idle")
    BY DEF SupType, noteSpawnFailure, Moved
<1>1. EnsureAlready \/ AwaitReady => Moved(IF sup.why = "boot" THEN "grace" ELSE "verify")
    BY <1>0, <1>p DEF EnsureAlready, AwaitReady, Ensured
<1>2. SpawnFails \/ AwaitTimeout \/ StopFails =>
        Moved(IF sup.why = "boot" THEN "grace" ELSE "idle")
    BY <1>0, <1>p, <1>f DEF SpawnFails, AwaitTimeout, StopFails, DeadlinePasses, NotEnsured
<1>3. Spawn => Moved("await")
    BY <1>0, <1>p DEF Spawn
<1>4. StartLoop \/ Retreat \/ Backoff \/ RepushDone \/ VerifyFails => Moved("idle")
    BY <1>0, <1>p, <1>f DEF StartLoop, Retreat, Backoff, RepushDone, VerifyFails
<1>5. NoDeath \/ ChildDied => Moved("breaker")
    BY <1>0, <1>p DEF NoDeath, ChildDied
<1>6. Revive \/ WaitGone => Moved("ensure")
    <2>1. sup' = [sup EXCEPT !.pc = "ensure", !.acked = FALSE] => Moved("ensure")
        BY DEF SupType, Moved
    <2> QED BY <1>0, <1>p, <2>1 DEF Revive, WaitGone
<1>7. Shutdown => Moved("gone")
    <2>1. ASSUME NEW b, sup' = [sup EXCEPT !.pc = "gone", !.acked = b] PROVE Moved("gone")
        BY <2>1 DEF SupType, Moved
    <2> QED BY <2>1 DEF Shutdown
<1>8. WaitGoneTimeout => Moved("reap") \/ Moved("idle")
    <2>1. ASSUME NEW p \in {"reap", "idle"}, sup' = [sup EXCEPT !.pc = p, !.acked = FALSE]
          PROVE  Moved(p)
        BY <2>1 DEF SupType, Moved
    <2> QED BY <2>1 DEF WaitGoneTimeout
<1>9. reapWedged => Moved("ensure") \/ Moved("reaped") \/ Moved("idle")
    BY <1>0, <1>p DEF reapWedged
<1>10. TickSettled => /\ sup'.pc = "idle" /\ sup'.why = sup.why /\ ~sup'.sawUnhealthy
                      /\ sup'.hazard = (IF ident = MyVersion THEN 0 ELSE sup.hazard)
                      /\ sup'.spawnedSkew = sup.spawnedSkew
    <2>1. ASSUME NEW k, sup' = [sup EXCEPT !.sawUnhealthy = FALSE, !.retryAt = FALSE, !.hazard = k]
          PROVE  /\ sup'.pc = sup.pc /\ sup'.why = sup.why /\ ~sup'.sawUnhealthy
                 /\ sup'.hazard = k /\ sup'.spawnedSkew = sup.spawnedSkew
        BY <2>1 DEF SupType
    <2> QED BY <2>1 DEF TickSettled
<1>11. TickSkew => /\ sup'.pc = "shutdown" /\ sup'.why = "replace"
                   /\ ~sup'.sawUnhealthy /\ sup'.hazard = sup.hazard
                   /\ sup'.spawnedSkew = sup.spawnedSkew
    BY DEF TickSkew, SupType
<1>12. TickDown => /\ sup'.pc = "revive" /\ sup'.why = "revive"
                   /\ sup'.sawUnhealthy = sup.sawUnhealthy /\ sup'.hazard = sup.hazard
                   /\ sup'.spawnedSkew = sup.spawnedSkew
    BY DEF TickDown, SupType
<1>13. CountDeath => /\ sup'.pc = "died" /\ sup'.why = sup.why /\ sup'.sawUnhealthy
                     /\ sup'.spawnedSkew = sup.spawnedSkew
                     /\ \/ sup'.hazard = sup.hazard + 1 /\ spree' = spree
                        \/ sup'.hazard = 1 /\ spree' = 0
    <2>1. ASSUME NEW k, sup' = [sup EXCEPT !.pc = "died", !.sawUnhealthy = TRUE, !.hazard = k]
          PROVE  /\ sup'.pc = "died" /\ sup'.why = sup.why /\ sup'.sawUnhealthy
                 /\ sup'.hazard = k /\ sup'.spawnedSkew = sup.spawnedSkew
        BY <2>1 DEF SupType
    <2> QED BY <2>1 DEF CountDeath
<1>14. Verify => /\ sup'.pc = "snapshot" /\ sup'.why = sup.why /\ sup'.hazard = sup.hazard
                 /\ sup'.sawUnhealthy => sup.sawUnhealthy /\ sup.why # "revive"
                 /\ sup'.spawnedSkew = IF ident = MyVersion THEN None ELSE ident
    <2>1. ASSUME NEW b, NEW v,
                 sup' = [[sup EXCEPT !.pc = "snapshot", !.retryAt = FALSE, !.sawUnhealthy = b]
                            EXCEPT !.spawnedSkew = v]
          PROVE  /\ sup'.pc = "snapshot" /\ sup'.why = sup.why /\ sup'.hazard = sup.hazard
                 /\ sup'.sawUnhealthy = b /\ sup'.spawnedSkew = v
        BY <2>1 DEF SupType
    <2> DEFINE b == IF sup.why = "revive" THEN FALSE ELSE sup.sawUnhealthy
    <2> DEFINE v == IF ident = MyVersion THEN None ELSE ident
    <2>2. Verify => sup' = [[sup EXCEPT !.pc = "snapshot", !.retryAt = FALSE, !.sawUnhealthy = b]
                               EXCEPT !.spawnedSkew = v]
        BY DEF Verify, noteSpawnedVersion
    <2>3. b => sup.sawUnhealthy /\ sup.why # "revive"
        OBVIOUS
    <2> HIDE DEF b
    <2>4. Verify => /\ sup'.pc = "snapshot" /\ sup'.why = sup.why /\ sup'.hazard = sup.hazard
                    /\ sup'.sawUnhealthy = b /\ sup'.spawnedSkew = v
        BY <2>1, <2>2
    <2> QED BY <2>3, <2>4
<1>15. RepushSnapshot => /\ sup'.pc = "repush" /\ sup'.why = sup.why
                         /\ sup'.todo = tokens /\ sup'.hazard = sup.hazard
                         /\ sup'.sawUnhealthy = sup.sawUnhealthy
                         /\ sup'.spawnedSkew = sup.spawnedSkew
    BY DEF RepushSnapshot, SupType
<1>16. \A t \in Tokens : Repush(t) =>
            /\ sup'.pc = "repush" /\ sup'.why = sup.why /\ sup'.todo = sup.todo \ {t}
            /\ sup'.hazard = sup.hazard /\ sup'.sawUnhealthy = sup.sawUnhealthy
            /\ sup'.spawnedSkew = sup.spawnedSkew
    <2>1. ASSUME NEW T, sup' = [sup EXCEPT !.todo = T]
          PROVE  /\ sup'.pc = sup.pc /\ sup'.why = sup.why /\ sup'.todo = T
                 /\ sup'.hazard = sup.hazard /\ sup'.sawUnhealthy = sup.sawUnhealthy
                 /\ sup'.spawnedSkew = sup.spawnedSkew
        BY <2>1 DEF SupType
    <2> QED BY <2>1 DEF Repush
<1> QED
    BY <1>1, <1>2, <1>3, <1>4, <1>5, <1>6, <1>7, <1>8, <1>9, <1>10, <1>11, <1>12, <1>13, <1>14,
       <1>15, <1>16

\* The steps that leave the supervisor and the spawner alone.
OtherStep ==
    \/ \E c \in Children : Serve(c) \/ ChildRegister(c) \/ BindFails(c) \/ ChildApply(c) \/ Crash(c)
    \/ Upgrade
    \/ \E t \in Tokens : HandleMint(t) \/ MintPush(t)
    \/ \E op \in Switches, on \in BOOLEAN : HandleToggle(op, on)
    \/ \E j \in jobs : Toggle(j)

(* Only the supervisor changes its record, the spawner's child and the     *)
(* history of its decisions.                                               *)
LEMMA OthersKeep == OtherStep => UNCHANGED <<sup, managed, verified, spree, flaps>>
<1>1. ASSUME NEW c \in Children, Serve(c) \/ ChildRegister(c) \/ BindFails(c) \/ ChildApply(c) \/ Crash(c)
      PROVE  UNCHANGED <<sup, managed, verified, spree, flaps>>
    BY <1>1 DEF Serve, ServeRegister, ServeReject, OnRegister, ServeSnapshot, ServeWrite,
        ServeEnds, ChildRegister, BindFails, ChildApply, Crash, history
<1>2. CASE Upgrade
    BY <1>2 DEF Upgrade, history
<1>3. ASSUME NEW t \in Tokens, HandleMint(t) \/ MintPush(t)
      PROVE  UNCHANGED <<sup, managed, verified, spree, flaps>>
    BY <1>3 DEF HandleMint, MintPush, bounds, history
<1>4. ASSUME NEW op \in Switches, NEW on \in BOOLEAN, HandleToggle(op, on)
      PROVE  UNCHANGED <<sup, managed, verified, spree, flaps>>
    BY <1>4 DEF HandleToggle, history
<1>5. ASSUME NEW j \in jobs, Toggle(j)
      PROVE  UNCHANGED <<sup, managed, verified, spree, flaps>>
    BY <1>5 DEF Toggle, TogglePush, ToggleSnapshot, ToggleWrite, bounds, history
<1> QED BY <1>1, <1>2, <1>3, <1>4, <1>5 DEF OtherStep

(* The supervisor's states and their reasons.                              *)
LEMMA WhyStep ==
    ASSUME TypeInv, Next
    PROVE  WhyMatches'
<1>t. sup \in SupType /\ None \notin Children /\ WhyMatches
    BY BoundsAssumption DEF TypeInv, TypeOK, Children
<1>1. CASE UNCHANGED <<sup, managed>>
    BY <1>1, <1>t DEF WhyMatches
<1>2. CASE Supervise
    <2>1. CASE EnsureAlready \/ AwaitReady \/ SpawnFails \/ AwaitTimeout \/ StopFails
        <3>1. \/ Moved("grace") \/ Moved("idle")
              \/ Moved("verify") /\ sup.why # "boot"
            BY <2>1, <1>t, SupMoves
        <3> QED BY <3>1 DEF Moved, WhyMatches
    <2>2. CASE Spawn
        <3>1. managed' # None
            BY <2>2, <1>t DEF Spawn
        <3>2. Moved("await")
            BY <2>2, <1>t, SupMoves
        <3> QED BY <3>1, <3>2 DEF Moved, WhyMatches
    <2>3. CASE StartLoop \/ Retreat \/ Backoff \/ Revive \/ RepushDone \/ VerifyFails \/ WaitGone
        <3>1. Moved("idle") \/ Moved("ensure")
            BY <2>3, <1>t, SupMoves
        <3> QED BY <3>1 DEF Moved, WhyMatches
    <2>4. CASE NoDeath \/ ChildDied
        <3>1. Moved("breaker") /\ sup.pc \in {"revive", "died"}
            BY <2>4, <1>t, SupMoves DEF NoDeath, ChildDied
        <3> QED BY <3>1, <1>t DEF Moved, WhyMatches
    <2>5. CASE TickSettled \/ TickSkew \/ TickDown \/ CountDeath
        <3>1. \/ sup'.pc = "idle"
              \/ sup'.pc = "shutdown" /\ sup'.why = "replace"
              \/ sup'.pc = "revive" /\ sup'.why = "revive"
              \/ sup'.pc = "died" /\ sup'.why = sup.why /\ sup.pc = "revive"
            BY <2>5, <1>t, SupMoves DEF CountDeath
        <3> QED BY <3>1, <1>t DEF WhyMatches
    <2>6. CASE Verify \/ RepushSnapshot \/ (\E t \in Tokens : Repush(t))
        <3>1. /\ sup'.pc \in {"snapshot", "repush"} /\ sup'.why = sup.why
              /\ sup.pc \in {"verify", "snapshot", "repush"}
            BY <2>6, <1>t, SupMoves DEF Verify, RepushSnapshot, Repush
        <3> QED BY <3>1, <1>t DEF WhyMatches
    <2>7. CASE Shutdown \/ WaitGoneTimeout \/ reapWedged
        <3>1. /\ \E p \in {"gone", "reap", "idle", "ensure", "reaped"} : Moved(p)
              /\ sup.pc \in {"shutdown", "gone", "reap", "reaped"}
            BY <2>7, <1>t, SupMoves DEF Shutdown, WaitGoneTimeout, reapWedged
        <3> QED BY <3>1, <1>t DEF Moved, WhyMatches
    <2> QED BY <1>2, <2>1, <2>2, <2>3, <2>4, <2>5, <2>6, <2>7 DEF Supervise
<1>3. CASE OtherStep
    BY <1>3, <1>1, OthersKeep
<1> QED BY <1>2, <1>3 DEF Next, OtherStep

\* and every step keeps them.
LEMMA TypeStep == TypeInv /\ [Next]_vars => TypeInv'
<1> SUFFICES ASSUME TypeInv, [Next]_vars PROVE TypeInv'
    OBVIOUS
<1>1. CASE Next
    <2>1. TypeOK'
        BY <1>1, ChildTypeStep, HandlerTypeStep, SuperviseTypeStep DEF Next, TypeInv
    <2> QED BY <1>1, <2>1, WhyStep DEF TypeInv
<1>2. CASE UNCHANGED vars
    BY <1>2 DEF vars, TypeInv, TypeOK, WhyMatches
<1> QED BY <1>1, <1>2

(* TypeOK of the daemon, the supervisor and every child, for any constants.*)
THEOREM TypeCorrect == Spec => []TypeOK
<1>1. TypeInv => TypeOK
    BY DEF TypeInv
<1> QED BY InitType, TypeStep, <1>1, PTL DEF Spec

-----------------------------------------------------------------------------
(***************************************************************************)
(* The wires: which child is spawned, serving, served.                     *)
(***************************************************************************)

(* A step of a Serve goroutine moves its own program counter; its return   *)
(* frees the slot of a process that is gone.                               *)
LEMMA ServeMoves ==
    ASSUME TypeInv, NEW c \in Children, Serve(c)
    PROVE  /\ UNCHANGED <<chan, managed, sup, tokens, minting, unpushed>>
           /\ \A q \in Children \ {c} : serve'[q] = serve[q] /\ child'[q] = child[q]
           /\ \/ /\ serve[c].pc = "wait" /\ child[c].reg /\ serve'[c].pc = "set"
                 /\ session' = c /\ UNCHANGED <<child, ident, port>>
              \/ /\ serve[c].pc = "wait" /\ Closed(c) /\ ~child[c].reg
                 /\ serve'[c].pc = "none" /\ UNCHANGED <<session, ident, port>>
                 /\ child'[c] = (IF child[c].pc = "gone" THEN NoChild ELSE child[c])
              \/ /\ serve[c].pc = "set" /\ serve'[c].pc = "noted"
                 /\ ident' = child[c].ver /\ port' = child[c].port
                 /\ UNCHANGED <<child, session>>
              \/ /\ serve[c].pc = "noted" /\ serve'[c].pc = "snapped"
                 /\ UNCHANGED <<child, session, ident, port>>
              \/ /\ serve[c].pc = "snapped" /\ serve'[c].pc = "open"
                 /\ UNCHANGED <<child, session, ident, port>>
              \/ /\ serve[c].pc = "open" /\ Closed(c) /\ serve'[c].pc = "none"
                 /\ session' = (IF session = c THEN None ELSE session)
                 /\ UNCHANGED <<ident, port>>
                 /\ child'[c] = (IF child[c].pc = "gone" THEN NoChild ELSE child[c])
<1>t. /\ serve \in [Children -> ServeType] /\ serve[c] \in ServeType
      /\ child \in [Children -> ChildType]
    BY DEF TypeInv, TypeOK
<1>u. UNCHANGED <<chan, managed, sup, tokens, minting, unpushed>>
    BY DEF Serve, ServeRegister, ServeReject, OnRegister, ServeSnapshot, ServeWrite, ServeEnds,
        daemon, history
<1>0. ASSUME NEW x, serve' = [serve EXCEPT ![c] = x]
      PROVE  serve'[c] = x /\ \A q \in Children \ {c} : serve'[q] = serve[q]
    BY <1>0, <1>t
<1>p. \A p \in {"set", "noted", "none"} : [serve[c] EXCEPT !.pc = p].pc = p
    BY <1>t DEF ServeType
<1>r. ServeReturns(c) =>
        /\ serve'[c].pc = "none"
        /\ child'[c] = (IF child[c].pc = "gone" THEN NoChild ELSE child[c])
        /\ \A q \in Children \ {c} : serve'[q] = serve[q] /\ child'[q] = child[q]
    BY <1>0, <1>p, <1>t DEF ServeReturns
<1>1. CASE ServeRegister(c)
    BY <1>1, <1>0, <1>p, <1>u DEF ServeRegister, daemon
<1>2. CASE ServeReject(c)
    BY <1>2, <1>r, <1>u DEF ServeReject, daemon
<1>3. CASE OnRegister(c)
    BY <1>3, <1>0, <1>p, <1>u DEF OnRegister
<1>4. CASE ServeSnapshot(c)
    <2>1. serve'[c].pc = "snapped" /\ \A q \in Children \ {c} : serve'[q] = serve[q]
        BY <1>4, <1>0 DEF ServeSnapshot
    <2> QED BY <1>4, <2>1, <1>u DEF ServeSnapshot, daemon
<1>5. CASE ServeWrite(c)
    <2>1. serve'[c].pc = "open" /\ \A q \in Children \ {c} : serve'[q] = serve[q]
        BY <1>5, <1>0 DEF ServeWrite
    <2> QED BY <1>5, <2>1, <1>u DEF ServeWrite
<1>6. CASE ServeEnds(c)
    BY <1>6, <1>r, <1>u DEF ServeEnds, clearConn, daemon
<1> QED BY <1>1, <1>2, <1>3, <1>4, <1>5, <1>6 DEF Serve

(* What an empty slot holds.                                               *)
LEMMA NoChildIs == NoChild.pc = "none" /\ ~NoChild.reg
BY DEF NoChild

(* What the end of a process leaves.                                       *)
LEMMA EndMoves ==
    ASSUME TypeOK, NEW c \in Children, End(c)
    PROVE  /\ serve[c].pc = "none" => child'[c] = NoChild
           /\ serve[c].pc # "none" =>
                /\ child'[c].pc = "gone" /\ child'[c].reg = child[c].reg
                /\ child'[c].ver = child[c].ver /\ child'[c].port = child[c].port
           /\ child'[c].pc \in {"none", "gone"}
           /\ \A q \in Children \ {c} : child'[q] = child[q] /\ chan'[q] = chan[q]
<1>1. child[c] \in ChildType /\ child' = [child EXCEPT ![c] = Ended(c)]
    BY DEF TypeOK, End
<1>2. CASE serve[c].pc # "none"
    <2>1. /\ Ended(c).pc = "gone" /\ Ended(c).reg = child[c].reg
          /\ Ended(c).ver = child[c].ver /\ Ended(c).port = child[c].port
        BY <1>1, <1>2 DEF Ended, ChildType
    <2>2. child'[c] = Ended(c) /\ \A q \in Children \ {c} : child'[q] = child[q]
        BY <1>1 DEF TypeOK
    <2>3. \A q \in Children \ {c} : chan'[q] = chan[q]
        BY DEF TypeOK, End
    <2> QED BY <1>2, <2>1, <2>2, <2>3
<1>3. CASE serve[c].pc = "none"
    <2>1. child'[c] = NoChild /\ \A q \in Children \ {c} : child'[q] = child[q]
        BY <1>1, <1>3 DEF TypeOK, Ended
    <2>2. \A q \in Children \ {c} : chan'[q] = chan[q]
        BY DEF TypeOK, End
    <2> QED BY <1>3, <2>1, <2>2, NoChildIs
<1> QED BY <1>2, <1>3

(* A step of a child changes its own record and channel: it registers,     *)
(* ends, reads a frame, or loses its seam and serves on.                   *)
LEMMA ChildMoves ==
    ASSUME TypeInv, NEW c \in Children,
           ChildRegister(c) \/ BindFails(c) \/ ChildApply(c) \/ Crash(c)
    PROVE  /\ UNCHANGED <<serve, session, ident, managed, sup, port, tokens, minting, unpushed>>
           /\ \A q \in Children \ {c} : child'[q] = child[q] /\ chan'[q] = chan[q]
           /\ \/ /\ child[c].pc = "starting" /\ child'[c].pc = "serving" /\ child'[c].reg
                 /\ child'[c].ver = child[c].ver /\ child'[c].port = child[c].port
              \/ child[c].pc \in {"starting", "serving", "standalone"} /\ End(c)
              \/ /\ child[c].pc = "serving" /\ child'[c].pc = "standalone"
                 /\ child'[c].reg = child[c].reg
                 /\ child'[c].ver = child[c].ver /\ child'[c].port = child[c].port
              \/ /\ child[c].pc = "serving" /\ child'[c].pc = "serving"
                 /\ child'[c].reg = child[c].reg
                 /\ child'[c].ver = child[c].ver /\ child'[c].port = child[c].port
                 /\ chan[c] # <<>> /\ chan'[c] = Tail(chan[c])
                 /\ \/ /\ Head(chan[c]).kind = "mint"
                       /\ child'[c].tokens = child[c].tokens \cup {Head(chan[c]).arg}
                    \/ /\ Head(chan[c]).kind \in Switches
                       /\ child'[c].tokens = child[c].tokens
<1>t. TypeOK /\ child[c] \in ChildType
    BY DEF TypeInv, TypeOK
<1>u. UNCHANGED <<serve, session, ident, managed, sup, port, tokens, minting, unpushed>>
    BY DEF ChildRegister, BindFails, ChildApply, Crash, daemon, history
<1>0. ASSUME NEW x, child' = [child EXCEPT ![c] = x]
      PROVE  child'[c] = x /\ \A q \in Children \ {c} : child'[q] = child[q]
    BY <1>0, <1>t DEF TypeOK
<1>1. CASE ChildRegister(c)
    <2> DEFINE x == [child[c] EXCEPT !.pc = "serving", !.reg = TRUE]
    <2>1. x.pc = "serving" /\ x.reg /\ x.ver = child[c].ver /\ x.port = child[c].port
        BY <1>t DEF ChildType
    <2>2. child' = [child EXCEPT ![c] = x]
        BY <1>1 DEF ChildRegister
    <2> HIDE DEF x
    <2>3. child'[c] = x /\ \A q \in Children \ {c} : child'[q] = child[q]
        BY <1>0, <2>2
    <2> QED BY <1>1, <1>u, <2>1, <2>3 DEF ChildRegister
<1>2. CASE End(c) /\ child[c].pc \in {"starting", "serving", "standalone"}
    BY <1>2, <1>t, <1>u, EndMoves
<1>3. CASE ChildApply(c) /\ ~End(c)
    <2> DEFINE f == Head(chan[c])
    <2>1. CASE chan' = [chan EXCEPT ![c] = Tail(@)]
        <3>0. chan'[c] = Tail(chan[c]) /\ \A q \in Children \ {c} : chan'[q] = chan[q]
            BY <2>1, <1>t DEF TypeOK
        <3>2. CASE f.kind = "mint" /\ child' = [child EXCEPT ![c].tokens = @ \cup {f.arg}]
            <4> DEFINE x == [child[c] EXCEPT !.tokens = @ \cup {f.arg}]
            <4>1. child' = [child EXCEPT ![c] = x]
                BY <3>2
            <4>2. /\ x.pc = child[c].pc /\ x.reg = child[c].reg /\ x.ver = child[c].ver
                  /\ x.port = child[c].port /\ x.tokens = child[c].tokens \cup {f.arg}
                <5> HIDE DEF f
                <5> QED BY <1>t DEF ChildType
            <4> HIDE DEF x
            <4>3. child'[c] = x /\ \A q \in Children \ {c} : child'[q] = child[q]
                BY <1>0, <4>1
            <4> QED BY <1>3, <1>u, <3>0, <3>2, <4>2, <4>3 DEF ChildApply
        <3>3. CASE f.kind \in Switches /\ child' = [child EXCEPT ![c].switch[f.kind] = f.arg]
            <4> DEFINE y == [child[c].switch EXCEPT ![f.kind] = f.arg]
            <4> DEFINE x == [child[c] EXCEPT !.switch = y]
            <4>1. child' = [child EXCEPT ![c] = x]
                BY <3>3
            <4> HIDE DEF y
            <4>2. /\ x.pc = child[c].pc /\ x.reg = child[c].reg /\ x.ver = child[c].ver
                  /\ x.port = child[c].port /\ x.tokens = child[c].tokens
                BY <1>t DEF ChildType
            <4> HIDE DEF x
            <4>3. child'[c] = x /\ \A q \in Children \ {c} : child'[q] = child[q]
                BY <1>0, <4>1
            <4> QED BY <1>3, <1>u, <3>0, <3>3, <4>2, <4>3 DEF ChildApply
        <3>4. CASE child' = [child EXCEPT ![c].pc = "standalone"]
            <4> DEFINE x == [child[c] EXCEPT !.pc = "standalone"]
            <4>1. child' = [child EXCEPT ![c] = x]
                BY <3>4
            <4>2. /\ x.pc = "standalone" /\ x.reg = child[c].reg /\ x.ver = child[c].ver
                  /\ x.port = child[c].port
                BY <1>t DEF ChildType
            <4> HIDE DEF x
            <4>3. child'[c] = x /\ \A q \in Children \ {c} : child'[q] = child[q]
                BY <1>0, <4>1
            <4> QED BY <1>3, <1>u, <3>0, <4>2, <4>3 DEF ChildApply
        <3> QED BY <1>3, <3>2, <3>3, <3>4 DEF ChildApply
    <2>2. CASE /\ child' = [child EXCEPT ![c].pc = "standalone"]
               /\ chan' = [chan EXCEPT ![c] = <<>>]
        <3> DEFINE x == [child[c] EXCEPT !.pc = "standalone"]
        <3>1. child' = [child EXCEPT ![c] = x]
            BY <2>2
        <3>2. /\ x.pc = "standalone" /\ x.reg = child[c].reg /\ x.ver = child[c].ver
              /\ x.port = child[c].port
            BY <1>t DEF ChildType
        <3> HIDE DEF x
        <3>3. child'[c] = x /\ \A q \in Children \ {c} : child'[q] = child[q]
            BY <1>0, <3>1
        <3>4. \A q \in Children \ {c} : chan'[q] = chan[q]
            BY <2>2, <1>t DEF TypeOK
        <3> QED BY <1>3, <1>u, <3>2, <3>3, <3>4 DEF ChildApply
    <2> QED BY <1>3, <2>1, <2>2 DEF ChildApply
<1> QED BY <1>1, <1>2, <1>3 DEF BindFails, ChildApply, Crash

(* Spawn: a child in an empty slot, and its Serve goroutine.               *)
LEMMA SpawnMoves ==
    ASSUME TypeInv, Spawn
    PROVE  /\ managed' \in Children /\ child[managed'].pc = "none"
           /\ child'[managed'].pc = "starting" /\ ~child'[managed'].reg
           /\ child'[managed'].ver = disk
           /\ child'[managed'].port # None
           /\ serve'[managed'].pc = "wait"
           /\ \A q \in Children : q # managed' => child'[q] = child[q] /\ serve'[q] = serve[q]
           /\ sup.pc = "ensure" /\ ~Registered
           /\ verified' \in {None, verified}
           /\ UNCHANGED <<chan, session, ident, port, tokens, minting, disk, spree, flaps,
                          unpushed>>
<1>1. PICK c \in Children :
        /\ Free(c)
        /\ child' = [child EXCEPT ![c] =
                        [NoChild EXCEPT !.pc = "starting", !.ver = disk,
                                        !.port = IF port = None THEN c ELSE port]]
        /\ serve' = [serve EXCEPT ![c].pc = "wait"]
        /\ managed' = c
        /\ verified' \in {None, verified}
    BY DEF Spawn
<1>2. serve[c] \in ServeType /\ c # None
    BY BoundsAssumption DEF TypeInv, TypeOK, Children
<1> DEFINE p == IF port = None THEN c ELSE port
<1>p. p # None
    BY <1>2
<1> HIDE DEF p
<1> DEFINE x == [NoChild EXCEPT !.pc = "starting", !.ver = disk, !.port = p]
<1> DEFINE y == [serve[c] EXCEPT !.pc = "wait"]
<1>3. x.pc = "starting" /\ ~x.reg /\ x.ver = disk /\ x.port = p /\ y.pc = "wait"
    BY <1>2 DEF NoChild, ServeType
<1>4. child' = [child EXCEPT ![c] = x] /\ serve' = [serve EXCEPT ![c] = y]
    BY <1>1 DEF p
<1>5. UNCHANGED <<chan, session, ident, port, tokens, minting, disk, spree, flaps, unpushed>>
    BY DEF Spawn, daemon, bounds
<1>6. sup.pc = "ensure" /\ ~Registered
    BY DEF Spawn
<1> HIDE DEF x, y
<1>7. /\ child'[c] = x /\ serve'[c] = y
      /\ \A q \in Children : q # c => child'[q] = child[q] /\ serve'[q] = serve[q]
    BY <1>1, <1>4 DEF TypeInv, TypeOK
<1> QED BY <1>1, <1>3, <1>5, <1>6, <1>7, <1>p DEF Free

\* The steps of the supervisor that spawn or stop no child.
SupKeeps == UNCHANGED <<child, serve, session, managed, port, tokens, minting>>

(* Every other step of the supervisor leaves the children, the seam and    *)
(* the tokens alone.                                                       *)
LEMMA SuperviseKeeps ==
    Supervise => Spawn \/ AwaitTimeout \/ StopFails \/ reapWedged \/ SupKeeps
<1>1. CASE EnsureAlready \/ SpawnFails \/ AwaitReady \/ StartLoop
    BY <1>1 DEF EnsureAlready, SpawnFails, AwaitReady, StartLoop, SupKeeps, wires, daemon, bounds
<1>2. CASE TickSettled \/ TickSkew \/ TickDown \/ CountDeath \/ NoDeath \/ ChildDied
    BY <1>2 DEF TickSettled, TickSkew, TickDown, CountDeath, NoDeath, ChildDied, SupKeeps, wires,
        daemon, bounds
<1>3. CASE Retreat \/ Backoff \/ Revive \/ Verify \/ VerifyFails \/ RepushSnapshot
    BY <1>3 DEF Retreat, Backoff, Revive, Verify, VerifyFails, RepushSnapshot, SupKeeps, wires,
        daemon, bounds
<1>4. CASE RepushDone \/ Shutdown \/ WaitGone \/ WaitGoneTimeout \/ (\E t \in Tokens : Repush(t))
    BY <1>4 DEF RepushDone, Shutdown, WaitGone, WaitGoneTimeout, Repush, SupKeeps, wires, daemon,
        bounds
<1> QED BY <1>1, <1>2, <1>3, <1>4 DEF Supervise

(* The handlers and the operator leave the children and the seam alone.    *)
LEMMA HandlersKeep ==
    ASSUME \/ Upgrade
           \/ \E t \in Tokens : HandleMint(t) \/ MintPush(t)
           \/ \E op \in Switches, on \in BOOLEAN : HandleToggle(op, on)
           \/ \E j \in jobs : Toggle(j)
    PROVE  UNCHANGED <<child, serve, session, ident, managed, sup, port>>
<1>1. CASE Upgrade
    BY <1>1 DEF Upgrade, wires, daemon
<1>2. ASSUME NEW t \in Tokens, HandleMint(t) \/ MintPush(t)
      PROVE  UNCHANGED <<child, serve, session, ident, managed, sup, port>>
    BY <1>2 DEF HandleMint, MintPush, wires, bounds
<1>3. ASSUME NEW op \in Switches, NEW on \in BOOLEAN, HandleToggle(op, on)
      PROVE  UNCHANGED <<child, serve, session, ident, managed, sup, port>>
    BY <1>3 DEF HandleToggle, wires
<1>4. ASSUME NEW j \in jobs, Toggle(j)
      PROVE  UNCHANGED <<child, serve, session, ident, managed, sup, port>>
    BY <1>4 DEF Toggle, TogglePush, ToggleSnapshot, ToggleWrite, wires, bounds
<1> QED BY <1>1, <1>2, <1>3, <1>4

(* The children stay attended.                                             *)
LEMMA AttendedStep ==
    ASSUME TypeInv, AllAttended, Next
    PROVE  AllAttended'
<1>t. TypeOK
    BY DEF TypeInv
<1>k. ASSUME NEW q \in Children, UNCHANGED <<child[q], serve[q]>> PROVE Attended(q)'
    BY <1>k DEF AllAttended, Attended, Holds
<1>1. CASE UNCHANGED <<child, serve>>
    BY <1>1, <1>k DEF AllAttended
<1>2. ASSUME NEW c \in Children, Serve(c) PROVE AllAttended'
    <2>1. \A q \in Children \ {c} : serve'[q] = serve[q] /\ child'[q] = child[q]
        BY <1>2, ServeMoves
    <2>2. \/ serve[c].pc = "wait" /\ child[c].reg /\ serve'[c].pc = "set" /\ UNCHANGED child
          \/ /\ Closed(c) /\ serve'[c].pc = "none"
             /\ child'[c] = (IF child[c].pc = "gone" THEN NoChild ELSE child[c])
          \/ Holds(c) /\ serve'[c].pc \in {"noted", "snapped", "open"} /\ UNCHANGED child
        BY <1>2, ServeMoves DEF Holds
    <2>3. Attended(c)'
        BY <2>2, NoChildIs DEF AllAttended, Attended, Holds, Closed
    <2> QED BY <1>k, <2>1, <2>3 DEF AllAttended
<1>5. ASSUME NEW c \in Children, End(c), UNCHANGED serve PROVE AllAttended'
    <2>1. /\ serve[c].pc = "none" => child'[c] = NoChild
          /\ serve[c].pc # "none" =>
                /\ child'[c].pc = "gone" /\ child'[c].reg = child[c].reg
                /\ child'[c].port = child[c].port
          /\ \A q \in Children \ {c} : child'[q] = child[q]
        BY <1>5, <1>t, EndMoves
    <2>2. Attended(c)'
        BY <1>5, <2>1, NoChildIs DEF AllAttended, Attended, Holds
    <2> QED BY <1>k, <1>5, <2>1, <2>2 DEF AllAttended
<1>3. ASSUME NEW c \in Children, ChildRegister(c) \/ BindFails(c) \/ ChildApply(c) \/ Crash(c)
      PROVE  AllAttended'
    <2>1. UNCHANGED serve /\ \A q \in Children \ {c} : child'[q] = child[q]
        BY <1>3, ChildMoves
    <2>2. CASE End(c)
        BY <1>5, <2>1, <2>2
    <2>3. CASE ~End(c)
        <3>1. /\ child[c].pc \in {"starting", "serving"}
              /\ child'[c].pc \in {"serving", "standalone"}
              /\ child'[c].port = child[c].port
              /\ child'[c].reg \/ child'[c].reg = child[c].reg
              /\ child[c].pc = "starting" => child'[c].reg
            BY <1>3, <2>3, ChildMoves
        <3>2. Attended(c)'
            BY <2>1, <3>1 DEF AllAttended, Attended, Holds
        <3> QED BY <1>k, <2>1, <3>2 DEF AllAttended
    <2> QED BY <2>2, <2>3
<1>4. CASE Spawn
    <2>1. PICK c \in Children : c = managed'
        BY <1>4, SpawnMoves
    <2>2. /\ child'[c].pc = "starting" /\ ~child'[c].reg /\ child'[c].port # None
          /\ serve'[c].pc = "wait"
          /\ \A q \in Children : q # c => child'[q] = child[q] /\ serve'[q] = serve[q]
        BY <1>4, <2>1, SpawnMoves
    <2>3. Attended(c)'
        BY <2>2 DEF Attended, Holds
    <2> QED BY <1>k, <2>2, <2>3 DEF AllAttended
<1>6. CASE AwaitTimeout
    <2>1. managed \in Children
        BY <1>6 DEF AwaitTimeout, DeadlinePasses, TypeInv, TypeOK, WhyMatches
    <2> QED BY <1>6, <1>5, <2>1 DEF AwaitTimeout, DeadlinePasses
<1>7. CASE reapWedged
    <2>1. UNCHANGED serve /\ (UNCHANGED child \/ (managed \in Children /\ End(managed)))
        BY <1>7, <1>t DEF reapWedged, TypeOK
    <2> QED BY <2>1, <1>1, <1>5
<1>8. CASE Supervise
    <2>1. StopFails => UNCHANGED <<child, serve>>
        BY DEF StopFails, DeadlinePasses
    <2> QED BY <1>8, <2>1, <1>1, <1>4, <1>6, <1>7, SuperviseKeeps DEF SupKeeps
<1>9. CASE \/ Upgrade
           \/ \E t \in Tokens : HandleMint(t) \/ MintPush(t)
           \/ \E op \in Switches, on \in BOOLEAN : HandleToggle(op, on)
           \/ \E j \in jobs : Toggle(j)
    BY <1>9, <1>1, HandlersKeep
<1> QED BY <1>2, <1>3, <1>8, <1>9 DEF Next

(* A seam without a registered child has no session, but for the child     *)
(* that is awaited and about to be noted.                                  *)
LEMMA NotRegistered ==
    ASSUME SessionOwned, ~Registered, sup.pc # "await"
    PROVE  session = None
BY DEF SessionOwned, Registered, Connected, Awaiting

(* The wait for a child is only given up when no child holds the seam.     *)
LEMMA TimeoutFindsNone ==
    ASSUME ~LateRegister, TypeInv, AllAttended, SessionOwned, AwaitTimeout
    PROVE  /\ managed \in Children /\ session = None
           /\ serve[managed].pc = "wait" => ~child[managed].reg
<1>1. managed \in Children /\ sup.pc = "await" /\ ~Registered /\ ~Registering(managed)
    BY DEF AwaitTimeout, DeadlinePasses, TypeInv, TypeOK, WhyMatches
<1>2. session # None => ident = None /\ session = managed /\ serve[managed].pc = "set"
    BY <1>1 DEF SessionOwned, Registered, Connected, Awaiting
<1>3. serve[managed].pc = "set" => child[managed].reg
    BY <1>1 DEF AllAttended, Attended, Holds
<1> QED BY <1>1, <1>2, <1>3 DEF Registering

(* A child whose register frame is in time is never one the stop of which  *)
(* fails.                                                                  *)
LEMMA StopsInTime == ~LateRegister => ~StopFails
BY DEF StopFails

(* Who holds the seam's session, step by step.                             *)
LEMMA SessionStep ==
    ASSUME ~LateRegister, TypeInv, AllAttended, SessionOwned, Next
    PROVE  SessionOwned'
<1>t. /\ TypeOK /\ sup \in SupType /\ None \notin Children
      /\ \A c \in Children : child[c].ver \in Nat
    BY BoundsAssumption DEF TypeInv, TypeOK, Children, ChildType
<1>1. CASE UNCHANGED <<child, serve, session, ident, managed, sup>>
    BY <1>1 DEF SessionOwned, Holds, Awaiting
<1>2. ASSUME UNCHANGED <<child, serve, session, ident, managed>>, sup.pc # "await",
             sup'.pc # "await", sup'.pc \in {"revive", "died"} => session = None
      PROVE  SessionOwned'
    BY <1>2 DEF SessionOwned, Holds, Awaiting
<1>3. ASSUME NEW c \in Children, Serve(c) PROVE SessionOwned'
    <2>1. /\ UNCHANGED <<managed, sup>>
          /\ \A q \in Children \ {c} : serve'[q] = serve[q] /\ child'[q] = child[q]
        BY <1>3, ServeMoves
    <2>2. CASE /\ serve[c].pc = "wait" /\ child[c].reg /\ serve'[c].pc = "set"
               /\ session' = c /\ UNCHANGED <<child, ident>>
        <3>1. Awaiting(c) /\ session = None
            BY <2>2 DEF SessionOwned, Holds, Awaiting
        <3>2. \A q \in Children : (Holds(q) <=> session = q)'
            BY <2>1, <2>2, <3>1, <1>t DEF SessionOwned, Holds
        <3>3. \A q \in Children :
                (serve[q].pc = "wait" /\ (child[q].pc # "gone" \/ child[q].reg) => Awaiting(q))'
            BY <2>1, <2>2, <3>1 DEF SessionOwned, Awaiting
        <3> QED BY <2>1, <2>2, <3>1, <3>2, <3>3 DEF SessionOwned, Awaiting
    <2>3. CASE /\ serve[c].pc = "wait" /\ ~child[c].reg
               /\ serve'[c].pc = "none" /\ UNCHANGED <<session, ident>>
        <3>1. session # c
            BY <2>3 DEF SessionOwned, Holds
        <3> QED BY <2>1, <2>3, <3>1, <1>t DEF SessionOwned, Holds, Awaiting, TypeOK
    <2>4. CASE /\ serve[c].pc = "set" /\ serve'[c].pc = "noted"
               /\ ident' = child[c].ver /\ UNCHANGED <<child, session>>
        <3>1. session = c /\ ident' # None
            BY <2>4, <1>t, BoundsAssumption DEF SessionOwned, Holds
        <3> QED BY <2>1, <2>4, <3>1, <1>t DEF SessionOwned, Holds, Awaiting
    <2>5. CASE /\ serve[c].pc \in {"noted", "snapped"} /\ serve'[c].pc \in {"snapped", "open"}
               /\ UNCHANGED <<child, session, ident>>
        <3>1. session = c /\ ident # None
            BY <2>5, <1>t DEF SessionOwned, Holds
        <3> QED BY <2>1, <2>5, <3>1, <1>t DEF SessionOwned, Holds, Awaiting
    <2>6. CASE /\ serve[c].pc = "open" /\ serve'[c].pc = "none"
               /\ session' = (IF session = c THEN None ELSE session) /\ UNCHANGED ident
        <3>1. session = c /\ session' = None
            BY <2>6, <1>t DEF SessionOwned, Holds
        <3> QED BY <2>1, <2>6, <3>1, <1>t DEF SessionOwned, Holds, Awaiting
    <2> QED BY <1>3, <2>2, <2>3, <2>4, <2>5, <2>6, ServeMoves
<1>4. ASSUME NEW c \in Children,
             ChildRegister(c) \/ BindFails(c) \/ ChildApply(c) \/ Crash(c)
      PROVE  SessionOwned'
    <2>1. /\ UNCHANGED <<serve, session, ident, managed, sup>>
          /\ \A q \in Children \ {c} : child'[q] = child[q]
          /\ child[c].pc # "gone"
        BY <1>4, ChildMoves
    <2> QED BY <2>1 DEF SessionOwned, Holds, Awaiting
<1>5. CASE Spawn
    <2>1. PICK c \in Children : c = managed'
        BY <1>5, SpawnMoves
    <2>2. /\ child'[c].pc = "starting" /\ serve'[c].pc = "wait"
          /\ \A q \in Children : q # c => child'[q] = child[q] /\ serve'[q] = serve[q]
          /\ UNCHANGED <<session, ident>> /\ sup.pc = "ensure" /\ ~Registered
        BY <1>5, <2>1, SpawnMoves
    <2>3. session = None /\ sup'.pc = "await"
        BY <1>5, <2>2, <1>t, NotRegistered, SupMoves DEF Moved
    <2>4. \A q \in Children : (Holds(q) <=> session = q)'
        BY <2>2, <2>3, <1>t DEF SessionOwned, Holds
    <2>5. \A q \in Children :
            (serve[q].pc = "wait" /\ (child[q].pc # "gone" \/ child[q].reg) => Awaiting(q))'
        BY <2>1, <2>2, <2>3 DEF SessionOwned, Awaiting
    <2> QED BY <2>2, <2>3, <2>4, <2>5 DEF SessionOwned
<1>6. CASE AwaitTimeout
    <2>1. /\ managed \in Children /\ session = None
          /\ serve[managed].pc = "wait" => ~child[managed].reg
        BY <1>6, TimeoutFindsNone
    <2>2. /\ End(managed) /\ UNCHANGED <<serve, session, ident>>
          /\ sup.pc = "await" /\ sup'.pc \in {"grace", "idle"}
        BY <1>6, <1>t, SupMoves DEF AwaitTimeout, DeadlinePasses, Moved
    <2>3. /\ serve[managed].pc = "wait" =>
                child'[managed].pc = "gone" /\ child'[managed].reg = child[managed].reg
          /\ \A q \in Children \ {managed} : child'[q] = child[q]
        BY <2>1, <2>2, <1>t, EndMoves
    <2>4. \A q \in Children :
            (serve[q].pc = "wait" /\ (child[q].pc # "gone" \/ child[q].reg) => Awaiting(q))'
        BY <2>1, <2>2, <2>3 DEF SessionOwned, Awaiting
    <2>5. \A q \in Children : (Holds(q) <=> session = q)'
        BY <2>2 DEF SessionOwned, Holds
    <2> QED BY <2>1, <2>2, <2>4, <2>5 DEF SessionOwned
<1>7. CASE reapWedged
    <2>1. /\ sup.pc = "reap" /\ sup'.pc \in {"ensure", "reaped", "idle"}
          /\ UNCHANGED <<serve, session, ident>>
        BY <1>7, <1>t, SupMoves DEF reapWedged, Moved
    <2>2. CASE UNCHANGED <<child, managed>>
        BY <2>1, <2>2, <1>2
    <2>3. CASE managed # None /\ End(managed) /\ managed' = None
        <3>1. managed \in Children /\ End(managed)
            BY <2>3, <1>t DEF TypeOK
        <3>2. /\ serve[managed].pc = "wait" =>
                    child'[managed].pc = "gone" /\ child'[managed].reg = child[managed].reg
              /\ \A q \in Children \ {managed} : child'[q] = child[q]
            BY <3>1, <1>t, EndMoves
        <3>3. \A q \in Children :
                ~(serve[q].pc = "wait" /\ (child[q].pc # "gone" \/ child[q].reg))
            BY <2>1 DEF SessionOwned, Awaiting
        <3>4. \A q \in Children :
                ~(serve'[q].pc = "wait" /\ (child'[q].pc # "gone" \/ child'[q].reg))
            BY <2>1, <3>1, <3>2, <3>3
        <3>5. session # None => ident # None
            BY <2>1 DEF SessionOwned, Awaiting
        <3>6. \A q \in Children : (Holds(q) <=> session = q)'
            BY <2>1 DEF SessionOwned, Holds
        <3> QED BY <2>1, <3>4, <3>5, <3>6 DEF SessionOwned
    <2> QED BY <1>7, <2>2, <2>3 DEF reapWedged
<1>8. CASE AwaitReady
    <2>1. /\ sup.pc = "await" /\ Registered /\ sup'.pc \in {"grace", "verify"}
          /\ UNCHANGED <<child, serve, session, ident, managed>>
        BY <1>8, <1>t, SupMoves DEF AwaitReady, Moved, wires
    <2>2. session = managed /\ ident # None /\ session \in Children /\ Holds(managed)
        BY <2>1, <1>t DEF SessionOwned, Registered, Connected, TypeOK
    <2>3. \A q \in Children :
            ~(serve[q].pc = "wait" /\ (child[q].pc # "gone" \/ child[q].reg))
        BY <2>2 DEF SessionOwned, Awaiting, Holds
    <2>4. \A q \in Children : (Holds(q) <=> session = q)'
        BY <2>1 DEF SessionOwned, Holds
    <2> QED BY <2>1, <2>2, <2>3, <2>4 DEF SessionOwned
<1>9. CASE ChildDied
    <2>1. /\ sup.pc = "died" /\ sup'.pc = "breaker" /\ session = None
          /\ UNCHANGED <<child, serve, session, managed>>
        BY <1>9, <1>t, SupMoves DEF ChildDied, Moved, wires, SessionOwned
    <2> QED BY <2>1 DEF SessionOwned, Holds, Awaiting
<1>10. CASE TickDown
    <2>1. sup.pc = "idle" /\ sup'.pc = "revive" /\ session = None
        BY <1>10, <1>t, NotRegistered, SupMoves DEF TickDown
    <2> QED BY <1>10, <2>1, <1>2 DEF TickDown, wires
<1>11. CASE CountDeath
    <2>1. sup.pc = "revive" /\ sup'.pc = "died" /\ session = None
        BY <1>11, <1>t, SupMoves DEF CountDeath, SessionOwned
    <2> QED BY <1>11, <2>1, <1>2 DEF CountDeath, wires
<1>12. CASE EnsureAlready \/ SpawnFails \/ StartLoop
    <2>1. sup.pc # "await" /\ sup'.pc \in {"grace", "verify", "idle"}
        BY <1>12, <1>t, SupMoves DEF EnsureAlready, SpawnFails, StartLoop, Moved
    <2> QED BY <1>12, <2>1, <1>2 DEF EnsureAlready, SpawnFails, StartLoop, wires
<1>13. CASE TickSettled \/ TickSkew
    <2>1. sup.pc # "await" /\ sup'.pc \in {"idle", "shutdown"}
        BY <1>13, <1>t, SupMoves DEF TickSettled, TickSkew
    <2> QED BY <1>13, <2>1, <1>2 DEF TickSettled, TickSkew, wires
<1>14. CASE NoDeath \/ Retreat \/ Backoff \/ Revive
    <2>1. sup.pc # "await" /\ sup'.pc \in {"breaker", "idle", "ensure"}
        BY <1>14, <1>t, SupMoves DEF NoDeath, Retreat, Backoff, Revive, Moved
    <2> QED BY <1>14, <2>1, <1>2 DEF NoDeath, Retreat, Backoff, Revive, wires
<1>15. CASE Verify \/ VerifyFails \/ RepushSnapshot \/ RepushDone
    <2>1. sup.pc # "await" /\ sup'.pc \in {"snapshot", "idle", "repush"}
        BY <1>15, <1>t, SupMoves DEF Verify, VerifyFails, RepushSnapshot, RepushDone, Moved
    <2> QED BY <1>15, <2>1, <1>2 DEF Verify, VerifyFails, RepushSnapshot, RepushDone, wires
<1>16. CASE Shutdown \/ WaitGone \/ WaitGoneTimeout \/ (\E t \in Tokens : Repush(t))
    <2>1. sup.pc # "await" /\ sup'.pc \in {"gone", "ensure", "reap", "idle", "repush"}
        BY <1>16, <1>t, SupMoves DEF Shutdown, WaitGone, WaitGoneTimeout, Repush, Moved
    <2> QED BY <1>16, <2>1, <1>2 DEF Shutdown, WaitGone, WaitGoneTimeout, Repush, wires
<1>17. CASE Supervise
    BY <1>17, StopsInTime, <1>5, <1>6, <1>7, <1>8, <1>9, <1>10, <1>11, <1>12, <1>13, <1>14, <1>15, <1>16
    DEF Supervise
<1>18. CASE \/ Upgrade
            \/ \E t \in Tokens : HandleMint(t) \/ MintPush(t)
            \/ \E op \in Switches, on \in BOOLEAN : HandleToggle(op, on)
            \/ \E j \in jobs : Toggle(j)
    BY <1>18, <1>1, HandlersKeep
<1> QED BY <1>3, <1>4, <1>17, <1>18 DEF Next

-----------------------------------------------------------------------------
(***************************************************************************)
(* Tokens.                                                                 *)
(***************************************************************************)

(* The port and the first child.                                           *)
LEMMA PortStep ==
    ASSUME ~LateRegister, TypeInv, AllAttended, SessionOwned, TokensAfterPort, Next
    PROVE  TokensAfterPort'
<1>t. TypeOK /\ sup \in SupType /\ WhyMatches /\ None \notin Children
    BY BoundsAssumption DEF TypeInv, TypeOK, Children
<1>1. ASSUME NEW c \in Children, Serve(c) PROVE TokensAfterPort'
    <2>1. /\ UNCHANGED <<managed, sup, tokens>>
          /\ \A q \in Children \ {c} : serve'[q] = serve[q]
        BY <1>1, ServeMoves
    <2>2. child[c].pc # "none"
        <3>1. serve[c].pc # "none"
            BY <1>1, ServeMoves
        <3> QED BY <3>1 DEF AllAttended, Attended
    <2>3. ~(sup.why = "boot" /\ sup.pc = "ensure")
        BY <2>2 DEF TokensAfterPort
    <2>4. CASE serve[c].pc = "wait" /\ serve'[c].pc = "set" /\ child[c].reg /\ UNCHANGED port
        <3>1. Awaiting(c)
            BY <2>4 DEF SessionOwned
        <3>2. sup.why = "boot" => port = None
            BY <2>4, <3>1 DEF TokensAfterPort, Awaiting
        <3> QED BY <2>1, <2>3, <2>4, <3>1, <3>2 DEF TokensAfterPort, Awaiting
    <2>5. CASE serve[c].pc = "set" /\ serve'[c].pc = "noted" /\ port' = child[c].port
        <3>0. port' # None
            BY <2>2, <2>5 DEF AllAttended, Attended
        <3>1. sup.pc = "await" => managed = c
            BY <2>5, <1>t DEF SessionOwned, Holds
        <3> QED BY <2>1, <2>3, <2>5, <3>0, <3>1 DEF TokensAfterPort
    <2>6. CASE serve'[c].pc \notin {"wait", "set"} /\ UNCHANGED port
        <3>1. sup.pc = "await" => managed \in Children
            BY <1>t DEF TypeOK, WhyMatches
        <3> QED BY <2>1, <2>3, <2>6, <3>1 DEF TokensAfterPort
    <2> QED BY <1>1, <2>4, <2>5, <2>6, ServeMoves
<1>2. CASE UNCHANGED <<child, serve, managed, sup, port, tokens>>
    BY <1>2 DEF TokensAfterPort
<1>3. ASSUME NEW c \in Children,
             ChildRegister(c) \/ BindFails(c) \/ ChildApply(c) \/ Crash(c)
      PROVE  TokensAfterPort'
    <2>1. UNCHANGED <<serve, managed, sup, port, tokens>> /\ child[c].pc # "none"
        BY <1>3, ChildMoves
    <2> QED BY <2>1 DEF TokensAfterPort
<1>4. ASSUME NEW t \in Tokens, HandleMint(t) PROVE TokensAfterPort'
    <2>1. port # None /\ UNCHANGED <<child, serve, managed, sup, port>>
        BY <1>4 DEF HandleMint, wires
    <2> QED BY <2>1 DEF TokensAfterPort
<1>5. ASSUME NEW t \in Tokens, MintPush(t) PROVE TokensAfterPort'
    BY <1>5, <1>2 DEF MintPush
<1>6. CASE Upgrade \/ (\E op \in Switches, on \in BOOLEAN : HandleToggle(op, on))
    BY <1>6, <1>2 DEF Upgrade, HandleToggle, wires, daemon
<1>7. ASSUME NEW j \in jobs, Toggle(j) PROVE TokensAfterPort'
    BY <1>7, <1>2 DEF Toggle, TogglePush, ToggleSnapshot, ToggleWrite, wires, bounds
<1>8. CASE Spawn
    <2>1. /\ sup.pc = "ensure" /\ sup'.pc = "await" /\ sup'.why = sup.why
          /\ UNCHANGED <<port, tokens>>
        BY <1>8, <1>t, SpawnMoves, SupMoves DEF Moved
    <2> QED BY <2>1 DEF TokensAfterPort
<1>9. ASSUME UNCHANGED <<port, tokens>>, sup'.pc \notin {"ensure", "await"} \/ sup'.why # "boot"
      PROVE  TokensAfterPort'
    BY <1>9 DEF TokensAfterPort
<1>10. CASE EnsureAlready \/ SpawnFails \/ AwaitReady \/ AwaitTimeout \/ StartLoop
    <2>1. sup'.pc \in {"grace", "verify", "idle"}
        BY <1>10, <1>t, SupMoves DEF Moved
    <2> QED BY <1>10, <2>1, <1>9
            DEF EnsureAlready, SpawnFails, AwaitReady, AwaitTimeout, DeadlinePasses, StartLoop,
                daemon
<1>11. CASE TickSettled \/ TickSkew \/ TickDown \/ CountDeath
    <2>1. sup'.pc \in {"idle", "shutdown", "revive", "died"}
        BY <1>11, <1>t, SupMoves
    <2> QED BY <1>11, <2>1, <1>9 DEF TickSettled, TickSkew, TickDown, CountDeath, daemon
<1>12. CASE NoDeath \/ ChildDied \/ Retreat \/ Backoff \/ RepushDone \/ VerifyFails
    <2>1. sup'.pc \in {"idle", "breaker"}
        BY <1>12, <1>t, SupMoves DEF Moved
    <2> QED BY <1>12, <2>1, <1>9
            DEF NoDeath, ChildDied, Retreat, Backoff, RepushDone, VerifyFails, daemon
<1>13. CASE Verify \/ RepushSnapshot \/ (\E t \in Tokens : Repush(t))
    <2>1. sup'.pc \in {"snapshot", "repush"}
        BY <1>13, <1>t, SupMoves
    <2> QED BY <1>13, <2>1, <1>9 DEF Verify, RepushSnapshot, Repush, daemon
<1>14. CASE Revive \/ WaitGone \/ reapWedged
    <2>1. sup'.why = sup.why /\ sup.pc \in {"breaker", "gone", "reaped", "reap"}
        BY <1>14, <1>t, SupMoves DEF Moved, Revive, WaitGone, reapWedged
    <2>2. sup'.why # "boot"
        BY <2>1, <1>t DEF WhyMatches
    <2> QED BY <1>14, <2>2, <1>9 DEF Revive, WaitGone, reapWedged, daemon
<1>15. CASE Shutdown \/ WaitGoneTimeout
    <2>1. sup'.pc \in {"gone", "reap", "idle"}
        BY <1>15, <1>t, SupMoves DEF Moved
    <2> QED BY <1>15, <2>1, <1>9 DEF Shutdown, WaitGoneTimeout, daemon
<1> QED
    BY <1>1, <1>3, <1>4, <1>5, <1>6, <1>7, <1>8, <1>10, <1>11, <1>12, <1>13, <1>14, <1>15,
       StopsInTime DEF Next, Supervise

(* A frame written to a child joins the others.                            *)
LEMMA WrittenKeeps ==
    ASSUME TypeOK, Listening, NEW f \in FrameType, chan' = Written(f)
    PROVE  /\ \A c \in Children, t \in Tokens : InChan(t, c) => InChan(t, c)'
           /\ \A c \in Children, t \in Tokens :
                c = session /\ f = [kind |-> "mint", arg |-> t] => InChan(t, c)'
<1>1. PICK s \in Children : s = session
    BY DEF Listening, Connected, TypeOK
<1>2. chan[s] \in Seq(FrameType)
    BY DEF TypeOK
<1>3. chan' = [chan EXCEPT ![s] = Append(chan[s], f)]
    BY <1>1 DEF Written
<1>4. \A c \in Children : c # s => chan'[c] = chan[c]
    BY <1>3 DEF TypeOK
<1>5. chan'[s] = Append(chan[s], f)
    BY <1>3 DEF TypeOK
<1>6. /\ Len(Append(chan[s], f)) = Len(chan[s]) + 1 /\ Len(chan[s]) \in Nat
      /\ \A i \in 1 .. Len(chan[s]) : Append(chan[s], f)[i] = chan[s][i]
      /\ Append(chan[s], f)[Len(chan[s]) + 1] = f
    BY <1>2, AppendProperties
<1>7. \A c \in Children, t \in Tokens : InChan(t, c) => InChan(t, c)'
    <2>1. SUFFICES ASSUME NEW c \in Children, NEW t \in Tokens, c = s, InChan(t, c)
                   PROVE  InChan(t, c)'
        BY <1>4 DEF InChan
    <2>2. PICK i \in 1 .. Len(chan[s]) : chan[s][i] = [kind |-> "mint", arg |-> t]
        BY <2>1 DEF InChan
    <2>3. i \in 1 .. Len(chan'[s]) /\ chan'[s][i] = chan[s][i]
        BY <1>5, <1>6
    <2> QED BY <2>1, <2>2, <2>3 DEF InChan
<1>8. ASSUME NEW t \in Tokens, f = [kind |-> "mint", arg |-> t] PROVE InChan(t, s)'
    <2>1. Len(chan[s]) + 1 \in 1 .. Len(chan'[s]) /\ chan'[s][Len(chan[s]) + 1] = f
        BY <1>5, <1>6
    <2> QED BY <1>8, <2>1 DEF InChan
<1> QED BY <1>1, <1>7, <1>8

(* A send loses no frame that was written before it.                       *)
LEMMA SendKeeps ==
    ASSUME TypeOK, NEW kind, NEW arg, [kind |-> kind, arg |-> arg] \in FrameType,
           Send(kind, arg)
    PROVE  \A c \in Children, t \in Tokens : InChan(t, c) => InChan(t, c)'
<1> DEFINE f == [kind |-> kind, arg |-> arg]
<1>1. f \in FrameType /\ Torn \in FrameType
    BY DEF Torn, FrameType
<1>2. \/ chan' = chan
      \/ Listening /\ (chan' = Written(Torn) \/ chan' = Written(f))
    BY DEF Send, SendDone, SendFails
<1>3. CASE chan' = chan
    BY <1>3 DEF InChan
<1> HIDE DEF f
<1> QED BY <1>1, <1>2, <1>3, WrittenKeeps

(* A push of a token reaches the child or is reported as failed.           *)
LEMMA MintKeeps ==
    ASSUME TypeOK, NEW x \in Tokens, SendMint(x)
    PROVE  /\ \A c \in Children, t \in Tokens : InChan(t, c) => InChan(t, c)'
           /\ \A c \in Children : session = c => InChan(x, c)' \/ x \in unpushed'
           /\ unpushed \ {x} \subseteq unpushed'
<1> DEFINE f == [kind |-> "mint", arg |-> x]
<1>1. f \in FrameType
    BY DEF FrameType
<1>2. Send("mint", x) /\ unpushed' \in {unpushed \ {x}, unpushed \cup {x}}
    BY MintType
<1>3. x \in unpushed' \/ (Listening /\ chan' = Written(f))
    BY DEF SendMint, SendDone
<1>4. \A c \in Children, t \in Tokens : InChan(t, c) => InChan(t, c)'
    BY <1>1, <1>2, SendKeeps
<1> HIDE DEF f
<1>5. CASE Listening /\ chan' = Written(f)
    <2>1. \A c \in Children : c = session => InChan(x, c)'
        BY <1>1, <1>5, WrittenKeeps DEF f
    <2> QED BY <1>2, <1>4, <2>1
<1> QED BY <1>2, <1>3, <1>4, <1>5

(* A child applies the oldest frame and keeps the others.                  *)
LEMMA ApplyKeeps ==
    ASSUME TypeOK, NEW c \in Children, chan[c] # <<>>, chan'[c] = Tail(chan[c]),
           NEW t \in Tokens, InChan(t, c)
    PROVE  Head(chan[c]) = [kind |-> "mint", arg |-> t] \/ InChan(t, c)'
<1>1. chan[c] \in Seq(FrameType)
    BY DEF TypeOK
<1>2. PICK i \in 1 .. Len(chan[c]) : chan[c][i] = [kind |-> "mint", arg |-> t]
    BY DEF InChan
<1>3. CASE i = 1
    BY <1>1, <1>2, <1>3
<1>4. CASE i # 1
    <2>1. Len(Tail(chan[c])) = Len(chan[c]) - 1 /\ Len(chan[c]) \in Nat
        BY <1>1, HeadTailProperties
    <2>2. i - 1 \in 1 .. Len(chan'[c])
        BY <1>2, <1>4, <2>1
    <2>3. chan'[c][i - 1] = chan[c][i - 1 + 1]
        BY <1>1, <2>2, HeadTailProperties
    <2>4. i - 1 + 1 = i
        OBVIOUS
    <2> QED BY <1>2, <2>2, <2>3, <2>4 DEF InChan
<1> QED BY <1>3, <1>4

(* Every token stays known, on its way or still to be pushed.              *)
LEMMA TokensStep ==
    ASSUME ~LateRegister, TypeInv, AllAttended, SessionOwned, TokensAfterPort, TokensKept, Next
    PROVE  TokensKept'
<1>t. /\ TypeOK /\ WhyMatches /\ sup \in SupType /\ tokens \subseteq Tokens
      /\ None \notin Children
    BY BoundsAssumption DEF TypeInv, TypeOK, Children
<1>n. ASSUME session' = None PROVE TokensKept'
    BY <1>n DEF TokensKept
\* The session's child, its channel and the pushes under way are kept.
<1>k. ASSUME UNCHANGED <<session, child, tokens, unpushed>>, minting \subseteq minting',
             \A t \in Tokens, c \in Children : InChan(t, c) => InChan(t, c)',
             \/ UNCHANGED sup
             \/ sup.pc \notin {"await", "verify", "snapshot", "repush"}
             \/ sup'.pc \in {"await", "verify", "snapshot"} /\ sup'.why # "boot"
             \/ sup.pc = "repush" /\ sup.todo = {}
             \/ sup.pc \in {"await", "verify", "snapshot"} /\ sup.why = "boot"
      PROVE  TokensKept'
    <2>1. SUFFICES ASSUME session # None, child[session].pc = "serving", NEW t \in tokens
                   PROVE  OnItsWay(t, session)'
        BY <1>k DEF TokensKept
    <2>2. session \in Children /\ t \in Tokens /\ OnItsWay(t, session)
        BY <2>1, <1>t DEF TypeOK, TokensKept
    <2>3. PICK s \in Children : s = session /\ s = session'
        BY <1>k, <2>2
    <2>4. OnItsWay(t, s)
        BY <2>2, <2>3
    <2>5. OnItsWay(t, s)'
        BY <1>k, <2>2, <2>4 DEF OnItsWay
    <2> QED BY <2>3, <2>5
<1>c. UNCHANGED chan => \A t \in Tokens, c \in Children : InChan(t, c) => InChan(t, c)'
    BY DEF InChan
<1>1. ASSUME NEW c \in Children, Serve(c) PROVE TokensKept'
    <2>1. UNCHANGED <<chan, managed, sup, tokens, minting, unpushed>>
        BY <1>1, ServeMoves
    <2>2. CASE serve[c].pc = "wait" /\ child[c].reg /\ session' = c
        <3>1. Awaiting(c)
            BY <2>2 DEF SessionOwned
        <3>2. CASE sup.why = "boot"
            <4>1. tokens = {}
                BY <2>2, <3>1, <3>2 DEF TokensAfterPort, Awaiting
            <4> QED BY <2>1, <4>1 DEF TokensKept
        <3>3. CASE sup.why # "boot"
            BY <2>1, <3>1, <3>3 DEF TokensKept, OnItsWay, Awaiting
        <3> QED BY <3>2, <3>3
    <2>3. CASE session' = None
        BY <2>3, <1>n
    <2>4. CASE UNCHANGED <<child, session>>
        BY <2>1, <2>4, <1>k, <1>c
    <2>5. CASE serve[c].pc = "wait" /\ ~child[c].reg /\ session' = session
        <3>1. session # c
            BY <2>5 DEF SessionOwned, Holds
        <3>2. \A q \in Children \ {c} : child'[q] = child[q]
            BY <1>1, ServeMoves
        <3>3. SUFFICES ASSUME session # None, child'[session].pc = "serving", NEW t \in tokens
                       PROVE  OnItsWay(t, session)'
            BY <2>1, <2>5 DEF TokensKept
        <3>4. PICK s \in Children : s = session /\ s = session' /\ s # c
            BY <2>5, <3>1, <3>3, <1>t DEF TypeOK
        <3>5. child'[s] = child[s]
            BY <3>2, <3>4
        <3>6. OnItsWay(t, s)
            BY <3>3, <3>4, <3>5 DEF TokensKept
        <3>7. OnItsWay(t, s)'
            BY <2>1, <3>5, <3>6 DEF OnItsWay, InChan
        <3> QED BY <3>4, <3>7
    <2>6. serve[c].pc = "open" => session = c
        BY <1>t DEF SessionOwned, Holds
    <2> QED BY <1>1, <2>2, <2>3, <2>4, <2>5, <2>6, ServeMoves
<1>2. ASSUME NEW c \in Children,
             ChildRegister(c) \/ BindFails(c) \/ ChildApply(c) \/ Crash(c)
      PROVE  TokensKept'
    <2>1. /\ UNCHANGED <<serve, session, sup, tokens, minting, unpushed>>
          /\ \A q \in Children \ {c} : child'[q] = child[q] /\ chan'[q] = chan[q]
        BY <1>2, ChildMoves
    <2>e. End(c) => child'[c].pc # "serving"
        BY <1>t, EndMoves
    <2>2. SUFFICES ASSUME session # None, child'[session].pc = "serving", NEW t \in tokens
                   PROVE  OnItsWay(t, session)'
        BY <2>1 DEF TokensKept
    <2>3. PICK s \in Children : s = session /\ s = session'
        BY <2>1, <2>2, <1>t DEF TypeOK
    <2>4. SUFFICES OnItsWay(t, s)'
        BY <2>3
    <2>5. child[s].pc # "starting" /\ t \in Tokens
        BY <2>2, <2>3, <1>t DEF AllAttended, Attended, SessionOwned, Holds
    <2>6. CASE s # c
        <3>1. child'[s] = child[s] /\ chan'[s] = chan[s]
            BY <2>1, <2>6
        <3>2. OnItsWay(t, s)
            BY <2>2, <2>3, <3>1 DEF TokensKept
        <3> QED BY <2>1, <3>1, <3>2 DEF OnItsWay, InChan
    <2>7. CASE s = c
        <3>1. /\ child[c].pc = "serving" /\ chan[c] # <<>> /\ chan'[c] = Tail(chan[c])
              /\ \/ /\ Head(chan[c]).kind = "mint"
                    /\ child'[c].tokens = child[c].tokens \cup {Head(chan[c]).arg}
                 \/ /\ Head(chan[c]).kind \in Switches
                    /\ child'[c].tokens = child[c].tokens
            BY <1>2, <2>2, <2>3, <2>5, <2>7, <2>e, ChildMoves
        <3>2. OnItsWay(t, c)
            BY <2>2, <2>3, <2>7, <3>1 DEF TokensKept
        <3>3. CASE InChan(t, c)
            <4>1. CASE InChan(t, c)'
                BY <2>7, <4>1 DEF OnItsWay
            <4>2. CASE Head(chan[c]) = [kind |-> "mint", arg |-> t]
                <5>1. Head(chan[c]).kind = "mint" /\ Head(chan[c]).arg = t
                    BY <4>2
                <5>2. t \in child'[c].tokens
                    BY <3>1, <5>1, BoundsAssumption
                <5> QED BY <2>7, <5>2 DEF OnItsWay
            <4> QED BY <3>1, <3>3, <2>5, <4>1, <4>2, <1>t, ApplyKeeps
        <3>4. CASE ~InChan(t, c)
            <4>1. child[c].tokens \subseteq child'[c].tokens
                BY <3>1
            <4> QED BY <2>1, <2>7, <3>2, <3>4, <4>1 DEF OnItsWay
        <3> QED BY <3>3, <3>4
    <2> QED BY <2>6, <2>7
<1>3. ASSUME NEW x \in Tokens, HandleMint(x) PROVE TokensKept'
    <2>1. /\ UNCHANGED <<child, chan, session, sup, unpushed>>
          /\ tokens' = tokens \cup {x} /\ minting' = minting \cup {x}
        BY <1>3 DEF HandleMint, wires, history
    <2> QED BY <2>1 DEF TokensKept, OnItsWay, InChan
\* A mint frame reaches the served child.
<1>p. ASSUME NEW x \in Tokens, SendMint(x), UNCHANGED <<child, session, tokens>>,
             \A t \in Tokens \ {x}, c \in Children :
                OnItsWay(t, c) => OnItsWay(t, c)' \/ InChan(t, c)
      PROVE  TokensKept'
    <2>1. \A c \in Children :
                /\ \A t \in Tokens : InChan(t, c) => InChan(t, c)'
                /\ session = c => InChan(x, c)' \/ x \in unpushed'
        BY <1>p, <1>t, MintKeeps
    <2>2. SUFFICES ASSUME session # None, child[session].pc = "serving", NEW t \in tokens
                   PROVE  OnItsWay(t, session)'
        BY <1>p DEF TokensKept
    <2>3. PICK s \in Children : s = session /\ s = session'
        BY <1>p, <2>2, <1>t DEF TypeOK
    <2>4. SUFFICES OnItsWay(t, s)'
        BY <2>3
    <2>5. CASE t = x
        BY <2>1, <2>2, <2>3, <2>5 DEF OnItsWay
    <2>6. CASE t # x
        <3>1. OnItsWay(t, s) /\ t \in Tokens
            BY <2>2, <2>3, <1>t DEF TokensKept
        <3>2. OnItsWay(t, s)' \/ InChan(t, s)
            BY <1>p, <2>6, <3>1
        <3> QED BY <2>1, <3>1, <3>2 DEF OnItsWay
    <2> QED BY <2>5, <2>6
<1>4. ASSUME NEW x \in Tokens, MintPush(x) PROVE TokensKept'
    <2>1. /\ SendMint(x) /\ minting' = minting \ {x} /\ unpushed \ {x} \subseteq unpushed'
          /\ UNCHANGED <<child, session, sup, tokens>>
        BY <1>4, <1>t, MintKeeps DEF MintPush
    <2>2. \A t \in Tokens \ {x}, c \in Children :
                OnItsWay(t, c) => OnItsWay(t, c)' \/ InChan(t, c)
        BY <2>1 DEF OnItsWay
    <2> QED BY <2>1, <2>2, <1>p
<1>5. ASSUME NEW x \in Tokens, Repush(x) PROVE TokensKept'
    <2>1. /\ SendMint(x) /\ UNCHANGED <<child, session, tokens, minting>>
          /\ sup.pc = "repush" /\ unpushed \ {x} \subseteq unpushed'
        BY <1>5, <1>t, MintKeeps DEF Repush, daemon
    <2>2. sup'.pc = "repush" /\ sup'.todo = sup.todo \ {x}
        BY <1>5, <1>t, SupMoves
    <2>3. \A t \in Tokens \ {x}, c \in Children :
                OnItsWay(t, c) => OnItsWay(t, c)' \/ InChan(t, c)
        BY <2>1, <2>2 DEF OnItsWay
    <2> QED BY <2>1, <2>3, <1>p
<1>6. CASE Upgrade \/ (\E op \in Switches, on \in BOOLEAN : HandleToggle(op, on))
    BY <1>6, <1>k, <1>c DEF Upgrade, HandleToggle, wires, daemon, history
<1>7. ASSUME NEW j \in jobs, Toggle(j) PROVE TokensKept'
    <2>1. CASE TogglePush(j)
        <3>1. [kind |-> j.op, arg |-> j.on] \in FrameType
            BY <1>t DEF TypeOK, FrameType, JobType
        <3>2. \A t \in Tokens, c \in Children : InChan(t, c) => InChan(t, c)'
            BY <2>1, <3>1, <1>t, SendKeeps DEF TogglePush
        <3> QED BY <2>1, <3>2, <1>k DEF TogglePush, history
    <2>2. CASE ToggleSnapshot(j) \/ ToggleWrite(j)
        BY <2>2, <1>k, <1>c DEF ToggleSnapshot, ToggleWrite, wires, history
    <2> QED BY <1>7, <2>1, <2>2 DEF Toggle
<1>8. CASE Spawn \/ SpawnFails \/ VerifyFails
    <2>1. ~Registered /\ sup.pc # "await" /\ session' = session
        BY <1>8 DEF Spawn, SpawnFails, VerifyFails, wires
    <2> QED BY <2>1, <1>n, NotRegistered
<1>9. CASE AwaitTimeout
    <2>1. session = None /\ session' = session
        BY <1>9, TimeoutFindsNone DEF AwaitTimeout, DeadlinePasses
    <2> QED BY <2>1, <1>n
<1>10. CASE EnsureAlready \/ StartLoop
    <2>1. sup.pc \in {"ensure", "grace"} /\ UNCHANGED <<session, child, chan, tokens, minting, unpushed>>
        BY <1>10 DEF EnsureAlready, StartLoop, wires, daemon, history
    <2> QED BY <2>1, <1>k, <1>c
<1>11. CASE AwaitReady
    <2>1. sup.pc = "await" /\ UNCHANGED <<session, child, chan, tokens, minting, unpushed>>
        BY <1>11 DEF AwaitReady, wires, daemon, history
    <2>2. sup.why # "boot" => sup'.pc = "verify" /\ sup'.why # "boot"
        BY <1>11, <1>t, SupMoves DEF Moved
    <2> QED BY <2>1, <2>2, <1>k, <1>c
<1>12. CASE TickSettled \/ TickSkew \/ TickDown \/ CountDeath
    <2>1. /\ sup.pc \in {"idle", "revive"} /\ UNCHANGED <<session, child, chan, tokens, minting, unpushed>>
        BY <1>12 DEF TickSettled, TickSkew, TickDown, CountDeath, wires, daemon, history
    <2> QED BY <2>1, <1>k, <1>c
<1>13. CASE NoDeath \/ ChildDied \/ Retreat \/ Backoff \/ Revive
    <2>1. /\ sup.pc \in {"revive", "died", "breaker"}
          /\ UNCHANGED <<session, child, chan, tokens, minting, unpushed>>
        BY <1>13 DEF NoDeath, ChildDied, Retreat, Backoff, Revive, wires, daemon, history
    <2> QED BY <2>1, <1>k, <1>c
<1>14. CASE Verify
    <2>1. /\ sup.pc = "verify" /\ UNCHANGED <<session, child, chan, tokens, minting, unpushed>>
        BY <1>14 DEF Verify, wires, daemon, history
    <2>2. sup'.pc = "snapshot" /\ sup'.why # "boot"
        BY <1>14, <2>1, <1>t, SupMoves DEF WhyMatches
    <2> QED BY <2>1, <2>2, <1>k, <1>c
<1>15. CASE RepushSnapshot
    <2>1. UNCHANGED tokens /\ sup'.pc = "repush" /\ sup'.todo = tokens
        BY <1>15, <1>t, SupMoves DEF RepushSnapshot, daemon
    <2> QED BY <2>1 DEF TokensKept, OnItsWay
<1>16. CASE RepushDone
    <2>1. /\ sup.pc = "repush" /\ sup.todo = {}
          /\ UNCHANGED <<session, child, chan, tokens, minting, unpushed>>
        BY <1>16 DEF RepushDone, wires, daemon, history
    <2> QED BY <2>1, <1>k, <1>c
<1>17. CASE Shutdown
    <2>1. /\ Send("shutdown", None) /\ sup.pc = "shutdown"
          /\ UNCHANGED <<session, child, tokens, minting, unpushed>>
        BY <1>17 DEF Shutdown, Send, daemon, history
    <2>2. [kind |-> "shutdown", arg |-> None] \in FrameType
        BY DEF FrameType
    <2>3. \A t \in Tokens, c \in Children : InChan(t, c) => InChan(t, c)'
        BY <2>1, <2>2, <1>t, SendKeeps
    <2> QED BY <2>1, <2>3, <1>k
<1>18. CASE WaitGone \/ WaitGoneTimeout
    <2>1. /\ sup.pc \in {"gone", "reaped"} /\ UNCHANGED <<session, child, chan, tokens, minting, unpushed>>
        BY <1>18 DEF WaitGone, WaitGoneTimeout, wires, daemon, history
    <2> QED BY <2>1, <1>k, <1>c
<1>19. CASE reapWedged
    <2>1. sup.pc = "reap" /\ UNCHANGED <<session, tokens, minting, unpushed>>
        BY <1>19 DEF reapWedged, daemon, history
    <2>2. CASE UNCHANGED <<child, chan>>
        BY <2>1, <2>2, <1>k, <1>c
    <2>3. CASE managed # None /\ End(managed)
        <3>1. managed \in Children /\ End(managed)
            BY <2>3, <1>t DEF TypeOK
        <3>2. /\ child'[managed].pc \in {"none", "gone"}
              /\ \A q \in Children \ {managed} : child'[q] = child[q] /\ chan'[q] = chan[q]
            BY <3>1, <1>t, EndMoves
        <3>3. SUFFICES ASSUME session # None, child'[session].pc = "serving", NEW t \in tokens
                       PROVE  OnItsWay(t, session)'
            BY <2>1 DEF TokensKept
        <3>4. PICK s \in Children : s = session /\ s = session'
            BY <2>1, <3>3, <1>t DEF TypeOK
        <3>5. child'[s] = child[s] /\ chan'[s] = chan[s]
            BY <3>1, <3>2, <3>3, <3>4
        <3>6. OnItsWay(t, s)
            BY <3>3, <3>4, <3>5 DEF TokensKept
        <3>7. OnItsWay(t, s)'
            BY <2>1, <3>5, <3>6 DEF OnItsWay, InChan
        <3> QED BY <3>4, <3>7
    <2> QED BY <1>19, <2>2, <2>3 DEF reapWedged
<1>20. CASE Supervise
    BY <1>20, StopsInTime, <1>5, <1>8, <1>9, <1>10, <1>11, <1>12, <1>13, <1>14, <1>15, <1>16, <1>17, <1>18,
       <1>19 DEF Supervise
<1> QED BY <1>1, <1>2, <1>3, <1>4, <1>6, <1>7, <1>20 DEF Next

-----------------------------------------------------------------------------
(***************************************************************************)
(* The breaker.                                                            *)
(***************************************************************************)

(* Deaths are counted before the respawns that answer them.                *)
LEMMA DeathsStep ==
    ASSUME TypeInv, SessionOwned, DeathsCounted, Next
    PROVE  DeathsCounted'
<1>t. /\ sup \in SupType /\ sup.hazard \in Nat /\ spree \in Nat /\ ReviveBreaker \in Nat \ {0}
      /\ WhyMatches
    BY BoundsAssumption DEF TypeInv, TypeOK, SupType
<1>1. CASE UNCHANGED <<sup, spree>>
    BY <1>1 DEF DeathsCounted
<1>2. ASSUME NEW p, Moved(p), UNCHANGED spree, p \in {"died", "breaker"} => sup.sawUnhealthy,
             p \in {"ensure", "await", "verify"} /\ sup.why = "revive" =>
                sup.sawUnhealthy /\ sup.hazard < ReviveBreaker
      PROVE  DeathsCounted'
    BY <1>2 DEF Moved, DeathsCounted
<1>3. CASE EnsureAlready \/ AwaitReady \/ SpawnFails \/ AwaitTimeout \/ StopFails
    <2>1. spree' = spree /\ sup.pc \in {"ensure", "await"}
        BY <1>3 DEF EnsureAlready, AwaitReady, SpawnFails, AwaitTimeout, StopFails,
            DeadlinePasses, history
    <2>2. Moved("grace") \/ Moved("idle") \/ Moved("verify")
        BY <1>3, <1>t, SupMoves
    <2> QED BY <2>1, <2>2, <1>2 DEF DeathsCounted
<1>4. CASE Spawn
    <2>1. spree' = spree /\ sup.pc = "ensure" /\ Moved("await")
        BY <1>4, <1>t, SupMoves DEF Spawn
    <2> QED BY <2>1, <1>2 DEF DeathsCounted
<1>5. CASE StartLoop \/ Retreat \/ Backoff \/ RepushDone \/ VerifyFails
    <2>1. spree' = spree /\ Moved("idle")
        BY <1>5, <1>t, SupMoves DEF StartLoop, Retreat, Backoff, RepushDone, VerifyFails, history
    <2> QED BY <2>1, <1>2
<1>6. CASE NoDeath \/ ChildDied
    <2>1. spree' = spree /\ Moved("breaker")
        BY <1>6, <1>t, SupMoves DEF NoDeath, ChildDied, history
    <2>2. sup.sawUnhealthy
        BY <1>6 DEF NoDeath, ChildDied, DeathsCounted, SessionOwned, Connected
    <2> QED BY <2>1, <2>2, <1>2
<1>7. CASE Revive
    <2>1. /\ spree' = spree /\ Moved("ensure") /\ sup.pc = "breaker"
          /\ sup.hazard < ReviveBreaker
        BY <1>7, <1>t, SupMoves DEF Revive, history
    <2> QED BY <2>1, <1>2 DEF DeathsCounted
<1>8. CASE WaitGone \/ Shutdown \/ WaitGoneTimeout \/ reapWedged
    <2>1. spree' = spree /\ sup.why = "replace"
        BY <1>8, <1>t DEF WaitGone, Shutdown, WaitGoneTimeout, reapWedged, history, WhyMatches
    <2>2. Moved("ensure") \/ Moved("gone") \/ Moved("reap") \/ Moved("idle") \/ Moved("reaped")
        BY <1>8, <1>t, SupMoves
    <2> QED BY <2>1, <2>2, <1>2
<1>9. CASE TickSettled
    <2>1. /\ sup'.pc = "idle" /\ ~sup'.sawUnhealthy
          /\ sup'.hazard = IF ident = MyVersion THEN 0 ELSE sup.hazard
          /\ spree' = IF ident = MyVersion THEN 0 ELSE spree
        BY <1>9, <1>t, SupMoves DEF TickSettled
    <2> QED BY <2>1, <1>t DEF DeathsCounted
<1>10. CASE TickSkew
    <2>1. /\ sup'.pc = "shutdown" /\ ~sup'.sawUnhealthy /\ sup'.hazard = sup.hazard
          /\ spree' = spree
        BY <1>10, <1>t, SupMoves DEF TickSkew, history
    <2> QED BY <2>1 DEF DeathsCounted
<1>11. CASE TickDown
    <2>1. /\ sup'.pc = "revive" /\ sup'.sawUnhealthy = sup.sawUnhealthy
          /\ sup'.hazard = sup.hazard /\ spree' = spree
        BY <1>11, <1>t, SupMoves DEF TickDown, history
    <2> QED BY <2>1 DEF DeathsCounted
<1>12. CASE CountDeath
    <2>1. /\ sup'.pc = "died" /\ sup'.sawUnhealthy
          /\ \/ sup'.hazard = sup.hazard + 1 /\ spree' = spree
             \/ sup'.hazard = 1 /\ spree' = 0
        BY <1>12, <1>t, SupMoves
    <2> QED BY <2>1, <1>t DEF DeathsCounted
<1>13. CASE Verify
    <2>1. /\ sup.pc = "verify" /\ sup'.pc = "snapshot" /\ sup'.hazard = sup.hazard
          /\ sup'.sawUnhealthy => sup.sawUnhealthy /\ sup.why # "revive"
          /\ spree' = IF sup.why = "revive" THEN spree + 1 ELSE spree
        BY <1>13, <1>t, SupMoves DEF Verify
    <2> QED BY <2>1, <1>t DEF DeathsCounted
<1>14. CASE RepushSnapshot \/ (\E t \in Tokens : Repush(t))
    <2>1. /\ sup'.pc = "repush" /\ sup'.hazard = sup.hazard
          /\ sup'.sawUnhealthy = sup.sawUnhealthy /\ spree' = spree
        BY <1>14, <1>t, SupMoves DEF RepushSnapshot, Repush, history
    <2> QED BY <2>1 DEF DeathsCounted
<1>15. CASE Supervise
    BY <1>15, <1>3, <1>4, <1>5, <1>6, <1>7, <1>8, <1>9, <1>10, <1>11, <1>12, <1>13, <1>14
    DEF Supervise
<1>16. CASE OtherStep
    BY <1>16, <1>1, OthersKeep
<1> QED BY <1>15, <1>16 DEF Next, OtherStep

\* The inductive invariant holds at first,
LEMMA InitInv == Init => IInv
<1> SUFFICES ASSUME Init PROVE IInv
    OBVIOUS
<1>1. \A c \in Children : /\ child[c].pc = "none" /\ ~child[c].reg /\ serve[c].pc = "none"
    BY DEF Init, NoChild, NoServe
<1>2. AllAttended
    BY <1>1 DEF Init, AllAttended, Attended, Holds
<1>3. SessionOwned
    BY <1>1, BoundsAssumption DEF Init, SessionOwned, Holds
<1>4. TokensAfterPort /\ TokensKept
    BY <1>1 DEF Init, TokensAfterPort, TokensKept
<1>5. DeathsCounted
    BY BoundsAssumption DEF Init, DeathsCounted
<1> QED BY <1>2, <1>3, <1>4, <1>5, InitType DEF IInv

\* and for ever when registrations are in time.
LEMMA Invariance == ~LateRegister => (Spec => []IInv)
<1> SUFFICES ASSUME ~LateRegister PROVE Spec => []IInv
    OBVIOUS
<1>1. ASSUME IInv, [Next]_vars PROVE IInv'
    <2>1. CASE Next
        <3>1. TypeInv /\ AllAttended /\ SessionOwned /\ TokensAfterPort /\ TokensKept
              /\ DeathsCounted
            BY <1>1 DEF IInv
        <3>2. TypeInv' /\ AllAttended' /\ SessionOwned'
            BY <2>1, <3>1, TypeStep, AttendedStep, SessionStep
        <3>3. TokensAfterPort' /\ TokensKept' /\ DeathsCounted'
            BY <2>1, <3>1, PortStep, TokensStep, DeathsStep
        <3> QED BY <3>2, <3>3 DEF IInv
    <2>2. CASE UNCHANGED vars
        <3>1. TypeInv'
            BY <1>1, <2>2, TypeStep DEF IInv
        <3>2. AllAttended'
            BY <1>1, <2>2 DEF IInv, vars, AllAttended, Attended, Holds
        <3>3. SessionOwned'
            BY <1>1, <2>2 DEF IInv, vars, SessionOwned, Holds, Awaiting
        <3>4. TokensAfterPort' /\ TokensKept'
            BY <1>1, <2>2 DEF IInv, vars, TokensAfterPort, TokensKept, OnItsWay, InChan
        <3>5. DeathsCounted'
            BY <1>1, <2>2 DEF IInv, vars, DeathsCounted
        <3> QED BY <3>1, <3>2, <3>3, <3>4, <3>5 DEF IInv
    <2> QED BY <1>1, <2>1, <2>2
<1> QED BY InitInv, <1>1, PTL DEF Spec

(* handleMint, repushTokens: for any crashes, failed spawns, failed and cut*)
(* writes, replacements and upgrades, a calm proxy knows every token that  *)
(* was handed out, except those whose latest push was reported as failed;  *)
(* provided awaitReady does not give up on a child whose register frame is *)
(* being handled.                                                          *)
THEOREM TokensKnown == ~LateRegister => (Spec => []TokensSurvive)
<1>1. IInv => TokensSurvive
    <2> SUFFICES ASSUME IInv, Calm, NEW t \in tokens \ unpushed
                 PROVE  t \in child[session].tokens
        BY DEF TokensSurvive
    <2>1. OnItsWay(t, session)
        BY DEF IInv, TokensKept, Calm, Listening, Connected
    <2>2. ~InChan(t, session)
        BY DEF Calm, InChan, Torn
    <2> QED BY <2>1, <2>2 DEF OnItsWay, Calm
<1> QED BY Invariance, <1>1, PTL

(* revive and reviveBreaker: a proxy that keeps dying is brought back fewer*)
(* than ReviveBreaker times before it settles at our version, under the    *)
(* same proviso: a late register frame hides a death from the count.       *)
THEOREM CrashLoopIsBounded == ~LateRegister => (Spec => []CrashLoopBounded)
<1>1. IInv => CrashLoopBounded
    BY DEF IInv, DeathsCounted, CrashLoopBounded
<1> QED BY Invariance, <1>1, PTL

-----------------------------------------------------------------------------
(***************************************************************************)
(* Versions.                                                               *)
(***************************************************************************)

(* Without upgrades every child, and so every noted identity, has the one  *)
(* version on disk.                                                        *)
LEMMA VersionStep ==
    ASSUME LastVersion <= DiskVersion, TypeInv, AllAttended, OneVersion, Next
    PROVE  OneVersion'
<1>t. /\ TypeOK /\ sup \in SupType /\ DiskVersion \in Nat /\ LastVersion \in Nat
      /\ None \notin Nat
    BY BoundsAssumption DEF TypeInv, TypeOK
<1>k. ASSUME UNCHANGED <<disk, verified, flaps>>, ident' \in {None, ident},
             sup'.spawnedSkew = sup.spawnedSkew,
             \A q \in Children :
                \/ child'[q].pc = "none"
                \/ child'[q].ver = child[q].ver /\ child[q].pc # "none"
      PROVE  OneVersion'
    BY <1>k DEF OneVersion
<1>s. ASSUME UNCHANGED <<disk, verified, flaps, child>>, ident' \in {None, ident},
             sup'.spawnedSkew = sup.spawnedSkew
      PROVE  OneVersion'
    BY <1>s DEF OneVersion
<1>1. ASSUME NEW c \in Children, Serve(c) PROVE OneVersion'
    <2>0. ident' = ident \/ (serve[c].pc = "set" /\ ident' = child[c].ver)
        BY <1>1 DEF Serve, ServeRegister, ServeReject, OnRegister, ServeSnapshot, ServeWrite,
            ServeEnds
    <2>1. /\ UNCHANGED sup
          /\ \A q \in Children : child'[q] = child[q] \/ child'[q].pc = "none"
        BY <1>1, ServeMoves, NoChildIs
    <2>2. UNCHANGED <<disk, verified, flaps>>
        BY <1>1 DEF Serve, ServeRegister, ServeReject, OnRegister, ServeSnapshot, ServeWrite,
            ServeEnds, bounds, history
    <2>3. serve[c].pc = "set" => child[c].pc # "none"
        BY DEF AllAttended, Attended, Holds
    <2> QED BY <2>0, <2>1, <2>2, <2>3 DEF OneVersion
<1>2. ASSUME NEW c \in Children,
             ChildRegister(c) \/ BindFails(c) \/ ChildApply(c) \/ Crash(c)
      PROVE  OneVersion'
    <2>1. /\ UNCHANGED <<ident, sup>>
          /\ \A q \in Children \ {c} : child'[q] = child[q]
          /\ child'[c].pc = "none" \/ (child'[c].ver = child[c].ver /\ child[c].pc # "none")
        BY <1>2, <1>t, ChildMoves, EndMoves, NoChildIs
    <2>2. UNCHANGED <<disk, verified, flaps>>
        BY <1>2 DEF ChildRegister, BindFails, ChildApply, Crash, bounds, history
    <2> QED BY <2>1, <2>2, <1>k
<1>3. CASE Upgrade
    <2>1. disk < LastVersion
        BY <1>3 DEF Upgrade
    <2> QED BY <2>1, <1>t DEF OneVersion
<1>4. ASSUME NEW t \in Tokens, HandleMint(t) \/ MintPush(t) PROVE OneVersion'
    BY <1>4, <1>s DEF HandleMint, MintPush, wires, bounds, history
<1>5. ASSUME NEW op \in Switches, NEW on \in BOOLEAN, HandleToggle(op, on) PROVE OneVersion'
    BY <1>5, <1>s DEF HandleToggle, wires, history
<1>6. ASSUME NEW j \in jobs, Toggle(j) PROVE OneVersion'
    BY <1>6, <1>s DEF Toggle, TogglePush, ToggleSnapshot, ToggleWrite, wires, bounds, history
<1>7. CASE Spawn
    <2>1. PICK c \in Children : c = managed'
        BY <1>7, SpawnMoves
    <2>2. /\ child'[c].ver = disk /\ \A q \in Children : q # c => child'[q] = child[q]
          /\ UNCHANGED <<ident, disk, flaps>> /\ verified' \in {None, verified}
        BY <1>7, <2>1, SpawnMoves
    <2>3. sup'.spawnedSkew = sup.spawnedSkew
        BY <1>7, <1>t, SupMoves DEF Moved
    <2> QED BY <2>2, <2>3 DEF OneVersion
<1>8. ASSUME AwaitTimeout \/ StopFails \/ reapWedged PROVE OneVersion'
    <2>1. sup'.spawnedSkew = sup.spawnedSkew /\ UNCHANGED <<ident, disk, verified, flaps>>
        BY <1>8, <1>t, SupMoves
        DEF Moved, AwaitTimeout, StopFails, DeadlinePasses, reapWedged, history
    <2>2. UNCHANGED child \/ (managed \in Children /\ End(managed))
        BY <1>8, <1>t
        DEF AwaitTimeout, StopFails, DeadlinePasses, reapWedged, TypeInv, TypeOK, WhyMatches
    <2>3. CASE UNCHANGED child
        BY <2>1, <2>3, <1>s
    <2>4. CASE managed \in Children /\ End(managed)
        <3>1. /\ child'[managed].pc = "none" \/ child'[managed].ver = child[managed].ver
              /\ \A q \in Children \ {managed} : child'[q] = child[q]
              /\ serve[managed].pc = "none" => child'[managed].pc = "none"
            BY <2>4, <1>t, EndMoves, NoChildIs
        <3>2. child[managed].pc = "none" => serve[managed].pc = "none"
            BY <2>4 DEF AllAttended, Attended
        <3> QED BY <2>1, <2>4, <3>1, <3>2, <1>k
    <2> QED BY <2>2, <2>3, <2>4
<1>9. CASE Verify
    <2>1. /\ ident # None /\ UNCHANGED <<ident, disk, child, flaps>>
          /\ sup'.spawnedSkew = IF ident = MyVersion THEN None ELSE ident
        BY <1>9, <1>t, SupMoves DEF Verify, Registered, wires, bounds
    <2> QED BY <2>1 DEF OneVersion
<1>11. CASE EnsureAlready \/ AwaitReady \/ SpawnFails \/ StartLoop \/ TickSettled
    <2>1. sup'.spawnedSkew = sup.spawnedSkew
        BY <1>11, <1>t, SupMoves DEF Moved
    <2> QED BY <1>11, <2>1, <1>s DEF EnsureAlready, AwaitReady, SpawnFails, StartLoop,
            TickSettled, wires, bounds, history
<1>10. CASE TickSkew
    <2>1. sup'.spawnedSkew = sup.spawnedSkew /\ UNCHANGED <<disk, child, ident>>
        BY <1>10, <1>t, SupMoves DEF TickSkew, wires, bounds
    <2>2. session # verified
        <3>1. isSkew(ident) /\ ident # None /\ session # None
            BY <1>10 DEF TickSkew, Registered, Connected
        <3>2. verified = None
            BY <3>1 DEF OneVersion, isSkew
        <3> QED BY <3>1, <3>2
    <2>3. UNCHANGED <<verified, flaps>>
        BY <1>10, <2>2 DEF TickSkew
    <2> QED BY <2>1, <2>3, <1>s
<1>12. CASE TickDown \/ CountDeath \/ NoDeath \/ ChildDied \/ Retreat
    <2>1. sup'.spawnedSkew = sup.spawnedSkew
        BY <1>12, <1>t, SupMoves DEF Moved
    <2> QED BY <1>12, <2>1, <1>s DEF TickDown, CountDeath, NoDeath, ChildDied,
            Retreat, wires, bounds, history
<1>13. CASE Backoff \/ Revive \/ VerifyFails \/ RepushSnapshot \/ RepushDone
    <2>1. sup'.spawnedSkew = sup.spawnedSkew
        BY <1>13, <1>t, SupMoves DEF Moved
    <2> QED BY <1>13, <2>1, <1>s DEF Backoff, Revive, VerifyFails, RepushSnapshot, RepushDone,
            wires, bounds, history
<1>14. CASE Shutdown \/ WaitGone \/ WaitGoneTimeout \/ (\E t \in Tokens : Repush(t))
    <2>1. sup'.spawnedSkew = sup.spawnedSkew
        BY <1>14, <1>t, SupMoves DEF Moved
    <2> QED BY <1>14, <2>1, <1>s DEF Shutdown, WaitGone, WaitGoneTimeout, Repush, wires, bounds,
            history
<1>15. CASE Supervise
    BY <1>15, <1>7, <1>8, <1>9, <1>10, <1>11, <1>12, <1>13, <1>14 DEF Supervise
<1> QED BY <1>1, <1>2, <1>3, <1>4, <1>5, <1>6, <1>15 DEF Next

(* isSkew and noteSpawnedVersion: as long as the binary on disk is not     *)
(* upgraded, a child that verifySpawned accepted is never replaced for its *)
(* version, whatever that version is, late register frames or not.         *)
THEOREM NeverFlaps == LastVersion <= DiskVersion => (Spec => []NoFlap)
<1> SUFFICES ASSUME LastVersion <= DiskVersion PROVE Spec => []NoFlap
    OBVIOUS
<1> DEFINE V == TypeInv /\ AllAttended /\ OneVersion
<1>1. Init => V
    <2> SUFFICES ASSUME Init PROVE V
        OBVIOUS
    <2>1. OneVersion
        BY DEF Init, OneVersion, NoChild
    <2> QED BY <2>1, InitInv DEF IInv
<1>2. V /\ [Next]_vars => V'
    <2> SUFFICES ASSUME V, [Next]_vars PROVE V'
        OBVIOUS
    <2>1. CASE Next
        BY <2>1, TypeStep, AttendedStep, VersionStep
    <2>2. CASE UNCHANGED vars
        <3>1. TypeInv'
            BY <2>2, TypeStep
        <3>2. AllAttended' /\ OneVersion'
            BY <2>2 DEF vars, AllAttended, Attended, Holds, OneVersion
        <3> QED BY <3>1, <3>2
    <2> QED BY <2>1, <2>2
<1>3. V => NoFlap
    BY BoundsAssumption DEF OneVersion, NoFlap
<1> QED BY <1>1, <1>2, <1>3, PTL DEF Spec
=============================================================================
