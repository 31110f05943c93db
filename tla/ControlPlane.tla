---------------------------- MODULE ControlPlane ----------------------------
(***************************************************************************)
(* The Go daemon and the proxy children it supervises: the seam server,    *)
(* the spawner, the supervisor and its policy, the control handlers, and   *)
(* the seam loop of each child.                                            *)
(*                                                                         *)
(* Threads: the supervisor, one Serve goroutine per spawned child, one     *)
(* goroutine per control request, and the children.  Each action runs from *)
(* one lock, blocking call or channel operation to the next.               *)
(*                                                                         *)
(* Abstracted: pids, configurations, and how long anything takes: a        *)
(* timeout may expire at any time.  An OS-assigned port is named after the *)
(* slot of the child that got it.  The bytes of the seam are in Seam; here *)
(* a write is whole, cut short, or has no effect.                          *)
(***************************************************************************)
EXTENDS Integers, Sequences, FiniteSets

CONSTANTS
    Tokens,         \* session tokens that may be minted
    Switches,       \* the toggles in use: kill, shadow
    ReviveBreaker,
    MyVersion,      \* the version the daemon supervises at
    DiskVersion,    \* the version of the proxy binary when the daemon starts
    LastVersion,    \* bound: the last upgrade of the binary
    LateRegister,   \* a child that awaitReady gave up on may still register
    MaxChildren,    \* bound: children that live or are still served
    MaxFaults,      \* bound: crashes, failed writes, spawns and stops, late children
    MaxToggles,     \* bound: toggle requests
    None

ASSUME BoundsAssumption ==
    /\ ReviveBreaker \in Nat \ {0}
    /\ MyVersion \in Nat /\ DiskVersion \in Nat /\ LastVersion \in Nat
    /\ MaxChildren \in Nat /\ MaxFaults \in Nat /\ MaxToggles \in Nat
    /\ LateRegister \in BOOLEAN
    /\ Switches \cap {"mint", "shutdown", "torn"} = {}
    /\ None \notin Nat \cup Tokens

VARIABLES
    child,      \* the processes
    chan,       \* frames written to each child and not yet read
    serve,      \* the Serve goroutine of each child
    session,    \* the seam's registered child
    ident,      \* the version the policy captured; None: not registered
    managed,    \* the spawner's child
    sup,        \* the supervisor
    tokens,     \* the daemon's live tokens
    switch,     \* the daemon's kill and shadow
    port,       \* the proxy's published port; None: not known yet
    minting,    \* tokens recorded and about to be pushed
    jobs,       \* toggle requests under way
    status,     \* the switches in the status file
    disk,       \* the version of the binary on disk
    faults, toggled,    \* counters of the bounds
    verified,   \* history: the child that passed verifySpawned last
    spree,      \* history: verified respawns since the proxy last settled
    flaps,      \* history: verified children replaced for their version
    unpushed    \* history: tokens whose latest push reported an error

vars == <<child, chan, serve, session, ident, managed, sup, tokens, switch, port,
          minting, jobs, status, disk, faults, toggled, verified, spree, flaps, unpushed>>

wires   == <<child, chan, serve, session>>
daemon  == <<tokens, switch, port, minting, jobs, status>>
bounds  == <<disk, faults, toggled>>
history == <<verified, spree, flaps, unpushed>>

Children == 1 .. MaxChildren
Off == [w \in Switches |-> FALSE]
SwitchType == [Switches -> BOOLEAN]

ChildType == [pc : {"none", "starting", "serving", "standalone", "gone"}, ver : Nat,
              port : Children \cup {None}, reg : BOOLEAN, tokens : SUBSET Tokens,
              switch : SwitchType]
ServeType == [pc : {"none", "wait", "set", "noted", "snapped", "open"},
              snap : SwitchType]
FrameType == [kind : {"mint"}, arg : Tokens]
             \cup [kind : {"shutdown", "torn"}, arg : {None}]
             \cup [kind : Switches, arg : BOOLEAN]
SupType == [pc : {"ensure", "await", "grace", "idle", "revive", "died", "breaker", "verify",
                  "snapshot", "repush", "shutdown", "gone", "reap", "reaped"},
            why : {"boot", "revive", "replace"}, acked : BOOLEAN, retryAt : BOOLEAN,
            hazard : Nat, sawUnhealthy : BOOLEAN, spawnedSkew : Nat \cup {None},
            todo : SUBSET Tokens]
JobType == [id : Nat, op : Switches, on : BOOLEAN, pc : {"send", "publish", "write"},
            snap : SwitchType]

NoChild == [pc |-> "none", ver |-> 0, port |-> None, reg |-> FALSE, tokens |-> {}, switch |-> Off]
NoServe == [pc |-> "none", snap |-> Off]

Init ==
    /\ child = [c \in Children |-> NoChild]
    /\ chan = [c \in Children |-> <<>>]
    /\ serve = [c \in Children |-> NoServe]
    /\ session = None
    /\ ident = None
    /\ managed = None
    /\ sup = [pc |-> "ensure", why |-> "boot", acked |-> FALSE, retryAt |-> FALSE, hazard |-> 0,
              sawUnhealthy |-> FALSE, spawnedSkew |-> None, todo |-> {}]
    /\ tokens = {}
    /\ switch = Off
    /\ port = None
    /\ minting = {}
    /\ jobs = {}
    /\ status = None
    /\ disk = DiskVersion
    /\ faults = 0
    /\ toggled = 0
    /\ verified = None
    /\ spree = 0
    /\ flaps = 0
    /\ unpushed = {}

-----------------------------------------------------------------------------
(***************************************************************************)
(* The seam.                                                               *)
(***************************************************************************)
Connected == session # None

Registered == ident # None /\ Connected

\* A child at the other end reads what is written.
Listening == Connected /\ child[session].pc = "serving"

Torn == [kind |-> "torn", arg |-> None]

Written(frame) == [chan EXCEPT ![session] = Append(@, frame)]

SendDone(kind, arg) ==
    /\ Listening
    /\ chan' = Written([kind |-> kind, arg |-> arg])
    /\ faults' = faults

\* send returns an error: no session, a child that closed its end, or the wait
\* for the gate or the write ran out of time with nothing, a piece or all of
\* the frame written.  The session stays; every caller logs and goes on.
SendFails(kind, arg) ==
    \/ /\ ~Listening
       /\ chan' = chan
       /\ faults' = faults
    \/ /\ Listening
       /\ faults < MaxFaults
       /\ chan' \in {chan, Written(Torn), Written([kind |-> kind, arg |-> arg])}
       /\ faults' = faults + 1

Send(kind, arg) == SendDone(kind, arg) \/ SendFails(kind, arg)

\* A push of a token, and what its caller was told.
SendMint(t) ==
    \/ SendDone("mint", t) /\ unpushed' = unpushed \ {t}
    \/ SendFails("mint", t) /\ unpushed' = unpushed \cup {t}

\* The process ends; its register frame stays readable while Serve may read.
Ended(c) ==
    IF serve[c].pc = "none" THEN NoChild
    ELSE [child[c] EXCEPT !.pc = "gone", !.tokens = {}, !.switch = Off]

End(c) ==
    /\ child' = [child EXCEPT ![c] = Ended(c)]
    /\ chan' = [chan EXCEPT ![c] = <<>>]

\* The child's end of the channel is closed.
Closed(c) == child[c].pc \in {"standalone", "gone"}

\* Serve returns; of a process that is gone nothing is left.
ServeReturns(c) ==
    /\ serve' = [serve EXCEPT ![c].pc = "none"]
    /\ child' = [child EXCEPT ![c] = IF @.pc = "gone" THEN NoChild ELSE @]

\* Serve read the register frame: setConn.
ServeRegister(c) ==
    /\ serve[c].pc = "wait"
    /\ child[c].reg
    /\ serve' = [serve EXCEPT ![c].pc = "set"]
    /\ session' = c
    /\ UNCHANGED <<child, chan, ident, managed, sup, daemon, bounds, history>>

\* The channel ended before a register frame.
ServeReject(c) ==
    /\ serve[c].pc = "wait"
    /\ Closed(c) /\ ~child[c].reg
    /\ ServeReturns(c)
    /\ UNCHANGED <<chan, session, ident, managed, sup, daemon, bounds, history>>

\* onRegister: NoteRegistered and the port ...
OnRegister(c) ==
    /\ serve[c].pc = "set"
    /\ serve' = [serve EXCEPT ![c].pc = "noted"]
    /\ ident' = child[c].ver
    /\ port' = child[c].port
    /\ UNCHANGED <<child, chan, session, managed, sup, tokens, switch, minting, jobs,
                   status, bounds, history>>

\* ... then publishStatus: the snapshot under the lock, the write after it.
ServeSnapshot(c) ==
    /\ serve[c].pc = "noted"
    /\ serve' = [serve EXCEPT ![c] = [pc |-> "snapped", snap |-> switch]]
    /\ UNCHANGED <<child, chan, session, ident, managed, sup, daemon, bounds, history>>

ServeWrite(c) ==
    /\ serve[c].pc = "snapped"
    /\ serve' = [serve EXCEPT ![c] = [pc |-> "open", snap |-> Off]]
    /\ status' = serve[c].snap
    /\ UNCHANGED <<child, chan, session, ident, managed, sup, tokens, switch, port,
                   minting, jobs, bounds, history>>

\* Mutant: the session of a child that is gone stays.
clearConn_keeps(c) == session

\* clearConn drops the session only if it is still this child's.
clearConn(c) == IF session = c THEN None ELSE session

ServeEnds(c) ==
    /\ serve[c].pc = "open"
    /\ Closed(c)
    /\ ServeReturns(c)
    /\ session' = clearConn(c)
    /\ UNCHANGED <<chan, ident, managed, sup, daemon, bounds, history>>

Serve(c) ==
    \/ ServeRegister(c) \/ ServeReject(c) \/ OnRegister(c)
    \/ ServeSnapshot(c) \/ ServeWrite(c) \/ ServeEnds(c)

-----------------------------------------------------------------------------
(***************************************************************************)
(* The children: main and run_seam.                                        *)
(***************************************************************************)
\* Another process listens on the port this child is told to bind.
PortTaken(c) ==
    \E d \in Children \ {c} :
        child[d].pc \in {"serving", "standalone"} /\ child[d].port = child[c].port

\* main binds the port and run_seam writes the register frame.
ChildRegister(c) ==
    /\ child[c].pc = "starting"
    /\ ~PortTaken(c)
    /\ child' = [child EXCEPT ![c].pc = "serving", ![c].reg = TRUE]
    /\ UNCHANGED <<chan, serve, session, ident, managed, sup, daemon, bounds, history>>

\* The bind fails and main returns.
BindFails(c) ==
    /\ child[c].pc = "starting"
    /\ PortTaken(c)
    /\ End(c)
    /\ UNCHANGED <<serve, session, ident, managed, sup, daemon, bounds, history>>

\* One turn of the seam loop.  A shutdown frame ends it, and the process.  A
\* piece of a frame and the frame behind it are one malformed line: the loop
\* ends, and the process serves on with its port and without a control plane.
ChildApply(c) ==
    /\ child[c].pc = "serving"
    /\ chan[c] # <<>>
    /\ LET f == Head(chan[c])
       IN  \/ /\ f.kind = "mint"
              /\ child' = [child EXCEPT ![c].tokens = @ \cup {f.arg}]
              /\ chan' = [chan EXCEPT ![c] = Tail(@)]
           \/ /\ f.kind \in Switches
              /\ child' = [child EXCEPT ![c].switch[f.kind] = f.arg]
              /\ chan' = [chan EXCEPT ![c] = Tail(@)]
           \/ f.kind = "shutdown" /\ End(c)
           \/ /\ f.kind = "torn"
              /\ \E i \in 1 .. Len(chan[c]) : chan[c][i] # Torn
              /\ child' = [child EXCEPT ![c].pc = "standalone"]
              /\ chan' = [chan EXCEPT ![c] = <<>>]
    /\ UNCHANGED <<serve, session, ident, managed, sup, daemon, bounds, history>>

Crash(c) ==
    /\ faults < MaxFaults
    /\ child[c].pc \in {"starting", "serving", "standalone"}
    /\ End(c)
    /\ faults' = faults + 1
    /\ UNCHANGED <<serve, session, ident, managed, sup, daemon, disk, toggled, history>>

\* The operator installs the next version of the binaries.
Upgrade ==
    /\ disk < LastVersion
    /\ disk' = disk + 1
    /\ UNCHANGED <<wires, ident, managed, sup, daemon, faults, toggled, history>>

-----------------------------------------------------------------------------
(***************************************************************************)
(* The control handlers.                                                   *)
(***************************************************************************)

\* handleMint: refused until a port is known; the token is recorded, ...
HandleMint(t) ==
    /\ port # None
    /\ t \notin tokens
    /\ tokens' = tokens \cup {t}
    /\ minting' = minting \cup {t}
    /\ UNCHANGED <<wires, ident, managed, sup, switch, port, jobs, status, bounds, history>>

\* Mutant: the wrong frame is pushed.
MintPush_evicts(t) ==
    /\ t \in minting
    /\ Send("evict", t)
    /\ minting' = minting \ {t}
    /\ UNCHANGED <<child, serve, session, ident, managed, sup, tokens, switch, port, jobs,
                   status, disk, toggled, history>>

\* ... then pushed; an error is only logged, the URL is handed out.
MintPush(t) ==
    /\ t \in minting
    /\ SendMint(t)
    /\ minting' = minting \ {t}
    /\ UNCHANGED <<child, serve, session, ident, managed, sup, tokens, switch, port, jobs,
                   status, disk, toggled, verified, spree, flaps>>

\* handleKill and handleShadow: record, push, publish.
HandleToggle(op, on) ==
    /\ toggled < MaxToggles
    /\ toggled' = toggled + 1
    /\ switch' = [switch EXCEPT ![op] = on]
    /\ jobs' = jobs \cup {[id |-> toggled, op |-> op, on |-> on, pc |-> "send", snap |-> Off]}
    /\ UNCHANGED <<wires, ident, managed, sup, tokens, port, minting, status, disk,
                   faults, history>>

TogglePush(j) ==
    /\ j.pc = "send"
    /\ Send(j.op, j.on)
    /\ jobs' = (jobs \ {j}) \cup {[j EXCEPT !.pc = "publish"]}
    /\ UNCHANGED <<child, serve, session, ident, managed, sup, tokens, switch, port, minting,
                   status, disk, toggled, history>>

ToggleSnapshot(j) ==
    /\ j.pc = "publish"
    /\ jobs' = (jobs \ {j}) \cup {[j EXCEPT !.pc = "write", !.snap = switch]}
    /\ UNCHANGED <<wires, ident, managed, sup, tokens, switch, port, minting, status, bounds,
                   history>>

ToggleWrite(j) ==
    /\ j.pc = "write"
    /\ jobs' = jobs \ {j}
    /\ status' = j.snap
    /\ UNCHANGED <<wires, ident, managed, sup, tokens, switch, port, minting, bounds, history>>

Toggle(j) == TogglePush(j) \/ ToggleSnapshot(j) \/ ToggleWrite(j)

-----------------------------------------------------------------------------
(***************************************************************************)
(* The spawner: EnsureRunning and Stop.                                    *)
(***************************************************************************)

\* The next try waits for retryAt.
noteSpawnFailure(s) == [s EXCEPT !.retryAt = TRUE]

\* Where EnsureRunning returns to: bringUp ignores the result.
Ensured(s) == [s EXCEPT !.pc = IF s.why = "boot" THEN "grace" ELSE "verify"]
NotEnsured(s) ==
    IF s.why = "boot" THEN [s EXCEPT !.pc = "grace"]
    ELSE noteSpawnFailure([s EXCEPT !.pc = "idle"])

EnsureAlready ==
    /\ sup.pc = "ensure"
    /\ Registered
    /\ sup' = Ensured(sup)
    /\ UNCHANGED <<wires, ident, managed, daemon, bounds, history>>

\* A slot for a new child.
Free(c) == child[c].pc = "none"

\* The child is told to bind the published port, or any before there is one.
Spawn ==
    /\ sup.pc = "ensure"
    /\ ~Registered
    /\ \E c \in Children :
        /\ Free(c) /\ \A d \in Children : Free(d) => c <= d
        /\ child' = [child EXCEPT ![c] =
                        [NoChild EXCEPT !.pc = "starting", !.ver = disk,
                                        !.port = IF port = None THEN c ELSE port]]
        /\ serve' = [serve EXCEPT ![c].pc = "wait"]
        /\ managed' = c
        /\ verified' = IF verified = c THEN None ELSE verified
    /\ sup' = [sup EXCEPT !.pc = "await"]
    /\ UNCHANGED <<chan, session, ident, daemon, bounds, spree, flaps, unpushed>>

\* The spawn fails, for one beyond MaxChildren always.
SpawnFails ==
    /\ sup.pc = "ensure"
    /\ ~Registered
    /\ \/ faults < MaxFaults /\ faults' = faults + 1
       \/ (\A c \in Children : ~Free(c)) /\ faults' = faults
    /\ sup' = NotEnsured(sup)
    /\ UNCHANGED <<wires, ident, managed, daemon, disk, toggled, history>>

AwaitReady ==
    /\ sup.pc = "await"
    /\ Registered
    /\ sup' = Ensured(sup)
    /\ UNCHANGED <<wires, ident, managed, daemon, bounds, history>>

\* Serve has read a register frame, or can, and is not through with it.
Registering(c) == serve[c].pc # "none" /\ child[c].reg

\* Nothing more can register this child: it is gone or was registered before.
Hopeless(c) == Closed(c) \/ serve[c].pc \notin {"wait", "set"}

\* The deadline passes, before a child that is gone, that another displaced,
\* or that does not register in time; it is not looked at again.
DeadlinePasses ==
    /\ sup.pc = "await"
    /\ Registered \/ Registering(managed) => LateRegister
    /\ managed' = None
    /\ sup' = NotEnsured(sup)
    /\ UNCHANGED <<serve, session, ident, daemon, disk, toggled, history>>

\* The child is stopped ...
AwaitTimeout ==
    /\ DeadlinePasses
    /\ \/ Hopeless(managed) /\ faults' = faults
       \/ ~Hopeless(managed) /\ faults < MaxFaults /\ faults' = faults + 1
    /\ End(managed)

\* ... or the stop fails, and it lives on with nobody to stop it.
StopFails ==
    /\ DeadlinePasses
    /\ LateRegister
    /\ child[managed].pc \notin {"gone", "none"}
    /\ faults < MaxFaults
    /\ faults' = faults + 1
    /\ UNCHANGED <<child, chan>>

-----------------------------------------------------------------------------
(***************************************************************************)
(* The supervisor.                                                         *)
(***************************************************************************)

\* bringUp: the first child registered, or the grace is over.
StartLoop ==
    /\ sup.pc = "grace"
    /\ sup' = [sup EXCEPT !.pc = "idle"]
    /\ UNCHANGED <<wires, ident, managed, daemon, bounds, history>>

isSkew(version) == version # MyVersion /\ version # sup.spawnedSkew

\* Tick, reachable at a version that is ours or was spawned knowingly.
TickSettled ==
    /\ sup.pc = "idle"
    /\ Registered
    /\ ~isSkew(ident)
    /\ sup' = [sup EXCEPT !.sawUnhealthy = FALSE, !.retryAt = FALSE,
                          !.hazard = IF ident = MyVersion THEN 0 ELSE @]
    /\ spree' = IF ident = MyVersion THEN 0 ELSE spree
    /\ UNCHANGED <<wires, ident, managed, daemon, bounds, verified, flaps, unpushed>>

\* Tick, reachable at another version: Replace.  ReplaceSafe always clears.
TickSkew ==
    /\ sup.pc = "idle"
    /\ Registered
    /\ isSkew(ident)
    /\ sup' = [sup EXCEPT !.sawUnhealthy = FALSE, !.pc = "shutdown", !.why = "replace"]
    /\ flaps' = IF session = verified THEN flaps + 1 ELSE flaps
    /\ verified' = IF session = verified THEN None ELSE verified
    /\ UNCHANGED <<wires, ident, managed, daemon, bounds, spree, unpushed>>

\* Tick, unreachable: revive.
TickDown ==
    /\ sup.pc = "idle"
    /\ ~Registered
    /\ sup' = [sup EXCEPT !.pc = "revive", !.why = "revive"]
    /\ UNCHANGED <<wires, ident, managed, daemon, bounds, history>>

\* revive: the first sighting of a death counts; after HazardWindow the
\* count starts over.
CountDeath ==
    /\ sup.pc = "revive"
    /\ ~Connected /\ ~sup.sawUnhealthy
    /\ \/ /\ sup' = [sup EXCEPT !.pc = "died", !.sawUnhealthy = TRUE, !.hazard = @ + 1]
          /\ spree' = spree
       \/ /\ sup' = [sup EXCEPT !.pc = "died", !.sawUnhealthy = TRUE, !.hazard = 1]
          /\ spree' = 0
    /\ UNCHANGED <<wires, ident, managed, daemon, bounds, verified, flaps, unpushed>>

NoDeath ==
    /\ sup.pc = "revive"
    /\ Connected \/ sup.sawUnhealthy
    /\ sup' = [sup EXCEPT !.pc = "breaker"]
    /\ UNCHANGED <<wires, ident, managed, daemon, bounds, history>>

\* Reconcile(ChildDied).
ChildDied ==
    /\ sup.pc = "died"
    /\ ident' = None
    /\ sup' = [sup EXCEPT !.pc = "breaker"]
    /\ UNCHANGED <<wires, managed, daemon, bounds, history>>

\* The breaker is open: Retreat only logs.
Retreat ==
    /\ sup.pc = "breaker"
    /\ sup.hazard >= ReviveBreaker
    /\ sup' = [sup EXCEPT !.pc = "idle"]
    /\ UNCHANGED <<wires, ident, managed, daemon, bounds, history>>

\* A spawn failed lately and retryAt is still ahead.
Backoff ==
    /\ sup.pc = "breaker"
    /\ sup.hazard < ReviveBreaker
    /\ sup.retryAt
    /\ sup' = [sup EXCEPT !.pc = "idle"]
    /\ UNCHANGED <<wires, ident, managed, daemon, bounds, history>>

Revive ==
    /\ sup.pc = "breaker"
    /\ sup.hazard < ReviveBreaker
    /\ sup' = [sup EXCEPT !.pc = "ensure"]
    /\ UNCHANGED <<wires, ident, managed, daemon, bounds, history>>

\* Mutant: the version of a spawned child is forgotten.
noteSpawnedVersion_forgets(s, version) == s

noteSpawnedVersion(s, version) ==
    [s EXCEPT !.spawnedSkew = IF version = MyVersion THEN None ELSE version]

\* Mutant: a verified spawn closes the crash-loop count.
Verify_forgives ==
    /\ sup.pc = "verify"
    /\ Registered
    /\ sup' = noteSpawnedVersion(
                [sup EXCEPT !.pc = "snapshot", !.retryAt = FALSE, !.hazard = 0,
                            !.sawUnhealthy = IF sup.why = "revive" THEN FALSE ELSE @],
                ident)
    /\ verified' = session
    /\ spree' = IF sup.why = "revive" THEN spree + 1 ELSE spree
    /\ UNCHANGED <<wires, ident, managed, daemon, bounds, flaps, unpushed>>

\* verifySpawned; Reconcile(Respawned) or Reconcile(ReplaceSucceeded) is next.
Verify ==
    /\ sup.pc = "verify"
    /\ Registered
    /\ sup' = noteSpawnedVersion(
                [sup EXCEPT !.pc = "snapshot", !.retryAt = FALSE,
                            !.sawUnhealthy = IF sup.why = "revive" THEN FALSE ELSE @],
                ident)
    /\ verified' = session
    /\ spree' = IF sup.why = "revive" THEN spree + 1 ELSE spree
    /\ UNCHANGED <<wires, ident, managed, daemon, bounds, flaps, unpushed>>

VerifyFails ==
    /\ sup.pc = "verify"
    /\ ~Registered
    /\ sup' = noteSpawnFailure([sup EXCEPT !.pc = "idle"])
    /\ UNCHANGED <<wires, ident, managed, daemon, bounds, history>>

\* repushTokens copies the tokens under the lock and pushes them after it.
RepushSnapshot ==
    /\ sup.pc = "snapshot"
    /\ sup' = [sup EXCEPT !.pc = "repush", !.todo = tokens]
    /\ UNCHANGED <<wires, ident, managed, daemon, bounds, history>>

Repush(t) ==
    /\ sup.pc = "repush"
    /\ t \in sup.todo
    /\ SendMint(t)
    /\ sup' = [sup EXCEPT !.todo = @ \ {t}]
    /\ UNCHANGED <<child, serve, session, ident, managed, daemon, disk, toggled, verified,
                   spree, flaps>>

\* Mutant: the re-push gives up on the way.
RepushDone_early ==
    /\ sup.pc = "repush"
    /\ sup' = [sup EXCEPT !.pc = "idle", !.todo = {}]
    /\ UNCHANGED <<wires, ident, managed, daemon, bounds, history>>

RepushDone ==
    /\ sup.pc = "repush"
    /\ sup.todo = {}
    /\ sup' = [sup EXCEPT !.pc = "idle"]
    /\ UNCHANGED <<wires, ident, managed, daemon, bounds, history>>

\* Replace: ask the child to step down ...
Shutdown ==
    /\ sup.pc = "shutdown"
    /\ \/ SendDone("shutdown", None) /\ sup' = [sup EXCEPT !.pc = "gone", !.acked = TRUE]
       \/ SendFails("shutdown", None) /\ sup' = [sup EXCEPT !.pc = "gone", !.acked = FALSE]
    /\ UNCHANGED <<child, serve, session, ident, managed, daemon, disk, toggled, history>>

\* ... wait for it to let go of the seam ...
WaitGone ==
    /\ sup.pc \in {"gone", "reaped"}
    /\ ~Registered
    /\ sup' = [sup EXCEPT !.pc = "ensure", !.acked = FALSE]
    /\ UNCHANGED <<wires, ident, managed, daemon, bounds, history>>

\* ... and if it does not, kill it, provided the request was written.
WaitGoneTimeout ==
    /\ sup.pc \in {"gone", "reaped"}
    /\ Registered
    /\ sup' = [sup EXCEPT !.pc = IF sup.pc = "gone" /\ sup.acked THEN "reap" ELSE "idle",
                          !.acked = FALSE]
    /\ UNCHANGED <<wires, ident, managed, daemon, bounds, history>>

\* There may be none to kill; and a stop that fails aborts the replacement.
reapWedged ==
    /\ sup.pc = "reap"
    /\ \/ /\ managed = None
          /\ sup' = [sup EXCEPT !.pc = "ensure"]
          /\ UNCHANGED <<child, chan, managed, faults>>
       \/ /\ managed # None
          /\ End(managed)
          /\ managed' = None
          /\ sup' = [sup EXCEPT !.pc = "reaped"]
          /\ UNCHANGED faults
       \/ /\ managed # None /\ child[managed].pc \notin {"gone", "none"}
          /\ faults < MaxFaults
          /\ faults' = faults + 1
          /\ sup' = [sup EXCEPT !.pc = "idle"]
          /\ UNCHANGED <<child, chan, managed>>
    /\ UNCHANGED <<serve, session, ident, daemon, disk, toggled, history>>

Supervise ==
    \/ EnsureAlready \/ Spawn \/ SpawnFails \/ AwaitReady
    \/ AwaitTimeout \/ StopFails \/ StartLoop \/ TickSettled \/ TickSkew \/ TickDown
    \/ CountDeath \/ NoDeath \/ ChildDied \/ Retreat \/ Backoff \/ Revive
    \/ Verify \/ VerifyFails \/ RepushSnapshot \/ (\E t \in Tokens : Repush(t)) \/ RepushDone
    \/ Shutdown \/ WaitGone \/ WaitGoneTimeout \/ reapWedged

-----------------------------------------------------------------------------
Next ==
    \/ Supervise
    \/ \E c \in Children :
        Serve(c) \/ ChildRegister(c) \/ BindFails(c) \/ ChildApply(c) \/ Crash(c)
    \/ Upgrade
    \/ \E t \in Tokens : HandleMint(t) \/ MintPush(t)
    \/ \E op \in Switches, on \in BOOLEAN : HandleToggle(op, on)
    \/ \E j \in jobs : Toggle(j)

Spec == Init /\ [][Next]_vars

(***************************************************************************)
(* Goroutines and children keep running; requests, crashes and upgrades    *)
(* come or do not.  The clock passes retryAt.                              *)
(***************************************************************************)
Fairness ==
    /\ WF_vars(Supervise)
    /\ SF_vars(Revive)
    /\ \A c \in Children :
        /\ WF_vars(Serve(c)) /\ WF_vars(ChildApply(c))
        /\ WF_vars(ChildRegister(c) \/ BindFails(c))
    /\ \A t \in Tokens : WF_vars(MintPush(t))
    /\ WF_vars(\E j \in jobs : Toggle(j))

FairSpec == Spec /\ Fairness

-----------------------------------------------------------------------------
(***************************************************************************)
(* Properties.                                                             *)
(***************************************************************************)

(* The daemon's state, the supervisor's and every child's keep their types.*)
TypeOK ==
    /\ child \in [Children -> ChildType]
    /\ chan \in [Children -> Seq(FrameType)]
    /\ serve \in [Children -> ServeType]
    /\ session \in Children \cup {None}
    /\ ident \in Nat \cup {None}
    /\ managed \in Children \cup {None}
    /\ sup \in SupType
    /\ tokens \subseteq Tokens
    /\ switch \in SwitchType
    /\ port \in Children \cup {None}
    /\ minting \subseteq Tokens
    /\ jobs \subseteq JobType
    /\ status \in SwitchType \cup {None}
    /\ disk \in Nat
    /\ faults \in 0 .. MaxFaults
    /\ toggled \in 0 .. MaxToggles
    /\ verified \in Children \cup {None}
    /\ spree \in Nat /\ flaps \in Nat
    /\ unpushed \subseteq Tokens

\* A child is served, the supervisor rests and no frame is on its way to it.
Calm ==
    /\ sup.pc = "idle"
    /\ minting = {} /\ jobs = {}
    /\ Listening
    /\ serve[session].pc = "open"
    /\ \A i \in 1 .. Len(chan[session]) : chan[session][i] = Torn

(* handleMint, repushTokens: however crashes, replacements, failed and cut *)
(* writes interleave with mint requests, no token is lost silently: in a   *)
(* calm state the served child knows every token the daemon handed out,    *)
(* except those whose latest push was reported as failed.                  *)
TokensSurvive == Calm => tokens \ unpushed \subseteq child[session].tokens

(* handleKill: the daemon's kill and shadow are "exactly what the proxy is *)
(* now running".                                                           *)
SwitchMirrored == Calm => child[session].switch = switch

(* publishStatus: once all requests are answered and the register          *)
(* published, the status file shows the daemon's switches.                 *)
StatusFresh == Calm => status = switch

(* reviveBreaker: a proxy that comes up only to die again is brought back  *)
(* fewer than ReviveBreaker times before it is seen settled at our version *)
(* (or HazardWindow passes), however probes race with registrations.       *)
CrashLoopBounded == spree < ReviveBreaker

(* isSkew and noteSpawnedVersion: a child that the supervisor itself       *)
(* verified after a spawn is replaced for its version at most once for     *)
(* every upgrade of the binary, although Replace may verify it by the      *)
(* identity of the child before it.                                        *)
NoFlap == flaps <= disk - DiskVersion

(* Reconcile: "a stale identity is never reused": the version noted for a  *)
(* spawned child is the one that child registered with.                    *)
FreshIdentity ==
    [][sup.pc = "verify" /\ sup'.pc = "snapshot" => ident = child[session].ver]_vars

\* The proxy is served and known.
Up == Registered /\ Listening

\* A process that nobody can stop any more keeps its port.
Orphaned == \E c \in Children \ {managed} : child[c].pc \in {"serving", "standalone"}

BreakerOpen == sup.hazard >= ReviveBreaker

(* Tick and revive: a proxy that is down, by a crash, a failed spawn, stop *)
(* or write, is up again later, unless it crash-looped and the breaker     *)
(* opened or a process that the spawner gave up on keeps the port.         *)
ProxyComesBack == []<>(Up \/ BreakerOpen \/ Orphaned)

(* Retreat: the breaker's reason "is logged and the next Tick retries".    *)
RetreatRetries == [](BreakerOpen => <>(sup.pc = "ensure" \/ Up))

(* currentProxyPort: the replacement of a proxy that left re-binds its     *)
(* port.                                                                   *)
ReplacementBinds == []<>(Up \/ BreakerOpen)

(* onRegister: a proxy at another version is replaced again and again.     *)
KeepsReplacing == DiskVersion # MyVersion => []<>(sup.pc = "shutdown")
=============================================================================
