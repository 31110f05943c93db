-------------------------------- MODULE Seam --------------------------------
(***************************************************************************)
(* The seam between the control plane and its proxy children, byte by byte *)
(* as far as it matters: Server (Serve, Close, send with its write gate,   *)
(* deadline and interrupt) on one end, run_seam on the other.  ControlPlane*)
(* has the same seam with whole frames that are written or lost.           *)
(*                                                                         *)
(* A frame reaches the socket in three parts: some of its JSON, the rest   *)
(* of it, and the newline, so a write can be cut between any two.  The     *)
(* socket holds Capacity parts.  A timer may expire whenever it runs.      *)
(***************************************************************************)
EXTENDS Integers, Sequences, FiniteSets

CONSTANTS
    MaxSpawns,  \* children, each with its socket pair, in the order of spawning
    MaxSends,   \* calls of send, each with its frame, in the order of calling
    Shutdowns,  \* the frames among them that say shutdown
    Capacity,   \* parts a socket buffers
    MaxFaults,  \* children that die or are of another epoch, contexts cancelled
    None

Conns == 1 .. MaxSpawns
Frames == 1 .. MaxSends

ASSUME SeamAssumption ==
    /\ MaxSpawns \in Nat /\ MaxSends \in Nat /\ MaxFaults \in Nat
    /\ None \notin Nat
    /\ Shutdowns \subseteq Frames
    /\ Capacity \in Nat \ {0}

VARIABLES
    session,    \* the registered child's connection, or None
    closed,     \* Close was called
    shut,       \* connections closed at this end
    serve,      \* where each Serve goroutine is
    gate,       \* the send that took a connection's write gate, or None
    deadline,   \* the write deadline of a connection
    sends,      \* the calls of send
    register,   \* the register frame a child wrote
    mode,       \* where each child's seam loop is
    wire,       \* parts in each socket, towards the child
    line,       \* parts a child read of the current line
    applied,    \* frames each child applied
    written,    \* history: frames whose JSON is in the socket, in order
    stream,     \* history: "torn" by a write that was cut short, "spoiled" by
                \* a whole frame behind it
    latest,     \* history: the last connection that was registered
    faults      \* so far

server == <<session, closed, shut, serve, latest>>
child == <<register, mode, line, applied>>
history == <<written, stream, faults>>
vars == <<server, gate, deadline, sends, child, wire, history>>

Parts == 1 .. 3
PartType == [frame : Frames, part : Parts]
SendType ==
    [pc : {"idle", "gating", "writing", "stopping", "done"},
     conn : Conns \cup {None}, put : 0 .. 3, expired : BOOLEAN,
     interrupt : {"none", "armed", "running", "fired"}]

NewSend == [pc |-> "idle", conn |-> None, put |-> 0, expired |-> FALSE,
            interrupt |-> "none"]

Init ==
    /\ session = None /\ closed = FALSE /\ shut = {}
    /\ serve = [c \in Conns |-> "none"]
    /\ gate = [c \in Conns |-> None]
    /\ deadline = [c \in Conns |-> "none"]
    /\ sends = [f \in Frames |-> NewSend]
    /\ register = [c \in Conns |-> "none"]
    /\ mode = [c \in Conns |-> "boot"]
    /\ wire = [c \in Conns |-> <<>>]
    /\ line = [c \in Conns |-> <<>>]
    /\ applied = [c \in Conns |-> <<>>]
    /\ written = [c \in Conns |-> <<>>]
    /\ stream = [c \in Conns |-> "clean"]
    /\ latest = None
    /\ faults = 0

Fault == faults < MaxFaults /\ faults' = faults + 1

\* The child dropped its end: its loop returned, or it died.
Hung(c) == mode[c] \in {"ended", "dead"}

-----------------------------------------------------------------------------
(***************************************************************************)
(* Server: one Serve per spawned child, and Close.                         *)
(***************************************************************************)
\* Under a Serve; Close drops these.
live == {c \in Conns : serve[c] \in {"reading", "held"}}

\* A child is spawned and its channel served; a closed seam refuses it.  The
\* spawner asks Registered first, which setConn precedes and a later drop
\* outdates, so the session may be another child's by now.
Serve(c) ==
    /\ serve[c] = "none"
    /\ c > 1 => serve[c - 1] # "none"
    /\ IF closed
       THEN serve' = [serve EXCEPT ![c] = "done"] /\ shut' = shut \cup {c}
       ELSE serve' = [serve EXCEPT ![c] = "reading"] /\ UNCHANGED shut
    /\ UNCHANGED <<session, closed, latest, gate, deadline, sends, child, wire, history>>

\* The register frame is read and decoded; the session replaces any other.
setConn(c) ==
    /\ serve[c] = "reading" /\ c \notin shut /\ register[c] = "good"
    /\ ~closed
    /\ session' = c
    /\ latest' = c
    /\ serve' = [serve EXCEPT ![c] = "held"]
    /\ UNCHANGED <<closed, shut, gate, deadline, sends, child, wire, history>>

\* Serve returns, and its defers close the channel.
Returns(c) ==
    /\ serve' = [serve EXCEPT ![c] = "done"]
    /\ shut' = shut \cup {c}
    /\ UNCHANGED <<closed, latest, gate, deadline, sends, child, wire, history>>

\* No register frame comes, or not one of this epoch, or too late.
ServeRejects(c) ==
    /\ serve[c] = "reading"
    /\ register[c] = "bad" \/ (register[c] = "none" /\ Hung(c)) \/ c \in shut \/ closed
    /\ Returns(c)
    /\ UNCHANGED session

\* Mutant: the end of any channel clears the session.
clearConn_any(c) == session' = None

\* The session is cleared unless another child's replaced it.
clearConn(c) == session' = IF session = c THEN None ELSE session

\* Mutant: after the register frame Serve waits for its context only.
ServeEnds_deaf(c) ==
    /\ serve[c] = "held"
    /\ c \in shut
    /\ clearConn(c)
    /\ Returns(c)

ServeEnds(c) ==
    /\ serve[c] = "held"
    /\ Hung(c) \/ c \in shut
    /\ clearConn(c)
    /\ Returns(c)

\* The context of a Serve is cancelled.
Cancel(c) ==
    /\ Fault
    /\ c \in live \ shut
    /\ shut' = shut \cup {c}
    /\ UNCHANGED <<session, closed, serve, latest, gate, deadline, sends, child, wire, written, stream>>

Close ==
    /\ ~closed
    /\ closed' = TRUE
    /\ session' = None
    /\ shut' = shut \cup live
    /\ UNCHANGED <<serve, latest, gate, deadline, sends, child, wire, history>>

-----------------------------------------------------------------------------
(***************************************************************************)
(* Server.send: look the session up, wait for its gate, look again, write  *)
(* under a deadline, and wait for the interrupt before letting go.         *)
(***************************************************************************)
\* The call returns.  Its error, if any, is only logged by the callers.
Return(f) == sends' = [sends EXCEPT ![f] = [NewSend EXCEPT !.pc = "done"]]
Release(f) == gate' = [gate EXCEPT ![sends[f].conn] = None]

\* Mutant: send does not look whether a child is registered.
send_unchecked(f) ==
    /\ sends[f].pc = "idle" /\ (f > 1 => sends[f - 1].pc # "idle")
    /\ sends' = [sends EXCEPT ![f].pc = "gating", ![f].conn = session]
    /\ UNCHANGED <<server, gate, deadline, child, wire, history>>

send(f) ==
    /\ sends[f].pc = "idle" /\ (f > 1 => sends[f - 1].pc # "idle")
    /\ IF session = None
       THEN Return(f)
       ELSE sends' = [sends EXCEPT ![f].pc = "gating", ![f].conn = session]
    /\ UNCHANGED <<server, gate, deadline, child, wire, history>>

\* writeTimeout passes, or the caller gives up; an interrupt that was armed
\* starts as a goroutine of its own.
Expire(f) ==
    /\ sends[f].pc \in {"gating", "writing", "stopping"} /\ ~sends[f].expired
    /\ sends' = [sends EXCEPT ![f].expired = TRUE,
                              ![f].interrupt = IF @ = "armed" THEN "running" ELSE @]
    /\ UNCHANGED <<server, gate, deadline, child, wire, history>>

GateTimeout(f) ==
    /\ sends[f].pc = "gating" /\ sends[f].expired
    /\ Return(f)
    /\ UNCHANGED <<server, gate, deadline, child, wire, history>>

\* The session is the same and still open: arm deadline and interrupt.
StartWrite(f) ==
    /\ gate' = [gate EXCEPT ![session] = f]
    /\ deadline' = [deadline EXCEPT ![session] = "set"]
    /\ sends' = [sends EXCEPT ![f].pc = "writing",
                              ![f].interrupt = IF sends[f].expired THEN "running" ELSE "armed"]

\* With the gate in hand send looks at the session again; if it is another
\* by now, or is closed, the gate goes back at once.
TakeGate(f) ==
    /\ sends[f].pc = "gating" /\ gate[sends[f].conn] = None
    /\ IF session = sends[f].conn /\ session \notin shut
       THEN StartWrite(f)
       ELSE Return(f) /\ UNCHANGED <<gate, deadline>>
    /\ UNCHANGED <<server, child, wire, history>>

InterruptFires(f) ==
    /\ sends[f].interrupt = "running"
    /\ sends' = [sends EXCEPT ![f].interrupt = "fired"]
    /\ deadline' = [deadline EXCEPT ![sends[f].conn] = "past"]
    /\ UNCHANGED <<server, gate, child, wire, history>>

\* Some more of the frame fits in the socket.
Write(f) ==
    LET c == sends[f].conn
        k == sends[f].put + 1
    IN  /\ sends[f].pc = "writing"
        /\ deadline[c] # "past" /\ c \notin shut /\ ~Hung(c)
        /\ Len(wire[c]) < Capacity
        /\ wire' = [wire EXCEPT ![c] = Append(@, [frame |-> f, part |-> k])]
        /\ written' = IF k = 2 THEN [written EXCEPT ![c] = Append(@, f)] ELSE written
        /\ sends' = [sends EXCEPT ![f].put = k, ![f].pc = IF k = 3 THEN "stopping" ELSE @]
        /\ stream' = IF k = 3 /\ stream[c] = "torn"
                     THEN [stream EXCEPT ![c] = "spoiled"]
                     ELSE stream
        /\ UNCHANGED <<server, gate, deadline, child, faults>>

CutShort(f) ==
    /\ sends' = [sends EXCEPT ![f].pc = "stopping"]
    /\ stream' = IF sends[f].put > 0 /\ stream[sends[f].conn] = "clean"
                 THEN [stream EXCEPT ![sends[f].conn] = "torn"]
                 ELSE stream

\* Mutant: no write deadline.
WriteTimeout_never(f) == FALSE /\ UNCHANGED vars

\* The deadline passes in the middle of the write.
WriteTimeout(f) ==
    /\ sends[f].pc = "writing"
    /\ \/ deadline[sends[f].conn] = "past"
       \/ deadline[sends[f].conn] = "set" /\ sends[f].expired
    /\ CutShort(f)
    /\ UNCHANGED <<server, gate, deadline, child, wire, written, faults>>

\* Either end is closed.
WriteFails(f) ==
    /\ sends[f].pc = "writing"
    /\ sends[f].conn \in shut \/ Hung(sends[f].conn)
    /\ CutShort(f)
    /\ UNCHANGED <<server, gate, deadline, child, wire, written, faults>>

\* Mutant: an interrupt that already started is not waited for.
stopInterrupt_hasty(f) == TRUE

\* Stopped before it started, or over.
stopInterrupt(f) == sends[f].interrupt # "running"

Finish(f) ==
    LET c == sends[f].conn
        over == [NewSend EXCEPT !.pc = "done"]
    IN  /\ sends[f].pc = "stopping" /\ stopInterrupt(f)
        /\ deadline' = [deadline EXCEPT ![c] = "none"]
        /\ Release(f)
        /\ sends' = [sends EXCEPT ![f] = IF @.interrupt = "running"
                                        THEN [over EXCEPT !.interrupt = "running", !.conn = c]
                                        ELSE over]
        /\ UNCHANGED <<server, child, wire, history>>

-----------------------------------------------------------------------------
(***************************************************************************)
(* run_seam.                                                               *)
(***************************************************************************)
\* The child announces itself; one of another epoch is not understood.
Announce(c) ==
    /\ mode[c] = "boot" /\ serve[c] # "none"
    /\ \/ /\ c \in shut
          /\ mode' = [mode EXCEPT ![c] = "ended"]
          /\ UNCHANGED <<register, faults>>
       \/ /\ c \notin shut
          /\ mode' = [mode EXCEPT ![c] = "loop"]
          /\ \/ register' = [register EXCEPT ![c] = "good"] /\ UNCHANGED faults
             \/ register' = [register EXCEPT ![c] = "bad"] /\ Fault
    /\ UNCHANGED <<server, gate, deadline, sends, line, applied, wire, written, stream>>

\* A line is one frame's JSON, whole and alone.
Decodes(l) ==
    \E f \in Frames :
        \/ l = <<[frame |-> f, part |-> 1], [frame |-> f, part |-> 2]>>
        \/ l = <<[frame |-> f, part |-> 1], [frame |-> f, part |-> 2],
                 [frame |-> f, part |-> 3]>>

\* Mutant: of a malformed line the frame it ends in is applied.
apply_resyncs(c, l) ==
    /\ line' = [line EXCEPT ![c] = <<>>]
    /\ applied' = [applied EXCEPT ![c] = Append(@, l[Len(l)].frame)]
    /\ UNCHANGED mode

\* Shutdown and a malformed line end the loop.
apply(c, l) ==
    /\ line' = [line EXCEPT ![c] = <<>>]
    /\ IF Decodes(l)
       THEN /\ applied' = [applied EXCEPT ![c] = Append(@, l[1].frame)]
            /\ mode' = IF l[1].frame \in Shutdowns THEN [mode EXCEPT ![c] = "ended"] ELSE mode
       ELSE /\ mode' = [mode EXCEPT ![c] = "ended"]
            /\ UNCHANGED applied

\* Mutant: a reader for each line, which loses what the last one buffered.
next_line_rebuffers(c) ==
    /\ mode[c] = "loop" /\ wire[c] # <<>>
    /\ LET l == Append(line[c], Head(wire[c]))
       IN  IF Head(wire[c]).part = 3
           THEN apply(c, l) /\ wire' = [wire EXCEPT ![c] = <<>>]
           ELSE /\ line' = [line EXCEPT ![c] = l]
                /\ wire' = [wire EXCEPT ![c] = Tail(@)]
                /\ UNCHANGED <<mode, applied>>
    /\ UNCHANGED <<server, gate, deadline, sends, register, history>>

next_line(c) ==
    /\ mode[c] = "loop" /\ wire[c] # <<>>
    /\ LET l == Append(line[c], Head(wire[c]))
       IN  /\ wire' = [wire EXCEPT ![c] = Tail(@)]
           /\ IF Head(wire[c]).part = 3
              THEN apply(c, l)
              ELSE line' = [line EXCEPT ![c] = l] /\ UNCHANGED <<mode, applied>>
    /\ UNCHANGED <<server, gate, deadline, sends, register, history>>

\* The end of the stream ends a line that has no newline, and then the loop.
next_line_last(c) ==
    /\ mode[c] = "loop" /\ wire[c] = <<>> /\ c \in shut
    /\ IF line[c] # <<>>
       THEN apply(c, line[c])
       ELSE mode' = [mode EXCEPT ![c] = "ended"] /\ UNCHANGED <<line, applied>>
    /\ UNCHANGED <<server, gate, deadline, sends, register, wire, history>>

\* The child is killed or crashes.
Die(c) ==
    /\ Fault
    /\ serve[c] # "none" /\ ~Hung(c)
    /\ mode' = [mode EXCEPT ![c] = "dead"]
    /\ wire' = [wire EXCEPT ![c] = <<>>]
    /\ line' = [line EXCEPT ![c] = <<>>]
    /\ UNCHANGED <<server, gate, deadline, sends, register, applied, written, stream>>

-----------------------------------------------------------------------------
Serving(c) == setConn(c) \/ ServeRejects(c) \/ ServeEnds(c)
Loop(c) == next_line(c) \/ next_line_last(c)
Sending(f) == TakeGate(f) \/ GateTimeout(f) \/ Write(f) \/ WriteTimeout(f)
              \/ WriteFails(f) \/ Finish(f)

Quiet == (\A c \in Conns : serve[c] = "done" /\ Hung(c)) /\ UNCHANGED vars

Next ==
    \/ \E c \in Conns : Serve(c) \/ Serving(c) \/ Cancel(c)
                        \/ Announce(c) \/ Loop(c) \/ Die(c)
    \/ \E f \in Frames : send(f) \/ Expire(f) \/ Sending(f) \/ InterruptFires(f)
    \/ Close
    \/ Quiet

Spec == Init /\ [][Next]_vars

\* Goroutines and timers run.  A child need not read.
FairSpec ==
    /\ Spec
    /\ \A c \in Conns : WF_vars(Serving(c))
    /\ \A f \in Frames : /\ WF_vars(Expire(f)) /\ WF_vars(InterruptFires(f))
                         /\ WF_vars(Sending(f))

-----------------------------------------------------------------------------
TypeOK ==
    /\ session \in Conns \cup {None} /\ latest \in Conns \cup {None}
    /\ closed \in BOOLEAN /\ faults \in 0 .. MaxFaults
    /\ shut \subseteq Conns /\ stream \in [Conns -> {"clean", "torn", "spoiled"}]
    /\ serve \in [Conns -> {"none", "reading", "held", "done"}]
    /\ gate \in [Conns -> Frames \cup {None}]
    /\ deadline \in [Conns -> {"none", "set", "past"}]
    /\ sends \in [Frames -> SendType]
    /\ \A f \in Frames : sends[f].pc \notin {"idle", "done"} => sends[f].conn \in Conns
    /\ register \in [Conns -> {"none", "good", "bad"}]
    /\ mode \in [Conns -> {"boot", "loop", "ended", "dead"}]
    /\ wire \in [Conns -> Seq(PartType)] /\ line \in [Conns -> Seq(PartType)]
    /\ applied \in [Conns -> Seq(Frames)] /\ written \in [Conns -> Seq(Frames)]
    /\ \A c \in Conns : Len(wire[c]) <= Capacity

(* seam.go, send: a write is cut by the deadline of its own call and never *)
(* by the interrupt of an earlier one: send waits for an interrupt that    *)
(* has started before it clears the deadline and puts the gate back.       *)
OwnDeadline ==
    \A f \in Frames :
        sends[f].pc = "writing" /\ deadline[sends[f].conn] = "past" => sends[f].expired

\* What a child has still to apply does not begin with a frame, or has a
\* part followed by one that does not continue its frame.
Garbled(c) ==
    LET q == line[c] \o wire[c]
    IN  \/ q # <<>> /\ q[1].part # 1
        \/ \E i \in 1 .. Len(q) - 1 :
              q[i].part < 3 /\ q[i + 1] # [frame |-> q[i].frame, part |-> q[i].part + 1]

(* The write gate of send and the reader of run_seam: concurrent calls     *)
(* never mix their frames and the reader keeps what it buffered; a stream  *)
(* is garbled only behind a frame whose own write was cut short.           *)
GarbledMeansCut ==
    \A c \in Conns : Garbled(c) => stream[c] # "clean"

(* Serve, clearConn and Close: the child that registered last keeps the    *)
(* session while it is served, whatever earlier children's channels do,    *)
(* and a closed seam has none.                                             *)
SessionIsLatest ==
    IF closed THEN session = None
    ELSE latest # None => session = IF serve[latest] = "held" THEN latest ELSE None

(* The seam implements the channel: each child applies the frames whose    *)
(* JSON went out, in that order, none twice, none skipped, until it is     *)
(* cut.  A frame whose send failed may be among them (a write cut before   *)
(* the newline counts when the stream ends behind it).                     *)
Channel == INSTANCE SeamChannel WITH
                Conns <- Conns, Frames <- Frames, sent <- written, got <- applied, up <- {c \in Conns : ~Hung(c)}
ImplementsChannel == Channel!Spec

(* seam.go, writeTimeout: every call of send returns, though a child that  *)
(* does not read fills the socket and other calls wait for the gate.  The  *)
(* calls are finitely many, so that is: again and again none is under way. *)
SendsReturn ==
    []<>(\A f \in Frames : sends[f].pc \in {"idle", "done"})

Spoiled == session # None /\ stream[session] = "spoiled"

(* run_seam and Serve: a child that reads does not keep the session once a *)
(* frame was written behind a torn one, though the call that wrote it saw  *)
(* no error: the loop ends ("a malformed line ... fail open: log and       *)
(* return"), Serve sees the end, and the supervisor spawns another.        *)
GarbledSessionEnds ==
    (\A c \in Conns : WF_vars(Loop(c))) => (Spoiled ~> ~Spoiled)

(* seam.rs, apply: "A malformed line is logged and skipped (fail-open),    *)
(* keeping the loop alive for the next frame".                             *)
MalformedSkipped ==
    [][\A c \in Conns :
          mode[c] = "loop" /\ mode'[c] = "ended" => c \in shut \/ applied'[c] # applied[c]]_vars
=============================================================================
