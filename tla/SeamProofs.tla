----------------------------- MODULE SeamProofs -----------------------------
(***************************************************************************)
(* For any number of children and sends, any socket and any faults: the    *)
(* write gate and its interrupt keep to their own call, the session is     *)
(* that of the child registered last, frames are never mixed, and the seam *)
(* implements the channel.                                                 *)
(***************************************************************************)
EXTENDS Seam, SequenceTheorems, TLAPS

-----------------------------------------------------------------------------
(***************************************************************************)
(* Types.                                                                  *)
(***************************************************************************)
\* A call under way has a connection; a write is over with its third part.
SendOK(r) ==
    /\ r \in SendType
    /\ r.pc \notin {"idle", "done"} => r.conn \in Conns
    /\ r.pc \in {"idle", "gating", "done"} => r.put = 0 /\ r.interrupt = "none"
    /\ r.pc = "writing" => r.put < 3
    /\ r.interrupt \in {"running", "fired"} => r.expired
SendsOK == sends \in [Frames -> SendType] /\ \A f \in Frames : SendOK(sends[f])

\* TypeOK but for the calls of send.
RestOK ==
    /\ session \in Conns \cup {None} /\ latest \in Conns \cup {None}
    /\ closed \in BOOLEAN /\ faults \in 0 .. MaxFaults
    /\ shut \subseteq Conns /\ stream \in [Conns -> {"clean", "torn", "spoiled"}]
    /\ serve \in [Conns -> {"none", "reading", "held", "done"}]
    /\ gate \in [Conns -> Frames \cup {None}]
    /\ deadline \in [Conns -> {"none", "set", "past"}]
    /\ register \in [Conns -> {"none", "good", "bad"}]
    /\ mode \in [Conns -> {"boot", "loop", "ended", "dead"}]
    /\ wire \in [Conns -> Seq(PartType)] /\ line \in [Conns -> Seq(PartType)]
    /\ applied \in [Conns -> Seq(Frames)] /\ written \in [Conns -> Seq(Frames)]
    /\ \A c \in Conns : Len(wire[c]) <= Capacity

(* The types of the calls and of the rest are TypeOK.                      *)
LEMMA TypeParts == SendsOK /\ RestOK => TypeOK
BY DEF TypeOK, SendsOK, RestOK, SendOK

(* A call may be replaced by another record of its type.                   *)
LEMMA SendsUpdate ==
    ASSUME SendsOK, NEW f \in Frames, NEW r, SendOK(r), sends' = [sends EXCEPT ![f] = r]
    PROVE  SendsOK'
BY DEF SendsOK, SendOK

(* The records the steps of send build are of their type.                  *)
LEMMA SendRecords ==
    ASSUME NEW r, SendOK(r)
    PROVE  /\ SendOK([NewSend EXCEPT !.pc = "done"])
           /\ r.pc = "idle" => \A c \in Conns : SendOK([r EXCEPT !.pc = "gating", !.conn = c])
           /\ r.pc \in {"writing", "stopping"} =>
                \A i \in {"none", "armed", "running", "fired"} :
                    SendOK([r EXCEPT !.expired = TRUE, !.interrupt = i])
           /\ r.pc = "gating" => SendOK([r EXCEPT !.expired = TRUE, !.interrupt = "none"])
           /\ r.interrupt = "running" => SendOK([r EXCEPT !.interrupt = "fired"])
           /\ r.pc = "gating" =>
                \A i \in {"armed", "running"} :
                    (i = "running" => r.expired) =>
                        SendOK([r EXCEPT !.pc = "writing", !.interrupt = i])
           /\ r.pc = "writing" => SendOK([r EXCEPT !.pc = "stopping"])
           /\ r.pc = "writing" =>
                \A p \in {"writing", "stopping"} :
                    (r.put = 2 => p = "stopping") => SendOK([r EXCEPT !.put = r.put + 1, !.pc = p])
<1> USE DEF SendOK, SendType
<1>1. SendOK([NewSend EXCEPT !.pc = "done"])
    <2>0. ASSUME NEW e
          PROVE  [[pc |-> "idle", conn |-> None, put |-> 0, expired |-> e,
                   interrupt |-> "none"] EXCEPT !.pc = "done"]
                 = [pc |-> "done", conn |-> None, put |-> 0, expired |-> e, interrupt |-> "none"]
        OBVIOUS
    <2>1. [NewSend EXCEPT !.pc = "done"] = [pc |-> "done", conn |-> None, put |-> 0,
                                            expired |-> FALSE, interrupt |-> "none"]
        BY <2>0, Zenon DEF NewSend
    <2>2. 0 \in 0 .. 3
        OBVIOUS
    <2> HIDE DEF SendOK
    <2> DEFINE w == [pc |-> "done", conn |-> None, put |-> 0,
                     expired |-> FALSE, interrupt |-> "none"]
    <2>3. w \in SendType
        BY <2>2, Zenon DEF SendType
    <2>4. w.pc = "done" /\ w.put = 0 /\ w.interrupt = "none"
        OBVIOUS
    <2> HIDE DEF w
    <2>5. SendOK(w)
        BY <2>3, <2>4 DEF SendOK
    <2> QED BY <2>1, <2>5 DEF w
<1>2. r.pc = "idle" => \A c \in Conns : SendOK([r EXCEPT !.pc = "gating", !.conn = c])
    OBVIOUS
<1>3. ASSUME r.pc \in {"writing", "stopping"}, NEW i \in {"none", "armed", "running", "fired"}
      PROVE  SendOK([r EXCEPT !.expired = TRUE, !.interrupt = i])
    BY <1>3
<1>4. r.pc = "gating" => SendOK([r EXCEPT !.expired = TRUE, !.interrupt = "none"])
    OBVIOUS
<1>5. r.interrupt = "running" => SendOK([r EXCEPT !.interrupt = "fired"])
    OBVIOUS
<1>6. ASSUME r.pc = "gating", NEW i \in {"armed", "running"}, i = "running" => r.expired
      PROVE  SendOK([r EXCEPT !.pc = "writing", !.interrupt = i])
    <2> DEFINE w == [r EXCEPT !.pc = "writing", !.interrupt = i]
    <2>1. w.pc = "writing" /\ w.interrupt = i /\ w.put = r.put /\ w.expired = r.expired
          /\ w.conn = r.conn /\ w \in SendType
        OBVIOUS
    <2>2. r.put = 0 /\ r.conn \in Conns
        BY <1>6
    <2> HIDE DEF w
    <2>3. w.interrupt \in {"running", "fired"} => w.expired
        BY <1>6, <2>1, Zenon
    <2>4. w.put < 3
        BY <2>1, <2>2
    <2>5. w.pc \notin {"idle", "gating", "done"}
        BY <2>1
    <2> HIDE DEF SendType
    <2>6. SendOK(w)
        BY <2>1, <2>2, <2>3, <2>4, <2>5, Zenon
    <2> HIDE DEF SendOK
    <2> QED BY <2>6 DEF w
<1>7. r.pc = "writing" => SendOK([r EXCEPT !.pc = "stopping"])
    OBVIOUS
<1>8. ASSUME r.pc = "writing", NEW p \in {"writing", "stopping"}, r.put = 2 => p = "stopping"
      PROVE  SendOK([r EXCEPT !.put = r.put + 1, !.pc = p])
    <2> DEFINE w == [r EXCEPT !.put = r.put + 1, !.pc = p]
    <2>1. r.put + 1 \in 0 .. 3 /\ (p = "writing" => r.put + 1 < 3) /\ r.conn \in Conns
        BY <1>8
    <2>2. w.pc = p /\ w.put = r.put + 1 /\ w.interrupt = r.interrupt /\ w.expired = r.expired
          /\ w.conn = r.conn /\ w \in SendType
        BY <2>1
    <2> HIDE DEF w
    <2> QED BY <1>8, <2>1, <2>2
<1> QED BY <1>1, <1>2, <1>3, <1>4, <1>5, <1>6, <1>7, <1>8

(* Every step of a call keeps the types of the calls.                      *)
LEMMA SendsStep ==
    ASSUME SendsOK, RestOK, NEW f \in Frames,
           send(f) \/ Expire(f) \/ InterruptFires(f) \/ Sending(f)
    PROVE  SendsOK'
<1>0. SendOK(sends[f]) /\ sends[f] \in SendType /\ sends \in [Frames -> SendType]
    BY DEF SendsOK
<1>1. CASE send(f)
    <2>1. CASE session = None
        BY <1>0, <1>1, <2>1, SendRecords, SendsUpdate DEF send, Return
    <2>2. CASE session # None
        <3>1. sends' = [sends EXCEPT ![f] = [sends[f] EXCEPT !.pc = "gating", !.conn = session]]
            BY <1>0, <1>1, <2>2 DEF send
        <3>2. session \in Conns /\ sends[f].pc = "idle"
            BY <1>1, <2>2 DEF RestOK, send
        <3> QED BY <1>0, <3>1, <3>2, SendRecords, SendsUpdate
    <2> QED BY <2>1, <2>2
<1>2. CASE Expire(f)
    <2> DEFINE i == IF sends[f].interrupt = "armed" THEN "running" ELSE sends[f].interrupt
    <2>1. sends' = [sends EXCEPT ![f] = [sends[f] EXCEPT !.expired = TRUE, !.interrupt = i]]
        BY <1>0, <1>2 DEF Expire
    <2>2. i \in {"none", "armed", "running", "fired"}
        BY <1>0 DEF SendType
    <2>3. sends[f].pc = "gating" => i = "none"
        BY <1>0 DEF SendOK
    <2>4. sends[f].pc \in {"gating", "writing", "stopping"}
        BY <1>2 DEF Expire
    <2> HIDE DEF i
    <2>5. SendOK([sends[f] EXCEPT !.expired = TRUE, !.interrupt = i])
        BY <1>0, <2>2, <2>3, <2>4, SendRecords
    <2> QED BY <2>1, <2>5, SendsUpdate
<1>3. CASE InterruptFires(f)
    <2>1. sends' = [sends EXCEPT ![f] = [sends[f] EXCEPT !.interrupt = "fired"]]
        BY <1>0, <1>3 DEF InterruptFires
    <2> QED BY <1>0, <1>3, <2>1, SendRecords, SendsUpdate DEF InterruptFires
<1>4. CASE GateTimeout(f)
    BY <1>0, <1>4, SendRecords, SendsUpdate DEF GateTimeout, Return
<1>5. CASE TakeGate(f)
    <2>1. CASE session = sends[f].conn /\ session \notin shut
        <3> DEFINE i == IF sends[f].expired THEN "running" ELSE "armed"
        <3>1. sends' = [sends EXCEPT ![f] = [sends[f] EXCEPT !.pc = "writing", !.interrupt = i]]
            BY <1>0, <1>5, <2>1 DEF TakeGate, StartWrite
        <3>2. sends[f].pc = "gating" /\ sends[f].expired \in BOOLEAN
            BY <1>0, <1>5 DEF TakeGate, SendType
        <3>3. i \in {"armed", "running"} /\ (i = "running" => sends[f].expired)
            BY <3>2
        <3> HIDE DEF i
        <3> QED BY <1>0, <3>1, <3>2, <3>3, SendRecords, SendsUpdate
    <2>2. CASE ~(session = sends[f].conn /\ session \notin shut)
        BY <1>0, <1>5, <2>2, SendRecords, SendsUpdate DEF TakeGate, Return
    <2> QED BY <2>1, <2>2
<1>6. CASE Write(f)
    <2> DEFINE p == IF sends[f].put + 1 = 3 THEN "stopping" ELSE sends[f].pc
    <2>1. sends' = [sends EXCEPT ![f] = [sends[f] EXCEPT !.put = sends[f].put + 1, !.pc = p]]
        BY <1>0, <1>6 DEF Write
    <2>2. sends[f].pc = "writing"
        BY <1>6 DEF Write
    <2>3. p \in {"writing", "stopping"} /\ (sends[f].put = 2 => p = "stopping")
        BY <2>2
    <2> HIDE DEF p
    <2> QED BY <1>0, <2>1, <2>2, <2>3, SendRecords, SendsUpdate
<1>7. CASE WriteTimeout(f) \/ WriteFails(f)
    <2>1. sends' = [sends EXCEPT ![f] = [sends[f] EXCEPT !.pc = "stopping"]]
        BY <1>0, <1>7 DEF WriteTimeout, WriteFails, CutShort
    <2>2. sends[f].pc = "writing"
        BY <1>7 DEF WriteTimeout, WriteFails
    <2> QED BY <1>0, <2>1, <2>2, SendRecords, SendsUpdate
<1>8. CASE Finish(f)
    <2>1. sends' = [sends EXCEPT ![f] = [NewSend EXCEPT !.pc = "done"]]
        BY <1>0, <1>8 DEF Finish, stopInterrupt
    <2> QED BY <1>0, <2>1, SendRecords, SendsUpdate
<1> QED BY <1>1, <1>2, <1>3, <1>4, <1>5, <1>6, <1>7, <1>8 DEF Sending

(* Append adds an element at the end.                                      *)
LEMMA AppendFacts ==
    ASSUME NEW T, NEW s \in Seq(T), NEW e \in T
    PROVE  /\ Append(s, e) \in Seq(T)
           /\ Len(Append(s, e)) = Len(s) + 1
           /\ \A i \in 1 .. Len(s) : Append(s, e)[i] = s[i]
           /\ Append(s, e)[Len(s) + 1] = e
           /\ \A i \in 1 .. Len(s) + 1 : Append(s, e)[i] \in T
OBVIOUS

(* apply keeps the types of the child's variables, and of those changes    *)
(* its line, its mode and what it applied.                                 *)
LEMMA ApplyType ==
    ASSUME RestOK, NEW c \in Conns, NEW l, l[1].frame \in Frames \/ ~Decodes(l), apply(c, l)
    PROVE  /\ line' \in [Conns -> Seq(PartType)]
           /\ applied' \in [Conns -> Seq(Frames)]
           /\ mode' \in [Conns -> {"boot", "loop", "ended", "dead"}]
<1>1. line' \in [Conns -> Seq(PartType)]
    BY DEF RestOK, apply
<1>2. mode' \in [Conns -> {"boot", "loop", "ended", "dead"}]
    BY DEF RestOK, apply
<1>3. applied' \in [Conns -> Seq(Frames)]
    <2>1. CASE Decodes(l)
        <3>1. applied' = [applied EXCEPT ![c] = Append(applied[c], l[1].frame)]
            BY <2>1 DEF apply
        <3>2. Append(applied[c], l[1].frame) \in Seq(Frames)
            BY <2>1 DEF RestOK
        <3> QED BY <3>1, <3>2 DEF RestOK
    <2>2. CASE ~Decodes(l)
        BY <2>2 DEF RestOK, apply
    <2> QED BY <2>1, <2>2
<1> QED BY <1>1, <1>2, <1>3

(* Every step keeps the other types.                                       *)
LEMMA RestStep ==
    ASSUME SendsOK, RestOK, [Next]_vars
    PROVE  RestOK'
<1> USE SeamAssumption
<1>1. ASSUME NEW c \in Conns, Serve(c) PROVE RestOK'
    <2>1. serve' \in [Conns -> {"none", "reading", "held", "done"}] /\ shut' \subseteq Conns
        <3>1. serve \in [Conns -> {"none", "reading", "held", "done"}] /\ shut \subseteq Conns
            BY DEF RestOK
        <3>2. \/ serve' = [serve EXCEPT ![c] = "done"] /\ shut' = shut \cup {c}
              \/ serve' = [serve EXCEPT ![c] = "reading"] /\ shut' = shut
            BY <1>1 DEF Serve
        <3> QED BY <3>1, <3>2
    <2>2. UNCHANGED <<session, latest, closed, faults, stream, gate, deadline, register, mode,
                      wire, line, applied, written>>
        BY <1>1 DEF Serve, child, history
    <2> QED BY <2>1, <2>2 DEF RestOK
<1>2. ASSUME NEW c \in Conns, setConn(c) PROVE RestOK'
    <2>1. serve' \in [Conns -> {"none", "reading", "held", "done"}] /\ session' = c /\ latest' = c
        BY <1>2 DEF RestOK, setConn
    <2>2. UNCHANGED <<closed, shut, faults, stream, gate, deadline, register, mode,
                      wire, line, applied, written>>
        BY <1>2 DEF setConn, child, history
    <2> QED BY <2>1, <2>2 DEF RestOK
<1>3. ASSUME NEW c \in Conns, ServeRejects(c) \/ ServeEnds(c) PROVE RestOK'
    <2>1. /\ serve' \in [Conns -> {"none", "reading", "held", "done"}] /\ shut' \subseteq Conns
          /\ session' \in Conns \cup {None}
        BY <1>3 DEF RestOK, ServeRejects, ServeEnds, Returns, clearConn
    <2>2. UNCHANGED <<latest, closed, faults, stream, gate, deadline, register, mode,
                      wire, line, applied, written>>
        BY <1>3 DEF ServeRejects, ServeEnds, Returns, child, history
    <2> QED BY <2>1, <2>2 DEF RestOK
<1>4. ASSUME NEW c \in Conns, Cancel(c) PROVE RestOK'
    <2>1. faults' \in 0 .. MaxFaults /\ shut' \subseteq Conns
        BY <1>4 DEF RestOK, Cancel, Fault
    <2>2. UNCHANGED <<session, latest, closed, serve, stream, gate, deadline, register, mode,
                      wire, line, applied, written>>
        BY <1>4 DEF Cancel, child
    <2> QED BY <2>1, <2>2 DEF RestOK
<1>5. ASSUME NEW c \in Conns, Announce(c) PROVE RestOK'
    <2>1. faults' \in 0 .. MaxFaults
        <3>1. faults' = faults \/ (faults < MaxFaults /\ faults' = faults + 1)
            BY <1>5 DEF Announce, Fault
        <3>2. faults \in 0 .. MaxFaults
            BY DEF RestOK
        <3> QED BY <3>1, <3>2
    <2>2. mode' \in [Conns -> {"boot", "loop", "ended", "dead"}]
          /\ register' \in [Conns -> {"none", "good", "bad"}]
        BY <1>5 DEF RestOK, Announce
    <2>3. UNCHANGED <<session, latest, closed, shut, serve, stream, gate, deadline,
                      wire, line, applied, written>>
        BY <1>5 DEF Announce, server
    <2> QED BY <2>1, <2>2, <2>3 DEF RestOK
<1>6. ASSUME NEW c \in Conns, next_line(c) PROVE RestOK'
    <2>1. Head(wire[c]) \in PartType /\ Tail(wire[c]) \in Seq(PartType)
          /\ Len(Tail(wire[c])) <= Capacity
        BY <1>6 DEF RestOK, next_line
    <2> DEFINE l == Append(line[c], Head(wire[c]))
    <2>2. l \in Seq(PartType) /\ l[1] \in PartType
        BY <2>1, AppendFacts DEF RestOK
    <2>3. l[1].frame \in Frames
        BY <2>2 DEF PartType
    <2>4. wire' = [wire EXCEPT ![c] = Tail(wire[c])]
        BY <1>6 DEF next_line
    <2>5. wire' \in [Conns -> Seq(PartType)] /\ \A d \in Conns : Len(wire'[d]) <= Capacity
        BY <2>1, <2>4 DEF RestOK
    <2>6. line' \in [Conns -> Seq(PartType)] /\ applied' \in [Conns -> Seq(Frames)]
          /\ mode' \in [Conns -> {"boot", "loop", "ended", "dead"}]
        <3>1. CASE Head(wire[c]).part = 3
            <4>1. apply(c, l)
                BY <1>6, <3>1 DEF next_line
            <4> HIDE DEF l
            <4> QED BY <2>3, <4>1, ApplyType
        <3>2. CASE Head(wire[c]).part # 3
            <4>1. line' = [line EXCEPT ![c] = l] /\ mode' = mode /\ applied' = applied
                BY <1>6, <3>2 DEF next_line
            <4> HIDE DEF l
            <4> QED BY <2>2, <4>1 DEF RestOK
        <3> QED BY <3>1, <3>2
    <2> QED BY <1>6, <2>5, <2>6 DEF RestOK, next_line, server, history
<1>7. ASSUME NEW c \in Conns, next_line_last(c) PROVE RestOK'
    <2>1. line[c] # <<>> => line[c][1] \in PartType
        BY DEF RestOK
    <2>2. line[c] # <<>> => line[c][1].frame \in Frames
        BY <2>1 DEF PartType
    <2>3. line' \in [Conns -> Seq(PartType)] /\ applied' \in [Conns -> Seq(Frames)]
          /\ mode' \in [Conns -> {"boot", "loop", "ended", "dead"}]
        <3>1. CASE line[c] # <<>>
            BY <1>7, <2>2, <3>1, ApplyType DEF next_line_last
        <3>2. CASE line[c] = <<>>
            BY <1>7, <3>2 DEF RestOK, next_line_last
        <3> QED BY <3>1, <3>2
    <2> QED BY <1>7, <2>3 DEF RestOK, next_line_last, server, history
<1>8. ASSUME NEW c \in Conns, Die(c) PROVE RestOK'
    BY <1>8 DEF RestOK, Die, Fault, server
<1>9. ASSUME NEW f \in Frames, send(f) \/ Expire(f) \/ GateTimeout(f) PROVE RestOK'
    BY <1>9 DEF RestOK, send, Expire, GateTimeout, server, child, history
<1>10. ASSUME NEW f \in Frames,
              sends[f].pc \in {"gating", "writing", "stopping"} \/ sends[f].interrupt # "none"
       PROVE  sends[f].conn \in Conns
    BY <1>10 DEF SendsOK, SendOK, SendType
<1>11. ASSUME NEW f \in Frames, InterruptFires(f) PROVE RestOK'
    BY <1>10, <1>11 DEF RestOK, InterruptFires, server, child, history
<1>12. ASSUME NEW f \in Frames, TakeGate(f) PROVE RestOK'
    <2>0. UNCHANGED <<session, latest, closed, shut, serve, faults, stream, register, mode,
                      wire, line, applied, written>>
        BY <1>12 DEF TakeGate, server, child, history
    <2>1. CASE session = sends[f].conn /\ session \notin shut
        <3>1. /\ gate' = [gate EXCEPT ![session] = f]
              /\ deadline' = [deadline EXCEPT ![session] = "set"]
            BY <1>12, <2>1 DEF TakeGate, StartWrite
        <3>2. session \in Conns
            BY <1>10, <1>12, <2>1 DEF TakeGate
        <3>3. /\ gate' \in [Conns -> Frames \cup {None}]
              /\ deadline' \in [Conns -> {"none", "set", "past"}]
            BY <3>1, <3>2 DEF RestOK
        <3> QED BY <2>0, <3>3 DEF RestOK
    <2>2. CASE ~(session = sends[f].conn /\ session \notin shut)
        <3>1. UNCHANGED <<gate, deadline>>
            BY <1>12, <2>2 DEF TakeGate
        <3> QED BY <2>0, <3>1 DEF RestOK
    <2> QED BY <2>1, <2>2
<1>13. ASSUME NEW f \in Frames, Write(f) PROVE RestOK'
    <2> DEFINE c == sends[f].conn
               k == sends[f].put + 1
    <2>1. c \in Conns /\ k \in Parts
        BY <1>10, <1>13 DEF Write, SendsOK, SendOK, SendType, Parts
    <2>2. [frame |-> f, part |-> k] \in PartType
        BY <2>1 DEF PartType
    <2>3. wire' = [wire EXCEPT ![c] = Append(wire[c], [frame |-> f, part |-> k])]
          /\ Len(wire[c]) < Capacity
        BY <1>13 DEF Write
    <2>a. written' = written \/ written' = [written EXCEPT ![c] = Append(written[c], f)]
        BY <1>13 DEF Write
    <2>b. stream' = stream \/ stream' = [stream EXCEPT ![c] = "spoiled"]
        BY <1>13 DEF Write
    <2> HIDE DEF c, k
    <2>4. wire' \in [Conns -> Seq(PartType)] /\ \A d \in Conns : Len(wire'[d]) <= Capacity
        BY <2>1, <2>2, <2>3 DEF RestOK
    <2>5. written' \in [Conns -> Seq(Frames)]
        <3>1. written \in [Conns -> Seq(Frames)]
            BY DEF RestOK
        <3>2. Append(written[c], f) \in Seq(Frames)
            BY <2>1, <3>1, AppendFacts
        <3> QED BY <2>1, <2>a, <3>1, <3>2
    <2>6. stream' \in [Conns -> {"clean", "torn", "spoiled"}]
        BY <2>1, <2>b DEF RestOK
    <2>7. UNCHANGED <<session, latest, closed, shut, serve, faults, gate, deadline, register,
                      mode, line, applied>>
        BY <1>13 DEF Write, server, child
    <2> QED BY <2>4, <2>5, <2>6, <2>7, ZenonT(40) DEF RestOK
<1>14. ASSUME NEW f \in Frames, WriteTimeout(f) \/ WriteFails(f) PROVE RestOK'
    <2>1. stream' = stream \/ stream' = [stream EXCEPT ![sends[f].conn] = "torn"]
        BY <1>14 DEF WriteTimeout, WriteFails, CutShort
    <2>2. stream' \in [Conns -> {"clean", "torn", "spoiled"}]
        BY <2>1 DEF RestOK
    <2>3. UNCHANGED <<session, latest, closed, shut, serve, faults, gate, deadline, register,
                      mode, wire, line, applied, written>>
        BY <1>14 DEF WriteTimeout, WriteFails, server, child
    <2> QED BY <2>2, <2>3 DEF RestOK
<1>15. ASSUME NEW f \in Frames, Finish(f) PROVE RestOK'
    BY <1>10, <1>15 DEF RestOK, Finish, Release, server, child, history
<1>16. CASE Close
    BY <1>16 DEF RestOK, Close, live, child, history
<1>17. CASE UNCHANGED vars
    BY <1>17 DEF RestOK, vars, server, child, history
<1> QED
    BY <1>1, <1>2, <1>3, <1>4, <1>5, <1>6, <1>7, <1>8, <1>9, <1>11, <1>12, <1>13, <1>14,
       <1>15, <1>16, <1>17
    DEF Next, Serving, Loop, Sending, Quiet

-----------------------------------------------------------------------------
(***************************************************************************)
(* The write gate.  A call that writes has the gate of its connection and  *)
(* is the only one; a deadline in the past is the work of that call.       *)
(***************************************************************************)
Holds(f, c) == sends[f].pc \in {"writing", "stopping"} /\ sends[f].conn = c

GateInv ==
    /\ \A f \in Frames, c \in Conns : Holds(f, c) => gate[c] = f
    /\ \A c \in Conns : gate[c] # None => Holds(gate[c], c)

DeadlineInv ==
    \A c \in Conns :
        deadline[c] = "past" => gate[c] # None /\ sends[gate[c]].interrupt = "fired"

(* A step that leaves calls, gates and deadlines alone keeps both.         *)
LEMMA GateUnchanged ==
    ASSUME UNCHANGED <<sends, gate, deadline>>
    PROVE  (GateInv => GateInv') /\ (DeadlineInv => DeadlineInv')
BY DEF GateInv, DeadlineInv, Holds

(* The gate keeps to its call, and the deadline to the gate.               *)
LEMMA GateStep ==
    ASSUME SendsOK, RestOK, GateInv, DeadlineInv, [Next]_vars
    PROVE  GateInv' /\ DeadlineInv'
<1>0. None \notin Frames /\ \A f \in Frames : f # None
    BY SeamAssumption DEF Frames
<1>a. sends \in [Frames -> SendType] /\ gate \in [Conns -> Frames \cup {None}]
      /\ deadline \in [Conns -> {"none", "set", "past"}]
    BY DEF SendsOK, RestOK
<1>b. ASSUME NEW f \in Frames,
             sends[f].pc \in {"gating", "writing", "stopping"} \/ sends[f].interrupt # "none"
      PROVE  sends[f].conn \in Conns
    BY <1>b DEF SendsOK, SendOK, SendType
<1>c. ASSUME NEW f \in Frames, sends[f].interrupt # "none"
      PROVE  sends[f].pc \in {"writing", "stopping"}
    BY <1>c DEF SendsOK, SendOK, SendType
<1>1. CASE UNCHANGED <<sends, gate, deadline>>
    BY <1>1, GateUnchanged
<1>2. ASSUME NEW f \in Frames, send(f) PROVE GateInv' /\ DeadlineInv'
    <2>1. \A g \in Frames, c \in Conns : Holds(g, c)' <=> Holds(g, c)
        BY <1>2, <1>a DEF send, Return, NewSend, Holds, SendType
    <2>2. \A g \in Frames : sends[g].interrupt = "fired" => sends'[g].interrupt = "fired"
        BY <1>2, <1>a, <1>c DEF send, Return, NewSend, SendType
    <2>3. UNCHANGED <<gate, deadline>>
        BY <1>2 DEF send
    <2> QED BY <1>0, <1>a, <2>1, <2>2, <2>3 DEF GateInv, DeadlineInv
<1>3. ASSUME NEW f \in Frames, Expire(f) PROVE GateInv' /\ DeadlineInv'
    <2>1. \A g \in Frames, c \in Conns : Holds(g, c)' <=> Holds(g, c)
        BY <1>3, <1>a DEF Expire, Holds, SendType
    <2>2. \A g \in Frames : sends[g].interrupt = "fired" => sends'[g].interrupt = "fired"
        BY <1>3, <1>a DEF Expire, SendType
    <2>3. UNCHANGED <<gate, deadline>>
        BY <1>3 DEF Expire
    <2> QED BY <1>0, <1>a, <2>1, <2>2, <2>3 DEF GateInv, DeadlineInv
<1>4. ASSUME NEW f \in Frames, GateTimeout(f) PROVE GateInv' /\ DeadlineInv'
    <2>1. \A g \in Frames, c \in Conns : Holds(g, c)' <=> Holds(g, c)
        BY <1>4, <1>a DEF GateTimeout, Return, NewSend, Holds, SendType
    <2>2. \A g \in Frames : sends[g].interrupt = "fired" => sends'[g].interrupt = "fired"
        BY <1>4, <1>a, <1>c DEF GateTimeout, Return, NewSend, SendType
    <2>3. UNCHANGED <<gate, deadline>>
        BY <1>4 DEF GateTimeout
    <2> QED BY <1>0, <1>a, <2>1, <2>2, <2>3 DEF GateInv, DeadlineInv
<1>5. ASSUME NEW f \in Frames, InterruptFires(f) PROVE GateInv' /\ DeadlineInv'
    <2>1. \A g \in Frames, c \in Conns : Holds(g, c)' <=> Holds(g, c)
        BY <1>5, <1>a DEF InterruptFires, Holds, SendType
    <2>2. \A g \in Frames : sends[g].interrupt = "fired" => sends'[g].interrupt = "fired"
        BY <1>5, <1>a DEF InterruptFires, SendType
    <2>3. gate' = gate /\ sends'[f].interrupt = "fired"
          /\ deadline' = [deadline EXCEPT ![sends[f].conn] = "past"]
        BY <1>5, <1>a DEF InterruptFires, SendType
    <2>4. gate[sends[f].conn] = f /\ sends[f].conn \in Conns
        BY <1>5, <1>b, <1>c DEF InterruptFires, GateInv, Holds
    <2>5. GateInv'
        BY <1>0, <1>a, <2>1, <2>3 DEF GateInv
    <2> QED BY <1>0, <1>a, <2>2, <2>3, <2>4, <2>5 DEF DeadlineInv
<1>6. ASSUME NEW f \in Frames, TakeGate(f) PROVE GateInv' /\ DeadlineInv'
    <2> DEFINE c == sends[f].conn
    <2>0. c \in Conns /\ gate[c] = None /\ sends[f].pc = "gating"
        BY <1>6, <1>b DEF TakeGate
    <2>1. CASE session = sends[f].conn /\ session \notin shut
        <3>1. gate' = [gate EXCEPT ![c] = f] /\ deadline' = [deadline EXCEPT ![c] = "set"]
            BY <1>6, <2>1 DEF TakeGate, StartWrite
        <3>2. /\ sends'[f].pc = "writing" /\ sends'[f].conn = c
              /\ \A g \in Frames \ {f} : sends'[g] = sends[g]
            BY <1>6, <1>a, <2>1 DEF TakeGate, StartWrite, SendType
        <3> HIDE DEF c
        <3>3. \A g \in Frames, d \in Conns : Holds(g, d) => d # c
            BY <1>0, <2>0 DEF GateInv
        <3>4. \A g \in Frames, d \in Conns :
                Holds(g, d)' <=> (Holds(g, d) \/ (g = f /\ d = c))
            BY <2>0, <3>2 DEF Holds
        <3>5. GateInv'
            BY <1>0, <1>a, <2>0, <3>1, <3>3, <3>4 DEF GateInv
        <3>6. \A d \in Conns : deadline'[d] = "past" => d # c /\ gate[d] # None /\ gate[d] # f
            BY <1>0, <1>a, <2>0, <3>1 DEF DeadlineInv, GateInv, Holds
        <3> QED BY <1>0, <1>a, <2>0, <3>1, <3>2, <3>5, <3>6 DEF DeadlineInv
    <2>2. CASE ~(session = sends[f].conn /\ session \notin shut)
        <3>1. \A g \in Frames, d \in Conns : Holds(g, d)' <=> Holds(g, d)
            BY <1>6, <1>a, <2>0, <2>2 DEF TakeGate, Return, NewSend, Holds, SendType
        <3>2. \A g \in Frames : sends[g].interrupt = "fired" => sends'[g].interrupt = "fired"
            BY <1>6, <1>a, <1>c, <2>0, <2>2 DEF TakeGate, Return, NewSend, SendType
        <3>3. UNCHANGED <<gate, deadline>>
            BY <1>6, <2>2 DEF TakeGate
        <3> QED BY <1>0, <1>a, <3>1, <3>2, <3>3 DEF GateInv, DeadlineInv
    <2> QED BY <2>1, <2>2
<1>7. ASSUME NEW f \in Frames, Write(f) \/ WriteTimeout(f) \/ WriteFails(f)
      PROVE  GateInv' /\ DeadlineInv'
    <2>1. \A g \in Frames, c \in Conns : Holds(g, c)' <=> Holds(g, c)
        BY <1>7, <1>a DEF Write, WriteTimeout, WriteFails, CutShort, Holds, SendType
    <2>2. \A g \in Frames : sends[g].interrupt = "fired" => sends'[g].interrupt = "fired"
        BY <1>7, <1>a DEF Write, WriteTimeout, WriteFails, CutShort, SendType
    <2>3. UNCHANGED <<gate, deadline>>
        BY <1>7 DEF Write, WriteTimeout, WriteFails
    <2> QED BY <1>0, <1>a, <2>1, <2>2, <2>3 DEF GateInv, DeadlineInv
<1>8. ASSUME NEW f \in Frames, Finish(f) PROVE GateInv' /\ DeadlineInv'
    <2> DEFINE c == sends[f].conn
    <2>1. c \in Conns /\ gate[c] = f
        BY <1>8, <1>b DEF Finish, GateInv, Holds
    <2>2. gate' = [gate EXCEPT ![c] = None] /\ deadline' = [deadline EXCEPT ![c] = "none"]
        BY <1>8 DEF Finish, Release
    <2>3. sends'[f].pc = "done" /\ \A g \in Frames \ {f} : sends'[g] = sends[g]
        BY <1>8, <1>a DEF Finish, stopInterrupt, NewSend, SendType
    <2> HIDE DEF c
    <2>4. \A g \in Frames, d \in Conns : Holds(g, d)' <=> (Holds(g, d) /\ g # f)
        BY <2>3 DEF Holds
    <2>5. \A d \in Conns : d # c => gate[d] # f
        BY <1>0, <2>1 DEF GateInv, Holds, c
    <2>6. GateInv'
        BY <1>0, <1>a, <2>1, <2>2, <2>4, <2>5 DEF GateInv
    <2> QED BY <1>0, <1>a, <2>1, <2>2, <2>3, <2>5, <2>6 DEF DeadlineInv
<1>9. ASSUME NEW c \in Conns,
             \/ Serve(c) \/ Serving(c) \/ Cancel(c) \/ Announce(c) \/ Loop(c) \/ Die(c)
      PROVE  UNCHANGED <<sends, gate, deadline>>
    BY <1>9 DEF Serve, Serving, setConn, ServeRejects, ServeEnds, Returns, Cancel, Announce,
                Loop, next_line, next_line_last, Die
<1>10. Close \/ UNCHANGED vars => UNCHANGED <<sends, gate, deadline>>
    BY DEF Close, vars
<1> QED
    BY <1>1, <1>2, <1>3, <1>4, <1>5, <1>6, <1>7, <1>8, <1>9, <1>10 DEF Next, Sending, Quiet

-----------------------------------------------------------------------------
(***************************************************************************)
(* The session.                                                            *)
(***************************************************************************)
SessionInv == SessionIsLatest /\ (latest = None => session = None)

(* The session stays that of the child registered last.                    *)
LEMMA SessionStep ==
    ASSUME RestOK, SessionInv, [Next]_vars
    PROVE  SessionInv'
<1> USE SeamAssumption DEF SessionInv, SessionIsLatest
<1>0. None \notin Conns
    BY DEF Conns
<1>1. ASSUME NEW c \in Conns, Serve(c) PROVE SessionInv'
    BY <1>0, <1>1 DEF RestOK, Serve
<1>2. ASSUME NEW c \in Conns, setConn(c) PROVE SessionInv'
    BY <1>0, <1>2 DEF RestOK, setConn
<1>3. ASSUME NEW c \in Conns, ServeRejects(c) PROVE SessionInv'
    BY <1>0, <1>3 DEF RestOK, ServeRejects, Returns
<1>4. ASSUME NEW c \in Conns, ServeEnds(c) PROVE SessionInv'
    BY <1>0, <1>4 DEF RestOK, ServeEnds, Returns, clearConn
<1>5. CASE Close
    BY <1>5 DEF RestOK, Close
<1>6. CASE UNCHANGED <<session, closed, serve, latest>>
    BY <1>6
<1>7. ASSUME NEW c \in Conns, Cancel(c) \/ Announce(c) \/ Loop(c) \/ Die(c)
      PROVE  UNCHANGED <<session, closed, serve, latest>>
    BY <1>7 DEF Cancel, Announce, Loop, next_line, next_line_last, Die, server
<1>8. ASSUME NEW f \in Frames, send(f) \/ Expire(f) \/ Sending(f) \/ InterruptFires(f)
      PROVE  UNCHANGED <<session, closed, serve, latest>>
    BY <1>8 DEF send, Expire, Sending, TakeGate, GateTimeout, Write, WriteTimeout, WriteFails,
                Finish, InterruptFires, server
<1>9. UNCHANGED vars => UNCHANGED <<session, closed, serve, latest>>
    BY DEF vars, server
<1> QED
    BY <1>1, <1>2, <1>3, <1>4, <1>5, <1>6, <1>7, <1>8, <1>9 DEF Next, Serving, Quiet

-----------------------------------------------------------------------------
(***************************************************************************)
(* Sequences of parts.  In a queue of whole frames every part is followed  *)
(* by the next of its frame, and a newline by a new frame.                 *)
(***************************************************************************)
Follows(p, r) ==
    IF p.part < 3 THEN r = [frame |-> p.frame, part |-> p.part + 1] ELSE r.part = 1
Framed(q) ==
    /\ q # <<>> => q[1].part = 1
    /\ \A i \in 1 .. Len(q) - 1 : Follows(q[i], q[i + 1])

(* Reading a part moves it from the socket to the line.                    *)
LEMMA ReadFacts ==
    ASSUME NEW T, NEW s \in Seq(T), NEW t \in Seq(T), t # <<>>
    PROVE  Append(s, Head(t)) \o Tail(t) = s \o t
<1>1. /\ Head(t) \in T /\ Tail(t) \in Seq(T) /\ Len(Tail(t)) = Len(t) - 1 /\ Head(t) = t[1]
      /\ \A i \in 1 .. Len(t) - 1 : Tail(t)[i] = t[i + 1]
    OBVIOUS
<1> DEFINE a == Append(s, Head(t))
<1>2. a \in Seq(T) /\ Len(a) = Len(s) + 1 /\ a[Len(s) + 1] = t[1]
      /\ \A i \in 1 .. Len(s) : a[i] = s[i]
    BY <1>1
<1> HIDE DEF a
<1>3. /\ Len(a \o Tail(t)) = Len(s \o t) /\ a \o Tail(t) \in Seq(T) /\ s \o t \in Seq(T)
    BY <1>1, <1>2
<1>4. ASSUME NEW i \in 1 .. Len(s \o t) PROVE (a \o Tail(t))[i] = (s \o t)[i]
    <2>1. CASE i <= Len(s)
        BY <1>1, <1>2, <2>1
    <2>2. CASE i = Len(s) + 1
        BY <1>1, <1>2, <2>2
    <2>4. i \in Nat /\ Len(s) \in Nat /\ Len(t) \in Nat /\ Len(s \o t) = Len(s) + Len(t)
        BY <1>3
    <2>3. CASE i > Len(s) + 1
        <3>0. ASSUME NEW x \in Nat, NEW m \in Nat, NEW n \in Nat, x > m + 1, x <= m + n
              PROVE  x - (m + 1) \in 1 .. n - 1 /\ x = (m + 1) + (x - (m + 1))
            BY <3>0
        <3>1. PICK k \in 1 .. Len(t) - 1 : i = (Len(s) + 1) + k
            <4>1. i <= Len(s) + Len(t)
                BY <2>4
            <4>2. /\ i - (Len(s) + 1) \in 1 .. Len(t) - 1
                  /\ i = (Len(s) + 1) + (i - (Len(s) + 1))
                BY <2>3, <2>4, <3>0, <4>1, Zenon
            <4> QED BY <4>2, Zenon
        <3>2. (a \o Tail(t))[i] = Tail(t)[k]
            <4>1. \A j \in 1 .. Len(Tail(t)) : (a \o Tail(t))[Len(a) + j] = Tail(t)[j]
                BY <1>1, <1>2
            <4> QED BY <1>1, <1>2, <3>1, <4>1
        <3>3. (s \o t)[i] = t[k + 1]
            <4>1. \A j \in 1 .. Len(t) : (s \o t)[Len(s) + j] = t[j]
                OBVIOUS
            <4>2. i = Len(s) + (k + 1) /\ k + 1 \in 1 .. Len(t)
                BY <2>4, <3>1
            <4> QED BY <4>1, <4>2
        <3> QED BY <1>1, <3>2, <3>3
    <2>5. i <= Len(s) \/ i = Len(s) + 1 \/ i > Len(s) + 1
        BY <2>4
    <2> QED BY <2>1, <2>2, <2>3, <2>5, Zenon
<1>5. a \o Tail(t) = s \o t
    BY <1>3, <1>4, SeqEqual
<1> QED BY <1>5 DEF a

(* A part that follows the last one keeps a queue of whole frames.         *)
LEMMA FramedAppend ==
    ASSUME NEW q \in Seq(PartType), NEW p \in PartType, Framed(q),
           IF q = <<>> THEN p.part = 1 ELSE Follows(q[Len(q)], p)
    PROVE  Framed(Append(q, p))
<1> DEFINE r == Append(q, p)
<1>1. Len(r) = Len(q) + 1 /\ r[Len(q) + 1] = p /\ (\A i \in 1 .. Len(q) : r[i] = q[i]) /\ Len(q) \in Nat
    OBVIOUS
<1>2. q = <<>> <=> Len(q) = 0
    OBVIOUS
<1> HIDE DEF r
<1>3. r[1].part = 1
    BY <1>1, <1>2 DEF Framed
<1>4. ASSUME NEW i \in 1 .. Len(r) - 1 PROVE Follows(r[i], r[i + 1])
    <2>1. CASE i = Len(q)
        BY <1>1, <1>2, <2>1
    <2>2. CASE i < Len(q)
        <3>1. Follows(q[i], q[i + 1])
            BY <1>1, <2>2 DEF Framed
        <3> QED BY <1>1, <2>2, <3>1
    <2> QED BY <1>1, <2>1, <2>2
<1>5. Framed(r)
    BY <1>3, <1>4 DEF Framed
<1> QED BY <1>5 DEF r

(* Behind a newline a queue of whole frames begins with a frame.           *)
LEMMA FramedSuffix ==
    ASSUME NEW l \in Seq(PartType), NEW t \in Seq(PartType), Framed(l \o t),
           l # <<>>, l[Len(l)].part = 3
    PROVE  Framed(t)
<1>1. Len(l) \in Nat /\ Len(l) > 0 /\ Len(t) \in Nat /\ Len(l \o t) = Len(l) + Len(t)
    OBVIOUS
<1>2. (\A i \in 1 .. Len(l) : (l \o t)[i] = l[i]) /\ (\A i \in 1 .. Len(t) : (l \o t)[Len(l) + i] = t[i])
    OBVIOUS
<1>3. ASSUME t # <<>> PROVE t[1].part = 1
    <2>1. Len(t) > 0
        BY <1>3
    <2>2. Follows((l \o t)[Len(l)], (l \o t)[Len(l) + 1])
        BY <1>1, <2>1 DEF Framed
    <2> QED BY <1>1, <1>2, <2>1, <2>2 DEF Follows
<1>4. ASSUME NEW i \in 1 .. Len(t) - 1 PROVE Follows(t[i], t[i + 1])
    <2> DEFINE k == Len(l) + i
    <2>0. k \in 1 .. Len(l \o t) - 1 /\ k + 1 = Len(l) + (i + 1)
        BY <1>1
    <2>1. Follows((l \o t)[k], (l \o t)[k + 1])
        BY <2>0 DEF Framed
    <2>2. (l \o t)[Len(l) + i] = t[i] /\ (l \o t)[Len(l) + (i + 1)] = t[i + 1]
        <3>1. i \in 1 .. Len(t) /\ i + 1 \in 1 .. Len(t)
            BY <1>1
        <3> QED BY <1>2, <3>1
    <2> QED BY <2>0, <2>1, <2>2
<1> QED BY <1>3, <1>4 DEF Framed

(***************************************************************************)
(* The JSONs in a queue of parts are the frames of w behind the first n.   *)
(***************************************************************************)
Marks(q, w, n, pos) ==
    /\ pos \in [1 .. Len(w) - n -> 1 .. Len(q)]
    /\ \A j \in 1 .. Len(w) - n : q[pos[j]].part = 2 /\ q[pos[j]].frame = w[n + j]
    /\ \A j, k \in 1 .. Len(w) - n : j < k => pos[j] < pos[k]
    /\ \A i \in 1 .. Len(q) : q[i].part = 2 => \E j \in 1 .. Len(w) - n : pos[j] = i
Tracks(q, w, n) == n <= Len(w) /\ \E pos : Marks(q, w, n, pos)

(* A part that is no JSON does not count.                                  *)
LEMMA TracksOther ==
    ASSUME NEW q \in Seq(PartType), NEW p \in PartType, p.part # 2,
           NEW w \in Seq(Frames), NEW n \in Nat, Tracks(q, w, n)
    PROVE  Tracks(Append(q, p), w, n)
<1>1. PICK pos : Marks(q, w, n, pos)
    BY DEF Tracks
<1> DEFINE r == Append(q, p)
           J == 1 .. Len(w) - n
<1>2. Len(r) = Len(q) + 1 /\ r[Len(q) + 1] = p /\ (\A i \in 1 .. Len(q) : r[i] = q[i]) /\ Len(q) \in Nat
    OBVIOUS
<1> HIDE DEF r
<1>3. pos \in [J -> 1 .. Len(r)]
    BY <1>1, <1>2 DEF Marks
<1>4. \A j \in J : r[pos[j]] = q[pos[j]]
    BY <1>1, <1>2 DEF Marks
<1>5. \A i \in 1 .. Len(r) : r[i].part = 2 => i \in 1 .. Len(q) /\ q[i].part = 2
    BY <1>2
<1>6. Marks(r, w, n, pos)
    BY <1>1, <1>3, <1>4, <1>5 DEF Marks
<1> QED BY <1>6 DEF Tracks, r

(* A JSON that is written is the last of both.                             *)
LEMMA TracksJson ==
    ASSUME NEW q \in Seq(PartType), NEW p \in PartType, p.part = 2,
           NEW w \in Seq(Frames), NEW n \in Nat, Tracks(q, w, n)
    PROVE  Tracks(Append(q, p), Append(w, p.frame), n)
<1>1. PICK pos : Marks(q, w, n, pos)
    BY DEF Tracks
<1>0. p.frame \in Frames
    BY DEF PartType
<1> DEFINE r == Append(q, p)
           v == Append(w, p.frame)
           m == Len(w) - n
           new == [j \in 1 .. m + 1 |-> IF j = m + 1 THEN Len(q) + 1 ELSE pos[j]]
<1>2. Len(r) = Len(q) + 1 /\ r[Len(q) + 1] = p /\ (\A i \in 1 .. Len(q) : r[i] = q[i]) /\ Len(q) \in Nat
    OBVIOUS
<1>3. Len(v) = Len(w) + 1 /\ v[Len(w) + 1] = p.frame /\ (\A i \in 1 .. Len(w) : v[i] = w[i]) /\ Len(w) \in Nat
    BY <1>0
<1>4. m \in Nat /\ Len(v) - n = m + 1 /\ n + (m + 1) = Len(w) + 1
    BY <1>3 DEF Tracks
<1>5. \A j \in 1 .. m : pos[j] \in 1 .. Len(q) /\ q[pos[j]].part = 2 /\ q[pos[j]].frame = w[n + j]
    BY <1>1 DEF Marks
<1>6. \A j \in 1 .. m : n + j \in 1 .. Len(w)
    BY <1>3, <1>4
<1> HIDE DEF r, v, m
<1>7. new \in [1 .. m + 1 -> 1 .. Len(r)]
    BY <1>2, <1>4, <1>5
<1>8. new[m + 1] = Len(q) + 1 /\ \A j \in 1 .. m : new[j] = pos[j]
    BY <1>4
<1> HIDE DEF new
<1>9. ASSUME NEW j \in 1 .. m + 1 PROVE r[new[j]].part = 2 /\ r[new[j]].frame = v[n + j]
    <2>1. CASE j = m + 1
        BY <1>2, <1>3, <1>4, <1>8, <2>1
    <2>2. CASE j \in 1 .. m
        <3>1. new[j] = pos[j] /\ r[pos[j]] = q[pos[j]] /\ v[n + j] = w[n + j]
            BY <1>2, <1>3, <1>5, <1>6, <1>8, <2>2
        <3> QED BY <1>5, <2>2, <3>1
    <2> QED BY <1>4, <2>1, <2>2
<1>10. ASSUME NEW j \in 1 .. m + 1, NEW k \in 1 .. m + 1, j < k PROVE new[j] < new[k]
    <2>1. j \in 1 .. m
        BY <1>4, <1>10
    <2>2. CASE k = m + 1
        BY <1>2, <1>5, <1>8, <2>1, <2>2
    <2>3. CASE k \in 1 .. m
        BY <1>1, <1>8, <1>10, <2>1, <2>3 DEF Marks, m
    <2> QED BY <1>4, <2>2, <2>3
<1>11. ASSUME NEW i \in 1 .. Len(r), r[i].part = 2 PROVE \E j \in 1 .. m + 1 : new[j] = i
    <2>1. CASE i = Len(q) + 1
        BY <1>4, <1>8, <2>1
    <2>2. CASE i \in 1 .. Len(q)
        <3>1. PICK j \in 1 .. m : pos[j] = i
            BY <1>1, <1>2, <1>11, <2>2 DEF Marks, m
        <3> QED BY <1>4, <1>8, <3>1
    <2> QED BY <1>2, <2>1, <2>2
<1>12. Marks(r, v, n, new)
    BY <1>4, <1>7, <1>9, <1>10, <1>11 DEF Marks
<1> QED BY <1>3, <1>12 DEF Tracks, r, v

(* A line that is one frame's JSON is the first of the frames to come, and *)
(* taking it off leaves the others.                                        *)
LEMMA TracksLine ==
    ASSUME NEW l \in Seq(PartType), NEW t \in Seq(PartType), Decodes(l),
           NEW w \in Seq(Frames), NEW n \in Nat, Tracks(l \o t, w, n)
    PROVE  n < Len(w) /\ l[1].frame = w[n + 1] /\ Tracks(t, w, n + 1)
<1> DEFINE q == l \o t
           m == Len(w) - n
<1>1. PICK pos : Marks(q, w, n, pos)
    BY DEF Tracks
<1>2. /\ Len(l) \in 2 .. 3 /\ l[1].part = 1 /\ l[2].part = 2 /\ l[2].frame = l[1].frame
      /\ Len(l) = 3 => l[3].part = 3
    BY DEF Decodes
<1>3. /\ Len(q) = Len(l) + Len(t) /\ Len(t) \in Nat
      /\ \A i \in 1 .. Len(l) : q[i] = l[i]
      /\ \A i \in 1 .. Len(t) : q[Len(l) + i] = t[i]
    OBVIOUS
<1>4. Len(w) \in Nat /\ m \in Nat
    BY DEF Tracks
<1> HIDE DEF q, m
<1>5. /\ pos \in [1 .. m -> 1 .. Len(q)]
      /\ \A j \in 1 .. m : q[pos[j]].part = 2 /\ q[pos[j]].frame = w[n + j]
      /\ \A j, k \in 1 .. m : j < k => pos[j] < pos[k]
      /\ \A i \in 1 .. Len(q) : q[i].part = 2 => \E j \in 1 .. m : pos[j] = i
    BY <1>1 DEF Marks, m
<1>6. PICK b \in 1 .. m : pos[b] = 2
    <2>1. 2 \in 1 .. Len(q) /\ 2 \in 1 .. Len(l)
        BY <1>2, <1>3
    <2>2. q[2].part = 2
        BY <1>2, <1>3, <2>1
    <2> QED BY <1>5, <2>1, <2>2
<1>a. (Len(l) = 2 \/ Len(l) = 3) /\ Len(q) \in Nat /\ q[1] = l[1] /\ q[2] = l[2]
      /\ (Len(l) = 3 => q[3] = l[3])
    BY <1>2, <1>3
<1>7. ASSUME NEW j \in 1 .. m PROVE pos[j] \in Nat /\ pos[j] # 1 /\ pos[j] >= 1
    <2>1. pos[j] \in 1 .. Len(q) /\ q[pos[j]].part = 2
        BY <1>5
    <2>2. q[1].part # 2
        BY <1>2, <1>a
    <2> QED BY <1>a, <2>1, <2>2
<1>8. b = 1
    <2>1. 1 \in 1 .. m
        BY <1>4, <1>6
    <2>2. CASE 1 < b
        <3>1. pos[1] < 2
            BY <1>5, <1>6, <2>1, <2>2
        <3> QED BY <1>7, <2>1, <3>1
    <2> QED BY <1>4, <1>6, <2>2
<1>9. n < Len(w) /\ l[1].frame = w[n + 1]
    <2>1. 1 \in 1 .. m /\ pos[1] = 2
        BY <1>6, <1>8
    <2>2. q[2].frame = w[n + 1]
        BY <1>5, <2>1
    <2>3. n < Len(w)
        BY <1>4, <2>1 DEF m
    <2> QED BY <1>2, <1>a, <2>2, <2>3
<1>10. \A j \in 2 .. m : pos[j] \in Len(l) + 1 .. Len(q)
    <2>1. ASSUME NEW j \in 2 .. m PROVE pos[j] \in Len(l) + 1 .. Len(q)
        <3>1. j \in 1 .. m /\ 1 \in 1 .. m /\ pos[1] < pos[j] /\ pos[1] = 2
            BY <1>4, <1>5, <1>6, <1>8
        <3>2. pos[j] \in 1 .. Len(q) /\ q[pos[j]].part = 2
            BY <1>5, <3>1
        <3>3. Len(l) = 3 => pos[j] # 3
            BY <1>2, <1>a, <3>2
        <3>4. ASSUME NEW x \in 1 .. Len(q), 2 < x, NEW k, k = 2 \/ (k = 3 /\ x # 3)
              PROVE  x \in k + 1 .. Len(q)
            BY <1>a, <3>4
        <3> HIDE DEF q
        <3>5. 2 < pos[j] /\ (Len(l) = 2 \/ (Len(l) = 3 /\ pos[j] # 3))
            BY <1>a, <3>1, <3>3
        <3> QED BY <3>2, <3>4, <3>5
    <2> QED BY <2>1
<1> DEFINE M == Len(w) - (n + 1)
           new == [j \in 1 .. M |-> pos[j + 1] - Len(l)]
<1>11. M \in Nat /\ M + 1 = m /\ \A j \in 1 .. M : j + 1 \in 2 .. m
    BY <1>4, <1>9 DEF m
<1>12. \A j \in 1 .. M : new[j] = pos[j + 1] - Len(l)
    OBVIOUS
<1>13. new \in [1 .. M -> 1 .. Len(t)]
    <2>1. ASSUME NEW j \in 1 .. M PROVE pos[j + 1] - Len(l) \in 1 .. Len(t)
        <3>1. pos[j + 1] \in Len(l) + 1 .. Len(q)
            BY <1>10, <1>11
        <3>2. ASSUME NEW x, NEW k \in Nat, NEW n1 \in Nat, x \in k + 1 .. k + n1
              PROVE  x - k \in 1 .. n1
            BY <3>2
        <3> QED BY <1>3, <1>a, <3>1, <3>2
    <2> QED BY <2>1
<1> HIDE DEF M, new
<1>14. ASSUME NEW j \in 1 .. M PROVE t[new[j]].part = 2 /\ t[new[j]].frame = w[(n + 1) + j]
    <2>1. t[new[j]] = q[pos[j + 1]]
        <3>1. pos[j + 1] = Len(l) + new[j]
            BY <1>2, <1>3, <1>10, <1>11, <1>12
        <3> QED BY <1>3, <1>13, <3>1
    <2>2. j + 1 \in 1 .. m /\ n + (j + 1) = (n + 1) + j
        BY <1>11
    <2> QED BY <1>5, <2>1, <2>2
<1>15. ASSUME NEW j \in 1 .. M, NEW k \in 1 .. M, j < k PROVE new[j] < new[k]
    <2>1. j + 1 \in 2 .. m /\ k + 1 \in 2 .. m /\ j + 1 < k + 1
        BY <1>11, <1>15
    <2>2. j + 1 \in 1 .. m /\ k + 1 \in 1 .. m
        BY <2>1
    <2>3. pos[j + 1] < pos[k + 1]
        BY <1>5, <2>1, <2>2
    <2>4. pos[j + 1] \in Int /\ pos[k + 1] \in Int
        BY <1>3, <1>10, <1>a, <2>1
    <2> QED BY <1>12, <1>a, <2>3, <2>4
<1>16. ASSUME NEW i \in 1 .. Len(t), t[i].part = 2 PROVE \E j \in 1 .. M : new[j] = i
    <2>1. Len(l) + i \in 1 .. Len(q) /\ q[Len(l) + i].part = 2
        BY <1>2, <1>3, <1>16
    <2>2. PICK j \in 1 .. m : pos[j] = Len(l) + i
        BY <1>5, <2>1
    <2>3. j # 1
        BY <1>2, <1>6, <1>8, <2>2
    <2>4. j - 1 \in 1 .. M /\ (j - 1) + 1 = j
        BY <1>11, <2>2, <2>3
    <2>5. new[j - 1] = i
        BY <1>2, <1>12, <2>2, <2>4
    <2> QED BY <2>4, <2>5
<1>17. Marks(t, w, n + 1, new)
    BY <1>13, <1>14, <1>15, <1>16 DEF Marks, M
<1>18. n + 1 <= Len(w)
    BY <1>4, <1>9
<1> QED BY <1>9, <1>17, <1>18 DEF Tracks

-----------------------------------------------------------------------------
(***************************************************************************)
(* The queue of a child: what it read of the current line, and what is in  *)
(* its socket.                                                             *)
(***************************************************************************)
Q(c) == line[c] \o wire[c]
Open(c) == ~Hung(c) /\ c \notin shut
Partial(c) == gate[c] # None /\ sends[gate[c]].put \in {1, 2}

\* The queue ends in the part its writer wrote last, or behind a frame.
EndOK(c) ==
    IF Partial(c)
    THEN Q(c) # <<>> /\ Q(c)[Len(Q(c))] = [frame |-> gate[c], part |-> sends[gate[c]].put]
    ELSE Q(c) = <<>> \/ Q(c)[Len(Q(c))].part = 3

WireInv ==
    \A c \in Conns : stream[c] = "clean" => Framed(Q(c)) /\ (Open(c) => EndOK(c))

\* A write that stopped between two parts tore its stream.
CutInv ==
    \A f \in Frames :
        sends[f].pc = "stopping" /\ sends[f].put \in {1, 2} => stream[sends[f].conn] # "clean"

\* Only a frame whose JSON its call wrote is counted as written.
FreshInv ==
    \A f \in Frames, c \in Conns : \A i \in 1 .. Len(written[c]) :
        written[c][i] = f => sends[f].pc = "done" \/ sends[f].put >= 2

\* The JSONs in the queue are the frames written and not yet applied.
QueueInv ==
    \A c \in Conns : ~Hung(c) => Tracks(Q(c), written[c], Len(applied[c]))

(* A queue is a sequence of parts.                                         *)
LEMMA QueueType ==
    ASSUME RestOK, NEW c \in Conns
    PROVE  Q(c) \in Seq(PartType) /\ line[c] \in Seq(PartType) /\ wire[c] \in Seq(PartType)
BY DEF RestOK, Q

(* Write puts a part at the end of the queue.                              *)
LEMMA WriteQueue ==
    ASSUME SendsOK, RestOK, NEW f \in Frames, Write(f), NEW c, c = sends[f].conn,
           NEW p, p = [frame |-> f, part |-> sends[f].put + 1]
    PROVE  /\ c \in Conns /\ p \in PartType /\ p.frame = f /\ p.part = sends[f].put + 1
           /\ sends[f].put \in 0 .. 2
           /\ Q(c)' = Append(Q(c), p)
           /\ \A d \in Conns \ {c} : Q(d)' = Q(d)
<1>1. c \in Conns /\ sends[f].put \in 0 .. 2
    BY DEF Write, SendsOK, SendOK, SendType
<1>2. p \in PartType /\ p.frame = f /\ p.part = sends[f].put + 1
    BY <1>1 DEF PartType, Parts
<1>3. wire' = [wire EXCEPT ![c] = Append(wire[c], p)] /\ line' = line
    BY DEF Write, child
<1>4. line[c] \o Append(wire[c], p) = Append(line[c] \o wire[c], p)
    <2>1. line[c] \in Seq(PartType) /\ wire[c] \in Seq(PartType)
        BY <1>1, QueueType
    <2>2. ASSUME NEW s \in Seq(PartType), NEW u \in Seq(PartType)
          PROVE  s \o Append(u, p) = Append(s \o u, p)
        <3>1. Append(u, p) = u \o <<p>> /\ Append(s \o u, p) = (s \o u) \o <<p>>
            <4>1. s \o u \in Seq(PartType)
                BY ConcatProperties
            <4> QED BY <1>2, <4>1, AppendIsConcat
        <3>2. <<p>> \in Seq(PartType)
            BY <1>2
        <3> QED BY <3>1, <3>2, ConcatAssociative
    <2> QED BY <2>1, <2>2
<1>5. Q(c)' = Append(Q(c), p)
    <2>1. DOMAIN wire = Conns
        BY DEF RestOK
    <2>2. wire'[c] = Append(wire[c], p) /\ line'[c] = line[c]
        BY <1>1, <1>3, <2>1
    <2> QED BY <1>4, <2>2, Zenon DEF Q
<1>6. \A d \in Conns \ {c} : Q(d)' = Q(d)
    BY <1>1, <1>3 DEF Q, RestOK
<1> QED BY <1>1, <1>2, <1>5, <1>6

(* next_line keeps the queue, or takes a whole line off it and applies it. *)
LEMMA ReadQueue ==
    ASSUME RestOK, NEW c \in Conns, next_line(c)
    PROVE  /\ \A d \in Conns \ {c} : Q(d)' = Q(d)
           /\ \/ Q(c)' = Q(c) /\ UNCHANGED <<mode, applied>>
              \/ \E l \in Seq(PartType) :
                    /\ l # <<>> /\ l[Len(l)].part = 3
                    /\ Q(c) = l \o Q(c)' /\ Q(c)' \in Seq(PartType)
                    /\ apply(c, l)
<1> DEFINE l == Append(line[c], Head(wire[c]))
<1>1. line[c] \in Seq(PartType) /\ wire[c] \in Seq(PartType) /\ wire[c] # <<>>
    BY QueueType DEF next_line
<1>2. Head(wire[c]) \in PartType /\ Tail(wire[c]) \in Seq(PartType)
    BY <1>1
<1>3. l \in Seq(PartType) /\ l # <<>> /\ l[Len(l)] = Head(wire[c])
    <2>1. l \in Seq(PartType) /\ Len(l) = Len(line[c]) + 1 /\ l[Len(line[c]) + 1] = Head(wire[c])
        BY <1>1, <1>2, AppendFacts
    <2>2. Len(line[c]) \in Nat
        BY <1>1
    <2> HIDE DEF l
    <2> QED BY <2>1, <2>2
<1>4. l \o Tail(wire[c]) = Q(c)
    BY <1>1, ReadFacts DEF Q
<1>5. wire' = [wire EXCEPT ![c] = Tail(wire[c])]
    BY DEF next_line
<1>6. CASE Head(wire[c]).part = 3
    <2>1. apply(c, l)
        BY <1>6 DEF next_line
    <2> HIDE DEF l
    <2>2. line' = [line EXCEPT ![c] = <<>>]
        BY <2>1 DEF apply
    <2>3. Q(c)' = Tail(wire[c]) /\ \A d \in Conns \ {c} : Q(d)' = Q(d)
        <3>1. line'[c] = <<>> /\ wire'[c] = Tail(wire[c])
            BY <1>5, <2>2 DEF RestOK
        <3>2. <<>> \o Tail(wire[c]) = Tail(wire[c])
            BY <1>2, ConcatEmptySeq
        <3>3. \A d \in Conns \ {c} : Q(d)' = Q(d)
            BY <1>5, <2>2 DEF Q, RestOK
        <3> QED BY <3>1, <3>2, <3>3 DEF Q
    <2> QED BY <1>2, <1>3, <1>4, <1>6, <2>1, <2>3
<1>7. CASE Head(wire[c]).part # 3
    <2>1. line' = [line EXCEPT ![c] = l] /\ mode' = mode /\ applied' = applied
        BY <1>7 DEF next_line
    <2> HIDE DEF l
    <2>2. Q(c)' = l \o Tail(wire[c]) /\ \A d \in Conns \ {c} : Q(d)' = Q(d)
        BY <1>5, <2>1 DEF Q, RestOK
    <2> QED BY <1>4, <2>1, <2>2
<1> QED BY <1>6, <1>7

(* next_line_last keeps the queue, or applies all of it as the last line.  *)
LEMMA LastQueue ==
    ASSUME RestOK, NEW c \in Conns, next_line_last(c)
    PROVE  /\ \A d \in Conns \ {c} : Q(d)' = Q(d)
           /\ \/ Q(c)' = Q(c) /\ mode' = [mode EXCEPT ![c] = "ended"] /\ UNCHANGED applied
              \/ /\ Q(c) = line[c] \o <<>> /\ Q(c)' = <<>>
                 /\ apply(c, line[c])
<1>1. wire' = wire /\ wire[c] = <<>>
    BY DEF next_line_last
<1>2. CASE line[c] # <<>>
    <2>1. apply(c, line[c])
        BY <1>2 DEF next_line_last
    <2>2. line' = [line EXCEPT ![c] = <<>>]
        BY <2>1 DEF apply
    <2>3. Q(c)' = <<>> \o <<>>
        BY <1>1, <2>2 DEF Q, RestOK
    <2>4. <<>> \o <<>> = <<>>
        OBVIOUS
    <2>5. \A d \in Conns \ {c} : Q(d)' = Q(d)
        BY <1>1, <2>2 DEF Q, RestOK
    <2> QED BY <1>1, <2>1, <2>3, <2>4, <2>5 DEF Q
<1>3. CASE line[c] = <<>>
    BY <1>1, <1>3 DEF next_line_last, Q
<1> QED BY <1>2, <1>3

-----------------------------------------------------------------------------
(***************************************************************************)
(* Steps that leave the queues alone.                                      *)
(***************************************************************************)
\* Streams do not heal, ends stay closed, children that hung up stay so.
Monotone ==
    /\ \A c \in Conns : Open(c)' => Open(c)
    /\ \A c \in Conns : Hung(c) => Hung(c)'
    /\ \A c \in Conns : stream[c] # "clean" => stream'[c] # "clean"
    /\ \A f \in Frames : sends[f].pc = "done" => sends'[f].pc = "done"

(* Every step is monotone.                                                 *)
LEMMA MonotoneStep ==
    ASSUME SendsOK, RestOK, [Next]_vars
    PROVE  Monotone
<1>0. mode \in [Conns -> {"boot", "loop", "ended", "dead"}] /\ sends \in [Frames -> SendType]
      /\ stream \in [Conns -> {"clean", "torn", "spoiled"}]
    BY DEF RestOK, SendsOK
<1>1. ASSUME NEW f \in Frames, sends[f].pc = "done" PROVE sends[f].interrupt = "none"
    BY <1>1 DEF SendsOK, SendOK
<1>2. UNCHANGED sends => \A f \in Frames : sends[f].pc = "done" => sends'[f].pc = "done"
    OBVIOUS
<1>3. shut \subseteq shut' /\ (\A c \in Conns : Hung(c) => Hung(c)') =>
        \A c \in Conns : Open(c)' => Open(c)
    BY DEF Open
<1>4. ASSUME NEW c \in Conns, Serve(c) \/ Serving(c) \/ Cancel(c) PROVE Monotone
    <2>1. UNCHANGED <<mode, stream, sends>> /\ shut \subseteq shut'
        BY <1>4 DEF Serve, Serving, setConn, ServeRejects, ServeEnds, Returns, Cancel, child, history
    <2> QED BY <1>2, <1>3, <2>1 DEF Monotone, Hung
<1>5. ASSUME NEW c \in Conns, Announce(c) \/ Die(c) PROVE Monotone
    <2>1. UNCHANGED <<stream, sends, shut>>
        BY <1>5 DEF Announce, Die, server, history
    <2>2. \A d \in Conns : Hung(d) => Hung(d)'
        BY <1>0, <1>5 DEF Announce, Die, Hung
    <2> QED BY <1>2, <1>3, <2>1, <2>2 DEF Monotone
<1>6. ASSUME NEW c \in Conns, Loop(c) PROVE Monotone
    <2>1. UNCHANGED <<stream, sends, shut>>
        BY <1>6 DEF Loop, next_line, next_line_last, server, history
    <2>2. mode' = mode \/ mode' = [mode EXCEPT ![c] = "ended"]
        BY <1>6 DEF Loop, next_line, next_line_last, apply
    <2>3. \A d \in Conns : Hung(d) => Hung(d)'
        BY <1>0, <2>2 DEF Hung
    <2> QED BY <1>2, <1>3, <2>1, <2>3 DEF Monotone
<1>7. ASSUME NEW f \in Frames, send(f) \/ Expire(f) \/ Sending(f) \/ InterruptFires(f)
      PROVE  Monotone
    <2>1. UNCHANGED <<mode, shut>>
        BY <1>7 DEF send, Expire, Sending, TakeGate, GateTimeout, Write, WriteTimeout,
                    WriteFails, Finish, InterruptFires, server, child
    <2>2. \A c \in Conns : stream[c] # "clean" => stream'[c] # "clean"
        BY <1>0, <1>7 DEF send, Expire, Sending, TakeGate, GateTimeout, Write, WriteTimeout,
                    WriteFails, CutShort, Finish, InterruptFires, history
    <2>3. /\ \A g \in Frames \ {f} : sends'[g] = sends[g]
          /\ sends[f].pc # "done"
        BY <1>0, <1>1, <1>7 DEF send, Return, Expire, Sending, TakeGate, StartWrite, GateTimeout,
                    Write, WriteTimeout, WriteFails, CutShort, Finish, InterruptFires
    <2> QED BY <1>3, <2>1, <2>2, <2>3 DEF Monotone, Hung
<1>8. CASE Close
    <2>1. UNCHANGED <<mode, stream, sends>> /\ shut \subseteq shut'
        BY <1>8 DEF Close, child, history
    <2> QED BY <1>2, <1>3, <2>1 DEF Monotone, Hung
<1>9. CASE UNCHANGED vars
    BY <1>2, <1>3, <1>9 DEF vars, server, child, history, Monotone, Hung
<1> QED BY <1>4, <1>5, <1>6, <1>7, <1>8, <1>9 DEF Next, Quiet

(* A step of a call changes that call only, and among the queues only      *)
(* Write does; the other steps change neither calls nor streams.           *)
LEMMA CallFrame ==
    ASSUME SendsOK, RestOK, [Next]_vars
    PROVE  \/ \E f \in Frames :
                /\ send(f) \/ Expire(f) \/ InterruptFires(f) \/ Sending(f)
                /\ \A g \in Frames \ {f} : sends'[g] = sends[g]
           \/ UNCHANGED <<sends, gate, stream, written>>
<1>0. sends \in [Frames -> SendType]
    BY DEF SendsOK
<1>1. ASSUME NEW f \in Frames, send(f) \/ Expire(f) \/ InterruptFires(f) \/ Sending(f)
      PROVE  \A g \in Frames \ {f} : sends'[g] = sends[g]
    BY <1>0, <1>1 DEF send, Return, Expire, Sending, TakeGate, StartWrite, GateTimeout, Write,
                      WriteTimeout, WriteFails, CutShort, Finish, InterruptFires
<1>2. ASSUME NEW c \in Conns,
             \/ Serve(c) \/ Serving(c) \/ Cancel(c) \/ Announce(c) \/ Loop(c) \/ Die(c)
      PROVE  UNCHANGED <<sends, gate, stream, written>>
    BY <1>2 DEF Serve, Serving, setConn, ServeRejects, ServeEnds, Returns, Cancel, Announce,
                Loop, next_line, next_line_last, Die, history
<1>3. Close \/ UNCHANGED vars => UNCHANGED <<sends, gate, stream, written>>
    BY DEF Close, vars, history
<1> QED BY <1>1, <1>2, <1>3 DEF Next, Quiet

(* What a step makes of its own call: a write that stops short tears its   *)
(* stream, and a frame once written out stays so.                          *)
LEMMA OwnCall ==
    ASSUME SendsOK, RestOK, NEW f \in Frames,
           send(f) \/ Expire(f) \/ InterruptFires(f) \/ Sending(f)
    PROVE  /\ sends'[f].pc = "stopping" /\ sends'[f].put \in {1, 2} =>
                /\ sends'[f].conn = sends[f].conn /\ sends[f].conn \in Conns
                /\ \/ sends[f].pc = "stopping" /\ sends[f].put = sends'[f].put
                   \/ stream'[sends[f].conn] # "clean"
           /\ sends[f].pc = "done" \/ sends[f].put >= 2 =>
                sends'[f].pc = "done" \/ sends'[f].put >= 2
<1>0. sends \in [Frames -> SendType] /\ stream \in [Conns -> {"clean", "torn", "spoiled"}]
    BY DEF SendsOK, RestOK
<1>1. /\ sends[f].pc \in {"writing", "stopping"} => sends[f].conn \in Conns
      /\ sends[f].pc \in {"idle", "gating", "done"} => sends[f].put = 0 /\ sends[f].interrupt = "none"
      /\ sends[f].put \in 0 .. 3
      /\ sends[f].pc \in {"idle", "gating", "writing", "stopping", "done"}
    BY DEF SendsOK, SendOK, SendType
<1>2. CASE send(f) \/ GateTimeout(f)
    BY <1>0, <1>1, <1>2 DEF send, GateTimeout, Return, NewSend, SendType
<1>3. CASE Expire(f) \/ InterruptFires(f)
    BY <1>0, <1>1, <1>3 DEF Expire, InterruptFires, SendType
<1>4. CASE TakeGate(f)
    BY <1>0, <1>1, <1>4 DEF TakeGate, StartWrite, Return, NewSend, SendType
<1>5. CASE Write(f)
    <2>1. sends'[f].put = sends[f].put + 1 /\ sends'[f].conn = sends[f].conn
          /\ sends'[f].pc = IF sends[f].put + 1 = 3 THEN "stopping" ELSE sends[f].pc
        BY <1>0, <1>5 DEF Write, SendType
    <2>2. sends[f].pc = "writing"
        BY <1>5 DEF Write
    <2> QED BY <1>1, <2>1, <2>2
<1>6. CASE WriteTimeout(f) \/ WriteFails(f)
    <2>1. sends'[f].put = sends[f].put /\ sends'[f].conn = sends[f].conn
          /\ sends'[f].pc = "stopping" /\ sends[f].pc = "writing"
        BY <1>0, <1>6 DEF WriteTimeout, WriteFails, CutShort, SendType
    <2>2. sends[f].put \in {1, 2} => stream'[sends[f].conn] # "clean"
        BY <1>0, <1>1, <1>6, <2>1 DEF WriteTimeout, WriteFails, CutShort
    <2> QED BY <1>1, <2>1, <2>2
<1>7. CASE Finish(f)
    BY <1>0, <1>7 DEF Finish, stopInterrupt, NewSend, SendType
<1> QED BY <1>2, <1>3, <1>4, <1>5, <1>6, <1>7 DEF Sending

(* A torn stream stays torn.                                               *)
LEMMA CutStep ==
    ASSUME SendsOK, RestOK, CutInv, [Next]_vars
    PROVE  CutInv'
<1>0. ASSUME NEW f \in Frames, sends[f].pc = "stopping" PROVE sends[f].conn \in Conns
    BY <1>0 DEF SendsOK, SendOK
<1>1. \A c \in Conns : stream[c] # "clean" => stream'[c] # "clean"
    BY MonotoneStep DEF Monotone
<1>2. CASE UNCHANGED <<sends, gate, stream, written>>
    BY <1>2 DEF CutInv
<1>3. ASSUME NEW f \in Frames, send(f) \/ Expire(f) \/ InterruptFires(f) \/ Sending(f),
             \A g \in Frames \ {f} : sends'[g] = sends[g]
      PROVE  CutInv'
    <2>1. ASSUME NEW g \in Frames \ {f}, sends'[g].pc = "stopping", sends'[g].put \in {1, 2}
          PROVE  stream'[sends'[g].conn] # "clean"
        BY <1>0, <1>1, <1>3, <2>1 DEF CutInv
    <2>2. ASSUME sends'[f].pc = "stopping", sends'[f].put \in {1, 2}
          PROVE  stream'[sends'[f].conn] # "clean"
        BY <1>1, <1>3, <2>2, OwnCall DEF CutInv
    <2> QED BY <2>1, <2>2 DEF CutInv
<1> QED BY <1>2, <1>3, CallFrame

(* Only a call that is past its JSON is counted as written.                *)
LEMMA FreshStep ==
    ASSUME SendsOK, RestOK, FreshInv, [Next]_vars
    PROVE  FreshInv'
<1>1. CASE UNCHANGED <<sends, gate, stream, written>>
    BY <1>1 DEF FreshInv
<1>2. ASSUME NEW f \in Frames, send(f) \/ Expire(f) \/ InterruptFires(f) \/ Sending(f),
             \A g \in Frames \ {f} : sends'[g] = sends[g]
      PROVE  FreshInv'
    <2>1. \A g \in Frames : sends[g].pc = "done" \/ sends[g].put >= 2 =>
                                sends'[g].pc = "done" \/ sends'[g].put >= 2
        BY <1>2, OwnCall
    <2>2. CASE written' = written
        BY <2>1, <2>2 DEF FreshInv
    <2>3. CASE written' # written
        <3>1. Write(f)
            BY <1>2, <2>3 DEF send, Expire, InterruptFires, Sending, TakeGate, GateTimeout,
                              WriteTimeout, WriteFails, Finish, history
        <3>2. PICK c \in Conns : c = sends[f].conn
            BY <3>1, WriteQueue
        <3>3. sends[f].put = 1 /\ written' = [written EXCEPT ![c] = Append(written[c], f)]
            <4>1. sends[f].put \in 0 .. 2
                BY <3>1, WriteQueue
            <4>2. sends[f].put + 1 = 2 /\ written' = [written EXCEPT ![c] = Append(written[c], f)]
                BY <2>3, <3>1, <3>2 DEF Write
            <4> QED BY <4>1, <4>2
        <3>4. sends'[f].put = 2
            BY <3>1, <3>3 DEF Write, SendsOK, SendType
        <3>5. ASSUME NEW g \in Frames, NEW d \in Conns, NEW i \in 1 .. Len(written'[d]),
                     written'[d][i] = g
              PROVE  sends'[g].pc = "done" \/ sends'[g].put >= 2
            <4>a. written \in [Conns -> Seq(Frames)]
                BY DEF RestOK
            <4>0. written[c] \in Seq(Frames) /\ Len(written[c]) \in Nat
                BY <3>2, <4>a
            <4>1. CASE d # c
                <5>1. written'[d] = written[d]
                    BY <3>2, <3>3, <4>1, <4>a
                <5> QED BY <2>1, <3>5, <5>1 DEF FreshInv
            <4>2. CASE d = c /\ i = Len(written[c]) + 1
                <5>1. written'[d][i] = f
                    BY <3>2, <3>3, <4>0, <4>2, AppendFacts DEF RestOK
                <5> QED BY <3>4, <3>5, <5>1
            <4>3. CASE d = c /\ i \in 1 .. Len(written[c])
                <5>1. written'[d][i] = written[c][i]
                    BY <3>2, <3>3, <4>0, <4>3, AppendFacts DEF RestOK
                <5> QED BY <2>1, <3>2, <3>5, <4>3, <5>1 DEF FreshInv
            <4>4. d = c => i \in 1 .. Len(written[c]) + 1
                BY <3>2, <3>3, <4>0, AppendFacts DEF RestOK
            <4> QED BY <4>0, <4>1, <4>2, <4>3, <4>4
        <3> QED BY <3>5 DEF FreshInv
    <2> QED BY <2>2, <2>3
<1> QED BY <1>1, <1>2, CallFrame

(* Where the queue and its writer stay as they are, so does its end.       *)
LEMMA EndKept ==
    ASSUME NEW c \in Conns, EndOK(c), Q(c)' = Q(c), Partial(c)' <=> Partial(c),
           Partial(c) => gate'[c] = gate[c] /\ sends'[gate[c]].put = sends[gate[c]].put
    PROVE  EndOK(c)'
BY DEF EndOK

(* Steps of a call other than Write: the writer of a clean stream is       *)
(* between the same two parts afterwards.                                  *)
LEMMA CallKeepsPartial ==
    ASSUME SendsOK, RestOK, GateInv, CutInv, NEW f \in Frames,
           \A g \in Frames \ {f} : sends'[g] = sends[g],
           \/ send(f) \/ Expire(f) \/ InterruptFires(f) \/ GateTimeout(f) \/ TakeGate(f)
           \/ WriteTimeout(f) \/ WriteFails(f) \/ Finish(f),
           NEW c \in Conns, stream[c] = "clean"
    PROVE  /\ Partial(c)' <=> Partial(c)
           /\ Partial(c) => gate'[c] = gate[c] /\ sends'[gate[c]].put = sends[gate[c]].put
<1>0. sends \in [Frames -> SendType] /\ gate \in [Conns -> Frames \cup {None}]
      /\ None \notin Frames
    <2>1. None \notin Frames
        BY SeamAssumption DEF Frames
    <2> QED BY <2>1 DEF SendsOK, RestOK
<1>1. /\ sends[f].pc \in {"gating", "writing", "stopping"} => sends[f].conn \in Conns
      /\ sends[f].pc \in {"idle", "gating", "done"} => sends[f].put = 0
      /\ gate[c] = f => sends[f].pc \in {"writing", "stopping"} /\ sends[f].conn = c
    BY <1>0 DEF SendsOK, SendOK, SendType, GateInv, Holds
<1>2. CASE send(f) \/ GateTimeout(f)
    <2>1. gate' = gate /\ gate[c] # f
        BY <1>1, <1>2 DEF send, GateTimeout
    <2> QED BY <1>0, <2>1 DEF Partial
<1>3. CASE Expire(f) \/ InterruptFires(f) \/ WriteTimeout(f) \/ WriteFails(f)
    <2>1. gate' = gate /\ sends'[f].put = sends[f].put
        BY <1>0, <1>3 DEF Expire, InterruptFires, WriteTimeout, WriteFails, CutShort, SendType
    <2> QED BY <1>0, <2>1 DEF Partial
<1>4. CASE TakeGate(f)
    <2>1. gate[c] # f /\ sends[f].put = 0 /\ gate[sends[f].conn] = None /\ sends[f].conn \in Conns
        BY <1>1, <1>4 DEF TakeGate
    <2>2. CASE session = sends[f].conn /\ session \notin shut
        <3>1. gate' = [gate EXCEPT ![sends[f].conn] = f] /\ sends'[f].put = 0
            BY <1>0, <1>4, <2>1, <2>2 DEF TakeGate, StartWrite, SendType
        <3>2. CASE c = sends[f].conn
            BY <1>0, <2>1, <3>1, <3>2 DEF Partial
        <3>3. CASE c # sends[f].conn
            BY <1>0, <2>1, <3>1, <3>3 DEF Partial
        <3> QED BY <3>2, <3>3
    <2>3. CASE ~(session = sends[f].conn /\ session \notin shut)
        <3>1. gate' = gate
            BY <1>4, <2>3 DEF TakeGate
        <3> QED BY <1>0, <2>1, <3>1 DEF Partial
    <2> QED BY <2>2, <2>3
<1>5. CASE Finish(f)
    <2>1. sends[f].pc = "stopping" /\ gate' = [gate EXCEPT ![sends[f].conn] = None]
        BY <1>5 DEF Finish, Release
    <2>2. CASE c = sends[f].conn
        <3>1. gate[c] = f /\ gate'[c] = None
            BY <1>0, <1>1, <2>1, <2>2 DEF GateInv, Holds
        <3>2. sends[f].put \notin {1, 2}
            BY <2>1, <2>2 DEF CutInv
        <3> QED BY <3>1, <3>2 DEF Partial
    <2>3. CASE c # sends[f].conn
        <3>1. gate'[c] = gate[c] /\ gate[c] # f
            BY <1>0, <1>1, <2>1, <2>3
        <3> QED BY <1>0, <3>1 DEF Partial
    <2> QED BY <2>2, <2>3
<1> QED BY <1>2, <1>3, <1>4, <1>5

(* What is read off a queue is followed by what is left of it.             *)
LEMMA SuffixEnd ==
    ASSUME NEW l \in Seq(PartType), NEW t \in Seq(PartType), l # <<>>
    PROVE  LET q == l \o t
           IN  /\ q # <<>>
               /\ t # <<>> => q[Len(q)] = t[Len(t)]
               /\ t = <<>> => q[Len(q)] = l[Len(l)]
<1>1. /\ Len(l \o t) = Len(l) + Len(t) /\ Len(l) \in Nat /\ Len(t) \in Nat /\ Len(l) > 0
      /\ \A i \in 1 .. Len(l) : (l \o t)[i] = l[i]
      /\ \A i \in 1 .. Len(t) : (l \o t)[Len(l) + i] = t[i]
    OBVIOUS
<1>2. t = <<>> <=> Len(t) = 0
    OBVIOUS
<1>3. l \o t # <<>>
    BY <1>1
<1>4. ASSUME t # <<>> PROVE (l \o t)[Len(l \o t)] = t[Len(t)]
    <2>1. Len(t) \in 1 .. Len(t)
        BY <1>1, <1>2, <1>4
    <2> QED BY <1>1, <2>1
<1>5. ASSUME t = <<>> PROVE (l \o t)[Len(l \o t)] = l[Len(l)]
    <2>1. Len(l) \in 1 .. Len(l) /\ Len(l \o t) = Len(l)
        BY <1>1, <1>2, <1>5
    <2> QED BY <1>1, <2>1
<1> QED BY <1>3, <1>4, <1>5

(* The empty queue has no broken frame.                                    *)
LEMMA FramedEmpty == Framed(<<>>)
BY DEF Framed

(* A clean stream stays a queue of whole frames.                           *)
LEMMA WireStep ==
    ASSUME SendsOK, RestOK, GateInv, CutInv, WireInv, [Next]_vars
    PROVE  WireInv'
<1>0. /\ \A c \in Conns : Open(c)' => Open(c)
      /\ \A c \in Conns : stream'[c] = "clean" => stream[c] = "clean"
    BY MonotoneStep DEF Monotone
<1>a. None \notin Frames /\ gate \in [Conns -> Frames \cup {None}]
    BY SeamAssumption DEF RestOK, Frames
<1>1. ASSUME UNCHANGED <<sends, gate>>, NEW c \in Conns, Q(c)' = Q(c), stream'[c] = "clean"
      PROVE  Framed(Q(c)') /\ (Open(c)' => EndOK(c)')
    <2>1. Framed(Q(c)) /\ (Open(c) => EndOK(c))
        BY <1>0, <1>1 DEF WireInv
    <2>2. Partial(c)' <=> Partial(c)
        BY <1>1 DEF Partial
    <2> QED BY <1>0, <1>1, <2>1, <2>2, EndKept
<1>2. CASE UNCHANGED <<sends, gate, line, wire>>
    <2>1. \A c \in Conns : Q(c)' = Q(c)
        BY <1>2 DEF Q
    <2> QED BY <1>1, <1>2, <2>1 DEF WireInv
<1>3. ASSUME NEW f \in Frames, Write(f) PROVE WireInv'
    <2>1. PICK c : c = sends[f].conn
        OBVIOUS
    <2>2. PICK p : p = [frame |-> f, part |-> sends[f].put + 1]
        OBVIOUS
    <2>3. /\ c \in Conns /\ p \in PartType /\ p.frame = f /\ p.part = sends[f].put + 1
          /\ sends[f].put \in 0 .. 2
          /\ Q(c)' = Append(Q(c), p)
          /\ \A d \in Conns \ {c} : Q(d)' = Q(d)
        BY <1>3, <2>1, <2>2, WriteQueue
    <2>4. gate' = gate /\ gate[c] = f /\ Open(c)
        BY <1>3, <2>1, <2>3 DEF Write, GateInv, Holds, Open
    <2>5. sends'[f].put = sends[f].put + 1 /\ \A g \in Frames \ {f} : sends'[g] = sends[g]
        BY <1>3 DEF Write, SendsOK, SendType
    <2>6. ASSUME NEW d \in Conns \ {c}, stream'[d] = "clean"
          PROVE  Framed(Q(d)') /\ (Open(d)' => EndOK(d)')
        <3>1. Framed(Q(d)) /\ (Open(d) => EndOK(d))
            BY <1>0, <2>6 DEF WireInv
        <3>2. gate[d] # f
            BY <1>a, <2>1 DEF GateInv, Holds
        <3>3. /\ Partial(d)' <=> Partial(d)
              /\ Partial(d) => gate'[d] = gate[d] /\ sends'[gate[d]].put = sends[gate[d]].put
            BY <1>a, <2>4, <2>5, <3>2 DEF Partial
        <3>4. Q(d)' = Q(d)
            BY <2>3
        <3> QED BY <1>0, <3>1, <3>3, <3>4, EndKept
    <2>7. ASSUME stream'[c] = "clean"
          PROVE  Framed(Q(c)') /\ EndOK(c)'
        <3>1. Framed(Q(c)) /\ EndOK(c) /\ Q(c) \in Seq(PartType)
            BY <1>0, <2>3, <2>4, <2>7, QueueType DEF WireInv
        <3>2. IF Q(c) = <<>> THEN p.part = 1 ELSE Follows(Q(c)[Len(Q(c))], p)
            <4>1. CASE sends[f].put = 0
                <5>1. Q(c) = <<>> \/ Q(c)[Len(Q(c))].part = 3
                    BY <2>4, <3>1, <4>1 DEF EndOK, Partial
                <5> QED BY <2>3, <4>1, <5>1 DEF Follows
            <4>2. CASE sends[f].put \in {1, 2}
                <5>1. Q(c) # <<>> /\ Q(c)[Len(Q(c))] = [frame |-> f, part |-> sends[f].put]
                    BY <1>a, <2>4, <3>1, <4>2 DEF EndOK, Partial
                <5> QED BY <2>2, <4>2, <5>1 DEF Follows
            <4> QED BY <2>3, <4>1, <4>2
        <3>3. Framed(Q(c)')
            BY <2>3, <3>1, <3>2, FramedAppend
        <3>4. Q(c)' # <<>> /\ Q(c)'[Len(Q(c)')] = p
            <4>1. /\ Append(Q(c), p) \in Seq(PartType) /\ Len(Append(Q(c), p)) = Len(Q(c)) + 1
                  /\ Append(Q(c), p)[Len(Q(c)) + 1] = p /\ Len(Q(c)) \in Nat
                BY <2>3, <3>1
            <4>2. Append(Q(c), p) # <<>>
                BY <4>1
            <4> QED BY <2>3, <4>1, <4>2
        <3>5. EndOK(c)'
            <4>1. CASE sends[f].put + 1 \in {1, 2}
                <5>1. Partial(c)'
                    BY <1>a, <2>4, <2>5, <4>1 DEF Partial
                <5>2. p = [frame |-> gate'[c], part |-> sends'[gate'[c]].put]
                    BY <2>2, <2>4, <2>5
                <5> QED BY <3>4, <5>1, <5>2 DEF EndOK
            <4>2. CASE sends[f].put + 1 = 3
                <5>1. ~Partial(c)'
                    BY <2>4, <2>5, <4>2 DEF Partial
                <5>2. p.part = 3
                    BY <2>3, <4>2
                <5> QED BY <3>4, <5>1, <5>2 DEF EndOK
            <4> QED BY <2>3, <4>1, <4>2
        <3> QED BY <3>3, <3>5
    <2> QED BY <2>6, <2>7 DEF WireInv
<1>4. ASSUME NEW f \in Frames,
             \/ send(f) \/ Expire(f) \/ InterruptFires(f) \/ GateTimeout(f) \/ TakeGate(f)
             \/ WriteTimeout(f) \/ WriteFails(f) \/ Finish(f),
             \A g \in Frames \ {f} : sends'[g] = sends[g]
      PROVE  WireInv'
    <2>1. UNCHANGED <<line, wire>>
        BY <1>4 DEF send, Expire, InterruptFires, GateTimeout, TakeGate, WriteTimeout,
                    WriteFails, Finish, child
    <2>2. ASSUME NEW c \in Conns, stream'[c] = "clean"
          PROVE  Framed(Q(c)') /\ (Open(c)' => EndOK(c)')
        <3>1. stream[c] = "clean" /\ Framed(Q(c)) /\ (Open(c) => EndOK(c))
            BY <1>0, <2>2 DEF WireInv
        <3>2. Q(c)' = Q(c)
            BY <2>1 DEF Q
        <3>3. /\ Partial(c)' <=> Partial(c)
              /\ Partial(c) => gate'[c] = gate[c] /\ sends'[gate[c]].put = sends[gate[c]].put
            BY <1>4, <3>1, CallKeepsPartial
        <3> QED BY <1>0, <3>1, <3>2, <3>3, EndKept
    <2> QED BY <2>2 DEF WireInv
<1>5. ASSUME NEW c \in Conns, next_line(c) PROVE WireInv'
    <2>1. UNCHANGED <<sends, gate>>
        BY <1>5 DEF next_line
    <2>2. \A d \in Conns \ {c} : Q(d)' = Q(d)
        BY <1>5, ReadQueue
    <2>3. ASSUME stream'[c] = "clean" PROVE Framed(Q(c)') /\ (Open(c)' => EndOK(c)')
        <3>1. CASE Q(c)' = Q(c)
            BY <1>1, <2>1, <2>3, <3>1
        <3>2. CASE Q(c)' # Q(c)
            <4>1. PICK l \in Seq(PartType) :
                        /\ l # <<>> /\ l[Len(l)].part = 3
                        /\ Q(c) = l \o Q(c)' /\ Q(c)' \in Seq(PartType)
                BY <1>5, <3>2, ReadQueue
            <4>2. Framed(Q(c)) /\ (Open(c) => EndOK(c))
                BY <1>0, <2>3 DEF WireInv
            <4>3. Framed(Q(c)')
                BY <4>1, <4>2, FramedSuffix
            <4>4. Partial(c)' <=> Partial(c)
                BY <2>1 DEF Partial
            <4>5. ASSUME Open(c)' PROVE EndOK(c)'
                <5>1. EndOK(c)
                    BY <1>0, <4>2, <4>5
                <5>2. CASE Q(c)' = <<>>
                    <6>1. Q(c)[Len(Q(c))].part = 3
                        BY <4>1, <5>2, SuffixEnd
                    <6>2. ~Partial(c)
                        BY <5>1, <6>1 DEF EndOK, Partial
                    <6> QED BY <4>4, <5>2, <6>2 DEF EndOK
                <5>3. CASE Q(c)' # <<>>
                    <6>1. Q(c) # <<>> /\ Q(c)[Len(Q(c))] = Q(c)'[Len(Q(c)')]
                        BY <4>1, <5>3, SuffixEnd
                    <6> QED BY <2>1, <4>4, <5>1, <5>3, <6>1 DEF EndOK
                <5> QED BY <5>2, <5>3
            <4> QED BY <4>3, <4>5
        <3> QED BY <3>1, <3>2
    <2> QED BY <1>1, <2>1, <2>2, <2>3 DEF WireInv
<1>6. ASSUME NEW c \in Conns, next_line_last(c) PROVE WireInv'
    <2>1. UNCHANGED <<sends, gate>> /\ ~Open(c)'
        BY <1>6 DEF next_line_last, Open, server
    <2>2. (\A d \in Conns \ {c} : Q(d)' = Q(d)) /\ (Q(c)' = Q(c) \/ Q(c)' = <<>>)
        BY <1>6, LastQueue
    <2>3. ASSUME stream'[c] = "clean" PROVE Framed(Q(c)') /\ (Open(c)' => EndOK(c)')
        BY <1>1, <2>1, <2>2, <2>3, FramedEmpty
    <2> QED BY <1>1, <2>1, <2>2, <2>3 DEF WireInv
<1>7. ASSUME NEW c \in Conns, Die(c) PROVE WireInv'
    <2>1. UNCHANGED <<sends, gate>> /\ ~Open(c)'
        BY <1>7 DEF Die, Open, Hung, RestOK
    <2>2. line'[c] = <<>> /\ wire'[c] = <<>>
          /\ \A d \in Conns \ {c} : line'[d] = line[d] /\ wire'[d] = wire[d]
        BY <1>7 DEF Die, RestOK
    <2>3. <<>> \o <<>> = <<>>
        OBVIOUS
    <2>4. Q(c)' = <<>> /\ \A d \in Conns \ {c} : Q(d)' = Q(d)
        BY <2>2, <2>3 DEF Q
    <2> QED BY <1>1, <2>1, <2>4, FramedEmpty DEF WireInv
<1>8. ASSUME NEW c \in Conns, Serve(c) \/ Serving(c) \/ Cancel(c) \/ Announce(c)
      PROVE  UNCHANGED <<sends, gate, line, wire>>
    BY <1>8 DEF Serve, Serving, setConn, ServeRejects, ServeEnds, Returns, Cancel, Announce, child
<1>9. Close \/ UNCHANGED vars => UNCHANGED <<sends, gate, line, wire>>
    BY DEF Close, vars, child
<1>10. ASSUME NEW f \in Frames, send(f) \/ Expire(f) \/ InterruptFires(f) \/ Sending(f)
       PROVE  \A g \in Frames \ {f} : sends'[g] = sends[g]
    BY <1>10 DEF send, Return, Expire, Sending, TakeGate, StartWrite, GateTimeout, Write,
                 WriteTimeout, WriteFails, CutShort, Finish, InterruptFires, SendsOK
<1> QED
    BY <1>2, <1>3, <1>4, <1>5, <1>6, <1>7, <1>8, <1>9, <1>10 DEF Next, Loop, Sending, Quiet

-----------------------------------------------------------------------------
(***************************************************************************)
(* The queues and what was applied.                                        *)
(***************************************************************************)
(* Applying the first line of a queue delivers the next frame, or ends the *)
(* loop.                                                                   *)
LEMMA ApplyQueue ==
    ASSUME RestOK, NEW c \in Conns, NEW l \in Seq(PartType), NEW t \in Seq(PartType),
           Tracks(l \o t, written[c], Len(applied[c])), apply(c, l)
    PROVE  \/ /\ Len(applied[c]) < Len(written[c])
              /\ applied' = [applied EXCEPT ![c] = Append(@, written[c][Len(@) + 1])]
              /\ mode' = mode \/ mode' = [mode EXCEPT ![c] = "ended"]
              /\ Tracks(t, written[c], Len(applied'[c]))
           \/ applied' = applied /\ mode' = [mode EXCEPT ![c] = "ended"]
<1>0. /\ written[c] \in Seq(Frames) /\ applied[c] \in Seq(Frames) /\ Len(applied[c]) \in Nat
      /\ applied \in [Conns -> Seq(Frames)]
    BY DEF RestOK
<1>1. CASE Decodes(l)
    <2>1. /\ applied' = [applied EXCEPT ![c] = Append(applied[c], l[1].frame)]
          /\ mode' = mode \/ mode' = [mode EXCEPT ![c] = "ended"]
        BY <1>1 DEF apply
    <2>2. /\ Len(applied[c]) < Len(written[c])
          /\ l[1].frame = written[c][Len(applied[c]) + 1]
          /\ Tracks(t, written[c], Len(applied[c]) + 1)
        BY <1>0, <1>1, TracksLine
    <2>3. l[1].frame \in Frames
        <3>1. Len(applied[c]) + 1 \in 1 .. Len(written[c])
            BY <1>0, <2>2
        <3> QED BY <1>0, <2>2, <3>1
    <2>4. applied'[c] = Append(applied[c], l[1].frame)
        BY <1>0, <2>1
    <2>5. Len(applied'[c]) = Len(applied[c]) + 1
        BY <1>0, <2>3, <2>4, AppendFacts
    <2> QED BY <2>1, <2>2, <2>5
<1>2. CASE ~Decodes(l)
    BY <1>2 DEF apply
<1> QED BY <1>1, <1>2

(* A step of a child's loop: it reads on, delivers a frame, or ends.       *)
LEMMA LoopQueue ==
    ASSUME RestOK, QueueInv, NEW c \in Conns, Loop(c)
    PROVE  /\ written' = written /\ ~Hung(c)
           /\ \A d \in Conns \ {c} : Q(d)' = Q(d)
           /\ \/ Q(c)' = Q(c) /\ UNCHANGED <<mode, applied>>
              \/ /\ Len(applied[c]) < Len(written[c])
                 /\ applied' = [applied EXCEPT ![c] = Append(@, written[c][Len(@) + 1])]
                 /\ mode' = mode \/ mode' = [mode EXCEPT ![c] = "ended"]
                 /\ Tracks(Q(c)', written[c], Len(applied'[c]))
              \/ applied' = applied /\ mode' = [mode EXCEPT ![c] = "ended"]
<1>1. written' = written /\ ~Hung(c)
    BY DEF Loop, next_line, next_line_last, history, Hung
<1>2. Tracks(Q(c), written[c], Len(applied[c]))
    BY <1>1 DEF QueueInv
<1>3. CASE next_line(c)
    <2>1. \A d \in Conns \ {c} : Q(d)' = Q(d)
        BY <1>3, ReadQueue
    <2>2. CASE Q(c)' = Q(c) /\ UNCHANGED <<mode, applied>>
        BY <1>1, <2>1, <2>2
    <2>3. CASE ~(Q(c)' = Q(c) /\ UNCHANGED <<mode, applied>>)
        <3>1. PICK l \in Seq(PartType) :
                Q(c) = l \o Q(c)' /\ Q(c)' \in Seq(PartType) /\ apply(c, l)
            BY <1>3, <2>3, ReadQueue
        <3>2. Tracks(l \o Q(c)', written[c], Len(applied[c]))
            BY <1>2, <3>1
        <3> QED BY <1>1, <2>1, <3>1, <3>2, ApplyQueue
    <2> QED BY <2>2, <2>3
<1>4. CASE next_line_last(c)
    <2>1. \A d \in Conns \ {c} : Q(d)' = Q(d)
        BY <1>4, LastQueue
    <2>2. CASE mode' = [mode EXCEPT ![c] = "ended"] /\ UNCHANGED applied
        BY <1>1, <2>1, <2>2
    <2>3. CASE Q(c) = line[c] \o <<>> /\ Q(c)' = <<>> /\ apply(c, line[c])
        <3>1. line[c] \in Seq(PartType) /\ <<>> \in Seq(PartType)
            BY QueueType
        <3>2. Tracks(line[c] \o <<>>, written[c], Len(applied[c]))
            BY <1>2, <2>3
        <3> QED BY <1>1, <2>1, <2>3, <3>1, <3>2, ApplyQueue
    <2> QED BY <1>4, <2>2, <2>3, LastQueue
<1> QED BY <1>3, <1>4 DEF Loop

(* Steps other than writing, reading and dying leave the queues alone.     *)
LEMMA QueueFrame ==
    ASSUME [Next]_vars
    PROVE  \/ \E f \in Frames : Write(f)
           \/ \E c \in Conns : Loop(c) \/ Die(c)
           \/ \E c \in Conns : Announce(c)
           \/ UNCHANGED <<mode, line, wire, written, applied>>
<1>1. ASSUME NEW f \in Frames, send(f) \/ Expire(f) \/ InterruptFires(f) \/ Sending(f), ~Write(f)
      PROVE  UNCHANGED <<mode, line, wire, written, applied>>
    BY <1>1 DEF send, Expire, InterruptFires, Sending, GateTimeout, TakeGate, WriteTimeout,
                WriteFails, Finish, child, history
<1>2. ASSUME NEW c \in Conns, Serve(c) \/ Serving(c) \/ Cancel(c)
      PROVE  UNCHANGED <<mode, line, wire, written, applied>>
    BY <1>2 DEF Serve, Serving, setConn, ServeRejects, ServeEnds, Returns, Cancel, child, history
<1>3. Close \/ UNCHANGED vars => UNCHANGED <<mode, line, wire, written, applied>>
    BY DEF Close, vars, child, history
<1> QED BY <1>1, <1>2, <1>3 DEF Next, Quiet

(* A step of Write as the channel sees it.                                 *)
LEMMA WriteFacts ==
    ASSUME SendsOK, RestOK, NEW f \in Frames, Write(f), NEW c, c = sends[f].conn
    PROVE  /\ c \in Conns /\ ~Hung(c) /\ UNCHANGED <<mode, applied>>
           /\ sends[f].put \in 0 .. 2 /\ sends[f].pc = "writing"
           /\ sends[f].put # 1 => written' = written
           /\ sends[f].put = 1 => written' = [written EXCEPT ![c] = Append(@, f)]
<1>1. c \in Conns /\ sends[f].put \in 0 .. 2
    BY DEF Write, SendsOK, SendOK, SendType
<1>2. sends[f].put + 1 = 2 <=> sends[f].put = 1
    BY <1>1
<1> QED BY <1>1, <1>2 DEF Write, child

(* The queues keep track of what is to be applied.                         *)
LEMMA QueueStep ==
    ASSUME SendsOK, RestOK, QueueInv, [Next]_vars
    PROVE  QueueInv'
<1>0. \A d \in Conns : ~Hung(d)' => ~Hung(d)
    BY MonotoneStep DEF Monotone
<1>a. written \in [Conns -> Seq(Frames)] /\ applied \in [Conns -> Seq(Frames)]
      /\ mode \in [Conns -> {"boot", "loop", "ended", "dead"}]
    BY DEF RestOK
<1>1. ASSUME NEW f \in Frames, Write(f) PROVE QueueInv'
    <2>1. PICK c : c = sends[f].conn
        OBVIOUS
    <2>2. PICK p : p = [frame |-> f, part |-> sends[f].put + 1]
        OBVIOUS
    <2>3. /\ c \in Conns /\ p \in PartType /\ p.frame = f /\ p.part = sends[f].put + 1
          /\ sends[f].put \in 0 .. 2
          /\ Q(c)' = Append(Q(c), p)
          /\ \A d \in Conns \ {c} : Q(d)' = Q(d)
        BY <1>1, <2>1, <2>2, WriteQueue
    <2>4. /\ ~Hung(c) /\ UNCHANGED <<mode, applied>>
          /\ sends[f].put # 1 => written' = written
          /\ sends[f].put = 1 => written' = [written EXCEPT ![c] = Append(written[c], f)]
        BY <1>1, <2>1, WriteFacts
    <2>5. /\ Tracks(Q(c), written[c], Len(applied[c])) /\ Q(c) \in Seq(PartType)
          /\ written[c] \in Seq(Frames) /\ Len(applied[c]) \in Nat
        BY <1>a, <2>3, <2>4, QueueType DEF QueueInv
    <2>6. Tracks(Q(c)', written'[c], Len(applied'[c]))
        <3>1. CASE sends[f].put = 1
            <4>1. p.part = 2 /\ written'[c] = Append(written[c], p.frame)
                BY <1>a, <2>3, <2>4, <3>1
            <4>2. Tracks(Append(Q(c), p), Append(written[c], p.frame), Len(applied[c]))
                BY <2>3, <2>5, <4>1, TracksJson
            <4> QED BY <2>3, <2>4, <4>1, <4>2
        <3>2. CASE sends[f].put # 1
            <4>1. p.part # 2
                BY <2>3, <3>2
            <4>2. Tracks(Append(Q(c), p), written[c], Len(applied[c]))
                BY <2>3, <2>5, <4>1, TracksOther
            <4> QED BY <2>3, <2>4, <3>2, <4>2
        <3> QED BY <3>1, <3>2
    <2>7. ASSUME NEW d \in Conns \ {c}, ~Hung(d)'
          PROVE  Tracks(Q(d)', written'[d], Len(applied'[d]))
        <3>1. written'[d] = written[d] /\ applied'[d] = applied[d] /\ Q(d)' = Q(d)
            BY <1>a, <2>3, <2>4
        <3> QED BY <1>0, <2>7, <3>1 DEF QueueInv
    <2> QED BY <2>6, <2>7 DEF QueueInv
<1>2. ASSUME NEW c \in Conns, Loop(c) PROVE QueueInv'
    <2>1. written' = written /\ \A d \in Conns \ {c} : Q(d)' = Q(d)
        BY <1>2, LoopQueue
    <2>2. ASSUME NEW d \in Conns \ {c}, ~Hung(d)'
          PROVE  Tracks(Q(d)', written'[d], Len(applied'[d]))
        <3>1. applied'[d] = applied[d]
            <4>1. applied' = applied \/ \E x : applied' = [applied EXCEPT ![c] = x]
                BY <1>2, LoopQueue
            <4> QED BY <1>a, <4>1
        <3> QED BY <1>0, <2>1, <2>2, <3>1 DEF QueueInv
    <2>3. ASSUME ~Hung(c)' PROVE Tracks(Q(c)', written'[c], Len(applied'[c]))
        <3>1. mode' # [mode EXCEPT ![c] = "ended"]
            BY <1>a, <2>3 DEF Hung
        <3>2. CASE Q(c)' = Q(c) /\ UNCHANGED applied
            BY <1>0, <2>1, <2>3, <3>2 DEF QueueInv
        <3>3. CASE Tracks(Q(c)', written[c], Len(applied'[c]))
            BY <2>1, <3>3
        <3> QED BY <1>2, <3>1, <3>2, <3>3, LoopQueue
    <2> QED BY <2>2, <2>3 DEF QueueInv
<1>3. ASSUME NEW c \in Conns, Die(c) PROVE QueueInv'
    <2>1. Hung(c)' /\ UNCHANGED <<written, applied>>
        BY <1>3, <1>a DEF Die, Hung
    <2>2. \A d \in Conns \ {c} : Q(d)' = Q(d)
        BY <1>3 DEF Die, Q, RestOK
    <2> QED BY <1>0, <2>1, <2>2 DEF QueueInv
<1>4. ASSUME NEW c \in Conns, Announce(c) PROVE QueueInv'
    <2>1. UNCHANGED <<line, wire, written, applied>>
        BY <1>4 DEF Announce
    <2> QED BY <1>0, <2>1 DEF QueueInv, Q
<1>5. CASE UNCHANGED <<mode, line, wire, written, applied>>
    BY <1>0, <1>5 DEF QueueInv, Q
<1> QED BY <1>1, <1>2, <1>3, <1>4, <1>5, QueueFrame

-----------------------------------------------------------------------------
(***************************************************************************)
(* The inductive invariant.  The properties need each other: frames stay   *)
(* whole because the gate has one holder, and a stream that is clean was   *)
(* left so by every call that let go of the gate.                          *)
(***************************************************************************)
IInv ==
    /\ SendsOK /\ RestOK
    /\ GateInv /\ DeadlineInv
    /\ SessionInv
    /\ CutInv /\ WireInv
    /\ FreshInv /\ QueueInv

(* It holds initially.                                                     *)
LEMMA InitInv == Init => IInv
<1> SUFFICES ASSUME Init PROVE IInv
    OBVIOUS
<1> USE SeamAssumption
<1>1. NewSend \in SendType /\ NewSend.pc = "idle" /\ NewSend.put = 0
      /\ NewSend.interrupt = "none" /\ NewSend.conn = None
    <2>1. 0 \in 0 .. 3
        OBVIOUS
    <2>2. NewSend \in SendType
        BY <2>1, Zenon DEF NewSend, SendType
    <2> QED BY <2>2 DEF NewSend
<1>2. \A f \in Frames : sends[f] = NewSend
    BY DEF Init
<1>3. SendsOK
    <2>1. SendOK(NewSend)
        BY <1>1 DEF SendOK
    <2> QED BY <1>1, <1>2, <2>1 DEF Init, SendsOK
<1>4. RestOK
    <2>1. <<>> \in Seq(PartType) /\ <<>> \in Seq(Frames) /\ Len(<<>>) = 0
        OBVIOUS
    <2>2. /\ wire \in [Conns -> Seq(PartType)] /\ line \in [Conns -> Seq(PartType)]
          /\ applied \in [Conns -> Seq(Frames)] /\ written \in [Conns -> Seq(Frames)]
          /\ \A c \in Conns : Len(wire[c]) <= Capacity
        BY <2>1 DEF Init
    <2>3. /\ session \in Conns \cup {None} /\ latest \in Conns \cup {None}
          /\ closed \in BOOLEAN /\ shut \subseteq Conns
        BY DEF Init
    <2>4. faults \in 0 .. MaxFaults
        BY DEF Init
    <2>5. /\ stream \in [Conns -> {"clean", "torn", "spoiled"}]
          /\ serve \in [Conns -> {"none", "reading", "held", "done"}]
          /\ gate \in [Conns -> Frames \cup {None}]
          /\ deadline \in [Conns -> {"none", "set", "past"}]
          /\ register \in [Conns -> {"none", "good", "bad"}]
          /\ mode \in [Conns -> {"boot", "loop", "ended", "dead"}]
        BY DEF Init
    <2> QED BY <2>2, <2>3, <2>4, <2>5 DEF RestOK
<1>5. GateInv /\ DeadlineInv /\ CutInv
    BY <1>1, <1>2 DEF Init, GateInv, DeadlineInv, CutInv, Holds
<1>6. SessionInv
    BY DEF Init, SessionInv, SessionIsLatest
<1>7. \A c \in Conns : Q(c) = <<>>
    <2>1. <<>> \o <<>> = <<>>
        OBVIOUS
    <2> QED BY <2>1 DEF Init, Q
<1>8. WireInv
    <2>1. \A c \in Conns : ~Partial(c)
        BY DEF Init, Partial
    <2> QED BY <1>7, <2>1, FramedEmpty DEF WireInv, EndOK
<1>9. FreshInv
    BY DEF Init, FreshInv
<1>10. QueueInv
    <2>1. Tracks(<<>>, <<>>, 0)
        <3>1. Len(<<>>) = 0 /\ 1 .. 0 - 0 = {} /\ 1 .. 0 = {}
            OBVIOUS
        <3>2. Marks(<<>>, <<>>, 0, [j \in {} |-> 1])
            BY <3>1 DEF Marks
        <3> QED BY <3>1, <3>2 DEF Tracks
    <2> QED BY <1>7, <2>1 DEF Init, QueueInv
<1> QED BY <1>3, <1>4, <1>5, <1>6, <1>8, <1>9, <1>10 DEF IInv

(* Every step keeps it.                                                    *)
LEMMA NextInv == IInv /\ [Next]_vars => IInv'
<1> SUFFICES ASSUME IInv, [Next]_vars PROVE IInv'
    OBVIOUS
<1>0. SendsOK /\ RestOK /\ GateInv /\ DeadlineInv /\ SessionInv /\ CutInv /\ WireInv /\ FreshInv
      /\ QueueInv
    BY DEF IInv
<1>1. SendsOK'
    <2>1. CASE UNCHANGED sends
        BY <1>0, <2>1 DEF SendsOK, SendOK
    <2> QED BY <1>0, <2>1, CallFrame, SendsStep
<1> QED
    BY <1>0, <1>1, RestStep, GateStep, SessionStep, CutStep, WireStep, FreshStep, QueueStep
    DEF IInv

(* It is an invariant.                                                     *)
LEMMA Invariance == Spec => []IInv
BY InitInv, NextInv, PTL DEF Spec

-----------------------------------------------------------------------------
(* Every variable keeps its type, the sockets their capacity, and a call   *)
(* under way has a connection.                                             *)
THEOREM TypeCorrect == Spec => []TypeOK
<1>1. IInv => TypeOK
    BY TypeParts DEF IInv
<1> QED BY <1>1, Invariance, PTL

(* send: a write is cut by its own deadline only.  A deadline in the past  *)
(* was put there by the interrupt of the call that has the gate, and that  *)
(* is the call that writes.                                                *)
THEOREM DeadlineIsOwn == Spec => []OwnDeadline
<1>1. IInv => OwnDeadline
    <2> SUFFICES ASSUME IInv, NEW f \in Frames, sends[f].pc = "writing",
                        deadline[sends[f].conn] = "past"
                 PROVE  sends[f].expired
        BY DEF OwnDeadline
    <2>1. SendOK(sends[f]) /\ sends[f].conn \in Conns
        BY DEF IInv, SendsOK, SendOK
    <2>2. gate[sends[f].conn] = f
        BY <2>1 DEF IInv, GateInv, Holds
    <2>3. sends[f].interrupt = "fired"
        BY <2>1, <2>2 DEF IInv, DeadlineInv
    <2> QED BY <2>1, <2>3, Zenon DEF SendOK
<1> QED BY <1>1, Invariance, PTL

(* Serve, clearConn, Close: the session is that of the child registered    *)
(* last while that child is served.                                        *)
THEOREM SessionCorrect == Spec => []SessionIsLatest
<1>1. IInv => SessionIsLatest
    BY DEF IInv, SessionInv
<1> QED BY <1>1, Invariance, PTL

(* The write gate and the reader of the loop: a child finds parts of two   *)
(* frames mixed only behind a write that was cut short.                    *)
THEOREM FramesStayWhole == Spec => []GarbledMeansCut
<1>1. IInv => GarbledMeansCut
    <2> SUFFICES ASSUME IInv, NEW c \in Conns, stream[c] = "clean" PROVE ~Garbled(c)
        BY DEF GarbledMeansCut
    <2>1. Framed(Q(c))
        BY DEF IInv, WireInv
    <2> QED BY <2>1 DEF Framed, Follows, Q, Garbled
<1> QED BY <1>1, Invariance, PTL

-----------------------------------------------------------------------------
(***************************************************************************)
(* The seam implements the channel.                                        *)
(***************************************************************************)
(* A child that hangs up is cut from the channel.                          *)
LEMMA HangUp ==
    ASSUME RestOK, NEW c \in Conns, NEW m \in {"ended", "dead"}, mode' = [mode EXCEPT ![c] = m]
    PROVE  {d \in Conns : ~Hung(d)'} = {d \in Conns : ~Hung(d)} \ {c}
BY DEF RestOK, Hung

(* Every step is one of the channel's, or changes nothing the channel      *)
(* knows.                                                                  *)
LEMMA ChannelStep == IInv /\ [Next]_vars => [Channel!Next]_(Channel!vars)
<1> SUFFICES ASSUME IInv, [Next]_vars PROVE [Channel!Next]_(Channel!vars)
    OBVIOUS
<1>0. SendsOK /\ RestOK /\ QueueInv /\ FreshInv
    BY DEF IInv
<1>a. mode \in [Conns -> {"boot", "loop", "ended", "dead"}]
    BY <1>0 DEF RestOK
<1>b. ASSUME UNCHANGED <<mode, written, applied>> PROVE UNCHANGED Channel!vars
    BY <1>b DEF Channel!vars, Hung
<1>c. ASSUME NEW c \in Conns, NEW m \in {"ended", "dead"}, mode' = [mode EXCEPT ![c] = m],
             UNCHANGED <<written, applied>>
      PROVE  Channel!Next
    BY <1>0, <1>c, HangUp DEF Channel!Next, Channel!Cut
<1>1. ASSUME NEW f \in Frames, Write(f) PROVE [Channel!Next]_(Channel!vars)
    <2>1. PICK c : c = sends[f].conn
        OBVIOUS
    <2>2. /\ c \in Conns /\ ~Hung(c) /\ UNCHANGED <<mode, applied>>
          /\ sends[f].put \in 0 .. 2 /\ sends[f].pc = "writing"
          /\ sends[f].put # 1 => written' = written
          /\ sends[f].put = 1 => written' = [written EXCEPT ![c] = Append(@, f)]
        BY <1>0, <1>1, <2>1, WriteFacts
    <2>3. CASE sends[f].put # 1
        BY <1>b, <2>2, <2>3
    <2>4. CASE sends[f].put = 1
        <3>1. \A d \in Conns : \A i \in 1 .. Len(written[d]) : written[d][i] # f
            BY <1>0, <2>2, <2>4 DEF FreshInv
        <3>2. UNCHANGED {d \in Conns : ~Hung(d)}
            BY <2>2 DEF Hung
        <3>3. Channel!Take(c, f)
            BY <2>2, <2>4, <3>1, <3>2 DEF Channel!Take
        <3> QED BY <2>2, <3>3 DEF Channel!Next
    <2> QED BY <2>3, <2>4
<1>2. ASSUME NEW c \in Conns, Loop(c) PROVE [Channel!Next]_(Channel!vars)
    <2>1. written' = written /\ ~Hung(c)
        BY <1>0, <1>2, LoopQueue
    <2>2. CASE UNCHANGED <<mode, applied>>
        BY <1>b, <2>1, <2>2
    <2>3. CASE applied' = applied /\ mode' = [mode EXCEPT ![c] = "ended"]
        BY <1>c, <2>1, <2>3
    <2>4. CASE /\ Len(applied[c]) < Len(written[c])
               /\ applied' = [applied EXCEPT ![c] = Append(@, written[c][Len(@) + 1])]
               /\ mode' = mode \/ mode' = [mode EXCEPT ![c] = "ended"]
        <3>1. {d \in Conns : ~Hung(d)'} \in {{d \in Conns : ~Hung(d)}, {d \in Conns : ~Hung(d)} \ {c}}
            <4>1. CASE mode' = mode
                BY <4>1 DEF Hung
            <4>2. CASE mode' = [mode EXCEPT ![c] = "ended"]
                BY <1>0, <4>2, HangUp
            <4> QED BY <2>4, <4>1, <4>2
        <3>2. Channel!Deliver(c)
            BY <2>1, <2>4, <3>1 DEF Channel!Deliver
        <3> QED BY <3>2 DEF Channel!Next
    <2> QED BY <1>0, <1>2, <2>2, <2>3, <2>4, LoopQueue
<1>3. ASSUME NEW c \in Conns, Die(c) PROVE Channel!Next
    BY <1>3, <1>c DEF Die
<1>4. ASSUME NEW c \in Conns, Announce(c) PROVE [Channel!Next]_(Channel!vars)
    <2>1. UNCHANGED <<written, applied>>
        BY <1>4 DEF Announce
    <2>2. CASE mode' = [mode EXCEPT ![c] = "ended"]
        BY <1>c, <2>1, <2>2
    <2>3. CASE mode[c] = "boot" /\ mode' = [mode EXCEPT ![c] = "loop"]
        <3>1. \A d \in Conns : Hung(d)' <=> Hung(d)
            BY <1>a, <2>3 DEF Hung
        <3>2. UNCHANGED {d \in Conns : ~Hung(d)}
            BY <3>1
        <3> QED BY <2>1, <3>2 DEF Channel!vars
    <2> QED BY <1>4, <2>2, <2>3 DEF Announce
<1> QED BY <1>1, <1>2, <1>3, <1>4, <1>b, QueueFrame

(* run_seam applies what send wrote: per child in order, without gaps or   *)
(* repetitions, until the child hangs up, through every interleaving of    *)
(* calls, interrupts, timeouts and deaths.                                 *)
THEOREM ChannelRefined == Spec => ImplementsChannel
<1>1. Init => Channel!Init
    BY DEF Init, Channel!Init, Hung
<1> QED BY <1>1, ChannelStep, Invariance, PTL DEF Spec, ImplementsChannel, Channel!Spec
=============================================================================
