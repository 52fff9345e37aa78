----------------------------- MODULE PipeProofs -----------------------------
(***************************************************************************)
(* Proofs about what goes through a pipe: the su terminal's bytes          *)
(* (PtyPump) and the log's messages (LogDaemon), for any number of bytes,  *)
(* writers and messages and any size of the pipe.                          *)
(***************************************************************************)
EXTENDS PtyPump, LogDaemon, FiniteSetTheorems, TLAPS

(* The bytes of side s from number b + 1 on.                                 *)
Byte(s, i) == [from |-> s, n |-> i]
Bytes == [from : Sides, n : Nat]
Numbered(q, s, b) == q \in Seq(Bytes) /\ \A i \in 1 .. Len(q) : q[i] = Byte(s, b + i)

(* What arrived and what is to be read are together what was written, and a  *)
(* turn of the loop leaves nothing in the pipe.                              *)
Relayed(s) ==
    /\ Numbered(arrived[s], s, 0) /\ Numbered(pending[s], s, Len(arrived[s]))
    /\ Len(arrived[s]) + Len(pending[s]) = written[s]

PtyInv ==
    /\ written \in [Sides -> Nat] /\ DOMAIN pending = Sides /\ DOMAIN arrived = Sides
    /\ \A s \in Sides : Relayed(s)
    /\ pipe = <<>> /\ hup \subseteq Sides /\ watched \subseteq Sides
    /\ ppc = "done" => "stdin" \in hup \/ ("ptmx" \in hup /\ pending["ptmx"] = <<>>)

(* Taking the first n bytes of a numbered stream continues the numbers on    *)
(* both sides.                                                               *)
LEMMA Taken ==
    ASSUME NEW s \in Sides, NEW a, NEW p, NEW n \in Nat, Numbered(a, s, 0), Numbered(p, s, Len(a))
    PROVE  /\ Numbered(a \o FirstN(p, n), s, 0)
           /\ Numbered(AfterN(p, n), s, Len(a \o FirstN(p, n)))
           /\ Len(a \o FirstN(p, n)) + Len(AfterN(p, n)) = Len(a) + Len(p)
           /\ FirstN(p, n) \in Seq(Bytes) /\ Len(FirstN(p, n)) <= n
<1> DEFINE m == Least(n, Len(p))
           t == SubSeq(p, 1, m)
           q == SubSeq(p, m + 1, Len(p))
<1>1. a \in Seq(Bytes) /\ p \in Seq(Bytes) /\ Len(a) \in Nat /\ Len(p) \in Nat
  BY DEF Numbered
<1>2. m \in Nat /\ m <= Len(p) /\ m <= n
  BY <1>1 DEF Least
<1> HIDE DEF m
<1>3. t \in Seq(Bytes) /\ Len(t) = m /\ \A i \in 1 .. m : t[i] = p[i]
  BY <1>1, <1>2
<1>4. q \in Seq(Bytes) /\ Len(q) = Len(p) - m /\ \A i \in 1 .. Len(p) - m : q[i] = p[m + i]
  BY <1>1, <1>2
<1>5. FirstN(p, n) = t /\ AfterN(p, n) = q
  BY DEF FirstN, AfterN, m
<1> HIDE DEF t, q
<1>6. /\ a \o t \in Seq(Bytes) /\ Len(a \o t) = Len(a) + m
      /\ \A i \in 1 .. Len(a) + m : (a \o t)[i] = IF i <= Len(a) THEN a[i] ELSE t[i - Len(a)]
  <2>1. \A x, y \in Seq(Bytes) : /\ x \o y \in Seq(Bytes) /\ Len(x \o y) = Len(x) + Len(y)
                                 /\ \A i \in 1 .. Len(x) + Len(y) :
                                      (x \o y)[i] = IF i <= Len(x) THEN x[i] ELSE y[i - Len(x)]
    OBVIOUS
  <2>2. a \in Seq(Bytes) /\ t \in Seq(Bytes) /\ Len(t) = m
    BY <1>1, <1>3
  <2>3. QED
    BY <2>1, <2>2
<1>7. Numbered(a \o t, s, 0)
  <2>1. ASSUME NEW i \in 1 .. Len(a) + m PROVE (a \o t)[i] = Byte(s, 0 + i)
    <3>1. CASE i <= Len(a)
      BY <1>1, <1>2, <1>6, <3>1 DEF Numbered
    <3>2. CASE ~(i <= Len(a))
      <4>1. i - Len(a) \in 1 .. m /\ Len(a) + (i - Len(a)) = 0 + i /\ i - Len(a) \in 1 .. Len(p)
        BY <1>1, <1>2, <3>2
      <4>2. (a \o t)[i] = p[i - Len(a)]
        BY <1>3, <1>6, <3>2, <4>1
      <4>3. p[i - Len(a)] = Byte(s, Len(a) + (i - Len(a)))
        BY <4>1 DEF Numbered
      <4>4. QED
        BY <4>1, <4>2, <4>3
    <3>3. QED
      BY <3>1, <3>2
  <2>2. QED
    BY <1>6, <2>1 DEF Numbered
<1>8. Numbered(q, s, Len(a) + m)
  BY <1>1, <1>2, <1>4 DEF Numbered
<1>9. Len(a \o t) + Len(q) = Len(a) + Len(p)
  BY <1>1, <1>2, <1>4, <1>6
<1>10. Numbered(q, s, Len(a \o t))
  BY <1>6, <1>8
<1>11. t \in Seq(Bytes) /\ Len(t) <= n
  BY <1>2, <1>3
<1>12. QED
  BY <1>5, <1>7, <1>9, <1>10, <1>11

(* A byte with the next number continues the stream.                         *)
LEMMA Added ==
    ASSUME NEW s \in Sides, NEW l, l \in Nat, NEW p, Numbered(p, s, l)
    PROVE  /\ Numbered(Append(p, Byte(s, l + Len(p) + 1)), s, l)
           /\ Len(Append(p, Byte(s, l + Len(p) + 1))) = Len(p) + 1
<1> DEFINE b == Byte(s, l + Len(p) + 1)
<1>1. p \in Seq(Bytes) /\ Len(p) \in Nat
  BY DEF Numbered
<1>2. b \in Bytes /\ b = Byte(s, l + (Len(p) + 1))
  BY <1>1 DEF Byte, Bytes
<1> HIDE DEF b
<1>3. /\ Append(p, b) \in Seq(Bytes) /\ Len(Append(p, b)) = Len(p) + 1
      /\ \A i \in 1 .. Len(p) + 1 : Append(p, b)[i] = IF i <= Len(p) THEN p[i] ELSE b
  BY <1>1, <1>2
<1>4. Numbered(Append(p, b), s, l)
  <2>1. ASSUME NEW i \in 1 .. Len(p) + 1 PROVE Append(p, b)[i] = Byte(s, l + i)
    <3>1. CASE i \in 1 .. Len(p)
      BY <1>3, <3>1 DEF Numbered
    <3>2. CASE i = Len(p) + 1
      BY <1>1, <1>2, <1>3, <3>2
    <3>3. QED
      BY <1>1, <3>1, <3>2
  <2>2. QED
    BY <1>3, <2>1 DEF Numbered
<1>5. QED
  BY <1>3, <1>4 DEF b

(* What fits one splice is moved as a whole.                                 *)
LEMMA AllTaken ==
    ASSUME NEW t \in Seq(Bytes), NEW n \in Nat, Len(t) <= n
    PROVE  FirstN(<<>> \o t, n) = t /\ AfterN(<<>> \o t, n) = <<>>
<1>1. <<>> \o t = t /\ Len(t) \in Nat
  OBVIOUS
<1>2. Least(n, Len(t)) = Len(t)
  BY <1>1 DEF Least
<1>3. SubSeq(t, 1, Len(t)) = t /\ SubSeq(t, Len(t) + 1, Len(t)) = <<>>
  OBVIOUS
<1>4. QED
  BY <1>1, <1>2, <1>3 DEF FirstN, AfterN

(* Each way of pumping takes some bytes across and leaves none in the pipe.  *)
LEMMA PumpTakes ==
    ASSUME PtyInv, ~ShortSplice, SpliceSize <= CopySize, NEW s \in Sides, PPump(s)
    PROVE  pipe' = <<>> /\ \E n \in Nat : /\ arrived' = [arrived EXCEPT ![s] = @ \o FirstN(pending[s], n)]
                                          /\ pending' = [pending EXCEPT ![s] = AfterN(@, n)]
<1> DEFINE took == FirstN(pending[s], SpliceSize)
<1>1. SpliceSize \in Nat /\ CopySize \in Nat
  BY PtyAssumption
<1>2. took \in Seq(Bytes) /\ Len(took) <= SpliceSize /\ Len(took) \in Nat
  <2>1. Numbered(arrived[s], s, 0) /\ Numbered(pending[s], s, Len(arrived[s]))
    BY DEF PtyInv, Relayed
  <2>2. took \in Seq(Bytes) /\ Len(took) <= SpliceSize
    BY <1>1, <2>1, Taken
  <2>3. QED
    BY <2>2
<1>3. pipe = <<>>
  BY DEF PtyInv
<1>4. CASE PSplice(s)
  <2>1. FirstN(pipe \o took, Len(took)) = took /\ AfterN(pipe \o took, Len(took)) = <<>>
    BY <1>2, <1>3, AllTaken
  <2>2. QED
    BY <1>1, <1>4, <2>1 DEF PSplice
<1>5. CASE PSpliceFails(s)
  <2>1. FirstN(pipe \o took, CopySize) = took /\ AfterN(pipe \o took, CopySize) = <<>>
    BY <1>1, <1>2, <1>3, AllTaken
  <2>2. QED
    BY <1>1, <1>5, <2>1 DEF PSpliceFails
<1>6. CASE PCopy(s)
  BY <1>1, <1>3, <1>6 DEF PCopy
<1>7. QED
  BY <1>4, <1>5, <1>6 DEF PPump

(* The relay begins with nothing under way.                                  *)
LEMMA PtyInitInv == PtyInit => PtyInv
<1> SUFFICES ASSUME PtyInit PROVE PtyInv
  OBVIOUS
<1>1. \A s \in Sides : arrived[s] = <<>> /\ pending[s] = <<>> /\ written[s] = 0
  BY DEF PtyInit
<1>2. \A s \in Sides : Numbered(<<>>, s, 0) /\ Len(<<>>) = 0
  BY DEF Numbered
<1>3. QED
  BY <1>1, <1>2 DEF PtyInit, PtyInv, Relayed

(* Every step of pump_tty and of its two ends keeps the numbers.             *)
LEMMA PtyStep ==
    ASSUME PtyInv, [PtyNext]_ptyVars, ~ShortSplice, SpliceSize <= CopySize
    PROVE  PtyInv'
<1>1. CASE PSetup
  BY <1>1 DEF PSetup, PtyInv, Relayed, Sides
<1>2. CASE PWrite
  <2>1. PICK s \in Sides : /\ s \notin hup /\ written' = [written EXCEPT ![s] = @ + 1]
                           /\ pending' = [pending EXCEPT ![s] = Append(@, [from |-> s, n |-> written[s] + 1])]
                           /\ UNCHANGED <<arrived, pipe, hup, watched, ppc>>
    BY <1>2 DEF PWrite
  <2>2. /\ written'[s] = written[s] + 1 /\ pending'[s] = Append(pending[s], Byte(s, written[s] + 1))
        /\ \A r \in Sides \ {s} : written'[r] = written[r] /\ pending'[r] = pending[r]
        /\ written' \in [Sides -> Nat] /\ DOMAIN pending' = Sides
    BY <2>1 DEF PtyInv, Byte
  <2>3. Numbered(pending'[s], s, Len(arrived[s])) /\ Len(arrived[s]) + Len(pending'[s]) = written[s] + 1
    <3> DEFINE l == Len(arrived[s])
    <3>1. Numbered(pending[s], s, l) /\ l + Len(pending[s]) = written[s] /\ l \in Nat /\ Len(pending[s]) \in Nat
      BY DEF PtyInv, Relayed, Numbered
    <3> HIDE DEF l
    <3>2. pending'[s] = Append(pending[s], Byte(s, l + Len(pending[s]) + 1))
      BY <2>2, <3>1
    <3> DEFINE q == Append(pending[s], Byte(s, l + Len(pending[s]) + 1))
    <3>3. Numbered(q, s, l) /\ Len(q) = Len(pending[s]) + 1
      BY <3>1, Added
    <3>4. pending'[s] = q
      BY <3>2
    <3> HIDE DEF q
    <3>5. Numbered(pending'[s], s, l)
      BY <3>3, <3>4
    <3>6. l + Len(pending'[s]) = written[s] + 1
      BY <3>1, <3>3, <3>4
    <3>7. QED
      BY <3>5, <3>6 DEF l
  <2>4. Relayed(s)' /\ \A r \in Sides \ {s} : Relayed(r)'
    BY <2>1, <2>2, <2>3 DEF PtyInv, Relayed
  <2>5. "ptmx" \in hup => pending'["ptmx"] = pending["ptmx"]
    BY <2>1, <2>2 DEF Sides
  <2>6. QED
    BY <2>1, <2>2, <2>4, <2>5 DEF PtyInv
<1>3. CASE PHangup
  BY <1>3 DEF PHangup, PtyInv, Relayed
<1>4. CASE PResize \/ PSyncWinsize \/ UNCHANGED ptyVars
  BY <1>4 DEF PResize, PSyncWinsize, ptyVars, PtyInv, Relayed
<1>5. CASE PPoll
  <2>1. PICK s \in Sides : PPump(s)
    BY <1>5 DEF PPoll, PtyInv
  <2>2. PICK n \in Nat : /\ arrived' = [arrived EXCEPT ![s] = @ \o FirstN(pending[s], n)]
                         /\ pending' = [pending EXCEPT ![s] = AfterN(@, n)]
    BY <2>1, PumpTakes
  <2>3. /\ arrived'[s] = arrived[s] \o FirstN(pending[s], n) /\ pending'[s] = AfterN(pending[s], n)
        /\ \A r \in Sides \ {s} : arrived'[r] = arrived[r] /\ pending'[r] = pending[r]
        /\ DOMAIN arrived' = Sides /\ DOMAIN pending' = Sides
    BY <2>2 DEF PtyInv
  <2>4. /\ Numbered(arrived'[s], s, 0) /\ Numbered(pending'[s], s, Len(arrived'[s]))
        /\ Len(arrived'[s]) + Len(pending'[s]) = Len(arrived[s]) + Len(pending[s])
    <3>1. Numbered(arrived[s], s, 0) /\ Numbered(pending[s], s, Len(arrived[s]))
      BY DEF PtyInv, Relayed
    <3> DEFINE a == arrived[s] \o FirstN(pending[s], n)
               p == AfterN(pending[s], n)
    <3>2. Numbered(a, s, 0) /\ Numbered(p, s, Len(a)) /\ Len(a) + Len(p) = Len(arrived[s]) + Len(pending[s])
      BY <3>1, Taken, ZenonT(60)
    <3>3. arrived'[s] = a /\ pending'[s] = p
      BY <2>3
    <3> HIDE DEF a, p
    <3>4. QED
      BY <3>2, <3>3
  <2>5. pipe' = <<>> /\ UNCHANGED <<written, hup, watched, ppc>> /\ ppc = "poll"
    BY <1>5, <2>1, PumpTakes DEF PPoll
  <2>6. Relayed(s)' /\ \A r \in Sides \ {s} : Relayed(r)'
    BY <2>3, <2>4, <2>5 DEF PtyInv, Relayed
  <2>7. QED
    BY <2>3, <2>5, <2>6 DEF PtyInv
<1>6. CASE PStop
  <2>1. pending["ptmx"] = <<>> \/ pending["ptmx"] # <<>>
    OBVIOUS
  <2>2. QED
    BY <1>6 DEF PStop, MayStop, Readable, PtyInv, Relayed, Sides
<1>7. QED
  BY <1>1, <1>2, <1>3, <1>4, <1>5, <1>6 DEF PtyNext

(* pump_tty (pts.rs) carries the bytes of each side across in order, none    *)
(* left out and none coming back, and shows the shell's last output, also    *)
(* when splice gives up; provided that the second splice takes what the      *)
(* first put in, and that one splice takes no more than the buffer of        *)
(* pump_via_copy holds.                                                      *)
THEOREM RelayAlwaysFaithful ==
    ASSUME ~ShortSplice, SpliceSize <= CopySize
    PROVE  PtySpec => []RelayIsFaithful
<1>1. PtyInv => RelayIsFaithful
  <2> SUFFICES ASSUME PtyInv PROVE RelayIsFaithful
    OBVIOUS
  <2>1. BytesGoAcross
    <3> SUFFICES ASSUME NEW s \in Sides, NEW i \in 1 .. Len(arrived[s]) PROVE arrived[s][i] = [from |-> s, n |-> i]
      BY DEF BytesGoAcross
    <3>1. arrived[s][i] = Byte(s, 0 + i)
      BY DEF PtyInv, Relayed, Numbered
    <3>2. i \in Int /\ 0 + i = i
      OBVIOUS
    <3>3. QED
      BY <3>1, <3>2 DEF Byte
  <2>2. LastOutputShown
    <3> SUFFICES ASSUME ppc = "done", hup = {"ptmx"} PROVE Len(arrived["ptmx"]) = written["ptmx"]
      BY DEF LastOutputShown
    <3>1. pending["ptmx"] = <<>> /\ Len(<<>>) = 0
      BY DEF PtyInv
    <3>2. Len(arrived["ptmx"]) \in Nat /\ Len(arrived["ptmx"]) + Len(pending["ptmx"]) = written["ptmx"]
      BY DEF PtyInv, Relayed, Sides, Numbered
    <3>3. QED
      BY <3>1, <3>2
  <2>3. QED
    BY <2>1, <2>2 DEF RelayIsFaithful
<1>2. PtyInv /\ [PtyNext]_ptyVars => PtyInv'
  BY PtyStep
<1>3. QED
  BY <1>1, <1>2, PtyInitInv, PTL DEF PtySpec

-----------------------------------------------------------------------------
(* The log *)

Cell == [w : Writers, n : Nat, prio : {"I", "F", "setup"}, len : 0 .. MAX_MSG_LEN, k : Nat]
Unit(c, j) == [c EXCEPT !.k = j]

(* A message as one write puts it into the pipe.                             *)
Message(q) ==
    /\ q \in Seq(Cell) /\ Len(q) > 0 /\ Len(q) = q[1].len + 1 /\ q[1].k = 0 /\ (q[1].prio = "setup" => q[1].len = 0)
    /\ \A i \in 1 .. Len(q) : q[i] = Unit(q[1], i - 1)

(* Message after message: behind each LogMeta its text and the next LogMeta. *)
MetaAt(q, i) ==
    /\ i + q[i].len <= Len(q) /\ (q[i].prio = "setup" => q[i].len = 0)
    /\ \A j \in 1 .. q[i].len : q[i + j] = Unit(q[i], j)
    /\ i + q[i].len < Len(q) => q[i + q[i].len + 1].k = 0
Messages(q) ==
    /\ q \in Seq(Cell) /\ (Len(q) > 0 => q[1].k = 0)
    /\ \A i \in 1 .. Len(q) : q[i].k = 0 => MetaAt(q, i)

(* What the units of one record share, and that the header is the first.     *)
LEMMA UnitFacts ==
    ASSUME NEW c \in Cell, NEW j \in Nat
    PROVE  Unit(c, j) \in Cell /\ Unit(c, j).k = j /\ (c.k = 0 => Unit(c, 0) = c)
  BY DEF Unit, Cell

(* Records are cut to MAX_MSG_LEN.                                           *)
LEMMA CellFacts ==
    ASSUME NEW c \in Cell
    PROVE  c.len \in Nat /\ c.len <= MAX_MSG_LEN /\ c.k \in Nat /\ MAX_MSG_LEN \in Nat
  BY LogAssumption DEF Cell, MAX_MSG_LEN

(* What concatenation does, cell by cell.                                    *)
LEMMA Joined ==
    ASSUME NEW q \in Seq(Cell), NEW m \in Seq(Cell)
    PROVE  /\ q \o m \in Seq(Cell) /\ Len(q \o m) = Len(q) + Len(m)
           /\ \A i \in 1 .. Len(q) : (q \o m)[i] = q[i]
           /\ \A i \in 1 .. Len(m) : (q \o m)[Len(q) + i] = m[i]
  OBVIOUS

(* A whole record behind whole records makes whole records.                  *)
LEMMA MessagesGrow ==
    ASSUME NEW q, Messages(q), NEW m, Message(m)
    PROVE  Messages(q \o m)
<1> DEFINE t == q \o m
<1>1. q \in Seq(Cell) /\ m \in Seq(Cell) /\ Len(q) \in Nat /\ Len(m) \in Nat
  BY DEF Messages, Message
<1>2. /\ t \in Seq(Cell) /\ Len(t) = Len(q) + Len(m)
      /\ \A i \in 1 .. Len(q) : t[i] = q[i]
      /\ \A i \in 1 .. Len(m) : t[Len(q) + i] = m[i]
  BY <1>1, Joined
<1> HIDE DEF t
<1>3. m[1] \in Cell /\ m[1].len \in Nat /\ Len(m) = m[1].len + 1 /\ m[1].k = 0
  <2>1. m[1] \in Cell
    BY <1>1 DEF Message
  <2>2. QED
    BY <2>1, CellFacts DEF Message
<1>3a. t[Len(q) + 1] = m[1]
  <2>1. 1 \in 1 .. Len(m)
    BY <1>1, <1>3
  <2>2. QED
    BY <1>2, <2>1
<1>4. ASSUME NEW i \in 1 .. Len(q), q[i].k = 0 PROVE MetaAt(t, i)
  <2> DEFINE l == q[i].len
  <2>1. q[i] \in Cell /\ l \in Nat /\ t[i] = q[i]
    BY <1>1, <1>2, CellFacts
  <2>2. /\ i + l <= Len(q) /\ (q[i].prio = "setup" => l = 0)
        /\ \A j \in 1 .. l : q[i + j] = Unit(q[i], j)
        /\ i + l < Len(q) => q[i + l + 1].k = 0
    BY <1>4 DEF Messages, MetaAt
  <2>3. t[i].len = l /\ t[i].prio = q[i].prio
    BY <2>1
  <2> HIDE DEF l
  <2>4. ASSUME NEW j \in 1 .. l PROVE t[i + j] = Unit(t[i], j)
    <3>1. i + j \in 1 .. Len(q)
      <4>1. l \in Nat /\ i + l <= Len(q)
        BY <2>1, <2>2
      <4>2. QED
        BY <1>1, <4>1
    <3>2. QED
      BY <1>2, <2>1, <2>2, <3>1
  <2>5. i + l < Len(t) => t[i + l + 1].k = 0
    <3>1. CASE i + l < Len(q)
      <4>1. i + l + 1 \in 1 .. Len(q)
        BY <1>1, <2>1, <3>1
      <4>2. QED
        BY <1>2, <2>2, <3>1, <4>1
    <3>2. CASE i + l = Len(q)
      BY <1>3, <1>3a, <3>2
    <3>3. QED
      BY <1>1, <2>1, <2>2, <3>1, <3>2
  <2>6. i + l <= Len(t)
    BY <1>1, <1>2, <2>1, <2>2
  <2>7. QED
    BY <2>2, <2>3, <2>4, <2>5, <2>6 DEF MetaAt
<1>5. MetaAt(t, Len(q) + 1)
  <2> DEFINE l == m[1].len
  <2>1. t[Len(q) + 1] = m[1] /\ l \in Nat /\ Len(m) = l + 1 /\ (m[1].prio = "setup" => l = 0)
    BY <1>3, <1>3a DEF Message
  <2> HIDE DEF l
  <2>2. ASSUME NEW j \in 1 .. l PROVE t[Len(q) + 1 + j] = Unit(m[1], j)
    <3>1. Len(q) + 1 + j = Len(q) + (j + 1) /\ j + 1 \in 1 .. Len(m) /\ (j + 1) - 1 = j
      BY <1>1, <2>1
    <3>2. m[j + 1] = Unit(m[1], (j + 1) - 1)
      BY <3>1 DEF Message
    <3>3. QED
      BY <1>2, <3>1, <3>2
  <2>3. Len(q) + 1 + l = Len(t)
    BY <1>1, <1>2, <2>1
  <2>4. t[Len(q) + 1].len = l
    BY <2>1 DEF l
  <2>5. QED
    BY <1>2, <2>1, <2>2, <2>3, <2>4 DEF MetaAt
<1>6. ASSUME NEW i \in 1 .. Len(m), m[i].k = 0 PROVE i = 1
  <2>1. m[i] = Unit(m[1], i - 1) /\ i - 1 \in Nat
    BY DEF Message
  <2>2. Unit(m[1], i - 1).k = i - 1
    BY <1>3, <2>1, UnitFacts
  <2>3. QED
    BY <1>6, <2>1, <2>2
<1>7. ASSUME NEW i \in 1 .. Len(t), t[i].k = 0 PROVE MetaAt(t, i)
  <2>1. CASE i <= Len(q)
    BY <1>1, <1>2, <1>4, <1>7, <2>1
  <2>2. CASE i > Len(q)
    <3>1. i - Len(q) \in 1 .. Len(m) /\ i = Len(q) + (i - Len(q))
      BY <1>1, <1>2, <2>2
    <3>2. i = Len(q) + 1
      BY <1>1, <1>2, <1>6, <1>7, <3>1
    <3>3. QED
      BY <1>5, <3>2
  <2>3. QED
    BY <1>1, <2>1, <2>2
<1>8. Len(t) > 0 => t[1].k = 0
  <2>1. CASE Len(q) > 0
    BY <1>1, <1>2, <2>1 DEF Messages
  <2>2. CASE Len(q) = 0
    BY <1>2, <1>3, <2>2
  <2>3. QED
    BY <1>1, <2>1, <2>2
<1>9. QED
  BY <1>2, <1>7, <1>8 DEF Messages, t

-----------------------------------------------------------------------------
(* Counting the messages to be logged *)

(* One more cell counts one more line exactly if it is a supported header.   *)
LEMMA LoggedInFacts ==
    ASSUME NEW q, NEW i \in Nat
    PROVE  /\ LoggedIn(q, i) \in Nat /\ LoggedIn(q, 0) = 0
           /\ Logged(q[i + 1]) => LoggedIn(q, i + 1) = LoggedIn(q, i) + 1
           /\ ~Logged(q[i + 1]) => LoggedIn(q, i + 1) = LoggedIn(q, i)
<1> DEFINE S(n) == {j \in 1 .. n : Logged(q[j])}
<1>1. IsFiniteSet(S(i)) /\ Cardinality(S(i)) \in Nat
  <2>1. IsFiniteSet(1 .. i)
    BY FS_Interval
  <2>2. IsFiniteSet(S(i))
    BY <2>1, FS_Subset
  <2>3. QED
    BY <2>2, FS_CardinalityType
<1>2. S(0) = {} /\ Cardinality({}) = 0
  BY FS_EmptySet
<1>3. ASSUME Logged(q[i + 1]) PROVE Cardinality(S(i + 1)) = Cardinality(S(i)) + 1
  <2>1. S(i + 1) = S(i) \cup {i + 1} /\ i + 1 \notin S(i)
    BY <1>3
  <2>2. QED
    BY <1>1, <2>1, FS_AddElement
<1>4. ASSUME ~Logged(q[i + 1]) PROVE S(i + 1) = S(i)
  BY <1>4
<1>5. QED
  BY <1>1, <1>2, <1>3, <1>4 DEF LoggedIn

(* Later counts are not smaller, and what is counted is counted once.        *)
LEMMA LoggedInGrows ==
    ASSUME NEW q, NEW i \in Nat, NEW n \in Nat, i <= n
    PROVE  /\ LoggedIn(q, i) <= LoggedIn(q, n)
           /\ (\A j \in i + 1 .. n : ~Logged(q[j])) => LoggedIn(q, n) = LoggedIn(q, i)
           /\ i > 0 /\ Logged(q[i]) => LoggedIn(q, i) > 0
<1> DEFINE S(m) == {j \in 1 .. m : Logged(q[j])}
<1>1. IsFiniteSet(S(n)) /\ IsFiniteSet(S(i))
  <2>1. IsFiniteSet(1 .. n) /\ IsFiniteSet(1 .. i)
    BY FS_Interval
  <2>2. QED
    BY <2>1, FS_Subset
<1>2. S(i) \subseteq S(n)
  OBVIOUS
<1>3. Cardinality(S(i)) <= Cardinality(S(n))
  BY <1>1, <1>2, FS_Subset
<1>4. ASSUME \A j \in i + 1 .. n : ~Logged(q[j]) PROVE S(n) = S(i)
  <2>1. \A j \in 1 .. n : j \in 1 .. i \/ j \in i + 1 .. n
    OBVIOUS
  <2>2. QED
    BY <1>2, <1>4, <2>1
<1>5. ASSUME i > 0, Logged(q[i]) PROVE Cardinality(S(i)) > 0
  <2>1. i \in S(i) /\ Cardinality(S(i)) \in Nat
    BY <1>1, <1>5, FS_CardinalityType
  <2>2. Cardinality(S(i)) # 0
    BY <1>1, <2>1, FS_EmptySet
  <2>3. QED
    BY <2>1, <2>2
<1>6. QED
  BY <1>3, <1>4, <1>5 DEF LoggedIn

(* More cells do not change the count among the first ones.                  *)
LEMMA LoggedInJoined ==
    ASSUME NEW q \in Seq(Cell), NEW m \in Seq(Cell), NEW i \in Nat, i <= Len(q)
    PROVE  LoggedIn(q \o m, i) = LoggedIn(q, i)
<1>1. \A j \in 1 .. i : (q \o m)[j] = q[j]
  BY Joined
<1>2. {j \in 1 .. i : Logged((q \o m)[j])} = {j \in 1 .. i : Logged(q[j])}
  BY <1>1
<1>3. QED
  BY <1>2 DEF LoggedIn

-----------------------------------------------------------------------------
(* The invariant of the log *)

Read == Len(piped) - Len(fifo)
Over == IF reader.pc = "body" THEN Read - 1 ELSE Read

(* What is to be written is a message; what is in the pipe is the end of     *)
(* what went into it, and the reader is where a message or its text begins.  *)
WritersInv ==
    /\ writer \in [Writers -> [out : Seq(Cell), n : Nat]]
    /\ \A w \in Writers : writer[w].out = <<>> \/ Message(writer[w].out)
PipeInv ==
    /\ Messages(piped) /\ fifo \in Seq(Cell) /\ Len(fifo) <= Len(piped)
    /\ \A i \in 1 .. Len(fifo) : fifo[i] = piped[Read + i]
ReaderInv ==
    /\ reader \in [pc : {"meta", "body", "dead"}, meta : {[w |-> "none"]} \cup Cell]
    /\ reader.pc = "meta" /\ Len(fifo) > 0 => fifo[1].k = 0
    /\ reader.pc = "body" => Read > 0 /\ reader.meta = piped[Read] /\ reader.meta.k = 0 /\ reader.meta.prio # "setup"
FileInv ==
    /\ logfile \in [kind : {"Buffer", "Actual"}, lines : Seq(Seq(Cell))]
    /\ LinesAreMessages
    /\ reader.pc # "dead" =>
         /\ Len(logfile.lines) = LoggedIn(piped, Over)
         /\ \A i \in 1 .. Over : Logged(piped[i]) => logfile.lines[LoggedIn(piped, i)][1] = piped[i]
LogInv == WritersInv /\ PipeInv /\ ReaderInv /\ FileInv

(* The log begins with an empty pipe and an empty file.                      *)
LEMMA LogInitInv == LogInit => LogInv
<1> SUFFICES ASSUME LogInit PROVE LogInv
  OBVIOUS
<1>1. Len(<<>>) = 0 /\ <<>> \in Seq(Cell) /\ <<>> \in Seq(Seq(Cell))
  OBVIOUS
<1>2. WritersInv
  BY DEF LogInit, WritersInv
<1>3. PipeInv
  BY <1>1 DEF LogInit, PipeInv, Messages, Read
<1>4. ReaderInv
  BY <1>1 DEF LogInit, ReaderInv
<1>5. FileInv
  <2>1. Over = 0 /\ LoggedIn(piped, 0) = 0
    BY <1>1, LoggedInFacts DEF LogInit, Over, Read
  <2>2. QED
    BY <1>1, <2>1 DEF LogInit, FileInv, LinesAreMessages
<1>6. QED
  BY <1>2, <1>3, <1>4, <1>5 DEF LogInv

(* write_log_to_pipe: cut as it is, a message fits one write.                *)
LEMMA CellsAreMessage ==
    ASSUME NEW w \in Writers, NEW n \in Nat, NEW prio \in {"I", "F"}, NEW len \in Lengths
    PROVE  Message(Cells(w, n, prio, len))
<1> DEFINE T == Truncated(len)
           C(k) == [w |-> w, n |-> n, prio |-> prio, len |-> T, k |-> k - 1]
           q == [k \in 1 .. T + 1 |-> C(k)]
<1>1. T \in 0 .. MAX_MSG_LEN /\ T \in Nat
  BY LogAssumption DEF Truncated, MAX_MSG_LEN
<1> HIDE DEF T
<1>2. \A k \in 1 .. T + 1 : C(k) \in Cell /\ C(k) = Unit(C(1), k - 1)
  BY <1>1 DEF Cell, Unit
<1>3. C(1).len = T /\ C(1).k = 0 /\ C(1).prio # "setup"
  OBVIOUS
<1> HIDE DEF C
<1>4. q \in Seq(Cell) /\ Len(q) = T + 1 /\ \A k \in 1 .. T + 1 : q[k] = C(k)
  BY <1>1, <1>2
<1> HIDE DEF q
<1>5. Message(q)
  BY <1>1, <1>2, <1>3, <1>4 DEF Message
<1>6. q = Cells(w, n, prio, len)
  BY DEF q, C, T, Cells
<1>7. QED
  BY <1>5, <1>6

(* A thread or process has something to write.                               *)
LEMMA WritersBegin ==
    ASSUME LogInv, LLog \/ LZygiskLog \/ LZygiskClose \/ LSetup \/ LWriteFails \/ UNCHANGED logVars
    PROVE  LogInv'
<1>1. UNCHANGED <<fifo, piped, reader, logfile>>
  BY DEF LLog, LZygiskLog, LZygiskClose, LSetup, LWriteFails, logVars
<1>2. PipeInv' /\ ReaderInv' /\ FileInv'
  BY <1>1 DEF LogInv, PipeInv, ReaderInv, FileInv, Read, Over, LinesAreMessages
<1>3. ASSUME NEW w \in Writers, NEW e, e \in [out : Seq(Cell), n : Nat], e.out = <<>> \/ Message(e.out),
             writer' = [writer EXCEPT ![w] = e]
      PROVE  WritersInv'
  BY <1>3 DEF LogInv, WritersInv
<1>4. ASSUME NEW w \in Writers, NEW prio \in {"I", "F"}, NEW len \in Lengths,
             writer' = [writer EXCEPT ![w] = [out |-> Cells(w, @.n + 1, prio, len), n |-> @.n + 1]]
      PROVE  WritersInv'
  <2> DEFINE n == writer[w].n + 1
             e == [out |-> Cells(w, n, prio, len), n |-> n]
  <2>1. n \in Nat
    BY DEF LogInv, WritersInv
  <2>2. Message(Cells(w, n, prio, len))
    BY <2>1, CellsAreMessage
  <2>3. e \in [out : Seq(Cell), n : Nat] /\ e.out = Cells(w, n, prio, len)
    BY <2>1, <2>2 DEF Message
  <2>4. writer' = [writer EXCEPT ![w] = e]
    BY <1>4 DEF LogInv, WritersInv
  <2> HIDE DEF e
  <2>5. QED
    BY <1>3, <2>2, <2>3, <2>4
<1>5. ASSUME NEW w \in Writers, NEW q, q = <<>> \/ Message(q), q \in Seq(Cell), writer' = [writer EXCEPT ![w].out = q]
      PROVE  WritersInv'
  <2> DEFINE e == [writer[w] EXCEPT !.out = q]
  <2>1. e \in [out : Seq(Cell), n : Nat] /\ e.out = q
    BY <1>5 DEF LogInv, WritersInv
  <2>2. writer' = [writer EXCEPT ![w] = e]
    BY <1>5 DEF LogInv, WritersInv
  <2> HIDE DEF e
  <2>3. QED
    BY <1>3, <1>5, <2>1, <2>2
<1>6. CASE LLog \/ LZygiskLog
  BY <1>2, <1>4, <1>6 DEF LLog, LZygiskLog, Writers, LogInv
<1>7. CASE LSetup
  <2>1. PICK w \in Daemon :
          writer' = [writer EXCEPT ![w].out = <<[w |-> w, n |-> 0, prio |-> "setup", len |-> 0, k |-> 0]>>]
    BY <1>7 DEF LSetup
  <2> DEFINE c == [w |-> w, n |-> 0, prio |-> "setup", len |-> 0, k |-> 0]
  <2>2. c \in Cell /\ c.k = 0 /\ c.len = 0 /\ c = Unit(c, 0)
    BY LogAssumption DEF Cell, Writers, MAX_MSG_LEN, Unit
  <2> HIDE DEF c
  <2>3. <<c>> \in Seq(Cell) /\ Len(<<c>>) = 1 /\ <<c>>[1] = c
    BY <2>2
  <2>4. Message(<<c>>)
    BY <2>2, <2>3 DEF Message
  <2>5. QED
    BY <1>2, <1>5, <2>1, <2>3, <2>4 DEF c, Writers, LogInv
<1>8. CASE LWriteFails
  <2>1. PICK w \in Writers : writer' = [writer EXCEPT ![w].out = <<>>]
    BY <1>8 DEF LWriteFails, Writers
  <2>2. <<>> \in Seq(Cell)
    OBVIOUS
  <2>3. WritersInv'
    BY <1>5, <2>1, <2>2
  <2>4. QED
    BY <1>2, <2>3 DEF LogInv
<1>9. CASE LZygiskClose \/ UNCHANGED logVars
  BY <1>2, <1>9 DEF LZygiskClose, logVars, LogInv, WritersInv
<1>10. QED
  BY <1>6, <1>7, <1>8, <1>9

(* One write puts a whole message behind the others.                         *)
LEMMA WriteKeeps ==
    ASSUME LogInv, LWrite
    PROVE  LogInv'
<1>1. PICK w \in Writers :
        LET out == writer[w].out
            size == IF Len(out) <= PIPE_BUF THEN Len(out) ELSE 1 IN
        /\ out # <<>> /\ fifo' = fifo \o SubSeq(out, 1, size) /\ piped' = piped \o SubSeq(out, 1, size)
        /\ writer' = [writer EXCEPT ![w].out = SubSeq(out, size + 1, Len(out))]
        /\ UNCHANGED <<reader, logfile>>
  BY DEF LWrite
<1> DEFINE out == writer[w].out
<1>2. Message(out) /\ out \in Seq(Cell) /\ Len(out) \in Nat /\ Len(out) > 0
  BY <1>1 DEF LogInv, WritersInv, Message
<1>3. Len(out) <= PIPE_BUF
  <2>1. out[1] \in Cell /\ Len(out) = out[1].len + 1
    BY <1>2 DEF Message
  <2>2. out[1].len \in Nat /\ out[1].len <= MAX_MSG_LEN /\ MAX_MSG_LEN \in Nat
    BY <2>1, CellFacts
  <2>3. QED
    BY <2>1, <2>2, LogAssumption DEF MAX_MSG_LEN
<1>4. SubSeq(out, 1, Len(out)) = out /\ SubSeq(out, Len(out) + 1, Len(out)) = <<>>
  BY <1>2
<1>5. /\ fifo' = fifo \o out /\ piped' = piped \o out /\ writer' = [writer EXCEPT ![w].out = <<>>]
      /\ UNCHANGED <<reader, logfile>>
  BY <1>1, <1>3, <1>4
<1>6. WritersInv'
  <2>1. <<>> \in Seq(Cell)
    OBVIOUS
  <2>2. QED
    BY <1>5, <2>1 DEF LogInv, WritersInv
<1> HIDE DEF out
<1>7. fifo \in Seq(Cell) /\ piped \in Seq(Cell) /\ Len(fifo) \in Nat /\ Len(piped) \in Nat /\ Len(fifo) <= Len(piped)
  BY DEF LogInv, PipeInv, Messages
<1>8. /\ fifo' \in Seq(Cell) /\ Len(fifo') = Len(fifo) + Len(out)
      /\ \A i \in 1 .. Len(fifo) : fifo'[i] = fifo[i]
      /\ \A i \in 1 .. Len(out) : fifo'[Len(fifo) + i] = out[i]
  BY <1>2, <1>5, <1>7, Joined
<1>9. /\ piped' \in Seq(Cell) /\ Len(piped') = Len(piped) + Len(out)
      /\ \A i \in 1 .. Len(piped) : piped'[i] = piped[i]
      /\ \A i \in 1 .. Len(out) : piped'[Len(piped) + i] = out[i]
  BY <1>2, <1>5, <1>7, Joined
<1>10. Read' = Read /\ Over' = Over /\ Read \in Nat /\ Read <= Len(piped) /\ Read = Len(piped) - Len(fifo)
  BY <1>2, <1>5, <1>7, <1>8, <1>9 DEF Read, Over
<1>11. PipeInv'
  <2>1. Messages(piped')
    BY <1>2, <1>5, MessagesGrow DEF LogInv, PipeInv
  <2>2. ASSUME NEW i \in 1 .. Len(fifo') PROVE fifo'[i] = piped'[Read + i]
    <3>1. CASE i <= Len(fifo)
      <4>1. i \in 1 .. Len(fifo) /\ Read + i \in 1 .. Len(piped)
        BY <1>7, <1>8, <1>10, <3>1
      <4>2. fifo[i] = piped[Read + i]
        BY <4>1 DEF LogInv, PipeInv
      <4>3. QED
        BY <1>8, <1>9, <4>1, <4>2
    <3>2. CASE i > Len(fifo)
      <4> DEFINE j == i - Len(fifo)
      <4>1. j \in 1 .. Len(out) /\ i = Len(fifo) + j /\ Read + i = Len(piped) + j
        BY <1>2, <1>7, <1>8, <1>10, <3>2
      <4> HIDE DEF j
      <4>2. QED
        BY <1>8, <1>9, <4>1
    <3>3. QED
      BY <1>7, <1>8, <3>1, <3>2
  <2>3. Len(fifo') <= Len(piped')
    BY <1>2, <1>7, <1>8, <1>9
  <2>4. QED
    BY <1>8, <1>10, <2>1, <2>2, <2>3 DEF PipeInv
<1>12. ReaderInv'
  <2>1. ASSUME reader.pc = "meta" PROVE fifo'[1].k = 0
    <3>1. CASE Len(fifo) > 0
      BY <1>7, <1>8, <2>1, <3>1 DEF LogInv, ReaderInv
    <3>2. CASE Len(fifo) = 0
      <4>1. fifo'[1] = out[1]
        BY <1>2, <1>8, <3>2
      <4>2. QED
        BY <1>2, <4>1 DEF Message
    <3>3. QED
      BY <1>7, <3>1, <3>2
  <2>2. ASSUME reader.pc = "body" PROVE piped'[Read] = piped[Read]
    <3>1. Read \in 1 .. Len(piped)
      BY <1>10, <2>2 DEF LogInv, ReaderInv
    <3>2. QED
      BY <1>9, <3>1
  <2>3. QED
    BY <1>5, <1>10, <2>1, <2>2 DEF LogInv, ReaderInv
<1>13. FileInv'
  <2>1. reader.pc # "dead" => Over \in Nat /\ Over <= Len(piped)
    BY <1>7, <1>10 DEF Over, LogInv, ReaderInv
  <2>2. ASSUME NEW i \in Nat, i <= Len(piped) PROVE LoggedIn(piped', i) = LoggedIn(piped, i)
    BY <1>2, <1>5, <1>7, <2>2, LoggedInJoined
  <2>3. ASSUME reader.pc # "dead", NEW i \in 1 .. Over
        PROVE  piped'[i] = piped[i] /\ LoggedIn(piped', i) = LoggedIn(piped, i)
    BY <1>7, <1>9, <2>1, <2>2, <2>3
  <2>4. reader.pc # "dead" => LoggedIn(piped', Over) = LoggedIn(piped, Over)
    BY <2>1, <2>2
  <2>5. QED
    BY <1>5, <1>10, <2>3, <2>4 DEF LogInv, FileInv, LinesAreMessages
<1>14. QED
  BY <1>6, <1>11, <1>12, <1>13 DEF LogInv

(* A read takes cells from the front.                                        *)
LEMMA ReadTakes ==
    ASSUME PipeInv, NEW n \in Nat, n <= Len(fifo), fifo' = SubSeq(fifo, n + 1, Len(fifo)), piped' = piped
    PROVE  /\ PipeInv' /\ Read' = Read + n /\ Read \in Nat /\ Read + Len(fifo) = Len(piped) /\ Len(fifo) \in Nat
           /\ Len(fifo') = Len(fifo) - n /\ \A i \in 1 .. Len(fifo') : fifo'[i] = piped[Read + n + i]
<1>1. fifo \in Seq(Cell) /\ Len(fifo) \in Nat /\ Len(piped) \in Nat /\ Len(fifo) <= Len(piped)
  BY DEF PipeInv, Messages
<1>2. /\ fifo' \in Seq(Cell) /\ Len(fifo') = Len(fifo) - n
      /\ \A i \in 1 .. Len(fifo) - n : fifo'[i] = fifo[n + i]
  BY <1>1
<1>3. Read' = Read + n /\ Read \in Nat /\ Read + Len(fifo) = Len(piped)
  <2> DEFINE a == Len(piped)
             b == Len(fifo)
  <2>1. Read = a - b /\ Read' = a - Len(fifo')
    BY DEF Read
  <2>2. Len(fifo') = b - n /\ a \in Nat /\ b \in Nat /\ b <= a
    BY <1>1, <1>2
  <2> HIDE DEF a, b
  <2>3. a - (b - n) = (a - b) + n /\ a - b \in Nat /\ (a - b) + b = a
    BY <2>2
  <2>4. Read' = Read + n /\ Read \in Nat /\ Read + b = a
    BY <2>1, <2>2, <2>3, Zenon
  <2>5. QED
    BY <2>4 DEF a, b
<1>4. ASSUME NEW i \in 1 .. Len(fifo') PROVE fifo'[i] = piped[Read + n + i]
  <2>1. n + i \in 1 .. Len(fifo) /\ Read + (n + i) = Read + n + i /\ i \in 1 .. Len(fifo) - n
    BY <1>1, <1>2, <1>3
  <2>2. fifo[n + i] = piped[Read + (n + i)]
    BY <2>1 DEF PipeInv
  <2>3. QED
    BY <1>2, <2>1, <2>2
<1>5. PipeInv'
  <2>1. Len(fifo') <= Len(piped')
    BY <1>1, <1>2
  <2>2. Messages(piped')
    BY DEF PipeInv
  <2>3. \A i \in 1 .. Len(fifo') : fifo'[i] = piped'[Read' + i]
    BY <1>3, <1>4
  <2>4. QED
    BY <1>2, <2>1, <2>2, <2>3 DEF PipeInv
<1>6. QED
  BY <1>1, <1>2, <1>3, <1>4, <1>5

(* Reading a header keeps the invariant: it is one.                          *)
LEMMA MetaKeeps ==
    ASSUME LogInv, RMeta
    PROVE  LogInv'
<1> DEFINE c == Head(fifo)
           r == Read + 1
<1>1. fifo \in Seq(Cell) /\ fifo # <<>> /\ Len(fifo) \in Nat /\ Len(fifo) > 0 /\ reader.pc = "meta"
      /\ UNCHANGED <<piped, writer>>
  BY DEF LogInv, PipeInv, RMeta
<1>2. c \in Cell /\ c = fifo[1] /\ c.k = 0
  BY <1>1 DEF LogInv, ReaderInv
<1>3. fifo' = SubSeq(fifo, 1 + 1, Len(fifo))
  BY <1>1 DEF RMeta
<1>4. /\ PipeInv' /\ Read' = r /\ Read \in Nat /\ Read + Len(fifo) = Len(piped)
      /\ Len(fifo') = Len(fifo) - 1 /\ \A i \in 1 .. Len(fifo') : fifo'[i] = piped[r + i]
  <2>1. PipeInv /\ 1 \in Nat /\ 1 <= Len(fifo) /\ piped' = piped
    BY <1>1 DEF LogInv
  <2>2. QED
    BY <1>3, <2>1, ReadTakes
<1>5. r \in 1 .. Len(piped) /\ c = piped[r]
  <2>1. fifo[1] = piped[Read + 1]
    BY <1>1 DEF LogInv, PipeInv
  <2>2. QED
    BY <1>1, <1>2, <1>4, <2>1
<1>6. MetaAt(piped, r)
  BY <1>2, <1>5 DEF LogInv, PipeInv, Messages
<1>7. WritersInv'
  BY <1>1 DEF LogInv, WritersInv
<1>8. Over = Read
  BY <1>1 DEF Over
<1>9. CASE c.prio = "setup"
  <2>1. logfile' = ActualFile /\ UNCHANGED reader
    BY <1>2, <1>9 DEF RMeta, AsMeta
  <2>2. logfile' \in [kind : {"Buffer", "Actual"}, lines : Seq(Seq(Cell))] /\ logfile'.lines = logfile.lines
    BY <2>1 DEF LogInv, FileInv, ActualFile
  <2>3. Over' = r
    BY <1>1, <1>4, <2>1 DEF Over
  <2>4. Len(fifo') > 0 => fifo'[1].k = 0
    <3> SUFFICES ASSUME Len(fifo') > 0 PROVE fifo'[1].k = 0
      OBVIOUS
    <3>1. c.len = 0 /\ (r + 0 < Len(piped) => piped[r + 0 + 1].k = 0)
      BY <1>5, <1>6, <1>9 DEF MetaAt
    <3>2. r < Len(piped) /\ r + 0 = r
      BY <1>1, <1>4
    <3>3. fifo'[1] = piped[r + 1]
      BY <1>1, <1>4
    <3>4. QED
      BY <3>1, <3>2, <3>3
  <2>5. ReaderInv'
    BY <1>1, <2>1, <2>4 DEF LogInv, ReaderInv
  <2>6. ~Logged(piped[r]) /\ LoggedIn(piped, r) = LoggedIn(piped, Read)
    <3>1. ~Logged(piped[r])
      BY <1>5, <1>9 DEF Logged, Supported
    <3>2. QED
      BY <1>4, <3>1, LoggedInFacts
  <2>7. ASSUME NEW i \in 1 .. r, Logged(piped[i]) PROVE i \in 1 .. Read
    BY <1>4, <2>6, <2>7
  <2>8. FileInv'
    BY <1>1, <1>8, <2>1, <2>2, <2>3, <2>6, <2>7 DEF LogInv, FileInv, LinesAreMessages
  <2>9. QED
    BY <1>4, <1>7, <2>5, <2>8 DEF LogInv
<1>10. CASE c.prio # "setup"
  <2>1. c.len \in Nat /\ c.len <= MAX_MSG_LEN /\ MAX_MSG_LEN \in Nat
    BY <1>2, CellFacts
  <2>2. UNCHANGED logfile /\ reader' = [pc |-> "body", meta |-> c]
    BY <1>2, <1>10, <2>1 DEF RMeta, AsMeta
  <2>3. reader'.pc = "body" /\ reader'.meta = c
    BY <2>2
  <2>4. Over' = Over
    BY <1>4, <1>8, <2>3 DEF Over
  <2>5. ReaderInv'
    BY <1>1, <1>2, <1>4, <1>5, <1>10, <2>2, <2>3 DEF ReaderInv
  <2>6. FileInv'
    BY <1>1, <2>2, <2>3, <2>4 DEF LogInv, FileInv, LinesAreMessages
  <2>7. QED
    BY <1>4, <1>7, <2>5, <2>6 DEF LogInv
<1>11. QED
  BY <1>9, <1>10

(* The thread that ends because it has no file writes no line.               *)
LEMMA FileFailsKeeps ==
    ASSUME LogInv, RFileFails
    PROVE  LogInv'
<1>1. /\ fifo \in Seq(Cell) /\ fifo # <<>> /\ Len(fifo) \in Nat /\ Len(fifo) > 0
      /\ UNCHANGED <<piped, writer, logfile>> /\ reader' = [reader EXCEPT !.pc = "dead"]
  BY DEF LogInv, PipeInv, RFileFails, Stop
<1>2. fifo' = SubSeq(fifo, 1 + 1, Len(fifo))
  BY <1>1 DEF RFileFails
<1>3. PipeInv'
  <2>1. PipeInv /\ 1 \in Nat /\ 1 <= Len(fifo) /\ piped' = piped
    BY <1>1 DEF LogInv
  <2>2. QED
    BY <1>2, <2>1, ReadTakes
<1>4. ReaderInv' /\ reader'.pc = "dead"
  BY <1>1 DEF LogInv, ReaderInv
<1>5. QED
  BY <1>1, <1>3, <1>4 DEF LogInv, WritersInv, FileInv, LinesAreMessages

(* The text of a message, as it was written, becomes its line.               *)
LEMMA BodyKeeps ==
    ASSUME LogInv, RBody
    PROVE  LogInv'
<1> DEFINE c == reader.meta
           l == c.len
           text == SubSeq(fifo, 1, l)
           line == <<c>> \o text
<1>1. /\ reader.pc = "body" /\ Len(fifo) >= l /\ fifo' = SubSeq(fifo, l + 1, Len(fifo))
      /\ logfile' = (IF c.prio \in Supported THEN [logfile EXCEPT !.lines = Append(@, line)] ELSE logfile)
      /\ reader' = [reader EXCEPT !.pc = "meta"] /\ UNCHANGED <<piped, writer>>
  BY DEF RBody, AfterUnsupported
<1>2. fifo \in Seq(Cell) /\ piped \in Seq(Cell) /\ Len(fifo) \in Nat /\ Len(piped) \in Nat /\ Len(fifo) <= Len(piped)
  BY DEF LogInv, PipeInv, Messages
<1>3. Read > 0 /\ Read = Len(piped) - Len(fifo) /\ c = piped[Read] /\ c.k = 0 /\ c.prio # "setup"
  BY <1>1 DEF LogInv, ReaderInv, Read
<1>4. Read \in 1 .. Len(piped) /\ Read - 1 \in Nat /\ Read - 1 + 1 = Read /\ Over = Read - 1
  BY <1>1, <1>2, <1>3, SMTT(30) DEF Over
<1>5. c \in Cell /\ l \in Nat
  <2>1. c \in Cell
    BY <1>2, <1>3, <1>4
  <2>2. QED
    BY <2>1, CellFacts
<1>6. MetaAt(piped, Read)
  BY <1>3, <1>4 DEF LogInv, PipeInv, Messages
<1>7. /\ \A j \in 1 .. l : piped[Read + j] = Unit(c, j)
      /\ Read + l < Len(piped) => piped[Read + l + 1].k = 0
  BY <1>3, <1>6 DEF MetaAt
<1> HIDE DEF l
<1>8. /\ PipeInv' /\ Read' = Read + l /\ Read + Len(fifo) = Len(piped)
      /\ Len(fifo') = Len(fifo) - l /\ \A i \in 1 .. Len(fifo') : fifo'[i] = piped[Read + l + i]
  <2>1. PipeInv /\ l <= Len(fifo) /\ piped' = piped
    BY <1>1, <1>2, <1>5 DEF LogInv
  <2>2. QED
    BY <1>1, <1>5, <2>1, ReadTakes
<1>9. WritersInv'
  BY <1>1 DEF LogInv, WritersInv
<1>10. reader'.pc = "meta" /\ reader' \in [pc : {"meta", "body", "dead"}, meta : {[w |-> "none"]} \cup Cell]
  BY <1>1 DEF LogInv, ReaderInv
<1>11. ReaderInv'
  <2>1. ASSUME Len(fifo') > 0 PROVE fifo'[1].k = 0
    <3>1. Read + l < Len(piped)
      BY <1>2, <1>3, <1>5, <1>8, <2>1
    <3>2. 1 \in 1 .. Len(fifo')
      BY <1>2, <1>5, <1>8, <2>1
    <3>3. fifo'[1] = piped[Read + l + 1]
      BY <1>8, <3>2
    <3>4. QED
      BY <1>7, <3>1, <3>3
  <2>2. QED
    BY <1>10, <2>1 DEF ReaderInv
<1>12. text \in Seq(Cell) /\ Len(text) = l /\ \A j \in 1 .. l : text[j] = Unit(c, j)
  <2>1. text \in Seq(Cell) /\ Len(text) = l /\ \A j \in 1 .. l : text[j] = fifo[j]
    BY <1>1, <1>2, <1>5
  <2>2. \A j \in 1 .. l : fifo[j] = piped[Read + j]
    BY <1>1, <1>2, <1>5 DEF LogInv, PipeInv
  <2>3. QED
    BY <1>7, <2>1, <2>2
<1>13. line \in Seq(Cell) /\ WholeMessage(line) /\ line[1] = c
  <2> HIDE DEF text, c
  <2>1. <<c>> \in Seq(Cell) /\ Len(<<c>>) = 1 /\ <<c>>[1] = c
    BY <1>5
  <2>2. /\ line \in Seq(Cell) /\ Len(line) = 1 + l /\ line[1] = c
        /\ \A j \in 1 .. l : line[1 + j] = text[j]
    BY <1>12, <2>1, Joined
  <2> HIDE DEF line
  <2>3. ASSUME NEW i \in 1 .. Len(line) PROVE line[i] = Unit(line[1], i - 1)
    <3>1. CASE i = 1
      <4>1. i - 1 = 0 /\ 0 \in Nat
        BY <3>1
      <4>2. Unit(c, 0) = c
        BY <1>3, <1>5, <4>1, UnitFacts
      <4>3. QED
        BY <2>2, <3>1, <4>1, <4>2
    <3>2. CASE i # 1
      <4>1. i - 1 \in 1 .. l /\ 1 + (i - 1) = i
        BY <1>5, <2>2, <3>2
      <4>2. QED
        BY <1>12, <2>2, <4>1
    <3>3. QED
      BY <3>1, <3>2
  <2>4. Len(line) = line[1].len + 1
    BY <1>5, <2>2 DEF l
  <2>5. QED
    BY <2>2, <2>3, <2>4 DEF WholeMessage, Unit
<1> HIDE DEF line, c
<1>14. FileInv'
  <2> DEFINE lines == logfile.lines
             old == LoggedIn(piped, Read - 1)
  <2>1. /\ logfile \in [kind : {"Buffer", "Actual"}, lines : Seq(Seq(Cell))] /\ lines \in Seq(Seq(Cell))
        /\ \A i \in 1 .. Len(lines) : WholeMessage(lines[i])
        /\ Len(lines) = old
        /\ \A i \in 1 .. Read - 1 : Logged(piped[i]) => lines[LoggedIn(piped, i)][1] = piped[i]
    BY <1>1, <1>4 DEF LogInv, FileInv, LinesAreMessages
  <2>2. Over' = Read + l
    BY <1>8, <1>10 DEF Over
  <2>3. ASSUME NEW i \in Read + 1 .. Read + l PROVE ~Logged(piped[i])
    <3>1. i - Read \in 1 .. l /\ Read + (i - Read) = i /\ i - Read \in Nat /\ i - Read # 0
      BY <1>4, <1>5
    <3>2. piped[i] = Unit(c, i - Read)
      BY <1>7, <3>1
    <3>3. Unit(c, i - Read).k = i - Read
      BY <1>5, <3>1, UnitFacts
    <3>4. QED
      BY <3>1, <3>2, <3>3 DEF Logged
  <2>4. LoggedIn(piped, Read + l) = LoggedIn(piped, Read)
    <3>1. Read \in Nat /\ Read + l \in Nat /\ Read <= Read + l
      BY <1>4, <1>5
    <3>2. QED
      BY <2>3, <3>1, LoggedInGrows
  <2>5. ASSUME NEW i \in 1 .. Read - 1, Logged(piped[i]) PROVE LoggedIn(piped, i) \in 1 .. Len(lines)
    <3>1. i \in Nat /\ i <= Read - 1 /\ i > 0
      BY <1>4
    <3>2. LoggedIn(piped, i) <= old /\ LoggedIn(piped, i) > 0 /\ LoggedIn(piped, i) \in Nat /\ old \in Nat
      BY <1>4, <2>5, <3>1, LoggedInGrows, LoggedInFacts
    <3>3. QED
      BY <2>1, <3>2
  <2>6. ASSUME NEW i \in 1 .. Read + l, Logged(piped[i]) PROVE i \in 1 .. Read - 1 \/ i = Read
    BY <1>4, <1>5, <2>3, <2>6
  <2>7. CASE c.prio \in Supported
    <3>1. Logged(piped[Read])
      BY <1>3, <2>7 DEF Logged
    <3>2. LoggedIn(piped, Read) = old + 1
      BY <1>4, <3>1, LoggedInFacts
    <3>3. logfile' = [logfile EXCEPT !.lines = Append(lines, line)]
      BY <1>1, <2>7
    <3>4. logfile'.lines = Append(lines, line) /\ logfile' \in [kind : {"Buffer", "Actual"}, lines : Seq(Seq(Cell))]
      <4>1. Append(lines, line) \in Seq(Seq(Cell))
        BY <1>13, <2>1
      <4> HIDE DEF lines
      <4>2. QED
        BY <2>1, <3>3, <4>1
    <3>5. /\ Len(logfile'.lines) = Len(lines) + 1 /\ logfile'.lines[Len(lines) + 1] = line
          /\ \A i \in 1 .. Len(lines) : logfile'.lines[i] = lines[i]
      BY <1>13, <2>1, <3>4
    <3>6. Len(lines) \in Nat
      BY <2>1
    <3> HIDE DEF lines, old
    <3>7. \A i \in 1 .. Len(logfile'.lines) : WholeMessage(logfile'.lines[i])
      <4>1. ASSUME NEW i \in 1 .. Len(lines) + 1 PROVE WholeMessage(logfile'.lines[i])
        <5>1. CASE i = Len(lines) + 1
          BY <1>13, <3>5, <5>1
        <5>2. CASE i \in 1 .. Len(lines)
          BY <2>1, <3>5, <5>2
        <5>3. QED
          BY <3>6, <5>1, <5>2
      <4>2. QED
        BY <3>5, <4>1
    <3>8. ASSUME NEW i \in 1 .. Read + l, Logged(piped[i])
          PROVE  logfile'.lines[LoggedIn(piped, i)][1] = piped[i]
      <4>1. CASE i = Read
        BY <1>3, <1>13, <2>1, <3>2, <3>5, <4>1
      <4>2. CASE i \in 1 .. Read - 1
        BY <2>1, <2>5, <3>5, <3>8, <4>2
      <4>3. QED
        BY <2>6, <3>8, <4>1, <4>2
    <3>9. Len(logfile'.lines) = LoggedIn(piped, Read + l)
      BY <2>1, <2>4, <3>2, <3>5
    <3>10. LinesAreMessages'
      BY <3>7 DEF LinesAreMessages
    <3>11. QED
      BY <1>1, <2>2, <3>4, <3>8, <3>9, <3>10 DEF FileInv
  <2>8. CASE c.prio \notin Supported
    <3>1. ~Logged(piped[Read])
      BY <1>3, <2>8 DEF Logged
    <3>2. LoggedIn(piped, Read) = old
      BY <1>4, <3>1, LoggedInFacts
    <3>3. logfile' = logfile
      BY <1>1, <2>8
    <3>4. \A i \in 1 .. Read + l : Logged(piped[i]) => i \in 1 .. Read - 1
      BY <2>6, <3>1
    <3>5. QED
      BY <1>1, <2>1, <2>2, <2>4, <3>2, <3>3, <3>4 DEF FileInv, LinesAreMessages
  <2>9. QED
    BY <2>7, <2>8
<1>15. QED
  BY <1>8, <1>9, <1>11, <1>14 DEF LogInv

(* Every step of the writers and of the reading thread keeps the invariant.  *)
LEMMA LogStep == LogInv /\ [LogNext]_logVars => LogInv'
  BY WritersBegin, WriteKeeps, MetaKeeps, FileFailsKeeps, BodyKeeps DEF LogNext

(* logfile_write_loop (logging.rs): whatever the threads and processes that  *)
(* write at once, the lines of the log are whole messages, and they are the  *)
(* supported ones that went into the pipe, in order, less what is under way. *)
THEOREM LogAlwaysFaithful == LogSpec => []LogIsFaithful
<1>1. LogInv => LogIsFaithful
  <2> SUFFICES ASSUME LogInv PROVE LogIsFaithful
    OBVIOUS
  <2>1. fifo = SubSeq(piped, Read + 1, Len(piped))
    <3>1. fifo \in Seq(Cell) /\ piped \in Seq(Cell) /\ Len(fifo) \in Nat /\ Len(piped) \in Nat /\ Len(fifo) <= Len(piped)
      BY DEF LogInv, PipeInv, Messages
    <3>2. Read \in Nat /\ Len(piped) - Read = Len(fifo)
      BY <3>1 DEF Read
    <3> DEFINE q == SubSeq(piped, Read + 1, Len(piped))
    <3>3. q \in Seq(Cell) /\ Len(q) = Len(piped) - Read /\ \A i \in 1 .. Len(piped) - Read : q[i] = piped[Read + i]
      BY <3>1, <3>2
    <3> HIDE DEF q
    <3>4. Len(q) = Len(fifo) /\ \A i \in 1 .. Len(fifo) : q[i] = fifo[i]
      BY <3>2, <3>3 DEF LogInv, PipeInv
    <3>5. q = fifo
      BY <3>1, <3>3, <3>4
    <3>6. QED
      BY <3>5 DEF q
  <2>2. LogKeepsEverything
    BY <2>1 DEF LogInv, ReaderInv, FileInv, LogKeepsEverything, Read, Over
  <2>3. QED
    BY <2>2 DEF LogInv, FileInv, LogIsFaithful
<1>2. QED
  BY <1>1, LogInitInv, LogStep, PTL DEF LogSpec
=============================================================================
