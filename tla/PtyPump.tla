------------------------------ MODULE PtyPump ------------------------------
(***************************************************************************)
(* The pump of an interactive su session (core/su/pts.rs): bytes from the  *)
(* terminal go to the pty, bytes from the pty to stdout, both through one  *)
(* pipe with splice, or by copying once splice failed.  Bytes are numbered *)
(* as they are written.                                                    *)
(***************************************************************************)
EXTENDS Integers, Sequences

CONSTANTS MaxBytes,   \* bound on what each side writes
          SpliceSize, \* what one splice takes: 65536, or all the terminal has buffered
          CopySize,   \* the buffer of pump_via_copy
          ShortSplice \* whether the second splice may take less than is there

ASSUME PtyAssumption == {MaxBytes, SpliceSize, CopySize} \subseteq Nat \ {0} /\ ShortSplice \in BOOLEAN

VARIABLES pending, \* what is to be read: from "stdin" and from "ptmx"
          written, \* how many bytes each side has written
          arrived, \* what arrived from each
          pipe,    \* [from, n] of the bytes in the pipe
          splice,  \* SHOULD_USE_SPLICE
          hup,     \* the sides that hung up
          winch,   \* a SIGWINCH is pending in signal_fd
          term,    \* the mode of the terminal: "cooked" or "raw"
          watched, \* the sides in poll_fds
          ppc      \* "setup", "poll", "done"

ptyVars == <<pending, written, arrived, pipe, splice, hup, winch, term, watched, ppc>>

Sides == {"stdin", "ptmx"}
Least(a, b) == IF a < b THEN a ELSE b
FirstN(s, n) == SubSeq(s, 1, Least(n, Len(s)))
AfterN(s, n) == SubSeq(s, Least(n, Len(s)) + 1, Len(s))

\* pump_tty: raw mode first (which may fail), if stdin is a terminal to pump.
PSetup ==
  /\ ppc = "setup" /\ ppc' = "poll"
  /\ \/ watched' = Sides /\ term' \in {"raw", "cooked"}
     \/ watched' = {"ptmx"} /\ UNCHANGED term
  /\ UNCHANGED <<pending, written, arrived, pipe, splice, hup, winch>>

\* The user types, the shell prints; the shell exits or the terminal goes away.
PWrite ==
  \E s \in Sides :
    /\ s \notin hup /\ written[s] < MaxBytes
    /\ written' = [written EXCEPT ![s] = @ + 1]
    /\ pending' = [pending EXCEPT ![s] = Append(@, [from |-> s, n |-> written[s] + 1])]
    /\ UNCHANGED <<arrived, pipe, splice, hup, winch, term, watched, ppc>>

PHangup ==
  /\ \E s \in Sides \ hup : hup' = hup \cup {s}
  /\ UNCHANGED <<pending, written, arrived, pipe, splice, winch, term, watched, ppc>>

PResize ==
  /\ ~winch /\ winch' = TRUE
  /\ UNCHANGED <<pending, written, arrived, pipe, splice, hup, term, watched, ppc>>

-----------------------------------------------------------------------------
(* pump_via_splice and pump_via_copy, from s to the other side *)

PCopy(s) ==
  /\ arrived' = [arrived EXCEPT ![s] = @ \o FirstN(pending[s], CopySize)]
  /\ pending' = [pending EXCEPT ![s] = AfterN(@, CopySize)]
  /\ UNCHANGED pipe

\* Both splices; the second takes what the first put in, or less.
PSplice(s) ==
  LET took == FirstN(pending[s], SpliceSize)
      full == pipe \o took IN
  \E n \in IF ShortSplice THEN 1 .. Len(took) ELSE {Len(took)} :
    /\ arrived' = [arrived EXCEPT ![s] = @ \o FirstN(full, n)]
    /\ pipe' = AfterN(full, n)
    /\ pending' = [pending EXCEPT ![s] = AfterN(@, SpliceSize)]

\* Mutant of PSpliceFails: the copy that takes over reads from the source again.
PSpliceFails_FromSource(s) ==
  LET took == FirstN(pending[s], SpliceSize) IN
  /\ arrived' = [arrived EXCEPT ![s] = @ \o FirstN(AfterN(pending[s], SpliceSize), CopySize)]
  /\ pipe' = pipe \o took
  /\ pending' = [pending EXCEPT ![s] = AfterN(AfterN(@, SpliceSize), CopySize)]

\* The second splice fails: copy from the pipe.
PSpliceFails(s) ==
  LET full == pipe \o FirstN(pending[s], SpliceSize) IN
  /\ arrived' = [arrived EXCEPT ![s] = @ \o FirstN(full, CopySize)]
  /\ pipe' = AfterN(full, CopySize)
  /\ pending' = [pending EXCEPT ![s] = AfterN(@, SpliceSize)]

PPump(s) ==
  \/ splice /\ PSplice(s) /\ UNCHANGED splice
  \/ splice /\ PSpliceFails(s) /\ splice' = FALSE
  \/ PCopy(s) /\ splice' = FALSE

-----------------------------------------------------------------------------
(* The poll loop *)

Readable(s) == pending[s] # <<>>

\* Stop polling on a hangup only when there is nothing to read.
MayStop(s) == s \in hup /\ ~Readable(s)

PPoll ==
  /\ ppc = "poll" /\ \E s \in watched : Readable(s) /\ PPump(s)
  /\ UNCHANGED <<written, hup, winch, term, watched, ppc>>

PSyncWinsize ==
  /\ ppc = "poll" /\ winch /\ watched = Sides
  /\ winch' = FALSE
  /\ UNCHANGED <<pending, written, arrived, pipe, splice, hup, term, watched, ppc>>

\* The loop ends, or writing to a terminal that went away fails; the terminal
\* is as before.
PStop ==
  /\ ppc = "poll" /\ ((\E s \in watched : MayStop(s)) \/ (Readable("ptmx") /\ "stdin" \in hup))
  /\ ppc' = "done" /\ term' = "cooked"
  /\ UNCHANGED <<pending, written, arrived, pipe, splice, hup, winch, watched>>

PtyInit ==
  /\ pending = [s \in Sides |-> <<>>] /\ written = [s \in Sides |-> 0] /\ arrived = [s \in Sides |-> <<>>]
  /\ pipe = <<>> /\ splice = TRUE /\ hup = {} /\ winch = FALSE /\ term = "cooked"
  /\ watched = {} /\ ppc = "setup"

PtyNext == PSetup \/ PWrite \/ PHangup \/ PResize \/ PPoll \/ PSyncWinsize \/ PStop

PtySpec == PtyInit /\ [][PtyNext]_ptyVars

-----------------------------------------------------------------------------
(* Properties *)

\* What arrives on each side is what the other side wrote, in order, nothing
\* left out and nothing of its own coming back, also when splice gives up.
BytesGoAcross ==
  \A s \in Sides : \A i \in 1 .. Len(arrived[s]) : arrived[s][i] = [from |-> s, n |-> i]

\* When the shell is gone and the terminal is not, its last output was shown
\* before the pump ends.
LastOutputShown ==
  ppc = "done" /\ hup = {"ptmx"} => Len(arrived["ptmx"]) = written["ptmx"]

\* The relay is transparent to the end of the session (pump_tty).
RelayIsFaithful == BytesGoAcross /\ LastOutputShown
=============================================================================
