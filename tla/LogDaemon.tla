----------------------------- MODULE LogDaemon -----------------------------
(***************************************************************************)
(* The log daemon of magiskd and its writers (core/logging.rs): threads of *)
(* magiskd and zygisk processes write messages into one FIFO, a thread     *)
(* reads them into a buffer and, once setup_logfile said so, into a file.  *)
(* The FIFO is a sequence of cells: a message is one cell of LogMeta and   *)
(* one for each unit of its text.                                          *)
(***************************************************************************)
EXTENDS Integers, Sequences, FiniteSets

CONSTANTS Daemon,      \* writing threads of magiskd
          Zygisk,      \* zygisk processes
          Lengths,     \* lengths of the messages logged
          PIPE_BUF,    \* what one write puts into the pipe at once, in cells
          PipeSize,    \* what the pipe holds
          MaxMsgs,     \* bound on messages of one writer
          MaxSetups,   \* bound on calls of setup_logfile
          MaxErrors    \* bound on failing files

ASSUME LogAssumption ==
  /\ {PIPE_BUF, PipeSize} \subseteq Nat \ {0} /\ PIPE_BUF <= PipeSize
  /\ Lengths \subseteq Nat

VARIABLES fifo,   \* cells in the pipe
          logd,   \* MAGISK_LOGD_FD is set
          zfd,    \* ZYGISK_LOGD of each zygisk process: open or not
          writer, \* [out, n]: cells still to write, messages so far
          reader, \* [pc, meta]: the daemon thread, the LogMeta it read
          logfile,\* [kind, lines]: Buffer or Actual
          piped,  \* ghost: all cells that ever entered the pipe
          setups, errors

logVars == <<fifo, logd, zfd, writer, reader, logfile, piped, setups, errors>>

Writers == Daemon \cup Zygisk
MAX_MSG_LEN == PIPE_BUF - 1

Supported == {"V", "D", "I", "W", "E"}

\* Mutant of Truncated: the message is written as it is.
Truncated_Not(len) == len

Truncated(len) == IF len < MAX_MSG_LEN THEN len ELSE MAX_MSG_LEN

\* write_log_to_pipe: LogMeta and the text, for one vectored write.
Cells(w, n, prio, len) ==
  [k \in 1 .. Truncated(len) + 1 |-> [w |-> w, n |-> n, prio |-> prio, len |-> Truncated(len), k |-> k - 1]]

-----------------------------------------------------------------------------
(* Writers *)

\* magisk_log_to_pipe, with_logd_fd: the descriptor is cloned first.
LLog ==
  /\ logd
  /\ \E w \in Daemon, prio \in {"I", "F"}, len \in Lengths :
       /\ writer[w].out = <<>> /\ writer[w].n < MaxMsgs
       /\ writer' = [writer EXCEPT ![w] = [out |-> Cells(w, @.n + 1, prio, len), n |-> @.n + 1]]
  /\ UNCHANGED <<fifo, logd, zfd, reader, logfile, piped, setups, errors>>

\* zygisk_log_to_pipe, zygisk_get_logd: open the pipe unless it is open, for both directions.
LZygiskLog ==
  \E z \in Zygisk, len \in Lengths :
    /\ writer[z].out = <<>> /\ writer[z].n < MaxMsgs
    /\ zfd' = [zfd EXCEPT ![z] = TRUE]
    /\ writer' = [writer EXCEPT ![z] = [out |-> Cells(z, @.n + 1, "I", len), n |-> @.n + 1]]
    /\ UNCHANGED <<fifo, logd, reader, logfile, piped, setups, errors>>

\* zygisk_close_logd, when zygote closes its own logging before it forks.
LZygiskClose ==
  \E z \in Zygisk :
    /\ writer[z].out = <<>> /\ zfd[z]
    /\ zfd' = [zfd EXCEPT ![z] = FALSE]
    /\ UNCHANGED <<fifo, logd, writer, reader, logfile, piped, setups, errors>>

\* setup_logfile
LSetup ==
  /\ logd /\ setups < MaxSetups
  /\ \E w \in Daemon :
       /\ writer[w].out = <<>>
       /\ writer' = [writer EXCEPT ![w].out = <<[w |-> w, n |-> 0, prio |-> "setup", len |-> 0, k |-> 0]>>]
  /\ setups' = setups + 1
  /\ UNCHANGED <<fifo, logd, zfd, reader, logfile, piped, errors>>

\* Someone has the pipe open for reading: the daemon, or a zygisk process.
HasReader == reader.pc # "dead" \/ \E z \in Zygisk : zfd[z]

\* A write: all of it when it fits PIPE_BUF, else piece by piece.
LWrite ==
  \E w \in Writers :
    LET out == writer[w].out
        size == IF Len(out) <= PIPE_BUF THEN Len(out) ELSE 1 IN
    /\ out # <<>> /\ HasReader /\ Len(fifo) + size <= PipeSize
    /\ fifo' = fifo \o SubSeq(out, 1, size)
    /\ piped' = piped \o SubSeq(out, 1, size)
    /\ writer' = [writer EXCEPT ![w].out = SubSeq(out, size + 1, Len(out))]
    /\ UNCHANGED <<logd, zfd, reader, logfile, setups, errors>>

\* Nobody reads: the write fails and the writer shuts its side of the pipe.
LWriteFails ==
  \E w \in Daemon :
    /\ writer[w].out # <<>> /\ ~HasReader
    /\ logd' = FALSE
    /\ writer' = [writer EXCEPT ![w].out = <<>>]
    /\ UNCHANGED <<fifo, zfd, reader, logfile, piped, setups, errors>>

-----------------------------------------------------------------------------
(* The daemon thread: logfile_write_loop *)

Stop == reader' = [reader EXCEPT !.pc = "dead"] /\ logd' = FALSE

\* The first time, the file gets what was buffered.
ActualFile == IF logfile.kind = "Buffer" THEN [kind |-> "Actual", lines |-> logfile.lines] ELSE logfile

\* What a cell says when it is taken for LogMeta: text may say anything.
AsMeta(cell) == IF cell.k = 0 THEN {cell} ELSE {[cell EXCEPT !.len = len] : len \in 0 .. MAX_MSG_LEN}

\* The LogMeta in front of a message.
RMeta ==
  /\ reader.pc = "meta" /\ fifo # <<>>
  /\ fifo' = Tail(fifo)
  /\ \E meta \in AsMeta(Head(fifo)) :
     IF meta.prio = "setup" THEN logfile' = ActualFile /\ UNCHANGED reader
     ELSE /\ UNCHANGED logfile
          /\ IF meta.len < 0 \/ meta.len > MAX_MSG_LEN THEN UNCHANGED reader
             ELSE reader' = [pc |-> "body", meta |-> meta]
  /\ UNCHANGED <<logd, zfd, writer, piped, setups, errors>>

\* The log file cannot be created or filled.
RFileFails ==
  /\ reader.pc = "meta" /\ fifo # <<>> /\ Head(fifo).prio = "setup" /\ logfile.kind = "Buffer"
  /\ errors < MaxErrors
  /\ errors' = errors + 1 /\ fifo' = Tail(fifo)
  /\ Stop
  /\ UNCHANGED <<zfd, writer, logfile, piped, setups>>

\* Mutant of AfterUnsupported: an unknown priority ends the thread.
AfterUnsupported_Stop == "dead"

AfterUnsupported == "meta"

\* Its text, then the line; an unsupported priority is skipped.
RBody ==
  /\ reader.pc = "body" /\ Len(fifo) >= reader.meta.len
  /\ fifo' = SubSeq(fifo, reader.meta.len + 1, Len(fifo))
  /\ LET line == <<reader.meta>> \o SubSeq(fifo, 1, reader.meta.len)
         ok == reader.meta.prio \in Supported IN
     /\ logfile' = IF ok THEN [logfile EXCEPT !.lines = Append(@, line)] ELSE logfile
     /\ reader' = [reader EXCEPT !.pc = IF ok THEN "meta" ELSE AfterUnsupported]
  /\ UNCHANGED <<logd, zfd, writer, piped, setups, errors>>

-----------------------------------------------------------------------------

\* start_log_daemon
LogInit ==
  /\ fifo = <<>> /\ logd = TRUE /\ zfd = [z \in Zygisk |-> FALSE]
  /\ writer = [w \in Writers |-> [out |-> <<>>, n |-> 0]]
  /\ reader = [pc |-> "meta", meta |-> [w |-> "none"]]
  /\ logfile = [kind |-> "Buffer", lines |-> <<>>]
  /\ piped = <<>> /\ setups = 0 /\ errors = 0

LogNext == LLog \/ LZygiskLog \/ LZygiskClose \/ LSetup \/ LWrite \/ LWriteFails \/ RMeta \/ RFileFails \/ RBody

\* The daemon thread keeps reading; a write that can go on does.
LogFairness == WF_logVars(RMeta) /\ WF_logVars(RBody) /\ SF_logVars(LWrite) /\ WF_logVars(LWriteFails)

LogSpec == LogInit /\ [][LogNext]_logVars /\ LogFairness

-----------------------------------------------------------------------------
(* Properties *)

WholeMessage(line) ==
  /\ Len(line) = line[1].len + 1
  /\ \A i \in 1 .. Len(line) : line[i] = [line[1] EXCEPT !.k = i - 1]

\* However many threads and processes write at once, a line of the log is the
\* text of one message with its own LogMeta: messages never mix in the pipe.
LinesAreMessages == \A i \in 1 .. Len(logfile.lines) : WholeMessage(logfile.lines[i])

Logged(cell) == cell.k = 0 /\ cell.prio \in Supported

\* The messages to be logged among the first i cells.
LoggedIn(cells, i) == Cardinality({j \in 1 .. i : Logged(cells[j])})

\* What was logged so far, before and after the file took over from the buffer,
\* is what entered the pipe, in order, less what is still on its way.
LogKeepsEverything ==
  LET read == Len(piped) - Len(fifo)
      over == IF reader.pc = "body" THEN read - 1 ELSE read IN
  reader.pc # "dead" =>
     /\ fifo = SubSeq(piped, read + 1, Len(piped))
     /\ reader.pc = "body" => reader.meta = piped[read]
     /\ Len(logfile.lines) = LoggedIn(piped, over)
     /\ \A i \in 1 .. over : Logged(piped[i]) => logfile.lines[LoggedIn(piped, i)][1] = piped[i]

\* As long as no file fails, a thread that logs gets on: the pipe is drained.
WritersGetOn ==
  \A w \in Writers : writer[w].out # <<>> ~> (writer[w].out = <<>> \/ errors > 0)

\* The log holds the messages that were written, whole and in order
\* (logfile_write_loop).
LogIsFaithful == LinesAreMessages /\ LogKeepsEverything
=============================================================================
