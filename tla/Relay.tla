------------------------------- MODULE Relay -------------------------------
(***************************************************************************)
(* The host programs that run the machine's tests, proj2/src/utils: the    *)
(* relay() of squish-unix.c, between standard input and output and a       *)
(* socket, and the one of squish-pty.c, which has a pseudo-terminal in its *)
(* place.  The peer behind it is the child process that both start.        *)
(***************************************************************************)
EXTENDS SequencesExt

CONSTANTS
  BufSiz,       \* BUFSIZ, the size of a pipe's buffer
  MaxRelay      \* bound: bytes that each side sends

ASSUME RelayAssumption == BufSiz \in Nat \ {0} /\ MaxRelay \in Nat

-----------------------------------------------------------------------------
(* The state r: which program, its pipes (1 from standard input to the     *)
(* peer, 2 from the peer to standard output), the bytes made by each       *)
(* source, taken by read() and written to each destination, and whether    *)
(* standard input is at its end, the peer has gone and SIGCHLD has come.   *)
(* The bytes of a source are 1, 2, 3 and so on.                            *)

NewPipe == [in |-> TRUE, out |-> TRUE, buf |-> [k \in 1..BufSiz |-> 0],
            size |-> 0, ofs |-> 0, active |-> FALSE]

\* relay() is called on a connection of squish-unix or the terminal of squish-pty.
RelayStart(program) ==
  [program |-> program, phase |-> "loop", pipes |-> <<NewPipe, NewPipe>>,
   made |-> <<0, 0>>, taken |-> <<0, 0>>, written |-> <<<<>>, <<>>>>,
   eof |-> FALSE, gone |-> FALSE, signalled |-> FALSE]

\* The other ends: they send, standard input ends, the child closes its end and dies.
PeerSteps(r) ==
  {[r EXCEPT !.made[i] = @ + 1] : i \in {i \in 1..2 : r.made[i] < MaxRelay /\ ~(<<r.eof, r.gone>>[i])}}
  \cup {[r EXCEPT !.eof = TRUE], [r EXCEPT !.gone = TRUE], [r EXCEPT !.signalled = r.gone]}

Waiting(r, i) == r.made[i] - r.taken[i]
AtEnd(r, i) == Waiting(r, i) = 0 /\ <<r.eof, r.gone>>[i]

\* The descriptors that are put into read_fds and write_fds, by their pipes.
AskRead(r) ==
  {i \in 1..2 : /\ i = 2 \/ r.pipes[2].active
                /\ r.pipes[i].in /\ r.pipes[i].size + r.pipes[i].ofs < BufSiz}
AskWrite(r) ==
  {i \in 1..2 : (i = 2 \/ r.pipes[2].active) /\ r.pipes[i].out /\ r.pipes[i].size > 0}

\* handle_error() of squish-unix: the socket's end is the end of relay().  In
\* squish-pty a descriptor that is done is set to -1.
HandleErrorUnix(r, i, end) ==
  IF (i = 1) = (end = "out") THEN [r EXCEPT !.phase = "returned"]
  ELSE [r EXCEPT !.pipes[i][end] = FALSE]
HandleErrorPty(r, i, end) == [r EXCEPT !.pipes[i][end] = FALSE]
HandleError(r, i, end) ==
  IF r.program = "unix" THEN HandleErrorUnix(r, i, end) ELSE HandleErrorPty(r, i, end)

\* n bytes come behind those in the buffer; the test that would move them down.
ReadIn(p, n, before) ==
  [p EXCEPT !.active = TRUE, !.size = @ + n,
            !.buf = [k \in 1..BufSiz |-> IF k > p.ofs + p.size /\ k <= p.ofs + p.size + n
                                         THEN before + k - p.ofs - p.size ELSE @[k]]]
MovedDown(p) ==
  IF p.size = BufSiz /\ p.ofs # 0
  THEN [p EXCEPT !.buf = [k \in 1..BufSiz |-> IF k + p.ofs <= BufSiz THEN @[k + p.ofs] ELSE @[k]], !.ofs = 0]
  ELSE p
ReadPipe(r, i) ==
  LET p == r.pipes[i]
  IN IF AtEnd(r, i) THEN {HandleError(r, i, "in")}
     ELSE {[r EXCEPT !.pipes[i] = MovedDown(ReadIn(p, n, r.taken[i])), !.taken[i] = @ + n] :
             n \in {n \in 1..Waiting(r, i) : p.ofs + p.size + n <= BufSiz}}

\* write() takes some of the bytes, or none; a socket whose peer has gone kills,
\* and a terminal whose peer has gone may give an error.
Drained(p, n) ==
  [p EXCEPT !.size = @ - n, !.ofs = IF p.size = n THEN 0 ELSE @ + n]
Wrote(r, i, n, p) ==
  [r EXCEPT !.written[i] = @ \o SubSeq(r.pipes[i].buf, r.pipes[i].ofs + 1, r.pipes[i].ofs + n),
            !.pipes[i] = p]
WritePipe(r, i) ==
  IF i = 1 /\ r.gone /\ r.program = "unix" THEN {[r EXCEPT !.phase = "failed"]}
  ELSE {Wrote(r, i, n, Drained(r.pipes[i], n)) : n \in 1..r.pipes[i].size}
       \cup {HandleError(r, i, "out") : x \in {x \in {i} : x = 2 \/ r.gone}}

\* The loop over the pipes after select().
OnPipe(S, chosen, i, Op(_, _)) ==
  UNION {IF i \in chosen /\ r.phase = "loop" THEN Op(r, i) ELSE {r} : r \in S}
LoopBody(r, reads, writes) ==
  OnPipe(OnPipe(OnPipe(OnPipe({r}, reads, 1, ReadPipe), writes, 1, WritePipe),
                reads, 2, ReadPipe), writes, 2, WritePipe)
\* select() tells what can be read, and of the outputs those that have room.
Selected(r) ==
  LET reads == {i \in AskRead(r) : Waiting(r, i) > 0 \/ AtEnd(r, i)}
  IN UNION {LoopBody(r, reads, w) : w \in {w \in SUBSET AskWrite(r) : reads \cup w # {}}}

ToFinal(r) == [r EXCEPT !.phase = IF r.pipes[2].out THEN "final" ELSE "exited"]
\* SIGCHLD ends pselect() if nothing was ready, and may if something was.
UnixLoop(r) == Selected(r) \cup (IF r.signalled THEN {ToFinal(r)} ELSE {})
\* dead_child_fd, which the handler writes to, is among the descriptors.
PtyLoop(r) == IF r.signalled \/ ~r.pipes[2].in THEN {ToFinal(r)} ELSE Selected(r)

\* The final relaying.
FinalRelay(r) ==
  LET p == r.pipes[2]
  IN IF p.size > 0
     THEN {Wrote(r, 2, n, [p EXCEPT !.ofs = @ + n, !.size = @ - n]) : n \in 1..p.size}
     ELSE IF ~p.in \/ Waiting(r, 2) = 0 THEN {[r EXCEPT !.phase = "exited", !.pipes[2].ofs = 0]}
     ELSE {[r EXCEPT !.pipes[2] = [ReadIn([p EXCEPT !.ofs = 0], n, r.taken[2]) EXCEPT !.active = p.active],
                     !.taken[2] = @ + n] :
             n \in {n \in 1..Waiting(r, 2) : n <= BufSiz}}

\* main() goes on with the next connection, or the program is run again.
RelaySteps(r) ==
  CASE r.phase = "loop" -> PeerSteps(r) \cup (IF r.program = "unix" THEN UnixLoop(r) ELSE PtyLoop(r))
    [] r.phase = "final" -> FinalRelay(r)
    [] OTHER -> {RelayStart("unix"), RelayStart("pty")}

\* In each direction what was written and what is buffered is what was read, in order,
\* none of it twice; nothing is read from standard input before the machine has printed; and
\* when the child has died the program ends with all that the child had printed
\* written out.  Only a connection that squish-unix sees ended, instead of
\* the child's death, may leave a buffer behind.
RelayedInOrder(r) ==
  /\ \A i \in 1..2 :
       LET p == r.pipes[i]
       IN /\ p.ofs + p.size <= BufSiz
          /\ r.written[i] \o SubSeq(p.buf, p.ofs + 1, p.ofs + p.size) = [k \in 1..r.taken[i] |-> k]
  /\ r.taken[1] > 0 => r.taken[2] > 0
  /\ r.phase = "exited" /\ r.pipes[2].out => Len(r.written[2]) = r.made[2]
  /\ r.phase = "returned" => Len(r.written[2]) + r.pipes[2].size = r.made[2]
=============================================================================
