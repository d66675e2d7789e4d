------------------------------- MODULE Pipes -------------------------------
(***************************************************************************)
(* Kernel pipes: the ring buffers of pipe.rs and the handles of syscall.c  *)
(* through which processes reach them.  A call looks its handle up under   *)
(* open_files_lock, drops that lock and then calls pipe.rs, which has a    *)
(* lock of its own; processes on other CPUs run in between.                *)
(*                                                                         *)
(* A byte is the pair it was written to and its place in that stream.      *)
(* `pairs' is history: what was written to and read from every pair of     *)
(* handles.  A process that exits leaves its handles open.                 *)
(***************************************************************************)
EXTENDS Naturals, Sequences, SequencesExt

CONSTANTS Procs, MAX_OPEN_FILES, MAX_PIPES, PIPE_CAPACITY, MaxPairs, MaxBytes, MaxLen

VARIABLES files, pipes, call, pairs, gone

piVars == <<files, pipes, call, pairs, gone>>

Handles == 1 .. MAX_OPEN_FILES
Ids == 1 .. MAX_PIPES
NoByte == <<0, 0>>

EMPTY_PIPE ==
    [buf |-> [i \in 0 .. PIPE_CAPACITY - 1 |-> NoByte], read_pos |-> 0, write_pos |-> 0, count |-> 0,
     in_use |-> FALSE, reader_open |-> FALSE, writer_open |-> FALSE]
NoFile == [in_use |-> FALSE, owner |-> 0, kind |-> "file", id |-> 1, pair |-> 0]
Idle == [at |-> "idle", r |-> 0, w |-> 0, id |-> 0, len |-> 0]

Lowest(S) == CHOOSE i \in S: \A j \in S: i <= j

----------------------------------------------------------------------------
(* pipe.rs.                                                                *)
FreePipes == {i \in Ids: ~pipes[i].in_use}

rust_pipe_create ==
    pipes' = [pipes EXCEPT ![Lowest(FreePipes)] =
        [@ EXCEPT !.in_use = TRUE, !.read_pos = 0, !.write_pos = 0, !.count = 0,
                  !.reader_open = TRUE, !.writer_open = TRUE]]

Smaller(a, b) == IF a < b THEN a ELSE b

(* The bytes a read returns, and the pipe after it.                        *)
ToRead(p, max_len) == Smaller(max_len, p.count)
BytesOut(p, n) == [i \in 1 .. n |-> p.buf[(p.read_pos + i - 1) % PIPE_CAPACITY]]
AfterRead(p, n) == [p EXCEPT !.read_pos = (@ + n) % PIPE_CAPACITY, !.count = @ - n]

(* The bytes a write accepts, and the pipe after it.                       *)
ToWrite(p, len) == Smaller(len, PIPE_CAPACITY - p.count)
AfterWrite(p, bytes) ==
    [p EXCEPT !.buf = [i \in DOMAIN @ |->
                 IF \E k \in DOMAIN bytes: (p.write_pos + k - 1) % PIPE_CAPACITY = i
                   THEN bytes[CHOOSE k \in DOMAIN bytes: (p.write_pos + k - 1) % PIPE_CAPACITY = i]
                   ELSE @[i]],
              !.write_pos = (@ + Len(bytes)) % PIPE_CAPACITY,
              !.count = @ + Len(bytes)]

rust_pipe_close_either(p, is_read_end) ==
    LET q == IF is_read_end THEN [p EXCEPT !.reader_open = FALSE] ELSE [p EXCEPT !.writer_open = FALSE]
    IN  IF p.in_use THEN [q EXCEPT !.in_use = q.reader_open /\ q.writer_open] ELSE p

rust_pipe_close(p, is_read_end) ==
    LET q == IF is_read_end THEN [p EXCEPT !.reader_open = FALSE] ELSE [p EXCEPT !.writer_open = FALSE]
    IN  IF p.in_use THEN [q EXCEPT !.in_use = q.reader_open \/ q.writer_open] ELSE p

----------------------------------------------------------------------------
(* SYS_PIPE: two handles are claimed under the lock, the pipe is created,  *)
(* and the handles are filled in, or given back when no pipe is free.      *)
FreeHandles == {h \in Handles: ~files[h].in_use}

Become(p, c) == call' = [call EXCEPT ![p] = c]
Done(p) == Become(p, Idle)
At(p, at) == p \notin gone /\ call[p].at = at

PipeClaim(p) ==
    /\ At(p, "idle") /\ Len(pairs) < MaxPairs
    /\ LET r == Lowest(FreeHandles)
           w == Lowest(FreeHandles \ {r})
       IN  IF FreeHandles = {} \/ FreeHandles = {r} THEN UNCHANGED <<files, call>>
           ELSE /\ files' = [files EXCEPT ![r].in_use = TRUE, ![r].owner = p,
                                          ![w].in_use = TRUE, ![w].owner = p]
                /\ Become(p, [Idle EXCEPT !.at = "create", !.r = r, !.w = w])
    /\ UNCHANGED <<pipes, pairs, gone>>

PipeCreate(p) ==
    /\ At(p, "create")
    /\ IF FreePipes = {} THEN Become(p, [call[p] EXCEPT !.at = "rollback"]) /\ UNCHANGED pipes
       ELSE rust_pipe_create /\ Become(p, [call[p] EXCEPT !.at = "publish", !.id = Lowest(FreePipes)])
    /\ UNCHANGED <<files, pairs, gone>>

PipeRollback(p) ==
    /\ At(p, "rollback") /\ Done(p)
    /\ files' = [files EXCEPT ![call[p].r].in_use = FALSE, ![call[p].w].in_use = FALSE]
    /\ UNCHANGED <<pipes, pairs, gone>>

PipePublish(p) ==
    LET end(h, kind) == [files[h] EXCEPT !.kind = kind, !.id = call[p].id, !.pair = Len(pairs) + 1]
    IN  /\ At(p, "publish") /\ Done(p)
        /\ Len(pairs) < MaxPairs
        /\ files' = [files EXCEPT ![call[p].r] = end(call[p].r, "read"), ![call[p].w] = end(call[p].w, "write")]
        /\ pairs' = Append(pairs, [sent |-> <<>>, got |-> <<>>, ended |-> FALSE])
        /\ UNCHANGED <<pipes, gone>>

(* SYS_READ and SYS_WRITE_HANDLE: look the handle up, then call pipe.rs.   *)
Owns(p, h) == files[h].in_use /\ files[h].owner = p

Lookup(p, h, len) ==
    /\ At(p, "idle") /\ Owns(p, h)
    /\ files[h].kind = "write" => Len(pairs[files[h].pair].sent) + len <= MaxBytes
    /\ Become(p, [at |-> files[h].kind, r |-> h, w |-> files[h].pair, id |-> files[h].id, len |-> len])
    /\ UNCHANGED <<files, pipes, pairs, gone>>

rust_pipe_read(p) ==
    LET c == call[p]
        pipe == pipes[c.id]
        n == ToRead(pipe, c.len)
    IN  /\ At(p, "read") /\ Done(p)
        /\ IF pipe.in_use /\ pipe.count > 0
             THEN /\ pipes' = [pipes EXCEPT ![c.id] = AfterRead(pipe, n)]
                  /\ pairs' = [pairs EXCEPT ![c.w].got = @ \o BytesOut(pipe, n)]
             ELSE /\ pairs' = [pairs EXCEPT ![c.w].ended = @ \/ (pipe.in_use /\ ~pipe.writer_open)]
                  /\ UNCHANGED pipes
        /\ UNCHANGED <<files, gone>>

rust_pipe_write(p) ==
    LET c == call[p]
        pipe == pipes[c.id]
        bytes == [k \in 1 .. ToWrite(pipe, c.len) |-> <<c.w, Len(pairs[c.w].sent) + k>>]
    IN  /\ At(p, "write") /\ Done(p)
        /\ IF pipe.in_use /\ pipe.reader_open
             THEN /\ pipes' = [pipes EXCEPT ![c.id] = AfterWrite(pipe, bytes)]
                  /\ pairs' = [pairs EXCEPT ![c.w].sent = @ \o bytes]
             ELSE UNCHANGED <<pipes, pairs>>
        /\ UNCHANGED <<files, gone>>

(* SYS_CLOSE: the handle is free before the pipe's end is closed.          *)
CloseHandle(p, h) ==
    /\ At(p, "idle") /\ Owns(p, h)
    /\ files' = [files EXCEPT ![h].in_use = FALSE]
    /\ Become(p, [at |-> "close", r |-> IF files[h].kind = "read" THEN 1 ELSE 0, w |-> 0,
                  id |-> files[h].id, len |-> 0])
    /\ UNCHANGED <<pipes, pairs, gone>>

ClosePipe(p) ==
    /\ At(p, "close") /\ Done(p)
    /\ pipes' = [pipes EXCEPT ![call[p].id] = rust_pipe_close(@, call[p].r = 1)]
    /\ UNCHANGED <<files, pairs, gone>>

Exit(p) ==
    /\ At(p, "idle")
    /\ gone' = gone \cup {p}
    /\ UNCHANGED <<files, pipes, call, pairs>>

PiInit ==
    /\ files = [h \in Handles |-> NoFile]
    /\ pipes = [i \in Ids |-> EMPTY_PIPE]
    /\ call = [p \in Procs |-> Idle]
    /\ pairs = <<>> /\ gone = {}

PiNext ==
    \E p \in Procs:
      \/ PipeClaim(p) \/ PipeCreate(p) \/ PipeRollback(p) \/ PipePublish(p)
      \/ \E h \in Handles: CloseHandle(p, h) \/ \E len \in 1 .. MaxLen: Lookup(p, h, len)
      \/ rust_pipe_read(p) \/ rust_pipe_write(p) \/ ClosePipe(p) \/ Exit(p)

PiSpec == PiInit /\ [][PiNext]_piVars

----------------------------------------------------------------------------
\* A pair of handles is one stream, whichever pipe and handle slots it got and whoever
\* had them before: what is read through it is what was written through it, in order and
\* once; and end of stream is reported only when nothing written is left (pipe.rs,
\* rust_pipe_read: "There will never be more data").
PipeStreams ==
    \A i \in DOMAIN pairs:
      /\ IsPrefix(pairs[i].got, pairs[i].sent)
      /\ pairs[i].ended => pairs[i].got = pairs[i].sent
=============================================================================
