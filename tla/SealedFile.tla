----------------------------- MODULE SealedFile -----------------------------
(***************************************************************************)
(* An encrypted file (pkg/storage/enc/fs.go, aead.go), byte by byte: what  *)
(* the file layer keeps on disk for the bytes Pebble writes, and what it   *)
(* reads back.  Three layouts: "stream" (DXE1, a keystream over the file), *)
(* "chunked" (DXE2, fixed chunks each sealed under a fresh nonce, the last *)
(* one rewritten as it grows) and "framed" (DXE2 logs, one sealed frame    *)
(* per write, never rewritten).  A physical byte is a cell that knows what *)
(* it was sealed as, so opening a chunk made of two versions fails.        *)
(***************************************************************************)
EXTENDS Integers, Sequences, SequencesExt, FiniteSetsExt

CONSTANT Environments

VARIABLES
    env,
    disk,    \* the physical file after its header, a sequence of cells
    handle,  \* the open file: aeadFile, frameFile or encFile; or nothing
    nonce,   \* fresh randomness: the number of seals so far
    content, \* history: the bytes written
    synced   \* history: how much of content, and of disk, a Sync covered

vars == <<env, disk, handle, nonce, content, synced>>

C == env.chunk              \* plaintext bytes per chunk
ChunkOverhead == 2          \* nonce and tag
FrameOverhead == 3          \* length, nonce and tag

Div(a, b) == a \div b
Mod(a, b) == a % b
Slice(s, off, n) == SubSeq(s, off + 1, off + n)

\* Cells written over s at a physical offset, extending it as needed.
Overwrite(s, off, cells) ==
    [k \in 1..Max({Len(s), off + Len(cells)}) |->
        IF k > off /\ k <= off + Len(cells) THEN cells[k - off] ELSE s[k]]

\* AES-GCM: the record sealed for an index under a nonce, and opening it.
Seal(i, v, plain, overhead) ==
    [k \in 1..(Len(plain) + overhead) |->
        [index |-> i, nonce |-> v, at |-> k, of |-> Len(plain),
         byte |-> IF k > overhead - 1 /\ k < Len(plain) + overhead
                  THEN plain[k - overhead + 1] ELSE 0]]

Opens(cells, i, overhead) ==
    \A k \in 1..Len(cells) : /\ cells[k].index = i /\ cells[k].at = k
                             /\ cells[k].of = Len(cells) - overhead
                             /\ cells[k].nonce = cells[1].nonce

Opened(cells, overhead) ==
    [k \in 1..(Len(cells) - overhead) |-> cells[k + overhead - 1].byte]

\* A byte the disk never received.
Hole == [index |-> 0, nonce |-> 0, at |-> 0, of |-> 0, byte |-> 0]

-----------------------------------------------------------------------------
\* Chunked files.
physOff(i) == i * (C + ChunkOverhead)

logicalSize(physical) ==
    LET full == Div(physical, C + ChunkOverhead)
        rest == Mod(physical, C + ChunkOverhead)
    IN CASE rest = 0 -> <<full * C>>
         [] rest > 0 /\ rest <= ChunkOverhead -> <<>>
         [] OTHER -> <<full * C + rest - ChunkOverhead>>

chunkLen(i, size) == Max({0, Min({C, size - i * C})})

readChunkN(i, n) == Slice(disk, physOff(i), n + ChunkOverhead)

\* The plaintext of chunk i: the cached tail, or what the disk holds.
ChunkAt(i, h) ==
    IF h.tail # <<>> /\ i = Div(h.size, C) THEN h.tail
    ELSE Opened(readChunkN(i, chunkLen(i, h.size)), ChunkOverhead)

ChunkOpens(i, h) ==
    \/ h.tail # <<>> /\ i = Div(h.size, C)
    \/ Opens(readChunkN(i, chunkLen(i, h.size)), i, ChunkOverhead)

\* The partial last chunk is cached; there is none when the last one is full.
tailAfter(i, plain, size, tail) ==
    CASE Mod(size, C) = 0 -> <<>>
      [] Mod(size, C) # 0 /\ i = Div(size, C) -> plain
      [] OTHER -> tail

\* writeAtLocked: every chunk the bytes touch is sealed again, whole.
WriteChunks(p, off) ==
    LET h == handle[1]
        size == Max({h.size, off + Len(p)})
        first == Div(off, C)
        last == Div(off + Len(p) - 1, C)
        old(i) == IF chunkLen(i, h.size) = 0 THEN <<>> ELSE ChunkAt(i, h)
        plain(i) == [k \in 1..chunkLen(i, size) |->
                        LET at == i * C + k - 1 - off
                        IN IF at >= 0 /\ at < Len(p) THEN p[at + 1] ELSE old(i)[k]]
        sealed(i) == Seal(i, nonce + 1 + i - first, plain(i), ChunkOverhead)
        written == FoldLeftDomain(LAMBDA d, k : Overwrite(d, physOff(first + k - 1), sealed(first + k - 1)),
                                  disk, [k \in 1..(last - first + 1) |-> k])
    IN /\ \A i \in first..last : chunkLen(i, h.size) > 0 => ChunkOpens(i, h)
       /\ disk' = written
       /\ nonce' = nonce + 1 + last - first
       /\ handle' = <<[h EXCEPT !.size = size, !.tail = tailAfter(last, plain(last), size, h.tail)]>>

\* ReadAt: chunk by chunk; nothing is returned when a chunk does not open.
ReadChunks(h, off, n) ==
    LET end == Min({h.size, off + n})
    IN IF \A i \in Div(off, C)..Div(end - 1, C) : ChunkOpens(i, h)
       THEN <<[k \in 1..(end - off) |->
                 ChunkAt(Div(off + k - 1, C), h)[Mod(off + k - 1, C) + 1]]>>
       ELSE <<>>

OpenChunked ==
    LET size == logicalSize(Len(disk))
        i == Div(size[1], C)
        cells == readChunkN(i, Mod(size[1], C))
    IN CASE size = <<>> -> <<>>
         [] size # <<>> /\ Mod(size[1], C) = 0 -> <<[size |-> size[1], tail |-> <<>>]>>
         [] OTHER -> IF Opens(cells, i, ChunkOverhead)
                     THEN <<[size |-> size[1], tail |-> Opened(cells, ChunkOverhead)]>> ELSE <<>>

-----------------------------------------------------------------------------
\* Framed files.  Frames of the file, from physical offset pos on: scan walks
\* the length fields and stops at what is no whole frame.
frameLength(pos) == IF disk[pos + 1].at = 1 THEN disk[pos + 1].of ELSE 0

WholeFrame(pos) ==
    /\ pos + FrameOverhead <= Len(disk)
    /\ frameLength(pos) # 0
    /\ frameLength(pos) <= env.maxFrame
    /\ pos + FrameOverhead + frameLength(pos) <= Len(disk)

\* Physical offsets at which the frames scan finds begin, in order.
starts ==
    LET next[pos \in 0..(Len(disk) + 1)] ==
            IF WholeFrame(pos) THEN <<pos>> \o next[pos + FrameOverhead + frameLength(pos)]
            ELSE <<>>
    IN next[0]

FrameCells(pos) == Slice(disk, pos, FrameOverhead + frameLength(pos))

\* The frames before the k-th have this many plaintext bytes.
SizeBefore(ps, k) == FoldLeft(LAMBDA n, pos : n + frameLength(pos), 0, SubSeq(ps, 1, k - 1))

\* seeded fault: a whole last frame is not verified
scanUnverified ==
    LET n == Len(starts)
    IN <<[size |-> SizeBefore(starts, n + 1), frames |-> n,
          physEnd |-> IF n = 0 THEN 0 ELSE starts[n] + FrameOverhead + frameLength(starts[n])]>>

\* The last frame counts only if it opens: a crash may have torn it.
scan ==
    LET ps == starts
        torn == ps # <<>> /\ ~Opens(FrameCells(Last(ps)), Len(ps), FrameOverhead)
        n == IF torn THEN Len(ps) - 1 ELSE Len(ps)
    IN <<[size |-> SizeBefore(ps, n + 1), frames |-> n,
          physEnd |-> IF n = Len(ps) /\ n > 0
                      THEN Last(ps) + FrameOverhead + frameLength(Last(ps))
                      ELSE IF torn THEN Last(ps) ELSE 0]>>

\* appendLocked: frames of at most maxFrame bytes at the physical end.
Pieces(p) ==
    [k \in 1..Div(Len(p) + env.maxFrame - 1, env.maxFrame) |->
        SubSeq(p, (k - 1) * env.maxFrame + 1, Min({Len(p), k * env.maxFrame}))]

AppendFrames(p) ==
    LET h == handle[1]
        cells == FoldLeftDomain(LAMBDA s, k :
                    s \o Seal(h.frames + k, nonce + k, Pieces(p)[k], FrameOverhead), <<>>, Pieces(p))
    IN /\ disk' = Overwrite(disk, h.physEnd, cells)
       /\ nonce' = nonce + Len(Pieces(p))
       /\ handle' = <<[size |-> h.size + Len(p), frames |-> h.frames + Len(Pieces(p)),
                       physEnd |-> h.physEnd + Len(cells)]>>

\* Reading front to back (nextFrameLocked): a frame that does not open ends the
\* log if it is the last, and is refused otherwise.
ReadFrames(h) ==
    LET ps == SelectSeq(starts, LAMBDA pos : pos < h.physEnd)
        bad == {k \in 1..Len(ps) : ~Opens(FrameCells(ps[k]), k, FrameOverhead)}
        good == IF bad = {} THEN ps ELSE SubSeq(ps, 1, Min(bad) - 1)
    IN IF bad = {} \/ Min(bad) = Len(ps)
       THEN <<FoldLeft(LAMBDA s, pos : s \o Opened(FrameCells(pos), FrameOverhead), <<>>, good)>>
       ELSE <<>>

-----------------------------------------------------------------------------
\* The keystream format: a two-digit block counter of base env.digit (128 bits
\* in the code) starts at the file's IV.
Blocks == env.digit * env.digit

add128(iv, n) ==
    LET hi == Div(iv, env.digit)
        lo == Mod(iv, env.digit)
        sum == Mod(lo + n, env.digit)
        carry == IF sum < lo THEN 1 ELSE 0
    IN Mod(hi + carry, env.digit) * env.digit + sum

\* streamAt: the keystream byte a stream positioned at off gives its k-th byte.
streamAt(off, k) ==
    LET skip == Mod(off, C)
    IN [block |-> Mod(add128(env.iv, Div(off, C)) + Div(skip + k - 1, C), Blocks),
        at |-> Mod(skip + k - 1, C)]

WriteStream(p, off) ==
    /\ disk' = Overwrite(disk, off, [k \in 1..Len(p) |-> [key |-> streamAt(off, k), byte |-> p[k]]])
    /\ handle' = <<[size |-> Max({handle[1].size, off + Len(p)})]>>
    /\ nonce' = nonce + 1

\* A byte read under another keystream byte is noise.
ReadStream(h, off, n) ==
    LET end == Min({Len(disk), off + n})
    IN <<[k \in 1..(end - off) |->
            IF disk[off + k].key = streamAt(off, k) THEN disk[off + k].byte ELSE -1]>>

-----------------------------------------------------------------------------
Chunked == env.layout = "chunked"
Framed == env.layout = "framed"

Fresh == <<CASE Chunked -> [size |-> 0, tail |-> <<>>]
             [] Framed -> [size |-> 0, frames |-> 0, physEnd |-> 0]
             [] OTHER -> [size |-> 0]>>

Init ==
    /\ env \in Environments
    /\ disk = <<>>
    /\ handle = Fresh
    /\ nonce = 0
    /\ content = <<>>
    /\ synced = [content |-> 0, disk |-> 0]

\* Write appends; WriteAt writes within or at the end (a log only at its end).
Write(n, off) ==
    LET p == [k \in 1..n |-> 10 * nonce + k]
    IN /\ nonce < env.budget /\ handle # <<>>
       /\ off <= handle[1].size
       /\ Framed => off = handle[1].size
       /\ IF Chunked THEN WriteChunks(p, off)
          ELSE IF Framed THEN AppendFrames(p) ELSE WriteStream(p, off)
       /\ content' = Overwrite(content, off, p)
       /\ UNCHANGED <<env, synced>>

Sync ==
    /\ handle # <<>> /\ synced.disk # Len(disk)
    /\ synced' = [content |-> Len(content), disk |-> Len(disk)]
    /\ UNCHANGED <<env, disk, handle, nonce, content>>

\* The file is closed and opened again (FS.open, openAuthenticated).
Reopen ==
    /\ handle # <<>> /\ nonce < env.budget
    /\ handle' = CASE Chunked -> OpenChunked
                   [] Framed -> scan
                   [] OTHER -> <<[size |-> Len(disk)]>>
    /\ UNCHANGED <<env, disk, nonce, content, synced>>

\* A crash keeps some of what was not synced: the log up to a cut, and of its
\* last whole frame perhaps not every byte.
Crash ==
    /\ Framed /\ handle # <<>> /\ nonce < env.budget /\ Len(disk) > synced.disk
    /\ \E cut \in synced.disk..Len(disk) :
          LET last == Max({synced.disk} \union {pos \in Range(starts) : pos < cut})
          IN \E lost \in last..cut :
                disk' = [k \in 1..cut |-> IF k = lost /\ k > last THEN Hole ELSE disk[k]]
    /\ handle' = <<>>
    /\ UNCHANGED <<env, nonce, content, synced>>

\* The log is opened after the crash: it ends where the complete frames do.
Recover ==
    /\ handle = <<>> /\ Framed
    /\ handle' = scan
    /\ content' = SubSeq(content, 1, handle'[1].size)
    /\ UNCHANGED <<env, disk, nonce, synced>>

Next ==
    \/ \E n \in env.lengths, off \in 0..Len(content) : Write(n, off)
    \/ Sync \/ Reopen \/ Crash \/ Recover

-----------------------------------------------------------------------------
\* What Pebble reads is what it wrote, at every offset and length, across
\* reopens; a log read after a crash is never refused, holds what a Sync
\* covered, and holds only what was written, in order (aead.go: frames "only
\* ever extend the file, so a crash damages at most the frame being appended").
SealedReads ==
    handle # <<>> =>
        /\ handle[1].size = Len(content)
        /\ synced.content <= Len(content)
        /\ Chunked => logicalSize(Len(disk)) = <<Len(content)>>
        /\ IF Framed THEN ReadFrames(handle[1]) = <<content>>
           ELSE \A off \in 0..(Len(content) - 1), n \in 1..Len(content) :
                  (IF Chunked THEN ReadChunks(handle[1], off, n) ELSE ReadStream(handle[1], off, n))
                    = <<Slice(content, off, Min({n, Len(content) - off}))>>

-----------------------------------------------------------------------------
(* Small encrypted files: chunks and frames of two or three bytes, and a   *)
(* keystream counter about to carry and to wrap.                           *)

Case(layout, chunk, iv, writes) ==
    [layout |-> layout, chunk |-> chunk, maxFrame |-> 2, digit |-> 8, iv |-> iv,
     lengths |-> {1, 2, 3}, budget |-> writes]

Unwritten == Case("framed", 1, 0, 0)

Cases == {Case("chunked", 2, 0, 5), Case("chunked", 3, 0, 4), Case("framed", 1, 0, 3),
          Case("stream", 2, 5, 3), Case("stream", 2, 62, 3)}
=============================================================================
