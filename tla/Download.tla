------------------------------ MODULE Download ------------------------------
(***************************************************************************)
(* One blob of the layer cache, as download_blob() fetches it: the cached  *)
(* copy if it matches its digest, else parallel ranges into a temporary    *)
(* file, a single stream where that fails, retries on both levels, and a   *)
(* rename over the blob's name.  Several commands fetch the same blob, the *)
(* registry answers as it likes, and the cache entry is swept or replaced  *)
(* under everybody's feet.                                                 *)
(*                                                                         *)
(* Bytes are the numbers of their places: a file is the blob if and only   *)
(* if it equals Blob, which is what a digest can tell.                     *)
(***************************************************************************)
EXTENDS Naturals, Sequences, SequencesExt, FiniteSets

CONSTANTS
    Procs,         \* the commands that need the blob
    Blob,          \* its bytes; 0 is the byte of a hole
    Sizes,         \* what the manifest of each may say its size is, or 0
    Threshold,     \* the least size that is fetched in parallel
    Chunks,        \* number of ranges
    ChunkTries, BlobTries,
    Served,        \* the replies each command may get
    None

ASSUME DownloadAssumption ==
    /\ Chunks \in Nat \ {0} /\ ChunkTries \in Nat \ {0} /\ BlobTries \in Nat \ {0}
    /\ Threshold \in Nat
    /\ Blob \in Seq(Nat)
    /\ Sizes \in [Procs -> SUBSET Nat]
    /\ None \notin Procs /\ "planted" \notin Procs

(***************************************************************************)
(* Replies to a request, beside the honest one.                            *)
(***************************************************************************)
Replies == {"range",      \* 206 with the bytes asked for, or all of a stream
            "whole",      \* 206 with the whole blob
            "full",       \* 200: ranges are not honoured
            "cut",        \* the connection ends early
            "silent",     \* the same, with no length announced
            "broken",     \* 5xx, 408, 429, a timeout: worth another try
            "denied"}     \* another 4xx, a redirect refused: not worth one
Transient == {"cut", "broken"}

ASSUME Served \in [Procs -> SUBSET Replies]

Workers == 1..Chunks

Files == Seq({Blob[i] : i \in DOMAIN Blob} \cup {0})

(* What the cache entry may be: what a command wrote, or what something    *)
(* else put there.                                                         *)
Inodes == Procs \cup {"planted"}

VARIABLES
    entry,      \* the inode under the blob's name
    tmp,        \* the commands whose temporary name is in the directory
    file,       \* the content of the inode each command wrote
    pc, attempt,
    said,       \* the size the manifest names, 0 if none
    size, chunk, tries,
    hashed,     \* what went through the hasher
    fd,         \* the inode each command holds open
    result,
    got         \* history: the replies to streams, and the whole ones

cacheDir == <<entry, tmp>>
work == <<said, size, chunk, tries>>
vars == <<cacheDir, file, pc, work, attempt, hashed, fd, result, got>>

PCs == {"open", "verify", "begin", "parallel", "stream", "check", "apply",
        "ended"}

TypeOK ==
    /\ entry \in Inodes \cup {None}
    /\ tmp \subseteq Procs
    /\ file \in [Procs -> Files] /\ hashed \in [Procs -> Files]
    /\ pc \in [Procs -> PCs]
    /\ \A p \in Procs : said[p] \in Sizes[p]
    /\ \A p \in Procs : size[p] \in Sizes[p] \cup {0, Len(Blob)}
    /\ chunk \in [Procs -> [Workers -> {"idle", "running", "done", "failed"}]]
    /\ tries \in [Procs -> [Workers -> 0..ChunkTries]]
    /\ attempt \in [Procs -> 0..BlobTries]
    /\ fd \in [Procs -> Inodes \cup {None}]
    /\ result \in [Procs -> {"none", "failed", "interrupted", "killed", "done"}]
    /\ got \in [Procs -> SUBSET Replies]

Init ==
    /\ entry \in {None, "planted"}
    /\ tmp = {}
    /\ file = [p \in Procs |-> << >>]
    /\ pc = [p \in Procs |-> "open"]
    /\ said \in [Procs -> UNION {Sizes[p] : p \in Procs}]
    /\ \A p \in Procs : said[p] \in Sizes[p]
    /\ size = [p \in Procs |-> 0]
    /\ chunk = [p \in Procs |-> [c \in Workers |-> "idle"]]
    /\ tries = [p \in Procs |-> [c \in Workers |-> 0]]
    /\ attempt = [p \in Procs |-> 0]
    /\ hashed = [p \in Procs |-> << >>]
    /\ fd = [p \in Procs |-> None]
    /\ result = [p \in Procs |-> "none"]
    /\ got = [p \in Procs |-> {}]

-----------------------------------------------------------------------------
Content(i) == IF i \in Procs THEN file[i] ELSE <<0>>

Smaller(a, b) == IF a < b THEN a ELSE b

(* pwrite(2): what lies before `at` and was never written is a hole. *)
Overlay(f, at, bytes) ==
    IF bytes = << >> THEN f
    ELSE [i \in 1..(IF Len(f) > at + Len(bytes) THEN Len(f) ELSE at + Len(bytes)) |->
             IF i > at /\ i <= at + Len(bytes) THEN bytes[i - at]
             ELSE IF i <= Len(f) THEN f[i] ELSE 0]

(* The range of a worker: first byte, and the one after the last. *)
Start(p, c) == (c - 1) * (size[p] \div Chunks)
End(p, c) == IF c = Chunks THEN size[p] ELSE c * (size[p] \div Chunks)

Goto(p, l) == pc' = [pc EXCEPT ![p] = l]

Get(p, reply) == /\ reply \in Served[p]
                 /\ got' = [got EXCEPT ![p] =
                        IF pc[p] = "stream" \/ reply = "whole"
                        THEN @ \cup {reply} ELSE @]

(* Faulty: the temporary file stays when the download is given up. *)
UnlinkForRetry(p) == tmp' = IF attempt[p] < BlobTries THEN tmp \ {p} ELSE tmp

(* The temporary file goes with every attempt, published or not. *)
Unlink(p) == tmp' = tmp \ {p}

Leave(p, why) == Goto(p, "ended") /\ result' = [result EXCEPT ![p] = why]

(* Faulty: there is always another attempt. *)
RetryForever(p) ==
    /\ Unlink(p)
    /\ Goto(p, "begin")
    /\ attempt' = [attempt EXCEPT ![p] = IF @ < BlobTries THEN @ ELSE @ - 1]
    /\ UNCHANGED result

(* retry_http(): another attempt, or the end. *)
Retry(p) ==
    /\ Unlink(p)
    /\ IF attempt[p] < BlobTries
       THEN Goto(p, "begin") /\ UNCHANGED result
       ELSE Leave(p, "failed")
    /\ UNCHANGED attempt

-----------------------------------------------------------------------------
(***************************************************************************)
(* open_verified_layer()                                                   *)
(***************************************************************************)
Open(p) ==
    /\ pc[p] = "open"
    /\ fd' = [fd EXCEPT ![p] = entry]
    /\ Goto(p, IF entry = None THEN "begin" ELSE "verify")
    /\ UNCHANGED <<cacheDir, file, work, attempt, hashed, result, got>>

Verified(p) ==
    /\ pc[p] = "verify"
    /\ Content(fd[p]) = Blob
    /\ Goto(p, "apply")
    /\ UNCHANGED <<cacheDir, file, work, attempt, hashed, fd, result, got>>

(* The name is unlinked, whatever it names by now. *)
Evict(p) ==
    /\ pc[p] = "verify"
    /\ Content(fd[p]) # Blob
    /\ entry' = None
    /\ fd' = [fd EXCEPT ![p] = None]
    /\ Goto(p, "begin")
    /\ UNCHANGED <<tmp, file, work, attempt, hashed, result, got>>

-----------------------------------------------------------------------------
(***************************************************************************)
(* An attempt of download_blob().                                          *)
(***************************************************************************)
(* A new temporary file; the size is the manifest's, or is probed for. *)
Attempt(p) ==
    /\ pc[p] = "begin"
    /\ attempt' = [attempt EXCEPT ![p] = @ + 1]
    /\ tmp' = tmp \cup {p}
    /\ file' = [file EXCEPT ![p] = << >>]
    /\ hashed' = [hashed EXCEPT ![p] = << >>]
    /\ \E n \in IF said[p] > 0 THEN {said[p]} ELSE {0, Len(Blob)} :
        /\ size' = [size EXCEPT ![p] = n]
        /\ IF n >= Threshold
           THEN /\ Goto(p, "parallel")
                /\ chunk' = [chunk EXCEPT ![p] = [c \in Workers |-> "running"]]
                /\ tries' = [tries EXCEPT ![p] = [c \in Workers |-> 0]]
           ELSE /\ Goto(p, "stream")
                /\ UNCHANGED <<chunk, tries>>
    /\ UNCHANGED <<entry, said, fd, result, got>>

(* What a worker writes of a reply, and whether that is all it expected. *)
Body(p, c, reply) ==
    CASE reply = "range" ->
             SubSeq(Blob, Start(p, c) + 1, Smaller(End(p, c), Len(Blob)))
      [] reply = "whole" -> Blob
      [] reply \in {"cut", "silent"} -> SubSeq(Blob, Start(p, c) + 1, Start(p, c) + 1)
      [] OTHER -> << >>

Enough(p, c, reply) == Len(Body(p, c, reply)) >= End(p, c) - Start(p, c)

TryAgain(p, c, reply) ==
    reply \notin {"full", "denied"} /\ tries[p][c] + 1 < ChunkTries

(* One attempt of _download_chunk_range(). *)
Fetch(p, c) ==
    /\ chunk[p][c] = "running"
    /\ \E reply \in Replies :
        /\ Get(p, reply)
        /\ reply \in {"range", "cut", "silent"} => Start(p, c) < Len(Blob)
        /\ file' = [file EXCEPT ![p] = Overlay(@, Start(p, c), Body(p, c, reply))]
        /\ \/ /\ Enough(p, c, reply)
              /\ chunk' = [chunk EXCEPT ![p][c] = "done"]
              /\ UNCHANGED tries
           \/ /\ ~Enough(p, c, reply) /\ TryAgain(p, c, reply)
              /\ tries' = [tries EXCEPT ![p][c] = @ + 1]
              /\ UNCHANGED chunk
           \/ /\ ~Enough(p, c, reply) /\ ~TryAgain(p, c, reply)
              /\ chunk' = [chunk EXCEPT ![p][c] = "failed"]
              /\ UNCHANGED tries
    /\ UNCHANGED <<cacheDir, pc, said, size, attempt, hashed, fd, result>>

(* 416: the range begins beyond the end of the blob. *)
OutOfRange(p, c) ==
    /\ chunk[p][c] = "running"
    /\ Start(p, c) >= Len(Blob)
    /\ chunk' = [chunk EXCEPT ![p][c] = "failed"]
    /\ UNCHANGED <<cacheDir, file, pc, said, size, tries, attempt, hashed, fd,
                   result, got>>

(* Faulty: the first failure ends the wait for the others. *)
JoinedEarly(p) == \/ \A c \in Workers : chunk[p][c] # "running"
                  \/ \E c \in Workers : chunk[p][c] = "failed"

(* Leaving the pool waits for every worker. *)
Joined(p) == \A c \in Workers : chunk[p][c] # "running"

Complete(p) == /\ \A c \in Workers : chunk[p][c] = "done"
               /\ Len(file[p]) = size[p]

ParallelDone(p) ==
    /\ pc[p] = "parallel"
    /\ Joined(p) /\ Complete(p)
    /\ hashed' = [hashed EXCEPT ![p] = file[p]]
    /\ Goto(p, "check")
    /\ UNCHANGED <<cacheDir, file, work, attempt, fd, result, got>>

(* Faulty: a failure of a worker ends the download. *)
GiveUp(p) ==
    /\ pc[p] = "parallel"
    /\ Joined(p) /\ ~Complete(p)
    /\ Unlink(p)
    /\ Leave(p, "failed")
    /\ UNCHANGED <<entry, file, work, attempt, hashed, fd, got>>

(* Any failure of the parallel way falls back to a single stream. *)
FallBack(p) ==
    /\ pc[p] = "parallel"
    /\ Joined(p) /\ ~Complete(p)
    /\ Goto(p, "stream")
    /\ UNCHANGED <<cacheDir, file, work, attempt, hashed, fd, result, got>>

(* open(fd, "wb") does not truncate: the stream is written over the file. *)
StreamTo(p, bytes) ==
    /\ file' = [file EXCEPT ![p] = Overlay(@, 0, bytes)]
    /\ hashed' = [hashed EXCEPT ![p] = bytes]

Stream(p) ==
    /\ pc[p] = "stream"
    /\ \/ Get(p, "range") /\ StreamTo(p, Blob)
       \/ Get(p, "silent") /\ StreamTo(p, Front(Blob))
    /\ Goto(p, "check")
    /\ UNCHANGED <<cacheDir, work, attempt, fd, result>>

StreamFails(p) ==
    /\ pc[p] = "stream"
    /\ \E reply \in Transient : Get(p, reply)
    /\ Retry(p)
    /\ UNCHANGED <<entry, file, work, hashed, fd>>

StreamDenied(p) ==
    /\ pc[p] = "stream"
    /\ Get(p, "denied")
    /\ Unlink(p)
    /\ Leave(p, "failed")
    /\ UNCHANGED <<entry, file, work, attempt, hashed, fd>>

(* The digest agrees: the temporary file is renamed over the blob's name,  *)
(* and a duplicate of the descriptor it was written through is kept.       *)
Publish(p) ==
    /\ pc[p] = "check"
    /\ hashed[p] = Blob
    /\ entry' = p
    /\ Unlink(p)
    /\ fd' = [fd EXCEPT ![p] = p]
    /\ Goto(p, "apply")
    /\ UNCHANGED <<file, work, attempt, hashed, result, got>>

Mismatch(p) ==
    /\ pc[p] = "check"
    /\ hashed[p] # Blob
    /\ Unlink(p)
    /\ Leave(p, "failed")
    /\ UNCHANGED <<entry, file, work, attempt, hashed, fd, got>>

(* Faulty: the blob is opened by its name once more. *)
ApplyByName(p) ==
    /\ pc[p] = "apply"
    /\ fd' = [fd EXCEPT ![p] = IF entry = None THEN @ ELSE entry]
    /\ Leave(p, "done")
    /\ UNCHANGED <<cacheDir, file, work, attempt, hashed, got>>

(* apply_layer(): the digest is taken once more, of the bytes extracted. *)
Apply(p) ==
    /\ pc[p] = "apply"
    /\ Leave(p, IF Content(fd[p]) = Blob THEN "done" ELSE "failed")
    /\ UNCHANGED <<cacheDir, file, work, attempt, hashed, fd, got>>

-----------------------------------------------------------------------------
(* ^C ends the command once the pool is left; SIGKILL ends it at once. *)
Interrupt(p) ==
    /\ pc[p] # "ended" /\ Joined(p)
    /\ Unlink(p)
    /\ Leave(p, "interrupted")
    /\ UNCHANGED <<entry, file, work, attempt, hashed, fd, got>>

Die(p) ==
    /\ pc[p] # "ended"
    /\ Leave(p, "killed")
    /\ chunk' = [chunk EXCEPT ![p] = [c \in Workers |-> "idle"]]
    /\ UNCHANGED <<cacheDir, file, said, size, tries, attempt, hashed, fd, got>>

(* clear-cache and the sweep of remove, or a guest that can write there. *)
Sweep == entry # None /\ entry' = None
Plant == entry' = "planted"

Elsewhere == /\ Sweep \/ Plant
             /\ UNCHANGED <<tmp, file, pc, work, attempt, hashed, fd, result, got>>

Advance(p) ==
    \/ Open(p) \/ Verified(p) \/ Evict(p)
    \/ Attempt(p) \/ ParallelDone(p) \/ FallBack(p)
    \/ \E c \in Workers : Fetch(p, c) \/ OutOfRange(p, c)
    \/ Stream(p) \/ StreamFails(p) \/ StreamDenied(p)
    \/ Publish(p) \/ Mismatch(p) \/ Apply(p)

Next == \/ \E p \in Procs : Advance(p) \/ Interrupt(p) \/ Die(p)
        \/ Elsewhere

Spec == Init /\ [][Next]_vars

(* Every request has a timeout, so a command that is not killed goes on. *)
FairSpec == Spec /\ \A p \in Procs : WF_vars(Advance(p))
-----------------------------------------------------------------------------
(***************************************************************************)
(* Properties.                                                             *)
(***************************************************************************)
(* A command that goes on with a layer has extracted the very bytes its    *)
(* digest names, whatever the registry sent, whatever was left in the      *)
(* temporary file, and whatever came to stand at the blob's name.          *)
AppliedWhole == \A p \in Procs :
    result[p] = "done" => Content(fd[p]) = Blob

(* A file is final when it gets the blob's name: no worker of an attempt   *)
(* that was given up writes into it any more, in whose hands it may be.    *)
PublishedIsFinal == [][\A p \in Procs :
    entry = p \/ (\E q \in Procs : fd[q] = p) => file'[p] = file[p]]_vars

(* A temporary file is there for an attempt under way, or since a SIGKILL. *)
NoLitter == \A p \in tmp :
    pc[p] \in {"parallel", "stream", "check"} \/ result[p] = "killed"

Consistent == TypeOK /\ NoLitter

(* Ranges that are refused, cut or timed out never fail a download: it     *)
(* takes as many failed streams as there are attempts, a stream that is    *)
(* refused, bytes that are not those asked for, or a manifest that says    *)
(* the blob is smaller than it is.                                         *)
FailsOnlyForCause == \A p \in Procs : result[p] = "failed" =>
    \/ attempt[p] = BlobTries /\ got[p] \cap Transient # {}
    \/ got[p] \cap {"denied", "whole", "silent"} # {}
    \/ said[p] \in Threshold..(Len(Blob) - 1)

(* A command that is not killed gets done with the blob, one way or the    *)
(* other, though every request may fail.                                   *)
DownloadsEnd == \A p \in Procs : <>(pc[p] = "ended")
=============================================================================
