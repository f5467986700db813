-------------------------- MODULE Download_proofs --------------------------
(***************************************************************************)
(* Proofs about Download, for any blob, any number of commands and ranges, *)
(* and any registries.                                                     *)
(***************************************************************************)
EXTENDS Download, SequenceTheorems, TLAPS

-----------------------------------------------------------------------------
(***************************************************************************)
(* What is written.                                                        *)
(***************************************************************************)
Bytes == {Blob[i] : i \in DOMAIN Blob} \cup {0}

LEMMA BlobIsFile ==
    Blob \in Seq(Bytes) /\ Bytes \subseteq Nat /\ Files = Seq(Bytes)
BY DownloadAssumption DEF Bytes, Files

LEMMA OverlayType ==
    ASSUME NEW f \in Files, NEW at \in Nat, NEW bytes \in Files
    PROVE  /\ Overlay(f, at, bytes) \in Files
           /\ bytes # << >> =>
                 LET n == IF Len(f) > at + Len(bytes) THEN Len(f)
                                                      ELSE at + Len(bytes)
                 IN /\ Len(Overlay(f, at, bytes)) = n
                    /\ \A i \in 1..n : Overlay(f, at, bytes)[i] =
                           IF i > at /\ i <= at + Len(bytes) THEN bytes[i - at]
                           ELSE IF i <= Len(f) THEN f[i] ELSE 0
<1> USE BlobIsFile
<1>1. CASE bytes = << >>
    BY <1>1 DEF Overlay
<1>2. CASE bytes # << >>
    <2> DEFINE n == IF Len(f) > at + Len(bytes) THEN Len(f) ELSE at + Len(bytes)
               g == [i \in 1..n |->
                        IF i > at /\ i <= at + Len(bytes) THEN bytes[i - at]
                        ELSE IF i <= Len(f) THEN f[i] ELSE 0]
    <2>1. n \in Nat
        OBVIOUS
    <2>2. \A i \in 1..n : g[i] \in Bytes
        <3> SUFFICES ASSUME NEW i \in 1..n PROVE g[i] \in Bytes
            OBVIOUS
        <3>1. CASE i > at /\ i <= at + Len(bytes)
            <4>1. i - at \in 1..Len(bytes)
                BY <3>1
            <4> QED BY <3>1, <4>1
        <3>2. CASE ~(i > at /\ i <= at + Len(bytes)) /\ i <= Len(f)
            BY <3>2
        <3>3. CASE ~(i > at /\ i <= at + Len(bytes)) /\ ~(i <= Len(f))
            BY <3>3 DEF Bytes
        <3> QED BY <3>1, <3>2, <3>3
    <2>3. g \in Seq(Bytes) /\ Len(g) = n
        <3>1. g \in [1..n -> Bytes]
            BY <2>2
        <3>2. g \in Seq(Bytes)
            BY <2>1, <3>1, SeqDef
        <3> QED
            BY <2>1, <3>2, LenProperties
    <2>4. Overlay(f, at, bytes) = g
        BY <1>2 DEF Overlay
    <2> QED
        BY <1>2, <2>3, <2>4
<1> QED
    BY <1>1, <1>2

(* The bounds of a range. *)
LEMMA RangeType ==
    ASSUME NEW p \in Procs, size[p] \in Nat, NEW c \in Workers
    PROVE  Start(p, c) \in Nat /\ End(p, c) \in Nat
<1>1. Chunks \in Nat \ {0} /\ c \in Nat /\ c >= 1
    BY DownloadAssumption DEF Workers
<1>2. size[p] \div Chunks \in Nat
    BY <1>1
<1>3. \A a, b \in Nat : a * b \in Nat
    OBVIOUS
<1>4. (c - 1) \in Nat
    BY <1>1
<1> HIDE DEF Workers
<1> QED
    BY <1>1, <1>2, <1>3, <1>4 DEF Start, End

LEMMA BodyType ==
    ASSUME NEW p \in Procs, size[p] \in Nat, NEW c \in Workers,
           NEW reply \in Replies,
           reply \in {"range", "cut", "silent"} => Start(p, c) < Len(Blob)
    PROVE  Body(p, c, reply) \in Files
<1> USE BlobIsFile
<1>1. Start(p, c) \in Nat /\ End(p, c) \in Nat
    BY RangeType
<1>2. Len(Blob) \in Nat /\ \A i \in 1..Len(Blob) : Blob[i] \in Bytes
    BY LenProperties, ElementOfSeq
<1>3. CASE reply = "range"
    <2> DEFINE m == Start(p, c) + 1
               n == Smaller(End(p, c), Len(Blob))
    <2>1. m \in Int /\ n \in Int /\ m >= 1 /\ n <= Len(Blob)
        BY <1>1, <1>2 DEF Smaller
    <2>2. \A i \in m..n : Blob[i] \in Bytes
        BY <1>2, <2>1
    <2>3. SubSeq(Blob, m, n) \in Seq(Bytes)
        <3> HIDE DEF m, n
        <3> QED BY <2>1, <2>2, SubSeqProperties
    <2> QED
        BY <1>3, <2>3 DEF Body
<1>4. CASE reply \in {"cut", "silent"}
    <2>1. Start(p, c) + 1 \in 1..Len(Blob)
        BY <1>1, <1>2, <1>4
    <2>2. \A i \in (Start(p, c) + 1)..(Start(p, c) + 1) : Blob[i] \in Bytes
        BY <1>2, <2>1
    <2>3. SubSeq(Blob, Start(p, c) + 1, Start(p, c) + 1) \in Seq(Bytes)
        BY <2>1, <2>2, SubSeqProperties
    <2> QED
        BY <1>4, <2>3 DEF Body
<1>5. CASE reply = "whole"
    BY <1>5 DEF Body
<1>6. CASE reply \in {"full", "broken", "denied"}
    BY <1>6 DEF Body
<1> QED
    BY <1>3, <1>4, <1>5, <1>6 DEF Replies

-----------------------------------------------------------------------------
(***************************************************************************)
(* The invariant.                                                          *)
(***************************************************************************)
Named(p) == entry = p \/ \E q \in Procs : fd[q] = p

(* Only an attempt under way has workers: they are done when it is left.   *)
Quiet == \A p \in Procs :
    (\E c \in Workers : chunk[p][c] = "running") => pc[p] = "parallel"

(* What others may have in hand was written by a command that is past it.  *)
Final == \A p \in Procs : Named(p) => pc[p] \in {"apply", "ended"}

(* Attempts are counted before they begin.                                 *)
Counting == \A p \in Procs :
    /\ pc[p] \in {"open", "verify"} => attempt[p] = 0
    /\ pc[p] = "begin" => attempt[p] < BlobTries
    /\ result[p] = "none" <=> pc[p] # "ended"

Inv == TypeOK /\ NoLitter /\ Quiet /\ Final /\ Counting /\ AppliedWhole

LEMMA InvInit == Init => Inv
<1> USE DownloadAssumption, BlobIsFile, EmptySeq DEF Inodes, Workers
<1> SUFFICES ASSUME Init PROVE Inv
    OBVIOUS
<1>1. TypeOK
    BY DEF Init, TypeOK, PCs
<1> QED
    BY <1>1 DEF Init, Inv, NoLitter, Quiet, Final, Named, Counting, AppliedWhole

-----------------------------------------------------------------------------
(***************************************************************************)
(* Steps.                                                                  *)
(***************************************************************************)
LEMMA ConstantsTyped ==
    /\ Chunks \in Nat \ {0} /\ ChunkTries \in Nat \ {0}
    /\ BlobTries \in Nat \ {0} /\ Threshold \in Nat
    /\ \A p \in Procs : Sizes[p] \subseteq Nat
    /\ None \notin Procs /\ "planted" \notin Procs
    /\ Len(Blob) \in Nat
    /\ Blob \in Files /\ Front(Blob) \in Files /\ << >> \in Files
<1>1. Len(Blob) \in Nat /\ \A i \in 1..Len(Blob) : Blob[i] \in Bytes
    BY BlobIsFile, LenProperties, ElementOfSeq
<1>2. SubSeq(Blob, 1, Len(Blob) - 1) \in Seq(Bytes)
    <2>1. \A i \in 1..(Len(Blob) - 1) : Blob[i] \in Bytes
        BY <1>1
    <2>2. 1 \in Int /\ Len(Blob) - 1 \in Int
        BY <1>1
    <2> QED
        BY <2>1, <2>2, SubSeqProperties
<1> QED
    BY <1>1, <1>2, BlobIsFile, DownloadAssumption, EmptySeq DEF Front

(* Sizes are natural numbers. *)
LEMMA SizesType == TypeOK => \A p \in Procs : said[p] \in Nat /\ size[p] \in Nat
<1>1. Len(Blob) \in Nat /\ \A p \in Procs : \A n \in Sizes[p] : n \in Nat
    BY ConstantsTyped
<1>2. TypeOK => \A p \in Procs : /\ said[p] \in Sizes[p]
                                 /\ size[p] \in Sizes[p] \cup {0, Len(Blob)}
    BY DEF TypeOK
<1> QED
    BY <1>1, <1>2

(* One place of a table of functions, or a member of a set, at a time. *)
LEMMA WorkerPut ==
    ASSUME NEW S, NEW f \in [Procs -> [Workers -> S]],
           NEW p \in Procs, NEW c \in Workers, NEW x \in S
    PROVE  [f EXCEPT ![p][c] = x] \in [Procs -> [Workers -> S]]
<1>1. [f[p] EXCEPT ![c] = x] \in [Workers -> S]
    OBVIOUS
<1> QED
    BY <1>1

LEMMA GetTyped ==
    ASSUME TypeOK, NEW p \in Procs, NEW reply \in Replies, Get(p, reply)
    PROVE  got' \in [Procs -> SUBSET Replies]
<1>1. got[p] \cup {reply} \in SUBSET Replies /\ got[p] \in SUBSET Replies
    BY DEF TypeOK
<1> QED
    BY <1>1 DEF TypeOK, Get

LEMMA AttemptTyped ==
    ASSUME Inv, NEW p \in Procs, Attempt(p)
    PROVE  TypeOK'
<1>1. attempt[p] \in Nat /\ attempt[p] < BlobTries /\ BlobTries \in Nat
    BY ConstantsTyped DEF Inv, TypeOK, Counting, Attempt
<1>2. attempt' \in [Procs -> 0..BlobTries]
    BY <1>1 DEF Inv, TypeOK, Attempt
<1>3. \A q \in Procs : size'[q] \in Sizes[q] \cup {0, Len(Blob)}
    <2>1. PICK n : /\ n \in {said[p], 0, Len(Blob)}
                   /\ size' = [size EXCEPT ![p] = n]
        BY DEF Attempt
    <2> QED
        BY <2>1 DEF Inv, TypeOK
<1>4. chunk' \in [Procs -> [Workers -> {"idle", "running", "done", "failed"}]]
    <2>1. [c \in Workers |-> "running"]
              \in [Workers -> {"idle", "running", "done", "failed"}]
        OBVIOUS
    <2> QED
        BY <2>1 DEF Inv, TypeOK, Attempt
<1>5. tries' \in [Procs -> [Workers -> 0..ChunkTries]]
    <2>1. [c \in Workers |-> 0] \in [Workers -> 0..ChunkTries]
        BY ConstantsTyped
    <2> QED
        BY <2>1 DEF Inv, TypeOK, Attempt
<1>6. file' \in [Procs -> Files] /\ hashed' \in [Procs -> Files]
    BY ConstantsTyped DEF Inv, TypeOK, Attempt
<1>7. tmp' \subseteq Procs /\ pc' \in [Procs -> PCs]
    BY DEF Inv, TypeOK, Attempt, Goto, PCs
<1> QED
    BY <1>2, <1>3, <1>4, <1>5, <1>6, <1>7 DEF Inv, TypeOK, Attempt

LEMMA FetchTyped ==
    ASSUME Inv, NEW p \in Procs, NEW c \in Workers, Fetch(p, c)
    PROVE  TypeOK'
<1>1. PICK reply \in Replies :
          /\ Get(p, reply)
          /\ reply \in {"range", "cut", "silent"} => Start(p, c) < Len(Blob)
          /\ file' = [file EXCEPT
                 ![p] = Overlay(@, Start(p, c), Body(p, c, reply))]
          /\ \/ /\ chunk' = [chunk EXCEPT ![p][c] = "done"]
                /\ UNCHANGED tries
             \/ /\ TryAgain(p, c, reply)
                /\ tries' = [tries EXCEPT ![p][c] = @ + 1]
                /\ UNCHANGED chunk
             \/ /\ chunk' = [chunk EXCEPT ![p][c] = "failed"]
                /\ UNCHANGED tries
    BY DEF Fetch
<1>2. Overlay(file[p], Start(p, c), Body(p, c, reply)) \in Files
    BY <1>1, SizesType, RangeType, BodyType, OverlayType DEF Inv, TypeOK
<1>3. file' \in [Procs -> Files]
    BY <1>1, <1>2 DEF Inv, TypeOK
<1>4. tries[p][c] \in Nat
    BY ConstantsTyped DEF Inv, TypeOK
<1>5. tries' \in [Procs -> [Workers -> 0..ChunkTries]]
    <2>1. CASE TryAgain(p, c, reply) /\ tries' = [tries EXCEPT ![p][c] = @ + 1]
        <3>1. tries[p][c] + 1 \in 0..ChunkTries
            BY <2>1, <1>4, ConstantsTyped DEF TryAgain
        <3> QED
            BY <2>1, <3>1, WorkerPut DEF Inv, TypeOK
    <2> QED
        BY <1>1, <2>1 DEF Inv, TypeOK
<1>6. chunk' \in [Procs -> [Workers -> {"idle", "running", "done", "failed"}]]
    <2> DEFINE S == {"idle", "running", "done", "failed"}
    <2>1. chunk \in [Procs -> [Workers -> S]] /\ "done" \in S /\ "failed" \in S
        BY DEF Inv, TypeOK
    <2> HIDE DEF S
    <2>2. \A x \in S : [chunk EXCEPT ![p][c] = x] \in [Procs -> [Workers -> S]]
        BY <2>1, WorkerPut
    <2>3. chunk' \in [Procs -> [Workers -> S]]
        BY <1>1, <2>1, <2>2
    <2> QED
        BY <2>3 DEF S
<1>7. got' \in [Procs -> SUBSET Replies]
    BY <1>1, GetTyped DEF Inv
<1> QED
    BY <1>3, <1>5, <1>6, <1>7 DEF Inv, TypeOK, Fetch, cacheDir

LEMMA StreamTyped ==
    ASSUME Inv, NEW p \in Procs, Stream(p)
    PROVE  TypeOK'
<1>1. PICK bytes \in {Blob, Front(Blob)} :
          StreamTo(p, bytes) /\ (Get(p, "range") \/ Get(p, "silent"))
    BY DEF Stream
<1>2. Overlay(file[p], 0, bytes) \in Files
    BY <1>1, ConstantsTyped, OverlayType DEF Inv, TypeOK
<1>3. file' \in [Procs -> Files] /\ hashed' \in [Procs -> Files]
    BY <1>1, <1>2, ConstantsTyped DEF Inv, TypeOK, StreamTo
<1>4. got' \in [Procs -> SUBSET Replies]
    BY <1>1, GetTyped DEF Inv, Replies
<1> QED
    BY <1>3, <1>4 DEF Inv, TypeOK, Stream, Goto, cacheDir, work, PCs

LEMMA OtherTyped ==
    ASSUME Inv, NEW p \in Procs,
           \/ Open(p) \/ Verified(p) \/ Evict(p)
           \/ ParallelDone(p) \/ FallBack(p)
           \/ \E c \in Workers : OutOfRange(p, c)
           \/ StreamFails(p) \/ StreamDenied(p) \/ Publish(p) \/ Mismatch(p)
           \/ Apply(p) \/ Interrupt(p) \/ Die(p)
    PROVE  TypeOK'
<1> USE DEF Inv, TypeOK, Goto, Leave, cacheDir, work, PCs
<1>1. CASE Open(p)
    BY <1>1 DEF Open
<1>2. CASE Verified(p)
    BY <1>2 DEF Verified
<1>3. CASE Evict(p)
    BY <1>3 DEF Evict
<1>4. CASE ParallelDone(p)
    BY <1>4 DEF ParallelDone
<1>5. CASE FallBack(p)
    BY <1>5 DEF FallBack
<1>6. CASE \E c \in Workers : OutOfRange(p, c)
    BY <1>6 DEF OutOfRange
<1>7. CASE StreamFails(p)
    <2>1. got' \in [Procs -> SUBSET Replies]
        BY <1>7, GetTyped DEF StreamFails, Transient, Replies
    <2> QED
        BY <1>7, <2>1 DEF StreamFails, Retry, Unlink
<1>8. CASE StreamDenied(p)
    <2>1. got' \in [Procs -> SUBSET Replies]
        BY <1>8, GetTyped DEF StreamDenied, Replies
    <2> QED
        BY <1>8, <2>1 DEF StreamDenied, Unlink
<1>9. CASE Publish(p)
    BY <1>9 DEF Publish, Unlink, Inodes
<1>10. CASE Mismatch(p)
    BY <1>10 DEF Mismatch, Unlink
<1>11. CASE Apply(p)
    BY <1>11 DEF Apply
<1>12. CASE Interrupt(p)
    BY <1>12 DEF Interrupt, Unlink
<1>13. CASE Die(p)
    BY <1>13 DEF Die
<1> QED
    BY <1>1, <1>2, <1>3, <1>4, <1>5, <1>6, <1>7, <1>8, <1>9, <1>10, <1>11,
       <1>12, <1>13

-----------------------------------------------------------------------------
(***************************************************************************)
(* Every step preserves the rest of it.                                    *)
(***************************************************************************)
LEMMA TypeStep == Inv /\ [Next]_vars => TypeOK'
<1> SUFFICES ASSUME Inv, [Next]_vars PROVE TypeOK'
    OBVIOUS
<1>1. CASE \E p \in Procs : Advance(p) \/ Interrupt(p) \/ Die(p)
    BY <1>1, AttemptTyped, FetchTyped, StreamTyped, OtherTyped DEF Advance
<1>2. CASE Elsewhere
    BY <1>2 DEF Elsewhere, Sweep, Plant, Inv, TypeOK, Inodes, work
<1>3. CASE UNCHANGED vars
    BY <1>3 DEF Inv, TypeOK, vars, cacheDir, work
<1> QED
    BY <1>1, <1>2, <1>3 DEF Next

LEMMA LitterStep == Inv /\ [Next]_vars => NoLitter'
<1> SUFFICES ASSUME Inv, [Next]_vars PROVE NoLitter'
    OBVIOUS
<1> USE DEF Inv, TypeOK, NoLitter, Counting, Goto, Leave, Unlink, cacheDir
<1>1. ASSUME NEW p \in Procs,
             \/ Open(p) \/ Verified(p) \/ Evict(p) \/ Attempt(p)
             \/ ParallelDone(p) \/ FallBack(p)
      PROVE  NoLitter'
    <2>1. CASE Open(p) \/ Verified(p) \/ Evict(p)
        BY <2>1 DEF Open, Verified, Evict
    <2>2. CASE Attempt(p)
        BY <2>2 DEF Attempt
    <2>3. CASE ParallelDone(p) \/ FallBack(p)
        BY <2>3 DEF ParallelDone, FallBack
    <2> QED
        BY <1>1, <2>1, <2>2, <2>3
<1>2. ASSUME NEW p \in Procs, NEW c \in Workers, Fetch(p, c) \/ OutOfRange(p, c)
      PROVE  NoLitter'
    BY <1>2 DEF Fetch, OutOfRange
<1>3. ASSUME NEW p \in Procs, Stream(p) \/ StreamDenied(p)
      PROVE  NoLitter'
    BY <1>3 DEF Stream, StreamDenied
<1>4. ASSUME NEW p \in Procs, StreamFails(p)
      PROVE  NoLitter'
    BY <1>4 DEF StreamFails, Retry
<1>5. ASSUME NEW p \in Procs, Publish(p) \/ Mismatch(p) \/ Apply(p)
      PROVE  NoLitter'
    BY <1>5 DEF Publish, Mismatch, Apply
<1>6. ASSUME NEW p \in Procs, Interrupt(p) \/ Die(p)
      PROVE  NoLitter'
    BY <1>6 DEF Interrupt, Die
<1>7. CASE Elsewhere
    BY <1>7 DEF Elsewhere, Sweep, Plant
<1>8. CASE UNCHANGED vars
    BY <1>8 DEF vars
<1> QED
    BY <1>1, <1>2, <1>3, <1>4, <1>5, <1>6, <1>7, <1>8 DEF Next, Advance

LEMMA CountingStep == Inv /\ [Next]_vars => Counting'
<1> SUFFICES ASSUME Inv, [Next]_vars PROVE Counting'
    OBVIOUS
<1> USE ConstantsTyped DEF Inv, TypeOK, Counting, Goto, Leave
<1>1. ASSUME NEW p \in Procs,
             Open(p) \/ Verified(p) \/ Evict(p) \/ Attempt(p)
                 \/ ParallelDone(p) \/ FallBack(p)
      PROVE  Counting'
    BY <1>1 DEF Open, Verified, Evict, Attempt, ParallelDone, FallBack
<1>2. ASSUME NEW p \in Procs, NEW c \in Workers, Fetch(p, c) \/ OutOfRange(p, c)
      PROVE  Counting'
    BY <1>2 DEF Fetch, OutOfRange
<1>3. ASSUME NEW p \in Procs, Stream(p) \/ StreamDenied(p)
      PROVE  Counting'
    BY <1>3 DEF Stream, StreamDenied
<1>4. ASSUME NEW p \in Procs, StreamFails(p)
      PROVE  Counting'
    BY <1>4 DEF StreamFails, Retry
<1>5. ASSUME NEW p \in Procs, Publish(p) \/ Mismatch(p) \/ Apply(p)
      PROVE  Counting'
    <2>1. CASE Publish(p)
        BY <2>1 DEF Publish
    <2>2. CASE Mismatch(p)
        BY <2>2 DEF Mismatch
    <2>3. CASE Apply(p)
        BY <2>3 DEF Apply
    <2> QED
        BY <1>5, <2>1, <2>2, <2>3
<1>6. ASSUME NEW p \in Procs, Interrupt(p) \/ Die(p)
      PROVE  Counting'
    BY <1>6 DEF Interrupt, Die
<1>7. CASE Elsewhere
    BY <1>7 DEF Elsewhere
<1>8. CASE UNCHANGED vars
    BY <1>8 DEF vars
<1> QED
    BY <1>1, <1>2, <1>3, <1>4, <1>5, <1>6, <1>7, <1>8 DEF Next, Advance

LEMMA QuietStep == Inv /\ [Next]_vars => Quiet'
<1> SUFFICES ASSUME Inv, [Next]_vars PROVE Quiet'
    OBVIOUS
<1> USE DEF Inv, TypeOK, Quiet, Goto, Leave, work
<1>1. ASSUME NEW p \in Procs, Open(p) \/ Verified(p) \/ Evict(p)
      PROVE  Quiet'
    BY <1>1 DEF Open, Verified, Evict
<1>2. ASSUME NEW p \in Procs, Attempt(p)
      PROVE  Quiet'
    BY <1>2 DEF Attempt
<1>3. ASSUME NEW p \in Procs, ParallelDone(p) \/ FallBack(p)
      PROVE  Quiet'
    BY <1>3 DEF ParallelDone, FallBack, Joined
<1>4. ASSUME NEW p \in Procs, NEW c \in Workers, Fetch(p, c)
      PROVE  Quiet'
    BY <1>4 DEF Fetch
<1>5. ASSUME NEW p \in Procs, NEW c \in Workers, OutOfRange(p, c)
      PROVE  Quiet'
    BY <1>5 DEF OutOfRange
<1>6. ASSUME NEW p \in Procs,
             \/ Stream(p) \/ StreamDenied(p) \/ StreamFails(p)
             \/ Publish(p) \/ Mismatch(p) \/ Apply(p)
      PROVE  Quiet'
    BY <1>6 DEF Stream, StreamDenied, StreamFails, Retry, Publish, Mismatch,
                Apply
<1>7. ASSUME NEW p \in Procs, Interrupt(p) \/ Die(p)
      PROVE  Quiet'
    <2>1. CASE Interrupt(p)
        BY <2>1 DEF Interrupt, Joined
    <2>2. CASE Die(p)
        <3>1. \A q \in Procs : q # p => chunk'[q] = chunk[q] /\ pc'[q] = pc[q]
            BY <2>2 DEF Die
        <3>2. \A c \in Workers : chunk'[p][c] # "running"
            BY <2>2 DEF Die
        <3> QED
            BY <3>1, <3>2
    <2> QED
        BY <1>7, <2>1, <2>2
<1>8. CASE Elsewhere
    BY <1>8 DEF Elsewhere
<1>9. CASE UNCHANGED vars
    BY <1>9 DEF vars
<1> QED
    BY <1>1, <1>2, <1>3, <1>4, <1>5, <1>6, <1>7, <1>8, <1>9 DEF Next, Advance

LEMMA FinalStep == Inv /\ [Next]_vars => Final'
<1> SUFFICES ASSUME Inv, [Next]_vars, NEW r \in Procs, Named(r)'
             PROVE  pc'[r] \in {"apply", "ended"}
    BY DEF Final
<1> USE DEF Inv, TypeOK, Final, Named, Goto, Leave, cacheDir
<1>1. ASSUME NEW p \in Procs, Open(p) \/ Verified(p) \/ Evict(p)
      PROVE  pc'[r] \in {"apply", "ended"}
    <2>1. CASE Open(p)
        <3>1. Named(r)
            BY <2>1 DEF Open
        <3> QED
            BY <2>1, <3>1 DEF Open
    <2>2. CASE Verified(p)
        BY <2>2 DEF Verified
    <2>3. CASE Evict(p)
        <3>1. Named(r)
            BY <2>3, ConstantsTyped DEF Evict
        <3> QED
            BY <2>3, <3>1 DEF Evict
    <2> QED
        BY <1>1, <2>1, <2>2, <2>3
<1>2. ASSUME NEW p \in Procs, Attempt(p) \/ ParallelDone(p) \/ FallBack(p)
      PROVE  pc'[r] \in {"apply", "ended"}
    BY <1>2 DEF Attempt, ParallelDone, FallBack
<1>3. ASSUME NEW p \in Procs, NEW c \in Workers, Fetch(p, c) \/ OutOfRange(p, c)
      PROVE  pc'[r] \in {"apply", "ended"}
    BY <1>3 DEF Fetch, OutOfRange
<1>4. ASSUME NEW p \in Procs, Stream(p) \/ StreamDenied(p) \/ StreamFails(p)
      PROVE  pc'[r] \in {"apply", "ended"}
    BY <1>4 DEF Stream, StreamDenied, StreamFails, Retry
<1>5. ASSUME NEW p \in Procs, Publish(p)
      PROVE  pc'[r] \in {"apply", "ended"}
    BY <1>5 DEF Publish
<1>6. ASSUME NEW p \in Procs,
             Mismatch(p) \/ Apply(p) \/ Interrupt(p) \/ Die(p)
      PROVE  pc'[r] \in {"apply", "ended"}
    BY <1>6 DEF Mismatch, Apply, Interrupt, Die
<1>7. CASE Elsewhere
    BY <1>7, ConstantsTyped DEF Elsewhere, Sweep, Plant
<1>8. CASE UNCHANGED vars
    BY <1>8 DEF vars
<1> QED
    BY <1>1, <1>2, <1>3, <1>4, <1>5, <1>6, <1>7, <1>8 DEF Next, Advance

(* What is named is written by nobody. *)
LEMMA NamedStays ==
    ASSUME Inv, [Next]_vars, NEW r \in Procs, Named(r)
    PROVE  file'[r] = file[r]
<1> USE DEF Inv, TypeOK, Quiet, Final, Named
<1>1. pc[r] \in {"apply", "ended"} /\ \A c \in Workers : chunk[r][c] # "running"
    OBVIOUS
<1>2. ASSUME NEW p \in Procs, NEW c \in Workers, Fetch(p, c) \/ OutOfRange(p, c)
      PROVE  file'[r] = file[r]
    BY <1>1, <1>2 DEF Fetch, OutOfRange
<1>3. ASSUME NEW p \in Procs, Attempt(p) \/ Stream(p)
      PROVE  file'[r] = file[r]
    BY <1>1, <1>3 DEF Attempt, Stream, StreamTo
<1>4. ASSUME NEW p \in Procs,
             \/ Open(p) \/ Verified(p) \/ Evict(p)
             \/ ParallelDone(p) \/ FallBack(p)
             \/ StreamFails(p) \/ StreamDenied(p) \/ Publish(p) \/ Mismatch(p)
             \/ Apply(p) \/ Interrupt(p) \/ Die(p)
      PROVE  file'[r] = file[r]
    BY <1>4 DEF Open, Verified, Evict, ParallelDone, FallBack, StreamFails,
                StreamDenied, Publish, Mismatch, Apply, Interrupt, Die
<1>5. CASE Elsewhere
    BY <1>5 DEF Elsewhere
<1>6. CASE UNCHANGED vars
    BY <1>6 DEF vars
<1> QED
    BY <1>2, <1>3, <1>4, <1>5, <1>6 DEF Next, Advance

LEMMA AppliedStep == Inv /\ [Next]_vars => AppliedWhole'
<1> SUFFICES ASSUME Inv, [Next]_vars, NEW r \in Procs, result'[r] = "done"
             PROVE  Content(fd[r])' = Blob
    BY DEF AppliedWhole
<1>1. CASE Apply(r)
    BY <1>1 DEF Apply, Leave, Goto, Content, Inv, TypeOK
<1>2. CASE ~Apply(r)
    <2>1. result[r] = "done"
        <3> USE DEF Inv, TypeOK, Goto, Leave
        <3>1. ASSUME NEW p \in Procs,
                     \/ Open(p) \/ Verified(p) \/ Evict(p) \/ Attempt(p)
                     \/ ParallelDone(p) \/ FallBack(p) \/ Stream(p)
                     \/ StreamDenied(p) \/ StreamFails(p)
              PROVE  result[r] = "done"
            BY <3>1 DEF Open, Verified, Evict, Attempt, ParallelDone, FallBack,
                        Stream, StreamDenied, StreamFails, Retry
        <3>2. ASSUME NEW p \in Procs, NEW c \in Workers,
                     Fetch(p, c) \/ OutOfRange(p, c)
              PROVE  result[r] = "done"
            BY <3>2 DEF Fetch, OutOfRange
        <3>3. ASSUME NEW p \in Procs,
                     \/ Publish(p) \/ Mismatch(p) \/ Interrupt(p) \/ Die(p)
              PROVE  result[r] = "done"
            BY <3>3 DEF Publish, Mismatch, Interrupt, Die
        <3>4. ASSUME NEW p \in Procs, Apply(p)
              PROVE  result[r] = "done"
            BY <3>4, <1>2 DEF Apply
        <3>5. CASE Elsewhere
            BY <3>5 DEF Elsewhere
        <3>6. CASE UNCHANGED vars
            BY <3>6 DEF vars
        <3> QED
            BY <3>1, <3>2, <3>3, <3>4, <3>5, <3>6 DEF Next, Advance
    <2>2. pc[r] = "ended" /\ Content(fd[r]) = Blob
        BY <2>1 DEF Inv, Counting, AppliedWhole
    <2>3. fd'[r] = fd[r]
        <3> USE DEF Inv, TypeOK
        <3>1. ASSUME NEW p \in Procs,
                     \/ Open(p) \/ Evict(p) \/ Publish(p)
              PROVE  fd'[r] = fd[r]
            BY <3>1, <2>2 DEF Open, Evict, Publish
        <3>2. ASSUME NEW p \in Procs, NEW c \in Workers,
                     Fetch(p, c) \/ OutOfRange(p, c)
              PROVE  fd'[r] = fd[r]
            BY <3>2 DEF Fetch, OutOfRange
        <3>3. ASSUME NEW p \in Procs,
                     \/ Verified(p) \/ Attempt(p)
                     \/ ParallelDone(p) \/ FallBack(p)
                     \/ Stream(p) \/ StreamDenied(p) \/ StreamFails(p)
                     \/ Mismatch(p) \/ Apply(p) \/ Interrupt(p) \/ Die(p)
              PROVE  fd'[r] = fd[r]
            BY <3>3 DEF Verified, Attempt, ParallelDone, FallBack, Stream,
                        StreamDenied, StreamFails, Mismatch, Apply, Interrupt,
                        Die
        <3>4. CASE Elsewhere
            BY <3>4 DEF Elsewhere
        <3>5. CASE UNCHANGED vars
            BY <3>5 DEF vars
        <3> QED
            BY <3>1, <3>2, <3>3, <3>4, <3>5 DEF Next, Advance
    <2>4. fd[r] \in Procs => file'[fd[r]] = file[fd[r]]
        BY NamedStays DEF Named
    <2> QED
        BY <2>2, <2>3, <2>4 DEF Content
<1> QED
    BY <1>1, <1>2

LEMMA InvStep == Inv /\ [Next]_vars => Inv'
BY TypeStep, LitterStep, CountingStep, QuietStep, FinalStep, AppliedStep DEF Inv

LEMMA Invariance == Spec => []Inv
BY InvInit, InvStep, PTL DEF Spec

-----------------------------------------------------------------------------
(***************************************************************************)
(* The ranges of a blob.                                                   *)
(***************************************************************************)
(* Unless it is the whole blob, what a worker writes is a slice of it that *)
(* begins where its range does.                                            *)
LEMMA BodyIsSlice ==
    ASSUME NEW p \in Procs, size[p] \in Nat, NEW c \in Workers,
           NEW reply \in Replies, reply # "whole",
           reply \in {"range", "cut", "silent"} => Start(p, c) < Len(Blob)
    PROVE  \E n \in Nat : /\ n <= Len(Blob)
                          /\ Body(p, c, reply) = SubSeq(Blob, Start(p, c) + 1, n)
<1>1. Start(p, c) \in Nat /\ End(p, c) \in Nat /\ Len(Blob) \in Nat
    BY RangeType, ConstantsTyped
<1>2. CASE reply = "range"
    <2>1. /\ Smaller(End(p, c), Len(Blob)) \in Nat
          /\ Smaller(End(p, c), Len(Blob)) <= Len(Blob)
        BY <1>1 DEF Smaller
    <2> QED
        BY <1>2, <2>1 DEF Body
<1>3. CASE reply \in {"cut", "silent"}
    <2>1. Start(p, c) + 1 \in Nat /\ Start(p, c) + 1 <= Len(Blob)
        BY <1>1, <1>3
    <2> QED
        BY <1>3, <2>1 DEF Body
<1>4. CASE reply \in {"full", "broken", "denied"}
    <2>1. SubSeq(Blob, Start(p, c) + 1, 0) = << >>
        BY <1>1, SubSeqEmpty
    <2>2. Body(p, c, reply) = << >>
        BY <1>4 DEF Body
    <2> QED
        BY <1>1, <2>1, <2>2
<1> QED
    BY <1>2, <1>3, <1>4 DEF Replies

(* Such a slice spoils nothing that is right, and makes its own part right. *)
LEMMA SliceWritten ==
    ASSUME NEW f \in Files, Len(f) <= Len(Blob), NEW at \in Nat, NEW n \in Nat,
           n <= Len(Blob)
    PROVE  LET g == Overlay(f, at, SubSeq(Blob, at + 1, n))
           IN /\ Len(f) <= Len(g) /\ Len(g) <= Len(Blob)
              /\ \A i \in Nat : 1 <= i /\ i <= Len(f) /\ f[i] = Blob[i]
                                => g[i] = Blob[i]
              /\ \A i \in Nat : at < i /\ i <= n => i <= Len(g) /\ g[i] = Blob[i]
<1> DEFINE bytes == SubSeq(Blob, at + 1, n)
           g == Overlay(f, at, bytes)
<1>1. Len(Blob) \in Nat /\ Len(f) \in Nat /\ \A i \in 1..Len(Blob) : Blob[i] \in Bytes
    BY BlobIsFile, LenProperties, ElementOfSeq
<1>2. /\ bytes \in Files
      /\ Len(bytes) = IF at + 1 <= n THEN n - at ELSE 0
      /\ \A i \in 1..(n - at) : bytes[i] = Blob[at + i]
    <2> DEFINE m == at + 1
    <2>1. m \in Int /\ n \in Int /\ \A i \in m..n : Blob[i] \in Bytes
        BY <1>1
    <2>2. /\ SubSeq(Blob, m, n) \in Seq(Bytes)
          /\ Len(SubSeq(Blob, m, n)) = IF m <= n THEN n - m + 1 ELSE 0
          /\ \A i \in 1..(n - m + 1) : SubSeq(Blob, m, n)[i] = Blob[m + i - 1]
        <3> HIDE DEF m
        <3> QED BY <2>1, SubSeqProperties
    <2>3. \A i \in 1..(n - at) : bytes[i] = Blob[at + i]
        <3> SUFFICES ASSUME NEW i \in 1..(n - at) PROVE bytes[i] = Blob[at + i]
            OBVIOUS
        <3>1. i \in 1..(n - m + 1) /\ m + i - 1 = at + i
            OBVIOUS
        <3> QED BY <2>2, <3>1
    <2> QED
        BY <2>2, <2>3, BlobIsFile
<1>3. CASE n <= at
    <2>1. bytes = << >>
        BY <1>3, SubSeqEmpty
    <2>2. g = f
        BY <2>1 DEF Overlay
    <2> QED
        BY <1>1, <1>3, <2>2
<1>4. CASE at < n
    <2>1. Len(bytes) = n - at
        BY <1>2, <1>4
    <2>2. bytes # << >>
        BY <1>4, <2>1, EmptySeq
    <2> DEFINE k == IF Len(f) > n THEN Len(f) ELSE n
    <2>3. /\ Len(g) = k
          /\ \A i \in 1..k : g[i] = IF i > at /\ i <= n THEN bytes[i - at]
                                    ELSE IF i <= Len(f) THEN f[i] ELSE 0
        <3>1. at + Len(bytes) = n
            BY <2>1
        <3> HIDE DEF bytes
        <3> QED BY <1>2, <2>2, <3>1, OverlayType
    <2>4. \A i \in Nat : at < i /\ i <= n => i <= Len(g) /\ g[i] = Blob[i]
        <3> SUFFICES ASSUME NEW i \in Nat, at < i, i <= n
                     PROVE  i <= Len(g) /\ g[i] = Blob[i]
            OBVIOUS
        <3>1. i - at \in 1..(n - at) /\ at + (i - at) = i
            OBVIOUS
        <3>2. bytes[i - at] = Blob[i]
            BY <1>2, <3>1
        <3>3. i \in 1..k
            BY <1>1
        <3> HIDE DEF g, bytes
        <3> QED BY <2>3, <3>2, <3>3
    <2>5. \A i \in Nat : 1 <= i /\ i <= Len(f) /\ f[i] = Blob[i] => g[i] = Blob[i]
        <3> SUFFICES ASSUME NEW i \in Nat, 1 <= i, i <= Len(f), f[i] = Blob[i]
                     PROVE  g[i] = Blob[i]
            OBVIOUS
        <3>1. CASE at < i /\ i <= n
            BY <2>4, <3>1
        <3>2. CASE ~(at < i /\ i <= n)
            <4>1. i \in 1..k
                BY <1>1
            <4> HIDE DEF g, bytes
            <4> QED BY <2>3, <3>2, <4>1
        <3> QED BY <3>1, <3>2
    <2> HIDE DEF g, bytes
    <2> QED
        BY <1>1, <2>3, <2>4, <2>5 DEF g, bytes
<1> QED
    BY <1>3, <1>4

(* The ranges leave no byte out.                                           *)
LEMMA RangesCover ==
    ASSUME NEW p \in Procs, size[p] \in Nat, NEW i \in 1..size[p]
    PROVE  \E c \in Workers : Start(p, c) < i /\ i <= End(p, c)
<1> DEFINE q == size[p] \div Chunks
<1>1. Chunks \in Nat /\ Chunks >= 1
    BY ConstantsTyped
<1>2. q \in Nat
    BY <1>1
<1> HIDE DEF q
<1>3. \A c \in Nat : Start(p, c) = (c - 1) * q
    BY DEF Start, q
<1>4. \A c \in Nat : c # Chunks => End(p, c) = c * q
    BY DEF End, q
<1>5. Chunks \in Workers /\ Start(p, Chunks) = (Chunks - 1) * q /\ End(p, Chunks) = size[p]
    BY <1>1, <1>3 DEF Workers, End
<1>6. CASE q = 0
    <2>1. (Chunks - 1) * q = 0
        BY <1>1, <1>6
    <2> QED
        BY <1>5, <2>1
<1>7. CASE q > 0
    <2> DEFINE k == (i - 1) \div q
    <2>1. k \in Nat /\ k * q <= i - 1 /\ i - 1 < (k + 1) * q
        <3>1. i - 1 \in Nat
            OBVIOUS
        <3> QED BY <1>2, <1>7, <3>1
    <2>2. CASE k + 1 < Chunks
        <3> HIDE DEF k
        <3>1. PICK m \in Nat : m = k + 1
            BY <2>1
        <3>2. m \in Workers /\ m # Chunks
            BY <1>1, <2>1, <2>2, <3>1 DEF Workers
        <3>3. Start(p, m) = (m - 1) * q /\ End(p, m) = m * q
            BY <1>3, <1>4, <3>1, <3>2
        <3>4. m - 1 = k
            BY <2>1, <3>1
        <3>5. (k + 1) * q \in Nat /\ k * q \in Nat
            BY <1>2, <2>1
        <3>6. Start(p, m) < i /\ i <= End(p, m)
            BY <2>1, <3>1, <3>3, <3>4, <3>5
        <3> QED
            BY <3>2, <3>6
    <2>3. CASE k + 1 >= Chunks
        <3>1. (Chunks - 1) * q <= k * q
            <4> HIDE DEF k
            <4> QED BY <1>1, <1>2, <2>1, <2>3
        <3>2. (Chunks - 1) * q \in Nat /\ k * q \in Nat
            <4> HIDE DEF k
            <4> QED BY <1>1, <1>2, <2>1
        <3> HIDE DEF k
        <3>3. Start(p, Chunks) < i /\ i <= End(p, Chunks)
            BY <1>5, <2>1, <3>1, <3>2
        <3> QED
            BY <1>5, <3>3
    <2> QED
        BY <1>1, <2>1, <2>2, <2>3
<1> QED
    BY <1>2, <1>6, <1>7

-----------------------------------------------------------------------------
(***************************************************************************)
(* Why a download fails.                                                   *)
(***************************************************************************)
(* It got bytes that are not those asked for, was refused, or was told a   *)
(* size that is too small.                                                 *)
Cause(p) == \/ got[p] \cap {"denied", "whole", "silent"} # {}
            \/ said[p] \in Threshold..(Len(Blob) - 1)

(* The range of worker c holds the bytes of the blob.                      *)
Right(p, c) ==
    \A i \in (Start(p, c) + 1)..End(p, c) :
        i <= Len(file[p]) /\ file[p][i] = Blob[i]

(* As long as no reply overran its range, the file is no longer than the   *)
(* blob, and what a worker has done is right.                              *)
Fetched == \A p \in Procs :
    /\ pc[p] = "parallel" =>
           /\ size[p] >= Threshold
           /\ IF said[p] > 0 THEN size[p] = said[p] ELSE size[p] \in {0, Len(Blob)}
    /\ pc[p] \in {"parallel", "stream"} /\ "whole" \notin got[p] =>
           Len(file[p]) <= Len(Blob)
    /\ pc[p] = "parallel" /\ "whole" \notin got[p] =>
           \A c \in Workers : chunk[p][c] = "done" => Right(p, c)

(* A digest that will not agree has a cause.                               *)
Blamed == \A p \in Procs :
    /\ pc[p] = "check" => Cause(p) \/ (hashed[p] = Blob /\ file[p] = Blob)
    /\ pc[p] = "apply" => Cause(p) \/ Content(fd[p]) = Blob


(* A command that failed can say why.                                      *)
Excused == \A p \in Procs : result[p] = "failed" =>
    (attempt[p] = BlobTries /\ got[p] \cap Transient # {}) \/ Cause(p)

Sized == size \in [Procs -> Nat]

Explained == Sized /\ Fetched /\ Blamed /\ Excused

LEMMA ExplainedInit == Init => Explained
BY DEF Init, Explained, Sized, Fetched, Blamed, Excused

(* A worker that has what it expected has its range right, and leaves the  *)
(* others' right.                                                          *)
LEMMA FetchRight ==
    ASSUME Inv, Explained, NEW p \in Procs, NEW c \in Workers, Fetch(p, c),
           "whole" \notin got'[p]
    PROVE  /\ Len(file'[p]) <= Len(Blob)
           /\ \A d \in Workers : chunk'[p][d] = "done" => Right(p, d)'
<1>1. PICK reply \in Replies :
          /\ Get(p, reply)
          /\ reply \in {"range", "cut", "silent"} => Start(p, c) < Len(Blob)
          /\ file' = [file EXCEPT
                 ![p] = Overlay(@, Start(p, c), Body(p, c, reply))]
          /\ \/ Enough(p, c, reply) /\ chunk' = [chunk EXCEPT ![p][c] = "done"]
             \/ chunk' = chunk
             \/ chunk' = [chunk EXCEPT ![p][c] = "failed"]
    BY DEF Fetch
<1>2. got'[p] = got[p] \cup {reply} \/ (got'[p] = got[p] /\ reply # "whole")
    BY <1>1 DEF Get, Inv, TypeOK
<1>3. reply # "whole" /\ "whole" \notin got[p]
    BY <1>2
<1>4. pc[p] = "parallel"
    BY DEF Fetch, Inv, Quiet
<1>5. Len(file[p]) <= Len(Blob) /\ \A d \in Workers : chunk[p][d] = "done" => Right(p, d)
    BY <1>3, <1>4 DEF Explained, Fetched
<1>6. size[p] \in Nat /\ file[p] \in Files
    BY SizesType DEF Inv, TypeOK
<1>7. \A d \in Workers : Start(p, d) \in Nat /\ End(p, d) \in Nat
    BY <1>6, RangeType
<1>8. PICK n \in Nat : /\ n <= Len(Blob)
                       /\ Body(p, c, reply) = SubSeq(Blob, Start(p, c) + 1, n)
    BY <1>1, <1>3, <1>6, BodyIsSlice
<1> DEFINE at == Start(p, c)
           g == Overlay(file[p], at, SubSeq(Blob, at + 1, n))
<1>9. /\ Len(file[p]) <= Len(g) /\ Len(g) <= Len(Blob)
      /\ \A i \in Nat : 1 <= i /\ i <= Len(file[p]) /\ file[p][i] = Blob[i]
                        => g[i] = Blob[i]
      /\ \A i \in Nat : at < i /\ i <= n => i <= Len(g) /\ g[i] = Blob[i]
    BY <1>5, <1>6, <1>7, <1>8, SliceWritten
<1>10. file'[p] = g
    BY <1>1, <1>8 DEF Inv, TypeOK
<1>11. g \in Files /\ Len(g) \in Nat /\ Len(file[p]) \in Nat
    <2>1. file' \in [Procs -> Files]
        BY FetchTyped DEF TypeOK
    <2> QED
        BY <1>6, <1>10, <2>1, BlobIsFile, LenProperties
<1>12. UNCHANGED size
    BY DEF Fetch
<1>13. \A d \in Workers : Start(p, d)' = Start(p, d) /\ End(p, d)' = End(p, d)
    BY <1>12 DEF Start, End
<1> HIDE DEF g
<1>14. ASSUME NEW d \in Workers, Right(p, d)
       PROVE  Right(p, d)'
    <2> SUFFICES ASSUME NEW i \in (Start(p, d) + 1)..End(p, d)
                 PROVE  i <= Len(g) /\ g[i] = Blob[i]
        BY <1>10, <1>13 DEF Right
    <2>1. i <= Len(file[p]) /\ file[p][i] = Blob[i]
        BY <1>14 DEF Right
    <2>2. i \in Nat /\ 1 <= i
        BY <1>7
    <2> QED
        BY <1>9, <1>11, <2>1, <2>2
<1>15. ASSUME Enough(p, c, reply)
       PROVE  Right(p, c)'
    <2> SUFFICES ASSUME NEW i \in (Start(p, c) + 1)..End(p, c)
                 PROVE  i <= Len(g) /\ g[i] = Blob[i]
        BY <1>10, <1>13 DEF Right
    <2>1. Len(SubSeq(Blob, at + 1, n)) >= End(p, c) - at
        BY <1>8, <1>15 DEF Enough
    <2>2. at \in Nat /\ End(p, c) \in Nat /\ i \in Nat /\ at < i /\ i <= End(p, c)
        BY <1>7
    <2>3. i <= n
        <3>1. Len(Blob) \in Nat /\ \A j \in 1..Len(Blob) : Blob[j] \in Bytes
            BY BlobIsFile, LenProperties, ElementOfSeq
        <3> DEFINE m == at + 1
        <3>2. m \in Int /\ n \in Int /\ \A j \in m..n : Blob[j] \in Bytes
            BY <1>8, <2>2, <3>1
        <3>3. Len(SubSeq(Blob, m, n)) = IF m <= n THEN n - m + 1 ELSE 0
            <4> HIDE DEF m
            <4> QED BY <3>2, SubSeqProperties
        <3> HIDE DEF at
        <3> QED BY <2>1, <2>2, <3>3
    <2> QED
        BY <1>9, <2>2, <2>3
<1>16. \A d \in Workers : chunk'[p][d] = "done" =>
           chunk[p][d] = "done" \/ (d = c /\ Enough(p, c, reply))
    BY <1>1 DEF Inv, TypeOK
<1> QED
    BY <1>5, <1>9, <1>10, <1>14, <1>15, <1>16

(* When all have what they expected, and the length is the one announced,  *)
(* the file is the blob.                                                   *)
LEMMA CompleteIsBlob ==
    ASSUME Inv, Explained, NEW p \in Procs, pc[p] = "parallel", Complete(p),
           ~Cause(p)
    PROVE  file[p] = Blob
<1>1. "whole" \notin got[p] /\ said[p] \notin Threshold..(Len(Blob) - 1)
    BY DEF Cause
<1>2. /\ size[p] \in Nat /\ said[p] \in Nat /\ Threshold \in Nat /\ Len(Blob) \in Nat
      /\ file[p] \in Seq(Bytes) /\ Blob \in Seq(Bytes)
    BY SizesType, ConstantsTyped, BlobIsFile DEF Inv, TypeOK
<1>3. /\ size[p] >= Threshold
      /\ IF said[p] > 0 THEN size[p] = said[p] ELSE size[p] \in {0, Len(Blob)}
      /\ Len(file[p]) <= Len(Blob)
      /\ \A c \in Workers : Right(p, c)
      /\ Len(file[p]) = size[p]
    BY <1>1 DEF Explained, Fetched, Complete
<1>4. size[p] = Len(Blob)
    BY <1>1, <1>2, <1>3
<1>5. ASSUME NEW i \in 1..size[p]
      PROVE  file[p][i] = Blob[i]
    <2>1. PICK c \in Workers : Start(p, c) < i /\ i <= End(p, c)
        BY <1>2, RangesCover
    <2>2. Start(p, c) \in Nat /\ End(p, c) \in Nat
        BY <1>2, RangeType
    <2>3. i \in (Start(p, c) + 1)..End(p, c)
        BY <1>2, <2>1, <2>2
    <2> QED
        BY <1>3, <2>3 DEF Right
<1> QED
    BY <1>2, <1>3, <1>4, <1>5, SeqEqual

(* A stream that is sent whole is written over whatever the file held.     *)
LEMMA StreamRight ==
    ASSUME NEW f \in Files, Len(f) <= Len(Blob)
    PROVE  Overlay(f, 0, Blob) = Blob
<1>1. Blob \in Files /\ Blob \in Seq(Bytes) /\ f \in Seq(Bytes) /\ Len(Blob) \in Nat
      /\ Len(f) \in Nat
    BY ConstantsTyped, BlobIsFile, LenProperties
<1>2. CASE Blob = << >>
    <2>1. Len(f) = 0
        BY <1>1, <1>2, EmptySeq
    <2> QED
        BY <1>1, <1>2, <2>1, EmptySeq DEF Overlay
<1>3. CASE Blob # << >>
    <2> DEFINE g == Overlay(f, 0, Blob)
    <2>1. /\ g \in Seq(Bytes) /\ Len(g) = Len(Blob)
          /\ \A i \in 1..Len(Blob) : g[i] = Blob[i]
        <3>1. /\ g \in Files
              /\ LET n == IF Len(f) > 0 + Len(Blob) THEN Len(f) ELSE 0 + Len(Blob)
                 IN /\ Len(g) = n
                    /\ \A i \in 1..n : g[i] =
                           IF i > 0 /\ i <= 0 + Len(Blob) THEN Blob[i - 0]
                           ELSE IF i <= Len(f) THEN f[i] ELSE 0
            BY <1>1, <1>3, OverlayType
        <3> HIDE DEF g
        <3> QED BY <1>1, <3>1, BlobIsFile
    <2> HIDE DEF g
    <2> QED
        BY <1>1, <2>1, SeqEqual DEF g
<1> QED
    BY <1>2, <1>3

-----------------------------------------------------------------------------
(***************************************************************************)
(* Every step preserves that.                                              *)
(***************************************************************************)
(* What the manifest says does not change, and replies are not forgotten.  *)
LEMMA CauseStays ==
    ASSUME Inv, [Next]_vars, NEW r \in Procs
    PROVE  /\ said'[r] = said[r] /\ got[r] \subseteq got'[r]
           /\ Cause(r) => Cause(r)'
<1> USE DEF Inv, TypeOK, Get, work
<1>1. said' = said
    BY DEF Next, Advance, Open, Verified, Evict, Attempt, ParallelDone, FallBack,
           Fetch, OutOfRange, Stream, StreamFails, StreamDenied, Publish, Mismatch,
           Apply, Interrupt, Die, Elsewhere, vars
<1>2. got[r] \subseteq got'[r]
    <2>1. ASSUME NEW p \in Procs, NEW reply \in Replies, Get(p, reply)
          PROVE  got[r] \subseteq got'[r]
        BY <2>1
    <2>2. ASSUME NEW p \in Procs, NEW c \in Workers, Fetch(p, c)
          PROVE  got[r] \subseteq got'[r]
        BY <2>2, <2>1 DEF Fetch
    <2>3. ASSUME NEW p \in Procs, Stream(p) \/ StreamFails(p) \/ StreamDenied(p)
          PROVE  got[r] \subseteq got'[r]
        <3>1. CASE Stream(p)
            BY <3>1, <2>1 DEF Stream, Replies
        <3>2. CASE StreamFails(p)
            BY <3>2, <2>1 DEF StreamFails, Transient, Replies
        <3>3. CASE StreamDenied(p)
            BY <3>3, <2>1 DEF StreamDenied, Replies
        <3> QED
            BY <2>3, <3>1, <3>2, <3>3
    <2> QED
        BY <2>2, <2>3 DEF Next, Advance, Open, Verified, Evict, Attempt, ParallelDone,
           FallBack, OutOfRange, Publish, Mismatch, Apply, Interrupt, Die, Elsewhere,
           vars
<1> QED
    BY <1>1, <1>2 DEF Cause

(* A command's step is nobody else's.                                      *)
LEMMA OthersStay ==
    ASSUME Inv, Sized, NEW p \in Procs, Advance(p) \/ Interrupt(p) \/ Die(p),
           NEW r \in Procs, r # p
    PROVE  /\ file'[r] = file[r] /\ pc'[r] = pc[r] /\ size'[r] = size[r]
           /\ chunk'[r] = chunk[r] /\ attempt'[r] = attempt[r]
           /\ hashed'[r] = hashed[r] /\ fd'[r] = fd[r] /\ result'[r] = result[r]
           /\ got'[r] = got[r]
<1> USE DEF Inv, TypeOK, Goto, Leave, Get, work
<1>1. CASE Open(p) \/ Verified(p) \/ Evict(p)
    BY <1>1 DEF Open, Verified, Evict
<1>2. CASE ParallelDone(p) \/ FallBack(p)
    BY <1>2 DEF ParallelDone, FallBack
<1>3. CASE \E c \in Workers : Fetch(p, c)
    <2>1. UNCHANGED <<pc, size, attempt, hashed, fd, result>>
        BY <1>3 DEF Fetch
    <2>2. file'[r] = file[r] /\ chunk'[r] = chunk[r] /\ got'[r] = got[r]
        BY <1>3 DEF Fetch
    <2> QED
        BY <2>1, <2>2
<1>4. CASE \E c \in Workers : OutOfRange(p, c)
    BY <1>4 DEF OutOfRange
<1>5. CASE Stream(p)
    <2>1. UNCHANGED <<size, chunk, attempt, fd, result>>
        BY <1>5 DEF Stream
    <2>2. file'[r] = file[r] /\ pc'[r] = pc[r] /\ hashed'[r] = hashed[r]
          /\ got'[r] = got[r]
        BY <1>5 DEF Stream, StreamTo
    <2> QED
        BY <2>1, <2>2
<1>6. CASE StreamFails(p)
    BY <1>6 DEF StreamFails, Retry
<1>7. CASE StreamDenied(p) \/ Publish(p) \/ Mismatch(p) \/ Apply(p)
    BY <1>7 DEF StreamDenied, Publish, Mismatch, Apply
<1>8. CASE Interrupt(p) \/ Die(p)
    BY <1>8 DEF Interrupt, Die
<1>9. CASE Attempt(p)
    <2>1. file'[r] = file[r] /\ hashed'[r] = hashed[r] /\ attempt'[r] = attempt[r]
          /\ UNCHANGED <<fd, result, got>>
        BY <1>9 DEF Attempt
    <2>2. size'[r] = size[r]
        BY <1>9 DEF Attempt, Sized
    <2>3. chunk'[r] = chunk[r] /\ pc'[r] = pc[r]
        BY <1>9 DEF Attempt
    <2> QED
        BY <2>1, <2>2, <2>3
<1> QED
    BY <1>1, <1>2, <1>3, <1>4, <1>5, <1>6, <1>7, <1>8, <1>9 DEF Advance

(* The parts of Explained, for one command. *)
FetchedOne(p) ==
    /\ pc[p] = "parallel" =>
           /\ size[p] >= Threshold
           /\ IF said[p] > 0 THEN size[p] = said[p] ELSE size[p] \in {0, Len(Blob)}
    /\ pc[p] \in {"parallel", "stream"} /\ "whole" \notin got[p] =>
           Len(file[p]) <= Len(Blob)
    /\ pc[p] = "parallel" /\ "whole" \notin got[p] =>
           \A c \in Workers : chunk[p][c] = "done" => Right(p, c)

ExplainedOne(p) ==
    /\ FetchedOne(p)
    /\ pc[p] = "check" => Cause(p) \/ (hashed[p] = Blob /\ file[p] = Blob)
    /\ pc[p] = "apply" => Cause(p) \/ Content(fd[p]) = Blob
    /\ result[p] = "failed" =>
           (attempt[p] = BlobTries /\ got[p] \cap Transient # {}) \/ Cause(p)

LEMMA OneByOne == Explained <=> Sized /\ \A p \in Procs : ExplainedOne(p)
BY DEF Explained, Fetched, Blamed, Excused, ExplainedOne, FetchedOne

LEMMA OthersExplained ==
    ASSUME Inv, [Next]_vars, NEW r \in Procs, ExplainedOne(r),
           /\ file'[r] = file[r] /\ pc'[r] = pc[r] /\ size'[r] = size[r]
           /\ chunk'[r] = chunk[r] /\ attempt'[r] = attempt[r]
           /\ hashed'[r] = hashed[r] /\ fd'[r] = fd[r] /\ result'[r] = result[r]
           /\ got'[r] = got[r]
    PROVE  ExplainedOne(r)'
<1>1. said'[r] = said[r]
    BY CauseStays
<1>2. Cause(r)' <=> Cause(r)
    BY <1>1 DEF Cause
<1>3. Content(fd[r])' = Content(fd[r])
    BY NamedStays DEF Content, Named
<1>4. \A c \in Workers : Right(r, c)' <=> Right(r, c)
    BY DEF Right, Start, End
<1>5. FetchedOne(r)'
    BY <1>1, <1>4 DEF ExplainedOne, FetchedOne
<1> QED
    BY <1>1, <1>2, <1>3, <1>5 DEF ExplainedOne

LEMMA AttemptExplained ==
    ASSUME Inv, Explained, NEW p \in Procs, Attempt(p), [Next]_vars
    PROVE  ExplainedOne(p)'
<1>1. said'[p] = said[p] /\ said[p] \in Nat /\ Threshold \in Nat /\ Len(Blob) \in Nat
    BY CauseStays, SizesType, ConstantsTyped DEF Inv
<1>2. PICK n \in IF said[p] > 0 THEN {said[p]} ELSE {0, Len(Blob)} :
          /\ size' = [size EXCEPT ![p] = n]
          /\ IF n >= Threshold
             THEN /\ Goto(p, "parallel")
                  /\ chunk' = [chunk EXCEPT ![p] = [c \in Workers |-> "running"]]
             ELSE Goto(p, "stream")
    BY DEF Attempt
<1>3. size'[p] = n
    BY <1>2 DEF Explained, Sized
<1>4. /\ file'[p] = << >> /\ got'[p] = got[p] /\ result'[p] = result[p]
      /\ attempt[p] < BlobTries /\ pc[p] = "begin" /\ result[p] = "none"
    BY DEF Attempt, Inv, TypeOK, Counting
<1>5. CASE n >= Threshold
    <2>1. pc'[p] = "parallel" /\ \A c \in Workers : chunk'[p][c] = "running"
        BY <1>2, <1>5 DEF Goto, Inv, TypeOK
    <2>2. Len(file'[p]) <= Len(Blob)
        BY <1>1, <1>4
    <2>3. FetchedOne(p)'
        BY <1>1, <1>2, <1>3, <1>5, <2>1, <2>2 DEF FetchedOne
    <2> QED
        BY <1>4, <2>1, <2>3 DEF ExplainedOne
<1>6. CASE ~(n >= Threshold)
    <2>1. pc'[p] = "stream"
        BY <1>2, <1>6 DEF Goto, Inv, TypeOK
    <2>2. FetchedOne(p)'
        BY <1>1, <1>4, <2>1 DEF FetchedOne
    <2> QED
        BY <1>4, <2>1, <2>2 DEF ExplainedOne
<1> QED
    BY <1>5, <1>6

LEMMA ParallelExplained ==
    ASSUME Inv, Explained, NEW p \in Procs, ParallelDone(p) \/ FallBack(p), [Next]_vars
    PROVE  ExplainedOne(p)'
<1>1. /\ UNCHANGED <<file, size, got, result>> /\ pc[p] = "parallel"
      /\ result[p] = "none" /\ said'[p] = said[p]
    BY CauseStays DEF ParallelDone, FallBack, work, Inv, Counting
<1>2. Cause(p) => Cause(p)'
    BY CauseStays
<1>3. CASE ParallelDone(p)
    <2>1. pc'[p] = "check" /\ hashed'[p] = file[p] /\ Complete(p)
        BY <1>3 DEF ParallelDone, Goto, Inv, TypeOK
    <2>2. Cause(p) \/ file[p] = Blob
        BY <1>1, <2>1, CompleteIsBlob
    <2> QED
        BY <1>1, <1>2, <2>1, <2>2 DEF ExplainedOne, FetchedOne
<1>4. CASE FallBack(p)
    <2>1. pc'[p] = "stream"
        BY <1>4 DEF FallBack, Goto, Inv, TypeOK
    <2>2. "whole" \notin got[p] => Len(file[p]) <= Len(Blob)
        BY <1>1 DEF Explained, Fetched
    <2> QED
        BY <1>1, <2>1, <2>2 DEF ExplainedOne, FetchedOne
<1> QED
    BY <1>3, <1>4

LEMMA WorkerExplained ==
    ASSUME Inv, Explained, NEW p \in Procs, NEW c \in Workers,
           Fetch(p, c) \/ OutOfRange(p, c), [Next]_vars
    PROVE  ExplainedOne(p)'
<1>1. /\ UNCHANGED <<pc, size, result>> /\ said'[p] = said[p]
      /\ pc[p] = "parallel" /\ result[p] = "none" /\ got[p] \subseteq got'[p]
    BY CauseStays DEF Fetch, OutOfRange, Inv, Quiet, Counting
<1>2. "whole" \notin got'[p] =>
          /\ Len(file'[p]) <= Len(Blob)
          /\ \A d \in Workers : chunk'[p][d] = "done" => Right(p, d)'
    <2>1. CASE Fetch(p, c)
        BY <2>1, FetchRight
    <2>2. CASE OutOfRange(p, c)
        <3>1. UNCHANGED <<file, got, size>>
              /\ \A d \in Workers : chunk'[p][d] = "done" => chunk[p][d] = "done"
            BY <2>2 DEF OutOfRange, Inv, TypeOK
        <3>2. \A d \in Workers : Right(p, d)' <=> Right(p, d)
            BY <3>1 DEF Right, Start, End
        <3> QED
            BY <1>1, <3>1, <3>2 DEF Explained, Fetched
    <2> QED
        BY <2>1, <2>2
<1>3. /\ size[p] >= Threshold
      /\ IF said[p] > 0 THEN size[p] = said[p] ELSE size[p] \in {0, Len(Blob)}
    BY <1>1 DEF Explained, Fetched
<1> QED
    BY <1>1, <1>2, <1>3 DEF ExplainedOne, FetchedOne

LEMMA StreamExplained ==
    ASSUME Inv, Explained, NEW p \in Procs,
           Stream(p) \/ StreamFails(p) \/ StreamDenied(p), [Next]_vars
    PROVE  ExplainedOne(p)'
<1>1. pc[p] = "stream" /\ result[p] = "none"
    BY DEF Stream, StreamFails, StreamDenied, Inv, Counting
<1>2. \A reply \in Replies : Get(p, reply) => got'[p] = got[p] \cup {reply}
    BY <1>1 DEF Get, Inv, TypeOK
<1>3. "whole" \notin got[p] => Len(file[p]) <= Len(Blob)
    BY <1>1 DEF Explained, Fetched
<1>4. Cause(p) => Cause(p)'
    BY CauseStays
<1>5. CASE Stream(p)
    <2>1. pc'[p] = "check" /\ result'[p] = result[p]
        BY <1>5 DEF Stream, Goto, Inv, TypeOK
    <2>2. CASE Get(p, "range") /\ StreamTo(p, Blob)
        <3>1. hashed'[p] = Blob /\ file'[p] = Overlay(file[p], 0, Blob)
            BY <2>2 DEF StreamTo, Inv, TypeOK
        <3>2. "whole" \notin got[p] => file'[p] = Blob
            BY <1>3, <3>1, StreamRight DEF Inv, TypeOK
        <3>3. "whole" \in got[p] => Cause(p)
            BY DEF Cause
        <3> QED
            BY <1>1, <1>4, <2>1, <3>1, <3>2, <3>3 DEF ExplainedOne, FetchedOne
    <2>3. CASE Get(p, "silent")
        <3>1. "silent" \in got'[p]
            BY <1>2, <2>3 DEF Replies
        <3>2. Cause(p)'
            BY <3>1 DEF Cause
        <3> QED
            BY <1>1, <2>1, <3>2 DEF ExplainedOne, FetchedOne
    <2> QED
        BY <1>5, <2>2, <2>3 DEF Stream
<1>6. CASE StreamFails(p)
    <2>1. PICK reply \in Transient : Get(p, reply)
        BY <1>6 DEF StreamFails
    <2>2. got'[p] \cap Transient # {}
        BY <1>2, <2>1 DEF Transient, Replies
    <2>3. attempt'[p] = attempt[p] /\ attempt[p] \in 0..BlobTries
        BY <1>6 DEF StreamFails, Retry, Inv, TypeOK
    <2>4. CASE attempt[p] < BlobTries
        <3>1. pc'[p] = "begin" /\ result'[p] = result[p]
            BY <1>6, <2>4 DEF StreamFails, Retry, Goto, Inv, TypeOK
        <3> QED
            BY <1>1, <3>1 DEF ExplainedOne, FetchedOne
    <2>5. CASE ~(attempt[p] < BlobTries)
        <3>1. pc'[p] = "ended"
            BY <1>6, <2>5 DEF StreamFails, Retry, Leave, Goto, Inv, TypeOK
        <3>2. attempt'[p] = BlobTries
            BY <2>3, <2>5, ConstantsTyped
        <3> QED
            BY <2>2, <3>1, <3>2 DEF ExplainedOne, FetchedOne
    <2> QED
        BY <2>4, <2>5
<1>7. CASE StreamDenied(p)
    <2>1. "denied" \in got'[p] /\ pc'[p] = "ended"
        BY <1>2, <1>7 DEF StreamDenied, Leave, Goto, Replies, Inv, TypeOK
    <2>2. Cause(p)'
        BY <2>1 DEF Cause
    <2> QED
        BY <2>1, <2>2 DEF ExplainedOne, FetchedOne
<1> QED
    BY <1>5, <1>6, <1>7

LEMMA EndExplained ==
    ASSUME Inv, Explained, NEW p \in Procs,
           Publish(p) \/ Mismatch(p) \/ Apply(p), [Next]_vars
    PROVE  ExplainedOne(p)'
<1>1. Cause(p) => Cause(p)'
    BY CauseStays
<1>2. file' = file
    BY DEF Publish, Mismatch, Apply
<1>3. CASE Publish(p)
    <2>1. pc[p] = "check" /\ pc'[p] = "apply" /\ fd'[p] = p /\ result'[p] = "none"
        BY <1>3 DEF Publish, Goto, Inv, TypeOK, Counting
    <2>2. Content(fd[p])' = file[p]
        BY <1>2, <2>1 DEF Content
    <2>3. Cause(p) \/ file[p] = Blob
        BY <2>1 DEF Explained, Blamed
    <2> QED
        BY <1>1, <2>1, <2>2, <2>3 DEF ExplainedOne, FetchedOne
<1>4. CASE Mismatch(p)
    <2>1. pc[p] = "check" /\ pc'[p] = "ended" /\ hashed[p] # Blob
        BY <1>4 DEF Mismatch, Leave, Goto, Inv, TypeOK
    <2>2. Cause(p)
        BY <2>1 DEF Explained, Blamed
    <2> QED
        BY <1>1, <2>1, <2>2 DEF ExplainedOne, FetchedOne
<1>5. CASE Apply(p)
    <2>1. pc[p] = "apply" /\ pc'[p] = "ended"
          /\ (Content(fd[p]) = Blob => result'[p] = "done")
        BY <1>5 DEF Apply, Leave, Goto, Inv, TypeOK
    <2>2. Cause(p) \/ Content(fd[p]) = Blob
        BY <2>1 DEF Explained, Blamed
    <2> QED
        BY <1>1, <2>1, <2>2 DEF ExplainedOne, FetchedOne
<1> QED
    BY <1>3, <1>4, <1>5

LEMMA EdgeExplained ==
    ASSUME Inv, Explained, NEW p \in Procs,
           Open(p) \/ Verified(p) \/ Evict(p) \/ Interrupt(p) \/ Die(p), [Next]_vars
    PROVE  ExplainedOne(p)'
<1>1. CASE Open(p) \/ Evict(p)
    <2>1. pc'[p] \in {"begin", "verify"} /\ result'[p] = "none"
        BY <1>1 DEF Open, Evict, Goto, Inv, TypeOK, Counting
    <2> QED
        BY <2>1 DEF ExplainedOne, FetchedOne
<1>2. CASE Verified(p)
    <2>1. pc'[p] = "apply" /\ result'[p] = "none" /\ Content(fd[p]) = Blob
          /\ UNCHANGED <<fd, file>>
        BY <1>2 DEF Verified, Goto, Inv, TypeOK, Counting
    <2>2. Content(fd[p])' = Blob
        BY <2>1 DEF Content
    <2> QED
        BY <2>1, <2>2 DEF ExplainedOne, FetchedOne
<1>3. CASE Interrupt(p) \/ Die(p)
    <2>1. pc'[p] = "ended" /\ result'[p] \in {"interrupted", "killed"}
        BY <1>3 DEF Interrupt, Die, Leave, Goto, Inv, TypeOK
    <2> QED
        BY <2>1 DEF ExplainedOne, FetchedOne
<1> QED
    BY <1>1, <1>2, <1>3

LEMMA ExplainedStep == Inv /\ Explained /\ [Next]_vars => Explained'
<1> SUFFICES ASSUME Inv, Explained, [Next]_vars
             PROVE  Explained'
    OBVIOUS
<1>1. (Explained <=> Sized /\ \A p \in Procs : ExplainedOne(p))'
    BY OneByOne, PTL
<1>2. Sized'
    <2>1. CASE \E p \in Procs : Attempt(p)
        <3>1. PICK p \in Procs : Attempt(p)
            BY <2>1
        <3>2. PICK n \in IF said[p] > 0 THEN {said[p]} ELSE {0, Len(Blob)} :
                  size' = [size EXCEPT ![p] = n]
            BY <3>1 DEF Attempt
        <3>3. n \in Nat
            BY <3>2, SizesType, ConstantsTyped DEF Inv
        <3> QED
            BY <3>2, <3>3 DEF Explained, Sized
    <2>2. CASE ~\E p \in Procs : Attempt(p)
        <3>1. size' = size
            BY <2>2 DEF Next, Advance, Open, Verified, Evict, ParallelDone, FallBack,
               Fetch, OutOfRange, Stream, StreamFails, StreamDenied, Publish, Mismatch,
               Apply, Interrupt, Die, Elsewhere, vars, work
        <3> QED
            BY <3>1 DEF Explained, Sized
    <2> QED
        BY <2>1, <2>2
<1> SUFFICES ASSUME NEW r \in Procs PROVE ExplainedOne(r)'
    BY <1>1, <1>2
<1>3. ExplainedOne(r)
    BY OneByOne
<1>4. ASSUME NEW p \in Procs, Advance(p) \/ Interrupt(p) \/ Die(p)
      PROVE  ExplainedOne(r)'
    <2>1. CASE r = p
        BY <1>4, <2>1, AttemptExplained, ParallelExplained, WorkerExplained,
           StreamExplained, EndExplained, EdgeExplained DEF Advance
    <2>2. CASE r # p
        BY <1>3, <1>4, <2>2, OthersStay, OthersExplained DEF Explained
    <2> QED
        BY <2>1, <2>2
<1>5. CASE Elsewhere \/ UNCHANGED vars
    BY <1>3, <1>5, OthersExplained DEF Elsewhere, vars, work
<1> QED
    BY <1>4, <1>5 DEF Next

-----------------------------------------------------------------------------
(* Every variable keeps its type, and a temporary file is there only for   *)
(* an attempt under way, or since a SIGKILL: download_blob() takes it away *)
(* on every other way out.                                                 *)
THEOREM LeavesNoLitter == Spec => []Consistent
<1>1. Inv => Consistent
    BY DEF Inv, Consistent
<1> QED
    BY <1>1, Invariance, PTL

(* A command that goes on with a layer has extracted the bytes its digest  *)
(* names, however many commands fetch it and whatever the registry sent.   *)
THEOREM AppliesTheBlob == Spec => []AppliedWhole
<1>1. Inv => AppliedWhole
    BY DEF Inv
<1> QED
    BY <1>1, Invariance, PTL

(* What was renamed into the cache, or is open in a command that extracts  *)
(* it, is written by no worker left over from an attempt.                  *)
THEOREM PublishesFinalFiles == Spec => PublishedIsFinal
<1>1. Inv /\ [Next]_vars =>
          [\A p \in Procs : entry = p \/ (\E q \in Procs : fd[q] = p)
                                => file'[p] = file[p]]_vars
    BY NamedStays DEF Named
<1> QED
    BY <1>1, Invariance, PTL DEF Spec, PublishedIsFinal

(* A download fails for a reason: as many failed streams as there are      *)
(* attempts, a refusal, bytes that are not those asked for, or a manifest  *)
(* that says the blob is smaller than it is.  Ranges that are refused, cut *)
(* or timed out never fail it, for any number of ranges and any sizes.     *)
THEOREM FailuresHaveCauses == Spec => []FailsOnlyForCause
<1>1. Explained => FailsOnlyForCause
    BY DEF Explained, Excused, Cause, FailsOnlyForCause
<1> QED
    BY <1>1, ExplainedInit, ExplainedStep, Invariance, PTL DEF Spec
=============================================================================
