------------------------- MODULE UploadReaderProofs -------------------------
(***************************************************************************)
(* Proofs about UploadReader, for any limit, chunk and file.               *)
(***************************************************************************)
EXTENDS UploadReader, TLAPS

\* What has been read is what is held, and reading goes on only within the limit;
\* the reader itself refuses only once it holds more than that.
Reading ==
    /\ data = position
    /\ verdict \in {"unchecked", "reading", "read"} => data <= MaxBytes
    /\ verdict = "read" => data = fileSize
    /\ verdict = "tooLarge" => Condemned \/ data > MaxBytes

UInv == TypeOK /\ Reading /\ BufferBounded

\* How long a chunk is.
LEMMA ChunkBounds ==
    ASSUME UInv
    PROVE  /\ NextChunk \in Nat
           /\ NextChunk <= ChunkSize
           /\ NextChunk <= fileSize - position
           /\ NextChunk = 0 => position = fileSize
    <1>1. /\ fileSize \in Nat /\ position \in Nat /\ position <= fileSize
          /\ ChunkSize \in Nat /\ ChunkSize > 0
          BY UploadAssumption DEF UInv, TypeOK
    <1>2. QED
          BY <1>1 DEF NextChunk

LEMMA InitUInv == Init => UInv
    <1> SUFFICES ASSUME Init
                 PROVE  UInv
        OBVIOUS
    <1>1. fileSize \in 0..MaxFile /\ fileSize \in Nat
          BY UploadAssumption DEF Init
    <1>2. \/ announced \in 0..(MaxFile + MaxFraming)
          \/ \E framing \in 1..MaxFraming : announced = fileSize + framing
          BY DEF Init
    <1>3. announced \in 0..(MaxFile + MaxFraming)
          BY <1>1, <1>2, UploadAssumption
    <1>4. QED
          BY <1>1, <1>3, UploadAssumption
          DEF Init, UInv, TypeOK, Reading, BufferBounded, Verdicts

LEMMA NextUInv == UInv /\ [Next]_vars => UInv'
    <1> SUFFICES ASSUME UInv, [Next]_vars
                 PROVE  UInv'
        OBVIOUS
    <1>1. CASE CheckLength
          BY <1>1, UploadAssumption
          DEF CheckLength, Condemned, UInv, TypeOK, Reading, BufferBounded, Verdicts
    <1>2. CASE ReadChunk
          <2>1. /\ UNCHANGED <<fileSize, header, announced>>
                /\ verdict = "reading" /\ verdict' \in {"reading", "tooLarge"}
                /\ verdict' = "tooLarge" <=> data' > MaxBytes
                BY <1>2 DEF ReadChunk
          <2>2. /\ position' = position + NextChunk
                /\ data' = position + NextChunk
                /\ position <= MaxBytes
                BY <1>2 DEF ReadChunk, UInv, Reading
          <2>3. position' \in 0..fileSize /\ data' = position'
                BY <2>2, ChunkBounds DEF UInv, TypeOK
          <2>4. data' <= MaxBytes + ChunkSize
                BY <2>2, ChunkBounds, UploadAssumption DEF UInv, TypeOK
          <2>5. verdict' = "reading" => data' <= MaxBytes
                BY <2>1, <2>3, UploadAssumption
          <2>6. QED
                BY <2>1, <2>3, <2>4, <2>5
                DEF Condemned, UInv, TypeOK, Reading, BufferBounded, Verdicts
    <1>3. CASE EndOfFile
          BY <1>3, ChunkBounds
          DEF EndOfFile, Condemned, UInv, TypeOK, Reading, BufferBounded, Verdicts
    <1>4. CASE UNCHANGED vars
          BY <1>4 DEF vars, Condemned, UInv, TypeOK, Reading, BufferBounded
    <1>5. QED
          BY <1>1, <1>2, <1>3, <1>4 DEF Next

LEMMA UploadInductive == Spec => []UInv
    BY InitUInv, NextUInv, PTL DEF Spec

\* Type correctness: the reader never holds more than the file.
THEOREM UploadTypeCorrect == Spec => []TypeOK
    <1>1. UInv => TypeOK
          BY DEF UInv
    <1>2. QED
          BY <1>1, UploadInductive, PTL

\* Whatever the header says, only files within the limit get through, complete
\* (read_with_limits).
THEOREM WithinLimit == Spec => []AcceptedWithinLimit
    <1>1. UInv => AcceptedWithinLimit
          BY DEF UInv, Reading, AcceptedWithinLimit
    <1>2. QED
          BY <1>1, UploadInductive, PTL

\* An upload never takes more memory than the limit and one chunk.
THEOREM MemoryBounded == Spec => []BufferBounded
    <1>1. UInv => BufferBounded
          BY DEF UInv
    <1>2. QED
          BY <1>1, UploadInductive, PTL

\* The reader refuses no file within the limit, an exact fit included, whose header
\* does not say that it is not.
THEOREM ReaderIsExact == Spec => []ReaderExact
    <1>1. UInv => ReaderExact
          <2>1. SUFFICES ASSUME UInv, verdict = "tooLarge", ~Condemned
                         PROVE  fileSize > MaxBytes
                BY DEF ReaderExact
          <2>2. data > MaxBytes /\ data \in 0..fileSize
                BY <2>1 DEF UInv, Reading, TypeOK
          <2>3. QED
                BY <2>1, <2>2, UploadAssumption DEF UInv, TypeOK
    <1>2. QED
          BY <1>1, UploadInductive, PTL
=============================================================================
