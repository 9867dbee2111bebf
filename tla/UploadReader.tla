---------------------------- MODULE UploadReader ----------------------------
(***************************************************************************)
(* src/app.py: how handle_predict_request limits the size of an upload,    *)
(* by the Content-Length header first and by read_with_limits then.  Sizes *)
(* are in an arbitrary unit.  The upload is a multipart body: the file and *)
(* at least one unit of framing, and Content-Length is the size of both,   *)
(* unless the client says something else.                                  *)
(***************************************************************************)
EXTENDS Integers

CONSTANTS
    MaxBytes,    \* MAX_FILE_SIZE_MB
    ChunkSize,   \* MAX_CHUNK_SIZE_MB
    MaxFile,     \* bound: the largest file uploaded
    MaxFraming   \* bound: the largest multipart framing

\* Config.validate: 0 < MAX_CHUNK_SIZE_MB <= MAX_FILE_SIZE_MB.
ASSUME UploadAssumption ==
    /\ MaxBytes \in Nat
    /\ ChunkSize \in 1..MaxBytes
    /\ MaxFile \in Nat
    /\ MaxFraming \in Nat \ {0}

VARIABLES
    fileSize,   \* the size of the uploaded file
    header,     \* how the client announces the body
    announced,  \* the value of Content-Length, where there is one
    position,   \* how much of the file has been read
    data,       \* len(data) in read_with_limits
    verdict     \* what becomes of the upload

vars == <<fileSize, header, announced, position, data, verdict>>

\* length: the size of the body; false: any other value, which the server takes as
\* it is when the body does not come by it (Transfer-Encoding: chunked).
Headers == {"absent", "malformed", "length", "false"}
Verdicts == {"unchecked", "reading", "read", "tooLarge", "badRequest"}

TypeOK ==
    /\ fileSize \in 0..MaxFile
    /\ header \in Headers
    /\ announced \in 0..(MaxFile + MaxFraming)
    /\ position \in 0..fileSize
    /\ data \in 0..fileSize
    /\ verdict \in Verdicts

\* Any file, announced truthfully, not at all (a chunked body), not legibly or by a
\* value that is not its size.
Init ==
    /\ fileSize \in 0..MaxFile
    /\ header \in Headers
    /\ IF header = "false"
         THEN announced \in 0..(MaxFile + MaxFraming)
         ELSE \E framing \in 1..MaxFraming : announced = fileSize + framing
    /\ position = 0
    /\ data = 0
    /\ verdict = "unchecked"

\* int(content_length) > max_bytes
Condemned == header \in {"length", "false"} /\ announced > MaxBytes

\* Mutant: the header alone decides, whatever else is sent is read unlimited.
CheckLength_Trusted ==
    /\ verdict = "unchecked"
    /\ verdict' = IF header = "malformed" THEN "badRequest"
                  ELSE IF Condemned THEN "tooLarge"
                  ELSE "read"
    /\ UNCHANGED <<fileSize, header, announced, position, data>>

\* The check of the Content-Length header.
CheckLength ==
    /\ verdict = "unchecked"
    /\ verdict' = IF header = "malformed" THEN "badRequest"
                  ELSE IF Condemned THEN "tooLarge"
                  ELSE "reading"
    /\ UNCHANGED <<fileSize, header, announced, position, data>>

\* Mutant: the last chunk is taken to be as long as the others.
NextChunk_Whole == ChunkSize

\* await file.read(chunk_size): the next chunk, shorter only at the end.
NextChunk ==
    IF fileSize - position < ChunkSize THEN fileSize - position ELSE ChunkSize

\* Mutant: the limit is only checked at the end of the file.
ReadChunk_CheckedAtEnd ==
    /\ verdict = "reading"
    /\ NextChunk > 0
    /\ position' = position + NextChunk
    /\ data' = data + NextChunk
    /\ verdict' = IF position' = fileSize /\ data' > MaxBytes
                    THEN "tooLarge" ELSE "reading"
    /\ UNCHANGED <<fileSize, header, announced>>

\* Mutant: >= for >.
ReadChunk_LimitRefused ==
    /\ verdict = "reading"
    /\ NextChunk > 0
    /\ position' = position + NextChunk
    /\ data' = data + NextChunk
    /\ verdict' = IF data' >= MaxBytes THEN "tooLarge" ELSE "reading"
    /\ UNCHANGED <<fileSize, header, announced>>

\* data.extend(chunk) and the check of its length.
ReadChunk ==
    /\ verdict = "reading"
    /\ NextChunk > 0
    /\ position' = position + NextChunk
    /\ data' = data + NextChunk
    /\ verdict' = IF data' > MaxBytes THEN "tooLarge" ELSE "reading"
    /\ UNCHANGED <<fileSize, header, announced>>

\* An empty chunk ends the loop.
EndOfFile ==
    /\ verdict = "reading"
    /\ NextChunk = 0
    /\ verdict' = "read"
    /\ UNCHANGED <<fileSize, header, announced, position, data>>

Next == CheckLength \/ ReadChunk \/ EndOfFile

Spec == Init /\ [][Next]_vars

-----------------------------------------------------------------------------

\* Only files within the limit get through, complete, whatever the header says, the
\* truth or less or more than it, or does not say.
AcceptedWithinLimit == verdict = "read" => data = fileSize /\ fileSize <= MaxBytes

\* The memory an upload takes is bounded by the limit and one chunk, however
\* large the file.
BufferBounded == data <= MaxBytes + ChunkSize

\* read_with_limits refuses no file that is within the limit: an exact fit is never
\* answered 413 but for a header whose value is itself over the limit.
ReaderExact == verdict = "tooLarge" /\ ~Condemned => fileSize > MaxBytes

-----------------------------------------------------------------------------

\* "413 (file over MAX_FILE_SIZE_MB)": of the files that are not announced falsely
\* only one over the limit is refused as too large.
OnlyOversizeRefused ==
    verdict = "tooLarge" /\ header # "false" => fileSize > MaxBytes
=============================================================================
