--------------------------------- MODULE ScuIo ---------------------------------
(***************************************************************************)
(* The file streams of src/io.c, with the string functions of ScuString    *)
(* applied to what was read.  A client has one file and one buffer that    *)
(* the calls grow; a call is one step, except that the loops of            *)
(* scu_freadln and scu_freadall take a step for every piece they read.     *)
(* Every allocation and every call of the C library may fail.  The         *)
(* standard streams and the functions with "f" left out of their names are *)
(* the same calls on another file.                                         *)
(*                                                                         *)
(* A stream of the C library is                                            *)
(*   content, pos   the bytes of the file and the position in it           *)
(*   pushed         the byte pushed back, if any                           *)
(*   eof, err       the flags that feof and ferror read                    *)
(*   writable       as the mode it was opened with says: "r" or "w+"       *)
(*   turn           C wants the client to reposition a stream between      *)
(*                  reading (unless up to the end) and writing             *)
(***************************************************************************)
EXTENDS ScuString, SequencesExt

CONSTANTS
    Contents,           \* what a file may hold when it is opened
    Texts,              \* the strings of the client, and what its formats print
    Newline,            \* the byte; its number is larger than that of Nul
    SCU_CHUNK_SIZE,
    BufferSizes,        \* the sizes of fixed buffers of the client
    Counts,             \* limits given to scu_strncpy and scu_strncat
    MaxContent,         \* a bound on the length of a file
    MaxSize,            \* a bound on the size of the buffer
    Unknown             \* the client cannot tell what it has been given

\* A chunk holds a byte and a NUL; then fgets always has room for a byte.
ASSUME ChunkAssumption == SCU_CHUNK_SIZE \in Nat /\ SCU_CHUNK_SIZE >= 2
\* A byte is a number; a string of the client ends at its first NUL.
ASSUME ContentsAssumption == Contents \subseteq Seq(Nat)
ASSUME TextsAssumption == Texts \subseteq Seq(Nat \ {Nul})
ASSUME NewlineAssumption == Newline \in Nat \ {Nul}
ASSUME SizesAssumption == MaxSize \in Nat /\ BufferSizes \subseteq 1..MaxSize
ASSUME CountsAssumption == Counts \subseteq Nat
ASSUME MaxContentAssumption == MaxContent \in Nat
ASSUME UnknownAssumption == Unknown \notin Seq(Nat)

VARIABLES
    file,               \* "none", "open", or "dangling": its FILE was closed by a failing freopen
    handles,            \* how many FILEs are open
    stream,             \* that of the file; of no importance unless the file is open
    text,               \* the bytes of the buffer that the calls wrote
    size,               \* the size of the buffer; 0 for no buffer
    used,               \* how many bytes the loop of a reading call has put into the buffer;
                        \* 0 between calls
    delivered,          \* the bytes up to the client's position, as far as it was given them
    last                \* the last call, its outcome, the string it was given and its number

fileVars == <<file, handles>>
bufferVars == <<text, size>>
vars == <<file, handles, stream, text, size, used, delivered, last>>

\* A file that was opened with mode "r" or, being empty, with "w+".
Opened(content) ==
    [content |-> content, pos |-> 0, pushed |-> <<>>, eof |-> FALSE, err |-> FALSE,
     writable |-> content = <<>>, turn |-> "any"]

\* The string that a buffer holds.
StringIn(bytes) == IF Nul \in Range(bytes) THEN Take(bytes, scu_strlen(bytes)) ELSE bytes
IsString == Nul \in Range(text)

\* A call returns; its locals are gone.
AnswerTo(op, given, number, outcome) ==
    /\ last' = [op |-> op, outcome |-> outcome, given |-> given, number |-> number]
    /\ used' = 0
Answer(op, outcome) == AnswerTo(op, <<>>, 0, outcome)
\* A call goes on, n bytes being in the buffer.
GoesOn(op, n) ==
    /\ last' = [op |-> op, outcome |-> "UNFINISHED", given |-> <<>>, number |-> 0]
    /\ used' = n

--------------------------------------------------------------------------------
(* The streams of the C library *)

Rest(s) == s.pushed \o From(s.content, s.pos)

\* s after n bytes of its rest were read.
Consumed(s, n) ==
    LET back == Min({n, Len(s.pushed)})
    IN  [s EXCEPT !.pushed = From(@, back), !.pos = @ + n - back, !.turn = "read"]

AtEof(s) == [Consumed(s, Len(Rest(s))) EXCEPT !.eof = TRUE, !.turn = "any"]
Failed(s, n) == [Consumed(s, n) EXCEPT !.err = TRUE]
Piece(s, n, after) == [stream |-> after, bytes |-> Take(Rest(s), n)]

\* What fread(..., n, ...) may do: as many bytes as there are, or an error after some.
fread(s, n) ==
    IF n = 0 \/ s.eof THEN {Piece(s, 0, s)}
    ELSE LET m == Min({n, Len(Rest(s))})
         IN  {Piece(s, m, IF m < n THEN AtEof(s) ELSE Consumed(s, n))}
             \cup {Piece(s, j, Failed(s, j)) : j \in 0..(n - 1) \cap 0..m}

\* What fgets(..., n, ...) may do.  It stops behind a newline; after an error the bytes are
\* lost, and it returns a null pointer as it does at the end of the file.
fgets(s, n) ==
    LET newline == scu_memchr(Rest(s), Newline, Len(Rest(s)))
        m == Min({n - 1, IF newline = -1 THEN Len(Rest(s)) ELSE newline + 1})
        ended == newline = -1 /\ m < n - 1
    IN  IF s.eof THEN {[stream |-> s, bytes |-> <<>>, ok |-> FALSE]}
        ELSE {[stream |-> IF ended THEN AtEof(s) ELSE Consumed(s, m),
               bytes  |-> Take(Rest(s), m),
               ok     |-> m > 0]}
             \cup {[stream |-> Failed(s, j), bytes |-> <<>>, ok |-> FALSE] :
                       j \in 0..(IF ended THEN m ELSE m - 1)}

\* s after bytes were written; no byte is pushed back then.
Written(s, bytes) ==
    [s EXCEPT !.content = Take(@, s.pos) \o bytes \o From(@, Min({s.pos + Len(bytes), Len(@)})),
              !.pos = @ + Len(bytes), !.turn = "write"]

MayRead == file = "open" /\ stream.turn # "write"
MayWrite ==
    file = "open" /\ stream.writable /\ stream.turn # "read" /\ stream.pushed = <<>>

--------------------------------------------------------------------------------
(* Opening and closing *)

\* A bound: what is in the buffer when a file is opened.
EmptyBuffer == text \in {<<>>, <<Nul>>}

\* Mutant: the FILE is forgotten when there is no memory for its ScuFile.
FopenKeepsHandle(op, contents) ==
    /\ file = "none" /\ EmptyBuffer
    /\ \/ /\ file' = "open" /\ handles' = handles + 1
          /\ \E content \in contents : stream' = Opened(content)
          /\ Answer(op, "NONE")
       \/ UNCHANGED <<file, handles, stream>> /\ Answer(op, "OPENING_FILE")
       \/ /\ handles' = handles + 1
          /\ UNCHANGED <<file, stream>> /\ Answer(op, "OUT_OF_MEMORY")
    /\ delivered' = <<>>
    /\ UNCHANGED bufferVars

\* scu_fopen and scu_fopentmp, the file of which is empty.
Fopen(op, contents) ==
    /\ file = "none" /\ EmptyBuffer
    /\ \/ /\ file' = "open" /\ handles' = handles + 1
          /\ \E content \in contents : stream' = Opened(content)
          /\ Answer(op, "NONE")
       \/ UNCHANGED <<file, handles, stream>> /\ Answer(op, "OPENING_FILE")
       \/ UNCHANGED <<file, handles, stream>> /\ Answer(op, "OUT_OF_MEMORY")
    /\ delivered' = <<>>
    /\ UNCHANGED bufferVars

\* freopen closes the FILE first: when it fails, the handle that is kept is of a closed one.
Freopen ==
    /\ file = "open" /\ EmptyBuffer
    /\ \/ /\ \E content \in Contents : stream' = Opened(content)
          /\ Answer("freopen", "NONE")
          /\ UNCHANGED fileVars
       \/ /\ file' = "dangling" /\ handles' = handles - 1
          /\ stream' = Opened(<<>>)
          /\ Answer("freopen", "OPENING_FILE")
    /\ delivered' = <<>>
    /\ UNCHANGED bufferVars

Fclose ==
    /\ file = "open"
    /\ file' = "none"
    /\ handles' = handles - 1
    /\ stream' = Opened(<<>>)
    /\ delivered' = <<>>
    /\ \E outcome \in {"NONE", "CLOSING_FILE"} : Answer("fclose", outcome)
    /\ UNCHANGED bufferVars

\* A client can do nothing with a dangling handle but forget it.
Forget ==
    /\ file = "dangling"
    /\ file' = "none"
    /\ Answer("forget", "NONE")
    /\ UNCHANGED <<handles, stream, bufferVars, delivered>>

--------------------------------------------------------------------------------
(* The buffer *)

\* The smallest size the doubling loop reaches from old that is not below required.
GrownSizes(old, required) ==
    LET base == IF old = 0 THEN 1 ELSE old
    IN  {n \in required..(2 * required - 1) : \E k \in 0..required : n = base * 2^k}

\* The sizes after scu_ensure_size; the old size when it could not grow: OutOfMemory.
scu_ensure_size(old, required) ==
    {old} \cup (IF required <= old THEN {} ELSE GrownSizes(old, required) \cap 0..MaxSize)
OutOfMemory(new, required) == new < required

FreeBuffer ==
    /\ size > 0
    /\ text' = <<>> /\ size' = 0
    /\ Answer("free", "NONE")
    /\ UNCHANGED <<file, handles, stream, delivered>>

\* The client provides a buffer of its own, with an empty string in it.
ProvideBuffer(n) ==
    /\ size = 0
    /\ text' = <<Nul>> /\ size' = n
    /\ Answer("provide", "NONE")
    /\ UNCHANGED <<file, handles, stream, delivered>>

--------------------------------------------------------------------------------
(* Reading *)

\* What the client has been given: all of it before this call, and the bytes of this one.
Deliver(outcome, bytes) ==
    delivered' = CASE delivered # Unknown /\ outcome = "NONE" -> delivered \o bytes
                   [] outcome = "END_OF_FILE" -> delivered
                   [] OTHER -> Unknown

Freadc ==
    /\ MayRead
    /\ \E r \in fread(stream, 1) :
          LET outcome == IF r.bytes # <<>> THEN "NONE"
                         ELSE IF r.stream.eof THEN "END_OF_FILE" ELSE "READING_FILE"
          IN  /\ stream' = r.stream
              /\ Deliver(outcome, r.bytes)
              /\ Answer("freadc", outcome)
    /\ UNCHANGED <<fileVars, bufferVars>>

\* scu_fread of objects of a byte.  Its only answer is their number; after an error the
\* position is indeterminate.
Fread(n) ==
    /\ MayRead
    /\ \E r \in fread(stream, n) :
          /\ stream' = r.stream
          /\ Deliver(IF Len(r.bytes) < n /\ ~r.stream.eof THEN "READING_FILE" ELSE "NONE", r.bytes)
          /\ Answer("fread", "NONE")
    /\ UNCHANGED <<fileVars, bufferVars>>

\* ungetc takes a byte back, which ends the end of the file.
Funreadc(c) ==
    /\ MayRead
    /\ \/ /\ stream.pushed = <<>>
          /\ stream' = [stream EXCEPT !.pushed = <<c>>, !.eof = FALSE, !.turn = "read"]
          /\ delivered' = IF delivered # Unknown /\ delivered # <<>> /\ Last(delivered) = c
                          THEN Front(delivered) ELSE Unknown
          /\ Answer("funreadc", "NONE")
       \/ /\ UNCHANGED <<stream, delivered>>
          /\ Answer("funreadc", "WRITING_FILE")
    /\ UNCHANGED <<fileVars, bufferVars>>

\* Mutant: no byte is left for the NUL.
AskedForAll(n) == n
\* How many bytes scu_freads asks for.
Asked(n) == IF n = 0 THEN 0 ELSE n - 1

Freads ==
    /\ MayRead
    /\ \E r \in fread(stream, Asked(size)) :
          LET short == Len(r.bytes) < Asked(size)
              outcome == IF ~short THEN "NONE"
                         ELSE IF ~r.stream.eof THEN "READING_FILE"
                         ELSE IF r.bytes = <<>> THEN "END_OF_FILE" ELSE "NONE"
          IN  /\ stream' = r.stream
              /\ text' = IF size = 0 THEN text ELSE Terminated(r.bytes)
              /\ Deliver(outcome, r.bytes)
              /\ Answer("freads", outcome)
    /\ UNCHANGED <<fileVars, size>>

\* Mutant: the last byte of the piece before is taken for its NUL.
PutOverLast(t, length, bytes) == Take(t, IF length = 0 THEN 0 ELSE length - 1) \o Terminated(bytes)
\* The buffer t with bytes behind the first length ones.
Put(t, length, bytes) == Take(t, length) \o Terminated(bytes)

\* Mutant: a full piece ends the line as well.
LineDoneAlways(t, length, read, available) ==
    \/ length > 0 /\ At(t, length - 1) = Newline
    \/ read < available
\* Is the line complete?  A line may begin with a NUL: then nothing has been read, and the
\* code looks at the byte before the buffer.  Whatever it finds, the line ends there.
LineDone(t, length, read, available) ==
    \/ length > 0 /\ At(t, length - 1) = Newline
    \/ read < available - 1

\* A reading call returns, and the client has the string in the buffer.
Return(op, outcome) ==
    /\ Deliver(outcome, StringIn(text'))
    /\ Answer(op, outcome)

\* A loop ends without the bytes it asked for, n bytes being in the buffer.
Ended(s, n) == IF s.err THEN "READING_FILE" ELSE IF n = 0 THEN "END_OF_FILE" ELSE "NONE"

\* The beginning of an iteration: op has been called, or its loop is under way, and the buffer
\* gets the size new, if there is the memory for it.
Iterates(op) == MayRead /\ (used = 0 \/ last.op = op)
NoRoom(op) ==
    /\ Iterates(op)
    /\ OutOfMemory(size, used + SCU_CHUNK_SIZE)
    /\ UNCHANGED <<fileVars, stream, bufferVars>>
    /\ Return(op, "OUT_OF_MEMORY")
RoomFor(op, new) ==
    /\ Iterates(op)
    /\ ~OutOfMemory(new, used + SCU_CHUNK_SIZE)
    /\ size' = new
    /\ UNCHANGED fileVars

\* The rest of an iteration of scu_freadln, fgets having answered r.
FreadlnPiece(new, r) ==
    LET read == scu_strlen(Terminated(r.bytes))
    IN  /\ stream' = r.stream
        /\ text' = Put(text, used, r.bytes)
        /\ IF ~r.ok THEN Return("freadln", Ended(r.stream, used))
           ELSE IF LineDone(text', used + read, read, new - used) THEN Return("freadln", "NONE")
           ELSE GoesOn("freadln", used + read) /\ UNCHANGED delivered

Freadln ==
    \/ NoRoom("freadln")
    \/ \E new \in scu_ensure_size(size, used + SCU_CHUNK_SIZE) :
          /\ RoomFor("freadln", new)
          /\ \E r \in fgets(stream, new - used) : FreadlnPiece(new, r)

\* How many bytes scu_freadall asks for.
Room(n) == n - used - 1

\* The rest of an iteration of scu_freadall, fread having answered r.  A piece is not
\* terminated before the last.
FreadallPiece(new, r) ==
    LET read == Len(r.bytes)
    IN  /\ stream' = r.stream
        /\ IF read < Room(new)
           THEN text' = Put(text, used, r.bytes) /\ Return("freadall", Ended(r.stream, used + read))
           ELSE /\ text' = Take(text, used) \o r.bytes
                /\ GoesOn("freadall", used + read) /\ UNCHANGED delivered

Freadall ==
    \/ NoRoom("freadall")
    \/ \E new \in scu_ensure_size(size, used + SCU_CHUNK_SIZE) :
          /\ RoomFor("freadall", new)
          /\ \E r \in fread(stream, Room(new)) : FreadallPiece(new, r)

--------------------------------------------------------------------------------
(* Writing and positions *)

\* A part of the bytes may have been written when an error occurs.
Write(op, bytes) ==
    /\ MayWrite
    /\ stream.pos + Len(bytes) <= MaxContent
    /\ \/ /\ stream' = Written(stream, bytes)
          /\ delivered' = Take(stream'.content, stream'.pos)
          /\ Answer(op, "NONE")
       \/ /\ bytes # <<>>
          /\ \E j \in 0..(Len(bytes) - 1) :
                stream' = [Written(stream, Take(bytes, j)) EXCEPT !.err = TRUE]
          /\ delivered' = Unknown
          /\ Answer(op, "WRITING_FILE")
    /\ UNCHANGED <<fileVars, bufferVars>>

Fwritec(c) == Write("fwritec", <<c>>)
Fwrites(t) == Write("fwrites", t)
\* scu_fwrites, then scu_fwritec unless that failed.
Fwriteln(t) == Write("fwriteln", Append(t, Newline))

Moved(s, p) == [s EXCEPT !.pos = p, !.pushed = <<>>, !.eof = FALSE, !.turn = "any"]

Fseek(p) ==
    /\ file = "open"
    /\ \/ /\ p <= Len(stream.content)
          /\ stream' = Moved(stream, p)
          /\ delivered' = Take(stream.content, p)
          /\ Answer("fseek", "NONE")
       \/ UNCHANGED <<stream, delivered>> /\ Answer("fseek", "SEEKING_FILE")
    /\ UNCHANGED <<fileVars, bufferVars>>

Frewind ==
    /\ file = "open"
    /\ stream' = [Moved(stream, 0) EXCEPT !.err = FALSE]
    /\ delivered' = <<>>
    /\ Answer("frewind", "NONE")
    /\ UNCHANGED <<fileVars, bufferVars>>

Fclear ==
    /\ file = "open"
    /\ stream' = [stream EXCEPT !.eof = FALSE, !.err = FALSE]
    /\ Answer("fclear", "NONE")
    /\ UNCHANGED <<fileVars, bufferVars, delivered>>

--------------------------------------------------------------------------------
(* Strings in the buffer.  To keep the model small they are built while no file is open. *)

Strings == file = "none" /\ UNCHANGED <<file, handles, stream, delivered>>

\* What vsnprintf leaves of t when it prints to t + offset, in a buffer of n bytes.
vsnprintf(t, n, offset, printed) ==
    IF n <= offset THEN t
    ELSE Take(t, offset) \o Terminated(Take(printed, Min({n - offset - 1, Len(printed)})))

\* scu_snprintf into the buffer as it is.
Snprintf(printed) ==
    /\ Strings
    /\ UNCHANGED size
    /\ \/ /\ text' = vsnprintf(text, size, 0, printed)
          /\ AnswerTo("snprintf", printed, Len(printed), "NONE")
       \/ /\ text' = IF size > 0 THEN <<Nul>> ELSE text
          /\ AnswerTo("snprintf", printed, -1, "NONE")

\* Mutant: the string that is there already is not counted.
RequiredForNew(offset, n) == n + 1
Required(offset, n) == offset + n + 1

\* scu_vrsnprintf at offset 0, scu_vrasnprintf behind the string; the first vsnprintf, which
\* only counts, and the second may fail.
PrintAt(op, offset, onCountError, printed) ==
    /\ Strings
    /\ \/ /\ text' = onCountError
          /\ UNCHANGED size
          /\ AnswerTo(op, printed, 0, "WRITING_BUFFER")
       \/ \E new \in scu_ensure_size(size, Required(offset, Len(printed))) :
             /\ size' = new
             /\ IF OutOfMemory(new, Required(offset, Len(printed)))
                THEN UNCHANGED text /\ AnswerTo(op, printed, 0, "OUT_OF_MEMORY")
                ELSE \/ /\ text' = vsnprintf(text, new, offset, printed)
                        /\ AnswerTo(op, printed, 0, "NONE")
                     \/ /\ text' = Put(text, offset, <<>>)
                        /\ AnswerTo(op, printed, 0, "WRITING_BUFFER")

Rsnprintf(printed) ==
    PrintAt("rsnprintf", 0, IF size > 0 THEN <<Nul>> ELSE text, printed)

Rasnprintf(printed) ==
    /\ size > 0 => IsString
    /\ PrintAt("rasnprintf", IF size = 0 THEN 0 ELSE scu_strlen(text), text, printed)

\* The whole buffer: what is behind the known bytes is arbitrary, but not NUL.
Block == text \o [j \in 1..(size - Len(text)) |-> Newline]

\* Calls of scu_strncpy and scu_strncat on the buffer.  What is behind the string is dropped.
Copy(op, r, src, count) ==
    /\ Strings
    /\ UNCHANGED size
    /\ text' = IF Nul \in Range(r.dest) THEN Terminated(StringIn(r.dest)) ELSE r.dest
    /\ AnswerTo(op, Take(src, Min({count, Len(src)})), r.result, "NONE")

Strncpy(src, count) ==
    size > 0 /\ Copy("strncpy", scu_strncpy(Block, size, Terminated(src), count), src, count)
Strncat(src, count) ==
    /\ size > 0 /\ IsString
    /\ Copy("strncat", scu_strncat(Block, size, Terminated(src), count), src, count)

--------------------------------------------------------------------------------
(* The specification *)

Init ==
    /\ file = "none" /\ handles = 0
    /\ stream = Opened(<<>>)
    /\ text = <<>> /\ size = 0 /\ used = 0
    /\ delivered = <<>>
    /\ last = [op |-> "fclose", outcome |-> "NONE", given |-> <<>>, number |-> 0]

FileCall ==
    \/ Fopen("fopen", Contents)
    \/ Fopen("fopentmp", {<<>>})
    \/ Freopen \/ Fclose \/ Forget
    \/ Freadc \/ Freads
    \/ \E n \in Counts : Fread(n)
    \/ \E p \in 0..MaxContent : Fseek(p)
    \/ \E c \in UNION {Range(t) : t \in Texts} : Funreadc(c) \/ Fwritec(c)
    \/ \E t \in Texts : Fwrites(t) \/ Fwriteln(t)
    \/ Frewind \/ Fclear

BufferCall ==
    \/ FreeBuffer
    \/ \E n \in BufferSizes : ProvideBuffer(n)
    \/ \E t \in Texts : Snprintf(t) \/ Rsnprintf(t) \/ Rasnprintf(t)
    \/ \E t \in Texts, count \in Counts : Strncpy(t, count) \/ Strncat(t, count)

\* The client makes one call at a time.
Next ==
    \/ Freadln \/ Freadall
    \/ used = 0 /\ (FileCall \/ BufferCall)

Spec == Init /\ [][Next]_vars

--------------------------------------------------------------------------------
(* Properties: streams *)

Bytes == {Nul, Newline} \cup UNION {Range(t) : t \in Texts \cup Contents}

\* A FILE is open for every open file and no other, also when there is no memory for its
\* ScuFile or reopening fails; the end-of-file flag is set only where nothing is left.
TypeOK ==
    /\ file \in {"none", "open", "dangling"}
    /\ handles = IF file = "open" THEN 1 ELSE 0
    /\ stream.pos \in 0..Len(stream.content) /\ Len(stream.pushed) <= 1
    /\ stream.eof => Rest(stream) = <<>>
    /\ Range(stream.content) \cup Range(text) \subseteq Bytes
    /\ size \in 0..MaxSize
    /\ used \in 0..Len(text)

\* However reads of characters, blocks, lines and everything follow one another, with
\* characters put back and the buffer growing in the middle of a line: what the client is
\* given, what the loop of a call has put into the buffer and what is left of the file are what
\* the file holds, without a gap or a repetition.  (A line with a NUL is cut.)
PiecesAddUp ==
    file = "open" /\ delivered # Unknown /\ Nul \notin Range(stream.content) =>
        delivered \o Take(text, used) \o Rest(stream) = stream.content

\* io.h on what the answers of the reading functions say: at the end of the file nothing was
\* read and nothing is left; scu_freadall leaves nothing; and scu_freadln gives one line,
\* which is complete unless it is the last.  An error is answered only when the flag is set.
ReadsRight ==
    LET string == StringIn(text)
        reading == last.op \in {"freadc", "freads", "freadln", "freadall"}
    IN  /\ reading /\ last.outcome = "END_OF_FILE" =>
              /\ Rest(stream) = <<>>
              /\ last.op # "freadc" => string = <<>>
        /\ reading /\ last.outcome = "READING_FILE" => stream.err
        /\ last.op = "freadall" /\ last.outcome = "NONE" => Rest(stream) = <<>>
        /\ last.op = "freadln" /\ last.outcome = "NONE" /\ Nul \notin Range(stream.content) =>
              /\ string # <<>>
              /\ Newline \notin Range(Front(string))
              /\ Last(string) = Newline \/ Rest(stream) = <<>>

\* io.h on the buffer: it holds what was written to it, and a terminated string after every
\* call but one that ran out of memory, even after an error in the middle of a line.
BufferSound ==
    /\ Len(text) <= size
    /\ size > 0 /\ last.outcome \notin {"OUT_OF_MEMORY", "UNFINISHED"} /\ last.op \in
          {"freads", "freadln", "freadall", "snprintf", "rsnprintf", "rasnprintf"} => IsString

--------------------------------------------------------------------------------
(* Properties: strings *)

AppendStep ==
    last'.op \in {"rasnprintf", "strncpy", "strncat"} =>
        LET kept == IF last'.op = "strncpy" THEN <<>> ELSE StringIn(text)
            room == size - Len(kept) - 1
            added == IF last'.op # "rasnprintf"
                     THEN Take(last'.given, Min({room, Len(last'.given)}))
                     ELSE IF last'.outcome = "NONE" THEN last'.given ELSE <<>>
        IN  /\ StringIn(text') = kept \o added
            /\ last'.op # "rasnprintf" => Nul \in Range(text')
            /\ last'.op = "strncpy" => last'.number = Len(added)

\* What appending and copying leave in the buffer, whatever it held and wherever it moves:
\* the string that is appended to stays, and behind it is all of the new text or, whichever
\* step of scu_vrasnprintf fails, nothing; for the bounded copies, as much as fits in front of
\* a NUL.
AppendsKeepTheString == [][AppendStep]_vars

\* string.h: scu_strncat returns the number of bytes that it appended.
AppendedAsDocumented ==
    [][last'.op = "strncat" => last'.number = Len(StringIn(text')) - Len(StringIn(text))]_vars

\* Searching from the end finds what searching the reversed string finds from the start, and
\* a string starts with what its mirror ends with.
SearchesMirror ==
    LET s == StringIn(text)
        S == Terminated(s)
        R == Terminated(Reverse(s))
        Mirrored(i, n) == IF i = -1 THEN -1 ELSE Len(s) - i - n
    IN  /\ \A c \in Bytes :
              /\ scu_str_last_index_of_byte(S, c) = Mirrored(scu_str_index_of_byte(R, c), 1)
              /\ c >= Newline => scu_str_last_index_in_range(S, Newline, c) =
                                    Mirrored(scu_str_index_in_range(R, Newline, c), 1)
              /\ scu_str_ends_with_byte(S, c) = scu_str_starts_with_byte(R, c)
        /\ \A t \in Texts :
              LET T == Terminated(t)
                  U == Terminated(Reverse(t))
              IN  /\ scu_str_last_index_of_str(S, T) =
                         Mirrored(scu_str_index_of_str(R, U), Len(t))
                  /\ scu_str_last_index_of_any(S, T) = Mirrored(scu_str_index_of_any(R, T), 1)
                  /\ scu_str_ends_with_str(S, T) = scu_str_starts_with_str(R, U)
                  /\ scu_str_starts_with_str(S, T) <=> scu_str_index_of_str(S, T) = 0

\* The comparison of strings is an order: it is 0 for equal strings only, the mirror changes
\* its sign, a string precedes those it begins, and a bounded comparison is one of bounded
\* copies.
ComparisonsAgree ==
    LET S == scu_strdup(Terminated(StringIn(text)))
    IN  \A t \in Texts :
            LET T == Terminated(t)
            IN  /\ scu_strcmp(S, T) = -scu_strcmp(T, S)
                /\ scu_strcmp(S, T) = 0 <=> S = T
                /\ scu_str_starts_with_str(S, T) => scu_strcmp(T, S) <= 0
                /\ \A n \in Counts :
                      scu_strncmp(S, T, n) = scu_strcmp(scu_strndup(S, n), scu_strndup(T, n))
================================================================================
