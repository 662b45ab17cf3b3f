-------------------------------- MODULE Download --------------------------------
(***************************************************************************)
(* The download of a program: the host program patserdow sends the entry   *)
(* point and the segments of an executable in frames with a check sum; the *)
(* boot loader takes the frames apart, writes the segments to memory and   *)
(* replies to each frame.  The line may change bytes.  After an error, and *)
(* when a program returns, the boot loader starts again by itself and goes *)
(* on with what is on the line.  A host that ended is started again, with  *)
(* the board reset or as it is; the memory keeps what it has.              *)
(***************************************************************************)
EXTENDS Integers, Sequences, SequencesExt

CONSTANTS
  Executables,  \* [entry, segments], a segment is [offset, memsize, data]
  FrameSizes,   \* how many bytes a frame may have at most
  Low(_),       \* the low byte of a check sum, which is all that a reply has
  Exit,         \* what the boot loader writes on the serial line before it starts again
  Window,       \* bound: frames on the line
  WordBytes, Base,     \* bytes of a word, values of a byte
  MemWords,
  Noise,        \* what a byte may become
  MaxTries      \* how often the host is started

CRC_LENGTH == 1   \* a check sum is one item here
NoSum      == <<-1>>

VARIABLES
  elf, sync, frame,               \* the executable; a frame waits for a reply; its size
  chunks, responseQueue, host,    \* of the host
  line, responses,                \* bytes and replies under way
  dev, mem,                       \* the boot loader, see DownloadStart
  tries,                          \* bounded by MaxTries
  clean,                          \* history: the line changed nothing in this try
  fresh                           \* history: download() began with the host's first byte

downloadVars == <<elf, sync, frame, chunks, responseQueue, host, line, responses, dev, mem, tries, clean, fresh>>

-----------------------------------------------------------------------------
(* The host. *)

Item(b)    == [byte |-> b, sum |-> NoSum]
Check(s)   == [byte |-> Low(s), sum |-> s]
putInt(v)  == [k \in 1..WordBytes |-> (v \div Base^(WordBytes - k)) % Base]
Frame(s)   == << Item(Len(s)), Check(s) >> \o [k \in 1..Len(s) |-> Item(s[k])]

\* What one read of a stream can return: the header, that of a segment, the
\* data of one.
Chunks ==
  << putInt(elf.entry) \o putInt(Len(elf.segments)) >> \o
  FlattenSeq([k \in 1..Len(elf.segments) |->
    LET s == elf.segments[k]
    IN  << putInt(Len(s.data)) \o putInt(s.offset) \o putInt(s.memsize), s.data >>])

\* A byte of the frame may change on its way; bound: of one frame, in the
\* first try.
Noisy(f) == {[f EXCEPT ![k] = Item(b)] : k \in 1..Len(f), b \in Noise} \ {f}

\* A frame takes what a read returns; the bytes that are left go on.
send ==
  /\ host = "sending" /\ chunks # <<>>
  /\ IF sync THEN responseQueue = <<>>
     ELSE Len(responseQueue) < Window \/ line = <<>> \/ dev.status = "loaded"
  /\ LET all  == Head(chunks)
         n    == IF Len(all) < frame THEN Len(all) ELSE frame
         sent == SubSeq(all, 1, n)
     IN  /\ chunks' = IF n = Len(all) THEN Tail(chunks) ELSE <<SubSeq(all, n + 1, Len(all))>> \o Tail(chunks)
         /\ IF n = 0 THEN UNCHANGED <<line, responseQueue, clean>>
            ELSE /\ \/ line' = line \o Frame(sent) /\ UNCHANGED clean
                    \/ /\ tries = 1 /\ clean /\ clean' = FALSE
                       /\ \E f \in Noisy(Frame(sent)) : line' = line \o f
                 /\ responseQueue' = Append(responseQueue, Low(sent))
  /\ UNCHANGED <<elf, sync, frame, host, responses, dev, mem, tries, fresh>>

\* Replies are those expected, in order, or the host gives up.
ack ==
  /\ host = "sending" /\ responses # <<>>
  /\ responses' = Tail(responses)
  /\ IF responseQueue # <<>> /\ Head(responses) = Head(responseQueue)
     THEN responseQueue' = Tail(responseQueue) /\ UNCHANGED host
     ELSE host' = "failed" /\ UNCHANGED responseQueue
  /\ UNCHANGED <<elf, sync, frame, chunks, line, dev, mem, tries, clean, fresh>>

finish ==
  /\ host = "sending" /\ chunks = <<>> /\ responseQueue = <<>>
  /\ host' = "done"
  /\ UNCHANGED <<elf, sync, frame, chunks, responseQueue, line, responses, dev, mem, tries, clean, fresh>>

\* No reply for ten seconds: nothing is under way any more, and the boot
\* loader waits for a byte or a program runs.
timeout ==
  /\ host = "sending" /\ responseQueue # <<>> /\ (chunks = <<>> \/ sync)
  /\ responses = <<>>
  /\ \/ dev.status = "loading" /\ line = <<>>
     \/ dev.status = "loaded"
  /\ host' = "failed"
  /\ UNCHANGED <<elf, sync, frame, chunks, responseQueue, line, responses, dev, mem, tries, clean, fresh>>

-----------------------------------------------------------------------------
(* The boot loader. *)

Fields == <<"entrypoint", "section_number", "section_filesize", "section_offset", "section_memsize">>
DATA   == Len(Fields)
FILESIZE == 2

\* state counts the fields of the header read so far.
DownloadStart ==
  [status |-> "loading", state |-> 0, section_count |-> 0, section_byte_count |-> 0, integer |-> 0,
   packet_byte_count |-> 0, packet_size |-> 0, calculated_crc |-> <<>>, received_crc |-> NoSum,
   field |-> [f \in Range(Fields) |-> IF f = "section_number" THEN -1 ELSE 0]]

Padded(n) == ((n + WordBytes - 1) \div WordBytes) * WordBytes

\* A byte of a header or of data, in the word it belongs to.
Shifted(d, b) ==
  [d EXCEPT !.integer = @ + b * Base^(WordBytes - 1 - (d.section_byte_count % WordBytes)),
            !.section_byte_count = @ + 1]

\* Mutant: a word is not cleared at the end of a segment that does not fill it.
Keeping(d) ==
  IF d.section_byte_count % WordBytes = 0 /\ d.state # FILESIZE THEN [d EXCEPT !.integer = 0] ELSE d

Cleared(d) == IF d.section_byte_count % WordBytes = 0 THEN [d EXCEPT !.integer = 0] ELSE d

\* A field is complete with its last byte.
Field(d) ==
  IF d.section_byte_count < WordBytes THEN d
  ELSE [d EXCEPT !.field[Fields[d.state + 1]] = d.integer,
                 !.section_byte_count = 0, !.state = @ + 1]

SegmentEnds(d) == d.state = DATA /\ d.section_byte_count = d.field.section_filesize

NextSegment(d) ==
  IF SegmentEnds(d)
  THEN [d EXCEPT !.section_byte_count = 0, !.section_count = @ + 1, !.state = FILESIZE]
  ELSE d

\* The addresses that are filled with zeros, word by word.
Filled(d) ==
  {(d.field.section_offset + k) \div WordBytes :
     k \in {i \in Padded(d.section_byte_count)..d.field.section_memsize - 1 : i % WordBytes = 0}}

\* A byte of the payload: the registers and the memory after it.
Payload(d, b) ==
  LET s == [Shifted(d, b) EXCEPT !.calculated_crc = Append(@, b)]
      f == IF d.state < DATA THEN Field(s) ELSE s
      at == (d.field.section_offset + s.section_byte_count - 1) \div WordBytes
      written == IF d.state = DATA /\ at \in DOMAIN mem THEN [mem EXCEPT ![at] = s.integer] ELSE mem
  IN  [dev |-> Cleared(NextSegment(f)),
       mem |-> [w \in DOMAIN mem |-> IF SegmentEnds(f) /\ w \in Filled(f) THEN 0 ELSE written[w]]]

\* What the end of a packet makes of it.
Verdict(d) ==
  IF Check(d.calculated_crc).sum # d.received_crc THEN [DownloadStart EXCEPT !.status = "null"]
  ELSE IF d.section_count = d.field.section_number THEN [d EXCEPT !.status = "loaded"]
  ELSE [d EXCEPT !.packet_size = 0]

Counted(d) ==
  LET c == [d EXCEPT !.packet_byte_count = @ + 1]
  IN  IF c.packet_byte_count = c.packet_size + CRC_LENGTH
      THEN dev' = Verdict(c) /\ responses' = Append(responses, Low(c.calculated_crc))
      ELSE dev' = c /\ UNCHANGED responses

get_byte ==
  /\ dev.status = "loading" /\ line # <<>>
  /\ line' = Tail(line)
  /\ LET data == Head(line)
         after == Payload(dev, data.byte)
     IN  IF dev.packet_size = 0
         THEN /\ dev' = [dev EXCEPT !.packet_size = data.byte, !.packet_byte_count = 0,
                                    !.calculated_crc = <<>>, !.received_crc = NoSum]
              /\ UNCHANGED <<mem, responses>>
         ELSE IF dev.packet_byte_count < CRC_LENGTH
         THEN Counted([dev EXCEPT !.received_crc = data.sum]) /\ UNCHANGED mem
         ELSE Counted(after.dev) /\ mem' = after.mem
  /\ UNCHANGED <<elf, sync, frame, chunks, responseQueue, host, tries, clean, fresh>>

\* The end of main: without a program after an error, or when the program
\* returned.  The exit magic always goes to the serial line.  The driver of
\* the network drops what it has; the queue of the UART has place for what
\* comes meanwhile, or for nothing of it.
loop_back ==
  /\ dev' = DownloadStart /\ fresh' = FALSE
  /\ responses' = IF sync THEN responses ELSE responses \o Exit
  /\ line' \in IF sync THEN {<<>>} ELSE {<<>>, line}
  /\ UNCHANGED <<elf, sync, frame, chunks, responseQueue, host, mem, tries, clean>>

failed_back   == dev.status = "null" /\ loop_back
returned_back == dev.status = "loaded" /\ loop_back

-----------------------------------------------------------------------------
DownloadInit ==
  /\ elf \in Executables /\ sync \in BOOLEAN /\ frame \in FrameSizes
  /\ chunks = Chunks /\ responseQueue = <<>> /\ host = "sending"
  /\ line = <<>> /\ responses = <<>>
  /\ dev = DownloadStart
  /\ mem = [w \in 0..MemWords - 1 |-> -1]
  /\ tries = 1 /\ clean = TRUE /\ fresh = TRUE

\* The host is started, again or with another executable.  Nothing resets the
\* board, but its user may.  Replies that nobody read may still be there.
retry ==
  /\ host # "sending" /\ tries < MaxTries
  /\ elf' \in Executables
  /\ host' = "sending" /\ chunks' = Chunks' /\ responseQueue' = <<>>
  /\ \/ line' = <<>> /\ dev' = DownloadStart
     \/ dev.status # "loaded" /\ UNCHANGED <<line, dev>>
  /\ responses' \in {responses, <<>>}
  /\ fresh' = (dev' = DownloadStart /\ line' = <<>>)
  /\ clean' = (fresh' /\ responses' = <<>>)
  /\ tries' = tries + 1
  /\ UNCHANGED <<sync, frame, mem>>

Moves == send \/ ack \/ finish \/ timeout \/ get_byte \/ failed_back

DownloadNext == Moves \/ returned_back \/ retry

\* Host and boot loader run; a program need not return.
DownloadFairness == WF_downloadVars(Moves)

DownloadSpec == DownloadInit /\ [][DownloadNext]_downloadVars /\ DownloadFairness

-----------------------------------------------------------------------------
(* Properties. *)

\* The bytes of segment s at address a, padding included.
Content(s, a) == IF a - s.offset < Len(s.data) THEN s.data[a - s.offset + 1] ELSE 0
Extent(s)     == Padded(IF s.memsize > Len(s.data) THEN s.memsize ELSE Len(s.data))

InMemory(s, w) ==
  mem[w] = FoldLeft(LAMBDA v, k : v * Base + Content(s, w * WordBytes + k), 0,
                    [k \in 1..WordBytes |-> k - 1])

\* A download that began with the first byte of an executable starts it, and
\* has the host take it for loaded, only when it is in memory, whole and with
\* its zeros, whatever the line changed and whatever earlier downloads left.
\* (A host at a board that found an error may take anything for loaded, and a
\* download that begins in the middle may start anything.)
LoadedWhole ==
  fresh /\ dev.status # "null" /\ (dev.status = "loaded" \/ host = "done") =>
    /\ dev.field.entrypoint = elf.entry
    /\ \A s \in Range(elf.segments) :
         \A w \in s.offset \div WordBytes..(s.offset + Extent(s)) \div WordBytes - 1 : InMemory(s, w)

\* The board finds no error where the line changes nothing.
NoFalseError == clean => dev.status # "null"

\* The host always ends; where the line changes nothing and the board waits for
\* a program, not before the program was started (and perhaps returned).
IsLoaded ==
  host = "sending" ~> host # "sending" /\ (clean => dev.status = "loaded" \/ ~fresh)

Downloads == [](LoadedWhole /\ NoFalseError) /\ IsLoaded

=============================================================================
