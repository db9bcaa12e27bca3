------------------------------ MODULE GpsReader ------------------------------
(***************************************************************************)
(* sensors/gps.py: NMEA sentences come over the serial port, cut anywhere, *)
(* and every read, which SensorNode polls for, reports at most one of them.*)
(*                                                                         *)
(* A sentence is two pieces, the "tail" with the line feed.  A line made   *)
(* of pieces of two sentences fails the checksum.                          *)
(***************************************************************************)
EXTENDS Sequences, Naturals, FiniteSetsExt

CONSTANTS MaxSentences,  \* bound: sentences sent in a behaviour
          Room           \* pieces the port holds between two reads

ASSUME GpsAssumption == MaxSentences \in Nat /\ Room \in Nat

VARIABLES
    kind,      \* the sentences sent: kind[n] of sentence n
    midway,    \* the newest sentence still lacks its tail
    waiting,   \* pieces in the port: in_waiting
    buffer,    \* _buffer
    reading,   \* the sentence of the reading published last, 0 for no fix
    reported,  \* history: the sentences reported, in this order
    overrun    \* history: pieces that found no room in the port

gpsVars == <<kind, midway, waiting, buffer, reading, reported, overrun>>

\* "fix" and "void" are good RMC sentences, "other" is any other type, and a
\* "damaged" one fails the checksum or has fewer than eight fields.
Kinds == {"fix", "void", "other", "damaged"}
Sentences == DOMAIN kind
Pieces == [num : Sentences, part : {"head", "tail"}]
Head_(n) == [num |-> n, part |-> "head"]
Tail_(n) == [num |-> n, part |-> "tail"]

GpsTypeOK ==
    /\ kind \in Seq(Kinds) /\ Len(kind) <= MaxSentences
    /\ midway \in BOOLEAN
    /\ waiting \in Seq(Pieces) /\ Len(waiting) <= Room
    /\ buffer \in Seq(Pieces)
    /\ reading \in Sentences \cup {0}
    /\ reported \in Seq(Sentences)
    /\ overrun \subseteq Pieces

GpsInit ==
    /\ kind = <<>>
    /\ midway = FALSE
    /\ waiting = <<>>
    /\ buffer = <<>>
    /\ reading = 0
    /\ reported = <<>>
    /\ overrun = {}

-----------------------------------------------------------------------------
(* The receiver and the port *)

Arrives(piece) ==
    IF Len(waiting) < Room
    THEN waiting' = Append(waiting, piece) /\ UNCHANGED overrun
    ELSE overrun' = overrun \cup {piece} /\ UNCHANGED waiting

SendHead ==
    /\ ~midway
    /\ Len(kind) < MaxSentences
    /\ \E k \in Kinds : kind' = Append(kind, k)
    /\ midway' = TRUE
    /\ Arrives(Head_(Len(kind')))
    /\ UNCHANGED <<buffer, reading, reported>>

SendTail ==
    /\ midway
    /\ midway' = FALSE
    /\ Arrives(Tail_(Len(kind)))
    /\ UNCHANGED <<kind, buffer, reading, reported>>

-----------------------------------------------------------------------------
(* GpsReader.read, called by SensorNode._poll_loop *)

\* A complete line ends at position i of b.
LineEnds(b, i) == b[i].part = "tail"

\* _parse_rmc accepts that line: one whole sentence, and a good one.
Parses(b, i) ==
    /\ LineEnds(b, i)
    /\ i > 1 /\ b[i - 1] = Head_(b[i].num)
    /\ i > 2 => LineEnds(b, i - 2)
    /\ kind[b[i].num] \in {"fix", "void"}

\* Faulty variant: the rest of the last, incomplete line is thrown away.
ReadDropsRest ==
    LET b == buffer \o waiting
        lines == {i \in DOMAIN b : LineEnds(b, i)}
        good == {i \in lines : Parses(b, i)}
        cut == IF good # {} THEN Min(good) ELSE Len(b)
    IN  /\ waiting' = <<>>
        /\ buffer' = SubSeq(b, cut + 1, Len(b))
        /\ reported' = IF good = {} THEN reported ELSE Append(reported, b[cut].num)
        /\ reading' = IF good # {} /\ kind[b[cut].num] = "fix" THEN b[cut].num ELSE 0
        /\ UNCHANGED <<kind, midway, overrun>>

\* Faulty variant: the line that parsed stays in the buffer.
ReadKeepsLine ==
    LET b == buffer \o waiting
        lines == {i \in DOMAIN b : LineEnds(b, i)}
        good == {i \in lines : Parses(b, i)}
        cut == IF good # {} THEN Min(good) ELSE Max(lines \cup {0})
    IN  /\ waiting' = <<>>
        /\ buffer' = IF good = {} THEN SubSeq(b, cut + 1, Len(b)) ELSE b
        /\ reported' = IF good = {} THEN reported ELSE Append(reported, b[cut].num)
        /\ reading' = IF good # {} /\ kind[b[cut].num] = "fix" THEN b[cut].num ELSE 0
        /\ UNCHANGED <<kind, midway, overrun>>

\* The while loop: lines are taken off until one parses.
Read ==
    LET b == buffer \o waiting
        lines == {i \in DOMAIN b : LineEnds(b, i)}
        good == {i \in lines : Parses(b, i)}
        cut == IF good # {} THEN Min(good) ELSE Max(lines \cup {0})
    IN  /\ waiting' = <<>>
        /\ buffer' = SubSeq(b, cut + 1, Len(b))
        /\ reported' = IF good = {} THEN reported ELSE Append(reported, b[cut].num)
        /\ reading' = IF good # {} /\ kind[b[cut].num] = "fix" THEN b[cut].num ELSE 0
        /\ UNCHANGED <<kind, midway, overrun>>

\* The port raises: logged, and an empty reading.
ReadFails ==
    /\ reading' = 0
    /\ UNCHANGED <<kind, midway, waiting, buffer, reported, overrun>>

=============================================================================
