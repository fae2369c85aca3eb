----------------------------- MODULE FileReading -----------------------------
(***************************************************************************)
(* RepositoryService (repository_service.py): how one file of a repository *)
(* is read as text (read_text_file) and described (build_file_metadata).   *)
(* Its size, a sample, its hash and its text are looked at one after the   *)
(* other, and the file may be edited in between.                           *)
(*                                                                         *)
(* A byte is one of: "a" ASCII, "n" the end of a line, "0" the zero byte,  *)
(* "L" and "T" the first and the second byte of a character in UTF-8, "U"  *)
(* a second byte that no character of cp1252 has; the marks "B" (UTF-8)    *)
(* and "W" (UTF-16) count as one.  Other control bytes, of which a share   *)
(* makes a file binary too, are left out.                                  *)
(***************************************************************************)
EXTENDS Naturals, Sequences, FiniteSets, SequencesExt

CONSTANTS
    ReadFiles,      \* what is known of a file without opening it
    ReadingOptions, \* RepositoryConfiguration: detects (detect_encoding), hashes
                    \* (calculate_hashes)
    FileVersions,   \* contents: the bytes, and the encoding a cookie declares
    MaxReadable,    \* maximum_bytes, maximum_file_size_bytes
    SampleSize,     \* TEXT_SAMPLE_SIZE
    MaxReadEdits    \* bound on edits

Bytes == {"a", "n", "0", "L", "T", "U", "B", "W"}
ASSUME FileReadingAssumption ==
    /\ \A f \in ReadFiles :
          /\ f.name \in {"plain", "test", "config", "generated"}
          /\ f.suffix \in {"python", "code", "doc", "asset", "binary", "other"}
          /\ f.under \subseteq {"generated", "output", "coverage", "dependency", "tests", "docs"}
          /\ f.protected \in BOOLEAN
    /\ ReadingOptions \subseteq [detects : BOOLEAN, hashes : BOOLEAN]
    /\ FileVersions \subseteq [bytes : Seq(Bytes),
                               cookie : {"none", "ascii", "latin", "unknown"}]
    /\ MaxReadable \in Nat /\ SampleSize \in Nat \ {0} /\ MaxReadEdits \in Nat

Trails == {"T", "U"}
Starts(bytes, mark) == bytes # <<>> /\ bytes[1] = mark
Sample(bytes) == SubSeq(bytes, 1, IF Len(bytes) < SampleSize THEN Len(bytes) ELSE SampleSize)

(* ------------------------------- the role ----------------------------- *)

\* is_generated_file
IsGenerated(f) == f.name = "generated" \/ f.under \cap {"generated", "output"} # {}

\* detect_file_role: the first that fits.
Role(f) ==
    LET fits == <<
            [role |-> "secret", when |-> f.protected],
            [role |-> "generated", when |-> IsGenerated(f)],
            [role |-> "dependency", when |-> "dependency" \in f.under],
            [role |-> "artifact", when |-> f.under \cap {"output", "coverage"} # {}],
            [role |-> "test", when |-> "tests" \in f.under \/ f.name = "test"],
            [role |-> "configuration", when |-> f.name = "config"],
            [role |-> "documentation", when |-> f.suffix = "doc" \/ "docs" \in f.under],
            [role |-> "asset", when |-> f.suffix = "asset"],
            [role |-> "source", when |-> f.suffix \in {"python", "code"}],
            [role |-> "unknown", when |-> TRUE] >>
        first == CHOOSE i \in DOMAIN fits : /\ fits[i].when
                                            /\ \A j \in 1 .. i - 1 : ~fits[j].when
    IN fits[first].role

(* ------------------------------ encodings ----------------------------- *)

\* is_binary_file: a zero byte in the sample of a file that begins with no mark.
LooksBinary(bytes) ==
    /\ ~(Starts(bytes, "B") \/ Starts(bytes, "W"))
    /\ "0" \in ToSet(Sample(bytes))

IsUtf8(bytes) ==
    /\ "W" \notin ToSet(bytes)
    /\ \A i \in DOMAIN bytes :
          /\ bytes[i] = "L" => i < Len(bytes) /\ bytes[i + 1] \in Trails
          /\ bytes[i] \in Trails => i > 1 /\ bytes[i - 1] = "L"

\* bytes.decode(encoding, errors="strict") succeeds.
Decodes(bytes, encoding) ==
    CASE encoding \in {"utf-8", "utf-8-sig"} -> IsUtf8(bytes)
      [] encoding = "utf-16-le" -> Len(bytes) % 2 = 1
      [] encoding = "cp1252" -> "U" \notin ToSet(bytes)
      [] encoding = "ascii" -> ToSet(bytes) \subseteq {"a", "n", "0"}
      [] encoding \in {"iso-8859-1", "latin"} -> TRUE
      [] OTHER -> FALSE

\* The characters of the text: the bytes of each.
Utf8Characters(bytes) ==
    LET read[n \in 0 .. Len(bytes)] ==
            IF n = 0 THEN <<>>
            ELSE IF bytes[n] \in Trails
                 THEN Append(Front(read[n - 1]), Append(Last(read[n - 1]), bytes[n]))
                 ELSE Append(read[n - 1], <<bytes[n]>>)
    IN read[Len(bytes)]
Characters(bytes, encoding) ==
    CASE encoding = "utf-8" -> Utf8Characters(bytes)
      [] encoding = "utf-8-sig" -> Utf8Characters(Tail(bytes))
      [] encoding = "utf-16-le" ->
            [i \in 1 .. (Len(bytes) + 1) \div 2 |->
                IF i = 1 THEN <<"W">> ELSE <<bytes[2 * i - 2], bytes[2 * i - 1]>>]
      [] OTHER -> [i \in DOMAIN bytes |-> <<bytes[i]>>]

\* detect_text_encoding: marks, the cookie of Python if the sample bears it out,
\* then what the sample allows.
Detected(f, version) ==
    LET sample == Sample(version.bytes)
    IN CASE Starts(sample, "B") -> "utf-8-sig"
         [] Starts(sample, "W") -> "utf-16-le"
         [] /\ ~(Starts(sample, "B") \/ Starts(sample, "W"))
            /\ f.suffix = "python" /\ version.cookie # "none"
            /\ Decodes(sample, version.cookie) -> version.cookie
         [] OTHER -> IF IsUtf8(sample) THEN "utf-8"
                     ELSE IF Decodes(sample, "cp1252") THEN "cp1252"
                     ELSE "iso-8859-1"

\* What read_text_file and build_file_metadata go by.
Encoding(f, options, version) == IF options.detects THEN Detected(f, version) ELSE "utf-8"

\* _count_text_lines
IsLineEnd(character) == character \in {<<"n">>, <<"n", "0">>}
LineCount(text) ==
    Cardinality({i \in DOMAIN text : IsLineEnd(text[i])})
    + (IF text # <<>> /\ ~IsLineEnd(Last(text)) THEN 1 ELSE 0)

(* ------------------------------- reading ------------------------------ *)

VARIABLES
    toRead,         \* the file
    options,        \* one of ReadingOptions
    version,        \* its content
    reading,        \* what is read of it
    contents,       \* history: what the content has been since then
    readEdits       \* how many edits there have been

readingVars == <<toRead, options, version, reading, contents, readEdits>>

ReadingInit ==
    /\ toRead \in ReadFiles /\ options \in ReadingOptions /\ version \in FileVersions
    /\ reading = [stage |-> "rest"] /\ contents = {} /\ readEdits = 0

IsAt(stage) == reading.stage = stage
NotRead(why) == [stage |-> "refused", why |-> why]

\* read_text_file: the path and the size.
OpenText ==
    /\ IsAt("rest") /\ contents' = {version}
    /\ \E allowed \in BOOLEAN, inspected \in BOOLEAN :
          reading' = IF toRead.protected /\ ~allowed THEN NotRead("protected")
                     ELSE IF ~inspected THEN NotRead("unreadable")
                     ELSE IF Len(version.bytes) > MaxReadable THEN NotRead("size")
                     ELSE [stage |-> "sample"]
    /\ UNCHANGED <<toRead, options, version, readEdits>>
TakenForBinary(readable) ==
    toRead.suffix = "binary" \/ ~readable \/ LooksBinary(version.bytes)
SampleText ==
    /\ IsAt("sample")
    /\ \E readable \in BOOLEAN :
          reading' = IF TakenForBinary(readable) THEN NotRead("binary") ELSE [stage |-> "load"]
    /\ UNCHANGED <<toRead, options, version, contents, readEdits>>

\* All of the result comes from one reading of the bytes.
TextOf(of, hashed) ==
    LET encoding == Encoding(toRead, options, of)
        text == Characters(of.bytes, encoding)
    IN IF ~Decodes(of.bytes, encoding) THEN NotRead("encoding")
       ELSE [stage |-> "read", text |-> text, encoding |-> encoding, sha256 |-> hashed,
             line_count |-> LineCount(text), size_bytes |-> Len(of.bytes)]
LoadText ==
    /\ IsAt("load")
    /\ \/ reading' = TextOf(version, version)
       \/ reading' = NotRead("unreadable")
    /\ UNCHANGED <<toRead, options, version, contents, readEdits>>

\* build_file_metadata: the size, whether it is binary, the hash, the lines.
Describe ==
    /\ IsAt("rest") /\ contents' = {version}
    /\ \/ reading' = NotRead("unreadable")
       \/ reading' = [stage |-> "inspect", size_bytes |-> Len(version.bytes), sha256 |-> {},
                      is_binary |-> FALSE, line_count |-> {}, encoding |-> "none"]
    /\ UNCHANGED <<toRead, options, version, readEdits>>
Inspect ==
    /\ IsAt("inspect")
    /\ \E readable \in BOOLEAN :
          reading' = [reading EXCEPT !.stage = "hash", !.is_binary = TakenForBinary(readable)]
    /\ UNCHANGED <<toRead, options, version, contents, readEdits>>
HashContent ==
    /\ IsAt("hash")
    /\ \E hashed \in IF options.hashes THEN {{version}, {}} ELSE {{}} :
          reading' = [reading EXCEPT !.stage = "lines", !.sha256 = hashed]
    /\ UNCHANGED <<toRead, options, version, contents, readEdits>>
CountLines ==
    /\ IsAt("lines")
    /\ LET encoding == Encoding(toRead, options, version)
           counted == Decodes(version.bytes, encoding)
           skipped == reading.is_binary \/ toRead.protected \/ reading.size_bytes > MaxReadable
       IN IF skipped THEN reading' = [reading EXCEPT !.stage = "described"]
          ELSE \E readable \in BOOLEAN :
               reading' = [reading EXCEPT !.stage = "described",
                   !.encoding = IF readable THEN encoding ELSE "none",
                   !.line_count = IF readable /\ counted
                                  THEN {LineCount(Characters(version.bytes, encoding))}
                                  ELSE {}]
    /\ UNCHANGED <<toRead, options, version, contents, readEdits>>

EditRead ==
    /\ readEdits < MaxReadEdits /\ readEdits' = readEdits + 1
    /\ reading.stage \in {"sample", "load", "inspect", "hash", "lines"}
    /\ \E v \in FileVersions \ {version} : version' = v /\ contents' = contents \cup {v}
    /\ UNCHANGED <<toRead, options, reading>>

ReadingNext ==
    \/ OpenText
    \/ SampleText
    \/ LoadText
    \/ Describe
    \/ Inspect
    \/ HashContent
    \/ CountLines
    \/ EditRead
ReadingSpec == ReadingInit /\ [][ReadingNext]_readingVars

(* ----------------------------- properties ----------------------------- *)

\* A character of UTF-8 lies over the end of the sample.
CutBySample(bytes) == Len(bytes) > SampleSize /\ bytes[SampleSize] = "L"
\* Nothing speaks against UTF-8: no such character, and no cookie.
PlainUtf8 ==
    /\ IsUtf8(version.bytes)
    /\ options.detects => /\ ~CutBySample(version.bytes)
                          /\ toRead.suffix # "python" \/ version.cookie = "none"

\* The text, its hash and its size are those of one version the file
\* had since it was asked for, whatever edits came in between; and no byte of it
\* was changed by the decoding, whatever encoding was found.
TextIsOneVersion ==
    IsAt("read") =>
        /\ reading.sha256 \in contents
        /\ LET mark == IF reading.encoding = "utf-8-sig" THEN <<"B">> ELSE <<>>
           IN mark \o FlattenSeq(reading.text) = reading.sha256.bytes
        /\ reading.size_bytes = Len(reading.sha256.bytes)

\* Of a file that is let alone: what is written in UTF-8 is read as that or not at
\* all refused, except when the sample ends within a character or a cookie says
\* otherwise; what is larger than the limit or binary is not read.
Utf8IsRead ==
    Cardinality(contents) = 1 =>
        LET bytes == version.bytes
        IN /\ IsAt("read") => Len(bytes) <= MaxReadable /\ ~LooksBinary(bytes)
           /\ IsAt("read") /\ PlainUtf8 =>
                 reading.text = Characters(bytes, IF options.detects /\ Starts(bytes, "B")
                                                  THEN "utf-8-sig" ELSE "utf-8")
           /\ IsAt("refused") => reading.why # "encoding" \/ ~PlainUtf8

\* What the analysis says of a file that is let alone is so, its lines are counted
\* if anything but its size, its bytes or its secrecy speaks for it, and the lines
\* of a secret are never counted.
MetadataIsTrue ==
    IsAt("described") =>
        /\ Role(toRead) = "secret" => reading.line_count = {} /\ reading.encoding = "none"
        /\ reading.sha256 \subseteq contents
        /\ Cardinality(contents) = 1 =>
              /\ reading.size_bytes = Len(version.bytes)
              /\ reading.line_count # {} => ~LooksBinary(version.bytes)
              /\ Role(toRead) = "source" /\ reading.encoding # "none"
                    /\ reading.line_count = {} => ~PlainUtf8

ReadingIsTrue == TextIsOneVersion /\ Utf8IsRead /\ MetadataIsTrue
=============================================================================
