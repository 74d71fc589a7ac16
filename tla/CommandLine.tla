----------------------------- MODULE CommandLine -----------------------------
(***************************************************************************)
(* The command line of the test connector: class configuration in          *)
(* test-connector.cpp, which reads its arguments from left to right, and   *)
(* the data to be sent, in parts, from a file.  An argument is a text; the *)
(* name of an option is one character.  argv leaves out the program.       *)
(***************************************************************************)
EXTENDS Address

CONSTANTS
  CommandLines,         \* the command lines considered
  Counted,              \* the options that take a number, "--data" not included
  Least, Most,          \* for each of them, and for "--data", its range
  Default,              \* for each of them, its default
  FileSize,             \* the size of each regular file
  WordSize              \* 2^64

ASSUME CommandLineAssumption ==
  /\ CommandLines \subseteq Seq(Seq(STRING))
  /\ WordSize \in Nat
  /\ \A o \in Counted \cup {"--data"} :
       /\ Least[o] \in Nat /\ Most[o] \in Nat
       /\ 10 * Most[o] + 9 < WordSize       \* see NumbersAsWritten
  /\ Least["--data"] > 0                   \* min_data_transfer
  /\ Counted \cap {"--address", "--data", "--file"} = {}
  /\ Counted \subseteq DOMAIN Default
  /\ \A o \in Counted : Default[o] \in Least[o] .. Most[o]

VARIABLES
  argv,       \* the arguments
  i,          \* the next one to be read
  status,     \* parsing, or reading a file; accepted, rejected, or failed:
              \* parse() has returned true, false because of the arguments,
              \* or false because there was no memory or no data
  address,    \* _M_address
  number,     \* _M_nconnections, _M_ntransfers, _M_nloops
  length,     \* _M_length: the bytes of _M_data, 0 as long as there is none
  unread      \* of the file being read: the bytes the loop waits for, and
              \* those that are really left in the file

vars == <<argv, i, status, address, number, length, unread>>

NoFile == [due |-> 0, left |-> 0]

Init ==
  /\ argv \in CommandLines
  /\ i = 1
  /\ status = "parsing"
  /\ address = NoAddress
  /\ number = Default
  /\ length = 0
  /\ unread = NoFile

-----------------------------------------------------------------------------
(* parse(s, n, min, max).                                                  *)

\* Mutant of NumberDigit: the maximum is not looked at.
NumberDigitUnbounded(res, c, max) ==
  LET tmp == (res * 10 + DigitValue[c]) % WordSize
  IN IF res # Invalid /\ c \in Digit /\ tmp >= res THEN tmp ELSE Invalid

\* One turn of the loop, in the arithmetic of uint64_t.
NumberDigit(res, c, max) ==
  LET tmp == (res * 10 + DigitValue[c]) % WordSize
  IN IF res # Invalid /\ c \in Digit /\ tmp >= res /\ tmp <= max THEN tmp ELSE Invalid

ParseNumber(s, min, max) ==
  LET n == FoldLeft(LAMBDA res, c : NumberDigit(res, c, max), 0, s)
  IN IF s # <<>> /\ n >= min THEN n ELSE Invalid

-----------------------------------------------------------------------------
(* parse(argc, argv), one action per option.                               *)

Option(o) == status = "parsing" /\ i <= Len(argv) /\ argv[i] = <<o>>
HasValue == i + 1 <= Len(argv)
Value == argv[i + 1]

NumberGiven(o) == ParseNumber(Value, Least[o], Most[o])

\* Mutant of AddressFits: an address may be given again.
AnyAddressFits == HasValue /\ Build(Value) # NoAddress

AddressFits == HasValue /\ address = NoAddress /\ Build(Value) # NoAddress
NumberFits(o) == HasValue /\ NumberGiven(o) # Invalid
DataFits == length = 0 /\ NumberFits("--data")

\* load_file(): is there such a file, and is it of the right size?
FileFits ==
  /\ HasValue
  /\ length = 0
  /\ Value \in DOMAIN FileSize
  /\ FileSize[Value] \in Least["--data"] .. Most["--data"]

ReadAddress ==
  /\ Option("--address")
  /\ AddressFits
  /\ address' = Build(Value)
  /\ i' = i + 2
  /\ UNCHANGED <<argv, status, number, length, unread>>

ReadNumber(o) ==
  /\ Option(o)
  /\ NumberFits(o)
  /\ number' = [number EXCEPT ![o] = NumberGiven(o)]
  /\ i' = i + 2
  /\ UNCHANGED <<argv, status, address, length, unread>>

ReadData ==
  /\ Option("--data")
  /\ DataFits
  /\ length' = NumberGiven("--data")
  /\ i' = i + 2
  /\ UNCHANGED <<argv, status, address, number, unread>>

\* The file is opened.  It may have become shorter since its size was asked.
OpenFile ==
  /\ Option("--file")
  /\ FileFits
  /\ status' = "reading"
  /\ \E left \in 0 .. FileSize[Value] :
       unread' = [due |-> FileSize[Value], left |-> left]
  /\ UNCHANGED <<argv, i, address, number, length>>

\* Mutant of AllRead: the loop does not see that it has the whole file.
MoreThanAll(due) == due < 0

AllRead(due) == due = 0

\* _read() returns some bytes; the loop ends when it has them all.
ReadPart ==
  /\ status = "reading"
  /\ \E n \in 1 .. unread.left :
       /\ unread' = [due |-> unread.due - n, left |-> unread.left - n]
       /\ length' = length + n
  /\ IF AllRead(unread'.due) THEN status' = "parsing" /\ i' = i + 2
                        ELSE UNCHANGED <<status, i>>
  /\ UNCHANGED <<argv, address, number>>

\* _read() returns 0 at the end of the file, and the loop goes on.
ReadNothing ==
  /\ status = "reading"
  /\ unread.left = 0
  /\ UNCHANGED vars

Fails ==
  /\ \/ Option("--data") /\ DataFits       \* malloc()
     \/ Option("--file") /\ FileFits       \* _sopen_s(), malloc()
     \/ status = "reading"                 \* _read()
  /\ status' = "failed"
  /\ UNCHANGED <<argv, i, address, number, length, unread>>

\* An option without its argument, with an argument that does not fit, given
\* twice or unknown, and "--help".
Reject ==
  /\ status = "parsing"
  /\ i <= Len(argv)
  /\ Option("--address") => ~AddressFits
  /\ \A o \in Counted : Option(o) => ~NumberFits(o)
  /\ Option("--data") => ~DataFits
  /\ Option("--file") => ~FileFits
  /\ status' = "rejected"
  /\ UNCHANGED <<argv, i, address, number, length, unread>>

\* An address and some data have been given.
Complete == address # NoAddress /\ length > 0

Finish ==
  /\ status = "parsing"
  /\ i > Len(argv)
  /\ status' = IF Complete THEN "accepted" ELSE "rejected"
  /\ UNCHANGED <<argv, i, address, number, length, unread>>

Read ==
  \/ ReadAddress
  \/ \E o \in Counted : ReadNumber(o)
  \/ ReadData
  \/ OpenFile
  \/ ReadPart
  \/ ReadNothing
  \/ Reject
  \/ Finish

Next == Read \/ Fails

\* main() goes on; nothing has to fail.
Spec == Init /\ [][Next]_vars /\ WF_vars(Read)

-----------------------------------------------------------------------------
(* Properties.                                                             *)

Ended == status \in {"accepted", "rejected", "failed"}

\* Type correctness: whatever has been read, the numbers are in their ranges
\* and the buffer holds what was asked for.
TypeOK ==
  /\ i \in 1 .. Len(argv) + 1
  /\ Ended \/ status \in {"parsing", "reading"}
  /\ \A o \in Counted : number[o] \in Least[o] .. Most[o]
  /\ length \in 0 .. Most["--data"]
  /\ length + unread.due <= Most["--data"] /\ unread.left <= unread.due

\* The command lines the program is meant to take, as a whole: pairs of an
\* option and its argument, one address and one of "--file" and "--data".
NumberText(t, o) == IsNumber(t) /\ NumberOf(t) \in Least[o] .. Most[o]

IsPair(o, t) ==
  \/ o = <<"--address">> /\ Meanings(t) # {NoAddress}
  \/ \E c \in Counted : o = <<c>> /\ NumberText(t, c)
  \/ o = <<"--data">> /\ NumberText(t, "--data")
  \/ /\ o = <<"--file">>
     /\ t \in DOMAIN FileSize
     /\ FileSize[t] \in Least["--data"] .. Most["--data"]

Names == {k \in DOMAIN argv : k % 2 = 1}
Named(options) == {k \in Names : argv[k] \in {<<o>> : o \in options}}

WellFormed ==
  /\ Len(argv) % 2 = 0
  /\ \A k \in Names : IsPair(argv[k], argv[k + 1])
  /\ Cardinality(Named({"--address"})) = 1
  /\ Cardinality(Named({"--data", "--file"})) = 1

\* What a well-formed command line asks for.  Of several numbers for an
\* option the last one counts.
AskedNumber(o) ==
  IF Named({o}) = {} THEN Default[o] ELSE NumberOf(argv[Max(Named({o})) + 1])

AskedLength ==
  LET k == Max(Named({"--data", "--file"}))
  IN IF argv[k] = <<"--data">> THEN NumberOf(argv[k + 1]) ELSE FileSize[argv[k + 1]]

\* The loop over the arguments, which looks at one option at a time, takes
\* exactly the command lines that are well-formed as a whole, and takes them
\* for what they ask; the data is complete.
TakenAsAsked ==
  /\ status = "accepted" =>
       /\ WellFormed
       /\ {address} = Meanings(argv[Max(Named({"--address"})) + 1])
       /\ \A o \in Counted : number[o] = AskedNumber(o)
       /\ length = AskedLength
  /\ status = "rejected" => ~WellFormed

\* build() takes every text for the one thing it means: the last colon and the
\* brackets cannot be read in two ways, and a port is in 1 .. MaxPort.
AddressesAsWritten ==
  i = 1 => \A k \in DOMAIN argv : {Build(argv[k])} = Meanings(argv[k])

\* parse() takes every text for the number it is written for, or refuses it:
\* its test of the overflow is enough because the largest number allowed is
\* less than a tenth of the range of uint64_t.
NumbersAsWritten ==
  i = 1 => \A k \in DOMAIN argv, o \in Counted \cup {"--data"} :
    ParseNumber(argv[k], Least[o], Most[o]) =
      IF NumberText(argv[k], o) THEN NumberOf(argv[k]) ELSE Invalid

\* An address that is printed, as accepted() and main() do, reads as the same
\* address, but for the empty path.
PrintedAddressReadsBack ==
  address.host # <<>> => Build(AddressText(address)) = address

\* The parser comes to an end, unless the file has become shorter after its
\* size was asked: then the loop reads nothing for ever.
Truncated == status = "reading" /\ unread.left < unread.due

ParsingEnds == <>(Ended \/ Truncated)

=============================================================================
