---------------------------- MODULE MCCommandLine ----------------------------
(***************************************************************************)
(* The command line for TLC: all sequences of up to MaxArguments of a few  *)
(* arguments, and lines with one address or one number that is any text of *)
(* a small alphabet.  Every limit is small.                                *)
(***************************************************************************)
EXTENDS CommandLine

CONSTANTS MaxArguments, MaxAddressLength, MaxNumberLength

MCCounted == {"--number-connections", "--number-loops"}
MCLeast == "--number-connections" :> 1 @@ "--number-loops" :> 0 @@ "--data" :> 1
MCMost == "--number-connections" :> 24 @@ "--number-loops" :> 2 @@ "--data" :> 24
MCDefault == "--number-connections" :> 4 @@ "--number-loops" :> 1

\* "1" is a host of IPv4, ":" and "0:" are the same host of IPv6.
MCInet4 == <<"1">> :> <<"four">>
MCInet6 == <<":">> :> <<"six">> @@ <<"0", ":">> :> <<"six">>
MCCanonical == <<"four">> :> <<"1">> @@ <<"six">> :> <<":">>

MCFileSize == <<"f">> :> 3 @@ <<"0">> :> 0

SomeTexts(alphabet, max) == UNION {[1 .. n -> alphabet] : n \in 0 .. max}

Arguments ==
  {<<o>> : o \in {"--address", "--data", "--file", "--number-loops", "--help"}}
  \cup {<<"f">>, <<"1">>}

MCCommandLines ==
  SomeTexts(Arguments, MaxArguments)
  \cup {<<<<"--address">>, t, <<"--data">>, <<"1">>>> :
          t \in SomeTexts({":", "[", "]", "0", "1"}, MaxAddressLength)}
  \cup {<<<<o>>, t>> :
          o \in {"--data", "--number-connections"},
          t \in SomeTexts({"0", "1", "2", "4", "9", "x"}, MaxNumberLength)}
=============================================================================
