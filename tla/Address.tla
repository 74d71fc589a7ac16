------------------------------- MODULE Address -------------------------------
(***************************************************************************)
(* net::socket::address (net/socket/address.cpp): what an address written  *)
(* as a text is taken for, and how it is printed.  A text is a sequence of *)
(* characters, a character a string of its own.  Which texts are the hosts *)
(* of IPv4 and IPv6, and how hosts are printed, is for inet_pton() and     *)
(* inet_ntop() to say.                                                     *)
(***************************************************************************)
EXTENDS Integers, SequencesExt

CONSTANTS
  Inet4, Inet6,   \* inet_pton(): for each text it takes, the host
  Canonical,      \* inet_ntop(): for each host, its text
  MaxPort,        \* 65535
  AddrStrLen,     \* INET6_ADDRSTRLEN, the terminating '\0' included
  UnixPathMax     \* UNIX_PATH_MAX, the terminating '\0' included

\* No text is a host of both families.  inet_ntop() writes a host as a text that
\* inet_pton() takes for the same host, that fits in the buffer and that begins
\* with no bracket.
ASSUME AddressAssumption ==
  /\ MaxPort \in Nat /\ AddrStrLen \in Nat /\ UnixPathMax \in Nat
  /\ DOMAIN Inet4 \cap DOMAIN Inet6 = {}
  /\ \A inet \in {Inet4, Inet6} : \A t \in DOMAIN inet :
       LET text == Canonical[inet[t]]
       IN /\ text \in DOMAIN inet /\ inet[text] = inet[t]
          /\ text \in Seq(STRING) /\ Len(text) \in 1 .. AddrStrLen - 1 /\ text[1] # "["

DigitValue ==
  [c \in {"0", "1", "2", "3", "4", "5", "6", "7", "8", "9"} |->
     CASE c = "0" -> 0 [] c = "1" -> 1 [] c = "2" -> 2 [] c = "3" -> 3 [] c = "4" -> 4
       [] c = "5" -> 5 [] c = "6" -> 6 [] c = "7" -> 7 [] c = "8" -> 8 [] c = "9" -> 9]

Digit == DOMAIN DigitValue

\* The result of a parser that refuses its text.
Invalid == -1

-----------------------------------------------------------------------------
(* Parsing.                                                                *)

\* Mutant of PortDigit: off by one at the largest port.
PortDigitBelow(n, c) ==
  IF n # Invalid /\ c \in Digit /\ n * 10 + DigitValue[c] < MaxPort
  THEN n * 10 + DigitValue[c] ELSE Invalid

\* One turn of the loop of parse_port(), whose `unsigned' cannot overflow.
PortDigit(n, c) ==
  IF n # Invalid /\ c \in Digit /\ n * 10 + DigitValue[c] <= MaxPort
  THEN n * 10 + DigitValue[c] ELSE Invalid

ParsePort(s) ==
  LET n == FoldLeft(PortDigit, 0, s) IN IF n > 0 THEN n ELSE Invalid

\* extract_ip_port(), as the set of the pair it extracts, or of none.
ExtractIpPort(s) ==
  LET colons == {k \in DOMAIN s : s[k] = ":"}
      last == Max(colons)
      bracketed == s[1] = "["
      ip == IF bracketed THEN SubSeq(s, 2, last - 2) ELSE SubSeq(s, 1, last - 1)
      port == ParsePort(SubSeq(s, last + 1, Len(s)))
  IN IF /\ colons # {}
        /\ last > 1
        /\ bracketed => last > 3 /\ s[last - 1] = "]"
        /\ Len(ip) < AddrStrLen
        /\ port # Invalid
     THEN {<<ip, port>>} ELSE {}

SocketAddress(family, host, port) ==
  [family |-> family, host |-> host, port |-> port]

NoAddress == SocketAddress("none", <<>>, 0)

\* build(address, port)
BuildIp(ip, port) ==
  IF ip \in DOMAIN Inet4 THEN SocketAddress("inet", Inet4[ip], port)
  ELSE IF ip \in DOMAIN Inet6 THEN SocketAddress("inet6", Inet6[ip], port)
  ELSE NoAddress

BuildUnix(s) ==
  IF Len(s) + 1 <= UnixPathMax THEN SocketAddress("unix", s, 0) ELSE NoAddress

\* build(address): what is no host with a port is the path of a Unix socket.
Build(s) ==
  IF ExtractIpPort(s) = {} THEN BuildUnix(s)
  ELSE LET found == CHOOSE p \in ExtractIpPort(s) : TRUE IN BuildIp(found[1], found[2])

-----------------------------------------------------------------------------
(* Printing.                                                               *)

\* snprintf("%u")
Decimal[n \in 0 .. MaxPort] ==
  LET digit == CHOOSE c \in Digit : DigitValue[c] = n % 10
  IN IF n < 10 THEN <<digit>> ELSE Append(Decimal[n \div 10], digit)

\* Mutant of Inet6Text: the port is not printed.
Inet6WithoutPort(a) == <<"[">> \o Canonical[a.host] \o <<"]">>

Inet6Text(a) == <<"[">> \o Canonical[a.host] \o <<"]", ":">> \o Decimal[a.port]

\* to_string(), into a buffer that is large enough; a path that begins with
\* '\0' is printed as an abstract one.
AddressText(a) ==
  CASE a.family = "inet" -> Canonical[a.host] \o <<":">> \o Decimal[a.port]
    [] a.family = "inet6" -> Inet6Text(a)
    [] a.family = "unix" -> IF a.host = <<>> THEN <<"@">> ELSE a.host

-----------------------------------------------------------------------------
(* What the texts mean, without a parser.                                  *)

IsNumber(t) == t # <<>> /\ Range(t) \subseteq Digit

\* The powers of ten: the weights of the places of a digit.
Weight[k \in Nat] == IF k = 0 THEN 1 ELSE 10 * Weight[k - 1]

\* The number a text of digits is written for.
NumberOf(t) == MapThenSumSet(LAMBDA k : DigitValue[t[k]] * Weight[Len(t) - k], DOMAIN t)

\* The texts in s that may be a host, and those at its end that are ports.
Hosts(s) ==
  {t \in {SubSeq(s, k, l) : k, l \in DOMAIN s} : Len(t) \in 1 .. AddrStrLen - 1}

Ports(s) ==
  {t \in Suffixes(s) : IsNumber(t) /\ NumberOf(t) \in 1 .. MaxPort}

\* s reads "ip:port" or "[ip]:port".
Reads(s, ip, port) ==
  \/ s = ip \o <<":">> \o port /\ ip[1] # "["
  \/ s = <<"[">> \o ip \o <<"]", ":">> \o port

Readings(s) == {p \in Hosts(s) \X Ports(s) : Reads(s, p[1], p[2])}

\* All that s may mean: one address, or none.
Meanings(s) ==
  IF Readings(s) = {} THEN {BuildUnix(s)}
  ELSE {BuildIp(p[1], NumberOf(p[2])) : p \in Readings(s)}

=============================================================================
