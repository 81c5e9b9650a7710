------------------------------ MODULE AsnText ------------------------------
(***************************************************************************)
(* ISD and AS numbers as text: how the path manager's configuration        *)
(* (isd_asn.hpp) and scion2ip read and write them.                         *)
(*                                                                         *)
(* A text is the sequence of the groups between its colons, a group the    *)
(* sequence of its characters, a character the value of the hexadecimal    *)
(* digit it is, or 16 if it is none.  A number is a sequence of four       *)
(* 16-bit groups, the highest first: what a 64-bit variable holds.         *)
(***************************************************************************)
EXTENDS Integers, Sequences

Radix == 65536   \* 2^16
Group16 == 0..(Radix - 1)

CONSTANTS
  Texts,     \* AS numbers in a configuration or on the command line
  IsdTexts,  \* ISDs, one group each
  Numbers,   \* AS numbers that are written
  NoText     \* nothing was written

ASSUME TextAssumption ==
  /\ Texts \subseteq Seq(Seq(0..16)) \ {<<>>} /\ IsdTexts \subseteq Seq(0..16)
  /\ \A n \in Numbers : n \in [1..4 -> Group16] /\ n[1] = 0
  /\ NoText \notin Texts

VARIABLES
  text,    \* the AS number as it is written
  isd,     \* the ISD as it is written
  number   \* the AS number a program wrote it for, or Invalid
textVars == <<text, isd, number>>

Zero == <<0, 0, 0, 0>>
Invalid == <<>>
IsGroup(n) == n[1] = 0 /\ n[2] = 0 /\ n[3] = 0
IsBgp(n) == n[1] = 0 /\ n[2] = 0

\* v * base + d, or Invalid if that does not fit.
Appended(v, base, d) ==
  LET a == v[4] * base + d
      b == v[3] * base + (a \div Radix)
      c == v[2] * base + (b \div Radix)
      e == v[1] * base + (c \div Radix)
  IN  IF e >= Radix THEN Invalid ELSE <<e, c % Radix, b % Radix, a % Radix>>

\* One more character is looked at: s.read digits have been read so far, up to
\* the first character that is none, and s.value is their value, Invalid once
\* it does not fit.
Reads(s, i, c, base) ==
  IF s.read < i - 1 \/ c >= base THEN s
  ELSE [read |-> i,
        value |-> IF s.value = Invalid THEN Invalid ELSE Appended(s.value, base, c)]

\* What has been read after each character.
Scan(chars, base) ==
  LET scan[i \in 0..Len(chars)] ==
        IF i = 0 THEN [read |-> 0, value |-> Zero]
        ELSE Reads(scan[i - 1], i, chars[i], base)
  IN  scan
Scanned(chars, base) == Scan(chars, base)[Len(chars)]

\* v divided by the base again and again.
Quotients(v, base) ==
  LET q[j \in 0..16] == IF j = 0 THEN v ELSE q[j - 1] \div base IN q

\* The k lowest digits of v, the highest first.
Digits(v, base, k) == [i \in 1..k |-> Quotients(v, base)[k - i] % base]

\* m | n, bit by bit.
OrGroup(x, y) ==
  LET p == Digits(x, 2, 16)
      q == Digits(y, 2, 16)
  IN  Scanned([i \in 1..16 |-> IF p[i] = 1 \/ q[i] = 1 THEN 1 ELSE 0], 2).value[4]
OrGroups(m, n) == [i \in 1..4 |-> OrGroup(m[i], n[i])]

----------------------------------------------------------------------------
(***************************************************************************)
(* isd_asn.hpp                                                             *)
(***************************************************************************)

\* std::from_chars into a variable that is 0: the digits it read, and what the
\* variable holds then.  A value out of range leaves it as it is.
FromChars(chars, base) ==
  LET s == Scanned(chars, base)
  IN  [s EXCEPT !.value = IF @ = Invalid THEN Zero ELSE @]

\* Faulty variant: an ISD has 12 bits.
IsdParseNarrow(chars) ==
  LET r == FromChars(chars, 10)
  IN  IF r.read = 0 \/ r.read < Len(chars) \/ ~IsGroup(r.value) \/ r.value[4] > 4095
      THEN Invalid ELSE r.value

\* Isd::Parse.
IsdParse(chars) ==
  LET r == FromChars(chars, 10)
  IN  IF r.read = 0 \/ r.read < Len(chars) \/ ~IsGroup(r.value) THEN Invalid ELSE r.value

\* Faulty variant: a group has at most three digits.
IsHexGroupShort(chars) ==
  LET r == FromChars(chars, 16)
  IN  chars # <<>> /\ Len(chars) < 4 /\ r.read = Len(chars) /\ IsGroup(r.value)

IsHexGroup(chars) ==
  LET r == FromChars(chars, 16)
  IN  chars # <<>> /\ r.read = Len(chars) /\ IsGroup(r.value)

\* Asn::Parse.  The digits at the beginning of the text, which the attempt to
\* read a decimal number stored, stay in the variable the groups are or-ed
\* into; that there are three groups is not checked.
AsnParse(asn) ==
  LET decimal == FromChars(asn[1], 10)
      group(i) == IF i \in DOMAIN asn THEN FromChars(asn[i], 16).value[4] ELSE 0
  IN  IF Len(asn) = 1 /\ decimal.read = Len(asn[1]) /\ decimal.value[1] = 0
        THEN decimal.value
      ELSE IF Len(asn) \in {2, 3} /\ \A i \in DOMAIN asn : IsHexGroup(asn[i])
        THEN OrGroups(decimal.value, <<0, group(1), group(2), group(3)>>)
      ELSE Invalid

\* IsdAsn::Parse of the two sides of a hyphen.
IsdAsnParse(i, asn) ==
  IF IsdParse(i) = Invalid \/ AsnParse(asn) = Invalid THEN Invalid
  ELSE OrGroups(<<IsdParse(i)[4], 0, 0, 0>>, AsnParse(asn))

\* The digits of v, which has at most ten.
DigitsOf(v, base) ==
  LET q == Quotients(v, base)
  IN  Digits(v, base, CHOOSE k \in 1..10 : q[k] = 0 /\ \A j \in 1..(k - 1) : q[j] # 0)

\* Faulty variant: numbers up to 2:0:0 are decimal.
PrintedWide(n) ==
  IF n[2] < 3 THEN <<DigitsOf(n[3] * Radix + n[4], 10)>>
  ELSE [i \in 1..3 |-> DigitsOf(n[i + 1], 16)]

\* operator<< and ASN.__str__: decimal up to MAX_BGP_VALUE.
Printed(n) ==
  IF IsBgp(n) THEN <<DigitsOf(n[3] * Radix + n[4], 10)>>
  ELSE [i \in 1..3 |-> DigitsOf(n[i + 1], 16)]

----------------------------------------------------------------------------
(***************************************************************************)
(* ASN.__init__ of scion2ip.  (The white space, signs, underscores and     *)
(* prefixes that Python's int accepts besides digits are left out.)        *)
(***************************************************************************)
PythonInt(chars, base) ==
  IF chars = <<>> \/ Scanned(chars, base).read < Len(chars) THEN Invalid
  ELSE Scanned(chars, base).value

AsnInit(asn) ==
  LET decimal == PythonInt(asn[1], 10)
      group(i) == PythonInt(asn[i], 16)
  IN  IF Len(asn) = 1 /\ decimal # Invalid /\ IsBgp(decimal) THEN decimal
      ELSE IF Len(asn) = 3 /\ \A i \in 1..3 : group(i) # Invalid /\ IsGroup(group(i))
        THEN <<0, group(1)[4], group(2)[4], group(3)[4]>>
      ELSE Invalid

----------------------------------------------------------------------------
TextInit == text = NoText /\ isd = NoText /\ number = Invalid

\* A user writes an ISD-AS into the configuration or on the command line.
Write(t, i) ==
  /\ text' = t /\ isd' = i /\ number' = Invalid

\* dumpConfig or ip2s writes an AS number.
WriteNumber(n) ==
  /\ text' = Printed(n) /\ number' = n
  /\ UNCHANGED isd

TextNext ==
  /\ text = NoText
  /\ \/ \E t \in Texts, i \in IsdTexts : Write(t, i)
     \/ \E n \in Numbers : WriteNumber(n)
TextSpec == TextInit /\ [][TextNext]_textVars

----------------------------------------------------------------------------
\* "A decimal non-negative integer if <= MAX_BGP_VALUE", or "three groups of 1
\* to 4 hexadecimal digits" (isd_asn.hpp:116).
Documented(t) ==
  \/ /\ Len(t) = 1 /\ PythonInt(t[1], 10) # Invalid
     /\ IsBgp(PythonInt(t[1], 10))
  \/ /\ Len(t) = 3
     /\ \A i \in 1..3 : Len(t[i]) \in 1..4 /\ PythonInt(t[i], 16) # Invalid

\* Three groups, with a number other than 0 at the beginning of the first.
StartsDecimal(t) == Len(t) = 3 /\ FromChars(t[1], 10).value # Zero

\* Documented texts are read, by both programs as the same number.  Those that
\* start with a decimal digit other than 0 are read wrongly by Asn::Parse,
\* 2:0:0 as 2:0:2.
DocumentedRead ==
  text # NoText /\ Documented(text) =>
    /\ AsnInit(text) # Invalid /\ AsnParse(text) # Invalid
    /\ ~StartsDecimal(text) => AsnParse(text) = AsnInit(text)

\* The name of an AS that scion2ip takes, with an ISD of 16 bits, the path
\* manager's configuration takes too, and for the same ISD.
ConverterTextsAccepted ==
  text # NoText /\ isd # NoText /\ AsnInit(text) # Invalid =>
    LET i == PythonInt(isd, 10)
    IN  i # Invalid /\ IsGroup(i)
        => IsdAsnParse(isd, text) # Invalid /\ IsdAsnParse(isd, text)[1] = i[4]

\* A number that is written is read back as the same, by scion2ip always, by
\* Asn::Parse unless its first group starts with a decimal digit (dumpConfig
\* writes what loadConfig reads).
PrintedReadBack ==
  number # Invalid =>
    /\ AsnInit(text) = number
    /\ ~StartsDecimal(text) => AsnParse(text) = number
=============================================================================
