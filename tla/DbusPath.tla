------------------------------ MODULE DbusPath ------------------------------
(***************************************************************************)
(* dbus_sanitized_path() and dbus_sanitize_str() of                        *)
(* src/lomiri/util/Dbus.cpp: any string becomes an element of a D-Bus      *)
(* object path.  Characters are bytes, and a string is a sequence of them; *)
(* a step of the loop in dbus_sanitize_str() is an action.                 *)
(***************************************************************************)
EXTENDS Integers, SequencesExt

CONSTANTS
  Char,          \* the bytes that strings are made of
  MaxLength,     \* bound: the length of the string
  Base,          \* what the caller has objects under; front() of "" is undefined
  SignedChar     \* is char signed, as it is on x86, or not, as on ARM?

ASSUME DbusPathAssumption ==
  /\ Char \subseteq 0..255 /\ MaxLength \in Nat /\ SignedChar \in BOOLEAN
  /\ Base \subseteq Seq(0..255) \ {<<>>}

VARIABLES
  pc,            \* "idle", "loop"
  base, str,     \* the arguments of the call
  at,            \* how many characters of str are done
  output

vars == <<pc, base, str, at, output>>

Slash == 47
Underscore == 95
Digit  == 48..57
Letter == (65..90) \cup (97..122)

\* What an element of an object path is made of, by the D-Bus specification.
Legal == Digit \cup Letter \cup {Underscore}

String == UNION {[1..n -> Char] : n \in 0..MaxLength}

Init ==
  /\ pc = "idle"
  /\ base = <<>> /\ str = <<>> /\ output = <<>>
  /\ at = 0

-----------------------------------------------------------------------------
HexDigit(d) == IF d < 10 THEN 48 + d ELSE 87 + d
F == HexDigit(15)

\* snprintf("_%02x"): a char that is negative is an int, and as an unsigned
\* one it is 2^32 - 256 + ch, of eight digits.
Escaped(ch) ==
  <<Underscore>>
    \o (IF SignedChar /\ ch >= 128 THEN <<F, F, F, F, F, F>> ELSE <<>>)
    \o <<HexDigit(ch \div 16), HexDigit(ch % 16)>>

\* Mutant: '_' is legal and left alone.
SanitizedKeepsUnderscore(ch) == IF ch \in Legal THEN <<ch>> ELSE Escaped(ch)

\* isalnum() of the classic locale
Sanitized(ch) == IF ch \in Digit \cup Letter THEN <<ch>> ELSE Escaped(ch)

\* Mutant: base is taken not to end in '/'.
PrefixDoubled(b) == (IF b[1] = Slash THEN <<>> ELSE <<Slash>>) \o b \o <<Slash>>

\* base, with '/' before and after it
Prefix(b) ==
  (IF b[1] = Slash THEN <<>> ELSE <<Slash>>) \o b \o (IF Last(b) = Slash THEN <<>> ELSE <<Slash>>)

Call(b, s) ==
  /\ pc = "idle"
  /\ pc' = "loop" /\ base' = b /\ str' = s
  /\ at' = 0
  /\ output' = Prefix(b)

Push ==
  /\ pc = "loop" /\ at < Len(str)
  /\ at' = at + 1
  /\ output' = output \o Sanitized(str[at + 1])
  /\ UNCHANGED <<pc, base, str>>

\* The caller has the path.
Return ==
  /\ pc = "loop" /\ at = Len(str)
  /\ pc' = "idle"
  /\ base' = <<>> /\ str' = <<>> /\ output' = <<>>
  /\ at' = 0

Next == Push \/ Return \/ \E b \in Base, s \in String : Call(b, s)

Spec == Init /\ [][Next]_vars

-----------------------------------------------------------------------------
(* What the string was, from its path: after '_' come two digits, or eight *)
(* of which 'f' is the first if char is signed.                            *)

Value(d) == IF d \in Digit THEN d - 48 ELSE d - 87
Decoded(e) ==
  LET rest[i \in 1 .. Len(e) + 9] ==
        IF i > Len(e) THEN <<>>
        ELSE IF e[i] # Underscore THEN <<e[i]>> \o rest[i + 1]
        ELSE LET wide == SignedChar /\ i < Len(e) /\ e[i + 1] = F
                 last == IF wide THEN i + 8 ELSE i + 2
             IN  IF last > Len(e) THEN <<>>
                 ELSE <<16 * Value(e[last - 1]) + Value(e[last])>> \o rest[last + 1]
  IN  rest[1]

\* The last element of the path, and what comes before it.
LastSlash == SelectLastInSeq(output, LAMBDA ch : ch = Slash)
Element   == SubSeq(output, LastSlash + 1, Len(output))

\* Two strings never have the same path, whatever characters they are of:
\* what has been written so far tells which characters it was written for,
\* and that they were not part of base.
PathIsUnique == pc = "loop" => Decoded(Element) = SubSeq(str, 1, at)

\* What an object may be under: legal characters, and no empty element between
\* two of '/'; a '/' may be missing at the beginning, or be there at the end.
LegalBase(b) ==
  /\ ToSet(b) \subseteq Legal \cup {Slash}
  /\ \A i \in 1 .. Len(b) - 1 : b[i] = Slash => b[i + 1] # Slash

\* The path is a legal one, if base is and str is not empty: it begins with
\* '/', no element is empty, and all characters are legal.
PathIsLegal ==
  pc = "loop" /\ LegalBase(base) =>
    /\ output[1] = Slash
    /\ \A i \in 1 .. Len(output) - 1 : output[i] = Slash => output[i + 1] # Slash
    /\ ToSet(output) \subseteq Legal \cup {Slash}
    /\ at > 0 => Element # <<>>
=============================================================================
