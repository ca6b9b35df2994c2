----------------------------- MODULE RdpTextProofs ------------------------------
(***************************************************************************)
(* What TypeText of an RDP session leaves on the remote desktop, for every *)
(* keyboard, every text and any number of calls.                           *)
(***************************************************************************)
EXTENDS RdpText, SequenceTheorems, WellFoundedInduction, TLAPS

------------------------------------------------------------------------------
(* Induction over the natural numbers, and what Spelled computes *)

LEMMA LeastNatural ==
  ASSUME NEW T, T \subseteq Nat, T # {}
  PROVE  \E n \in T : \A m \in T : n <= m
<1>1. DEFINE Less == OpToRel(<, Nat)
<1>2. \A m, n \in Nat : m < n => <<m, n>> \in Less
  BY DEF OpToRel
<1>3. IsWellFoundedOn(Less, Nat)
  BY NatLessThanWellFounded
<1>4. HIDE DEF Less
<1>5. PICK n \in T : \A m \in T : ~(<<m, n>> \in Less)
  BY <1>3, WFMin
<1>6. ASSUME NEW m \in T PROVE n <= m
  <2>1. m \in Nat /\ n \in Nat /\ ~(<<m, n>> \in Less)
    BY <1>5, <1>6
  <2>2. ~(m < n)
    BY <2>1, <1>2
  <2>3. QED
    BY <2>1, <2>2
<1>7. QED
  BY <1>6

LEMMA SetInduction ==
  ASSUME NEW S, 0 \in S, \A n \in Nat : n \in S => n + 1 \in S
  PROVE  Nat \subseteq S
<1>1. SUFFICES ASSUME Nat \ S # {} PROVE FALSE
  OBVIOUS
<1>2. PICK n \in Nat \ S : \A m \in Nat \ S : n <= m
  <2>1. Nat \ S \subseteq Nat
    OBVIOUS
  <2>2. QED
    BY <1>1, <2>1, LeastNatural
<1>3. n # 0 /\ n - 1 \in Nat
  BY <1>2
<1>4. n - 1 \in S
  BY <1>2, <1>3
<1>5. QED
  BY <1>2, <1>3, <1>4

LEMMA UnitsTyped ==
  ASSUME NEW ch \in Chars
  PROVE  /\ Units[ch] \in Seq(AllUnits)
         /\ Len(Units[ch]) \in Nat \ {0}
<1>1. Range(Units[ch]) \subseteq AllUnits
  BY DEF AllUnits
<1>2. Units[ch] \in Seq(Range(Units[ch])) /\ Units[ch] # <<>>
  BY UnitAssumption
<1>3. Units[ch] \in Seq(AllUnits)
  BY <1>1, <1>2, SeqMonotonic
<1>4. QED
  BY <1>2, <1>3, EmptySeq

\* A function with the equation of Spelled, for the first n characters.
Spells(text, n, f) ==
  /\ f \in [0..n -> Seq(AllUnits)]
  /\ f[0] = <<>>
  /\ \A i \in 1..n : f[i] = f[i - 1] \o Units[text[i]]

LEMMA SpellsExists ==
  ASSUME NEW text \in Seq(Chars)
  PROVE  \E f : Spells(text, Len(text), f)
<1>1. DEFINE S == {n \in Nat : n <= Len(text) => \E f : Spells(text, n, f)}
<1>2. 0 \in S
  <2>1. Spells(text, 0, [i \in 0..0 |-> <<>>])
    <3>1. <<>> \in Seq(AllUnits)
      BY EmptySeq
    <3>2. QED
      BY <3>1 DEF Spells
  <2>2. QED
    BY <2>1
<1>3. ASSUME NEW n \in Nat, n \in S PROVE n + 1 \in S
  <2>1. SUFFICES ASSUME n + 1 <= Len(text) PROVE \E f : Spells(text, n + 1, f)
    OBVIOUS
  <2>2. Len(text) \in Nat /\ n <= Len(text)
    BY <2>1, LenProperties
  <2>3. PICK f : Spells(text, n, f)
    BY <1>3, <2>2
  <2>4. text[n + 1] \in Chars
    BY <2>1, <2>2, ElementOfSeq
  <2>5. DEFINE next == f[n] \o Units[text[n + 1]]
               g == [i \in 0..n + 1 |-> IF i = n + 1 THEN next ELSE f[i]]
  <2>6. next \in Seq(AllUnits)
    <3>1. f[n] \in Seq(AllUnits)
      BY <2>3 DEF Spells
    <3>2. QED
      BY <2>4, <3>1, UnitsTyped, ConcatProperties
  <2>7. HIDE DEF next
  <2>8. g \in [0..n + 1 -> Seq(AllUnits)]
    BY <2>3, <2>6 DEF Spells
  <2>9. \A i \in 1..n : g[i] = g[i - 1] \o Units[text[i]]
    <3>1. TAKE i \in 1..n
    <3>2. g[i] = f[i] /\ g[i - 1] = f[i - 1]
      OBVIOUS
    <3>3. QED
      BY <2>3, <3>2 DEF Spells
  <2>10. g[0] = <<>> /\ g[n + 1] = g[n] \o Units[text[n + 1]]
    <3>1. g[0] = f[0] /\ g[n] = f[n] /\ g[n + 1] = next
      OBVIOUS
    <3>2. QED
      BY <2>3, <3>1 DEF Spells, next
  <2>11. Spells(text, n + 1, g)
    <3>1. \A i \in 1..n + 1 : i \in 1..n \/ i = n + 1
      OBVIOUS
    <3>2. \A i \in 1..n + 1 : g[i] = g[i - 1] \o Units[text[i]]
      BY <2>9, <2>10, <3>1
    <3>3. QED
      BY <2>8, <2>10, <3>2 DEF Spells
  <2>12. QED
    BY <2>11
<1>4. Nat \subseteq S
  <2>1. HIDE DEF S
  <2>2. QED
    BY <1>2, <1>3, SetInduction
<1>5. Len(text) \in S
  BY <1>4, LenProperties
<1>6. QED
  BY <1>5, LenProperties

\* Spelled begins with nothing and goes on character by character.
LEMMA SpelledEquation ==
  ASSUME NEW text \in Seq(Chars)
  PROVE  Spells(text, Len(text), Spelled(text))
<1>1. DEFINE n == Len(text)
             Eq(f) == f = [i \in 0..n |-> IF i = 0 THEN <<>> ELSE f[i - 1] \o Units[text[i]]]
<1>2. n \in Nat
  BY LenProperties
<1>3. PICK f : Spells(text, n, f)
  BY SpellsExists
<1>4. Eq(f)
  <2>1. f = [i \in 0..n |-> f[i]]
    BY <1>3 DEF Spells
  <2>2. \A i \in 0..n : f[i] = IF i = 0 THEN <<>> ELSE f[i - 1] \o Units[text[i]]
    <3>1. TAKE i \in 0..n
    <3>2. CASE i = 0
      BY <1>3, <3>2 DEF Spells
    <3>3. CASE i # 0
      <4>1. i \in 1..n
        BY <1>2, <3>3
      <4>2. QED
        BY <1>3, <3>3, <4>1 DEF Spells
    <3>4. QED
      BY <3>2, <3>3
  <2>3. [i \in 0..n |-> f[i]] = [i \in 0..n |-> IF i = 0 THEN <<>> ELSE f[i - 1] \o Units[text[i]]]
    BY <2>2
  <2>4. QED
    BY <2>1, <2>3
<1>5. Spelled(text) = CHOOSE g : Eq(g)
  BY DEF Spelled
<1>6. Eq(Spelled(text))
  <2>1. HIDE DEF Eq
  <2>2. QED
    BY <1>4, <1>5
<1>7. DEFINE g == Spelled(text)
<1>8. HIDE DEF g
<1>9. /\ DOMAIN g = 0..n /\ g[0] = <<>>
      /\ \A i \in 1..n : g[i] = g[i - 1] \o Units[text[i]]
  BY <1>2, <1>6 DEF g
<1>10. DEFINE S == {i \in Nat : i <= n => g[i] = f[i]}
<1>11. 0 \in S
  BY <1>3, <1>9 DEF Spells
<1>12. ASSUME NEW i \in Nat, i \in S PROVE i + 1 \in S
  <2>1. SUFFICES ASSUME i + 1 <= n PROVE g[i + 1] = f[i + 1]
    OBVIOUS
  <2>2. i + 1 \in 1..n /\ (i + 1) - 1 = i /\ g[i] = f[i]
    BY <1>2, <1>12, <2>1
  <2>3. QED
    BY <1>3, <1>9, <2>2 DEF Spells
<1>13. Nat \subseteq S
  <2>1. HIDE DEF S
  <2>2. QED
    BY <1>11, <1>12, SetInduction
<1>14. \A i \in 0..n : g[i] = f[i]
  BY <1>2, <1>13
<1>15. g \in [0..n -> Seq(AllUnits)]
  <2>1. \A i \in 0..n : g[i] \in Seq(AllUnits)
    BY <1>3, <1>14 DEF Spells
  <2>2. g = [i \in 0..n |-> g[i]]
    BY <1>6 DEF g
  <2>3. QED
    BY <2>1, <2>2
<1>16. QED
  BY <1>9, <1>15 DEF Spells, g

\* A beginning of the beginning of a sequence.
LEMMA PrefixOfConcat ==
  ASSUME NEW A, NEW s \in Seq(A), NEW t \in Seq(A), NEW u \in Seq(A), IsPrefix(s, t)
  PROVE  IsPrefix(s, t \o u)
<1>1. /\ Len(s) \in Nat /\ Len(t) \in Nat /\ Len(u) \in Nat
      /\ Len(s) <= Len(t)
      /\ SubSeq(s, 1, Len(s)) = SubSeq(t, 1, Len(s))
  BY LenProperties DEF IsPrefix
<1>2. Len(t \o u) = Len(t) + Len(u)
  BY ConcatProperties
<1>3. SubSeq(t \o u, 1, Len(s)) = SubSeq(t, 1, Len(s))
  <2>1. CASE Len(s) = 0
    BY <2>1, SubSeqEmpty
  <2>2. CASE Len(s) # 0
    <3>1. 1 \in 1..Len(t) /\ Len(s) \in 1..Len(t)
      BY <1>1, <2>2
    <3>2. QED
      BY <3>1, SubSeqOfConcat1
  <2>3. QED
    BY <2>1, <2>2
<1>4. QED
  BY <1>1, <1>2, <1>3 DEF IsPrefix

\* A sequence is its first k elements and the rest.
LEMMA Halved ==
  ASSUME NEW A, NEW s \in Seq(A), NEW k \in 0..Len(s)
  PROVE  /\ SubSeq(s, 1, k) \in Seq(A)
         /\ \E rest \in Seq(A) : s = SubSeq(s, 1, k) \o rest
<1>1. DEFINE n == Len(s)
             part == SubSeq(s, 1, k)
             rest == SubSeq(s, k + 1, n)
<1>2. n \in Nat /\ \A j \in 1..n : s[j] \in A
  BY LenProperties, ElementOfSeq
<1>3. k \in Int /\ k + 1 \in Int /\ n \in Int /\ 1 \in Int
  BY <1>2
<1>4. part \in Seq(A)
  <2>1. \A j \in 1..k : s[j] \in A
    BY <1>2
  <2>2. QED
    BY <1>3, <2>1, SubSeqProperties
<1>5. rest \in Seq(A)
  <2>1. \A j \in k + 1..n : s[j] \in A
    BY <1>2
  <2>2. QED
    BY <1>3, <2>1, SubSeqProperties
<1>6. part \o rest = SubSeq(s, 1, n)
  <2>1. 1 \in 1..Len(s) + 1 /\ k \in 1 - 1..Len(s) /\ n \in k..Len(s)
    BY <1>2
  <2>2. QED
    BY <2>1, ConcatAdjacentSubSeq
<1>7. SubSeq(s, 1, n) = s
  BY SubSeqFull
<1>8. QED
  BY <1>4, <1>5, <1>6, <1>7

LEMMA OneMore ==
  ASSUME NEW A, NEW s \in Seq(A), NEW k \in 0..Len(s), k + 1 <= Len(s)
  PROVE  SubSeq(s, 1, k) \o <<s[k + 1]>> = SubSeq(s, 1, k + 1)
<1>1. 1 \in 1..Len(s) /\ k + 1 \in 1..Len(s) /\ (k + 1) - 1 = k
  BY LenProperties
<1>2. QED
  BY <1>1, SubSeqRecursiveSecond

\* A text's beginning is spelled by the beginning of what the text spells.
LEMMA SpelledGrows ==
  ASSUME NEW text \in Seq(Chars), NEW m \in 0..Len(text), NEW s \in Seq(AllUnits),
         NEW k \in 0..Len(text), m <= k, IsPrefix(s, Spelled(text)[m])
  PROVE  IsPrefix(s, Spelled(text)[k])
<1>1. DEFINE n == Len(text)
             f == Spelled(text)
             S == {i \in Nat : m + i <= n => IsPrefix(s, f[m + i])}
<1>2. n \in Nat /\ Spells(text, n, f)
  BY LenProperties, SpelledEquation
<1>3. 0 \in S
  OBVIOUS
<1>4. ASSUME NEW i \in Nat, i \in S PROVE i + 1 \in S
  <2>1. SUFFICES ASSUME m + (i + 1) <= n PROVE IsPrefix(s, f[m + (i + 1)])
    OBVIOUS
  <2>2. IsPrefix(s, f[m + i]) /\ m + (i + 1) \in 1..n /\ m + i \in 0..n
    BY <1>2, <1>4, <2>1
  <2>3. DEFINE ch == text[m + (i + 1)]
  <2>4. f[m + (i + 1)] = f[m + i] \o Units[ch] /\ f[m + i] \in Seq(AllUnits)
    <3>1. (m + (i + 1)) - 1 = m + i
      OBVIOUS
    <3>2. HIDE DEF f
    <3>3. QED
      BY <1>2, <2>2, <3>1 DEF Spells
  <2>5. Units[ch] \in Seq(AllUnits)
    BY <2>2, ElementOfSeq, UnitsTyped
  <2>6. HIDE DEF ch, f
  <2>7. IsPrefix(s, f[m + i] \o Units[ch])
    BY <2>2, <2>4, <2>5, PrefixOfConcat
  <2>8. QED
    BY <2>4, <2>7
<1>5. Nat \subseteq S
  <2>1. HIDE DEF S
  <2>2. QED
    BY <1>3, <1>4, SetInduction
<1>6. k - m \in Nat /\ m + (k - m) = k /\ k <= n
  BY <1>2
<1>7. QED
  BY <1>5, <1>6

------------------------------------------------------------------------------
(* What is down, and what has been typed, between two events of a character *)

\* The character is sent as Unicode events.
ByUnits(ch) == (unicode /\ ch \notin Breaks) \/ KeyOf[ch] = NoKey

\* Before event i of the character: the modifier that is down, the key that
\* is down, and how many of its units have been typed.
HeldMods(ch, i) == IF ~ByUnits(ch) /\ ch \in Shifted /\ i \in 2..4 THEN {Shift} ELSE {}

HeldKey(ch, i) ==
  IF ~ByUnits(ch) /\ i = (IF ch \in Shifted THEN 3 ELSE 2) THEN {KeyOf[ch]} ELSE {}

Sent(ch, i) ==
  IF ByUnits(ch) THEN i \div 2
  ELSE IF i > (IF ch \in Shifted THEN 2 ELSE 1) THEN 1 ELSE 0

\* The key of the character has been let go of.
Lifted(ch, i) == ByUnits(ch) \/ i > (IF ch \in Shifted THEN 3 ELSE 2)

Current(c) == call[c].text[call[c].char]

Typing(c) == call[c].at = "typing" /\ call[c].char <= Len(call[c].text)

Inside == {"sync", "focus", "release", "typing"}

------------------------------------------------------------------------------
(* The invariant *)

Calls ==
  [at : {"idle", "waiting", "sync", "focus", "release", "typing", "ok", "error"},
   text : Texts \cup {<<>>}, char : Nat \ {0}, event : Nat \ {0}, lossy : BOOLEAN]

CallTyped(c) ==
  /\ call[c].char \in 1..(Len(call[c].text) + 1)
  /\ call[c].at = "release" => call[c].event \in DOMAIN Modifiers
  /\ Typing(c) => call[c].event \in DOMAIN Events(Current(c))
  /\ call[c].at \notin {"typing", "ok", "error"} =>
       typed[c] = <<>> /\ call[c].char = 1 /\ (call[c].at # "release" => call[c].event = 1)
  /\ call[c].at = "typing" /\ ~Typing(c) => call[c].event = 1

Typed ==
  /\ unicode \in BOOLEAN
  /\ inputMu \in Clients \cup {NoClient}
  /\ down \subseteq Keys
  /\ call \in [Clients -> Calls]
  /\ typed \in [Clients -> Seq(AllUnits \cup {NoUnit})]
  /\ \A c \in Clients : CallTyped(c)

\* One call is past Lock and not yet through, and it holds inputMu.
Turns == \A c \in Clients : call[c].at \in Inside <=> inputMu = c

\* No modifier is down but the one the character needs.
ModsClear(c) ==
  ~call[c].lossy =>
    /\ call[c].at = "release" => \A j \in 1..call[c].event - 1 : Modifiers[j] \notin down
    /\ Typing(c) => down \cap Range(Modifiers) = HeldMods(Current(c), call[c].event)
    /\ call[c].at = "typing" /\ ~Typing(c) => down \cap Range(Modifiers) = {}

\* No key that the text has pressed is down, but the one being pressed.
KeysClear(c) ==
  call[c].at = "typing" =>
    /\ \A j \in 1..call[c].char - 1 :
         LET ch == call[c].text[j] IN
         ~ByUnits(ch) /\ KeyOf[ch] \in down =>
           Typing(c) /\ KeyOf[ch] \in HeldKey(Current(c), call[c].event)
    /\ Typing(c) /\ Lifted(Current(c), call[c].event) /\ ~ByUnits(Current(c)) =>
         KeyOf[Current(c)] \notin down

\* What has arrived is what the characters so far spell.
Spelling(c) ==
  ~call[c].lossy =>
    /\ call[c].at = "typing" =>
         typed[c] = Spelled(call[c].text)[call[c].char - 1]
                      \o (IF Typing(c)
                          THEN SubSeq(Units[Current(c)], 1, Sent(Current(c), call[c].event))
                          ELSE <<>>)
    /\ call[c].at \in {"ok", "error"} => IsPrefix(typed[c], Asked(c))
    /\ call[c].at = "ok" => typed[c] = Asked(c)

IInv ==
  /\ Typed
  /\ Turns
  /\ \A c \in Clients : ModsClear(c) /\ KeysClear(c) /\ Spelling(c)

------------------------------------------------------------------------------
(* The events of a character *)

LEMMA Halves ==
  /\ \A i \in Nat : i \div 2 \in Nat /\ (i + 1) \div 2 \in Nat
  /\ \A i \in Nat : i % 2 = 1 => (i + 1) \div 2 = (i \div 2) + 1
  /\ \A i \in Nat : i % 2 # 1 => (i + 1) \div 2 = i \div 2
  /\ \A i, n \in Nat : i \in 1..2 * n => i \div 2 <= n /\ (i % 2 = 1 => (i \div 2) + 1 <= n)
                                    /\ (i % 2 # 1 => 1 <= i \div 2)
  /\ \A n \in Nat : (2 * n) \div 2 = n /\ (2 * n + 1) \div 2 = n /\ (2 * n) % 2 # 1
OBVIOUS

LEMMA KeyFacts ==
  ASSUME NEW ch \in Chars, KeyOf[ch] # NoKey
  PROVE  /\ KeyOf[ch] \notin Range(Modifiers) /\ Len(Units[ch]) = 1
         /\ KeyOf[ch] \in Keys /\ KeyOf[ch] # Shift
BY KeyAssumption, ShiftAssumption DEF Keys

LEMMA UnicodeTyped ==
  ASSUME NEW ch \in Chars
  PROVE  /\ 2 * Len(Units[ch]) \in Nat
         /\ UnicodeEvents(ch) \in Seq([type : {"unit", "unit up"}, key : {NoKey}, unit : AllUnits])
         /\ Len(UnicodeEvents(ch)) = 2 * Len(Units[ch])
         /\ DOMAIN UnicodeEvents(ch) = 1..2 * Len(Units[ch])
         /\ \A i \in 1..2 * Len(Units[ch]) :
              UnicodeEvents(ch)[i] = IF i % 2 = 1 THEN Unit(Units[ch][(i + 1) \div 2])
                                     ELSE UnitUp(Units[ch][i \div 2])
<1>1. DEFINE n == Len(Units[ch])
             ev(i) == IF i % 2 = 1 THEN Unit(Units[ch][(i + 1) \div 2]) ELSE UnitUp(Units[ch][i \div 2])
             E == [type : {"unit", "unit up"}, key : {NoKey}, unit : AllUnits]
<1>2. n \in Nat /\ \A k \in 1..n : Units[ch][k] \in AllUnits
  BY UnitsTyped, ElementOfSeq
<1>3. ASSUME NEW i \in 1..2 * n PROVE ev(i) \in E
  <2>1. CASE i % 2 = 1
    <3>1. (i + 1) \div 2 \in 1..n
      BY <1>2, <2>1, Halves
    <3>2. QED
      BY <1>2, <2>1, <3>1 DEF Unit
  <2>2. CASE i % 2 # 1
    <3>1. i \div 2 \in 1..n
      BY <1>2, <2>2, Halves
    <3>2. QED
      BY <1>2, <2>2, <3>1 DEF UnitUp
  <2>3. QED
    BY <2>1, <2>2
<1>4. UnicodeEvents(ch) = [i \in 1..2 * n |-> ev(i)]
  BY DEF UnicodeEvents
<1>5. 2 * n \in Nat
  BY <1>2
<1>6. HIDE DEF ev, E, n
<1>7. [i \in 1..2 * n |-> ev(i)] \in [1..2 * n -> E]
  BY <1>3
<1>8. UnicodeEvents(ch) \in Seq(E) /\ Len(UnicodeEvents(ch)) = 2 * n
  BY <1>4, <1>5, <1>7
<1>9. \A i \in 1..2 * n : UnicodeEvents(ch)[i] = ev(i)
  BY <1>4
<1>10. DOMAIN UnicodeEvents(ch) = 1..2 * n
  BY <1>4
<1>11. QED
  BY <1>5, <1>8, <1>9, <1>10 DEF ev, E, n

LEMMA AsciiTyped ==
  ASSUME NEW ch \in Chars
  PROVE  /\ DOMAIN AsciiEvents(ch) = 1..(IF ch \in Shifted THEN 4 ELSE 2)
         /\ Len(AsciiEvents(ch)) = IF ch \in Shifted THEN 4 ELSE 2
         /\ ch \in Shifted =>
              /\ AsciiEvents(ch)[1] = Down(Shift) /\ AsciiEvents(ch)[2] = Down(KeyOf[ch])
              /\ AsciiEvents(ch)[3] = Up(KeyOf[ch]) /\ AsciiEvents(ch)[4] = Up(Shift)
         /\ ch \notin Shifted =>
              AsciiEvents(ch)[1] = Down(KeyOf[ch]) /\ AsciiEvents(ch)[2] = Up(KeyOf[ch])
<1>1. CASE ch \in Shifted
  <2>1. AsciiEvents(ch) = <<Down(Shift), Down(KeyOf[ch]), Up(KeyOf[ch]), Up(Shift)>>
    BY <1>1 DEF AsciiEvents
  <2>2. QED
    BY <1>1, <2>1
<1>2. CASE ch \notin Shifted
  <2>1. AsciiEvents(ch) = <<Down(KeyOf[ch]), Up(KeyOf[ch])>>
    BY <1>2 DEF AsciiEvents
  <2>2. QED
    BY <1>2, <2>1
<1>3. QED
  BY <1>1, <1>2

\* A key types its character when just the character's modifiers are down.
LEMMA GlyphFits ==
  ASSUME NEW ch \in Chars, KeyOf[ch] # NoKey,
         down \cap Range(Modifiers) = (IF ch \in Shifted THEN {Shift} ELSE {})
  PROVE  Glyph(KeyOf[ch]) = Units[ch][1]
<1>1. DEFINE fits == {x \in Chars : /\ KeyOf[x] = KeyOf[ch]
                                   /\ down \cap Range(Modifiers) = (IF x \in Shifted THEN {Shift} ELSE {})}
<1>2. ch \in fits
  OBVIOUS
<1>3. \A x \in fits : x = ch
  <2>1. TAKE x \in fits
  <2>2. x \in Shifted <=> ch \in Shifted
    OBVIOUS
  <2>3. QED
    BY <2>2, KeyAssumption
<1>4. fits = {ch}
  BY <1>2, <1>3
<1>5. (CHOOSE x \in fits : TRUE) = ch
  BY <1>4
<1>6. Glyph(KeyOf[ch]) = IF fits = {} THEN NoUnit ELSE Units[CHOOSE x \in fits : TRUE][1]
  BY DEF Glyph
<1>7. QED
  BY <1>4, <1>5, <1>6

LEMMA EventFields ==
  /\ \A k : /\ Down(k).type = "down" /\ Down(k).key = k
           /\ Up(k).type = "up" /\ Up(k).key = k
  /\ \A u : /\ Unit(u).type = "unit" /\ Unit(u).unit = u /\ Unit(u).key = NoKey
           /\ UnitUp(u).type = "unit up" /\ UnitUp(u).key = NoKey
BY DEF Down, Up, Unit, UnitUp

LEMMA EventsAre ==
  ASSUME NEW ch \in Chars
  PROVE  /\ ByUnits(ch) => Events(ch) = UnicodeEvents(ch)
         /\ ~ByUnits(ch) => Events(ch) = AsciiEvents(ch) /\ KeyOf[ch] # NoKey
         /\ DOMAIN Events(ch) = 1..Len(Events(ch))
         /\ Len(Events(ch)) = IF ByUnits(ch) THEN 2 * Len(Units[ch])
                             ELSE IF ch \in Shifted THEN 4 ELSE 2
         /\ Len(Events(ch)) \in Nat \ {0}
<1>1. Len(Units[ch]) \in Nat \ {0}
  BY UnitsTyped
<1>2. CASE ByUnits(ch)
  <2>1. Events(ch) = UnicodeEvents(ch)
    BY <1>2 DEF ByUnits, Events
  <2>2. Len(Events(ch)) = 2 * Len(Units[ch]) /\ DOMAIN Events(ch) = 1..2 * Len(Units[ch])
    BY <2>1, UnicodeTyped
  <2>3. 2 * Len(Units[ch]) \in Nat \ {0}
    BY <1>1
  <2>4. QED
    BY <1>2, <2>1, <2>2, <2>3
<1>3. CASE ~ByUnits(ch)
  <2>1. Events(ch) = AsciiEvents(ch) /\ KeyOf[ch] # NoKey
    BY <1>3 DEF ByUnits, Events
  <2>2. QED
    BY <1>3, <2>1, AsciiTyped
<1>4. QED
  BY <1>2, <1>3

\* An event of a character is one of six.
LEMMA EventCases ==
  ASSUME NEW ch \in Chars, NEW i \in DOMAIN Events(ch)
  PROVE  LET e == Events(ch)[i] IN
         \/ ByUnits(ch) /\ i % 2 = 1 /\ e = Unit(Units[ch][(i + 1) \div 2])
         \/ ByUnits(ch) /\ i % 2 # 1 /\ e = UnitUp(Units[ch][i \div 2])
         \/ ~ByUnits(ch) /\ i = (IF ch \in Shifted THEN 2 ELSE 1) /\ e = Down(KeyOf[ch])
         \/ ~ByUnits(ch) /\ i = (IF ch \in Shifted THEN 3 ELSE 2) /\ e = Up(KeyOf[ch])
         \/ ~ByUnits(ch) /\ ch \in Shifted /\ i = 1 /\ e = Down(Shift)
         \/ ~ByUnits(ch) /\ ch \in Shifted /\ i = 4 /\ e = Up(Shift)
<1>1. CASE ByUnits(ch)
  <2>1. i \in 1..2 * Len(Units[ch])
    BY <1>1, EventsAre
  <2>2. QED
    BY <1>1, <2>1, EventsAre, UnicodeTyped
<1>2. CASE ~ByUnits(ch)
  <2>1. Events(ch) = AsciiEvents(ch)
    BY <1>2, EventsAre
  <2>2. CASE ch \in Shifted
    <3>1. i \in {1, 2, 3, 4}
      BY <1>2, <2>2, EventsAre
    <3>2. QED
      BY <1>2, <2>1, <2>2, <3>1, AsciiTyped
  <2>3. CASE ch \notin Shifted
    <3>1. i \in {1, 2}
      BY <1>2, <2>3, EventsAre
    <3>2. QED
      BY <1>2, <2>1, <2>3, <3>1, AsciiTyped
  <2>4. QED
    BY <2>2, <2>3
<1>3. QED
  BY <1>1, <1>2

LEMMA SentBounds ==
  ASSUME NEW ch \in Chars, NEW i \in DOMAIN Events(ch)
  PROVE  /\ i \in Nat \ {0} /\ Sent(ch, i) \in 0..Len(Units[ch])
         /\ Sent(ch, 1) = 0
         /\ i = Len(Events(ch)) => Sent(ch, i + 1) = Len(Units[ch])
<1>1. Len(Units[ch]) \in Nat \ {0} /\ i \in 1..Len(Events(ch)) /\ Len(Events(ch)) \in Nat
  BY UnitsTyped, EventsAre
<1>2. CASE ByUnits(ch)
  <2>1. Len(Events(ch)) = 2 * Len(Units[ch])
    BY <1>2, EventsAre
  <2>2. i \div 2 \in 0..Len(Units[ch]) /\ 1 \div 2 = 0
    BY <1>1, <2>1, Halves
  <2>3. i = Len(Events(ch)) => (i + 1) \div 2 = Len(Units[ch])
    BY <1>1, <2>1, Halves
  <2>4. QED
    BY <1>1, <1>2, <2>2, <2>3 DEF Sent
<1>3. CASE ~ByUnits(ch)
  <2>1. Len(Units[ch]) = 1 /\ Len(Events(ch)) = IF ch \in Shifted THEN 4 ELSE 2
    BY <1>3, EventsAre, KeyFacts
  <2>2. QED
    BY <1>1, <1>3, <2>1 DEF Sent
<1>4. QED
  BY <1>2, <1>3

\* What an event types goes on where the events before it have come to.
LEMMA EventTypes ==
  ASSUME NEW ch \in Chars, NEW i \in DOMAIN Events(ch),
         down \cap Range(Modifiers) = HeldMods(ch, i)
  PROVE  \/ Effect(Events(ch)[i]) = <<>> /\ Sent(ch, i + 1) = Sent(ch, i)
         \/ /\ Sent(ch, i + 1) = Sent(ch, i) + 1 /\ Sent(ch, i + 1) \in 1..Len(Units[ch])
            /\ Effect(Events(ch)[i]) = <<Units[ch][Sent(ch, i + 1)]>>
<1>1. DEFINE e == Events(ch)[i]
<1>2. Len(Units[ch]) \in Nat \ {0} /\ i \in 1..Len(Events(ch)) /\ Len(Events(ch)) \in Nat
  BY UnitsTyped, EventsAre
<1>3. CASE ByUnits(ch) /\ i % 2 = 1 /\ e = Unit(Units[ch][(i + 1) \div 2])
  <2>1. down \cap Range(Modifiers) = {}
    BY <1>3 DEF HeldMods
  <2>2. Sent(ch, i) = i \div 2 /\ Sent(ch, i + 1) = (i + 1) \div 2
    BY <1>3 DEF Sent
  <2>3. i \in 1..2 * Len(Units[ch])
    BY <1>2, <1>3, EventsAre
  <2>4. Effect(e) = <<Units[ch][(i + 1) \div 2]>>
    BY <1>3, <2>1 DEF Effect, Unit
  <2>5. (i + 1) \div 2 = (i \div 2) + 1 /\ (i + 1) \div 2 \in 1..Len(Units[ch])
    BY <1>2, <1>3, <2>3, Halves
  <2>6. QED
    BY <2>2, <2>4, <2>5
<1>4. CASE ByUnits(ch) /\ i % 2 # 1 /\ e = UnitUp(Units[ch][i \div 2])
  <2>1. Sent(ch, i) = i \div 2 /\ Sent(ch, i + 1) = (i + 1) \div 2
    BY <1>4 DEF Sent
  <2>2. (i + 1) \div 2 = i \div 2
    BY <1>2, <1>4, Halves
  <2>3. e.type = "unit up"
    BY <1>4, EventFields
  <2>4. Effect(e) = <<>>
    BY <2>3 DEF Effect
  <2>5. QED
    BY <2>1, <2>2, <2>4
<1>5. CASE ~ByUnits(ch) /\ i = (IF ch \in Shifted THEN 2 ELSE 1) /\ e = Down(KeyOf[ch])
  <2>1. KeyOf[ch] # NoKey /\ KeyOf[ch] \notin Range(Modifiers) /\ Len(Units[ch]) = 1
    BY <1>5, EventsAre, KeyFacts
  <2>2. down \cap Range(Modifiers) = (IF ch \in Shifted THEN {Shift} ELSE {})
    BY <1>5 DEF HeldMods
  <2>3. Effect(e) = <<Units[ch][1]>>
    <3>1. Glyph(KeyOf[ch]) = Units[ch][1]
      BY <2>1, <2>2, GlyphFits
    <3>2. QED
      BY <1>5, <2>1, <3>1 DEF Effect, Down
  <2>4. Sent(ch, i) = 0 /\ Sent(ch, i + 1) = 1
    BY <1>5 DEF Sent
  <2>5. QED
    BY <2>1, <2>3, <2>4
<1>6. CASE ~ByUnits(ch) /\ i = (IF ch \in Shifted THEN 3 ELSE 2) /\ e = Up(KeyOf[ch])
  BY <1>6 DEF Effect, Up, Sent
<1>7. CASE ~ByUnits(ch) /\ ch \in Shifted /\ i = 1 /\ e = Down(Shift)
  BY <1>7, ShiftAssumption DEF Effect, Down, Sent
<1>8. CASE ~ByUnits(ch) /\ ch \in Shifted /\ i = 4 /\ e = Up(Shift)
  BY <1>8 DEF Effect, Up, Sent
<1>9. QED
  BY <1>3, <1>4, <1>5, <1>6, <1>7, <1>8, EventCases

\* An event leaves down the modifiers that the next one needs.
LEMMA EventMods ==
  ASSUME NEW ch \in Chars, NEW i \in DOMAIN Events(ch), Arrives(Events(ch)[i]),
         down \cap Range(Modifiers) = HeldMods(ch, i)
  PROVE  /\ down' \cap Range(Modifiers) = HeldMods(ch, i + 1)
         /\ i = Len(Events(ch)) => HeldMods(ch, i + 1) = {}
<1>1. i \in 1..Len(Events(ch)) /\ Len(Events(ch)) \in Nat
  BY EventsAre
<1>2. i = Len(Events(ch)) => HeldMods(ch, i + 1) = {}
  <2>1. CASE ByUnits(ch)
    BY <2>1 DEF HeldMods
  <2>2. CASE ~ByUnits(ch)
    <3>1. Len(Events(ch)) = IF ch \in Shifted THEN 4 ELSE 2
      BY <2>2, EventsAre
    <3>2. QED
      BY <2>2, <3>1 DEF HeldMods
  <2>3. QED
    BY <2>1, <2>2
<1>3. CASE ByUnits(ch)
  <2>1. Events(ch)[i].type \in {"unit", "unit up"}
    <3>1. \E u : Events(ch)[i] = Unit(u) \/ Events(ch)[i] = UnitUp(u)
      BY <1>3, EventCases
    <3>2. QED
      BY <3>1, EventFields
  <2>2. down' = down
    BY <2>1 DEF Arrives
  <2>3. QED
    BY <1>2, <1>3, <2>2 DEF HeldMods
<1>4. CASE ~ByUnits(ch)
  <2>1. KeyOf[ch] \notin Range(Modifiers)
    BY <1>4, EventsAre, KeyFacts
  <2>2. CASE i = (IF ch \in Shifted THEN 2 ELSE 1) /\ Events(ch)[i] = Down(KeyOf[ch])
    BY <1>2, <1>4, <2>1, <2>2 DEF HeldMods, Arrives, Down
  <2>3. CASE i = (IF ch \in Shifted THEN 3 ELSE 2) /\ Events(ch)[i] = Up(KeyOf[ch])
    BY <1>2, <1>4, <2>1, <2>3 DEF HeldMods, Arrives, Up
  <2>4. CASE ch \in Shifted /\ i = 1 /\ Events(ch)[i] = Down(Shift)
    BY <1>2, <1>4, <2>4, ShiftAssumption DEF HeldMods, Arrives, Down
  <2>5. CASE ch \in Shifted /\ i = 4 /\ Events(ch)[i] = Up(Shift)
    BY <1>2, <1>4, <2>5, ShiftAssumption DEF HeldMods, Arrives, Up
  <2>6. QED
    BY <1>4, <2>2, <2>3, <2>4, <2>5, EventCases
<1>5. QED
  BY <1>3, <1>4

\* An event leaves no key down but the one being pressed.
LEMMA EventKeys ==
  ASSUME NEW ch \in Chars, NEW i \in DOMAIN Events(ch), Arrives(Events(ch)[i]),
         down \subseteq Keys
  PROVE  /\ down' \subseteq Keys
         /\ \A key : key \notin Range(Modifiers) /\ key \in down' =>
              key \in HeldKey(ch, i + 1) \/ (key \in down /\ key \notin HeldKey(ch, i))
         /\ (Lifted(ch, i) /\ ~ByUnits(ch) => KeyOf[ch] \notin down)
              => (Lifted(ch, i + 1) /\ ~ByUnits(ch) => KeyOf[ch] \notin down')
         /\ i = Len(Events(ch)) => Lifted(ch, i + 1) /\ HeldKey(ch, i + 1) = {}
<1>1. i \in 1..Len(Events(ch)) /\ Len(Events(ch)) \in Nat
  BY EventsAre
<1>2. i = Len(Events(ch)) => Lifted(ch, i + 1) /\ HeldKey(ch, i + 1) = {}
  <2>1. CASE ByUnits(ch)
    BY <2>1 DEF Lifted, HeldKey
  <2>2. CASE ~ByUnits(ch)
    <3>1. Len(Events(ch)) = IF ch \in Shifted THEN 4 ELSE 2
      BY <2>2, EventsAre
    <3>2. QED
      BY <2>2, <3>1 DEF Lifted, HeldKey
  <2>3. QED
    BY <2>1, <2>2
<1>3. CASE ByUnits(ch)
  <2>1. Events(ch)[i].type \in {"unit", "unit up"}
    <3>1. \E u : Events(ch)[i] = Unit(u) \/ Events(ch)[i] = UnitUp(u)
      BY <1>3, EventCases
    <3>2. QED
      BY <3>1, EventFields
  <2>2. down' = down
    BY <2>1 DEF Arrives
  <2>3. QED
    BY <1>2, <1>3, <2>2 DEF HeldKey
<1>4. CASE ~ByUnits(ch)
  <2>1. KeyOf[ch] \notin Range(Modifiers) /\ KeyOf[ch] \in Keys
    BY <1>4, EventsAre, KeyFacts
  <2>2. CASE i = (IF ch \in Shifted THEN 2 ELSE 1) /\ Events(ch)[i] = Down(KeyOf[ch])
    BY <1>2, <1>4, <2>1, <2>2 DEF HeldKey, Lifted, Arrives, Down
  <2>3. CASE i = (IF ch \in Shifted THEN 3 ELSE 2) /\ Events(ch)[i] = Up(KeyOf[ch])
    BY <1>2, <1>4, <2>1, <2>3 DEF HeldKey, Lifted, Arrives, Up
  <2>4. CASE ch \in Shifted /\ i = 1 /\ Events(ch)[i] = Down(Shift)
    <3>1. Shift \in Keys
      BY ShiftAssumption DEF Keys
    <3>2. QED
      BY <1>2, <1>4, <2>4, <3>1, ShiftAssumption DEF HeldKey, Lifted, Arrives, Down
  <2>5. CASE ch \in Shifted /\ i = 4 /\ Events(ch)[i] = Up(Shift)
    BY <1>2, <1>4, <2>5, ShiftAssumption DEF HeldKey, Lifted, Arrives, Up
  <2>6. QED
    BY <1>4, <2>2, <2>3, <2>4, <2>5, EventCases
<1>5. QED
  BY <1>3, <1>4

\* Whatever arrives is a unit of a character, or none.
LEMMA EffectTyped ==
  ASSUME NEW ch \in Chars, NEW i \in DOMAIN Events(ch)
  PROVE  Effect(Events(ch)[i]) \in Seq(AllUnits \cup {NoUnit})
<1>1. DEFINE U == AllUnits \cup {NoUnit}
             e == Events(ch)[i]
<1>2. \A x \in Chars : Units[x][1] \in U
  <2>1. TAKE x \in Chars
  <2>2. 1 \in 1..Len(Units[x]) /\ Units[x] \in Seq(AllUnits)
    BY UnitsTyped
  <2>3. QED
    BY <2>2, ElementOfSeq
<1>3. \A key : Glyph(key) \in U
  BY <1>2 DEF Glyph
<1>4. e.type = "unit" => e.unit \in U
  <2>1. SUFFICES ASSUME e.type = "unit" PROVE e.unit \in U
    OBVIOUS
  <2>2. ByUnits(ch)
    BY <2>1, EventCases DEF Down, Up
  <2>3. e \in [type : {"unit", "unit up"}, key : {NoKey}, unit : AllUnits]
    <3>1. Events(ch) = UnicodeEvents(ch) /\ i \in 1..Len(UnicodeEvents(ch))
      BY <2>2, EventsAre
    <3>2. QED
      BY <3>1, UnicodeTyped, ElementOfSeq
  <2>4. QED
    BY <2>3
<1>5. <<>> \in Seq(U) /\ \A u \in U : <<u>> \in Seq(U)
  OBVIOUS
<1>6. HIDE DEF U, e
<1>7. Effect(e) \in Seq(U)
  <2>1. CASE e.type = "down" /\ e.key \notin Range(Modifiers)
    BY <1>3, <1>5, <2>1 DEF Effect
  <2>2. CASE e.type = "unit"
    <3>1. (IF down \cap Range(Modifiers) = {} THEN e.unit ELSE NoUnit) \in U
      BY <1>4, <2>2 DEF U
    <3>2. QED
      BY <1>5, <2>2, <3>1 DEF Effect
  <2>3. CASE ~(e.type = "down" /\ e.key \notin Range(Modifiers)) /\ e.type # "unit"
    BY <1>5, <2>3 DEF Effect
  <2>4. QED
    BY <2>1, <2>2, <2>3
<1>8. QED
  BY <1>7 DEF U, e

------------------------------------------------------------------------------
(* The steps *)

PerCall(c) == CallTyped(c) /\ ModsClear(c) /\ KeysClear(c) /\ Spelling(c)

LEMMA TextTyped ==
  ASSUME Typed, NEW c \in Clients
  PROVE  /\ call[c] \in Calls /\ call[c].text \in Seq(Chars) /\ Len(call[c].text) \in Nat
         /\ \A j \in 1..Len(call[c].text) : call[c].text[j] \in Chars
<1>1. call[c] \in Calls
  BY DEF Typed
<1>2. call[c].text \in Seq(Chars)
  BY <1>1, TextAssumption, EmptySeq DEF Calls
<1>3. QED
  BY <1>1, <1>2, LenProperties, ElementOfSeq

LEMMA InitInv == Init => IInv
<1>1. SUFFICES ASSUME Init PROVE IInv
  OBVIOUS
<1>2. \A c \in Clients :
        call[c] = [at |-> "idle", text |-> <<>>, char |-> 1, event |-> 1, lossy |-> FALSE]
  BY <1>1 DEF Init
<1>3. <<>> \in Seq(AllUnits \cup {NoUnit}) /\ Len(<<>>) = 0
  BY EmptySeq
<1>4. Typed
  <2>1. call \in [Clients -> Calls]
    BY <1>1 DEF Init, Calls
  <2>2. typed \in [Clients -> Seq(AllUnits \cup {NoUnit})]
    BY <1>1, <1>3 DEF Init
  <2>3. \A c \in Clients : CallTyped(c)
    BY <1>1, <1>2, <1>3 DEF Init, CallTyped, Typing
  <2>4. QED
    BY <1>1, <2>1, <2>2, <2>3 DEF Init, Typed
<1>5. Turns
  BY <1>1, <1>2, NoneAssumption DEF Init, Turns, Inside
<1>6. \A c \in Clients : ModsClear(c) /\ KeysClear(c) /\ Spelling(c)
  BY <1>2 DEF ModsClear, KeysClear, Spelling, Typing
<1>7. QED
  BY <1>4, <1>5, <1>6 DEF IInv

\* Nothing changes for a call that does not hold inputMu.
LEMMA OthersKeep ==
  ASSUME IInv, UNCHANGED unicode, NEW d \in Clients, inputMu # d,
         call'[d] = call[d], typed'[d] = typed[d]
  PROVE  PerCall(d)'
<1>1. CallTyped(d) /\ Spelling(d)
  BY DEF IInv, Typed
<1>2. call[d].at \notin Inside
  BY DEF IInv, Turns
<1>3. call[d].at # "typing" /\ call[d].at # "release" /\ call'[d].at # "typing" /\ call'[d].at # "release"
  BY <1>2 DEF Inside
<1>4. CallTyped(d)'
  BY <1>1, <1>3 DEF CallTyped, Typing
<1>5. Spelling(d)'
  BY <1>1, <1>3 DEF Spelling, Asked
<1>6. ModsClear(d)' /\ KeysClear(d)'
  BY <1>3 DEF ModsClear, KeysClear, Typing
<1>7. QED
  BY <1>4, <1>5, <1>6 DEF PerCall

\* A step of one call, by what becomes of that call and its turn.
LEMMA CallStep ==
  ASSUME IInv, UNCHANGED unicode, NEW c \in Clients, inputMu \in {c, NoClient} \/ UNCHANGED <<inputMu, down>>,
         inputMu \in {c, NoClient} => inputMu' \in {c, NoClient},
         down' \subseteq Keys,
         NEW x \in Calls, call' = [call EXCEPT ![c] = x],
         NEW units \in Seq(AllUnits \cup {NoUnit}), typed' = [typed EXCEPT ![c] = units],
         x.at \in Inside <=> inputMu' = c, PerCall(c)'
  PROVE  IInv'
<1>1. /\ call' \in [Clients -> Calls] /\ call'[c] = x
      /\ typed' \in [Clients -> Seq(AllUnits \cup {NoUnit})]
      /\ \A d \in Clients \ {c} : call'[d] = call[d] /\ typed'[d] = typed[d]
  BY DEF IInv, Typed
<1>2. inputMu' \in Clients \cup {NoClient}
  BY DEF IInv, Typed
<1>3. Turns'
  <2>1. SUFFICES ASSUME NEW d \in Clients \ {c} PROVE call'[d].at \in Inside <=> inputMu' = d
    BY <1>1 DEF Turns
  <2>2. call[d].at \in Inside <=> inputMu = d
    BY DEF IInv, Turns
  <2>3. inputMu = d <=> inputMu' = d
    BY NoneAssumption
  <2>4. QED
    BY <1>1, <2>2, <2>3
<1>4. \A d \in Clients : PerCall(d)'
  <2>1. SUFFICES ASSUME NEW d \in Clients \ {c} PROVE PerCall(d)'
    OBVIOUS
  <2>2. CASE inputMu # d
    BY <1>1, <2>2, OthersKeep
  <2>3. CASE inputMu = d
    <3>1. UNCHANGED down
      BY <2>3, NoneAssumption
    <3>2. CallTyped(d) /\ ModsClear(d) /\ KeysClear(d) /\ Spelling(d)
      BY DEF IInv, Typed
    <3>3. call'[d] = call[d] /\ typed'[d] = typed[d]
      BY <1>1
    <3>4. CallTyped(d)' /\ ModsClear(d)'
      BY <3>1, <3>2, <3>3 DEF CallTyped, ModsClear, Typing, Current, Events, UnicodeEvents, AsciiEvents,
         HeldMods, ByUnits
    <3>5. KeysClear(d)'
      BY <3>1, <3>2, <3>3 DEF KeysClear, Typing, Current, HeldKey, Lifted, ByUnits
    <3>6. Spelling(d)'
      BY <3>2, <3>3 DEF Spelling, Typing, Current, Sent, ByUnits, Asked
    <3>7. QED
      BY <3>4, <3>5, <3>6 DEF PerCall
  <2>4. QED
    BY <2>2, <2>3
<1>5. QED
  BY <1>1, <1>2, <1>3, <1>4 DEF IInv, Typed, PerCall

LEMMA CallCall ==
  ASSUME IInv, NEW c \in Clients, NEW text \in Texts, Call(c, text)
  PROVE  IInv'
<1>1. DEFINE x == [call[c] EXCEPT !.at = "waiting", !.text = text]
<1>2. call[c] \in Calls /\ call[c].at = "idle" /\ CallTyped(c)
  BY DEF IInv, Typed, Call
<1>3. /\ call' = [call EXCEPT ![c] = x] /\ UNCHANGED <<unicode, inputMu, down, typed>>
      /\ call \in [Clients -> Calls] /\ typed \in [Clients -> Seq(AllUnits \cup {NoUnit})]
      /\ down \subseteq Keys
  BY DEF Call, IInv, Typed
<1>4. x \in Calls /\ x.at = "waiting" /\ x.text = text /\ x.char = 1 /\ x.event = 1
  BY <1>2 DEF Calls, CallTyped
<1>5. HIDE DEF x
<1>6. call'[c] = x /\ typed'[c] = typed[c] /\ typed[c] = <<>>
  BY <1>2, <1>3 DEF CallTyped
<1>7. Len(text) \in Nat
  BY TextAssumption, LenProperties
<1>8. PerCall(c)'
  BY <1>4, <1>6, <1>7 DEF PerCall, CallTyped, ModsClear, KeysClear, Spelling, Typing
<1>9. x.at \in Inside <=> inputMu' = c
  BY <1>2, <1>3, <1>4 DEF IInv, Turns, Inside
<1>10. typed' = [typed EXCEPT ![c] = typed[c]] /\ typed[c] \in Seq(AllUnits \cup {NoUnit})
  BY <1>3
<1>11. QED
  BY <1>3, <1>4, <1>8, <1>9, <1>10, CallStep

LEMMA LockCall ==
  ASSUME IInv, NEW c \in Clients, Lock(c)
  PROVE  IInv'
<1>1. DEFINE x == [call[c] EXCEPT !.at = "sync"]
<1>2. call[c] \in Calls /\ call[c].at = "waiting" /\ CallTyped(c)
  BY DEF IInv, Typed, Lock
<1>3. /\ call' = [call EXCEPT ![c] = x] /\ UNCHANGED <<unicode, down, typed>>
      /\ inputMu = NoClient /\ inputMu' = c
      /\ call \in [Clients -> Calls] /\ typed \in [Clients -> Seq(AllUnits \cup {NoUnit})]
      /\ down \subseteq Keys
  BY DEF Lock, Set, IInv, Typed
<1>4. /\ x \in Calls /\ x.at = "sync" /\ x.text = call[c].text /\ x.char = call[c].char
      /\ x.event = call[c].event
  BY <1>2 DEF Calls
<1>5. HIDE DEF x
<1>6. call'[c] = x /\ typed'[c] = typed[c]
  BY <1>3
<1>7. PerCall(c)'
  BY <1>2, <1>4, <1>6 DEF PerCall, CallTyped, ModsClear, KeysClear, Spelling, Typing
<1>8. typed' = [typed EXCEPT ![c] = typed[c]] /\ typed[c] \in Seq(AllUnits \cup {NoUnit})
  BY <1>3
<1>9. QED
  BY <1>3, <1>4, <1>7, <1>8, CallStep DEF Inside

\* The beginning of the text that has arrived so far is a beginning of it.
LEMMA SoFar ==
  ASSUME IInv, NEW c \in Clients, call[c].at = "typing", ~call[c].lossy
  PROVE  /\ IsPrefix(typed[c], Asked(c))
         /\ ~Typing(c) => typed[c] = Asked(c)
<1>1. DEFINE text == call[c].text
             i == call[c].char - 1
             f == Spelled(text)
<1>2. /\ text \in Seq(Chars) /\ Len(text) \in Nat /\ i \in 0..Len(text)
      /\ Typing(c) => i + 1 \in 1..Len(text) /\ Current(c) = text[i + 1]
      /\ Typing(c) => call[c].event \in DOMAIN Events(Current(c))
      /\ ~Typing(c) => i = Len(text)
  BY TextTyped DEF IInv, Typed, CallTyped, Typing, Current, Calls
<1>3. typed[c] = f[i] \o (IF Typing(c) THEN SubSeq(Units[Current(c)], 1, Sent(Current(c), call[c].event))
                          ELSE <<>>)
  BY DEF IInv, Spelling
<1>4. Spells(text, Len(text), f)
  BY <1>2, SpelledEquation
<1>5. HIDE DEF f, i, text
<1>6. /\ f[i] \in Seq(AllUnits) /\ f[Len(text)] \in Seq(AllUnits)
      /\ \A j \in 1..Len(text) : f[j] = f[j - 1] \o Units[text[j]] /\ f[j] \in Seq(AllUnits)
  <2>1. Len(text) \in 0..Len(text) /\ \A j \in 1..Len(text) : j \in 0..Len(text)
    BY <1>2
  <2>2. QED
    BY <1>2, <1>4, <2>1 DEF Spells
<1>7. CASE Typing(c)
  <2>1. DEFINE ch == Current(c)
               k == Sent(ch, call[c].event)
               part == SubSeq(Units[ch], 1, k)
  <2>2. /\ ch \in Chars /\ ch = text[i + 1] /\ Units[ch] \in Seq(AllUnits) /\ k \in 0..Len(Units[ch])
        /\ i + 1 \in 1..Len(text) /\ Len(Units[ch]) \in Nat
    BY <1>2, <1>7, ElementOfSeq, UnitsTyped, SentBounds
  <2>3. f[i + 1] = f[i] \o Units[ch]
    <3>1. (i + 1) - 1 = i
      BY <1>2
    <3>2. QED
      BY <1>6, <2>2, <3>1
  <2>4. HIDE DEF ch, k
  <2>5. part \in Seq(AllUnits) /\ \E rest \in Seq(AllUnits) : Units[ch] = part \o rest
    <3>1. Units[ch] \in Seq(AllUnits) /\ k \in 0..Len(Units[ch])
      BY <2>2
    <3>2. QED
      BY <3>1, Halved
  <2>6. typed[c] = f[i] \o part /\ typed[c] \in Seq(AllUnits)
    <3>1. typed[c] = f[i] \o part
      BY <1>3, <1>7 DEF ch, k
    <3>2. QED
      BY <1>6, <2>5, <3>1, ConcatProperties
  <2>7. HIDE DEF part
  <2>8. PICK rest \in Seq(AllUnits) : Units[ch] = part \o rest
    BY <2>5
  <2>9. f[i + 1] = typed[c] \o rest
    <3>1. f[i] \in Seq(AllUnits) /\ part \in Seq(AllUnits) /\ rest \in Seq(AllUnits)
      BY <1>6, <2>5, <2>8
    <3>2. \A a, b, d \in Seq(AllUnits) : (a \o b) \o d = a \o (b \o d)
      BY ConcatAssociative
    <3>3. (f[i] \o part) \o rest = f[i] \o (part \o rest)
      BY <3>1, <3>2, Zenon
    <3>4. QED
      BY <2>3, <2>8, <2>6, <3>3
  <2>10. IsPrefix(typed[c], f[i + 1])
    <3>1. IsPrefix(typed[c], typed[c])
      BY <2>6, LenProperties DEF IsPrefix
    <3>2. QED
      BY <2>8, <2>6, <2>9, <3>1, PrefixOfConcat
  <2>11. IsPrefix(typed[c], f[Len(text)])
    <3>1. i + 1 \in 0..Len(text) /\ Len(text) \in 0..Len(text) /\ i + 1 <= Len(text)
      BY <1>2, <2>2
    <3>2. QED
      BY <1>2, <2>6, <2>10, <3>1, SpelledGrows DEF f
  <2>12. QED
    BY <1>7, <2>11 DEF Asked, f, text
<1>8. CASE ~Typing(c)
  <2>1. typed[c] = f[Len(text)]
    BY <1>2, <1>3, <1>6, <1>8, ConcatEmptySeq
  <2>2. IsPrefix(typed[c], typed[c])
    BY <1>6, <2>1, LenProperties DEF IsPrefix
  <2>3. QED
    BY <2>1, <2>2 DEF Asked, f, text
<1>9. QED
  BY <1>7, <1>8

LEMMA AskedTyped ==
  ASSUME Typed, NEW c \in Clients
  PROVE  /\ Spells(call[c].text, Len(call[c].text), Spelled(call[c].text))
         /\ Asked(c) \in Seq(AllUnits) /\ IsPrefix(<<>>, Asked(c))
<1>1. call[c].text \in Seq(Chars) /\ Len(call[c].text) \in 0..Len(call[c].text)
  BY TextTyped
<1>2. Spells(call[c].text, Len(call[c].text), Spelled(call[c].text))
  BY <1>1, SpelledEquation
<1>3. Asked(c) \in Seq(AllUnits)
  BY <1>1, <1>2 DEF Spells, Asked
<1>4. IsPrefix(<<>>, Asked(c))
  <2>1. SubSeq(Asked(c), 1, 0) = <<>>
    BY SubSeqEmpty
  <2>2. QED
    BY <1>3, <2>1, LenProperties DEF IsPrefix
<1>5. QED
  BY <1>2, <1>3, <1>4

LEMMA GiveUpCall ==
  ASSUME IInv, NEW c \in Clients, call[c].at \in Inside, GiveUp(c)
  PROVE  IInv'
<1>1. DEFINE x == [call[c] EXCEPT !.at = "error"]
<1>2. call[c] \in Calls /\ CallTyped(c) /\ inputMu = c
  BY DEF IInv, Typed, Turns
<1>3. /\ call' = [call EXCEPT ![c] = x] /\ UNCHANGED <<unicode, down, typed>>
      /\ inputMu' = NoClient
      /\ call \in [Clients -> Calls] /\ typed \in [Clients -> Seq(AllUnits \cup {NoUnit})]
      /\ down \subseteq Keys
  BY DEF GiveUp, Set, IInv, Typed
<1>4. /\ x \in Calls /\ x.at = "error" /\ x.text = call[c].text /\ x.char = call[c].char
      /\ x.lossy = call[c].lossy
  BY <1>2 DEF Calls
<1>5. HIDE DEF x
<1>6. call'[c] = x /\ typed'[c] = typed[c]
  BY <1>3
<1>7. ~call[c].lossy => IsPrefix(typed[c], Asked(c))
  <2>1. CASE call[c].at = "typing"
    BY <2>1, SoFar
  <2>2. CASE call[c].at # "typing"
    <3>1. typed[c] = <<>>
      BY <1>2, <2>2 DEF CallTyped, Inside
    <3>2. QED
      BY <3>1, AskedTyped DEF IInv
  <2>3. QED
    BY <2>1, <2>2
<1>8. Asked(c)' = Asked(c)
  BY <1>4, <1>6 DEF Asked
<1>9. PerCall(c)'
  BY <1>2, <1>4, <1>6, <1>7, <1>8 DEF PerCall, CallTyped, ModsClear, KeysClear, Spelling, Typing
<1>10. typed' = [typed EXCEPT ![c] = typed[c]] /\ typed[c] \in Seq(AllUnits \cup {NoUnit})
  BY <1>3
<1>11. x.at \in Inside <=> inputMu' = c
  BY <1>3, <1>4, NoneAssumption DEF Inside
<1>12. QED
  BY <1>2, <1>3, <1>4, <1>9, <1>10, <1>11, CallStep

LEMMA SyncCall ==
  ASSUME IInv, NEW c \in Clients, NEW resets \in BOOLEAN, Sync(c, TRUE, resets)
  PROVE  IInv'
<1>1. DEFINE x == [call[c] EXCEPT !.at = IF call[c].at = "sync" THEN "focus" ELSE "release"]
<1>2. call[c] \in Calls /\ CallTyped(c) /\ call[c].at \in {"sync", "focus"} /\ inputMu = c
  BY DEF IInv, Typed, Turns, Sync, Inside
<1>3. /\ call' = [call EXCEPT ![c] = x] /\ UNCHANGED <<unicode, inputMu, typed>>
      /\ call \in [Clients -> Calls] /\ typed \in [Clients -> Seq(AllUnits \cup {NoUnit})]
      /\ down' \subseteq Keys
  BY DEF Sync, Set, IInv, Typed
<1>4. /\ x \in Calls /\ x.at \in {"focus", "release"} /\ x.text = call[c].text
      /\ x.char = call[c].char /\ x.event = call[c].event /\ x.lossy = call[c].lossy
  BY <1>2 DEF Calls
<1>5. HIDE DEF x
<1>6. /\ call'[c] = x /\ typed'[c] = typed[c]
      /\ typed[c] = <<>> /\ call[c].char = 1 /\ call[c].event = 1
  BY <1>2, <1>3 DEF CallTyped
<1>7. 1 \in DOMAIN Modifiers
  BY ShiftAssumption, NoneAssumption DEF Range
<1>8. PerCall(c)'
  BY <1>2, <1>4, <1>6, <1>7 DEF PerCall, CallTyped, ModsClear, KeysClear, Spelling, Typing
<1>9. typed' = [typed EXCEPT ![c] = typed[c]] /\ typed[c] \in Seq(AllUnits \cup {NoUnit})
  BY <1>3
<1>10. QED
  BY <1>2, <1>3, <1>4, <1>8, <1>9, CallStep DEF Inside

\* Where a character begins, nothing of it is down and nothing is typed.
LEMMA CharacterBegins ==
  ASSUME NEW ch \in Chars
  PROVE  /\ HeldMods(ch, 1) = {} /\ HeldKey(ch, 1) = {} /\ ~(Lifted(ch, 1) /\ ~ByUnits(ch))
         /\ Sent(ch, 1) = 0 /\ SubSeq(Units[ch], 1, 0) = <<>> /\ 1 \in DOMAIN Events(ch)
<1>1. 1 \in DOMAIN Events(ch)
  BY EventsAre
<1>2. Sent(ch, 1) = 0
  BY <1>1, SentBounds
<1>3. SubSeq(Units[ch], 1, 0) = <<>>
  BY SubSeqEmpty
<1>4. HeldMods(ch, 1) = {} /\ HeldKey(ch, 1) = {} /\ ~(Lifted(ch, 1) /\ ~ByUnits(ch))
  BY DEF HeldMods, HeldKey, Lifted
<1>5. QED
  BY <1>1, <1>2, <1>3, <1>4

LEMMA ReleaseCall ==
  ASSUME IInv, NEW c \in Clients, NEW accepted \in BOOLEAN, Release(c, accepted)
  PROVE  IInv'
<1>1. DEFINE key == Modifiers[call[c].event]
             last == call[c].event = Len(Modifiers)
             lossy == call[c].lossy \/ (~accepted /\ key \in down)
             x == [call[c] EXCEPT !.at = IF last THEN "typing" ELSE @,
                                  !.event = IF last THEN 1 ELSE @ + 1,
                                  !.lossy = lossy]
<1>2. /\ call[c] \in Calls /\ CallTyped(c) /\ ModsClear(c) /\ call[c].at = "release" /\ inputMu = c
      /\ call[c].event \in 1..Len(Modifiers) /\ Len(Modifiers) \in Nat
  BY NoneAssumption, LenProperties DEF IInv, Typed, Turns, Release, Inside, CallTyped
<1>3. /\ call' = [call EXCEPT ![c] = x] /\ UNCHANGED <<unicode, inputMu>>
      /\ call \in [Clients -> Calls] /\ typed \in [Clients -> Seq(AllUnits \cup {NoUnit})]
      /\ down \subseteq Keys
  BY DEF Release, IInv, Typed
<1>4. /\ x \in Calls /\ x.text = call[c].text /\ x.char = call[c].char /\ x.lossy = lossy
      /\ last => x.at = "typing" /\ x.event = 1
      /\ ~last => x.at = "release" /\ x.event = call[c].event + 1
  <2>1. lossy \in BOOLEAN
    OBVIOUS
  <2>2. call[c].event \in Nat /\ call[c].event + 1 \in Nat \ {0}
    BY <1>2
  <2>3. HIDE DEF lossy, key
  <2>4. CASE last
    <3>1. HIDE DEF last
    <3>2. x = [call[c] EXCEPT !.at = "typing", !.event = 1, !.lossy = lossy]
      BY <2>4
    <3>3. HIDE DEF x
    <3>4. x \in Calls
      <4>1. call[c] \in Calls
        BY <1>2
      <4>2. x = [at |-> "typing", text |-> call[c].text, char |-> call[c].char, event |-> 1,
                 lossy |-> lossy]
        BY <3>2, <4>1 DEF Calls
      <4>3. QED
        BY <2>1, <4>1, <4>2 DEF Calls
    <3>5. QED
      BY <1>2, <2>4, <3>2, <3>4 DEF Calls
  <2>5. CASE ~last
    <3>1. HIDE DEF last
    <3>2. QED
      BY <1>2, <2>1, <2>2, <2>5 DEF Calls
  <2>6. QED
    BY <2>4, <2>5
<1>5. typed[c] = <<>> /\ call[c].char = 1
  BY <1>2 DEF CallTyped
<1>6. /\ typed' = typed
      /\ down' = IF accepted THEN down \ {key} ELSE down
  <2>1. CASE accepted
    <3>1. Up(key).type = "up" /\ Up(key).key = key
      BY EventFields
    <3>2. Effect(Up(key)) = <<>>
      BY <3>1 DEF Effect
    <3>3. Arrives(Up(key)) /\ inputMu # NoClient
      BY <1>2, <2>1, NoneAssumption DEF Release
    <3>4. down' = down \ {key} /\ typed' = [typed EXCEPT ![c] = @ \o <<>>]
      BY <1>2, <3>1, <3>2, <3>3 DEF Arrives
    <3>5. typed[c] \o <<>> = typed[c]
      BY <1>3, ConcatEmptySeq
    <3>6. QED
      BY <1>3, <2>1, <3>4, <3>5
  <2>2. CASE ~accepted
    BY <2>2 DEF Release
  <2>3. QED
    BY <2>1, <2>2
<1>7. ~lossy => \A j \in 1..call[c].event : Modifiers[j] \notin down'
  <2>1. SUFFICES ASSUME ~lossy, NEW j \in 1..call[c].event PROVE Modifiers[j] \notin down'
    OBVIOUS
  <2>2. CASE j = call[c].event
    BY <1>6, <2>1, <2>2
  <2>3. CASE j # call[c].event
    <3>1. j \in 1..call[c].event - 1
      BY <1>2, <2>3
    <3>2. Modifiers[j] \notin down
      BY <1>2, <2>1, <3>1 DEF ModsClear
    <3>3. QED
      BY <1>6, <3>2
  <2>4. QED
    BY <2>2, <2>3
<1>8. last /\ ~lossy => down' \cap Range(Modifiers) = {}
  <2>1. Range(Modifiers) = {Modifiers[j] : j \in 1..Len(Modifiers)}
    BY NoneAssumption, LenProperties DEF Range
  <2>2. QED
    BY <1>7, <2>1
<1>9. HIDE DEF x, lossy, key
<1>10. call'[c] = x /\ typed'[c] = typed[c]
  BY <1>3, <1>6
<1>11. PerCall(c)'
  <2>1. CASE ~last
    <3>1. /\ call'[c].at = "release" /\ call'[c].event = call[c].event + 1 /\ call'[c].char = 1
          /\ call'[c].lossy = lossy /\ call'[c].text = call[c].text
      BY <1>4, <1>5, <1>10, <2>1
    <3>2. call'[c].event \in DOMAIN Modifiers /\ call'[c].event - 1 = call[c].event
      BY <1>2, <2>1, <3>1, NoneAssumption, LenProperties
    <3>3. CallTyped(c)'
      BY <1>2, <1>5, <1>10, <3>1, <3>2 DEF CallTyped, Typing
    <3>4. ModsClear(c)'
      BY <1>7, <3>1, <3>2 DEF ModsClear, Typing
    <3>5. QED
      BY <3>1, <3>3, <3>4 DEF PerCall, KeysClear, Spelling, Typing
  <2>2. CASE last
    <3>1. /\ call'[c].at = "typing" /\ call'[c].event = 1 /\ call'[c].char = 1
          /\ call'[c].lossy = lossy /\ call'[c].text = call[c].text /\ typed'[c] = <<>>
      BY <1>4, <1>5, <1>10, <2>2
    <3>2. /\ Len(call[c].text) \in Nat
          /\ \A j \in 1..Len(call[c].text) : call[c].text[j] \in Chars
      BY TextTyped DEF IInv
    <3>3. Typing(c)' => /\ Current(c)' \in Chars /\ HeldMods(Current(c), 1)' = {}
                        /\ HeldKey(Current(c), 1)' = {}
                        /\ ~(Lifted(Current(c), 1)' /\ ~ByUnits(Current(c))')
                        /\ Sent(Current(c), 1)' = 0 /\ SubSeq(Units[Current(c)'], 1, 0) = <<>>
                        /\ 1 \in DOMAIN Events(Current(c))'
      <4>1. HAVE Typing(c)'
      <4>2. Current(c)' = call[c].text[1] /\ Current(c)' \in Chars
        BY <3>1, <3>2, <4>1 DEF Typing, Current
      <4>3. \A ch : /\ HeldMods(ch, 1)' = HeldMods(ch, 1) /\ HeldKey(ch, 1)' = HeldKey(ch, 1)
                    /\ Lifted(ch, 1)' = Lifted(ch, 1) /\ ByUnits(ch)' = ByUnits(ch)
                    /\ Sent(ch, 1)' = Sent(ch, 1) /\ Events(ch)' = Events(ch)
        BY <1>3 DEF HeldMods, HeldKey, Lifted, ByUnits, Sent, Events, UnicodeEvents, AsciiEvents
      <4>4. QED
        BY <4>2, <4>3, CharacterBegins
    <3>4. CallTyped(c)'
      BY <3>1, <3>2, <3>3 DEF CallTyped
    <3>5. ModsClear(c)'
      BY <1>8, <2>2, <3>1, <3>3 DEF ModsClear
    <3>6. KeysClear(c)'
      BY <3>1, <3>3 DEF KeysClear
    <3>7. Spelling(c)'
      <4>1. Spelled(call[c].text)[0] = <<>>
        BY AskedTyped DEF IInv, Spells
      <4>2. typed'[c] = <<>> \o <<>>
        BY <3>1, ConcatEmptySeq, EmptySeq
      <4>3. call'[c].char - 1 = 0
        BY <3>1
      <4>4. QED
        BY <3>1, <3>3, <4>1, <4>2, <4>3 DEF Spelling
    <3>8. QED
      BY <3>4, <3>5, <3>6, <3>7 DEF PerCall
  <2>3. QED
    BY <2>1, <2>2
<1>12. typed' = [typed EXCEPT ![c] = typed[c]] /\ typed[c] \in Seq(AllUnits \cup {NoUnit})
  BY <1>3, <1>6
<1>13. down' \subseteq Keys /\ (x.at \in Inside <=> inputMu' = c)
  BY <1>2, <1>3, <1>4, <1>6 DEF Inside
<1>14. QED
  BY <1>2, <1>3, <1>4, <1>11, <1>12, <1>13, CallStep

LEMMA ReturnCall ==
  ASSUME IInv, NEW c \in Clients, Return(c)
  PROVE  IInv'
<1>1. DEFINE x == [call[c] EXCEPT !.at = "ok"]
<1>2. /\ call[c] \in Calls /\ CallTyped(c) /\ inputMu = c /\ call[c].at = "typing"
      /\ ~Typing(c)
  <2>1. /\ call[c] \in Calls /\ CallTyped(c) /\ inputMu = c /\ call[c].at = "typing"
        /\ call[c].char > Len(call[c].text)
    BY DEF IInv, Typed, Turns, Return, Inside
  <2>2. call[c].char \in Nat /\ Len(call[c].text) \in Nat
    BY <2>1, TextTyped DEF IInv, Calls
  <2>3. QED
    BY <2>1, <2>2 DEF Typing
<1>3. /\ call' = [call EXCEPT ![c] = x] /\ UNCHANGED <<unicode, down, typed>>
      /\ inputMu' = NoClient
      /\ call \in [Clients -> Calls] /\ typed \in [Clients -> Seq(AllUnits \cup {NoUnit})]
      /\ down \subseteq Keys
  BY DEF Return, Set, IInv, Typed
<1>4. /\ x \in Calls /\ x.at = "ok" /\ x.text = call[c].text /\ x.char = call[c].char
      /\ x.lossy = call[c].lossy
  BY <1>2 DEF Calls
<1>5. HIDE DEF x
<1>6. call'[c] = x /\ typed'[c] = typed[c]
  BY <1>3
<1>7. ~call[c].lossy => typed[c] = Asked(c) /\ IsPrefix(typed[c], Asked(c))
  BY <1>2, SoFar
<1>8. Asked(c)' = Asked(c)
  BY <1>4, <1>6 DEF Asked
<1>9. PerCall(c)'
  BY <1>2, <1>4, <1>6, <1>7, <1>8 DEF PerCall, CallTyped, ModsClear, KeysClear, Spelling, Typing
<1>10. typed' = [typed EXCEPT ![c] = typed[c]] /\ typed[c] \in Seq(AllUnits \cup {NoUnit})
  BY <1>3
<1>11. x.at \in Inside <=> inputMu' = c
  BY <1>3, <1>4, NoneAssumption DEF Inside
<1>12. QED
  BY <1>2, <1>3, <1>4, <1>9, <1>10, <1>11, CallStep

\* No call is typing while another request sends its key event.
LEMMA SendKeyCall ==
  ASSUME IInv, NEW key \in Keys, SendKey(Down(key)) \/ SendKey(Up(key))
  PROVE  IInv'
<1>1. inputMu = NoClient /\ UNCHANGED <<unicode, inputMu, call, typed>>
  BY DEF SendKey, Arrives
<1>2. down' \subseteq Keys
  <2>1. down \subseteq Keys
    BY DEF IInv, Typed
  <2>2. CASE SendKey(Down(key))
    <3>1. Down(key).type = "down" /\ Down(key).key = key
      BY EventFields
    <3>2. down' = down \cup {key}
      BY <2>2, <3>1 DEF SendKey, Arrives
    <3>3. QED
      BY <2>1, <3>2
  <2>3. CASE SendKey(Up(key))
    <3>1. Up(key).type = "up" /\ Up(key).key = key
      BY EventFields
    <3>2. down' = down \ {key}
      BY <2>3, <3>1 DEF SendKey, Arrives
    <3>3. QED
      BY <2>1, <3>2
  <2>4. QED
    BY <2>2, <2>3
<1>3. \A d \in Clients : PerCall(d)'
  BY <1>1, NoneAssumption, OthersKeep
<1>4. QED
  BY <1>1, <1>2, <1>3 DEF IInv, Typed, Turns, PerCall

\* What has been typed after event i of the character at which the call is.
LEMMA TypedSoFar ==
  ASSUME IInv, NEW c \in Clients, Send(c, TRUE), ~call[c].lossy
  PROVE  /\ typed'[c] = Spelled(call[c].text)[call[c].char - 1]
                          \o SubSeq(Units[Current(c)], 1, Sent(Current(c), call[c].event + 1))
         /\ typed'[c] \in Seq(AllUnits)
<1>1. DEFINE ch == Current(c)
             i == call[c].event
             before == Spelled(call[c].text)[call[c].char - 1]
             event == Events(ch)[i]
<1>2. /\ Typing(c) /\ inputMu = c /\ inputMu # NoClient /\ CallTyped(c) /\ call[c].at = "typing"
      /\ typed \in [Clients -> Seq(AllUnits \cup {NoUnit})] /\ Arrives(event)
  BY NoneAssumption DEF IInv, Typed, Turns, Send, Typing, Inside, Current
<1>3. /\ ch \in Chars /\ i \in DOMAIN Events(ch)
      /\ call[c].char - 1 \in 0..Len(call[c].text)
  <2>1. call[c].char \in 1..Len(call[c].text)
    BY <1>2 DEF CallTyped, Typing
  <2>2. QED
    BY <1>2, <2>1, TextTyped DEF IInv, CallTyped, Current
<1>4. before \in Seq(AllUnits)
  BY <1>3, AskedTyped DEF IInv, Spells
<1>5. typed[c] = before \o SubSeq(Units[ch], 1, Sent(ch, i)) /\ down \cap Range(Modifiers) = HeldMods(ch, i)
  BY <1>2 DEF IInv, Spelling, ModsClear
<1>6. typed'[c] = typed[c] \o Effect(event)
  BY <1>2 DEF Arrives
<1>7. HIDE DEF ch, i, before, event
<1>8. DEFINE part == SubSeq(Units[ch], 1, Sent(ch, i))
             more == SubSeq(Units[ch], 1, Sent(ch, i + 1))
<1>9. Units[ch] \in Seq(AllUnits) /\ Sent(ch, i) \in 0..Len(Units[ch]) /\ Len(Units[ch]) \in Nat
  BY <1>3, UnitsTyped, SentBounds
<1>10. part \in Seq(AllUnits)
  BY <1>9, Halved
<1>11. more \in Seq(AllUnits) /\ Effect(event) \in Seq(AllUnits) /\ part \o Effect(event) = more
  <2>1. CASE Effect(event) = <<>> /\ Sent(ch, i + 1) = Sent(ch, i)
    BY <1>10, <2>1, ConcatEmptySeq, EmptySeq
  <2>2. CASE /\ Sent(ch, i + 1) = Sent(ch, i) + 1 /\ Sent(ch, i + 1) \in 1..Len(Units[ch])
             /\ Effect(event) = <<Units[ch][Sent(ch, i + 1)]>>
    <3>1. part \o Effect(event) = more
      <4>1. DEFINE k == Sent(ch, i)
      <4>2. HIDE DEF k
      <4>3. k \in 0..Len(Units[ch]) /\ k + 1 <= Len(Units[ch])
        BY <1>9, <2>2 DEF k
      <4>4. SubSeq(Units[ch], 1, k) \o <<Units[ch][k + 1]>> = SubSeq(Units[ch], 1, k + 1)
        BY <1>9, <4>3, OneMore
      <4>5. QED
        BY <2>2, <4>4 DEF k
    <3>2. Sent(ch, i + 1) \in 0..Len(Units[ch])
      BY <2>2
    <3>3. more \in Seq(AllUnits)
      BY <1>9, <3>2, Halved
    <3>4. Units[ch][Sent(ch, i + 1)] \in AllUnits
      BY <1>9, <2>2, ElementOfSeq
    <3>5. Effect(event) \in Seq(AllUnits)
      BY <2>2, <3>4
    <3>6. QED
      BY <3>1, <3>3, <3>5
  <2>3. QED
    BY <1>3, <1>5, <2>1, <2>2, EventTypes DEF event
<1>12. HIDE DEF part, more
<1>13. (before \o part) \o Effect(event) = before \o (part \o Effect(event))
  <2>1. \A a, b, d \in Seq(AllUnits) : (a \o b) \o d = a \o (b \o d)
    BY ConcatAssociative
  <2>2. QED
    BY <1>4, <1>10, <1>11, <2>1, Zenon
<1>14. typed[c] = before \o part
  BY <1>5 DEF part
<1>15. typed'[c] = before \o more /\ before \o more \in Seq(AllUnits)
  BY <1>4, <1>6, <1>11, <1>13, <1>14, ConcatProperties
<1>16. QED
  BY <1>15 DEF ch, i, before, more

\* The character at which the call is has been typed.
LEMMA CharacterEnds ==
  ASSUME IInv, NEW c \in Clients, Send(c, TRUE), ~call[c].lossy,
         call[c].event = Len(Events(Current(c)))
  PROVE  typed'[c] = Spelled(call[c].text)[call[c].char]
<1>1. DEFINE ch == Current(c)
             text == call[c].text
             n == call[c].char
<1>2. /\ ch \in Chars /\ ch = text[n] /\ n \in 1..Len(text) /\ n \in 0..Len(text)
      /\ call[c].event \in DOMAIN Events(ch)
  <2>1. Typing(c) /\ CallTyped(c) /\ Len(text) \in Nat
    BY TextTyped DEF IInv, Typed, Send, Typing
  <2>2. n \in 1..Len(text)
    BY <2>1 DEF CallTyped, Typing
  <2>3. QED
    BY <2>1, <2>2, TextTyped DEF IInv, CallTyped, Current
<1>3. Sent(ch, call[c].event + 1) = Len(Units[ch])
  BY <1>2, SentBounds
<1>4. SubSeq(Units[ch], 1, Len(Units[ch])) = Units[ch]
  BY <1>2, UnitsTyped, SubSeqFull
<1>5. Spelled(text)[n] = Spelled(text)[n - 1] \o Units[text[n]]
  BY <1>2, AskedTyped DEF IInv, Spells
<1>6. typed'[c] = Spelled(text)[n - 1] \o SubSeq(Units[ch], 1, Sent(ch, call[c].event + 1))
  BY TypedSoFar
<1>7. QED
  BY <1>2, <1>3, <1>4, <1>5, <1>6

\* What the events of a character are does not change during a call.
LEMMA SameEvents ==
  ASSUME UNCHANGED unicode
  PROVE  \A ch, i : /\ HeldMods(ch, i)' = HeldMods(ch, i) /\ HeldKey(ch, i)' = HeldKey(ch, i)
                    /\ Lifted(ch, i)' = Lifted(ch, i) /\ ByUnits(ch)' = ByUnits(ch)
                    /\ Sent(ch, i)' = Sent(ch, i) /\ Events(ch)' = Events(ch)
BY DEF HeldMods, HeldKey, Lifted, ByUnits, Sent, Events, UnicodeEvents, AsciiEvents

\* The keys that are down after event i of the character at which the call is.
LEMMA KeysSoFar ==
  ASSUME IInv, NEW c \in Clients, Send(c, TRUE)
  PROVE  LET ch == Current(c)
             i == call[c].event IN
         /\ down' \subseteq Keys
         /\ \A j \in 1..call[c].char - 1 :
              ~ByUnits(call[c].text[j]) /\ KeyOf[call[c].text[j]] \in down'
                => KeyOf[call[c].text[j]] \in HeldKey(ch, i + 1)
         /\ Lifted(ch, i + 1) /\ ~ByUnits(ch) => KeyOf[ch] \notin down'
<1>1. DEFINE ch == Current(c)
             i == call[c].event
<1>2. /\ ch \in Chars /\ i \in DOMAIN Events(ch) /\ Arrives(Events(ch)[i]) /\ down \subseteq Keys
      /\ \A j \in 1..call[c].char - 1 : call[c].text[j] \in Chars
  <2>1. Typing(c) /\ CallTyped(c) /\ Len(call[c].text) \in Nat /\ Arrives(Events(ch)[i])
    BY TextTyped DEF IInv, Typed, Send, Typing, Current
  <2>2. call[c].char \in 1..Len(call[c].text)
    BY <2>1 DEF CallTyped, Typing
  <2>3. QED
    BY <2>1, <2>2, TextTyped DEF IInv, Typed, CallTyped, Current
<1>3. KeysClear(c) /\ call[c].at = "typing"
  BY DEF IInv, Send
<1>4. /\ \A j \in 1..call[c].char - 1 :
           ~ByUnits(call[c].text[j]) /\ KeyOf[call[c].text[j]] \in down
             => KeyOf[call[c].text[j]] \in HeldKey(ch, i)
      /\ Lifted(ch, i) /\ ~ByUnits(ch) => KeyOf[ch] \notin down
  BY <1>3 DEF KeysClear, Send, Typing
<1>5. HIDE DEF ch, i
<1>6. /\ down' \subseteq Keys
      /\ \A key : key \notin Range(Modifiers) /\ key \in down' =>
           key \in HeldKey(ch, i + 1) \/ (key \in down /\ key \notin HeldKey(ch, i))
      /\ (Lifted(ch, i + 1) /\ ~ByUnits(ch) => KeyOf[ch] \notin down')
  BY <1>2, <1>4, EventKeys
<1>7. ASSUME NEW j \in 1..call[c].char - 1,
             ~ByUnits(call[c].text[j]), KeyOf[call[c].text[j]] \in down'
      PROVE  KeyOf[call[c].text[j]] \in HeldKey(ch, i + 1)
  <2>1. KeyOf[call[c].text[j]] \notin Range(Modifiers)
    <3>1. call[c].text[j] \in Chars /\ KeyOf[call[c].text[j]] # NoKey
      BY <1>2, <1>7 DEF ByUnits
    <3>2. QED
      BY <3>1, KeyFacts
  <2>2. QED
    BY <1>4, <1>6, <1>7, <2>1
<1>8. QED
  BY <1>6, <1>7 DEF ch, i

LEMMA SendCall ==
  ASSUME IInv, NEW c \in Clients, Send(c, TRUE)
  PROVE  IInv'
<1>1. DEFINE ch == Current(c)
             i == call[c].event
             n == call[c].char
             text == call[c].text
             last == i = Len(Events(ch))
             x == [call[c] EXCEPT !.event = IF last THEN 1 ELSE i + 1,
                                  !.char = IF last THEN n + 1 ELSE n]
             units == typed[c] \o Effect(Events(ch)[i])
<1>2. /\ call[c] \in Calls /\ CallTyped(c) /\ call[c].at = "typing" /\ inputMu = c /\ Typing(c)
      /\ typed \in [Clients -> Seq(AllUnits \cup {NoUnit})]
      /\ inputMu # NoClient
  BY NoneAssumption DEF IInv, Typed, Turns, Send, Typing, Inside
<1>3. /\ ch \in Chars /\ ch = text[n] /\ n \in 1..Len(text) /\ Len(text) \in Nat
      /\ i \in DOMAIN Events(ch) /\ i \in 1..Len(Events(ch)) /\ Len(Events(ch)) \in Nat
      /\ \A j \in 1..Len(text) : text[j] \in Chars
  <2>1. n \in 1..Len(text) /\ Len(text) \in Nat
    BY <1>2, TextTyped DEF IInv, CallTyped, Typing
  <2>2. ch \in Chars /\ ch = text[n] /\ \A j \in 1..Len(text) : text[j] \in Chars
    BY <2>1, TextTyped DEF IInv, Current
  <2>3. i \in DOMAIN Events(ch)
    BY <1>2 DEF CallTyped
  <2>4. QED
    BY <2>1, <2>2, <2>3, EventsAre
<1>4. /\ call' = [call EXCEPT ![c] = x] /\ typed' = [typed EXCEPT ![c] = units]
      /\ UNCHANGED <<unicode, inputMu>>
      /\ call \in [Clients -> Calls] /\ Arrives(Events(ch)[i])
  <2>1. Arrives(Events(ch)[i]) /\ UNCHANGED <<unicode, inputMu>>
    BY DEF Send, Current
  <2>2. call' = [call EXCEPT ![c] = x] /\ call \in [Clients -> Calls]
    BY DEF Send, Current, IInv, Typed
  <2>3. QED
    BY <1>2, <2>1, <2>2 DEF Arrives
<1>5. units \in Seq(AllUnits \cup {NoUnit})
  <2>1. typed[c] \in Seq(AllUnits \cup {NoUnit}) /\ Effect(Events(ch)[i]) \in Seq(AllUnits \cup {NoUnit})
    BY <1>2, <1>3, EffectTyped
  <2>2. QED
    BY <2>1, ConcatProperties
<1>6. /\ x \in Calls /\ x.text = text /\ x.at = "typing" /\ x.lossy = call[c].lossy
      /\ last => x.char = n + 1 /\ x.event = 1
      /\ ~last => x.char = n /\ x.event = i + 1
  <2>1. i + 1 \in Nat \ {0} /\ n \in Nat \ {0} /\ n + 1 \in Nat \ {0}
    BY <1>3
  <2>2. call[c] \in Calls /\ call[c].at = "typing"
    BY <1>2
  <2>3. HIDE DEF last
  <2>4. CASE last
    <3>1. x = [call[c] EXCEPT !.event = 1, !.char = n + 1] /\ 1 \in Nat \ {0}
      BY <2>4
    <3>2. HIDE DEF x
    <3>3. x = [at |-> "typing", text |-> text, char |-> n + 1, event |-> 1, lossy |-> call[c].lossy]
      BY <2>2, <3>1 DEF Calls
    <3>4. QED
      BY <2>1, <2>2, <2>4, <3>1, <3>3 DEF Calls
  <2>5. CASE ~last
    <3>1. x = [call[c] EXCEPT !.event = i + 1, !.char = n]
      BY <2>5
    <3>2. HIDE DEF x
    <3>3. x = [at |-> "typing", text |-> text, char |-> n, event |-> i + 1, lossy |-> call[c].lossy]
      BY <2>2, <3>1 DEF Calls
    <3>4. QED
      BY <2>1, <2>2, <2>5, <3>1, <3>3 DEF Calls
  <2>6. QED
    BY <2>4, <2>5
<1>7. call'[c] = x /\ typed'[c] = units
  BY <1>2, <1>4
<1>8. ~call[c].lossy => down' \cap Range(Modifiers) = HeldMods(ch, i + 1)
                        /\ (last => HeldMods(ch, i + 1) = {})
  <2>1. HAVE ~call[c].lossy
  <2>2. down \cap Range(Modifiers) = HeldMods(ch, i)
    BY <1>2, <2>1 DEF IInv, ModsClear
  <2>3. QED
    BY <1>3, <1>4, <2>2, EventMods
<1>9. /\ down' \subseteq Keys
      /\ \A j \in 1..n - 1 :
           ~ByUnits(text[j]) /\ KeyOf[text[j]] \in down' => KeyOf[text[j]] \in HeldKey(ch, i + 1)
      /\ Lifted(ch, i + 1) /\ ~ByUnits(ch) => KeyOf[ch] \notin down'
  BY KeysSoFar
<1>10. HIDE DEF x, units
<1>11. PerCall(c)'
  <2>1. CASE ~last
    <3>1. /\ call'[c].at = "typing" /\ call'[c].text = text /\ call'[c].char = n
          /\ call'[c].event = i + 1 /\ call'[c].lossy = call[c].lossy
      BY <1>6, <1>7, <2>1
    <3>2. Typing(c)' /\ Current(c)' = ch /\ i + 1 \in DOMAIN Events(ch)
      <4>1. i + 1 \in 1..Len(Events(ch))
        BY <1>3, <2>1
      <4>2. QED
        BY <1>2, <1>3, <3>1, <4>1, EventsAre DEF Typing, Current
    <3>3. HIDE DEF ch, i, n, text
    <3>4. CallTyped(c)'
      BY <1>3, <1>4, <3>1, <3>2, SameEvents DEF CallTyped
    <3>5. ModsClear(c)'
      BY <1>4, <1>8, <3>1, <3>2, SameEvents DEF ModsClear
    <3>6. KeysClear(c)'
      BY <1>4, <1>9, <3>1, <3>2, SameEvents DEF KeysClear
    <3>7. Spelling(c)'
      <4>1. ~call[c].lossy => typed'[c] = Spelled(text)[n - 1] \o SubSeq(Units[ch], 1, Sent(ch, i + 1))
        BY TypedSoFar DEF ch, i, n, text
      <4>2. QED
        BY <1>4, <3>1, <3>2, <4>1, SameEvents DEF Spelling
    <3>8. QED
      BY <3>4, <3>5, <3>6, <3>7 DEF PerCall
  <2>2. CASE last
    <3>1. /\ call'[c].at = "typing" /\ call'[c].text = text /\ call'[c].char = n + 1
          /\ call'[c].event = 1 /\ call'[c].lossy = call[c].lossy
          /\ call'[c].char - 1 = n
      BY <1>3, <1>6, <1>7, <2>2
    <3>2. Typing(c)' => Current(c)' \in Chars
      BY <1>3, <3>1 DEF Typing, Current
    <3>3. Typing(c)' => /\ HeldMods(Current(c)', 1) = {} /\ HeldKey(Current(c)', 1) = {}
                        /\ ~(Lifted(Current(c)', 1) /\ ~ByUnits(Current(c)'))
                        /\ Sent(Current(c)', 1) = 0 /\ SubSeq(Units[Current(c)'], 1, 0) = <<>>
                        /\ 1 \in DOMAIN Events(Current(c)')
      BY <3>2, CharacterBegins
    <3>4. HeldKey(ch, i + 1) = {} /\ Lifted(ch, i + 1)
      BY <1>3, <1>4, <2>2, EventKeys DEF IInv, Typed
    <3>5. CallTyped(c)'
      <4>1. n + 1 \in 1..Len(text) + 1
        BY <1>3
      <4>2. HIDE DEF ch, i, n, text
      <4>3. QED
        BY <1>4, <3>1, <3>3, <4>1, SameEvents DEF CallTyped
    <3>6. ModsClear(c)'
      <4>1. HIDE DEF ch, i, n, text
      <4>2. QED
        BY <1>4, <1>8, <2>2, <3>1, <3>3, SameEvents DEF ModsClear
    <3>7. KeysClear(c)'
      <4>1. \A j \in 1..n : ~ByUnits(text[j]) => KeyOf[text[j]] \notin down'
        <5>1. TAKE j \in 1..n
        <5>2. CASE j = n
          BY <1>3, <1>9, <3>4, <5>2
        <5>3. CASE j # n
          <6>1. j \in 1..n - 1
            BY <1>3, <5>3
          <6>2. QED
            BY <1>9, <3>4, <6>1
        <5>4. QED
          BY <5>2, <5>3
      <4>2. HIDE DEF ch, i, n, text
      <4>3. QED
        BY <1>4, <3>1, <3>3, <4>1, SameEvents DEF KeysClear
    <3>8. Spelling(c)'
      <4>1. SUFFICES ASSUME ~call[c].lossy
                     PROVE  typed'[c] = Spelled(text)[n]
                              \o (IF Typing(c)'
                                  THEN SubSeq(Units[Current(c)'], 1, Sent(Current(c)', 1))
                                  ELSE <<>>)
        <5>1. HIDE DEF ch, i, n, text
        <5>2. QED
          BY <1>4, <3>1, SameEvents DEF Spelling
      <4>2. typed'[c] = Spelled(text)[n]
        BY <2>2, <4>1, CharacterEnds
      <4>3. typed'[c] \in Seq(AllUnits)
        BY <4>1, TypedSoFar
      <4>4. typed'[c] = typed'[c] \o <<>>
        BY <4>3, ConcatEmptySeq
      <4>5. QED
        BY <3>3, <4>2, <4>4
    <3>9. QED
      BY <3>5, <3>6, <3>7, <3>8 DEF PerCall
  <2>3. QED
    BY <2>1, <2>2
<1>12. x.at \in Inside <=> inputMu' = c
  BY <1>2, <1>4, <1>6 DEF Inside
<1>13. QED
  BY <1>2, <1>4, <1>5, <1>6, <1>9, <1>11, <1>12, CallStep

LEMMA StutterCall ==
  ASSUME IInv, UNCHANGED vars
  PROVE  IInv'
<1>1. Typed'
  BY DEF vars, IInv, Typed, CallTyped, Typing, Current, Events, UnicodeEvents, AsciiEvents
<1>2. Turns'
  BY DEF vars, IInv, Turns
<1>3. \A c \in Clients : ModsClear(c)'
  BY DEF vars, IInv, ModsClear, Typing, Current, HeldMods, ByUnits
<1>4. \A c \in Clients : KeysClear(c)'
  BY DEF vars, IInv, KeysClear, Typing, Current, HeldKey, Lifted, ByUnits
<1>5. \A c \in Clients : Spelling(c)'
  BY DEF vars, IInv, Spelling, Typing, Current, Sent, ByUnits, Asked
<1>6. QED
  BY <1>1, <1>2, <1>3, <1>4, <1>5 DEF IInv

LEMMA NextInv == IInv /\ [Next]_vars => IInv'
<1>1. SUFFICES ASSUME IInv, [Next]_vars PROVE IInv'
  OBVIOUS
<1>2. ASSUME NEW c \in Clients, NEW text \in Texts, Call(c, text) PROVE IInv'
  BY <1>1, <1>2, CallCall
<1>3. ASSUME NEW c \in Clients, Lock(c) PROVE IInv'
  BY <1>1, <1>3, LockCall
<1>4. ASSUME NEW c \in Clients, NEW accepted \in BOOLEAN, NEW resets \in BOOLEAN,
             Sync(c, accepted, resets)
      PROVE  IInv'
  <2>1. CASE accepted
    BY <1>1, <1>4, <2>1, SyncCall
  <2>2. CASE ~accepted
    BY <1>1, <1>4, <2>2, GiveUpCall DEF Sync, Inside
  <2>3. QED
    BY <2>1, <2>2
<1>5. ASSUME NEW c \in Clients, NEW accepted \in BOOLEAN, Release(c, accepted) PROVE IInv'
  BY <1>1, <1>5, ReleaseCall
<1>6. ASSUME NEW c \in Clients, NEW accepted \in BOOLEAN, Send(c, accepted) PROVE IInv'
  <2>1. CASE accepted
    BY <1>1, <1>6, <2>1, SendCall
  <2>2. CASE ~accepted
    BY <1>1, <1>6, <2>2, GiveUpCall DEF Send, Inside
  <2>3. QED
    BY <2>1, <2>2
<1>7. ASSUME NEW c \in Clients, Return(c) PROVE IInv'
  BY <1>1, <1>7, ReturnCall
<1>8. ASSUME NEW key \in Keys, SendKey(Down(key)) \/ SendKey(Up(key)) PROVE IInv'
  BY <1>1, <1>8, SendKeyCall
<1>9. CASE UNCHANGED vars
  BY <1>1, <1>9, StutterCall
<1>10. QED
  BY <1>1, <1>2, <1>3, <1>4, <1>5, <1>6, <1>7, <1>8, <1>9 DEF Next

\* TextInductive: in every state the calls stand as the events they have sent
\* leave them (client.go, 246-414).
THEOREM TextInductive == Spec => []IInv
<1>1. QED
  BY InitInv, NextInv, PTL DEF Spec

LEMMA TypedImpliesTypeOK == IInv => TypeOK
<1>1. SUFFICES ASSUME IInv PROVE TypeOK
  OBVIOUS
<1>2. \A c \in Clients : call[c] \in Calls /\ CallTyped(c)
  BY <1>1 DEF IInv, Typed
<1>3. ASSUME NEW c \in Clients
      PROVE  /\ call[c].at \in {"idle", "waiting", "sync", "focus", "release", "typing", "ok", "error"}
             /\ call[c].text \in Texts \cup {<<>>} /\ call[c].lossy \in BOOLEAN
  BY <1>2 DEF Calls
<1>4. \A c \in Clients : typed[c] \in Seq(AllUnits \cup {NoUnit})
  BY <1>1 DEF IInv, Typed
<1>5. ASSUME NEW c \in Clients
      PROVE  /\ call[c].char \in 1..(Len(call[c].text) + 1)
             /\ call[c].at = "release" => call[c].event \in DOMAIN Modifiers
             /\ call[c].at = "typing" /\ call[c].char <= Len(call[c].text)
                  => call[c].event \in DOMAIN Events(call[c].text[call[c].char])
  BY <1>2 DEF CallTyped, Typing, Current
<1>6. unicode \in BOOLEAN /\ inputMu \in Clients \cup {NoClient} /\ down \subseteq Keys
  BY <1>1 DEF IInv, Typed
<1>7. QED
  BY <1>3, <1>4, <1>5, <1>6 DEF TypeOK

\* TextTypes: the variables of the TypeText calls have their types: the event
\* that a call comes to is one of its character's (client.go, 246-414).
THEOREM TextTypes == Spec => []TypeOK
<1>1. QED
  BY TextInductive, TypedImpliesTypeOK, PTL

LEMMA SpellingImpliesAsAsked == IInv => TypedAsAsked
<1>1. SUFFICES ASSUME IInv, NEW c \in Clients, ~call[c].lossy
               PROVE  /\ IsPrefix(typed[c], Asked(c))
                      /\ call[c].at = "ok" => typed[c] = Asked(c)
  BY DEF TypedAsAsked
<1>2. call[c] \in Calls /\ CallTyped(c) /\ Spelling(c)
  BY <1>1 DEF IInv, Typed
<1>3. CASE call[c].at = "typing"
  BY <1>1, <1>3, SoFar
<1>4. CASE call[c].at \in {"ok", "error"}
  BY <1>1, <1>2, <1>4 DEF Spelling
<1>5. CASE call[c].at \notin {"typing", "ok", "error"}
  BY <1>1, <1>2, <1>5, AskedTyped DEF CallTyped, IInv
<1>6. QED
  BY <1>3, <1>4, <1>5

\* TextTypedAsAsked: whatever other requests do with the keyboard, and
\* whichever event is refused, what a TypeText types is the text that was
\* asked for or a beginning of it, if the modifiers that were down could be
\* let go of (client.go, 246-414).
THEOREM TextTypedAsAsked == Spec => []TypedAsAsked
<1>1. QED
  BY TextInductive, SpellingImpliesAsAsked, PTL

------------------------------------------------------------------------------
(* The end of a call *)

\* Only Return ends a call well.
LEMMA OnlyReturnSucceeds ==
  ASSUME IInv, [Next]_vars, NEW c \in Clients, call[c].at # "ok", call'[c].at = "ok"
  PROVE  Return(c)
<1>1. call \in [Clients -> Calls]
  BY DEF IInv, Typed
<1>2. ASSUME NEW d \in Clients, NEW text \in Texts, Call(d, text) PROVE FALSE
  BY <1>1, <1>2 DEF Call, Calls
<1>3. ASSUME NEW d \in Clients, Lock(d) PROVE FALSE
  BY <1>1, <1>3 DEF Lock, Set, Calls
<1>4. ASSUME NEW d \in Clients, NEW accepted \in BOOLEAN, NEW resets \in BOOLEAN,
             Sync(d, accepted, resets)
      PROVE  FALSE
  BY <1>1, <1>4 DEF Sync, GiveUp, Set, Calls
<1>5. ASSUME NEW d \in Clients, NEW accepted \in BOOLEAN, Release(d, accepted) PROVE FALSE
  <2> DEFINE last == call[d].event = Len(Modifiers)
             lost == ~accepted /\ Modifiers[call[d].event] \in down
  <2>1. /\ call[d].at = "release"
        /\ call' = [call EXCEPT ![d].at = IF last THEN "typing" ELSE @,
                                ![d].event = IF last THEN 1 ELSE @ + 1,
                                ![d].lossy = @ \/ lost]
    BY <1>5 DEF Release
  <2> HIDE DEF last, lost
  <2>2. call'[d].at = (IF last THEN "typing" ELSE call[d].at)
    BY <1>1, <2>1 DEF Calls
  <2>3. \A e \in Clients \ {d} : call'[e] = call[e]
    BY <1>1, <2>1
  <2>4. CASE c = d
    BY <2>1, <2>2, <2>4
  <2>5. CASE c # d
    BY <2>3, <2>5
  <2>6. QED
    BY <2>4, <2>5
<1>6. ASSUME NEW d \in Clients, NEW accepted \in BOOLEAN, Send(d, accepted) PROVE FALSE
  <2>1. CASE accepted
    <3>1. \E char, event : call' = [call EXCEPT ![d].event = event, ![d].char = char]
      BY <1>6, <2>1, Zenon DEF Send
    <3>2. call'[c].at = call[c].at
      BY <1>1, <3>1 DEF Calls
    <3>3. QED
      BY <3>2
  <2>2. CASE ~accepted
    <3>1. call' = [call EXCEPT ![d].at = "error"]
      BY <1>6, <2>2, Zenon DEF Send, GiveUp, Set
    <3>2. call'[c].at \in {call[c].at, "error"}
      BY <1>1, <3>1 DEF Calls
    <3>3. QED
      BY <3>2
  <2>3. QED
    BY <2>1, <2>2
<1>7. ASSUME NEW d \in Clients, Return(d) PROVE d = c
  BY <1>1, <1>7 DEF Return, Set, Calls
<1>8. ASSUME NEW key \in Keys, SendKey(Down(key)) \/ SendKey(Up(key)) PROVE FALSE
  BY <1>8 DEF SendKey
<1>9. CASE UNCHANGED vars
  BY <1>9 DEF vars
<1>10. QED
  BY <1>2, <1>3, <1>4, <1>5, <1>6, <1>7, <1>8, <1>9 DEF Next

\* A key that a character presses is a modifier or the character's own.
LEMMA PressedKeys ==
  ASSUME IInv, NEW c \in Clients, NEW key \in Pressed(c)
  PROVE  \/ key \in Range(Modifiers)
         \/ \E j \in 1..Len(call[c].text) : ~ByUnits(call[c].text[j]) /\ key = KeyOf[call[c].text[j]]
<1>1. PICK ch \in Range(call[c].text) :
        \E event \in Range(Events(ch)) : key = event.key /\ key # NoKey
  BY DEF Pressed
<1>2. PICK j \in 1..Len(call[c].text) : ch = call[c].text[j] /\ ch \in Chars
  <2>1. call[c].text \in Seq(Chars)
    BY TextTyped DEF IInv
  <2>2. PICK j \in DOMAIN call[c].text : ch = call[c].text[j]
    BY <1>1 DEF Range
  <2>3. QED
    BY <2>1, <2>2, LenProperties, ElementOfSeq
<1>3. PICK i \in DOMAIN Events(ch) : key = Events(ch)[i].key /\ key # NoKey
  BY <1>1 DEF Range
<1>4. CASE ByUnits(ch)
  <2>1. \E u : Events(ch)[i] = Unit(u) \/ Events(ch)[i] = UnitUp(u)
    BY <1>2, <1>3, <1>4, EventCases
  <2>2. QED
    <3>1. PICK u : Events(ch)[i] = Unit(u) \/ Events(ch)[i] = UnitUp(u)
      BY <2>1
    <3>2. Unit(u).key = NoKey /\ UnitUp(u).key = NoKey
      BY EventFields
    <3>3. Events(ch)[i].key = NoKey
      BY <3>1, <3>2
    <3>4. QED
      BY <1>3, <3>3
<1>5. CASE ~ByUnits(ch)
  <2>1. \E k \in {Shift, KeyOf[ch]} : Events(ch)[i] = Down(k) \/ Events(ch)[i] = Up(k)
    BY <1>2, <1>3, <1>5, EventCases
  <2>2. key \in {Shift, KeyOf[ch]}
    BY <1>3, <2>1, EventFields
  <2>3. QED
    BY <1>2, <1>5, <2>2, ShiftAssumption
<1>6. QED
  BY <1>4, <1>5

\* TextLeavesNothingDown: a TypeText that succeeds has let go of every modifier
\* and of every key it has pressed (client.go, 332-391).
THEOREM TextLeavesNothingDown == Spec => LeavesNothingDown
<1>1. ASSUME IInv, [Next]_vars, NEW c \in Clients,
             call[c].at # "ok", call'[c].at = "ok", ~call[c].lossy
      PROVE  down' \cap (Range(Modifiers) \cup Pressed(c)) = {}
  <2>1. Return(c)
    BY <1>1, OnlyReturnSucceeds
  <2>2. call[c].at = "typing" /\ call[c].char > Len(call[c].text) /\ UNCHANGED down
    BY <2>1 DEF Return
  <2>3. /\ call[c].char \in 1..Len(call[c].text) + 1 /\ Len(call[c].text) \in Nat
        /\ ModsClear(c) /\ KeysClear(c)
    BY <1>1, TextTyped DEF IInv, Typed, CallTyped
  <2>4. ~Typing(c) /\ call[c].char - 1 = Len(call[c].text)
    BY <2>2, <2>3 DEF Typing
  <2>5. down \cap Range(Modifiers) = {}
    BY <1>1, <2>2, <2>3, <2>4 DEF ModsClear
  <2>6. \A j \in 1..Len(call[c].text) : ~ByUnits(call[c].text[j]) => KeyOf[call[c].text[j]] \notin down
    BY <2>2, <2>3, <2>4 DEF KeysClear
  <2>7. ASSUME NEW key \in Pressed(c) PROVE key \notin down \/ key \in Range(Modifiers)
    BY <1>1, <2>6, <2>7, PressedKeys
  <2>8. QED
    BY <2>2, <2>5, <2>7
<1>2. IInv /\ [Next]_vars
        => [\A c \in Clients : call[c].at # "ok" /\ call'[c].at = "ok" /\ ~call[c].lossy
              => down' \cap (Range(Modifiers) \cup Pressed(c)) = {}]_vars
  BY <1>1
<1>3. QED
  BY <1>2, TextInductive, PTL DEF Spec, LeavesNothingDown

==============================================================================
