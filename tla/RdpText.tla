-------------------------------- MODULE RdpText --------------------------------
(***************************************************************************)
(* Text typed into an RDP session (src/internal/freerdp/client.go,         *)
(* 246-414): TypeText holds inputMu while it synchronises the keyboard,    *)
(* lets go of every modifier and sends the events of one character after   *)
(* the other; single key events of other requests take inputMu for an      *)
(* event each.                                                             *)
(*                                                                         *)
(* Any event may be refused, because the session is not active or sending  *)
(* fails: TypeText gives up in the middle of a character, except that the  *)
(* modifiers' releases at its beginning are not looked at.                 *)
(*                                                                         *)
(* The remote desktop is external: it knows which keys are down, and a key *)
(* that goes down types the character its key and modifiers stand for.  A  *)
(* synchronise event may or may not reset its keys.                        *)
(***************************************************************************)
EXTENDS Integers, SequencesExt

CONSTANTS
  Clients,    \* TypeText calls
  Texts,      \* texts they may type
  Chars,      \* characters
  KeyOf,      \* the key of each ASCII character, NoKey of the others
  Shifted,    \* the characters that need Shift
  Breaks,     \* line breaks and tabs: keys in both modes
  Units,      \* the UTF-16 code units of each character
  Modifiers,  \* the eight modifiers, in the order they are released
  Shift,      \* LSHIFT, one of them
  NoKey, NoUnit, NoClient

Keys == ({KeyOf[ch] : ch \in Chars} \ {NoKey}) \cup Range(Modifiers)

ASSUME TextAssumption == Texts \subseteq Seq(Chars) \ {<<>>} /\ Shifted \cup Breaks \subseteq Chars
ASSUME ShiftAssumption == Shift \in Range(Modifiers)
\* A key types one ASCII character with Shift and one without, and is no
\* modifier (the two line breaks are one character here); ASCII characters
\* have one unit, and no character has none.
ASSUME KeyAssumption ==
  /\ \A ch \in Chars :
       KeyOf[ch] # NoKey => KeyOf[ch] \notin Range(Modifiers) /\ Len(Units[ch]) = 1
  /\ \A a, b \in Chars :
       KeyOf[a] = KeyOf[b] /\ KeyOf[a] # NoKey /\ (a \in Shifted <=> b \in Shifted) => a = b
ASSUME UnitAssumption ==
  \A ch \in Chars : Units[ch] \in Seq(Range(Units[ch])) \ {<<>>}
ASSUME NoneAssumption ==
  /\ Modifiers \in Seq(Range(Modifiers)) /\ NoKey \notin Range(Modifiers)
  /\ NoClient \notin Clients

VARIABLES
  unicode, \* the server takes Unicode events
  inputMu, \* who holds it
  down,    \* keys that are down, remotely
  call,    \* each TypeText call: where it stands, its text, the character
           \* and the event it comes to, and whether the release of a
           \* modifier that was down has been refused
  typed    \* history: the units that have arrived during each call

vars == <<unicode, inputMu, down, call, typed>>

------------------------------------------------------------------------------
(* The remote desktop *)

Down(key) == [type |-> "down", key |-> key, unit |-> NoUnit]
Up(key)   == [type |-> "up", key |-> key, unit |-> NoUnit]
Unit(u)   == [type |-> "unit", key |-> NoKey, unit |-> u]
UnitUp(u) == [type |-> "unit up", key |-> NoKey, unit |-> u]

\* What a key types together with the modifiers that are down.
Glyph(key) ==
  LET mods == down \cap Range(Modifiers)
      fits == {ch \in Chars : KeyOf[ch] = key /\ mods = (IF ch \in Shifted THEN {Shift} ELSE {})}
  IN IF fits = {} THEN NoUnit ELSE Units[CHOOSE ch \in fits : TRUE][1]

\* What an event types: text that arrives while a modifier is down is lost.
Effect(event) ==
  CASE event.type = "down" /\ event.key \notin Range(Modifiers) -> <<Glyph(event.key)>>
    [] event.type = "unit" ->
         <<IF down \cap Range(Modifiers) = {} THEN event.unit ELSE NoUnit>>
    [] OTHER -> <<>>

\* An event arrives.  What it types counts for the call that holds inputMu.
Arrives(event) ==
  /\ down' = CASE event.type = "down" -> down \cup {event.key}
               [] event.type = "up" -> down \ {event.key}
               [] OTHER -> down
  /\ typed' = IF inputMu = NoClient THEN typed
              ELSE [typed EXCEPT ![inputMu] = @ \o Effect(event)]

------------------------------------------------------------------------------
(* The events of a character *)

\* Fault: Shift stays down.
AsciiEventsHeld(ch) ==
  IF ch \in Shifted
  THEN <<Down(Shift), Down(KeyOf[ch]), Up(KeyOf[ch])>>
  ELSE <<Down(KeyOf[ch]), Up(KeyOf[ch])>>

\* sendASCIIKeyLocked, sendNamedKeyLocked
AsciiEvents(ch) ==
  IF ch \in Shifted
  THEN <<Down(Shift), Down(KeyOf[ch]), Up(KeyOf[ch]), Up(Shift)>>
  ELSE <<Down(KeyOf[ch]), Up(KeyOf[ch])>>

\* sendRuneUnicodeLocked
UnicodeEvents(ch) ==
  [j \in 1..2 * Len(Units[ch]) |->
     IF j % 2 = 1 THEN Unit(Units[ch][(j + 1) \div 2]) ELSE UnitUp(Units[ch][j \div 2])]

Events(ch) ==
  IF (unicode /\ ch \notin Breaks) \/ KeyOf[ch] = NoKey
  THEN UnicodeEvents(ch)
  ELSE AsciiEvents(ch)

------------------------------------------------------------------------------
(* TypeText *)

Set(c, at) == call' = [call EXCEPT ![c].at = at]

Call(c, text) ==
  /\ call[c].at = "idle"
  /\ call' = [call EXCEPT ![c].at = "waiting", ![c].text = text]
  /\ UNCHANGED <<unicode, inputMu, down, typed>>

Lock(c) ==
  /\ call[c].at = "waiting"
  /\ inputMu = NoClient
  /\ inputMu' = c
  /\ Set(c, "sync")
  /\ UNCHANGED <<unicode, down, typed>>

\* An error ends the call, and the deferred Unlock runs.
GiveUp(c) ==
  /\ Set(c, "error")
  /\ inputMu' = NoClient
  /\ UNCHANGED <<unicode, down, typed>>

\* syncKeyboardStateLocked: the synchronise event, then the focus event.
Sync(c, accepted, resets) ==
  /\ call[c].at \in {"sync", "focus"}
  /\ IF accepted
     THEN /\ Set(c, IF call[c].at = "sync" THEN "focus" ELSE "release")
          /\ down' = IF resets THEN {} ELSE down
          /\ UNCHANGED <<unicode, inputMu, typed>>
     ELSE GiveUp(c)

\* releaseModifiersLocked: one after the other, refused or not.
Release(c, accepted) ==
  LET key == Modifiers[call[c].event]
      last == call[c].event = Len(Modifiers) IN
  /\ call[c].at = "release"
  /\ call' = [call EXCEPT ![c].at = IF last THEN "typing" ELSE @,
                          ![c].event = IF last THEN 1 ELSE @ + 1,
                          ![c].lossy = @ \/ (~accepted /\ key \in down)]
  /\ IF accepted THEN Arrives(Up(key)) ELSE UNCHANGED <<down, typed>>
  /\ UNCHANGED <<unicode, inputMu>>

\* Fault: the next character begins where this one ended.
SendOn(c, accepted) ==
  LET events == Events(call[c].text[call[c].char])
      last == call[c].event = Len(events) IN
  /\ call[c].at = "typing"
  /\ call[c].char <= Len(call[c].text)
  /\ IF accepted
     THEN /\ Arrives(events[call[c].event])
          /\ call' = [call EXCEPT ![c].event = @ + 1,
                                  ![c].char = IF last THEN @ + 1 ELSE @]
          /\ UNCHANGED <<unicode, inputMu>>
     ELSE GiveUp(c)

\* The next event of the character that is typed.
Send(c, accepted) ==
  LET events == Events(call[c].text[call[c].char])
      last == call[c].event = Len(events) IN
  /\ call[c].at = "typing"
  /\ call[c].char <= Len(call[c].text)
  /\ IF accepted
     THEN /\ Arrives(events[call[c].event])
          /\ call' = [call EXCEPT ![c].event = IF last THEN 1 ELSE @ + 1,
                                  ![c].char = IF last THEN @ + 1 ELSE @]
          /\ UNCHANGED <<unicode, inputMu>>
     ELSE GiveUp(c)

Return(c) ==
  /\ call[c].at = "typing"
  /\ call[c].char > Len(call[c].text)
  /\ Set(c, "ok")
  /\ inputMu' = NoClient
  /\ UNCHANGED <<unicode, down, typed>>

\* Fault: inputMu is not taken.
SendKeyUnlocked(event) ==
  /\ Arrives(event)
  /\ UNCHANGED <<unicode, inputMu, call>>

\* SendKey and SendKeyScancode, of another request: one event with inputMu
\* held.
SendKey(event) ==
  /\ inputMu = NoClient
  /\ Arrives(event)
  /\ UNCHANGED <<unicode, inputMu, call>>

------------------------------------------------------------------------------
Init ==
  /\ unicode \in BOOLEAN
  /\ inputMu = NoClient
  /\ down = {}
  /\ call = [c \in Clients |->
       [at |-> "idle", text |-> <<>>, char |-> 1, event |-> 1, lossy |-> FALSE]]
  /\ typed = [c \in Clients |-> <<>>]

Next ==
  \/ \E c \in Clients :
       \/ Lock(c) \/ Return(c)
       \/ \E text \in Texts : Call(c, text)
       \/ \E accepted \in BOOLEAN :
            Release(c, accepted) \/ Send(c, accepted)
            \/ \E resets \in BOOLEAN : Sync(c, accepted, resets)
  \/ \E key \in Keys : SendKey(Down(key)) \/ SendKey(Up(key))

Spec == Init /\ [][Next]_vars

------------------------------------------------------------------------------
(* Properties *)

AllUnits == UNION {Range(Units[ch]) : ch \in Chars}

\* The values the variables take.
TypeOK ==
  /\ unicode \in BOOLEAN
  /\ inputMu \in Clients \cup {NoClient}
  /\ down \subseteq Keys
  /\ \A c \in Clients :
       /\ call[c].at \in {"idle", "waiting", "sync", "focus", "release", "typing", "ok", "error"}
       /\ call[c].text \in Texts \cup {<<>>}
       /\ call[c].char \in 1..(Len(call[c].text) + 1)
       /\ call[c].lossy \in BOOLEAN
       /\ call[c].at = "release" => call[c].event \in DOMAIN Modifiers
       /\ call[c].at = "typing" /\ call[c].char <= Len(call[c].text)
            => call[c].event \in DOMAIN Events(call[c].text[call[c].char])
       /\ typed[c] \in Seq(AllUnits \cup {NoUnit})

\* The units of the first n characters of a text, for each n.
Spelled(text) ==
  LET units[n \in 0..Len(text)] ==
        IF n = 0 THEN <<>> ELSE units[n - 1] \o Units[text[n]]
  IN units

\* The units of the text that was asked for.
Asked(c) == Spelled(call[c].text)[Len(call[c].text)]

\* TypedAsAsked: what arrives during a TypeText is the text that was asked
\* for, or its beginning if the call has failed or is not through, whatever
\* modifiers other requests hold and whatever an earlier call that failed
\* half-way has left down; unless the desktop refused to let go of a
\* modifier, which the code ignores (client.go, 278-391).
TypedAsAsked ==
  \A c \in Clients : ~call[c].lossy =>
    /\ IsPrefix(typed[c], Asked(c))
    /\ call[c].at = "ok" => typed[c] = Asked(c)

\* The keys that typing the text presses.
Pressed(c) ==
  {event.key : event \in UNION {Range(Events(ch)) : ch \in Range(call[c].text)}} \ {NoKey}

\* LeavesNothingDown: a TypeText that succeeds leaves no modifier down, nor
\* any key of its text (client.go, 332-391).
LeavesNothingDown ==
  [][\A c \in Clients :
       call[c].at # "ok" /\ call'[c].at = "ok" /\ ~call[c].lossy
         => down' \cap (Range(Modifiers) \cup Pressed(c)) = {}]_vars

==============================================================================
