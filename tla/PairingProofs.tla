---------------------------- MODULE PairingProofs ----------------------------
(***************************************************************************)
(* What is stored as the token of a device is one its own TV handed out,   *)
(* as a whole (TokensAreWhole).  The reason is that a TV names tokens in   *)
(* one way only: behind a mark, in two halves, before a quote (Good), and  *)
(* that what is taken for the text of a frame is a part of what it sends   *)
(* without a gap (Reads), wherever the upgrade left off.  That part then   *)
(* has the closing quote of a token and all of the token, or there is no   *)
(* token in it.                                                            *)
(*                                                                         *)
(* Then that the state is of its type, for which an opcode in what a TV    *)
(* sends stands before a bounded length (Framed), and that every action is *)
(* tried: what has been executed is the plan up to the scenario in hand    *)
(* and that scenario up to the action in hand (Progress).                  *)
(***************************************************************************)
EXTENDS Pairing, Integers, TLAPS

Kind ==
    {"opcode", "length", "extended", "mask", "event", "mark", "first", "rest", "quote"}

Word ==
    {"text", "ping", "close", "token", "ms.channel.connect", "ms.channel.unauthorized",
     "ed.edenTV.update", "status"}

UnitValue ==
    Token \cup Word \cup {1, 2} \cup [length : Nat, extended : BOOLEAN, masked : BOOLEAN]

UnitType == [kind : Kind, value : UnitValue]

\* A text that names a token of the set wherever it has a mark.
NamesWhole(text, tokens) ==
    \A k \in DOMAIN text :
        text[k].kind = "mark" =>
            /\ k + 3 \in DOMAIN text
            /\ \E t \in tokens : /\ text[k + 1] = Unit("first", t)
                                 /\ text[k + 2] = Unit("rest", t)
            /\ text[k + 3].kind = "quote"

Good(text, tokens) == text \in Seq(UnitType) /\ NamesWhole(text, tokens)

-----------------------------------------------------------------------------
(* Texts.                                                                  *)

LEMMA GrowingTokens ==
    ASSUME NEW text, NEW tokens, NEW more, tokens \subseteq more, Good(text, tokens)
    PROVE  Good(text, more)
  BY DEF Good, NamesWhole

LEMMA EmptyIsGood == ASSUME NEW tokens PROVE Good(<<>>, tokens)
  BY DEF Good, NamesWhole

LEMMA PlainIsGood ==
    ASSUME NEW tokens, NEW unit \in UnitType, unit.kind # "mark"
    PROVE  Good(<<unit>>, tokens)
  BY DEF Good, NamesWhole

LEMMA PlainPairIsGood ==
    ASSUME NEW tokens, NEW u \in UnitType, NEW w \in UnitType,
           u.kind # "mark", w.kind # "mark"
    PROVE  Good(<<u, w>>, tokens)
  BY DEF Good, NamesWhole

LEMMA MarksAreFollowed ==
    ASSUME NEW tokens, NEW text, Good(text, tokens),
           NEW k \in 1 .. Len(text), text[k].kind = "mark"
    PROVE  /\ k + 1 \in 1 .. Len(text) /\ k + 2 \in 1 .. Len(text)
           /\ k + 3 \in 1 .. Len(text)
           /\ \E t \in tokens : /\ text[k + 1] = Unit("first", t)
                                /\ text[k + 2] = Unit("rest", t)
           /\ text[k + 3].kind = "quote"
<1>1. DOMAIN text = 1 .. Len(text) /\ Len(text) \in Nat
  BY DEF Good
<1>2. /\ k + 3 \in 1 .. Len(text)
      /\ \E t \in tokens : /\ text[k + 1] = Unit("first", t)
                           /\ text[k + 2] = Unit("rest", t)
      /\ text[k + 3].kind = "quote"
  BY <1>1 DEF Good, NamesWhole
<1>3. k + 1 \in 1 .. Len(text) /\ k + 2 \in 1 .. Len(text)
  BY <1>1, <1>2
<1>. QED
  BY <1>2, <1>3

LEMMA JoinedIsGood ==
    ASSUME NEW tokens, NEW s, NEW u, Good(s, tokens), Good(u, tokens)
    PROVE  Good(s \o u, tokens)
<1>1. /\ s \in Seq(UnitType) /\ u \in Seq(UnitType)
      /\ s \o u \in Seq(UnitType)
      /\ Len(s \o u) = Len(s) + Len(u)
      /\ \A k \in 1 .. Len(s) : (s \o u)[k] = s[k]
      /\ \A k \in 1 .. Len(u) : (s \o u)[Len(s) + k] = u[k]
  BY DEF Good
<1>2. SUFFICES ASSUME NEW k \in DOMAIN (s \o u), (s \o u)[k].kind = "mark"
               PROVE  /\ k + 3 \in DOMAIN (s \o u)
                      /\ \E t \in tokens : /\ (s \o u)[k + 1] = Unit("first", t)
                                           /\ (s \o u)[k + 2] = Unit("rest", t)
                      /\ (s \o u)[k + 3].kind = "quote"
  BY <1>1 DEF Good, NamesWhole
<1>3. k \in 1 .. Len(s) + Len(u) /\ Len(s) \in Nat /\ Len(u) \in Nat
  BY <1>1, <1>2
<1>4. CASE k \in 1 .. Len(s)
  <2>1. s[k].kind = "mark"
    BY <1>1, <1>2, <1>4
  <2>2. /\ k + 3 \in 1 .. Len(s)
        /\ \E t \in tokens : s[k + 1] = Unit("first", t) /\ s[k + 2] = Unit("rest", t)
        /\ s[k + 3].kind = "quote"
    BY <1>1, <1>4, <2>1 DEF Good, NamesWhole
  <2>3. k + 1 \in 1 .. Len(s) /\ k + 2 \in 1 .. Len(s) /\ k + 3 \in DOMAIN (s \o u)
    BY <1>1, <1>3, <1>4, <2>2
  <2>. QED
    BY <1>1, <2>2, <2>3
<1>5. CASE k \notin 1 .. Len(s)
  <2>1. PICK j \in 1 .. Len(u) : k = Len(s) + j
    <3>1. k - Len(s) \in 1 .. Len(u) /\ k = Len(s) + (k - Len(s))
      BY <1>3, <1>5
    <3>. QED
      BY <3>1
  <2>2. u[j].kind = "mark"
    BY <1>1, <1>2, <2>1
  <2>3. /\ j + 1 \in 1 .. Len(u) /\ j + 2 \in 1 .. Len(u) /\ j + 3 \in 1 .. Len(u)
        /\ \E t \in tokens : u[j + 1] = Unit("first", t) /\ u[j + 2] = Unit("rest", t)
        /\ u[j + 3].kind = "quote"
    BY <2>2, MarksAreFollowed
  <2>4. /\ k + 1 = Len(s) + (j + 1) /\ k + 2 = Len(s) + (j + 2)
        /\ k + 3 = Len(s) + (j + 3)
    BY <1>3, <2>1, <2>3
  <2>6. k + 3 \in DOMAIN (s \o u)
    <3>1. k + 3 \in 1 .. Len(s) + Len(u)
      BY <1>3, <2>1, <2>3, <2>4
    <3>. QED
      BY <1>1, <3>1
  <2>5. /\ (s \o u)[k + 1] = u[j + 1] /\ (s \o u)[k + 2] = u[j + 2]
        /\ (s \o u)[k + 3] = u[j + 3]
    <3>1. /\ (s \o u)[Len(s) + (j + 1)] = u[j + 1]
          /\ (s \o u)[Len(s) + (j + 2)] = u[j + 2]
          /\ (s \o u)[Len(s) + (j + 3)] = u[j + 3]
      BY <1>1, <2>3
    <3>. QED
      BY <2>4, <3>1
  <2>. QED
    BY <2>3, <2>5, <2>6
<1>. QED
  BY <1>4, <1>5

LEMMA UnitIsTyped ==
    ASSUME NEW kind \in Kind, NEW value \in UnitValue
    PROVE  Unit(kind, value) \in UnitType
  BY DEF Unit, UnitType

LEMMA WordsAreTyped ==
    ASSUME NEW kind \in Kind, NEW value, value \in Word \/ value \in Token
    PROVE  Unit(kind, value) \in UnitType
<1>1. value \in UnitValue
  BY DEF UnitValue
<1>. QED
  BY <1>1, UnitIsTyped

LEMMA EventIsGood ==
    ASSUME NEW tokens, NEW name \in Word
    PROVE  Good(Event(name), tokens) /\ Len(Event(name)) = 1
<1>1. "event" \in Kind
  BY DEF Kind
<1>2. Unit("event", name) \in UnitType
  BY <1>1, WordsAreTyped
<1>3. Unit("event", name).kind # "mark"
  BY DEF Unit
<1>. QED
  BY <1>2, <1>3, PlainIsGood DEF Event

LEMMA AnnouncementIsGood ==
    ASSUME NEW tokens \in SUBSET Token, NEW t \in tokens
    PROVE  Good(Announcement(t), tokens)
<1> DEFINE m == Unit("mark", "token")
           f == Unit("first", t)
           r == Unit("rest", t)
           q == Unit("quote", "token")
<1>1. m.kind = "mark" /\ f.kind = "first" /\ r.kind = "rest" /\ q.kind = "quote"
  BY DEF Unit
<1>2. f = Unit("first", t) /\ r = Unit("rest", t)
  OBVIOUS
<1>3. Announcement(t) = Event("ms.channel.connect") \o <<m, f, r, q>>
  BY DEF Announcement, Event, Text
<1>4. m \in UnitType /\ f \in UnitType /\ r \in UnitType /\ q \in UnitType
  <2>1. /\ "mark" \in Kind /\ "first" \in Kind /\ "rest" \in Kind /\ "quote" \in Kind
        /\ "token" \in Word
    BY DEF Kind, Word
  <2>. QED
    BY <2>1, WordsAreTyped
<1> HIDE DEF m, f, r, q
<1>5. <<m, f, r, q>> \in Seq(UnitType)
  BY <1>4
<1>6. NamesWhole(<<m, f, r, q>>, tokens)
  BY <1>1, <1>2 DEF NamesWhole
<1>7. Good(<<m, f, r, q>>, tokens)
  BY <1>5, <1>6 DEF Good
<1>8. Good(Event("ms.channel.connect"), tokens)
  BY EventIsGood DEF Word
<1>. QED
  BY <1>3, <1>7, <1>8, JoinedIsGood

LEMMA HeaderIsGood ==
    ASSUME NEW tokens, NEW length \in Nat, NEW extended \in BOOLEAN, NEW masked \in BOOLEAN
    PROVE  Good(Header(length, extended, masked), tokens)
<1> DEFINE value == [length |-> length, extended |-> extended, masked |-> masked]
           first == <<Unit("length", value)>>
           second == IF extended THEN <<Unit("extended", 1), Unit("extended", 2)>> ELSE <<>>
           third == IF masked THEN <<Unit("mask", 1), Unit("mask", 2)>> ELSE <<>>
<1>1. "length" \in Kind /\ "extended" \in Kind /\ "mask" \in Kind
  BY DEF Kind
<1>2. value \in UnitValue /\ 1 \in UnitValue /\ 2 \in UnitValue
  BY DEF UnitValue
<1>3. \A v : /\ Unit("length", v).kind # "mark" /\ Unit("extended", v).kind # "mark"
             /\ Unit("mask", v).kind # "mark"
  BY DEF Unit
<1> HIDE DEF value
<1>4. Good(first, tokens)
  BY <1>1, <1>2, <1>3, UnitIsTyped, PlainIsGood
<1>5. Good(second, tokens)
  <2>1. CASE extended
    BY <1>1, <1>2, <1>3, <2>1, UnitIsTyped, PlainPairIsGood
  <2>. QED
    BY <2>1, EmptyIsGood
<1>6. Good(third, tokens)
  <2>1. CASE masked
    BY <1>1, <1>2, <1>3, <2>1, UnitIsTyped, PlainPairIsGood
  <2>. QED
    BY <2>1, EmptyIsGood
<1>7. Header(length, extended, masked) = first \o second \o third
  BY DEF Header, value
<1> HIDE DEF first, second, third
<1>8. Good(first \o second, tokens)
  BY <1>4, <1>5, JoinedIsGood
<1>. QED
  BY <1>6, <1>7, <1>8, JoinedIsGood

LEMMA FrameIsGood ==
    ASSUME NEW tokens, NEW opcode \in {"text", "ping", "close"},
           NEW text, Good(text, tokens),
           NEW extended \in BOOLEAN, NEW masked \in BOOLEAN
    PROVE  Good(Frame(opcode, text, extended, masked), tokens)
<1>1. Good(<<Unit("opcode", opcode)>>, tokens)
  <2>1. "opcode" \in Kind /\ opcode \in Word
    BY DEF Kind, Word
  <2>2. Unit("opcode", opcode) \in UnitType
    BY <2>1, WordsAreTyped
  <2>3. Unit("opcode", opcode).kind # "mark"
    BY DEF Unit
  <2>. QED
    BY <2>2, <2>3, PlainIsGood
<1>2. Len(text) \in Nat
  BY DEF Good
<1>3. Good(Header(Len(text), extended, masked), tokens)
  BY <1>2, HeaderIsGood
<1>4. Good(<<Unit("opcode", opcode)>> \o Header(Len(text), extended, masked), tokens)
  BY <1>1, <1>3, JoinedIsGood
<1>. QED
  BY <1>4, JoinedIsGood DEF Frame

\* Whatever frames an event comes in.
LEMMA RepliesAreGood ==
    ASSUME NEW tokens, NEW text, Good(text, tokens), NEW reply \in Replies(text) \cup {<<>>}
    PROVE  Good(reply, tokens)
<1>1. /\ "ed.edenTV.update" \in Word /\ "status" \in Word
      /\ "text" \in {"text", "ping", "close"} /\ "ping" \in {"text", "ping", "close"}
      /\ "close" \in {"text", "ping", "close"} /\ TRUE \in BOOLEAN /\ FALSE \in BOOLEAN
  BY DEF Word
<1>2. Good(Event("ed.edenTV.update"), tokens) /\ Good(Event("status"), tokens)
  BY <1>1, EventIsGood
<1>3. /\ \A extended, masked \in BOOLEAN :
            Good(Frame("text", text, extended, masked), tokens)
      /\ Good(Frame("text", Event("ed.edenTV.update"), FALSE, FALSE), tokens)
      /\ Good(Frame("ping", <<>>, FALSE, FALSE), tokens)
      /\ Good(Frame("close", Event("status"), FALSE, FALSE), tokens)
  BY <1>1, <1>2, EmptyIsGood, FrameIsGood
<1>4. /\ Good(Frame("text", text, TRUE, FALSE)
                 \o Frame("text", Event("ed.edenTV.update"), FALSE, FALSE), tokens)
      /\ Good(Frame("ping", <<>>, FALSE, FALSE) \o Frame("text", text, TRUE, FALSE), tokens)
  BY <1>1, <1>3, JoinedIsGood
<1> DEFINE alone == {Frame("text", text, extended, masked) : extended, masked \in BOOLEAN}
           two == Frame("text", text, TRUE, FALSE)
                    \o Frame("text", Event("ed.edenTV.update"), FALSE, FALSE)
           pinged == Frame("ping", <<>>, FALSE, FALSE) \o Frame("text", text, TRUE, FALSE)
           closing == Frame("close", Event("status"), FALSE, FALSE)
<1>5. Replies(text) = alone \cup {two, pinged, closing}
  BY DEF Replies
<1>6. Good(two, tokens) /\ Good(pinged, tokens) /\ Good(closing, tokens)
  BY <1>3, <1>4
<1>7. \A r \in alone : Good(r, tokens)
  BY <1>3
<1> HIDE DEF alone, two, pinged, closing
<1>. QED
  BY <1>5, <1>6, <1>7, EmptyIsGood

LEMMA PairOf ==
    ASSUME NEW S, NEW s \in Seq(S), NEW a \in 1 .. Len(s), a + 1 \in 1 .. Len(s)
    PROVE  SubSeq(s, a, a + 1) = <<s[a], s[a + 1]>>
<1> DEFINE u == SubSeq(s, a, a + 1)
<1>1. u \in Seq(S) /\ Len(u) = 2 /\ u[1] = s[a] /\ u[2] = s[a + 1]
  OBVIOUS
<1> HIDE DEF u
<1>2. u = <<s[a], s[a + 1]>>
  BY <1>1
<1>. QED
  BY <1>2 DEF u

LEMMA FirstIs ==
    ASSUME NEW places, NEW k \in Int, k \in places, \A i \in places : i \in Int /\ k <= i
    PROVE  First(places) = {k}
<1>1. ASSUME NEW i \in First(places) PROVE i = k
  <2>1. i \in places /\ i <= k
    BY <1>1 DEF First
  <2>. QED
    BY <2>1
<1>2. k \in First(places)
  BY DEF First
<1>. QED
  BY <1>1, <1>2

LEMMA OneToken ==
    ASSUME NEW text, NEW k, NEW j,
           First(Places(text, "mark", 1)) = {k}, First(Places(text, "quote", k)) = {j}
    PROVE  Tokens(text) = {SubSeq(text, k + 1, j - 1)}
<1>1. Tokens(text) = UNION {{SubSeq(text, i + 1, h - 1) :
                                h \in First(Places(text, "quote", i))} : i \in {k}}
  BY DEF Tokens
<1>2. {{SubSeq(text, i + 1, h - 1) : h \in First(Places(text, "quote", i))} : i \in {k}}
        = {{SubSeq(text, k + 1, h - 1) : h \in First(Places(text, "quote", k))}}
  OBVIOUS
<1>3. {SubSeq(text, k + 1, h - 1) : h \in First(Places(text, "quote", k))}
        = {SubSeq(text, k + 1, j - 1)}
  OBVIOUS
<1>. QED
  BY <1>1, <1>2, <1>3

\* A part of a good text has a token in it that can be stored if, and only if,
\* one came whole, and it is that one.
LEMMA PartsNameTokens ==
    ASSUME NEW tokens, NEW text, Good(text, tokens),
           NEW first \in 1 .. Len(text) + 1, NEW last \in first - 1 .. Len(text)
    PROVE  LET part == SubSeq(text, first, last)
           IN \/ Tokens(part) = {} /\ LearntFrom(part) = {}
              \/ \E t \in tokens : Tokens(part) = {Text(t)} /\ LearntFrom(part) = {t}
<1> DEFINE part == SubSeq(text, first, last)
<1>1. /\ text \in Seq(UnitType) /\ Len(text) \in Nat
      /\ part \in Seq(UnitType)
      /\ Len(part) = last - first + 1 /\ Len(part) \in Nat
      /\ \A k \in 1 .. Len(part) :
            first + k - 1 \in 1 .. Len(text) /\ part[k] = text[first + k - 1]
  BY DEF Good
<1> HIDE DEF part
<1>2. CASE First(Places(part, "mark", 1)) = {}
  BY <1>2 DEF Tokens, LearntFrom, part
<1>3. ASSUME NEW k \in First(Places(part, "mark", 1))
      PROVE  \/ Tokens(part) = {} /\ LearntFrom(part) = {}
             \/ \E t \in tokens : Tokens(part) = {Text(t)} /\ LearntFrom(part) = {t}
  <2>1. DOMAIN part = 1 .. Len(part)
    BY <1>1
  <2>2. /\ k \in 1 .. Len(part) /\ part[k].kind = "mark"
        /\ \A i \in 1 .. Len(part) : i >= 1 /\ part[i].kind = "mark" => k <= i
    BY <1>3, <2>1 DEF First, Places
  <2>3. First(Places(part, "mark", 1)) = {k}
    <3>1. /\ k \in Places(part, "mark", 1) /\ k \in Int
          /\ \A i \in Places(part, "mark", 1) : i \in Int /\ k <= i
      BY <2>1, <2>2 DEF Places
    <3>. QED
      BY <3>1, FirstIs
  <2>4. PICK m \in 1 .. Len(text) : m = first + k - 1 /\ part[k] = text[m]
    BY <1>1, <2>2
  <2>5. PICK t \in tokens :
           /\ m + 1 \in 1 .. Len(text) /\ m + 2 \in 1 .. Len(text)
           /\ m + 3 \in 1 .. Len(text)
           /\ text[m + 1] = Unit("first", t) /\ text[m + 2] = Unit("rest", t)
           /\ text[m + 3].kind = "quote"
    <3>1. text[m].kind = "mark"
      BY <2>2, <2>4
    <3>. QED
      BY <3>1, MarksAreFollowed
  <2>6. /\ first \in Int /\ k \in Int
        /\ \A i \in 1 .. 3 : k + i \in 1 .. Len(part) => part[k + i] = text[m + i]
    <3>1. first \in Int /\ k \in Int
      BY <1>1, <2>2
    <3>2. ASSUME NEW i \in 1 .. 3, k + i \in 1 .. Len(part) PROVE part[k + i] = text[m + i]
      <4>1. first + (k + i) - 1 = m + i
        BY <2>4, <3>1
      <4>2. part[k + i] = text[first + (k + i) - 1]
        BY <1>1, <3>2
      <4>. QED
        BY <4>1, <4>2
    <3>. QED
      BY <3>1, <3>2
  <2>7. \A i \in Places(part, "quote", k) : k + 3 <= i
    <3>1. SUFFICES ASSUME NEW i \in 1 .. Len(part), i >= k, part[i].kind = "quote"
                   PROVE  k + 3 <= i
      BY <2>1 DEF Places
    <3>2. i # k
      BY <2>2, <3>1
    <3>3. ASSUME i = k + 1 PROVE FALSE
      <4>1. part[k + 1] = text[m + 1]
        BY <2>6, <3>3
      <4>2. part[k + 1].kind = "first"
        BY <2>5, <4>1 DEF Unit
      <4>. QED
        BY <3>1, <3>3, <4>2
    <3>4. ASSUME i = k + 2 PROVE FALSE
      <4>1. part[k + 2] = text[m + 2]
        BY <2>6, <3>4
      <4>2. part[k + 2].kind = "rest"
        BY <2>5, <4>1 DEF Unit
      <4>. QED
        BY <3>1, <3>4, <4>2
    <3>5. k \in Int /\ i \in Int /\ i >= k
      BY <2>6, <3>1
    <3>. QED
      BY <3>2, <3>3, <3>4, <3>5
  <2>8. CASE k + 3 \in 1 .. Len(part)
    <3>1. part[k + 3].kind = "quote"
      <4>1. part[k + 3] = text[m + 3]
        BY <2>6, <2>8
      <4>. QED
        BY <2>5, <4>1
    <3>2. First(Places(part, "quote", k)) = {k + 3}
      <4>1. k + 3 \in Places(part, "quote", k)
        BY <2>1, <2>6, <2>8, <3>1 DEF Places
      <4>2. \A i \in Places(part, "quote", k) : i \in Int
        BY <2>1 DEF Places
      <4>. QED
        BY <2>6, <2>7, <4>1, <4>2, FirstIs
    <3>3. k + 1 \in 1 .. Len(part) /\ (k + 1) + 1 \in 1 .. Len(part)
      BY <1>1, <2>2, <2>6, <2>8
    <3>4. part[k + 1] = Unit("first", t) /\ part[k + 2] = Unit("rest", t)
      BY <2>5, <2>6, <3>3
    <3>5. SubSeq(part, k + 1, (k + 3) - 1) = Text(t)
      <4>1. (k + 3) - 1 = (k + 1) + 1 /\ k + 2 = (k + 1) + 1
        BY <2>6
      <4>2. SubSeq(part, k + 1, (k + 1) + 1) = <<part[k + 1], part[(k + 1) + 1]>>
        BY <1>1, <3>3, PairOf
      <4>. QED
        BY <3>4, <4>1, <4>2 DEF Text
    <3>6. Tokens(part) = {Text(t)}
      <4>1. Tokens(part) = {SubSeq(part, k + 1, (k + 3) - 1)}
        BY <2>3, <3>2, OneToken
      <4>. QED
        BY <3>5, <4>1
    <3>7. LearntFrom(part) = {t}
      <4>1. part[k + 1].value = t
        BY <3>4 DEF Unit
      <4>2. k + 3 <= Len(part)
        BY <2>8
      <4>. QED
        BY <2>3, <4>1, <4>2 DEF LearntFrom
    <3>. QED
      BY <3>6, <3>7
  <2>9. CASE k + 3 \notin 1 .. Len(part)
    <3>1. ~ (k + 3 <= Len(part))
      BY <1>1, <2>2, <2>6, <2>9
    <3>2. Places(part, "quote", k) = {}
      <4>1. \A i \in Places(part, "quote", k) : i \in 1 .. Len(part)
        BY <2>1 DEF Places
      <4>. QED
        BY <1>1, <2>6, <2>7, <3>1, <4>1
    <3>3. Tokens(part) = {}
      BY <2>3, <3>2 DEF Tokens, First
    <3>4. LearntFrom(part) = {}
      BY <2>3, <3>1 DEF LearntFrom
    <3>. QED
      BY <3>3, <3>4
  <2>. QED
    BY <2>8, <2>9
<1>. QED
  BY <1>2, <1>3 DEF part

-----------------------------------------------------------------------------
(* The invariant.                                                          *)

\* Between two connections nothing is sent and nothing read.
Between == {"scenario", "execute", "handshake", "done"}

\* The frame in hand begins where its header ended, behind what was sent.
Reads ==
    /\ at \in 1 .. Len(sent) + 1
    /\ DOMAIN frame = DOMAIN NoFrame
    /\ frame.start \in 1 .. at
    /\ phase \in Between => sent = <<>> /\ at = 1

IInv ==
    /\ target \in Id
    /\ issued \in [Id -> SUBSET Token]
    /\ credentials \in [Id -> {<<>>} \cup {Text(t) : t \in Token}]
    /\ Reads
    /\ Good(sent, issued[target])
    /\ TokensAreWhole

\* A TV honours tokens of its own.
Granted ==
    /\ granted \in [Id -> SUBSET Token]
    /\ \A id \in Id : granted[id] \subseteq issued[id]

LEMMA InitHolds == Init => IInv /\ Granted
<1> SUFFICES ASSUME Init PROVE IInv /\ Granted
  OBVIOUS
<1>1. target \in Id /\ issued \in [Id -> SUBSET Token]
  BY DEF Init
<1>2. /\ credentials \in [Id -> {<<>>} \cup {Text(t) : t \in Token}]
      /\ TokensAreWhole
  BY DEF Init, TokensAreWhole
<1>3. Reads
  BY DEF Init, Reads, NoFrame
<1>4. Good(sent, issued[target])
  BY EmptyIsGood DEF Init
<1>5. Granted
  BY DEF Init, Granted
<1>. QED
  BY <1>1, <1>2, <1>3, <1>4, <1>5 DEF IInv

-----------------------------------------------------------------------------
(* Steps that store nothing.                                               *)

LEMMA ReturnFacts ==
    ASSUME NEW status, Return(status)
    PROVE  /\ sent' = <<>> /\ at' = 1 /\ frame' = NoFrame
           /\ target' = target
           /\ phase' \in Between
  BY DEF Return, NextScenario, Between

LEMMA ReturnKeeps ==
    ASSUME IInv, NEW status, Return(status), UNCHANGED <<credentials, issued>>
    PROVE  IInv'
<1>1. /\ sent' = <<>> /\ at' = 1 /\ frame' = NoFrame /\ target' = target
  BY ReturnFacts
<1>2. Reads'
  BY <1>1 DEF Reads, NoFrame
<1>3. Good(sent', issued'[target'])
  BY <1>1, EmptyIsGood
<1>. QED
  BY <1>1, <1>2, <1>3 DEF IInv, TokensAreWhole

LEMMA RunScenarioKeeps == ASSUME IInv, RunScenario PROVE IInv'
<1>1. UNCHANGED <<sent, at, frame, credentials, issued>> /\ sent = <<>> /\ at = 1
  BY DEF RunScenario, connection, tv, IInv, Reads, Between
<1>2. target' \in Id
  <2>1. CASE NextScenario
    BY <2>1 DEF NextScenario, IInv
  <2>2. CASE \E k \in Capable(Scenarios[scenario].capability) : target' = Devices[k]
    BY <2>2, PairingAssumption DEF Capable, First
  <2>. QED
    BY <2>1, <2>2 DEF RunScenario
<1>3. Reads'
  BY <1>1 DEF IInv, Reads
<1>4. Good(sent', issued'[target'])
  BY <1>1, EmptyIsGood
<1>. QED
  BY <1>1, <1>2, <1>3, <1>4 DEF IInv, TokensAreWhole

LEMMA DoneKeeps == ASSUME IInv, Done PROVE IInv'
<1>1. /\ UNCHANGED <<target, sent, at, frame, credentials, issued>>
      /\ phase \in Between
  BY DEF Done, validator, connection, tv, Between
<1>2. Reads'
  BY <1>1 DEF IInv, Reads
<1>. QED
  BY <1>1, <1>2 DEF IInv, TokensAreWhole

LEMMA ExecuteKeeps == ASSUME IInv, Execute PROVE IInv'
<1>1. UNCHANGED <<credentials, issued>>
  BY DEF Execute, tv
<1>2. \/ \E status : Return(status)
      \/ UNCHANGED <<target, sent, at, frame>>
  BY DEF Execute, validator
<1>3. CASE \E status : Return(status)
  BY <1>1, <1>3, ReturnKeeps
<1>4. CASE UNCHANGED <<target, sent, at, frame>>
  <2>1. phase \in Between
    BY DEF Execute, Between
  <2>2. Reads'
    BY <1>4, <2>1 DEF IInv, Reads
  <2>. QED
    BY <1>1, <1>4, <2>2 DEF IInv, TokensAreWhole
<1>. QED
  BY <1>2, <1>3, <1>4

LEMMA GivesUpKeeps ==
    ASSUME IInv, HandshakeFails \/ ReceiveFails \/ NoHeader \/ NoMemory
    PROVE  IInv'
<1>1. /\ UNCHANGED <<credentials, issued>>
      /\ \E status : Return(status)
  BY DEF HandshakeFails, ReceiveFails, NoHeader, NoMemory, tv
<1>. QED
  BY <1>1, ReturnKeeps

-----------------------------------------------------------------------------
(* The TV.                                                                 *)

\* What a TV sends names only tokens of its own.
LEMMA AnsweredKeeps ==
    ASSUME IInv, phase = "handshake", Upgraded,
           NEW text, Good(text, issued'[target]), Answers(text),
           issued' \in [Id -> SUBSET Token],
           \A id \in Id : issued[id] \subseteq issued'[id]
    PROVE  IInv'
<1>1. /\ UNCHANGED <<target, frame, credentials>>
      /\ phase' = "header" /\ at' \in 1 .. Len(sent') + 1
  BY DEF Upgraded, validator
<1>2. Good(sent', issued'[target])
  BY RepliesAreGood DEF Answers
<1>3. Reads'
  <2>1. at = 1 /\ Len(sent') \in Nat /\ phase' \notin Between
    BY <1>1, <1>2 DEF IInv, Reads, Between, Good
  <2>2. frame.start \in 1 .. at'
    BY <1>1, <2>1 DEF IInv, Reads
  <2>. QED
    BY <1>1, <2>1, <2>2 DEF IInv, Reads
<1>4. TokensAreWhole'
  BY <1>1 DEF IInv, TokensAreWhole
<1>. QED
  BY <1>1, <1>2, <1>3, <1>4 DEF IInv

LEMMA RecognizesKeeps ==
    ASSUME IInv, Granted, Recognizes PROVE IInv'
<1>1. phase = "handshake" /\ Upgraded /\ UNCHANGED issued
  BY DEF Recognizes, tv
<1>2. PICK token \in granted[target] :
         Answers(Event("ms.channel.connect")) \/ Answers(Announcement(token))
  BY DEF Recognizes
<1>3. Good(Event("ms.channel.connect"), issued'[target])
  BY EventIsGood DEF Word
<1>4. Good(Announcement(token), issued'[target])
  <2>1. issued[target] \in SUBSET Token /\ token \in issued[target]
    BY <1>2 DEF IInv, Granted
  <2>. QED
    BY <1>1, <2>1, AnnouncementIsGood
<1>5. /\ issued' \in [Id -> SUBSET Token]
      /\ \A id \in Id : issued[id] \subseteq issued'[id]
  BY <1>1 DEF IInv
<1>. QED
  BY <1>1, <1>2, <1>3, <1>4, <1>5, AnsweredKeeps

LEMMA UserAllowsKeeps == ASSUME IInv, UserAllows PROVE IInv'
<1>1. PICK token \in Token :
         /\ issued' = [issued EXCEPT ![target] = @ \cup {token}]
         /\ Answers(Announcement(token))
  BY DEF UserAllows
<1>2. /\ issued' \in [Id -> SUBSET Token]
      /\ \A id \in Id : issued[id] \subseteq issued'[id]
      /\ target \in Id /\ token \in issued'[target]
  BY <1>1 DEF IInv
<1>3. Good(Announcement(token), issued'[target])
  BY <1>2, AnnouncementIsGood
<1>4. phase = "handshake" /\ Upgraded
  BY DEF UserAllows
<1>. QED
  BY <1>1, <1>2, <1>3, <1>4, AnsweredKeeps

LEMMA UserDeniesKeeps == ASSUME IInv, UserDenies PROVE IInv'
<1>1. phase = "handshake" /\ Upgraded /\ Answers(<<Refusal>>) /\ UNCHANGED issued
  BY DEF UserDenies
<1>2. Good(<<Refusal>>, issued'[target])
  <2>1. "event" \in Kind /\ "ms.channel.unauthorized" \in Word
    BY DEF Kind, Word
  <2>2. Refusal \in UnitType
    BY <2>1, WordsAreTyped DEF Refusal
  <2>3. Refusal.kind # "mark"
    BY DEF Refusal, Unit
  <2>. QED
    BY <2>2, <2>3, PlainIsGood
<1>3. /\ issued' \in [Id -> SUBSET Token]
      /\ \A id \in Id : issued[id] \subseteq issued'[id]
  BY <1>1 DEF IInv
<1>. QED
  BY <1>1, <1>2, <1>3, AnsweredKeeps

-----------------------------------------------------------------------------
(* The reading of a frame.                                                 *)

LEMMA ReadingKeeps ==
    ASSUME IInv, Reading, Reads'
    PROVE  IInv'
  BY DEF Reading, validator, tv, IInv, TokensAreWhole

LEMMA PiecesFit ==
    ASSUME Reads, NEW wanted, NEW n \in Pieces(wanted), sent \in Seq(UnitType)
    PROVE  n \in Nat /\ at + n \in 1 .. Len(sent) + 1
<1>1. n \in Nat /\ at + n <= Len(sent) + 1
  BY DEF Pieces
<1>2. at \in Nat /\ at >= 1 /\ Len(sent) \in Nat
  BY DEF Reads
<1>. QED
  BY <1>1, <1>2

LEMMA ReadHeaderKeeps == ASSUME IInv, ReadHeader PROVE IInv'
<1>1. /\ at' = at + 2 /\ UNCHANGED sent
      /\ frame'.start = at + 2 /\ DOMAIN frame' = DOMAIN NoFrame
      /\ phase' \notin Between
  BY DEF ReadHeader, Reading, NoFrame, Then, Between
<1>2. at + 2 \in 1 .. Len(sent) + 1
  BY PiecesFit DEF ReadHeader, IInv, Good
<1>3. Reads'
  BY <1>1, <1>2 DEF Reads
<1>. QED
  BY <1>3, ReadingKeeps DEF ReadHeader

LEMMA ReadLengthKeeps == ASSUME IInv, ReadLength PROVE IInv'
<1>1. PICK n \in Pieces(2) :
         /\ at' = at + n
         /\ \E length : frame' = [frame EXCEPT !.length = length, !.start = at + n]
  BY DEF ReadLength
<1>2. n \in Nat /\ at + n \in 1 .. Len(sent) + 1
  BY PiecesFit DEF IInv, Good
<1>3. frame'.start = at + n /\ DOMAIN frame' = DOMAIN NoFrame
  BY <1>1 DEF IInv, Reads, NoFrame
<1>4. UNCHANGED sent /\ phase' \notin Between
  BY DEF ReadLength, Reading, Then, Between
<1>5. Reads'
  BY <1>1, <1>2, <1>3, <1>4 DEF Reads
<1>. QED
  BY <1>5, ReadingKeeps DEF ReadLength

LEMMA ReadMaskKeeps == ASSUME IInv, ReadMask PROVE IInv'
<1>1. PICK n \in Pieces(2) :
         /\ at' = at + n
         /\ \E garbled : frame' = [frame EXCEPT !.start = at + n, !.garbled = garbled]
  BY DEF ReadMask
<1>2. n \in Nat /\ at + n \in 1 .. Len(sent) + 1
  BY PiecesFit DEF IInv, Good
<1>3. frame'.start = at + n /\ DOMAIN frame' = DOMAIN NoFrame
  BY <1>1 DEF IInv, Reads, NoFrame
<1>4. UNCHANGED sent /\ phase' \notin Between
  BY DEF ReadMask, Reading, Then, Between
<1>5. Reads'
  BY <1>1, <1>2, <1>3, <1>4 DEF Reads
<1>. QED
  BY <1>5, ReadingKeeps DEF ReadMask

LEMMA ReadPayloadKeeps == ASSUME IInv, ReadPayload PROVE IInv'
<1>1. PICK n \in Pieces(frame.length - (at - frame.start)) : at' = at + n
  BY DEF ReadPayload
<1>2. n \in Nat /\ at + n \in 1 .. Len(sent) + 1
  BY PiecesFit DEF IInv, Good
<1>3. UNCHANGED <<sent, frame, phase>> /\ phase \notin Between
  BY DEF ReadPayload, Reading, Between
<1>4. frame.start \in 1 .. at + n
  BY <1>2 DEF IInv, Reads
<1>5. Reads'
  BY <1>1, <1>2, <1>3, <1>4 DEF IInv, Reads
<1>. QED
  BY <1>5, ReadingKeeps DEF ReadPayload

-----------------------------------------------------------------------------
(* The end of a frame, and what is stored of it.                           *)

\* What is stored of a text is one of the TV's tokens, as a whole, and it is
\* stored when it came whole.
Named(text) ==
    \/ Tokens(text) = {} /\ LearntFrom(text) = {}
    \/ \E t \in issued[target] : Tokens(text) = {Text(t)} /\ LearntFrom(text) = {t}

LEMMA MarklessIsNamed ==
    ASSUME NEW text, \A k \in DOMAIN text : text[k].kind # "mark"
    PROVE  Named(text)
<1>1. First(Places(text, "mark", 1)) = {}
  BY DEF First, Places
<1>. QED
  BY <1>1 DEF Tokens, LearntFrom, Named

LEMMA NoiseIsNamed == ASSUME NEW text PROVE Named(Noise(text))
<1>1. \A k \in DOMAIN Noise(text) : Noise(text)[k].kind # "mark"
  BY DEF Noise, Unit
<1>. QED
  BY <1>1, MarklessIsNamed

LEMMA PartIsNamed ==
    ASSUME IInv, NEW first \in 1 .. Len(sent) + 1, NEW last \in first - 1 .. Len(sent)
    PROVE  Named(SubSeq(sent, first, last))
<1>1. Good(sent, issued[target])
  BY DEF IInv
<1>. QED
  BY <1>1, PartsNameTokens DEF Named

\* However much of the frame came.
LEMMA FrameEndsFacts ==
    ASSUME IInv, FrameEnds PROVE \E text : Response(text) /\ Named(text)
<1> DEFINE text == SubSeq(sent, frame.start, at - 1)
<1>1. Response(Arrived)
  BY DEF FrameEnds
<1>2. CASE Arrived = <<>>
  <2>1. Named(Arrived)
    BY <1>2, MarklessIsNamed
  <2>. QED
    BY <1>1, <2>1
<1>3. CASE Arrived = Noise(text)
  BY <1>1, <1>3, NoiseIsNamed
<1>4. CASE Arrived = text
  <2>1. /\ frame.start \in 1 .. Len(sent) + 1
        /\ at - 1 \in frame.start - 1 .. Len(sent)
    BY DEF IInv, Reads, Good
  <2>2. Named(text)
    BY <2>1, PartIsNamed
  <2>. QED
    BY <1>1, <1>4, <2>2
<1>. QED
  BY <1>2, <1>3, <1>4 DEF Arrived

\* Wherever the header was looked for.
LEMMA MisreadFacts ==
    ASSUME IInv, Misread PROVE \E text : Response(text) /\ Named(text)
<1>1. PICK start \in at + Spoilt(sent[at]) .. Len(sent) + 1 :
         \E end \in start - 1 .. Len(sent) :
            LET text == SubSeq(sent, start, end)
            IN Response(text) \/ Response(Noise(<<sent[at]>> \o text))
  BY DEF Misread
<1>2. PICK end \in start - 1 .. Len(sent) :
         \/ Response(SubSeq(sent, start, end))
         \/ Response(Noise(<<sent[at]>> \o SubSeq(sent, start, end)))
  BY <1>1
<1>3. start \in 1 .. Len(sent) + 1
  <2>1. Spoilt(sent[at]) \in {1, 2}
    BY DEF Spoilt
  <2>2. at \in Nat /\ Len(sent) \in Nat
    BY DEF IInv, Reads, Good
  <2>. QED
    BY <1>1, <2>1, <2>2
<1>4. Named(SubSeq(sent, start, end))
  BY <1>2, <1>3, PartIsNamed
<1>5. Named(Noise(<<sent[at]>> \o SubSeq(sent, start, end)))
  BY NoiseIsNamed
<1>. QED
  BY <1>2, <1>4, <1>5

\* A frame that is read to its end, or misread, returns one of two statuses.
LEMMA ResponseReturns ==
    ASSUME Misread \/ FrameEnds
    PROVE  /\ phase \in {"header", "payload"}
           /\ UNCHANGED <<tv, executed>>
           /\ \E status \in {"Success", "AuthenticationRequired"} : Return(status)
<1>1. phase \in {"header", "payload"} /\ \E text : Response(text)
  BY DEF Misread, FrameEnds
<1>2. PICK text : Response(text)
  BY <1>1
<1>3. \/ Return("AuthenticationRequired")
      \/ Return(IF \E k \in DOMAIN text : text[k] = Refusal
                THEN "AuthenticationRequired" ELSE "Success")
  BY <1>2 DEF Response, Process
<1>. QED
  BY <1>1, <1>2, <1>3 DEF Response

LEMMA ResponseKeeps ==
    ASSUME IInv, NEW text, Response(text), Named(text)
    PROVE  IInv'
<1>1. UNCHANGED issued
  BY DEF Response, tv
<1>2. PICK status : Return(status)
  BY DEF Response, Process
<1>3. CASE UNCHANGED credentials
  BY <1>1, <1>2, <1>3, ReturnKeeps
<1>4. CASE \E value \in Tokens(text) : UpdateCredentials(target, value)
  <2>1. PICK value \in Tokens(text) :
           credentials' = [credentials EXCEPT ![target] = value]
    BY <1>4 DEF UpdateCredentials
  <2>2. PICK t \in issued[target] : value = Text(t)
    BY <2>1 DEF Named
  <2>3. t \in Token /\ target \in Id
    BY <2>2 DEF IInv
  <2>4. credentials' \in [Id -> {<<>>} \cup {Text(u) : u \in Token}]
    BY <2>1, <2>2, <2>3 DEF IInv
  <2>5. TokensAreWhole'
    BY <1>1, <2>1, <2>2, <2>3 DEF IInv, TokensAreWhole
  <2>6. /\ sent' = <<>> /\ at' = 1 /\ frame' = NoFrame /\ target' = target
    BY <1>2, ReturnFacts
  <2>7. Reads'
    BY <2>6 DEF Reads, NoFrame
  <2>8. Good(sent', issued'[target'])
    BY <2>6, EmptyIsGood
  <2>9. target' \in Id /\ issued' \in [Id -> SUBSET Token]
    BY <1>1, <2>6 DEF IInv
  <2>. QED
    BY <2>4, <2>5, <2>7, <2>8, <2>9 DEF IInv
<1>. QED
  BY <1>3, <1>4 DEF Response, Process

-----------------------------------------------------------------------------
(* Every step.                                                             *)

LEMMA RevokeKeeps == ASSUME IInv, Revoke PROVE IInv'
<1>1. UNCHANGED <<phase, target, sent, at, frame, credentials, issued>>
  BY DEF Revoke, validator, connection
<1>. QED
  BY <1>1 DEF IInv, Reads, TokensAreWhole

\* Only the TV and its user change what it honours and how often it asked.
LEMMA ProgramAndTV == ASSUME Program PROVE UNCHANGED tv
<1>1. CASE Misread \/ FrameEnds
  BY <1>1, ResponseReturns
<1>. QED
  BY <1>1 DEF Program, RunScenario, Done, Execute, HandshakeFails, ReadHeader, NoHeader,
              ReadLength, ReadMask, ReadPayload, NoMemory, Reading

LEMMA GrantedKeeps == ASSUME IInv, Granted, [Next]_vars PROVE Granted'
<1>1. CASE UserAllows
  <2>1. PICK token \in Token :
           /\ granted' = [granted EXCEPT ![target] = @ \cup {token}]
           /\ issued' = [issued EXCEPT ![target] = @ \cup {token}]
    BY <1>1 DEF UserAllows
  <2>. QED
    BY <2>1 DEF IInv, Granted
<1>2. CASE Revoke
  <2>1. PICK id \in Id : \E token : granted' = [granted EXCEPT ![id] = @ \ {token}]
    BY <1>2 DEF Revoke
  <2>2. UNCHANGED issued
    BY <1>2 DEF Revoke
  <2>. QED
    BY <2>1, <2>2 DEF Granted
<1>3. CASE UNCHANGED <<granted, issued>>
  BY <1>3 DEF Granted
<1>4. CASE Program
  <2>1. UNCHANGED tv
    BY <1>4, ProgramAndTV
  <2>. QED
    BY <1>3, <2>1 DEF tv
<1>5. CASE ReceiveFails \/ Recognizes \/ UserDenies \/ UNCHANGED vars
  BY <1>3, <1>5 DEF ReceiveFails, Recognizes, UserDenies, vars, tv
<1>. QED
  BY <1>1, <1>2, <1>4, <1>5 DEF Next

LEMMA StepKeeps == ASSUME IInv, Granted, [Next]_vars PROVE IInv'
<1>1. CASE Program
  <2>1. CASE HandshakeFails \/ NoHeader \/ NoMemory
    BY <2>1, GivesUpKeeps
  <2>2. CASE Misread \/ FrameEnds
    BY <2>2, MisreadFacts, FrameEndsFacts, ResponseKeeps
  <2>. QED
    BY <1>1, <2>1, <2>2, RunScenarioKeeps, DoneKeeps, ExecuteKeeps, ReadHeaderKeeps,
       ReadLengthKeeps, ReadMaskKeeps, ReadPayloadKeeps DEF Program
<1>2. CASE ReceiveFails
  BY <1>2, GivesUpKeeps
<1>3. CASE UNCHANGED vars
  BY <1>3 DEF vars, validator, connection, tv, IInv, Reads, TokensAreWhole
<1>. QED
  BY <1>1, <1>2, <1>3, RecognizesKeeps, UserAllowsKeeps, UserDeniesKeeps, RevokeKeeps
  DEF Next

-----------------------------------------------------------------------------
(* The token that was learnt is the one that is carried.                   *)

Carries ==
    /\ learnt \in [Id -> Token \cup {NoToken}]
    /\ \A id \in Id : learnt[id] # NoToken => credentials[id] = Text(learnt[id])
    /\ phase = "handshake" => path = credentials[target]

LEMMA InitCarries == Init => Carries
  BY DEF Init, Carries

LEMMA ReturnCarries ==
    ASSUME Carries, NEW status, Return(status), UNCHANGED <<credentials, learnt>>
    PROVE  Carries'
<1>1. phase' # "handshake"
  BY DEF Return, NextScenario
<1>. QED
  BY <1>1 DEF Carries

\* A step that is no beginning of a connection and stores nothing.
LEMMA IdleCarries ==
    ASSUME Carries, UNCHANGED <<credentials, learnt>>, phase' # "handshake"
    PROVE  Carries'
  BY DEF Carries

LEMMA ExecuteCarries == ASSUME Carries, Execute PROVE Carries'
<1>1. UNCHANGED <<credentials, learnt>>
  BY DEF Execute
<1>2. CASE \E status : Return(status)
  BY <1>1, <1>2, ReturnCarries
<1>3. CASE path' = InjectCredentials(target) /\ UNCHANGED target
  BY <1>1, <1>3 DEF InjectCredentials, Carries
<1>. QED
  BY <1>2, <1>3 DEF Execute, validator

LEMMA ResponseCarries ==
    ASSUME IInv, Carries, NEW text, Response(text), Named(text)
    PROVE  Carries'
<1>1. phase' # "handshake"
  BY DEF Response, Process, Return, NextScenario
<1>2. CASE UNCHANGED <<credentials, learnt>>
  BY <1>1, <1>2, IdleCarries
<1>3. CASE Process(text)
  <2>1. CASE Tokens(text) = {} /\ LearntFrom(text) = {}
    BY <1>2, <1>3, <2>1 DEF Process
  <2>2. CASE \E t \in issued[target] :
               Tokens(text) = {Text(t)} /\ LearntFrom(text) = {t}
    <3>1. PICK t \in issued[target] :
             Tokens(text) = {Text(t)} /\ LearntFrom(text) = {t}
      BY <2>2
    <3>2. t \in Token /\ target \in Id /\ DOMAIN credentials = Id
      BY <3>1 DEF IInv
    <3>3. credentials' = [credentials EXCEPT ![target] = Text(t)]
      BY <1>3, <3>1 DEF Process, UpdateCredentials
    <3>4. learnt' = [learnt EXCEPT ![target] = t]
      <4>1. (CHOOSE u \in LearntFrom(text) : TRUE) = t
        BY <3>1
      <4>2. LearntFrom(text) # {}
        BY <3>1
      <4>. QED
        BY <1>3, <4>1, <4>2 DEF Process
    <3>5. learnt' \in [Id -> Token \cup {NoToken}]
      BY <3>2, <3>4 DEF Carries
    <3>6. \A id \in Id : learnt'[id] # NoToken => credentials'[id] = Text(learnt'[id])
      BY <3>2, <3>3, <3>4 DEF Carries
    <3>. QED
      BY <1>1, <3>5, <3>6 DEF Carries
  <2>. QED
    BY <2>1, <2>2 DEF Named
<1>. QED
  BY <1>2, <1>3 DEF Response

LEMMA ProgramCarries == ASSUME IInv, Carries, Program PROVE Carries'
<1>1. CASE HandshakeFails \/ NoHeader \/ NoMemory
  <2>1. UNCHANGED <<credentials, learnt>> /\ \E status : Return(status)
    BY <1>1 DEF HandshakeFails, NoHeader, NoMemory
  <2>. QED
    BY <2>1, ReturnCarries
<1>2. CASE RunScenario \/ Done
  <2>1. UNCHANGED <<credentials, learnt>> /\ phase' # "handshake"
    BY <1>2 DEF RunScenario, NextScenario, Done
  <2>. QED
    BY <2>1, IdleCarries
<1>3. CASE ReadHeader \/ ReadLength \/ ReadMask \/ ReadPayload
  <2>1. UNCHANGED <<credentials, learnt>> /\ phase' # "handshake"
    BY <1>3 DEF ReadHeader, ReadLength, ReadMask, ReadPayload, Reading, Then
  <2>. QED
    BY <2>1, IdleCarries
<1>4. CASE Misread \/ FrameEnds
  BY <1>4, MisreadFacts, FrameEndsFacts, ResponseCarries
<1>. QED
  BY <1>1, <1>2, <1>3, <1>4, ExecuteCarries DEF Program

LEMMA StepCarries == ASSUME IInv, Carries, [Next]_vars PROVE Carries'
<1>1. CASE ReceiveFails
  <2>1. UNCHANGED <<credentials, learnt>> /\ \E status : Return(status)
    BY <1>1 DEF ReceiveFails
  <2>. QED
    BY <2>1, ReturnCarries
<1>2. CASE Recognizes \/ UserAllows \/ UserDenies
  <2>1. UNCHANGED <<credentials, learnt>> /\ phase' # "handshake"
    BY <1>2 DEF Recognizes, UserAllows, UserDenies, Upgraded
  <2>. QED
    BY <2>1, IdleCarries
<1>3. CASE Revoke \/ UNCHANGED vars
  <2>1. UNCHANGED <<credentials, learnt, phase, path, target>>
    BY <1>3 DEF Revoke, vars, connection, validator
  <2>. QED
    BY <2>1 DEF Carries
<1>. QED
  BY <1>1, <1>2, <1>3, ProgramCarries DEF Next

\* Only what has a TV ask its user changes how often it did, and it does not
\* know what it was brought.
LEMMA AskingFacts ==
    ASSUME IInv, Granted, Carries, [Next]_vars, NEW id \in Id, asked'[id] # asked[id]
    PROVE  learnt[id] \notin granted[id]
<1>1. CASE UserAllows \/ UserDenies
  <2>1. /\ phase = "handshake"
        /\ \A token \in granted[target] : path # Text(token)
        /\ asked' = [asked EXCEPT ![target] = @ + 1]
    BY <1>1 DEF UserAllows, UserDenies, Asks
  <2>2. id = target
    BY <2>1
  <2>3. SUFFICES ASSUME learnt[id] \in granted[id] PROVE FALSE
    OBVIOUS
  <2>4. learnt[id] # NoToken
    BY <2>3, PairingAssumption DEF Granted
  <2>5. path = Text(learnt[id])
    BY <2>1, <2>2, <2>4 DEF Carries
  <2>. QED
    BY <2>1, <2>2, <2>3, <2>5
<1>2. CASE UNCHANGED asked
  BY <1>2
<1>3. CASE Program
  <2>1. UNCHANGED tv
    BY <1>3, ProgramAndTV
  <2>. QED
    BY <1>2, <2>1 DEF tv
<1>4. CASE ReceiveFails \/ Recognizes \/ Revoke \/ UNCHANGED vars
  BY <1>2, <1>4 DEF ReceiveFails, Recognizes, Revoke, vars, tv
<1>. QED
  BY <1>1, <1>3, <1>4 DEF Next

\* The three parts of the invariant hold in every reachable state.
THEOREM Inductive == Spec => [](IInv /\ Granted /\ Carries)
<1>1. Init => IInv /\ Granted /\ Carries
  BY InitHolds, InitCarries
<1>2. IInv /\ Granted /\ Carries /\ [Next]_vars => (IInv /\ Granted /\ Carries)'
  BY StepKeeps, GrantedKeeps, StepCarries
<1>. QED
  BY <1>1, <1>2, PTL DEF Spec

\* What is stored as the token of a device is a token its own TV handed out, as
\* a whole, for every number of TVs and tokens, every device, every scenario and
\* every bound on what garbage may stand for a length.
THEOREM WholeTokensOnly == Spec => []TokensAreWhole
<1>1. IInv => TokensAreWhole
  BY DEF IInv
<1>. QED
  BY <1>1, Inductive, PTL

\* No user is asked while the TV honours the last token that came whole in a
\* frame that was read, whatever is cut, misread, refused or revoked in between.
\* A token that the upgrade reads away is in no frame that was read.
THEOREM AskedOnceOnly == Spec => NotAskedAgain
<1>1. IInv /\ Granted /\ Carries /\ [Next]_vars
        => [\A id \in Id : asked'[id] # asked[id] => learnt[id] \notin granted[id]]_vars
  BY AskingFacts
<1>. QED
  BY <1>1, Inductive, PTL DEF Spec, NotAskedAgain
-----------------------------------------------------------------------------
(* What stands behind an opcode, and the type of the frame that is read.   *)

Opcode == {"text", "ping", "close"}

LengthType == [length : 0 .. MaxLength, extended : BOOLEAN, masked : BOOLEAN]

\* Wherever an opcode stands, a length follows that is no longer than is bounded.
Opens(s) ==
    \A k \in DOMAIN s :
        s[k].kind = "opcode" =>
            /\ k + 1 \in DOMAIN s
            /\ s[k].value \in Opcode
            /\ s[k + 1].value \in LengthType

\* A frame is read from where one opens.
Framed ==
    /\ Opens(sent)
    /\ frame \in FrameType

\* A text, or a header behind its opcode, opens no frame.
Plain(s) == s \in Seq(UnitType) /\ \A k \in 1 .. Len(s) : s[k].kind # "opcode"

\* What a TV puts into a frame.
Short(text, tokens) == Good(text, tokens) /\ Plain(text) /\ Len(text) <= 5

LEMMA JoinedPlain ==
    ASSUME NEW s, NEW u, Plain(s), Plain(u) PROVE Plain(s \o u)
<1>1. /\ s \in Seq(UnitType) /\ u \in Seq(UnitType) /\ s \o u \in Seq(UnitType)
      /\ Len(s) \in Nat /\ Len(u) \in Nat /\ Len(s \o u) = Len(s) + Len(u)
      /\ \A k \in 1 .. Len(s \o u) :
            (s \o u)[k] = IF k <= Len(s) THEN s[k] ELSE u[k - Len(s)]
  BY DEF Plain
<1>2. \A k \in 1 .. Len(s \o u) :
         \/ k \in 1 .. Len(s) /\ (s \o u)[k] = s[k]
         \/ k - Len(s) \in 1 .. Len(u) /\ (s \o u)[k] = u[k - Len(s)]
  BY <1>1
<1>. QED
  BY <1>1, <1>2 DEF Plain

LEMMA JoinedOpens ==
    ASSUME NEW s \in Seq(UnitType), NEW u \in Seq(UnitType), Opens(s), Opens(u)
    PROVE  Opens(s \o u)
<1>1. /\ Len(s) \in Nat /\ Len(u) \in Nat
      /\ DOMAIN s = 1 .. Len(s) /\ DOMAIN u = 1 .. Len(u)
      /\ DOMAIN (s \o u) = 1 .. Len(s) + Len(u)
      /\ \A k \in 1 .. Len(s) : (s \o u)[k] = s[k]
      /\ \A k \in 1 .. Len(u) : (s \o u)[Len(s) + k] = u[k]
  OBVIOUS
<1>2. SUFFICES ASSUME NEW k \in 1 .. Len(s) + Len(u), (s \o u)[k].kind = "opcode"
               PROVE  /\ k + 1 \in 1 .. Len(s) + Len(u)
                      /\ (s \o u)[k].value \in Opcode
                      /\ (s \o u)[k + 1].value \in LengthType
  BY <1>1 DEF Opens
<1>3. CASE k \in 1 .. Len(s)
  <2>1. (s \o u)[k] = s[k]
    BY <1>1, <1>3
  <2>2. /\ k + 1 \in 1 .. Len(s) /\ s[k].value \in Opcode
        /\ s[k + 1].value \in LengthType
    BY <1>1, <1>2, <1>3, <2>1 DEF Opens
  <2>3. (s \o u)[k + 1] = s[k + 1] /\ k + 1 \in 1 .. Len(s) + Len(u)
    BY <1>1, <2>2
  <2>. QED
    BY <2>1, <2>2, <2>3
<1>4. CASE k \notin 1 .. Len(s)
  <2>1. PICK j \in 1 .. Len(u) : k = Len(s) + j
    <3>1. k - Len(s) \in 1 .. Len(u) /\ k = Len(s) + (k - Len(s))
      BY <1>1, <1>2, <1>4
    <3>. QED
      BY <3>1
  <2>2. (s \o u)[k] = u[j]
    BY <1>1, <2>1
  <2>3. /\ j + 1 \in 1 .. Len(u) /\ u[j].value \in Opcode
        /\ u[j + 1].value \in LengthType
    BY <1>1, <1>2, <2>2 DEF Opens
  <2>4. (s \o u)[Len(s) + (j + 1)] = u[j + 1]
    BY <1>1, <2>3
  <2>5. k + 1 = Len(s) + (j + 1) /\ k + 1 \in 1 .. Len(s) + Len(u)
    BY <1>1, <2>1, <2>3
  <2>. QED
    BY <2>2, <2>3, <2>4, <2>5
<1>. QED
  BY <1>3, <1>4

LEMMA PlainOpens == ASSUME NEW s, Plain(s) PROVE Opens(s)
  BY DEF Plain, Opens

\* Behind an opcode, a length and what else is in a header.
LEMMA HeaderOpens ==
    ASSUME NEW one \in UnitType, one.value \in Opcode,
           NEW header, Plain(header), 1 <= Len(header), header[1].value \in LengthType
    PROVE  Opens(<<one>> \o header)
<1>1. /\ header \in Seq(UnitType) /\ Len(header) \in Nat
      /\ DOMAIN (<<one>> \o header) = 1 .. Len(header) + 1
      /\ (<<one>> \o header)[1] = one /\ (<<one>> \o header)[2] = header[1]
      /\ \A k \in 2 .. Len(header) + 1 : (<<one>> \o header)[k] = header[k - 1]
  BY DEF Plain
<1>2. \A k \in 2 .. Len(header) + 1 : (<<one>> \o header)[k].kind # "opcode"
  <2> TAKE k \in 2 .. Len(header) + 1
  <2>1. k - 1 \in 1 .. Len(header)
    BY <1>1
  <2>. QED
    BY <1>1, <2>1 DEF Plain
<1>3. \A k \in 1 .. Len(header) + 1 : k = 1 \/ k \in 2 .. Len(header) + 1
  BY <1>1
<1>4. 1 + 1 = 2 /\ 2 \in 1 .. Len(header) + 1
  BY <1>1
<1>. QED
  BY <1>1, <1>2, <1>3, <1>4 DEF Opens

LEMMA PlainUnits ==
    ASSUME NEW u \in UnitType, NEW w \in UnitType, u.kind # "opcode", w.kind # "opcode"
    PROVE  Plain(<<u>>) /\ Plain(<<u, w>>) /\ Plain(<<>>)
  BY DEF Plain

LEMMA FrameOpens ==
    ASSUME NEW tokens, NEW opcode \in Opcode, NEW text, Short(text, tokens),
           NEW extended \in BOOLEAN, NEW masked \in BOOLEAN
    PROVE  /\ Opens(Frame(opcode, text, extended, masked))
           /\ Frame(opcode, text, extended, masked) \in Seq(UnitType)
<1> DEFINE length == [length |-> Len(text), extended |-> extended, masked |-> masked]
           one == Unit("opcode", opcode)
           two == Unit("length", length)
           second == IF extended THEN <<Unit("extended", 1), Unit("extended", 2)>> ELSE <<>>
           third == IF masked THEN <<Unit("mask", 1), Unit("mask", 2)>> ELSE <<>>
<1>1. length \in LengthType /\ length \in UnitValue /\ Plain(text)
  <2>1. Len(text) \in Nat
    BY DEF Short, Good
  <2>2. Len(text) \in 0 .. MaxLength
    BY <2>1, PairingAssumption DEF Short
  <2>. QED
    BY <2>1, <2>2 DEF UnitValue, LengthType, Short
<1>2. one.value = opcode /\ two.value = length /\ two.kind = "length"
  BY DEF Unit
<1>3. one \in UnitType /\ two \in UnitType
  <2>1. "opcode" \in Kind /\ "length" \in Kind /\ opcode \in Word
    BY DEF Kind, Word, Opcode
  <2>2. opcode \in UnitValue
    BY <2>1 DEF UnitValue
  <2>. QED
    BY <1>1, <2>1, <2>2, UnitIsTyped
<1>4. Plain(second) /\ Plain(third) /\ Plain(<<two>>)
  <2>1. "extended" \in Kind /\ "mask" \in Kind /\ 1 \in UnitValue /\ 2 \in UnitValue
    BY DEF Kind, UnitValue
  <2>2. /\ Unit("extended", 1) \in UnitType /\ Unit("extended", 2) \in UnitType
        /\ Unit("mask", 1) \in UnitType /\ Unit("mask", 2) \in UnitType
    BY <2>1, UnitIsTyped
  <2>3. /\ Unit("extended", 1).kind = "extended" /\ Unit("extended", 2).kind = "extended"
        /\ Unit("mask", 1).kind = "mask" /\ Unit("mask", 2).kind = "mask"
    BY DEF Unit
  <2>4. Plain(<<two>>) /\ Plain(<<>>)
    BY <1>2, <1>3, PlainUnits
  <2>5. /\ Plain(<<Unit("extended", 1), Unit("extended", 2)>>)
        /\ Plain(<<Unit("mask", 1), Unit("mask", 2)>>)
    BY <2>2, <2>3, PlainUnits
  <2>. QED
    BY <2>4, <2>5
<1>5. Frame(opcode, text, extended, masked)
        = (<<one>> \o ((<<two>> \o second) \o third)) \o text
  BY DEF Frame, Header
<1> HIDE DEF one, two, second, third, length
<1>6. /\ second \in Seq(UnitType) /\ third \in Seq(UnitType)
      /\ <<two>> \in Seq(UnitType) /\ <<one>> \in Seq(UnitType)
  BY <1>3, <1>4 DEF Plain
<1>7. Plain((<<two>> \o second) \o third)
  BY <1>4, JoinedPlain
<1> DEFINE start == <<two>> \o second
<1>8. start \in Seq(UnitType) /\ Len(start) >= 1 /\ start[1] = two
  BY <1>3, <1>6
<1> HIDE DEF start
<1> DEFINE header == start \o third
<1>9. Len(header) >= 1 /\ header[1] = two
  BY <1>6, <1>8
<1>10. Plain(header)
  BY <1>7 DEF start
<1> HIDE DEF header
<1> DEFINE whole == <<one>> \o header
<1>11. Opens(whole)
  BY <1>1, <1>2, <1>3, <1>9, <1>10, HeaderOpens
<1>12. whole \in Seq(UnitType) /\ text \in Seq(UnitType)
  BY <1>1, <1>6, <1>10 DEF Plain
<1> HIDE DEF whole
<1>13. Opens(whole \o text) /\ whole \o text \in Seq(UnitType)
  <2>1. Opens(text)
    BY <1>1, PlainOpens
  <2>. QED
    BY <1>11, <1>12, <2>1, JoinedOpens
<1>. QED
  BY <1>5, <1>13 DEF whole, header, start

LEMMA EventIsShort == ASSUME NEW tokens, NEW name \in Word PROVE Short(Event(name), tokens)
<1>1. Good(Event(name), tokens) /\ Len(Event(name)) = 1
  BY EventIsGood
<1>2. Plain(Event(name))
  <2>1. Event(name) \in Seq(UnitType)
    BY <1>1 DEF Good
  <2>2. Event(name)[1].kind = "event"
    BY DEF Event, Unit
  <2>. QED
    BY <1>1, <2>1, <2>2 DEF Plain
<1>. QED
  BY <1>1, <1>2 DEF Short

LEMMA RepliesOpen ==
    ASSUME NEW tokens, NEW text, Short(text, tokens),
           NEW reply \in Replies(text) \cup {<<>>}
    PROVE  Opens(reply)
<1>1. /\ "text" \in Opcode /\ "ping" \in Opcode /\ "close" \in Opcode
      /\ TRUE \in BOOLEAN /\ FALSE \in BOOLEAN
  BY DEF Opcode
<1>2. /\ Short(Event("ed.edenTV.update"), tokens) /\ Short(Event("status"), tokens)
  BY EventIsShort DEF Word
<1>3. Short(<<>>, tokens) /\ Opens(<<>>)
  BY EmptyIsGood DEF Short, Plain, Opens
<1> DEFINE opens(f) == Opens(f) /\ f \in Seq(UnitType)
<1>4. /\ \A extended, masked \in BOOLEAN : opens(Frame("text", text, extended, masked))
      /\ opens(Frame("text", Event("ed.edenTV.update"), FALSE, FALSE))
      /\ opens(Frame("ping", <<>>, FALSE, FALSE))
      /\ opens(Frame("close", Event("status"), FALSE, FALSE))
  BY <1>1, <1>2, <1>3, FrameOpens
<1> DEFINE alone == {Frame("text", text, extended, masked) : extended, masked \in BOOLEAN}
           two == Frame("text", text, TRUE, FALSE)
                    \o Frame("text", Event("ed.edenTV.update"), FALSE, FALSE)
           pinged == Frame("ping", <<>>, FALSE, FALSE) \o Frame("text", text, TRUE, FALSE)
           closing == Frame("close", Event("status"), FALSE, FALSE)
<1>5. Replies(text) = alone \cup {two, pinged, closing}
  BY DEF Replies
<1>6. Opens(two) /\ Opens(pinged) /\ Opens(closing)
  BY <1>1, <1>4, JoinedOpens
<1>7. \A r \in alone : Opens(r)
  BY <1>4
<1> HIDE DEF alone, two, pinged, closing
<1>. QED
  BY <1>3, <1>5, <1>6, <1>7

LEMMA JoinedLength ==
    ASSUME NEW s \in Seq(UnitType), NEW u \in Seq(UnitType)
    PROVE  Len(s \o u) = Len(s) + Len(u)
  OBVIOUS

\* What a TV answers.
LEMMA AnswerFacts ==
    ASSUME IInv, Granted, Recognizes \/ UserAllows \/ UserDenies
    PROVE  /\ Upgraded
           /\ \E text, tokens : Short(text, tokens) /\ Answers(text)
<1>1. \A t \in Token : Short(Announcement(t), Token)
  <2> TAKE t \in Token
  <2>1. Good(Announcement(t), Token)
    BY AnnouncementIsGood
  <2> DEFINE m == Unit("mark", "token")
             f == Unit("first", t)
             r == Unit("rest", t)
             q == Unit("quote", "token")
  <2>2. Announcement(t) = Event("ms.channel.connect") \o <<m, f, r, q>>
    BY DEF Announcement, Event, Text
  <2>3. Event("ms.channel.connect") \in Seq(UnitType) /\ Len(Event("ms.channel.connect")) = 1
    BY EventIsGood DEF Word, Good
  <2>4. m \in UnitType /\ f \in UnitType /\ r \in UnitType /\ q \in UnitType
    <3>1. /\ "mark" \in Kind /\ "first" \in Kind /\ "rest" \in Kind /\ "quote" \in Kind
          /\ "token" \in Word
      BY DEF Kind, Word
    <3>. QED
      BY <3>1, WordsAreTyped
  <2> HIDE DEF m, f, r, q
  <2>5. <<m, f, r, q>> \in Seq(UnitType) /\ Len(<<m, f, r, q>>) = 4
    BY <2>4
  <2> DEFINE named == <<m, f, r, q>>
             name == Event("ms.channel.connect")
  <2>6. Announcement(t) = name \o named
    BY <2>2
  <2>7. /\ named \in Seq(UnitType) /\ Len(named) = 4
        /\ name \in Seq(UnitType) /\ Len(name) = 1
    BY <2>3, <2>5
  <2>9. Plain(Announcement(t))
    <3>1. /\ m.kind # "opcode" /\ f.kind # "opcode" /\ r.kind # "opcode"
          /\ q.kind # "opcode"
      BY DEF m, f, r, q, Unit
    <3>2. Plain(named)
      BY <2>5, <3>1 DEF Plain
    <3>3. Plain(name)
      BY EventIsShort DEF Word, Short
    <3>. QED
      BY <2>6, <3>2, <3>3, JoinedPlain
  <2> HIDE DEF named, name
  <2>8. Len(Announcement(t)) = 5
    <3>1. Len(name \o named) = Len(name) + Len(named)
      BY <2>7, JoinedLength
    <3>2. Len(name \o named) = 5
      BY <2>7, <3>1
    <3>. QED
      BY <2>6, <3>2
  <2>. QED
    BY <2>1, <2>8, <2>9 DEF Short
<1>2. \A name \in Word : Short(Event(name), Token)
  BY EventIsShort
<1>3. Short(<<Refusal>>, Token)
  <2>1. Short(Event("ms.channel.unauthorized"), Token)
    BY <1>2 DEF Word
  <2>2. <<Refusal>> = Event("ms.channel.unauthorized")
    BY DEF Refusal, Event
  <2>. QED
    BY <2>1, <2>2
<1>4. CASE Recognizes
  <2>1. PICK token \in granted[target] :
           Answers(Event("ms.channel.connect")) \/ Answers(Announcement(token))
    BY <1>4 DEF Recognizes
  <2>2. token \in Token
    BY <2>1 DEF IInv, Granted
  <2>. QED
    BY <1>1, <1>2, <1>4, <2>1, <2>2 DEF Recognizes, Word
<1>5. CASE UserAllows
  BY <1>1, <1>5 DEF UserAllows
<1>6. CASE UserDenies
  BY <1>3, <1>6 DEF UserDenies
<1>. QED
  BY <1>4, <1>5, <1>6

LEMMA AnsweredFramed ==
    ASSUME IInv, Granted, Framed, Recognizes \/ UserAllows \/ UserDenies
    PROVE  Framed'
<1>1. /\ Upgraded
      /\ \E text, tokens : Short(text, tokens) /\ Answers(text)
  BY AnswerFacts
<1>2. UNCHANGED frame
  BY <1>1 DEF Upgraded
<1>3. Opens(sent')
  BY <1>1, RepliesOpen DEF Answers
<1>. QED
  BY <1>2, <1>3 DEF Framed

LEMMA ReturnFramed ==
    ASSUME NEW status, Return(status)
    PROVE  Framed'
<1>1. /\ sent' = <<>> /\ at' = 1 /\ frame' = NoFrame
  BY DEF Return
<1>2. NoFrame \in FrameType
  BY PairingAssumption DEF NoFrame, FrameType, Vast
<1>3. Opens(<<>>)
  BY DEF Opens
<1>. QED
  BY <1>1, <1>2, <1>3 DEF Framed

LEMMA ReadHeaderFramed == ASSUME IInv, Framed, ReadHeader PROVE Framed'
<1>1. /\ 2 \in Pieces(2) /\ sent[at].kind = "opcode" /\ UNCHANGED sent
  BY DEF ReadHeader, Reading
<1>2. at \in Nat /\ at >= 1 /\ at \in DOMAIN sent
  <2>1. Len(sent) \in Nat /\ at \in Nat /\ at >= 1 /\ at + 2 <= Len(sent) + 1
    BY <1>1 DEF IInv, Good, Reads, Pieces
  <2>2. DOMAIN sent = 1 .. Len(sent)
    BY DEF IInv, Good
  <2>. QED
    BY <2>1, <2>2
<1> DEFINE length == sent[at + 1].value
           read == [opcode |-> sent[at].value, length |-> length.length, start |-> at + 2,
                    extended |-> length.extended, masked |-> length.masked,
                    garbled |-> FALSE]
<1>3. frame' = read
  BY DEF ReadHeader
<1>4. sent[at].value \in Opcode /\ length \in LengthType
  BY <1>1, <1>2 DEF Framed, Opens
<1> HIDE DEF length
<1>5. /\ length.length \in 0 .. Vast /\ length.extended \in BOOLEAN
      /\ length.masked \in BOOLEAN
  BY <1>4, PairingAssumption DEF LengthType, Vast
<1>6. read \in FrameType
  BY <1>2, <1>4, <1>5 DEF FrameType, Opcode
<1>. QED
  BY <1>1, <1>3, <1>6 DEF Framed

LEMMA ReadMoreFramed ==
    ASSUME IInv, Framed, ReadLength \/ ReadMask \/ ReadPayload
    PROVE  Framed'
<1>1. UNCHANGED sent
  BY DEF ReadLength, ReadMask, ReadPayload, Reading
<1>2. frame \in FrameType /\ at \in Nat
  BY DEF Framed, IInv, Reads
<1>3. frame' \in FrameType
  <2>1. CASE ReadLength
    <3>1. PICK n \in Pieces(2) :
             \E length \in IF n = 2 THEN {frame.length} ELSE 0 .. Vast :
                frame' = [frame EXCEPT !.length = length, !.start = at + n]
      BY <2>1 DEF ReadLength
    <3>2. PICK length \in 0 .. Vast :
                frame' = [frame EXCEPT !.length = length, !.start = at + n]
      BY <1>2, <3>1 DEF FrameType
    <3>3. at + n \in Nat
      BY <1>2 DEF Pieces
    <3>. QED
      BY <1>2, <3>2, <3>3 DEF FrameType
  <2>2. CASE ReadMask
    <3>1. PICK n \in Pieces(2) :
             frame' = [frame EXCEPT !.start = at + n,
                          !.garbled = SubSeq(sent, at, at + n - 1)
                                          # <<Unit("mask", 1), Unit("mask", 2)>>]
      BY <2>2 DEF ReadMask
    <3>2. PICK garbled \in BOOLEAN :
             frame' = [frame EXCEPT !.start = at + n, !.garbled = garbled]
      BY <3>1
    <3>3. at + n \in Nat
      BY <1>2 DEF Pieces
    <3>. QED
      BY <1>2, <3>2, <3>3 DEF FrameType
  <2>3. CASE ReadPayload
    BY <1>2, <2>3 DEF ReadPayload
  <2>. QED
    BY <2>1, <2>2, <2>3
<1>. QED
  BY <1>1, <1>3 DEF Framed

LEMMA StepFramed == ASSUME IInv, Granted, Framed, [Next]_vars PROVE Framed'
<1>1. CASE \E status : Return(status)
  BY <1>1, ReturnFramed
<1>2. CASE UNCHANGED <<sent, at, frame>> /\ phase' # "header"
  BY <1>2 DEF Framed
<1>3. CASE UNCHANGED <<sent, at, frame, phase>>
  BY <1>3 DEF Framed
<1>4. CASE Program
  <2>1. CASE RunScenario \/ Done
    BY <1>2, <2>1 DEF RunScenario, Done, NextScenario, connection
  <2>2. CASE Execute
    <3>1. \/ \E status : Return(status)
          \/ UNCHANGED <<sent, at, frame>> /\ phase' = "handshake"
      BY <2>2 DEF Execute
    <3>. QED
      BY <1>1, <1>2, <3>1
  <2>3. CASE HandshakeFails \/ NoHeader \/ NoMemory
    BY <1>1, <2>3 DEF HandshakeFails, NoHeader, NoMemory
  <2>4. CASE Misread \/ FrameEnds
    BY <1>1, <2>4, ResponseReturns
  <2>. QED
    BY <1>4, <2>1, <2>2, <2>3, <2>4, ReadHeaderFramed, ReadMoreFramed DEF Program
<1>5. CASE ReceiveFails
  BY <1>1, <1>5 DEF ReceiveFails
<1>6. CASE Revoke \/ UNCHANGED vars
  BY <1>3, <1>6 DEF Revoke, vars, connection
<1>. QED
  BY <1>4, <1>5, <1>6, AnsweredFramed DEF Next

-----------------------------------------------------------------------------
(* What is planned, scenario by scenario.                                  *)

Listing == INSTANCE Folding WITH Op <- Append, Element <- Id, Value <- Seq(Id)

Run == [target : Id, action : ActionId]

Total == Len(Scenarios)

ScenarioType == [capability : STRING, actions : Seq(ActionId) \ {<<>>}]

LEMMA ScenariosAreTyped ==
    /\ Total \in Nat /\ DOMAIN Scenarios = 1 .. Total
    /\ \A n \in 1 .. Total : Scenarios[n] \in ScenarioType
<1>1. Scenarios \in Seq(ScenarioType)
  BY PairingAssumption DEF ScenarioType
<1>. QED
  BY <1>1 DEF Total

LEMMA OneIsCapable ==
    ASSUME NEW capability, NEW k \in Capable(capability)
    PROVE  k \in DOMAIN Devices /\ Capable(capability) = {k}
<1>1. DOMAIN Devices = 1 .. Len(Devices) /\ Len(Devices) \in Nat
  BY PairingAssumption
<1>2. \A j \in Capable(capability) : j \in DOMAIN Devices /\ j <= k /\ k <= j
  BY DEF Capable, First
<1>. QED
  BY <1>1, <1>2

LEMMA TriedFacts ==
    ASSUME NEW s \in ScenarioType, NEW k \in Capable(s.capability)
    PROVE  /\ Tried(s) \in Seq(Run)
           /\ Len(Tried(s)) = Len(s.actions)
           /\ \A j \in 1 .. Len(s.actions) :
                 Tried(s)[j] = [target |-> Devices[k], action |-> s.actions[j]]
<1>1. k \in DOMAIN Devices /\ Capable(s.capability) = {k} /\ Devices[k] \in Id
  BY OneIsCapable, PairingAssumption
<1>2. (CHOOSE i \in {k} : TRUE) = k
  OBVIOUS
<1>3. s.actions \in Seq(ActionId)
  BY DEF ScenarioType
<1>4. Tried(s) = [j \in DOMAIN s.actions |-> [target |-> Devices[k], action |-> s.actions[j]]]
  BY <1>1, <1>2 DEF Tried
<1> DEFINE device == Devices[k]
           actions == s.actions
<1>5. /\ device \in Id /\ actions \in Seq(ActionId)
      /\ Tried(s) = [j \in DOMAIN actions |-> [target |-> device, action |-> actions[j]]]
  BY <1>1, <1>3, <1>4
<1> HIDE DEF device, actions
<1>6. DOMAIN actions = 1 .. Len(actions) /\ Len(actions) \in Nat
  BY <1>5
<1>7. \A j \in 1 .. Len(actions) : [target |-> device, action |-> actions[j]] \in Run
  BY <1>5 DEF Run
<1>8. Tried(s) \in [1 .. Len(actions) -> Run]
  BY <1>5, <1>6, <1>7
<1>9. Tried(s) \in Seq(Run) /\ Len(Tried(s)) = Len(actions)
  BY <1>6, <1>8
<1>10. \A j \in 1 .. Len(actions) : Tried(s)[j] = [target |-> device, action |-> actions[j]]
  BY <1>5, <1>6
<1>. QED
  BY <1>9, <1>10 DEF device, actions

LEMMA TriedType == ASSUME NEW s \in ScenarioType PROVE Tried(s) \in Seq(Run)
<1>1. CASE Capable(s.capability) = {}
  <2>1. Tried(s) = <<>>
    BY <1>1 DEF Tried
  <2>. QED
    BY <2>1
<1>. QED
  BY <1>1, TriedFacts

\* The plan, scenario by scenario.
Plans(f) ==
    /\ f \in [0 .. Total -> Seq(Run)]
    /\ f[0] = <<>>
    /\ \A n \in 1 .. Total : f[n] = f[n - 1] \o Tried(Scenarios[n])
    /\ f[Total] = Planned

Plan == CHOOSE f : Plans(f)

LEMMA PlanFacts == Plans(Plan)
<1> DEFINE ss == [n \in DOMAIN Scenarios |-> Tried(Scenarios[n])]
           Lists == Seq(Run)
<1>1. \A n \in 1 .. Total : Tried(Scenarios[n]) \in Lists
  BY ScenariosAreTyped, TriedType
<1>2. ss \in [1 .. Total -> Lists]
  BY <1>1, ScenariosAreTyped
<1>3. \A n \in 1 .. Total : ss[n] = Tried(Scenarios[n])
  BY ScenariosAreTyped
<1>4. Planned = FlattenSeq(ss)
  BY DEF Planned
<1>5. FlattenSeq(ss) = Listing!FlattenSeq(ss)
  BY DEF FlattenSeq, Listing!FlattenSeq
<1> HIDE DEF ss, Lists
<1>6. ss \in Seq(Lists) /\ Len(ss) = Total
  BY <1>2, ScenariosAreTyped
<1>7. ss \in Seq(Seq(Run))
  BY <1>6 DEF Lists
<1>8. PICK f \in [0 .. Len(ss) -> Seq(Run)] :
             /\ f[0] = <<>>
             /\ \A k \in 1 .. Len(ss) : f[k] = f[k - 1] \o ss[k]
             /\ f[Len(ss)] = Listing!FlattenSeq(ss)
  BY <1>7, Listing!FlattenSteps
<1>9. Plans(f)
  BY <1>3, <1>4, <1>5, <1>6, <1>8 DEF Plans
<1>. QED
  BY <1>9 DEF Plan

\* What has been executed when so many actions of a scenario have.
Reached(n, count) == Plan[n - 1] \o SubSeq(Tried(Scenarios[n]), 1, count)

LEMMA NothingMore ==
    ASSUME NEW s \in Seq(Run), NEW u \in Seq(Run)
    PROVE  s \o SubSeq(u, 1, 0) = s
  OBVIOUS

LEMMA OneMore ==
    ASSUME NEW s \in Seq(Run), NEW u \in Seq(Run), NEW c \in 1 .. Len(u)
    PROVE  s \o SubSeq(u, 1, c) = Append(s \o SubSeq(u, 1, c - 1), u[c])
<1> DEFINE less == SubSeq(u, 1, c - 1)
           more == SubSeq(u, 1, c)
<1>1. /\ less \in Seq(Run) /\ Len(less) = c - 1
      /\ \A k \in 1 .. c - 1 : less[k] = u[k]
      /\ more \in Seq(Run) /\ Len(more) = c
      /\ \A k \in 1 .. c : more[k] = u[k]
      /\ c \in Nat /\ c - 1 \in Nat /\ u[c] \in Run /\ Len(s) \in Nat
  OBVIOUS
<1> HIDE DEF less, more
<1>2. more = Append(less, u[c])
  <2>1. /\ Append(less, u[c]) \in Seq(Run) /\ Len(Append(less, u[c])) = c
        /\ \A k \in 1 .. c : Append(less, u[c])[k] = u[k]
    BY <1>1
  <2>. QED
    BY <1>1, <2>1
<1>3. s \o Append(less, u[c]) = Append(s \o less, u[c])
  BY <1>1
<1>. QED
  BY <1>2, <1>3 DEF less, more

LEMMA AllOfIt ==
    ASSUME NEW s \in Seq(Run), NEW u \in Seq(Run)
    PROVE  s \o SubSeq(u, 1, Len(u)) = s \o u
<1>1. SubSeq(u, 1, Len(u)) = u
  OBVIOUS
<1>. QED
  BY <1>1

LEMMA PlanIsTyped ==
    ASSUME NEW n \in 1 .. Total
    PROVE  /\ Plan[n - 1] \in Seq(Run) /\ Tried(Scenarios[n]) \in Seq(Run)
           /\ Plan[n] = Plan[n - 1] \o Tried(Scenarios[n])
<1>1. n - 1 \in 0 .. Total
  BY ScenariosAreTyped
<1>. QED
  BY <1>1, PlanFacts, ScenariosAreTyped, TriedType DEF Plans

LEMMA ReachedNone ==
    ASSUME NEW n \in 1 .. Total
    PROVE  Reached(n, 0) = Plan[n - 1]
  BY PlanIsTyped, NothingMore DEF Reached

LEMMA ReachedAll ==
    ASSUME NEW n \in 1 .. Total
    PROVE  Reached(n, Len(Tried(Scenarios[n]))) = Plan[n]
  BY PlanIsTyped, AllOfIt DEF Reached

LEMMA ReachedMore ==
    ASSUME NEW n \in 1 .. Total, NEW c \in 1 .. Len(Tried(Scenarios[n]))
    PROVE  Reached(n, c) = Append(Reached(n, c - 1), Tried(Scenarios[n])[c])
  BY PlanIsTyped, OneMore DEF Reached

LEMMA NothingTried ==
    ASSUME NEW n \in 1 .. Total, Capable(Scenarios[n].capability) = {}
    PROVE  Plan[n] = Plan[n - 1]
<1>1. Tried(Scenarios[n]) = <<>>
  BY DEF Tried
<1>2. \A s \in Seq(Run) : s \o <<>> = s
  OBVIOUS
<1>. QED
  BY <1>1, <1>2, PlanIsTyped

-----------------------------------------------------------------------------
(* How far the scenarios have come.                                        *)

\* Between the call of the engine and its return.
Connected == {"handshake", "header", "length", "mask", "payload"}

\* The scenario in hand, its device, and what has been executed of it.
InHand(count) ==
    /\ scenario \in 1 .. Total
    /\ action \in 1 .. Len(Scenarios[scenario].actions)
    /\ \E k \in Capable(Scenarios[scenario].capability) : target = Devices[k]
    /\ executed = Reached(scenario, count)

Progress ==
    /\ scenario \in 1 .. Total + 1
    /\ \/ phase = "scenario" /\ action = 1 /\ executed = Plan[scenario - 1]
       \/ phase = "execute" /\ InHand(action - 1)
       \/ phase \in Connected /\ InHand(action)
       \/ phase = "done" /\ action = 1 /\ executed = Planned

LEMMA InitProgress == Init => Progress
<1> SUFFICES ASSUME Init PROVE Progress
  OBVIOUS
<1>1. Plan[0] = <<>>
  BY PlanFacts DEF Plans
<1>2. 1 \in 1 .. Total + 1
  BY ScenariosAreTyped
<1>. QED
  BY <1>1, <1>2 DEF Init, Progress

\* The scenario behind one of which nothing, or all, has been executed.
LEMMA NextProgress ==
    ASSUME NextScenario, scenario \in 1 .. Total, executed' = Plan[scenario]
    PROVE  Progress'
<1>1. /\ scenario' = scenario + 1 /\ action' = 1 /\ phase' = "scenario"
      /\ scenario \in Nat /\ scenario' \in 1 .. Total + 1 /\ scenario' - 1 = scenario
  BY ScenariosAreTyped DEF NextScenario
<1>. QED
  BY <1>1 DEF Progress

LEMMA ReturnProgress ==
    ASSUME NEW status, Return(status), InHand(action), executed' = executed
    PROVE  Progress'
<1>1. /\ scenario \in 1 .. Total /\ scenario \in 1 .. Total + 1
      /\ Scenarios[scenario] \in ScenarioType
      /\ Len(Scenarios[scenario].actions) \in Nat
  BY ScenariosAreTyped DEF InHand, ScenarioType
<1>2. PICK k \in Capable(Scenarios[scenario].capability) : target = Devices[k]
  BY DEF InHand
<1>3. Len(Tried(Scenarios[scenario])) = Len(Scenarios[scenario].actions)
  BY <1>1, <1>2, TriedFacts
<1>4. CASE action < Len(Scenarios[scenario].actions)
  <2>1. /\ action' = action + 1 /\ phase' = "execute"
        /\ UNCHANGED <<scenario, target>>
    BY <1>4 DEF Return
  <2>2. /\ action' \in 1 .. Len(Scenarios[scenario].actions)
        /\ action' - 1 = action
    BY <1>1, <1>4, <2>1 DEF InHand
  <2>3. executed' = Reached(scenario', action' - 1)
    BY <2>1, <2>2 DEF InHand
  <2>. QED
    BY <1>1, <1>2, <2>1, <2>2, <2>3 DEF Progress, InHand
<1>5. CASE ~ (action < Len(Scenarios[scenario].actions))
  <2>1. NextScenario
    BY <1>5 DEF Return
  <2>2. action = Len(Scenarios[scenario].actions)
    BY <1>1, <1>5 DEF InHand
  <2>3. executed' = Plan[scenario]
    BY <1>1, <1>3, <2>2, ReachedAll DEF InHand
  <2>. QED
    BY <1>1, <2>1, <2>3, NextProgress
<1>. QED
  BY <1>4, <1>5

\* The same in the step that executes the action.
LEMMA ReturnAtOnceProgress ==
    ASSUME NEW status, Return(status), InHand(action - 1),
           executed' = Reached(scenario, action)
    PROVE  Progress'
<1>1. /\ scenario \in 1 .. Total /\ scenario \in 1 .. Total + 1
      /\ Scenarios[scenario] \in ScenarioType
      /\ Len(Scenarios[scenario].actions) \in Nat
  BY ScenariosAreTyped DEF InHand, ScenarioType
<1>2. PICK k \in Capable(Scenarios[scenario].capability) : target = Devices[k]
  BY DEF InHand
<1>3. Len(Tried(Scenarios[scenario])) = Len(Scenarios[scenario].actions)
  BY <1>1, <1>2, TriedFacts
<1>4. CASE action < Len(Scenarios[scenario].actions)
  <2>1. /\ action' = action + 1 /\ phase' = "execute"
        /\ UNCHANGED <<scenario, target>>
    BY <1>4 DEF Return
  <2>2. /\ action' \in 1 .. Len(Scenarios[scenario].actions)
        /\ action' - 1 = action
    BY <1>1, <1>4, <2>1 DEF InHand
  <2>3. executed' = Reached(scenario', action' - 1)
    BY <2>1, <2>2
  <2>. QED
    BY <1>1, <1>2, <2>1, <2>2, <2>3 DEF Progress, InHand
<1>5. CASE ~ (action < Len(Scenarios[scenario].actions))
  <2>1. NextScenario
    BY <1>5 DEF Return
  <2>2. action = Len(Scenarios[scenario].actions)
    BY <1>1, <1>5 DEF InHand
  <2>3. executed' = Plan[scenario]
    BY <1>1, <1>3, <2>2, ReachedAll
  <2>. QED
    BY <1>1, <2>1, <2>3, NextProgress
<1>. QED
  BY <1>4, <1>5

LEMMA RunScenarioProgress == ASSUME Progress, RunScenario PROVE Progress'
<1>1. /\ scenario \in 1 .. Total /\ action = 1 /\ executed = Plan[scenario - 1]
      /\ executed' = executed
      /\ Scenarios[scenario] \in ScenarioType
  BY ScenariosAreTyped DEF Progress, RunScenario, Connected
<1> DEFINE capable == Capable(Scenarios[scenario].capability)
<1>2. CASE capable = {} /\ NextScenario
  <2>1. executed' = Plan[scenario]
    BY <1>1, <1>2, NothingTried
  <2>. QED
    BY <1>1, <1>2, <2>1, NextProgress
<1>3. CASE \E k \in capable :
              /\ target' = Devices[k]
              /\ phase' = "execute"
              /\ UNCHANGED <<scenario, action>>
  <2>1. executed' = Reached(scenario', action' - 1)
    <3>1. Reached(scenario, 0) = Plan[scenario - 1]
      BY <1>1, ReachedNone
    <3>2. action' - 1 = 0 /\ scenario' = scenario
      BY <1>1, <1>3
    <3>. QED
      BY <1>1, <3>1, <3>2
  <2>2. 1 \in 1 .. Len(Scenarios[scenario].actions)
    <3> DEFINE actions == Scenarios[scenario].actions
    <3>1. actions \in Seq(ActionId) /\ actions # <<>>
      BY <1>1 DEF ScenarioType
    <3> HIDE DEF actions
    <3>2. 1 \in 1 .. Len(actions)
      BY <3>1
    <3>. QED
      BY <3>2 DEF actions
  <2>3. scenario' \in 1 .. Total + 1
    BY <1>1, <1>3, ScenariosAreTyped
  <2>. QED
    BY <1>1, <1>3, <2>1, <2>2, <2>3 DEF Progress, InHand
<1>. QED
  BY <1>2, <1>3 DEF RunScenario

LEMMA DoneProgress == ASSUME Progress, Done PROVE Progress'
<1>1. /\ phase = "scenario" /\ scenario \notin 1 .. Total /\ scenario \in 1 .. Total + 1
      /\ phase' = "done" /\ UNCHANGED <<scenario, action, executed>>
  BY ScenariosAreTyped DEF Progress, Done, validator
<1>2. action = 1 /\ executed = Plan[scenario - 1]
  BY <1>1 DEF Progress, Connected
<1>3. scenario - 1 = Total
  BY <1>1, ScenariosAreTyped
<1>4. executed = Planned
  BY <1>2, <1>3, PlanFacts DEF Plans
<1>. QED
  BY <1>1, <1>2, <1>4 DEF Progress

LEMMA ExecuteProgress == ASSUME Progress, Execute PROVE Progress'
<1>1. InHand(action - 1) /\ scenario \in 1 .. Total + 1
  BY DEF Execute, Progress, Connected
<1>2. PICK k \in Capable(Scenarios[scenario].capability) : target = Devices[k]
  BY <1>1 DEF InHand
<1>3. /\ scenario \in 1 .. Total /\ Scenarios[scenario] \in ScenarioType
      /\ action \in 1 .. Len(Scenarios[scenario].actions)
  BY <1>1, ScenariosAreTyped DEF InHand
<1>4. /\ Len(Tried(Scenarios[scenario])) = Len(Scenarios[scenario].actions)
      /\ Tried(Scenarios[scenario])[action]
            = [target |-> target, action |-> Scenarios[scenario].actions[action]]
  BY <1>2, <1>3, TriedFacts
<1>5. executed' = Reached(scenario, action)
  <2>1. executed' = Append(executed, [target |-> target,
                                      action |-> Scenarios[scenario].actions[action]])
    BY DEF Execute
  <2>2. executed = Reached(scenario, action - 1)
    BY <1>1 DEF InHand
  <2>3. action \in 1 .. Len(Tried(Scenarios[scenario]))
    BY <1>3, <1>4
  <2>4. Reached(scenario, action)
           = Append(Reached(scenario, action - 1), Tried(Scenarios[scenario])[action])
    BY <1>3, <2>3, ReachedMore
  <2>. QED
    BY <1>4, <2>1, <2>2, <2>4
<1>6. CASE \E status : Return(status)
  BY <1>1, <1>5, <1>6, ReturnAtOnceProgress
<1>7. CASE phase' = "handshake" /\ UNCHANGED validator
  <2>1. UNCHANGED <<scenario, target, action>>
    BY <1>7 DEF validator
  <2>2. InHand(action)'
    BY <1>2, <1>3, <1>5, <2>1 DEF InHand
  <2>. QED
    BY <1>1, <1>7, <2>1, <2>2 DEF Progress, Connected
<1>. QED
  BY <1>6, <1>7 DEF Execute

\* Steps that go on with the same action.
LEMMA ConnectedProgress ==
    ASSUME Progress, phase \in Connected, phase' \in Connected,
           UNCHANGED <<validator, executed>>
    PROVE  Progress'
<1>1. InHand(action) /\ UNCHANGED <<scenario, target, action, executed>>
  BY DEF Progress, Connected, validator
<1>. QED
  BY <1>1 DEF Progress, InHand

LEMMA StepProgress == ASSUME Progress, [Next]_vars PROVE Progress'
<1>1. CASE phase \in Connected /\ executed' = executed /\ \E status : Return(status)
  <2>1. InHand(action)
    BY <1>1 DEF Progress, Connected
  <2>. QED
    BY <1>1, <2>1, ReturnProgress
<1>2. CASE HandshakeFails \/ ReceiveFails \/ NoHeader \/ NoMemory
  BY <1>1, <1>2 DEF HandshakeFails, ReceiveFails, NoHeader, NoMemory, Connected
<1>3. CASE Misread \/ FrameEnds
  BY <1>1, <1>3, ResponseReturns DEF Connected
<1>4. CASE ReadHeader \/ ReadLength \/ ReadMask \/ ReadPayload
  <2>1. /\ phase \in Connected /\ phase' \in Connected
        /\ UNCHANGED <<validator, executed>>
    BY <1>4 DEF ReadHeader, ReadLength, ReadMask, ReadPayload, Reading, Then, Connected
  <2>. QED
    BY <2>1, ConnectedProgress
<1>5. CASE Recognizes \/ UserAllows \/ UserDenies
  <2>1. /\ phase \in Connected /\ phase' \in Connected
        /\ UNCHANGED <<validator, executed>>
    BY <1>5 DEF Recognizes, UserAllows, UserDenies, Upgraded, Connected
  <2>. QED
    BY <2>1, ConnectedProgress
<1>6. CASE Revoke \/ UNCHANGED vars
  <2>1. UNCHANGED <<phase, scenario, target, action, executed>>
    BY <1>6 DEF Revoke, vars, validator
  <2>. QED
    BY <2>1 DEF Progress, InHand
<1>. QED
  BY <1>2, <1>3, <1>4, <1>5, <1>6, RunScenarioProgress, DoneProgress, ExecuteProgress
  DEF Next, Program

-----------------------------------------------------------------------------
(* What the engine returns, and what its users are asked.                  *)

Counted ==
    /\ result \in ExecutionStatus
    /\ asked \in [Id -> Nat]

LEMMA ElsewhereType == ASSUME NEW route PROVE Elsewhere(route) \subseteq ExecutionStatus
<1> DEFINE transport == GetTransport(route.transport)
<1>1. transport \in {"SOAP", "DIAL", "WebSocket", "WakeOnLAN", "Unknown", "none"}
  BY RegisteredAssumption DEF GetTransport
<1>2. Elsewhere(route) = CASE transport = "none"      -> {"TransportUnavailable"}
                           [] transport = "Unknown"   -> {"Success"}
                           [] transport = "WakeOnLAN" -> {"Success", "ExecutionFailed"}
                           [] OTHER -> Verdicts(transport, route.command)
  BY DEF Elsewhere
<1> HIDE DEF transport
<1>3. CASE transport \in {"none", "Unknown", "WakeOnLAN"}
  BY <1>2, <1>3 DEF ExecutionStatus
<1>4. CASE transport \in {"SOAP", "DIAL", "WebSocket"}
  <2>1. Elsewhere(route) = Verdicts(transport, route.command)
    BY <1>2, <1>4
  <2>2. Verdicts(transport, route.command) \subseteq ExecutionStatus
    BY <1>4 DEF Verdicts, ExecutionStatus
  <2>. QED
    BY <2>1, <2>2
<1>. QED
  BY <1>1, <1>3, <1>4

LEMMA ReturnedType ==
    ASSUME NEW status \in ExecutionStatus, Return(status)
    PROVE  result' \in ExecutionStatus
  BY DEF Return

LEMMA ExecuteReturns == ASSUME Execute PROVE result' \in ExecutionStatus \/ result' = result
<1>1. "TransportUnavailable" \in ExecutionStatus
  BY DEF ExecutionStatus
<1>2. \A device : Unroutable(device) \subseteq ExecutionStatus
  BY DEF Unroutable, ExecutionStatus
<1>3. \/ \E device : \E status \in Unroutable(device) : Return(status)
      \/ \E route : \E status \in Elsewhere(route) : Return(status)
      \/ Return("TransportUnavailable")
      \/ result' = result
  BY DEF Execute
<1>. QED
  BY <1>1, <1>2, <1>3, ElsewhereType, ReturnedType

LEMMA StepCounted == ASSUME IInv, Counted, [Next]_vars PROVE Counted'
<1>1. {"Success", "AuthenticationRequired", "TransportUnavailable", "ExecutionFailed"}
        \subseteq ExecutionStatus
  BY DEF ExecutionStatus
<1>2. result' \in ExecutionStatus \/ result' = result
  <2>1. CASE \E status \in {"Success", "AuthenticationRequired", "TransportUnavailable",
                            "ExecutionFailed"} : Return(status)
    BY <1>1, <2>1, ReturnedType
  <2>2. CASE HandshakeFails \/ ReceiveFails \/ NoHeader \/ NoMemory
    BY <2>1, <2>2 DEF HandshakeFails, ReceiveFails, NoHeader, NoMemory
  <2>3. CASE Misread \/ FrameEnds
    BY <2>1, <2>3, ResponseReturns
  <2>4. CASE ReadHeader \/ ReadLength \/ ReadMask \/ ReadPayload
    BY <2>4 DEF ReadHeader, ReadLength, ReadMask, ReadPayload, Reading
  <2>5. CASE Recognizes \/ UserAllows \/ UserDenies
    BY <2>5 DEF Recognizes, UserAllows, UserDenies, Upgraded
  <2>6. CASE Revoke \/ UNCHANGED vars \/ RunScenario \/ Done
    BY <2>6 DEF Revoke, vars, RunScenario, Done
  <2>. QED
    BY <2>2, <2>3, <2>4, <2>5, <2>6, ExecuteReturns DEF Next, Program
<1>3. asked' \in [Id -> Nat]
  <2>1. CASE UNCHANGED asked
    BY <2>1 DEF Counted
  <2>2. CASE Asks
    BY <2>2 DEF Asks, Counted, IInv
  <2>3. CASE Program
    <3>1. UNCHANGED tv
      BY <2>3, ProgramAndTV
    <3>. QED
      BY <2>1, <3>1 DEF tv
  <2>4. CASE ReceiveFails \/ Recognizes \/ Revoke \/ UNCHANGED vars
    BY <2>1, <2>4 DEF ReceiveFails, Recognizes, Revoke, vars, tv
  <2>5. CASE UserAllows \/ UserDenies
    BY <2>2, <2>5 DEF UserAllows, UserDenies
  <2>. QED
    BY <2>3, <2>4, <2>5 DEF Next
<1>. QED
  BY <1>2, <1>3 DEF Counted

\* The type of the state, and how far the scenarios have come.
THEOREM ProgressInductive == Spec => [](Framed /\ Counted /\ Progress)
<1>1. Init => Framed /\ Counted /\ Progress
  <2> SUFFICES ASSUME Init PROVE Framed /\ Counted
    BY InitProgress
  <2>1. NoFrame \in FrameType
    BY PairingAssumption DEF NoFrame, FrameType, Vast
  <2>2. Opens(<<>>)
    BY DEF Opens
  <2>. QED
    BY <2>1, <2>2 DEF Init, Framed, Counted, ExecutionStatus
<1>2. /\ IInv /\ Granted /\ Carries /\ Framed /\ Counted /\ Progress /\ [Next]_vars
      => (Framed /\ Counted /\ Progress)'
  BY StepFramed, StepCounted, StepProgress
<1>. QED
  BY <1>1, <1>2, Inductive, PTL DEF Spec

\* The state is of its type: in particular the validator never points outside a
\* scenario, and no frame has a length but one that was sent or is garbage.
THEOREM TypesHold == Spec => []TypeOK
<1>1. IInv /\ Granted /\ Carries /\ Framed /\ Counted /\ Progress => TypeOK
  <2> SUFFICES ASSUME IInv, Granted, Carries, Framed, Counted, Progress PROVE TypeOK
    OBVIOUS
  <2>1. /\ phase \in {"scenario", "execute", "handshake", "header", "length", "mask",
                      "payload", "done"}
        /\ scenario \in 1 .. Len(Scenarios) + 1
        /\ phase \notin {"scenario", "done"} =>
              /\ scenario \in 1 .. Total
              /\ action \in 1 .. Len(Scenarios[scenario].actions)
        /\ phase \in {"scenario", "done"} => action = 1
    BY DEF Progress, InHand, Connected, Total
  <2>2. phase \notin {"scenario", "done"} =>
           /\ action \in DOMAIN Scenarios[scenario].actions
           /\ action \in Nat \ {0}
    <3> SUFFICES ASSUME phase \notin {"scenario", "done"}
                 PROVE  /\ action \in DOMAIN Scenarios[scenario].actions
                        /\ action \in Nat \ {0}
      OBVIOUS
    <3>1. Scenarios[scenario].actions \in Seq(ActionId)
      BY <2>1, ScenariosAreTyped DEF ScenarioType
    <3>. QED
      BY <2>1, <3>1
  <2>3. /\ at \in 1 .. Len(sent) + 1 /\ frame \in FrameType /\ DOMAIN credentials = Id
        /\ target \in Id
    BY DEF IInv, Reads, Framed
  <2>4. /\ granted \in [Id -> SUBSET Token] /\ issued \in [Id -> SUBSET Token]
        /\ learnt \in [Id -> Token \cup {NoToken}]
        /\ result \in ExecutionStatus /\ asked \in [Id -> Nat]
    BY DEF IInv, Granted, Carries, Counted
  <2>. QED
    BY <2>1, <2>2, <2>3, <2>4 DEF TypeOK
<1>. QED
  BY <1>1, Inductive, ProgressInductive, PTL

\* Every scenario tries all its actions, once and in their order, on the first
\* device that has the capability, whatever the TVs do, wherever a Receive
\* throws and whatever the engine returns: for all scenarios and devices.
THEOREM AllActionsAreTried == Spec => []ActionsAreTried
<1>1. Progress => ActionsAreTried
  BY DEF Progress, InHand, Connected, ActionsAreTried
<1>. QED
  BY <1>1, ProgressInductive, PTL
=============================================================================
