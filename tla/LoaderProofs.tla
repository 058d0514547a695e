---------------------------- MODULE LoaderProofs ----------------------------
(***************************************************************************)
(* The loading of a program for any image and chunk size, any number of    *)
(* runs of the host, and a line that loses any number of tokens.           *)
(***************************************************************************)
EXTENDS Loader, SequenceTheorems, WellFoundedInduction, TLAPS

(* A set of numbers that is not empty has a least element.                 *)
LEMMA LeastOf ==
  ASSUME NEW S \in SUBSET Nat, S # {}
  PROVE  \E m \in S : \A z \in S : m <= z
<1>1. PICK m \in S : \A z \in S : ~(z < m)
  <2>1. PICK m \in S : \A z \in S : ~(<<z, m>> \in OpToRel(<, Nat))
    BY NatLessThanWellFounded, WFMin, Zenon
  <2>2. \A z \in S : z < m => <<z, m>> \in OpToRel(<, Nat)
    BY <2>1 DEF OpToRel
  <2>. QED
    BY <2>1, <2>2
<1>2. m \in S /\ \A z \in S : m <= z
  BY <1>1
<1>. QED
  BY <1>2

(* And a greatest one, if it is bounded.                                   *)
LEMMA GreatestOf ==
  ASSUME NEW L \in Nat, NEW S \in SUBSET (1 .. L), S # {}
  PROVE  \E m \in S : \A z \in S : z <= m
<1> DEFINE T == {L - z : z \in S}
<1>1. T \in SUBSET Nat /\ T # {}
  <2>1. PICK z \in S : TRUE
    OBVIOUS
  <2>2. L - z \in T
    BY <2>1
  <2>3. \A y \in S : L - y \in Nat
    OBVIOUS
  <2>. QED
    BY <2>2, <2>3
<1>2. PICK t \in T : \A z \in T : t <= z
  BY <1>1, LeastOf
<1>3. PICK m \in S : t = L - m
  BY <1>2
<1>4. \A z \in S : t <= L - z
  BY <1>2
<1>. QED
  BY <1>3, <1>4

(* What follows the first element of a sequence.                           *)
LEMMA Behind ==
  ASSUME NEW S, NEW f \in Seq(S), f # <<>>
  PROVE  /\ Len(f) \in Nat \ {0} /\ DOMAIN f = 1 .. Len(f)
         /\ Head(f) = f[1] /\ f[1] \in S
         /\ Tail(f) \in Seq(S) /\ Len(Tail(f)) = Len(f) - 1
         /\ DOMAIN Tail(f) = 1 .. Len(f) - 1
         /\ \A i \in 1 .. Len(f) - 1 : Tail(f)[i] = f[i + 1]
OBVIOUS

(* Two sequences, one after the other.                                     *)
LEMMA Joined ==
  ASSUME NEW S, NEW f \in Seq(S), NEW g \in Seq(S)
  PROVE  /\ f \o g \in Seq(S) /\ Len(f \o g) = Len(f) + Len(g)
         /\ Len(f) \in Nat /\ Len(g) \in Nat
         /\ DOMAIN f = 1 .. Len(f) /\ DOMAIN g = 1 .. Len(g)
         /\ DOMAIN (f \o g) = 1 .. Len(f) + Len(g)
         /\ \A i \in 1 .. Len(f) : (f \o g)[i] = f[i]
         /\ \A i \in 1 .. Len(g) : (f \o g)[Len(f) + i] = g[i]
OBVIOUS

(* The beginning of a sequence.                                            *)
LEMMA FirstOf ==
  ASSUME NEW S, NEW f \in Seq(S), NEW m \in 0 .. Len(f)
  PROVE  /\ SubSeq(f, 1, m) \in Seq(S) /\ Len(SubSeq(f, 1, m)) = m
         /\ DOMAIN SubSeq(f, 1, m) = 1 .. m
         /\ \A k \in 1 .. m : SubSeq(f, 1, m)[k] = f[k]
<1>1. SubSeq(f, 1, m) \in Seq(S) /\ Len(SubSeq(f, 1, m)) = m
      /\ \A k \in 1 .. m : SubSeq(f, 1, m)[k] = f[k]
  BY SubSeqProperties
<1>. QED
  BY <1>1

(* A sequence of sequences joined may be bracketed either way.             *)
LEMMA Brackets ==
  ASSUME NEW S, NEW f \in Seq(S), NEW g \in Seq(S), NEW h \in Seq(S)
  PROVE  (f \o g) \o h = f \o (g \o h)
OBVIOUS
-----------------------------------------------------------------------------
(* The bytes that receive() may store, the beginnings of the commands as   *)
(* they were sent and as the line may leave them, and what may be on the   *)
(* line to the device.                                                     *)
Byte == 0 .. 255
Data == {Char(b) : b \in Byte}
Letter == { <<"X", o>> : o \in Offset } \cup { <<"u", 0>>, <<"c", 0>> }
Torn == { <<l, Damaged>> : l \in {"X", "u", "c"} }
Header == Letter \cup Torn
Token == Data \cup Header

(* A byte has another value with its bit 5 flipped, and flipped twice it   *)
(* is the same.                                                            *)
LEMMA Flipped ==
  ASSUME NEW b \in Byte
  PROVE  Flip(b) \in Byte /\ Flip(Flip(b)) = b
BY DEF Flip, Byte

(* What is special is not special when it is escaped.                      *)
LEMMA SpecialFlipped ==
  /\ Special \subseteq Byte
  /\ \A b \in Special : Flip(b) \in Byte \ Special
BY DEF Flip, Special, Byte

(* The tokens differ.                                                      *)
LEMMA Tokens ==
  /\ CtrlC \in Data /\ CR \in Data /\ Esc \in Data
  /\ CtrlC # CR /\ CtrlC # Esc /\ CR # Esc
  /\ \A t \in Header : t \notin Data
  /\ \A t \in Letter : t \notin Data /\ t \in Token
  /\ \A t \in Header : t[1] # "char" /\ (t \in Letter <=> t[2] # Damaged)
  /\ \A b \in Byte \ Special : Char(b) \notin {CtrlC, CR, Esc}
  /\ \A b, c : Char(b) = Char(c) => b = c
BY DEF CtrlC, CR, Esc, Char, Data, Letter, Torn, Header, Token, Damaged,
   Offset, Address, Byte, Special

(* What is written for one byte.                                           *)
LEMMA OneEscaped ==
  ASSUME NEW b \in Byte
  PROVE  Escaped(b) \in Seq(Data)
<1>1. Char(b) \in Data /\ Esc \in Data
  BY Tokens DEF Data
<1>2. CASE b \in Special
  <2>1. Char(Flip(b)) \in Data
    BY Flipped DEF Data
  <2>. QED
    BY <1>1, <1>2, <2>1 DEF Escaped
<1>3. CASE b \notin Special
  BY <1>1, <1>3 DEF Escaped
<1>. QED
  BY <1>2, <1>3

(* A function that has what is written for the bytes of d from the n-th    *)
(* on.                                                                     *)
From(g, d, n) ==
  /\ g \in [n .. Len(d) + 1 -> Seq(Data)]
  /\ g[Len(d) + 1] = <<>>
  /\ \A i \in n .. Len(d) : g[i] = Escaped(d[i]) \o g[i + 1]

(* It has one byte more in front.                                          *)
LEMMA FromEarlier ==
  ASSUME NEW d \in Seq(Byte), NEW n \in 1 .. Len(d), NEW g, From(g, d, n + 1)
  PROVE  \E h : From(h, d, n)
<1> DEFINE L == Len(d)
           x == Escaped(d[n]) \o g[n + 1]
           h == [i \in n .. L + 1 |-> IF i = n THEN x ELSE g[i]]
<1>1. L \in Nat /\ n \in 1 .. L /\ d[n] \in Byte
  OBVIOUS
<1>2. /\ g \in [n + 1 .. L + 1 -> Seq(Data)]
      /\ g[L + 1] = <<>>
      /\ \A i \in n + 1 .. L : g[i] = Escaped(d[i]) \o g[i + 1]
  BY DEF From
<1>3. x \in Seq(Data)
  <2>1. g[n + 1] \in Seq(Data)
    BY <1>1, <1>2
  <2>2. Escaped(d[n]) \in Seq(Data)
    BY <1>1, OneEscaped
  <2>. QED
    BY <2>1, <2>2, Joined
<1> HIDE DEF x, L
<1>4. h \in [n .. L + 1 -> Seq(Data)]
  <2>1. \A i \in n .. L + 1 : i # n => i \in n + 1 .. L + 1
    BY <1>1
  <2>. QED
    BY <1>2, <1>3, <2>1
<1>5. \A i \in n + 1 .. L + 1 : h[i] = g[i]
  BY <1>1
<1>6. h[n] = x
  BY <1>1
<1> HIDE DEF h
<1>7. h[L + 1] = <<>>
  BY <1>1, <1>2, <1>5
<1>8. ASSUME NEW i \in n .. L
      PROVE  h[i] = Escaped(d[i]) \o h[i + 1]
  <2>1. i + 1 \in n + 1 .. L + 1 /\ h[i + 1] = g[i + 1]
    BY <1>1, <1>5
  <2>2. CASE i = n
    BY <1>6, <2>1, <2>2 DEF x
  <2>3. CASE i # n
    <3>1. i \in n + 1 .. L /\ i \in n + 1 .. L + 1
      BY <1>1, <2>3
    <3>. QED
      BY <1>2, <1>5, <2>1, <3>1
  <2>. QED
    BY <2>2, <2>3
<1>9. From(h, d, n)
  BY <1>4, <1>7, <1>8 DEF From, L
<1>. QED
  BY <1>9

(* There is such a function for the whole of d.                            *)
LEMMA FromFirst ==
  ASSUME NEW d \in Seq(Byte)
  PROVE  \E g : From(g, d, 1)
<1> DEFINE L == Len(d)
           B == {n \in 1 .. L + 1 : ~ \E g : From(g, d, n)}
<1>1. L \in Nat /\ 1 \in 1 .. L + 1
  OBVIOUS
<1>2. \E g : From(g, d, L + 1)
  <2> DEFINE g == [i \in L + 1 .. L + 1 |-> <<>>]
  <2>1. g \in [L + 1 .. L + 1 -> Seq(Data)] /\ g[L + 1] = <<>>
    BY <1>1
  <2>2. \A i \in L + 1 .. L : FALSE
    BY <1>1
  <2>3. From(g, d, L + 1)
    BY <2>1, <2>2 DEF From
  <2>. QED
    BY <2>3
<1>3. B = {}
  <2> SUFFICES ASSUME B # {} PROVE FALSE
    OBVIOUS
  <2>1. L + 1 \in Nat /\ B \in SUBSET (1 .. L + 1)
    BY <1>1
  <2>2. \A n \in 1 .. L + 1 : n \notin B => \E g : From(g, d, n)
    OBVIOUS
  <2>3. \A n \in B : ~ \E g : From(g, d, n)
    OBVIOUS
  <2> HIDE DEF B
  <2>4. PICK n \in B : \A z \in B : z <= n
    BY <2>1, GreatestOf
  <2>5. n # L + 1
    BY <1>2, <2>3
  <2>6. n \in 1 .. L /\ n + 1 \in 1 .. L + 1 /\ n + 1 \notin B
    BY <1>1, <2>1, <2>4, <2>5
  <2>7. PICK g : From(g, d, n + 1)
    BY <2>2, <2>6
  <2>. QED
    BY <2>3, <2>6, <2>7, FromEarlier
<1>. QED
  BY <1>1, <1>3

(* What is written for the bytes from the n-th on is what is written for   *)
(* that one and what is written for the rest.                              *)
LEMMA Encoded ==
  ASSUME NEW d \in Seq(Byte)
  PROVE  /\ EncodedFrom(d)[Len(d) + 1] = <<>>
         /\ \A n \in 1 .. Len(d) :
              EncodedFrom(d)[n] = Escaped(d[n]) \o EncodedFrom(d)[n + 1]
         /\ \A n \in 1 .. Len(d) + 1 : EncodedFrom(d)[n] \in Seq(Data)
<1> DEFINE L == Len(d)
           Eq(f) == f = [n \in 1 .. L + 1 |->
                           IF n > L THEN <<>> ELSE Escaped(d[n]) \o f[n + 1]]
           e == EncodedFrom(d)
<1>1. L \in Nat
  OBVIOUS
<1>2. PICK g : From(g, d, 1)
  BY FromFirst
<1>3. Eq(g)
  <2>1. /\ g = [n \in 1 .. L + 1 |-> g[n]]
        /\ g[L + 1] = <<>>
        /\ \A n \in 1 .. L : g[n] = Escaped(d[n]) \o g[n + 1]
    BY <1>2 DEF From
  <2>2. ASSUME NEW n \in 1 .. L + 1
        PROVE  g[n] = IF n > L THEN <<>> ELSE Escaped(d[n]) \o g[n + 1]
    <3>1. CASE n > L
      <4>1. n = L + 1
        BY <1>1, <3>1
      <4>. QED
        BY <2>1, <3>1, <4>1
    <3>2. CASE ~(n > L)
      <4>1. n \in 1 .. L
        BY <1>1, <3>2
      <4>. QED
        BY <2>1, <3>2, <4>1
    <3>. QED
      BY <3>1, <3>2
  <2> HIDE DEF L
  <2>. QED
    BY <2>1, <2>2
<1>4. e = CHOOSE f : Eq(f)
  BY DEF EncodedFrom
<1>5. Eq(e)
  BY <1>3, <1>4
<1> HIDE DEF e
<1>6. ASSUME NEW n \in 1 .. L + 1
      PROVE  e[n] = IF n > L THEN <<>> ELSE Escaped(d[n]) \o e[n + 1]
  <2> HIDE DEF L
  <2>. QED
    BY <1>5
<1>7. e[L + 1] = <<>>
  <2>1. L + 1 \in 1 .. L + 1 /\ L + 1 > L
    BY <1>1
  <2> HIDE DEF L
  <2>. QED
    BY <1>6, <2>1
<1>8. ASSUME NEW n \in 1 .. L
      PROVE  e[n] = Escaped(d[n]) \o e[n + 1]
  <2>1. n \in 1 .. L + 1 /\ ~(n > L)
    BY <1>1
  <2> HIDE DEF L
  <2>. QED
    BY <1>6, <2>1
<1>9. \A n \in 1 .. L + 1 : e[n] \in Seq(Data)
  <2> DEFINE B == {n \in 1 .. L + 1 : e[n] \notin Seq(Data)}
  <2> SUFFICES ASSUME B # {} PROVE FALSE
    OBVIOUS
  <2>1. L + 1 \in Nat /\ B \in SUBSET (1 .. L + 1)
    BY <1>1
  <2>2. \A n \in 1 .. L + 1 : n \in B <=> e[n] \notin Seq(Data)
    OBVIOUS
  <2> HIDE DEF B
  <2>3. PICK n \in B : \A z \in B : z <= n
    BY <2>1, GreatestOf
  <2>4. n # L + 1
    <3>1. e[L + 1] \in Seq(Data)
      <4>1. <<>> \in Seq(Data)
        OBVIOUS
      <4>. QED
        BY <1>7, <4>1
    <3>. QED
      BY <2>1, <2>2, <2>3, <3>1
  <2>5. n \in 1 .. L /\ n + 1 \in 1 .. L + 1 /\ n + 1 \notin B
    BY <1>1, <2>1, <2>3, <2>4
  <2>6. e[n + 1] \in Seq(Data) /\ Escaped(d[n]) \in Seq(Data)
    BY <2>2, <2>5, OneEscaped
  <2>7. e[n] \in Seq(Data)
    <3>1. Escaped(d[n]) \o e[n + 1] \in Seq(Data)
      BY <2>6, Joined
    <3>. QED
      BY <1>8, <2>5, <3>1
  <2>. QED
    BY <2>1, <2>2, <2>3, <2>7
<1>. QED
  BY <1>7, <1>8, <1>9 DEF e
-----------------------------------------------------------------------------
(* What receive() puts in its buffer.                                      *)
IsStored(t) == t \notin {CtrlC, Esc, CR}

(* The tokens of f that are stored find a place each, in their order,      *)
(* behind the first a places of a buffer of b.                             *)
Places(slot, f, a, b) ==
  \A i \in 1 .. Len(f) : IsStored(f[i]) =>
    /\ a < slot[i] /\ slot[i] <= b
    /\ \A j \in 1 .. i - 1 : IsStored(f[j]) => slot[j] < slot[i]

Fits(f, a, b) == \E slot \in [1 .. Len(f) -> Nat] : Places(slot, f, a, b)

(* What is not stored needs no room.                                       *)
LEMMA NothingFits ==
  ASSUME NEW f \in Seq(Token), NEW a, NEW b,
         \A i \in 1 .. Len(f) : ~IsStored(f[i])
  PROVE  Fits(f, a, b)
<1> DEFINE slot == [i \in 1 .. Len(f) |-> 0]
<1>1. slot \in [1 .. Len(f) -> Nat] /\ Places(slot, f, a, b)
  BY DEF Places
<1>. QED
  BY <1>1 DEF Fits

(* One token needs one place.                                              *)
LEMMA OneFits ==
  ASSUME NEW t \in Token, NEW a \in Nat
  PROVE  Fits(<<t>>, a, a + 1)
<1> DEFINE slot == [i \in 1 .. 1 |-> a + 1]
<1>1. slot \in [1 .. 1 -> Nat] /\ Len(<<t>>) = 1
  OBVIOUS
<1>2. Places(slot, <<t>>, a, a + 1)
  BY <1>1 DEF Places
<1>. QED
  BY <1>1, <1>2 DEF Fits

(* Two parts that fit one behind the other.                                *)
LEMMA JoinedFits ==
  ASSUME NEW f \in Seq(Token), NEW g \in Seq(Token),
         NEW a \in Nat, NEW b \in Nat, NEW c \in Nat, a <= b, b <= c,
         Fits(f, a, b), Fits(g, b, c)
  PROVE  Fits(f \o g, a, c)
<1> DEFINE m == Len(f)
           n == Len(g)
           h == f \o g
<1>1. PICK s \in [1 .. m -> Nat] : Places(s, f, a, b)
  BY DEF Fits
<1>2. PICK t \in [1 .. n -> Nat] : Places(t, g, b, c)
  BY DEF Fits
<1>3. /\ m \in Nat /\ n \in Nat /\ Len(h) = m + n
      /\ \A i \in 1 .. m : h[i] = f[i]
      /\ \A i \in 1 .. n : h[m + i] = g[i]
  BY Joined
<1> HIDE DEF m, n, h
<1>4. \A i \in 1 .. m + n : i \notin 1 .. m => i - m \in 1 .. n /\ h[i] = g[i - m]
  <2>1. \A i \in 1 .. m + n : i \notin 1 .. m => i - m \in 1 .. n /\ m + (i - m) = i
    BY <1>3
  <2>. QED
    BY <1>3, <2>1
<1> DEFINE slot == [i \in 1 .. m + n |-> IF i \in 1 .. m THEN s[i] ELSE t[i - m]]
<1>5. slot \in [1 .. m + n -> Nat]
  BY <1>1, <1>2, <1>4
<1>6. /\ \A i \in 1 .. m : slot[i] = s[i]
      /\ \A i \in 1 .. m + n : i \notin 1 .. m => slot[i] = t[i - m]
  BY <1>3
<1> HIDE DEF slot
<1>7. ASSUME NEW i \in 1 .. m + n, IsStored(h[i])
      PROVE  /\ a < slot[i] /\ slot[i] <= c
             /\ \A j \in 1 .. i - 1 : IsStored(h[j]) => slot[j] < slot[i]
  <2>1. CASE i \in 1 .. m
    <3>1. a < s[i] /\ s[i] <= b /\ s[i] \in Nat
      BY <1>1, <1>3, <1>7, <2>1 DEF Places, m
    <3>2. ASSUME NEW j \in 1 .. i - 1, IsStored(h[j])
          PROVE  slot[j] < slot[i]
      <4>1. j \in 1 .. m
        BY <1>3, <2>1
      <4>. QED
        BY <1>1, <1>3, <1>6, <1>7, <2>1, <3>2, <4>1 DEF Places, m
    <3>. QED
      BY <1>6, <2>1, <3>1, <3>2
  <2>2. CASE i \notin 1 .. m
    <3>1. i - m \in 1 .. n /\ IsStored(g[i - m])
      BY <1>4, <1>7, <2>2
    <3>2. b < t[i - m] /\ t[i - m] <= c /\ t[i - m] \in Nat
      BY <1>2, <3>1 DEF Places, n
    <3>3. ASSUME NEW j \in 1 .. i - 1, IsStored(h[j])
          PROVE  slot[j] < slot[i]
      <4>1. CASE j \in 1 .. m
        <5>1. s[j] <= b /\ s[j] \in Nat
          BY <1>1, <1>3, <3>3, <4>1 DEF Places, m
        <5>. QED
          BY <1>6, <2>2, <3>2, <4>1, <5>1
      <4>2. CASE j \notin 1 .. m
        <5>1. j \in 1 .. m + n
          BY <1>3
        <5>2. j - m \in 1 .. n /\ IsStored(g[j - m])
          BY <1>4, <3>3, <4>2, <5>1
        <5>3. j - m \in 1 .. (i - m) - 1
          BY <1>3, <5>2
        <5>4. t[j - m] < t[i - m]
          BY <1>2, <3>1, <5>2, <5>3 DEF Places, n
        <5>. QED
          BY <1>6, <2>2, <4>2, <5>1, <5>4
      <4>. QED
        BY <4>1, <4>2
    <3>. QED
      BY <1>6, <2>2, <3>2, <3>3
  <2>. QED
    BY <2>1, <2>2
<1>8. Places(slot, h, a, c)
  BY <1>3, <1>7 DEF Places
<1>. QED
  BY <1>3, <1>5, <1>8 DEF Fits, h

(* What fits fits without its first token, and then leaves the place that  *)
(* this one was given.                                                     *)
LEMMA RestFits ==
  ASSUME NEW f \in Seq(Token), f # <<>>, NEW a \in Nat, NEW b \in Nat, Fits(f, a, b)
  PROVE  /\ Fits(Tail(f), a, b)
         /\ IsStored(Head(f)) => a + 1 <= b /\ Fits(Tail(f), a + 1, b)
<1> DEFINE r == Tail(f)
<1>1. PICK s \in [1 .. Len(f) -> Nat] : Places(s, f, a, b)
  BY DEF Fits
<1>2. /\ Len(f) \in Nat \ {0} /\ Head(f) = f[1] /\ Len(r) = Len(f) - 1
      /\ \A i \in 1 .. Len(f) - 1 : r[i] = f[i + 1]
  BY Behind
<1> HIDE DEF r
<1> DEFINE slot == [i \in 1 .. Len(r) |-> s[i + 1]]
<1>3. /\ \A i \in 1 .. Len(r) : i + 1 \in 1 .. Len(f) /\ r[i] = f[i + 1]
      /\ \A i \in 1 .. Len(r) : slot[i] = s[i + 1]
      /\ \A i \in 1 .. Len(r) : s[i + 1] \in Nat
      /\ slot \in [1 .. Len(r) -> Nat]
  BY <1>2
<1> HIDE DEF slot
<1>4. ASSUME NEW i \in 1 .. Len(r), IsStored(r[i])
      PROVE  /\ a < slot[i] /\ slot[i] <= b
             /\ \A j \in 1 .. i - 1 : IsStored(r[j]) => slot[j] < slot[i]
             /\ IsStored(f[1]) => a + 1 < slot[i]
  <2>1. i + 1 \in 1 .. Len(f) /\ IsStored(f[i + 1]) /\ slot[i] = s[i + 1]
    BY <1>3, <1>4
  <2>2. a < s[i + 1] /\ s[i + 1] <= b
    BY <1>1, <2>1 DEF Places
  <2>3. ASSUME NEW j \in 1 .. i - 1, IsStored(r[j])
        PROVE  slot[j] < slot[i]
    <3>1. j \in 1 .. Len(r) /\ j + 1 \in 1 .. (i + 1) - 1
      BY <1>2
    <3>2. s[j + 1] < s[i + 1]
      BY <1>1, <1>3, <2>1, <2>3, <3>1 DEF Places
    <3>. QED
      BY <1>3, <2>1, <3>1, <3>2
  <2>4. ASSUME IsStored(f[1])
        PROVE  a + 1 < slot[i]
    <3>1. 1 \in 1 .. (i + 1) - 1 /\ 1 \in 1 .. Len(f)
      BY <1>2
    <3>2. a < s[1] /\ s[1] < s[i + 1] /\ s[1] \in Nat
      BY <1>1, <2>1, <2>4, <3>1 DEF Places
    <3>. QED
      BY <1>3, <2>1, <3>2
  <2>. QED
    BY <2>1, <2>2, <2>3, <2>4
<1>5. Places(slot, r, a, b)
  BY <1>4 DEF Places
<1>6. ASSUME IsStored(f[1])
      PROVE  a + 1 <= b /\ Places(slot, r, a + 1, b)
  <2>1. 1 \in 1 .. Len(f)
    BY <1>2
  <2>2. a < s[1] /\ s[1] <= b /\ s[1] \in Nat
    BY <1>1, <1>6, <2>1 DEF Places
  <2>3. Places(slot, r, a + 1, b)
    BY <1>4, <1>6 DEF Places
  <2>. QED
    BY <2>2, <2>3
<1>. QED
  BY <1>2, <1>3, <1>5, <1>6 DEF Fits, r

(* And so does a beginning of it.                                          *)
LEMMA FirstFits ==
  ASSUME NEW f \in Seq(Token), NEW m \in 0 .. Len(f), NEW a, NEW b, Fits(f, a, b)
  PROVE  Fits(SubSeq(f, 1, m), a, b)
<1> DEFINE p == SubSeq(f, 1, m)
<1>1. PICK s \in [1 .. Len(f) -> Nat] : Places(s, f, a, b)
  BY DEF Fits
<1>2. Len(p) = m /\ Len(f) \in Nat /\ \A i \in 1 .. m : p[i] = f[i]
  BY FirstOf
<1> HIDE DEF p
<1> DEFINE slot == [i \in 1 .. m |-> s[i]]
<1>3. /\ slot \in [1 .. m -> Nat] /\ \A i \in 1 .. m : slot[i] = s[i]
      /\ \A i \in 1 .. m : i \in 1 .. Len(f)
  BY <1>2
<1> HIDE DEF slot
<1>4. ASSUME NEW i \in 1 .. m, IsStored(p[i])
      PROVE  /\ a < slot[i] /\ slot[i] <= b
             /\ \A j \in 1 .. i - 1 : IsStored(p[j]) => slot[j] < slot[i]
  <2>1. i \in 1 .. Len(f) /\ IsStored(f[i])
    BY <1>2, <1>3, <1>4
  <2>2. \A j \in 1 .. i - 1 : j \in 1 .. m
    BY <1>2
  <2>. QED
    BY <1>1, <1>2, <1>3, <2>1, <2>2 DEF Places
<1>5. Places(slot, p, a, b)
  BY <1>2, <1>4 DEF Places
<1>. QED
  BY <1>2, <1>3, <1>5 DEF Fits, p

(* What is written for the bytes from the n-th on has no Ctrl-C and no end *)
(* of a frame in it, and fits into the places of these bytes behind a      *)
(* letter.                                                                 *)
Plain(f) == \A i \in 1 .. Len(f) : f[i] \in Data \ {CtrlC, CR}

(* What is written for one byte takes one place.                           *)
LEMMA OnePlain ==
  ASSUME NEW b \in Byte, NEW n \in Nat
  PROVE  Plain(Escaped(b)) /\ Fits(Escaped(b), n, n + 1)
<1>1. CASE b \in Special
  <2> DEFINE c == Char(Flip(b))
  <2>1. Flip(b) \in Byte \ Special
    BY <1>1, SpecialFlipped
  <2>2. c \in Data /\ c \notin {CtrlC, CR, Esc}
    BY <2>1, Tokens DEF Data
  <2>3. Escaped(b) = <<Esc>> \o <<c>>
    BY <1>1 DEF Escaped
  <2> HIDE DEF c
  <2>4. Plain(<<Esc>> \o <<c>>)
    BY <2>2, Tokens DEF Plain
  <2>5. Fits(<<Esc>>, n, n) /\ Fits(<<c>>, n, n + 1)
    <3>1. <<Esc>> \in Seq(Token) /\ \A i \in 1 .. Len(<<Esc>>) : ~IsStored(<<Esc>>[i])
      BY Tokens DEF Token, IsStored
    <3>2. c \in Token
      BY <2>2 DEF Token
    <3>. QED
      BY <3>1, <3>2, NothingFits, OneFits
  <2>6. Fits(<<Esc>> \o <<c>>, n, n + 1)
    <3>1. <<Esc>> \in Seq(Token) /\ <<c>> \in Seq(Token) /\ n + 1 \in Nat
          /\ n <= n /\ n <= n + 1
      BY <2>2, Tokens DEF Token
    <3>. QED
      BY <2>5, <3>1, JoinedFits
  <2>. QED
    BY <2>3, <2>4, <2>6
<1>2. CASE b \notin Special
  <2> DEFINE c == Char(b)
  <2>1. c \in Data /\ c \notin {CtrlC, CR, Esc} /\ c \in Token
    BY <1>2, Tokens DEF Data, Token
  <2>2. Escaped(b) = <<c>>
    BY <1>2 DEF Escaped
  <2> HIDE DEF c
  <2>3. Plain(<<c>>)
    BY <2>1 DEF Plain
  <2>. QED
    BY <2>1, <2>2, <2>3, OneFits
<1>. QED
  BY <1>1, <1>2

(* Two parts without Ctrl-C and end have none together.                    *)
LEMMA JoinedPlain ==
  ASSUME NEW f \in Seq(Data), NEW g \in Seq(Data), Plain(f), Plain(g)
  PROVE  Plain(f \o g)
<1> DEFINE h == f \o g
<1>1. /\ Len(f) \in Nat /\ Len(g) \in Nat /\ Len(h) = Len(f) + Len(g)
      /\ \A i \in 1 .. Len(f) : h[i] = f[i]
      /\ \A i \in 1 .. Len(g) : h[Len(f) + i] = g[i]
  BY Joined
<1> HIDE DEF h
<1>2. ASSUME NEW i \in 1 .. Len(f) + Len(g)
      PROVE  h[i] \in Data \ {CtrlC, CR}
  <2>1. CASE i \in 1 .. Len(f)
    BY <1>1, <2>1 DEF Plain
  <2>2. CASE i \notin 1 .. Len(f)
    <3>1. i - Len(f) \in 1 .. Len(g) /\ Len(f) + (i - Len(f)) = i
      BY <1>1, <2>2
    <3>. QED
      BY <1>1, <3>1 DEF Plain
  <2>. QED
    BY <2>1, <2>2
<1>. QED
  BY <1>1, <1>2 DEF Plain, h

(* And what is written for all the bytes from the n-th on.                 *)
LEMMA EncodedFits ==
  ASSUME NEW d \in Seq(Byte)
  PROVE  \A n \in 1 .. Len(d) + 1 :
           /\ Plain(EncodedFrom(d)[n])
           /\ Fits(EncodedFrom(d)[n], n, Len(d) + 1)
<1> DEFINE L == Len(d)
           e == EncodedFrom(d)
           Ok(n) == Plain(e[n]) /\ Fits(e[n], n, L + 1)
           B == {n \in 1 .. L + 1 : ~Ok(n)}
<1> SUFFICES B = {}
  OBVIOUS
<1> SUFFICES ASSUME B # {} PROVE FALSE
  OBVIOUS
<1>1. L \in Nat /\ \A n \in 1 .. L : d[n] \in Byte
  OBVIOUS
<1>2. /\ e[L + 1] = <<>>
      /\ \A n \in 1 .. L : e[n] = Escaped(d[n]) \o e[n + 1]
      /\ \A n \in 1 .. L + 1 : e[n] \in Seq(Data)
  BY Encoded
<1>3. L + 1 \in Nat /\ B \in SUBSET (1 .. L + 1)
  BY <1>1
<1>4. \A n \in 1 .. L + 1 : n \in B <=> ~Ok(n)
  OBVIOUS
<1> HIDE DEF B, L, e
<1>5. PICK n \in B : \A z \in B : z <= n
  BY <1>3, GreatestOf
<1>6. n # L + 1
  <2>1. /\ <<>> \in Seq(Token) /\ \A i \in 1 .. Len(<<>>) : ~IsStored(<<>>[i])
        /\ \A i \in 1 .. Len(<<>>) : <<>>[i] \in Data \ {CtrlC, CR}
    OBVIOUS
  <2>2. Plain(<<>>) /\ Fits(<<>>, L + 1, L + 1)
    BY <2>1, NothingFits DEF Plain
  <2>3. Ok(L + 1)
    BY <1>2, <2>2
  <2>. QED
    BY <1>3, <1>4, <1>5, <2>3
<1>7. n \in 1 .. L /\ n + 1 \in 1 .. L + 1 /\ Ok(n + 1)
  BY <1>1, <1>3, <1>4, <1>5, <1>6
<1>8. Ok(n)
  <2> DEFINE x == Escaped(d[n])
             r == e[n + 1]
  <2>1. x \in Seq(Data) /\ r \in Seq(Data) /\ e[n] = x \o r
    BY <1>1, <1>2, <1>7, OneEscaped
  <2>2. Plain(x) /\ Fits(x, n, n + 1)
    BY <1>1, <1>7, OnePlain
  <2>3. Plain(r) /\ Fits(r, n + 1, L + 1)
    BY <1>7
  <2>4. /\ x \in Seq(Token) /\ r \in Seq(Token)
        /\ n \in Nat /\ n + 1 \in Nat /\ L + 1 \in Nat
        /\ n <= n + 1 /\ n + 1 <= L + 1
    BY <1>1, <1>7, <2>1 DEF Token
  <2> HIDE DEF x, r
  <2>5. Plain(x \o r) /\ Fits(x \o r, n, L + 1)
    BY <2>1, <2>2, <2>3, <2>4, JoinedPlain, JoinedFits
  <2>. QED
    BY <2>1, <2>5
<1>. QED
  BY <1>3, <1>4, <1>5, <1>8
-----------------------------------------------------------------------------
(* The bytes that a chunk has.                                             *)
LEMMA ChunkFacts ==
  ASSUME NEW o \in Offset
  PROVE  /\ Chunk(o) \in Seq(Byte) /\ Len(Chunk(o)) <= ChunkSize
         /\ o \in Nat /\ o < Len(Image)
         /\ \A i \in 1 .. Len(Chunk(o)) :
              o + i \in 1 .. Len(Image) /\ Chunk(o)[i] = Image[o + i]
         /\ \A a \in Address : a \in o .. o + ChunkSize - 1
                               => a - o + 1 \in 1 .. Len(Chunk(o))
<1> DEFINE L == Len(Image)
           z == IF o + ChunkSize > L THEN L ELSE o + ChunkSize
           c == Chunk(o)
<1>1. L \in Nat /\ Image \in Seq(Byte)
  BY ImageAssumption DEF Byte
<1>2. o \in 0 .. L - 1 /\ ChunkSize \in Nat \ {0}
  BY ChunkAssumption DEF Offset, Address
<1>3. o + 1 \in 1 .. L + 1 /\ z \in o .. L /\ z <= o + ChunkSize
  BY <1>1, <1>2
<1>4. c = SubSeq(Image, o + 1, z)
  BY DEF Chunk
<1> HIDE DEF z, c, L
<1>5. c \in Seq(Byte) /\ Len(c) = z - o /\ \A i \in 1 .. z - o : c[i] = Image[o + i]
  <2>1. \A i \in o + 1 .. z : Image[i] \in Byte
    BY <1>1, <1>2, <1>3 DEF L
  <2>2. /\ SubSeq(Image, o + 1, z) \in Seq(Byte)
        /\ Len(SubSeq(Image, o + 1, z)) = IF o + 1 <= z THEN z - (o + 1) + 1 ELSE 0
        /\ \A i \in 1 .. z - (o + 1) + 1 :
             SubSeq(Image, o + 1, z)[i] = Image[o + 1 + i - 1]
    BY <1>1, <1>2, <1>3, SubSeqProperties DEF L
  <2>3. \A i \in 1 .. z - o : o + 1 + i - 1 = o + i
    BY <1>1, <1>2, <1>3
  <2>. QED
    BY <1>1, <1>2, <1>3, <1>4, <2>2, <2>3
<1>6. \A a \in Address : a \in o .. o + ChunkSize - 1 => a - o + 1 \in 1 .. z - o
  BY <1>1, <1>2, <1>3 DEF Address, L, z
<1>. QED
  BY <1>1, <1>2, <1>3, <1>5, <1>6 DEF c, L

(* The bytes that a frame has behind its letter, the frame, what of it     *)
(* receive() has stored before the n-th byte and what is on its way then.  *)
Payload(t) == IF t[1] = "X" THEN Chunk(t[2]) ELSE <<>>
Frame(t) == <<t>> \o Encode(Payload(t)) \o <<CR>>
Stored(t, n) == <<t>> \o [i \in 1 .. n |-> Char(Payload(t)[i])]
Ahead(t, n) == EncodedFrom(Payload(t))[n] \o <<CR>>

(* A frame's bytes are bytes, and no more than a chunk of them.            *)
LEMMA PayloadType ==
  ASSUME NEW t \in Letter
  PROVE  /\ Payload(t) \in Seq(Byte) /\ Len(Payload(t)) \in Nat
         /\ Len(Payload(t)) <= ChunkSize
         /\ \A n \in 1 .. Len(Payload(t)) : Payload(t)[n] \in Byte
<1>1. CASE t[1] = "X"
  <2>1. t[2] \in Offset
    BY <1>1 DEF Letter
  <2>2. Payload(t) = Chunk(t[2])
    BY <1>1 DEF Payload
  <2>. QED
    BY <2>1, <2>2, ChunkFacts
<1>2. CASE t[1] # "X"
  BY <1>2, ChunkAssumption DEF Payload
<1>. QED
  BY <1>1, <1>2

(* What is on its way when the bytes before the n-th are stored.           *)
LEMMA AheadFacts ==
  ASSUME NEW t \in Letter, NEW n \in 1 .. Len(Payload(t)) + 1
  PROVE  LET d == Payload(t) IN
         /\ Ahead(t, n) \in Seq(Data) /\ Ahead(t, n) # <<>>
         /\ n = Len(d) + 1 => Ahead(t, n) = <<CR>>
         /\ n <= Len(d) /\ d[n] \in Special =>
              /\ Head(Ahead(t, n)) = Esc
              /\ Tail(Ahead(t, n)) = <<Char(Flip(d[n]))>> \o Ahead(t, n + 1)
         /\ n <= Len(d) /\ d[n] \notin Special =>
              /\ Head(Ahead(t, n)) = Char(d[n])
              /\ Tail(Ahead(t, n)) = Ahead(t, n + 1)
<1> DEFINE d == Payload(t)
           e == EncodedFrom(d)
<1>1. d \in Seq(Byte) /\ Len(d) \in Nat /\ \A i \in 1 .. Len(d) : d[i] \in Byte
  BY PayloadType
<1>2. /\ e[Len(d) + 1] = <<>>
      /\ \A i \in 1 .. Len(d) : e[i] = Escaped(d[i]) \o e[i + 1]
      /\ \A i \in 1 .. Len(d) + 1 : e[i] \in Seq(Data)
  BY <1>1, Encoded
<1>3. \A i : Ahead(t, i) = e[i] \o <<CR>>
  BY DEF Ahead
<1>4. CR \in Data /\ <<CR>> \in Seq(Data) /\ n \in 1 .. Len(d) + 1
  BY Tokens
<1> HIDE DEF d, e
<1>5. Ahead(t, n) \in Seq(Data) /\ Ahead(t, n) # <<>>
  <2>1. e[n] \in Seq(Data)
    BY <1>2, <1>4
  <2>2. e[n] \o <<CR>> \in Seq(Data) /\ Len(e[n] \o <<CR>>) = Len(e[n]) + 1
        /\ Len(e[n]) \in Nat
    BY <1>4, <2>1, Joined
  <2>3. e[n] \o <<CR>> # <<>>
    BY <2>2
  <2>. QED
    BY <1>3, <2>2, <2>3
<1>6. ASSUME n = Len(d) + 1
      PROVE  Ahead(t, n) = <<CR>>
  <2>1. <<>> \o <<CR>> = <<CR>>
    OBVIOUS
  <2>2. e[n] = <<>>
    BY <1>2, <1>6
  <2>. QED
    BY <1>3, <2>1, <2>2
<1>7. ASSUME n <= Len(d)
      PROVE  /\ n + 1 \in 1 .. Len(d) + 1 /\ e[n + 1] \in Seq(Data)
             /\ Ahead(t, n) = Escaped(d[n]) \o Ahead(t, n + 1)
             /\ Ahead(t, n + 1) \in Seq(Data) /\ d[n] \in Byte
  <2>1. n \in 1 .. Len(d) /\ n + 1 \in 1 .. Len(d) + 1
    BY <1>1, <1>4, <1>7
  <2>2. e[n + 1] \in Seq(Data) /\ Escaped(d[n]) \in Seq(Data) /\ d[n] \in Byte
    BY <1>1, <1>2, <2>1, OneEscaped
  <2>3. (Escaped(d[n]) \o e[n + 1]) \o <<CR>> = Escaped(d[n]) \o (e[n + 1] \o <<CR>>)
    <3> DEFINE x == Escaped(d[n])
               y == e[n + 1]
    <3>1. x \in Seq(Data) /\ y \in Seq(Data) /\ <<CR>> \in Seq(Data)
      BY <1>4, <2>2
    <3> HIDE DEF x, y
    <3>2. (x \o y) \o <<CR>> = x \o (y \o <<CR>>)
      BY <3>1, Brackets
    <3>. QED
      BY <3>2 DEF x, y
  <2>4. e[n + 1] \o <<CR>> \in Seq(Data)
    BY <1>4, <2>2, Joined
  <2>. QED
    BY <1>2, <1>3, <2>1, <2>2, <2>3, <2>4
<1>8. ASSUME n <= Len(d), d[n] \in Special
      PROVE  /\ Head(Ahead(t, n)) = Esc
             /\ Tail(Ahead(t, n)) = <<Char(Flip(d[n]))>> \o Ahead(t, n + 1)
  <2> DEFINE c == Char(Flip(d[n]))
             r == Ahead(t, n + 1)
  <2>1. Ahead(t, n) = <<Esc, c>> \o r /\ r \in Seq(Data)
    BY <1>7, <1>8 DEF Escaped
  <2>2. c \in Data /\ Esc \in Data
    BY <1>7, <1>8, Flipped, Tokens DEF Data
  <2> HIDE DEF c, r
  <2>3. Head(<<Esc, c>> \o r) = Esc /\ Tail(<<Esc, c>> \o r) = <<c>> \o r
    BY <2>1, <2>2
  <2>. QED
    BY <2>1, <2>3 DEF c, r
<1>9. ASSUME n <= Len(d), d[n] \notin Special
      PROVE  /\ Head(Ahead(t, n)) = Char(d[n])
             /\ Tail(Ahead(t, n)) = Ahead(t, n + 1)
  <2> DEFINE c == Char(d[n])
             r == Ahead(t, n + 1)
  <2>1. Ahead(t, n) = <<c>> \o r /\ r \in Seq(Data)
    BY <1>7, <1>9 DEF Escaped
  <2>2. c \in Data
    BY <1>7, <1>9 DEF Data
  <2> HIDE DEF c, r
  <2>3. Head(<<c>> \o r) = c /\ Tail(<<c>> \o r) = r
    BY <2>1, <2>2
  <2>. QED
    BY <2>1, <2>3 DEF c, r
<1>. QED
  BY <1>5, <1>6, <1>8, <1>9 DEF d

(* A frame: a letter, what is no Ctrl-C and no end of a frame, and its end.*)
LEMMA FrameFacts ==
  ASSUME NEW t \in Letter
  PROVE  /\ Frame(t) \in Seq(Token) /\ Len(Frame(t)) \in Nat /\ Len(Frame(t)) >= 2
         /\ Frame(t)[1] = t /\ Frame(t)[Len(Frame(t))] = CR
         /\ \A i \in 2 .. Len(Frame(t)) - 1 : Frame(t)[i] \in Data \ {CtrlC, CR}
         /\ Head(Frame(t)) = t /\ Tail(Frame(t)) = Ahead(t, 1)
         /\ Fits(Frame(t), 0, ChunkSize + 1)
<1> DEFINE d == Payload(t)
           e == Encode(d)
           f == Frame(t)
<1>1. d \in Seq(Byte) /\ Len(d) \in Nat /\ Len(d) <= ChunkSize
  BY PayloadType
<1>2. e \in Seq(Data) /\ Plain(e) /\ Fits(e, 1, Len(d) + 1) /\ e = EncodedFrom(d)[1]
  <2>1. 1 \in 1 .. Len(d) + 1
    BY <1>1
  <2>. QED
    BY <1>1, <2>1, Encoded, EncodedFits DEF Encode
<1>3. f = (<<t>> \o e) \o <<CR>> /\ Ahead(t, 1) = e \o <<CR>>
  BY <1>2 DEF Frame, Ahead
<1> HIDE DEF d, e, f
<1>4. t \in Token /\ CR \in Token /\ e \in Seq(Token) /\ Len(e) \in Nat
  BY <1>2, Tokens DEF Token
<1>5. /\ Len(f) = Len(e) + 2 /\ f[1] = t /\ f[Len(e) + 2] = CR /\ f \in Seq(Token)
      /\ \A i \in 1 .. Len(e) : f[i + 1] = e[i]
  BY <1>3, <1>4
<1>6. ASSUME NEW i \in 2 .. Len(f) - 1
      PROVE  f[i] \in Data \ {CtrlC, CR}
  <2>1. i - 1 \in 1 .. Len(e) /\ (i - 1) + 1 = i
    BY <1>4, <1>5
  <2>. QED
    BY <1>2, <1>5, <2>1 DEF Plain
<1>7. Head(f) = t /\ Tail(f) = Ahead(t, 1)
  <2>1. f = <<t>> \o (e \o <<CR>>)
    BY <1>3, <1>4, Brackets
  <2>2. e \o <<CR>> \in Seq(Token)
    BY <1>4
  <2>. QED
    BY <1>3, <1>4, <2>1, <2>2
<1>8. Fits(f, 0, ChunkSize + 1)
  <2>1. Fits(<<t>>, 0, 1)
    BY <1>4, OneFits
  <2>2. <<t>> \in Seq(Token) /\ <<CR>> \in Seq(Token) /\ <<t>> \o e \in Seq(Token)
    BY <1>4
  <2>3. /\ 0 \in Nat /\ 1 \in Nat /\ Len(d) + 1 \in Nat /\ ChunkSize + 1 \in Nat
        /\ 0 <= 1 /\ 1 <= Len(d) + 1 /\ 0 <= Len(d) + 1 /\ Len(d) + 1 <= ChunkSize + 1
    BY <1>1, ChunkAssumption
  <2>4. Fits(<<t>> \o e, 0, Len(d) + 1)
    BY <1>2, <1>4, <2>1, <2>2, <2>3, JoinedFits
  <2>5. Fits(<<CR>>, Len(d) + 1, ChunkSize + 1)
    <3>1. \A i \in 1 .. Len(<<CR>>) : ~IsStored(<<CR>>[i])
      BY DEF IsStored
    <3>. QED
      BY <2>2, <3>1, NothingFits
  <2>. QED
    BY <1>3, <2>2, <2>3, <2>4, <2>5, JoinedFits
<1>. QED
  BY <1>4, <1>5, <1>6, <1>7, <1>8 DEF f

(* Storing a byte.                                                         *)
LEMMA StoredFacts ==
  ASSUME NEW t \in Letter
  PROVE  /\ Stored(t, 0) = <<t>>
         /\ \A n \in 0 .. Len(Payload(t)) - 1 :
              Append(Stored(t, n), Char(Payload(t)[n + 1])) = Stored(t, n + 1)
         /\ \A n \in 0 .. Len(Payload(t)) :
              /\ Stored(t, n) # <<>> /\ Head(Stored(t, n)) = t /\ Stored(t, n)[1] = t
              /\ Tail(Stored(t, n)) = [i \in 1 .. n |-> Char(Payload(t)[i])]
<1> DEFINE d == Payload(t)
           s(n) == [i \in 1 .. n |-> Char(d[i])]
<1>1. Len(d) \in Nat /\ \A n \in 1 .. Len(d) : d[n] \in Byte
  BY PayloadType
<1>2. \A n : Stored(t, n) = <<t>> \o s(n)
  BY DEF Stored
<1> HIDE DEF d
<1>3. t \in Token
  BY Tokens
<1>4. ASSUME NEW n \in 0 .. Len(d)
      PROVE  s(n) \in Seq(Token) /\ Len(s(n)) = n
  <2>1. \A i \in 1 .. n : Char(d[i]) \in Token
    BY <1>1 DEF Token, Data
  <2>. QED
    BY <2>1
<1>5. Stored(t, 0) = <<t>>
  <2>1. s(0) = <<>> /\ <<t>> \o <<>> = <<t>>
    OBVIOUS
  <2>. QED
    BY <1>2, <2>1
<1>6. ASSUME NEW n \in 0 .. Len(d)
      PROVE  /\ Stored(t, n) # <<>> /\ Head(Stored(t, n)) = t /\ Stored(t, n)[1] = t
             /\ Tail(Stored(t, n)) = s(n)
  <2> DEFINE r == s(n)
  <2>1. r \in Seq(Token) /\ Stored(t, n) = <<t>> \o r
    BY <1>2, <1>4
  <2> HIDE DEF r
  <2>2. /\ <<t>> \o r # <<>> /\ Head(<<t>> \o r) = t /\ (<<t>> \o r)[1] = t
        /\ Tail(<<t>> \o r) = r
    BY <1>3, <2>1
  <2>. QED
    BY <2>1, <2>2 DEF r
<1>7. ASSUME NEW n \in 0 .. Len(d) - 1
      PROVE  Append(Stored(t, n), Char(d[n + 1])) = Stored(t, n + 1)
  <2> DEFINE r == s(n)
             q == s(n + 1)
             c == Char(d[n + 1])
  <2>1. r \in Seq(Token) /\ q \in Seq(Token) /\ Len(r) = n /\ Len(q) = n + 1
    BY <1>1, <1>4
  <2>2. c \in Token /\ \A i \in 1 .. n : r[i] = q[i] /\ q[n + 1] = c
    BY <1>1 DEF Token, Data
  <2>3. q[n + 1] = c
    BY <1>1
  <2> HIDE DEF r, q, c
  <2>4. Append(<<t>> \o r, c) = <<t>> \o q
    <3> DEFINE x == Append(<<t>> \o r, c)
               y == <<t>> \o q
    <3>1. x \in Seq(Token) /\ y \in Seq(Token) /\ Len(x) = n + 2 /\ Len(y) = n + 2
      BY <1>3, <2>1, <2>2
    <3>2. ASSUME NEW i \in 1 .. n + 2
          PROVE  x[i] = y[i]
      <4>1. CASE i = 1
        <5>1. <<t>> \o r \in Seq(Token) /\ Len(<<t>> \o r) = n + 1 /\ (<<t>> \o r)[1] = t
          BY <1>3, <2>1
        <5>2. x[1] = t
          BY <2>2, <5>1
        <5>3. y[1] = t
          BY <1>3, <2>1
        <5>. QED
          BY <4>1, <5>2, <5>3
      <4>2. CASE i \in 2 .. n + 1
        <5>1. i - 1 \in 1 .. n
          BY <1>1, <4>2
        <5>2. x[i] = r[i - 1] /\ y[i] = q[i - 1]
          BY <1>3, <2>1, <2>2, <4>2, <5>1
        <5>. QED
          BY <2>2, <5>1, <5>2
      <4>3. CASE i = n + 2
        <5>1. x[n + 2] = c
          <6>1. <<t>> \o r \in Seq(Token) /\ Len(<<t>> \o r) = n + 1
            BY <1>3, <2>1
          <6>. QED
            BY <2>2, <6>1
        <5>2. y[n + 2] = q[n + 1]
          BY <1>3, <2>1
        <5> HIDE DEF x, y
        <5>. QED
          BY <2>3, <4>3, <5>1, <5>2
      <4>4. i = 1 \/ i \in 2 .. n + 1 \/ i = n + 2
        BY <1>1
      <4>. QED
        BY <4>1, <4>2, <4>3, <4>4, Zenon
    <3> HIDE DEF x, y
    <3>3. x = y
      BY <3>1, <3>2
    <3>. QED
      BY <3>3 DEF x, y
  <2>. QED
    BY <1>2, <2>4 DEF r, q, c
<1>. QED
  BY <1>5, <1>6, <1>7 DEF d
-----------------------------------------------------------------------------
(* The answers that the device gives.  A line that is no more than an end  *)
(* or that begins with ! is none to a frame.                               *)
Stray == {Mark("!"), EndOfLine}
Sum(m) == <<"sum", Checksum(m)>>
Answers == Stray \cup {Mark("k"), Mark("?"), <<"sum", Checksum(Image)>>}
             \cup {Sum(m) : m \in [Address -> Byte]}

(* What the host has not taken for an answer yet.                          *)
Said == host.msg \o input \o toHost

Has(f, t) == \E i \in 1 .. Len(f) : f[i] = t
HasHeader(f) == \E i \in 1 .. Len(f) : f[i] \in Header
OnlyCtrlC(f) == \A i \in 1 .. Len(f) : f[i] = CtrlC

(* The line to the device: Ctrl-C's, then a frame or a part of one.        *)
Ordered(f) ==
  \A i \in 1 .. Len(f) :
    /\ f[i] \in Header \cup {CtrlC} => \A j \in 1 .. i - 1 : f[j] = CtrlC
    /\ f[i] = CR => i = Len(f)

Cleared == device.mode = "loader" /\ device.command = <<>> /\ ~device.escaped
Done == Cleared /\ toDevice = <<>>

TypeInv ==
  /\ host \in [pc : {"idle", "sleep", "poll", "look", "drain", "get"},
               await : {"!", "X", "u", "c"}, at : {o \in Nat : o % ChunkSize = 0},
               msg : Seq(Answers), polls : 0 .. MaxPolls]
  /\ device \in [mode : {"boot", "loader", "program"}, command : Seq(Token),
                 escaped : BOOLEAN]
  /\ memory \in [Address -> Byte]
  /\ toDevice \in Seq(Token) /\ toHost \in Seq(Answers) /\ input \in Seq(Answers)
  /\ sessions \in 0 .. MaxSessions /\ lost \in 0 .. MaxLost
  /\ acked \subseteq Offset
  /\ torn \in BOOLEAN /\ (torn => lost # 0)

(* The device: what is stored and what is still to be stored has room; the *)
(* buffer is clear when a frame's letter is still to come.                 *)
BufferInv ==
  /\ Ordered(toDevice)
  /\ Len(device.command) <= ChunkSize + 1
  /\ Fits(toDevice, Len(device.command), ChunkSize + 1)
  /\ \A i \in 2 .. Len(device.command) : device.command[i] \in Data
  /\ device.mode # "loader" =>
       device.command = <<>> /\ ~device.escaped /\ OnlyCtrlC(toDevice)
  /\ HasHeader(toDevice) => Cleared

(* A frame t of which nothing is lost: still as it was sent, or stored up  *)
(* to its n-th byte, or with this byte's escape taken.                     *)
OnItsWay(t) ==
  /\ Cleared
  /\ \E k \in Nat :
       /\ Len(toDevice) = k + Len(Frame(t))
       /\ \A i \in 1 .. k : toDevice[i] = CtrlC
       /\ \A i \in 1 .. Len(Frame(t)) : toDevice[k + i] = Frame(t)[i]
Arriving(t, n) ==
  device.command = Stored(t, n) /\ ~device.escaped /\ toDevice = Ahead(t, n + 1)
Escaping(t, n) ==
  /\ device.command = Stored(t, n) /\ device.escaped
  /\ n < Len(Payload(t)) /\ Payload(t)[n + 1] \in Special
  /\ toDevice = <<Char(Flip(Payload(t)[n + 1]))>> \o Ahead(t, n + 2)
InTransit(t) ==
  \/ OnItsWay(t)
  \/ \E n \in 0 .. Len(Payload(t)) : Arriving(t, n) \/ Escaping(t, n)

WholeInv == lost = 0 /\ Has(toDevice, CR) => \E t \in Letter : InTransit(t)

(* Nobody asks for the program to be started but after the verification.   *)
Go == <<"c", 0>>
IsImage(S) == \A a \in Address : a \in S => memory[a] = Image[a + 1]
VerifiedInv ==
  /\ ~torn
  /\ Has(toDevice, Go) \/ (device.command # <<>> /\ device.command[1] = Go)
  => Checksum(memory) = Checksum(Image) /\ (lost = 0 => IsImage(Address))

(* As long as no header is torn, what is in the buffer begins with one, or *)
(* one is to come before anything that would be stored.                    *)
LedInv ==
  ~torn =>
    /\ device.command # <<>> => device.command[1] \in Letter
    /\ \A t \in Torn : ~Has(toDevice, t)
    /\ \/ OnlyCtrlC(toDevice)
       \/ HasHeader(toDevice)
       \/ device.command # <<>> /\ Head(toDevice) # CtrlC

(* The host makes itself heard: nothing but Ctrl-C's is on the line, and   *)
(* the end of a line can only have come from a device that listens and has *)
(* an empty buffer; a k can only be before it.                             *)
Syncs == \/ host.pc \in {"poll", "look", "drain"}
         \/ host.pc = "get" /\ host.await = "!"
Fresh == IF host.pc = "get" THEN Said ELSE toHost
InTurn(s) ==
  \A i \in 1 .. Len(s) :
    /\ s[i] \in Stray \cup {Mark("k")}
    /\ s[i] = EndOfLine => \A j \in 1 .. Len(s) : j > i => s[j] # Mark("k")
Heard(s) == InTurn(s) /\ (Has(s, EndOfLine) => Cleared)
SyncInv ==
  /\ host.pc = "sleep" \/ Syncs => acked = {}
  /\ Syncs => OnlyCtrlC(toDevice) /\ Heard(Fresh)

(* The host waits for the answer to a frame: the device has no other, and  *)
(* what is not stray is the answer.  If a header is torn, the device may   *)
(* have left the loader by accident, and may say anything, but only once.  *)
Waits == host.pc = "get" /\ host.await \in {"X", "u"}
Sent == <<host.await, IF host.await = "X" THEN host.at ELSE 0>>
Good(t) ==
  /\ t \notin Stray
  /\ ~torn => t \in {Mark("k"), Mark("?"), Sum(memory)}
  /\ t = Mark("k") /\ lost = 0 =>
       host.await = "X" /\ IsImage(host.at .. host.at + ChunkSize - 1)
Replied(s) ==
  \A i \in 1 .. Len(s) : s[i] \in Stray \/ (i = Len(s) - 1 /\ Done /\ Good(s[i]))
AllSent ==
  /\ \A t \in Letter : Has(toDevice, t) => t = Sent
  /\ device.command # <<>> => device.command[1] = Sent
ReplyInv ==
  Waits =>
    /\ device.mode # "loader" => torn /\ toDevice = <<>>
    /\ ~torn => AllSent
    /\ Replied(Said)

(* What the host has been answered for is in memory.                       *)
StoredInv ==
  Waits =>
    /\ host.await = "X" <=> host.at < Len(Image)
    /\ \A o \in acked : o + ChunkSize <= host.at
    /\ lost = 0 => IsImage(0 .. host.at - 1)

DeviceInv == BufferInv /\ WholeInv /\ VerifiedInv /\ LedInv
HostInv == SyncInv /\ ReplyInv /\ StoredInv
IInv == TypeInv /\ DeviceInv /\ HostInv
-----------------------------------------------------------------------------
(* The line without its first token.                                       *)
LEMMA RestOrdered ==
  ASSUME NEW f \in Seq(Token), f # <<>>, Ordered(f)
  PROVE  /\ Ordered(Tail(f)) /\ Tail(f) \in Seq(Token)
         /\ \A t : Has(Tail(f), t) => Has(f, t)
         /\ HasHeader(Tail(f)) => HasHeader(f)
         /\ Head(f) \in Token /\ Has(f, Head(f))
         /\ Head(f) \in Header => HasHeader(f)
         /\ OnlyCtrlC(f) => OnlyCtrlC(Tail(f)) /\ Head(f) = CtrlC
         /\ Head(f) # CtrlC => ~HasHeader(Tail(f)) /\ ~Has(Tail(f), CtrlC)
         /\ Head(f) = CR => Tail(f) = <<>>
<1> DEFINE r == Tail(f)
<1>1. /\ Len(f) \in Nat \ {0} /\ Head(f) = f[1] /\ f[1] \in Token
      /\ r \in Seq(Token) /\ Len(r) = Len(f) - 1
      /\ \A i \in 1 .. Len(f) - 1 : r[i] = f[i + 1]
  BY Behind
<1> HIDE DEF r
<1>2. \A i \in 1 .. Len(r) : i + 1 \in 1 .. Len(f) /\ r[i] = f[i + 1]
  BY <1>1
<1>3. 1 \in 1 .. Len(f)
  BY <1>1
<1>4. Ordered(r)
  <2>1. ASSUME NEW i \in 1 .. Len(r), r[i] \in Header \cup {CtrlC}, NEW j \in 1 .. i - 1
        PROVE  r[j] = CtrlC
    <3>1. j \in 1 .. Len(r) /\ j + 1 \in 1 .. (i + 1) - 1
      BY <1>1, <2>1
    <3>2. f[i + 1] \in Header \cup {CtrlC} /\ i + 1 \in 1 .. Len(f)
      BY <1>2, <2>1
    <3>3. f[j + 1] = CtrlC
      BY <3>1, <3>2 DEF Ordered
    <3>. QED
      BY <1>2, <3>1, <3>3
  <2>2. ASSUME NEW i \in 1 .. Len(r), r[i] = CR
        PROVE  i = Len(r)
    <3>1. i + 1 = Len(f)
      BY <1>2, <2>2 DEF Ordered
    <3>. QED
      BY <1>1, <3>1
  <2>. QED
    BY <2>1, <2>2 DEF Ordered
<1>5. /\ \A t : Has(r, t) => Has(f, t)
      /\ HasHeader(r) => HasHeader(f)
  BY <1>2 DEF Has, HasHeader
<1>6. Has(f, f[1]) /\ (f[1] \in Header => HasHeader(f))
  BY <1>3 DEF Has, HasHeader
<1>7. OnlyCtrlC(f) => OnlyCtrlC(r) /\ f[1] = CtrlC
  BY <1>2, <1>3 DEF OnlyCtrlC
<1>8. ASSUME f[1] # CtrlC
      PROVE  ~HasHeader(r) /\ ~Has(r, CtrlC)
  <2> SUFFICES ASSUME NEW i \in 1 .. Len(r), r[i] \in Header \cup {CtrlC}
               PROVE  FALSE
    BY DEF HasHeader, Has
  <2>1. f[i + 1] \in Header \cup {CtrlC} /\ i + 1 \in 1 .. Len(f)
    BY <1>2
  <2>2. 1 \in 1 .. (i + 1) - 1
    BY <1>1
  <2>3. f[1] = CtrlC
    BY <2>1, <2>2 DEF Ordered
  <2>. QED
    BY <1>8, <2>3
<1>9. ASSUME f[1] = CR
      PROVE  r = <<>>
  <2>1. Len(f) = 1
    BY <1>3, <1>9 DEF Ordered
  <2>. QED
    BY <1>1, <2>1
<1>. QED
  BY <1>1, <1>4, <1>5, <1>6, <1>7, <1>8, <1>9 DEF r

(* What has been written when the host is stopped.                         *)
LEMMA FirstOrdered ==
  ASSUME NEW f \in Seq(Token), NEW m \in 0 .. Len(f), Ordered(f)
  PROVE  LET p == SubSeq(f, 1, m) IN
         /\ Ordered(p) /\ p \in Seq(Token)
         /\ \A t : Has(p, t) => Has(f, t)
         /\ HasHeader(p) => HasHeader(f)
         /\ OnlyCtrlC(f) => OnlyCtrlC(p)
         /\ Has(p, CR) => p = f
<1> DEFINE p == SubSeq(f, 1, m)
<1>1. /\ p \in Seq(Token) /\ Len(p) = m /\ Len(f) \in Nat
      /\ \A i \in 1 .. m : p[i] = f[i] /\ i \in 1 .. Len(f)
  BY FirstOf
<1> HIDE DEF p
<1>2. Ordered(p)
  <2>1. ASSUME NEW i \in 1 .. m, p[i] \in Header \cup {CtrlC}, NEW j \in 1 .. i - 1
        PROVE  p[j] = CtrlC
    <3>1. j \in 1 .. m
      BY <1>1
    <3>. QED
      BY <1>1, <2>1, <3>1 DEF Ordered
  <2>2. ASSUME NEW i \in 1 .. m, p[i] = CR
        PROVE  i = m
    <3>1. i = Len(f)
      BY <1>1, <2>2 DEF Ordered
    <3>. QED
      BY <3>1
  <2>. QED
    BY <1>1, <2>1, <2>2 DEF Ordered
<1>3. /\ \A t : Has(p, t) => Has(f, t)
      /\ HasHeader(p) => HasHeader(f)
      /\ OnlyCtrlC(f) => OnlyCtrlC(p)
  BY <1>1 DEF Has, HasHeader, OnlyCtrlC
<1>4. ASSUME Has(p, CR)
      PROVE  p = f
  <2>1. PICK i \in 1 .. m : p[i] = CR
    BY <1>1, <1>4 DEF Has
  <2>2. i = Len(f)
    BY <1>1, <2>1 DEF Ordered
  <2>3. m = Len(f)
    BY <2>2
  <2>. QED
    BY <1>1, <2>3
<1>. QED
  BY <1>1, <1>2, <1>3, <1>4 DEF p

(* Only Ctrl-C's are in order, and no frame is among them.                 *)
LEMMA CtrlCs ==
  ASSUME NEW f \in Seq(Token), OnlyCtrlC(f)
  PROVE  /\ Ordered(f) /\ ~HasHeader(f) /\ ~Has(f, CR) /\ ~Has(f, Go)
         /\ \A a, b : Fits(f, a, b)
<1>1. Len(f) \in Nat /\ \A i \in 1 .. Len(f) : f[i] = CtrlC
  BY DEF OnlyCtrlC
<1>2. CtrlC \notin Header /\ CtrlC # CR /\ Go \in Header
  BY Tokens DEF Header, Letter, Go
<1>3. Ordered(f) /\ ~HasHeader(f) /\ ~Has(f, CR) /\ ~Has(f, Go)
  BY <1>1, <1>2 DEF Ordered, HasHeader, Has
<1>4. \A i \in 1 .. Len(f) : ~IsStored(f[i])
  BY <1>1 DEF IsStored
<1>. QED
  BY <1>3, <1>4, NothingFits

(* Nor is a torn header.                                                   *)
LEMMA NoneTorn ==
  ASSUME NEW f \in Seq(Token), OnlyCtrlC(f)
  PROVE  \A t \in Torn : ~Has(f, t)
BY Tokens DEF OnlyCtrlC, Has, Header

(* And one more may follow.                                                *)
LEMMA OneMore ==
  ASSUME NEW f \in Seq(Token), OnlyCtrlC(f)
  PROVE  f \o <<CtrlC>> \in Seq(Token) /\ OnlyCtrlC(f \o <<CtrlC>>)
<1>1. CtrlC \in Token
  BY Tokens DEF Token
<1> DEFINE g == f \o <<CtrlC>>
<1>2. /\ g \in Seq(Token) /\ Len(g) = Len(f) + 1 /\ g[Len(f) + 1] = CtrlC
      /\ \A i \in 1 .. Len(f) : g[i] = f[i] /\ Len(f) \in Nat
  BY <1>1
<1> HIDE DEF g
<1>3. \A i \in 1 .. Len(f) + 1 : g[i] = CtrlC
  <2>1. Len(f) \in Nat
    OBVIOUS
  <2>2. \A i \in 1 .. Len(f) + 1 : i \in 1 .. Len(f) \/ i = Len(f) + 1
    BY <2>1
  <2>. QED
    BY <1>2, <2>2 DEF OnlyCtrlC
<1>. QED
  BY <1>2, <1>3 DEF OnlyCtrlC, g

(* A frame behind Ctrl-C's is in order too.                                *)
LEMMA FrameOrdered ==
  ASSUME NEW f \in Seq(Token), OnlyCtrlC(f), NEW t \in Letter
  PROVE  LET g == f \o Frame(t) IN
         /\ g \in Seq(Token) /\ Ordered(g) /\ Fits(g, 0, ChunkSize + 1)
         /\ \A i \in 1 .. Len(g) : g[i] \in Header => g[i] = t
         /\ Len(g) = Len(f) + Len(Frame(t)) /\ Len(f) \in Nat
         /\ \A i \in 1 .. Len(f) : g[i] = CtrlC
         /\ \A i \in 1 .. Len(Frame(t)) : g[Len(f) + i] = Frame(t)[i]
<1> DEFINE h == Frame(t)
           g == f \o h
           m == Len(f)
           n == Len(h)
<1>1. /\ h \in Seq(Token) /\ n \in Nat /\ n >= 2 /\ h[1] = t /\ h[n] = CR
      /\ \A i \in 2 .. n - 1 : h[i] \in Data \ {CtrlC, CR}
      /\ Fits(h, 0, ChunkSize + 1)
  BY FrameFacts
<1> HIDE DEF h
<1>2. /\ g \in Seq(Token) /\ Len(g) = m + n /\ m \in Nat
      /\ \A i \in 1 .. m : g[i] = f[i]
      /\ \A i \in 1 .. n : g[m + i] = h[i]
  BY <1>1, Joined
<1>3. \A i \in 1 .. m : g[i] = CtrlC
  BY <1>2 DEF OnlyCtrlC
<1>4. Fits(g, 0, ChunkSize + 1)
  <2>1. Fits(f, 0, 0)
    BY CtrlCs
  <2>2. 0 \in Nat /\ ChunkSize + 1 \in Nat /\ 0 <= 0 /\ 0 <= ChunkSize + 1
    BY ChunkAssumption
  <2>. QED
    BY <1>1, <2>1, <2>2, JoinedFits
<1> HIDE DEF g, m, n
<1>5. ASSUME NEW i \in 1 .. m + n
      PROVE  \/ i \in 1 .. m
             \/ i = m + 1 /\ g[i] = t
             \/ i = m + n /\ g[i] = CR
             \/ i \in m + 2 .. m + n - 1 /\ g[i] \in Data \ {CtrlC, CR}
  <2>1. CASE i \in 1 .. m
    BY <2>1
  <2>2. CASE i = m + 1
    <3>1. 1 \in 1 .. n
      BY <1>1
    <3>. QED
      BY <1>1, <1>2, <2>2, <3>1
  <2>3. CASE i = m + n
    <3>1. n \in 1 .. n
      BY <1>1
    <3>. QED
      BY <1>1, <1>2, <2>3, <3>1
  <2>4. CASE i \in m + 2 .. m + n - 1
    <3>1. i - m \in 2 .. n - 1 /\ m + (i - m) = i /\ i - m \in 1 .. n
      BY <1>1, <1>2, <2>4
    <3>2. g[i] = h[i - m]
      BY <1>2, <3>1
    <3>. QED
      BY <1>1, <2>4, <3>1, <3>2
  <2>5. i \in 1 .. m \/ i = m + 1 \/ i = m + n \/ i \in m + 2 .. m + n - 1
    BY <1>1, <1>2
  <2>. QED
    BY <2>1, <2>2, <2>3, <2>4, <2>5
<1>6. t \notin Data /\ CR \in Data /\ CtrlC \in Data /\ CtrlC # CR
      /\ \A x \in Header : x \notin Data
  BY Tokens DEF Header
<1>7. ASSUME NEW i \in 1 .. m + n
      PROVE  /\ g[i] \in Header \cup {CtrlC} => \A j \in 1 .. i - 1 : g[j] = CtrlC
             /\ g[i] = CR => i = m + n
             /\ g[i] \in Header => g[i] = t
  <2>1. CASE i \in 1 .. m
    <3>1. \A j \in 1 .. i - 1 : j \in 1 .. m
      BY <1>2, <2>1
    <3>. QED
      BY <1>3, <1>6, <2>1, <3>1
  <2>2. CASE i = m + 1 /\ g[i] = t
    <3>1. \A j \in 1 .. i - 1 : j \in 1 .. m
      BY <1>2, <2>2
    <3>. QED
      BY <1>3, <1>6, <2>2, <3>1
  <2>3. CASE i = m + n /\ g[i] = CR
    BY <1>6, <2>3
  <2>4. CASE i \in m + 2 .. m + n - 1 /\ g[i] \in Data \ {CtrlC, CR}
    BY <1>6, <2>4
  <2>. QED
    BY <1>5, <2>1, <2>2, <2>3, <2>4
<1>8. Ordered(g)
  BY <1>2, <1>7 DEF Ordered
<1>. QED
  BY <1>2, <1>3, <1>4, <1>7, <1>8 DEF g, h, m, n

(* There is room where less is taken.                                      *)
LEMMA FitsEarlier ==
  ASSUME NEW f \in Seq(Token), NEW a \in Nat, NEW b \in Nat, NEW c \in Nat,
         c <= a, Fits(f, a, b)
  PROVE  Fits(f, c, b)
<1>1. PICK s \in [1 .. Len(f) -> Nat] : Places(s, f, a, b)
  BY DEF Fits
<1>2. ASSUME NEW i \in 1 .. Len(f), IsStored(f[i])
      PROVE  /\ c < s[i] /\ s[i] <= b
             /\ \A j \in 1 .. i - 1 : IsStored(f[j]) => s[j] < s[i]
  <2>1. a < s[i] /\ s[i] \in Nat
    BY <1>1, <1>2 DEF Places
  <2>. QED
    BY <1>1, <1>2, <2>1 DEF Places
<1>3. Places(s, f, c, b)
  BY <1>2 DEF Places
<1>. QED
  BY <1>3 DEF Fits
-----------------------------------------------------------------------------
(* A frame that arrives as it was sent.  What receive() reads next of one  *)
(* whose letter it has stored:                                             *)
LEMMA NextAhead ==
  ASSUME NEW t \in Letter, NEW n \in 0 .. Len(Payload(t))
  PROVE  LET d == Payload(t)
             h == Head(Ahead(t, n + 1))
         IN  /\ h # CtrlC
             /\ h = CR <=> n = Len(d)
             /\ n < Len(d) => d[n + 1] \in Byte
             /\ h = Esc => n < Len(d) /\ d[n + 1] \in Special
                           /\ Tail(Ahead(t, n + 1))
                                = <<Char(Flip(d[n + 1]))>> \o Ahead(t, n + 2)
             /\ h \notin {CR, Esc} => n < Len(d) /\ h = Char(d[n + 1])
                                      /\ Tail(Ahead(t, n + 1)) = Ahead(t, n + 2)
<1> DEFINE d == Payload(t)
           h == Head(Ahead(t, n + 1))
<1>1. Len(d) \in Nat /\ \A i \in 1 .. Len(d) : d[i] \in Byte
  BY PayloadType
<1>2. /\ n + 1 = Len(d) + 1 => Ahead(t, n + 1) = <<CR>>
      /\ n + 1 <= Len(d) /\ d[n + 1] \in Special =>
           /\ h = Esc
           /\ Tail(Ahead(t, n + 1)) = <<Char(Flip(d[n + 1]))>> \o Ahead(t, n + 1 + 1)
      /\ n + 1 <= Len(d) /\ d[n + 1] \notin Special =>
           /\ h = Char(d[n + 1])
           /\ Tail(Ahead(t, n + 1)) = Ahead(t, n + 1 + 1)
  <2>1. n + 1 \in 1 .. Len(d) + 1
    BY <1>1
  <2>. QED
    BY <2>1, AheadFacts
<1>3. n + 1 + 1 = n + 2
  BY <1>1
<1>4. CASE n = Len(d)
  <2>1. h = CR
    BY <1>1, <1>2, <1>4
  <2>2. ~(n < Len(d))
    BY <1>1, <1>4
  <2>. QED
    BY <1>4, <2>1, <2>2, Tokens
<1>5. CASE n < Len(d)
  <2>1. n + 1 <= Len(d) /\ n + 1 \in 1 .. Len(d) /\ n # Len(d)
    BY <1>1, <1>5
  <2>2. d[n + 1] \in Byte
    BY <1>1, <2>1
  <2>3. CASE d[n + 1] \in Special
    BY <1>2, <1>3, <1>5, <2>1, <2>2, <2>3, Tokens
  <2>4. CASE d[n + 1] \notin Special
    <3>1. Char(d[n + 1]) \notin {CtrlC, CR, Esc}
      BY <2>2, <2>4, Tokens
    <3>. QED
      BY <1>2, <1>3, <1>5, <2>1, <2>2, <2>4, <3>1
  <2>. QED
    BY <2>3, <2>4
<1>6. n = Len(d) \/ n < Len(d)
  BY <1>1
<1>. QED
  BY <1>4, <1>5, <1>6

(* And after an escape.                                                    *)
LEMMA NextEscaped ==
  ASSUME NEW t \in Letter, NEW n \in 0 .. Len(Payload(t)) - 1,
         Payload(t)[n + 1] \in Special
  PROVE  LET b == Payload(t)[n + 1]
             f == <<Char(Flip(b))>> \o Ahead(t, n + 2)
         IN  /\ Head(f) = Char(Flip(b)) /\ Tail(f) = Ahead(t, n + 2)
             /\ Char(Flip(b)) \notin {CtrlC, CR, Esc}
             /\ <<Char(Flip(b))[1], Flip(Char(Flip(b))[2])>> = Char(b)
<1> DEFINE b == Payload(t)[n + 1]
<1>1. Len(Payload(t)) \in Nat
  BY PayloadType
<1>2. n + 2 \in 1 .. Len(Payload(t)) + 1
  BY <1>1
<1>3. Ahead(t, n + 2) \in Seq(Data)
  BY <1>2, AheadFacts
<1>4. Flip(b) \in Byte \ Special /\ b \in Byte
  BY SpecialFlipped
<1>5. Char(Flip(b)) \notin {CtrlC, CR, Esc} /\ Char(Flip(b)) \in Data
  BY <1>4, Tokens DEF Data
<1>6. Flip(Flip(b)) = b
  BY <1>4, Flipped
<1>7. <<Char(Flip(b))[1], Flip(Char(Flip(b))[2])>> = Char(b)
  BY <1>6 DEF Char
<1> HIDE DEF b
<1>8. \A c \in Data, f \in Seq(Data) :
        Head(<<c>> \o f) = c /\ Tail(<<c>> \o f) = f
  OBVIOUS
<1>. QED
  BY <1>3, <1>5, <1>7, <1>8 DEF b

(* A Ctrl-C is read only before the frame.                                 *)
LEMMA TransitCtrlC ==
  ASSUME TypeInv, NEW t \in Letter, InTransit(t), toDevice # <<>>,
         Head(toDevice) = CtrlC, toDevice' = Tail(toDevice), Cleared'
  PROVE  InTransit(t)'
<1>1. /\ Len(toDevice) \in Nat \ {0} /\ Head(toDevice) = toDevice[1]
      /\ Len(toDevice') = Len(toDevice) - 1
      /\ \A i \in 1 .. Len(toDevice) - 1 : toDevice'[i] = toDevice[i + 1]
  BY Behind DEF TypeInv
<1>2. /\ Len(Frame(t)) \in Nat /\ Len(Frame(t)) >= 2 /\ Frame(t)[1] = t
  BY FrameFacts
<1>3. t # CtrlC
  BY Tokens
<1>4. ASSUME NEW n \in 0 .. Len(Payload(t)), Arriving(t, n) \/ Escaping(t, n)
      PROVE  FALSE
  <2>1. CASE Arriving(t, n)
    BY <2>1, NextAhead DEF Arriving
  <2>2. CASE Escaping(t, n)
    <3>1. Len(Payload(t)) \in Nat
      BY PayloadType
    <3>2. n \in 0 .. Len(Payload(t)) - 1
      BY <2>2, <3>1 DEF Escaping
    <3>. QED
      BY <2>2, <3>2, NextEscaped DEF Escaping
  <2>. QED
    BY <1>4, <2>1, <2>2
<1>5. OnItsWay(t)
  BY <1>4 DEF InTransit
<1>6. PICK k \in Nat :
        /\ Len(toDevice) = k + Len(Frame(t))
        /\ \A i \in 1 .. k : toDevice[i] = CtrlC
        /\ \A i \in 1 .. Len(Frame(t)) : toDevice[k + i] = Frame(t)[i]
  BY <1>5 DEF OnItsWay
<1> DEFINE L == Len(Frame(t))
<1>7. k # 0
  <2>1. toDevice[k + 1] = t
    <3>1. 1 \in 1 .. L
      BY <1>2
    <3>. QED
      BY <1>2, <1>6, <3>1
  <2>. QED
    BY <1>1, <1>3, <2>1
<1>8. Len(toDevice') = (k - 1) + L /\ k - 1 \in Nat
  BY <1>1, <1>2, <1>6, <1>7
<1>9. \A i \in 1 .. k - 1 : toDevice'[i] = CtrlC
  <2>1. \A i \in 1 .. k - 1 : i + 1 \in 1 .. k /\ i \in 1 .. Len(toDevice) - 1
    BY <1>1, <1>2, <1>6
  <2>. QED
    BY <1>1, <1>6, <2>1
<1>10. \A i \in 1 .. L : toDevice'[(k - 1) + i] = Frame(t)[i]
  <2>1. \A i \in 1 .. L : /\ (k - 1) + i \in 1 .. Len(toDevice) - 1
                          /\ (k - 1) + i + 1 = k + i
    BY <1>1, <1>2, <1>6, <1>7
  <2>. QED
    BY <1>1, <1>6, <2>1
<1>11. OnItsWay(t)'
  BY <1>8, <1>9, <1>10 DEF OnItsWay
<1>. QED
  BY <1>11 DEF InTransit

(* A frame that is not being read starts with a letter or a Ctrl-C.        *)
LEMMA OnItsWayFacts ==
  ASSUME TypeInv, NEW t \in Letter, OnItsWay(t), toDevice # <<>>,
         Head(toDevice) # CtrlC
  PROVE  toDevice = Frame(t) /\ Head(toDevice) = t
<1>1. /\ Len(toDevice) \in Nat \ {0} /\ Head(toDevice) = toDevice[1]
      /\ toDevice \in Seq(Token)
  BY Behind DEF TypeInv
<1>2. /\ Len(Frame(t)) \in Nat /\ Frame(t) \in Seq(Token) /\ Head(Frame(t)) = t
  BY FrameFacts
<1>3. PICK k \in Nat :
        /\ Len(toDevice) = k + Len(Frame(t))
        /\ \A i \in 1 .. k : toDevice[i] = CtrlC
        /\ \A i \in 1 .. Len(Frame(t)) : toDevice[k + i] = Frame(t)[i]
  BY DEF OnItsWay
<1>4. k = 0
  <2>1. k > 0 => 1 \in 1 .. k
    OBVIOUS
  <2>. QED
    BY <1>1, <1>3, <2>1
<1>5. Len(toDevice) = Len(Frame(t))
  BY <1>2, <1>3, <1>4
<1>6. \A i \in 1 .. Len(Frame(t)) : toDevice[i] = Frame(t)[i]
  <2>1. \A i \in 1 .. Len(Frame(t)) : 0 + i = i
    OBVIOUS
  <2>. QED
    BY <1>3, <1>4, <2>1
<1>7. toDevice = Frame(t)
  BY <1>1, <1>2, <1>5, <1>6
<1>. QED
  BY <1>2, <1>7

(* An escape is that of the next byte.                                     *)
LEMMA TransitEsc ==
  ASSUME TypeInv, NEW t \in Letter, InTransit(t), toDevice # <<>>,
         Head(toDevice) = Esc, toDevice' = Tail(toDevice),
         device' = [device EXCEPT !.escaped = TRUE]
  PROVE  InTransit(t)'
<1>1. Esc \in Data /\ Esc # CtrlC /\ t \notin Data
  BY Tokens
<1>2. ~OnItsWay(t)
  BY <1>1, OnItsWayFacts
<1>3. PICK n \in 0 .. Len(Payload(t)) : Arriving(t, n) \/ Escaping(t, n)
  BY <1>2 DEF InTransit
<1>4. Len(Payload(t)) \in Nat
  BY PayloadType
<1>5. ~Escaping(t, n)
  <2>1. Escaping(t, n) => n \in 0 .. Len(Payload(t)) - 1
    BY <1>4 DEF Escaping
  <2>. QED
    BY <2>1, NextEscaped DEF Escaping
<1>6. Arriving(t, n)
  BY <1>3, <1>5
<1>7. device'.command = device.command /\ device'.escaped
  BY DEF TypeInv
<1>8. Escaping(t, n)'
  BY <1>6, <1>7, NextAhead DEF Arriving, Escaping
<1>. QED
  BY <1>8 DEF InTransit

(* What is stored is the letter, or the next byte as the image has it.     *)
LEMMA TransitByte ==
  ASSUME TypeInv, NEW t \in Letter, InTransit(t), toDevice # <<>>,
         Head(toDevice) \notin {CtrlC, Esc, CR}, toDevice' = Tail(toDevice),
         Store(Head(toDevice))
  PROVE  InTransit(t)'
<1> DEFINE h == Head(toDevice)
<1>1. /\ device'.command = Append(device.command, IF device.escaped
                                    THEN <<h[1], Flip(h[2])>> ELSE h)
      /\ device'.escaped = FALSE
  BY DEF TypeInv, Store
<1>2. Len(Payload(t)) \in Nat
  BY PayloadType
<1>3. CASE OnItsWay(t)
  <2>1. toDevice = Frame(t) /\ h = t
    BY <1>3, OnItsWayFacts
  <2>2. toDevice' = Ahead(t, 0 + 1)
    <3>1. 0 + 1 = 1
      OBVIOUS
    <3>. QED
      BY <2>1, <3>1, FrameFacts
  <2>3. device'.command = Stored(t, 0)
    <3>1. Append(<<>>, t) = <<t>>
      OBVIOUS
    <3>. QED
      BY <1>1, <1>3, <2>1, <3>1, StoredFacts DEF OnItsWay, Cleared
  <2>4. Arriving(t, 0)'
    BY <1>1, <2>2, <2>3 DEF Arriving
  <2>5. 0 \in 0 .. Len(Payload(t))
    BY <1>2
  <2>. QED
    BY <2>4, <2>5 DEF InTransit
<1>4. ASSUME NEW n \in 0 .. Len(Payload(t)), Arriving(t, n)
      PROVE  InTransit(t)'
  <2>1. /\ n < Len(Payload(t)) /\ h = Char(Payload(t)[n + 1])
        /\ toDevice' = Ahead(t, n + 2)
    BY <1>4, NextAhead DEF Arriving
  <2>2. n \in 0 .. Len(Payload(t)) - 1 /\ n + 1 \in 0 .. Len(Payload(t))
        /\ n + 1 + 1 = n + 2
    BY <1>2, <2>1
  <2>3. device'.command = Stored(t, n + 1)
    BY <1>1, <1>4, <2>1, <2>2, StoredFacts DEF Arriving
  <2>4. Arriving(t, n + 1)'
    BY <1>1, <2>1, <2>2, <2>3 DEF Arriving
  <2>. QED
    BY <2>2, <2>4 DEF InTransit
<1>5. ASSUME NEW n \in 0 .. Len(Payload(t)), Escaping(t, n)
      PROVE  InTransit(t)'
  <2> DEFINE b == Payload(t)[n + 1]
  <2>1. n \in 0 .. Len(Payload(t)) - 1 /\ n + 1 \in 0 .. Len(Payload(t))
        /\ n + 1 + 1 = n + 2
    BY <1>2, <1>5 DEF Escaping
  <2>2. h = Char(Flip(b)) /\ toDevice' = Ahead(t, n + 2)
        /\ <<h[1], Flip(h[2])>> = Char(b)
    BY <1>5, <2>1, NextEscaped DEF Escaping
  <2>3. device'.command = Append(Stored(t, n), Char(b))
    BY <1>1, <1>5, <2>2 DEF Escaping
  <2>4. device'.command = Stored(t, n + 1)
    BY <2>1, <2>3, StoredFacts
  <2>5. Arriving(t, n + 1)'
    BY <1>1, <2>1, <2>2, <2>4 DEF Arriving
  <2>. QED
    BY <2>1, <2>5 DEF InTransit
<1>. QED
  BY <1>3, <1>4, <1>5 DEF InTransit

(* At its end a frame is stored as a whole.                                *)
LEMMA TransitEnd ==
  ASSUME TypeInv, NEW t \in Letter, InTransit(t), toDevice # <<>>,
         Head(toDevice) = CR
  PROVE  device.command = Stored(t, Len(Payload(t))) /\ ~device.escaped
<1>1. CR \in Data /\ CR # CtrlC /\ t \notin Data
  BY Tokens
<1>2. ~OnItsWay(t)
  BY <1>1, OnItsWayFacts
<1>3. PICK n \in 0 .. Len(Payload(t)) : Arriving(t, n) \/ Escaping(t, n)
  BY <1>2 DEF InTransit
<1>4. Len(Payload(t)) \in Nat
  BY PayloadType
<1>5. ~Escaping(t, n)
  <2>1. Escaping(t, n) => n \in 0 .. Len(Payload(t)) - 1
    BY <1>4 DEF Escaping
  <2>. QED
    BY <2>1, NextEscaped DEF Escaping
<1>6. Arriving(t, n)
  BY <1>3, <1>5
<1>7. n = Len(Payload(t))
  BY <1>6, NextAhead DEF Arriving
<1>. QED
  BY <1>6, <1>7 DEF Arriving
-----------------------------------------------------------------------------
(* The device's answers.  What it says comes after what it has said.       *)
LEMMA SaysMore ==
  ASSUME TypeInv, NEW r \in Seq(Answers),
         host' = host, input' = input, toHost' = toHost \o r
  PROVE  /\ Said \in Seq(Answers) /\ Said' = Said \o r
         /\ Fresh \in Seq(Answers) /\ Fresh' = Fresh \o r
         /\ toHost' \in Seq(Answers)
<1>1. host.msg \in Seq(Answers) /\ input \in Seq(Answers) /\ toHost \in Seq(Answers)
  BY DEF TypeInv
<1>2. \A f, g \in Seq(Answers) : f \o g \in Seq(Answers)
  OBVIOUS
<1>3. Said \in Seq(Answers) /\ toHost' \in Seq(Answers)
  BY <1>1, <1>2 DEF Said
<1>4. Said' = (host.msg \o input) \o (toHost \o r)
  BY DEF Said
<1>5. Said' = Said \o r
  <2>1. host.msg \o input \in Seq(Answers)
    BY <1>1, <1>2
  <2> DEFINE f == host.msg \o input
  <2>2. f \in Seq(Answers) /\ Said = f \o toHost /\ Said' = f \o (toHost \o r)
    BY <1>4, <2>1 DEF Said
  <2> HIDE DEF f
  <2>3. \A x, y, z \in Seq(Answers) : (x \o y) \o z = x \o (y \o z)
    OBVIOUS
  <2>. QED
    BY <1>1, <2>2, <2>3, Zenon
<1>6. Fresh \in Seq(Answers) /\ Fresh' = Fresh \o r
  <2>1. CASE host.pc = "get"
    BY <1>3, <1>5, <2>1 DEF Fresh
  <2>2. CASE host.pc # "get"
    BY <1>1, <2>2 DEF Fresh
  <2>. QED
    BY <2>1, <2>2
<1>. QED
  BY <1>3, <1>5, <1>6

(* An answer and the end of its line are appended one after the other.     *)
LEMMA OneLine ==
  ASSUME NEW f \in Seq(Answers), NEW x \in Answers, NEW y \in Answers
  PROVE  <<x, y>> \in Seq(Answers) /\ (f \o <<x>>) \o <<y>> = f \o <<x, y>>
<1>1. /\ <<x>> \in Seq(Answers) /\ <<y>> \in Seq(Answers)
      /\ <<x, y>> \in Seq(Answers)
  OBVIOUS
<1>2. <<x>> \o <<y>> = <<x, y>>
  <2> DEFINE w == <<x>> \o <<y>>
             v == <<x, y>>
  <2>1. w \in Seq(Answers) /\ Len(w) = 2 /\ w[1] = x /\ w[2] = y
    BY <1>1
  <2>2. v \in Seq(Answers) /\ Len(v) = 2 /\ v[1] = x /\ v[2] = y
    OBVIOUS
  <2> HIDE DEF w, v
  <2>3. w = v
    BY <2>1, <2>2
  <2>. QED
    BY <2>3 DEF w, v
<1>3. \A a, b, c \in Seq(Answers) : (a \o b) \o c = a \o (b \o c)
  OBVIOUS
<1>4. (f \o <<x>>) \o <<y>> = f \o (<<x>> \o <<y>>)
  BY <1>1, <1>3, Zenon
<1>. QED
  BY <1>1, <1>2, <1>4

(* The marks differ, and differ from a checksum.                           *)
LEMMA Marks ==
  /\ {Mark("!"), Mark("k"), Mark("?"), EndOfLine} \subseteq Answers
  /\ Mark("k") \notin Stray /\ Mark("?") \notin Stray /\ Mark("k") # Mark("?")
  /\ Mark("!") # EndOfLine
  /\ \A m : Sum(m) \notin Stray \cup {Mark("k"), Mark("?")}
  /\ <<"sum", Checksum(Image)>> \in Answers \ Stray
BY DEF Mark, EndOfLine, Stray, Answers, Sum

(* What a host that makes itself heard may be told next.                   *)
LEMMA MoreInTurn ==
  ASSUME NEW s \in Seq(Answers), InTurn(s)
  PROVE  /\ InTurn(s \o <<Mark("!"), EndOfLine>>)
         /\ ~Has(s, EndOfLine) =>
              /\ InTurn(s \o <<Mark("!")>>) /\ ~Has(s \o <<Mark("!")>>, EndOfLine)
              /\ InTurn(s \o <<Mark("k"), EndOfLine>>)
<1> DEFINE L == Len(s)
           b == Mark("!")
           k == Mark("k")
           e == EndOfLine
<1>1. /\ L \in Nat /\ b # e /\ b # k /\ k # e /\ {b, k, e} \subseteq Answers
      /\ Stray = {b, e}
  BY Marks DEF Stray, Mark, EndOfLine
<1>2. \A i \in 1 .. L : s[i] \in {b, e, k}
                        /\ (s[i] = e => \A j \in 1 .. L : j > i => s[j] # k)
  BY <1>1 DEF InTurn
<1>3. InTurn(s \o <<b, e>>)
  <2> DEFINE w == s \o <<b, e>>
  <2>1. /\ Len(w) = L + 2 /\ w[L + 1] = b /\ w[L + 2] = e
        /\ \A i \in 1 .. L : w[i] = s[i]
    BY <1>1
  <2> HIDE DEF w, b, e, k, L
  <2>2. \A i \in 1 .. L + 2 : i \in 1 .. L \/ i = L + 1 \/ i = L + 2
    BY <1>1
  <2>3. \A i \in 1 .. L + 2 : w[i] \in {b, e, k}
    BY <1>2, <2>1, <2>2
  <2>4. ASSUME NEW i \in 1 .. L + 2, w[i] = e, NEW j \in 1 .. L + 2, j > i
        PROVE  w[j] # k
    <3>1. CASE j \in 1 .. L
      <4>1. i \in 1 .. L
        BY <1>1, <2>4, <3>1
      <4>. QED
        BY <1>2, <2>1, <2>4, <3>1, <4>1
    <3>2. CASE j = L + 1 \/ j = L + 2
      BY <1>1, <2>1, <3>2
    <3>. QED
      BY <2>2, <3>1, <3>2
  <2>. QED
    BY <1>1, <2>1, <2>3, <2>4 DEF InTurn, w, b, e, k
<1>4. ASSUME ~Has(s, e)
      PROVE  InTurn(s \o <<b>>) /\ ~Has(s \o <<b>>, e)
  <2> DEFINE w == s \o <<b>>
  <2>1. Len(w) = L + 1 /\ w[L + 1] = b /\ \A i \in 1 .. L : w[i] = s[i]
    BY <1>1
  <2> HIDE DEF w, b, e, k, L
  <2>2. \A i \in 1 .. L + 1 : i \in 1 .. L \/ i = L + 1
    BY <1>1
  <2>3. \A i \in 1 .. L : s[i] # e
    BY <1>4 DEF Has, L
  <2>4. \A i \in 1 .. L + 1 : w[i] \in {b, k} /\ w[i] # e
    BY <1>1, <1>2, <2>1, <2>2, <2>3
  <2>. QED
    BY <1>1, <2>1, <2>4 DEF InTurn, Has, w, b, e, k
<1>5. ASSUME ~Has(s, e)
      PROVE  InTurn(s \o <<k, e>>)
  <2> DEFINE w == s \o <<k, e>>
  <2>1. /\ Len(w) = L + 2 /\ w[L + 1] = k /\ w[L + 2] = e
        /\ \A i \in 1 .. L : w[i] = s[i]
    BY <1>1
  <2> HIDE DEF w, b, e, k, L
  <2>2. \A i \in 1 .. L + 2 : i \in 1 .. L \/ i = L + 1 \/ i = L + 2
    BY <1>1
  <2>3. \A i \in 1 .. L + 2 : w[i] \in {b, e, k}
    BY <1>2, <2>1, <2>2
  <2>4. \A i \in 1 .. L : s[i] # e
    BY <1>5 DEF Has, L
  <2>5. \A i \in 1 .. L + 2 : w[i] = e => i = L + 2
    BY <1>1, <2>1, <2>2, <2>4
  <2>6. \A i \in 1 .. L + 2 : w[i] = e => \A j \in 1 .. L + 2 : ~(j > i)
    BY <1>1, <2>5
  <2>. QED
    BY <1>1, <2>1, <2>3, <2>6 DEF InTurn, w, b, e, k
<1>. QED
  BY <1>3, <1>4, <1>5 DEF b, e, k

(* An answer after what is none.                                           *)
LEMMA AnswerFollows ==
  ASSUME NEW s \in Seq(Answers), \A i \in 1 .. Len(s) : s[i] \in Stray,
         NEW a \in Answers
  PROVE  LET w == s \o <<a, EndOfLine>>
         IN  \A i \in 1 .. Len(w) : w[i] \in Stray \/ (i = Len(w) - 1 /\ w[i] = a)
<1> DEFINE w == s \o <<a, EndOfLine>>
           L == Len(s)
<1>1. EndOfLine \in Stray /\ EndOfLine \in Answers
  BY Marks DEF Stray
<1>2. /\ Len(w) = L + 2 /\ w[L + 1] = a /\ w[L + 2] = EndOfLine /\ L \in Nat
      /\ \A i \in 1 .. L : w[i] = s[i]
  BY <1>1
<1> HIDE DEF w
<1>3. \A i \in 1 .. L + 2 : i \in 1 .. L \/ (i = L + 1 /\ i = (L + 2) - 1) \/ i = L + 2
  BY <1>2
<1> HIDE DEF L
<1>4. \A i \in 1 .. L + 2 : w[i] \in Stray \/ (i = (L + 2) - 1 /\ w[i] = a)
  BY <1>1, <1>2, <1>3 DEF L
<1>. QED
  BY <1>2, <1>4 DEF w

(* And strays after strays.                                                *)
LEMMA StraysFollow ==
  ASSUME NEW s \in Seq(Answers), \A i \in 1 .. Len(s) : s[i] \in Stray
  PROVE  LET w == s \o <<Mark("!"), EndOfLine>>
         IN  \A i \in 1 .. Len(w) : w[i] \in Stray
BY AnswerFollows, Marks DEF Stray

(* Strays after strays, however many.                                      *)
LEMMA StraysJoined ==
  ASSUME NEW s \in Seq(Answers), \A i \in 1 .. Len(s) : s[i] \in Stray,
         NEW r \in Seq(Answers), \A i \in 1 .. Len(r) : r[i] \in Stray
  PROVE  \A i \in 1 .. Len(s \o r) : (s \o r)[i] \in Stray
<1> DEFINE w == s \o r
<1>1. /\ Len(w) = Len(s) + Len(r) /\ Len(s) \in Nat /\ Len(r) \in Nat
      /\ \A i \in 1 .. Len(s) : w[i] = s[i]
      /\ \A i \in 1 .. Len(r) : w[Len(s) + i] = r[i]
  OBVIOUS
<1> HIDE DEF w
<1> SUFFICES ASSUME NEW i \in 1 .. Len(w)
             PROVE  w[i] \in Stray
  BY DEF w
<1>2. CASE i \in 1 .. Len(s)
  BY <1>1, <1>2
<1>3. CASE i \notin 1 .. Len(s)
  <2>1. i - Len(s) \in 1 .. Len(r) /\ Len(s) + (i - Len(s)) = i
    BY <1>1, <1>3
  <2>. QED
    BY <1>1, <2>1
<1>. QED
  BY <1>2, <1>3
-----------------------------------------------------------------------------
(* The steps of the device.  One that does not listen reads no frame, and  *)
(* nobody waits for its answer, unless it left the loader by accident.     *)
LEMMA DeafStep ==
  ASSUME IInv, device.mode # "loader", NEW r \in Seq(Answers),
         UNCHANGED <<host, input, sessions, acked, lost, torn>>,
         toHost' = toHost \o r,
         toDevice' = toDevice \/ (toDevice # <<>> /\ toDevice' = Tail(toDevice)),
         device' \in [mode : {"boot", "loader", "program"}, command : {<<>>},
                      escaped : {FALSE}],
         memory' \in [Address -> Byte],
         device'.mode # "loader" => device'.mode = device.mode,
         ~Has(Fresh, EndOfLine) /\ InTurn(Fresh) =>
           InTurn(Fresh \o r) /\ (Has(Fresh \o r, EndOfLine) => Cleared'),
         \/ \A i \in 1 .. Len(r) : r[i] \in Stray
         \/ r = <<Mark("k"), EndOfLine>> /\ Cleared' /\ toDevice' = toDevice
  PROVE  IInv'
<1> USE DEF IInv, DeviceInv, HostInv
<1>1. toDevice \in Seq(Token) /\ OnlyCtrlC(toDevice)
  BY DEF TypeInv, BufferInv
<1>2. toDevice' \in Seq(Token) /\ OnlyCtrlC(toDevice')
  <2>1. CASE toDevice' = toDevice
    BY <1>1, <2>1
  <2>2. CASE toDevice # <<>> /\ toDevice' = Tail(toDevice)
    BY <1>1, <2>2, CtrlCs, RestOrdered
  <2>. QED
    BY <2>1, <2>2
<1>3. /\ Said \in Seq(Answers) /\ Said' = Said \o r
      /\ Fresh \in Seq(Answers) /\ Fresh' = Fresh \o r
      /\ toHost' \in Seq(Answers)
  BY SaysMore
<1>4. TypeInv'
  <2>1. <<>> \in Seq(Token) /\ FALSE \in BOOLEAN
    OBVIOUS
  <2>2. device' \in [mode : {"boot", "loader", "program"}, command : Seq(Token),
                     escaped : BOOLEAN]
    BY <2>1
  <2>. QED
    BY <1>2, <1>3, <2>2 DEF TypeInv
<1>5. /\ ~Has(toDevice', CR) /\ ~Has(toDevice', Go) /\ ~HasHeader(toDevice')
      /\ Ordered(toDevice') /\ Fits(toDevice', 0, ChunkSize + 1)
  BY <1>2, CtrlCs
<1>6. device'.command = <<>> /\ Len(<<>>) = 0 /\ device'.escaped = FALSE
      /\ 0 <= ChunkSize + 1
  <2>1. device'.command = <<>> /\ device'.escaped = FALSE
    OBVIOUS
  <2>. QED
    BY <2>1, ChunkAssumption
<1>7. BufferInv'
  <2>1. \A i \in 2 .. Len(device'.command) : device'.command[i] \in Data
    BY <1>6
  <2>. QED
    BY <1>2, <1>5, <1>6, <2>1 DEF BufferInv
<1>8. WholeInv' /\ VerifiedInv' /\ LedInv'
  BY <1>2, <1>5, <1>6, NoneTorn DEF WholeInv, VerifiedInv, LedInv
<1>9. SyncInv'
  <2>1. Syncs' <=> Syncs
    BY DEF Syncs
  <2>2. ASSUME Syncs
        PROVE  Heard(Fresh)'
    <3>1. InTurn(Fresh) /\ ~Has(Fresh, EndOfLine)
      BY <2>2 DEF SyncInv, Heard, Cleared
    <3>. QED
      BY <1>3, <3>1 DEF Heard
  <2>. QED
    BY <1>2, <2>1, <2>2 DEF SyncInv
<1>10. ASSUME Waits
       PROVE  torn /\ lost # 0 /\ toDevice = <<>> /\ toDevice' = <<>> /\ Replied(Said)'
  <2>1. torn /\ lost # 0 /\ toDevice = <<>> /\ toDevice' = <<>> /\ Replied(Said)
    BY <1>10 DEF ReplyInv, TypeInv
  <2>2. \A i \in 1 .. Len(Said) : Said[i] \in Stray
    BY <2>1 DEF Replied, Done, Cleared
  <2> DEFINE w == Said \o r
             k == Mark("k")
  <2>3. CASE \A i \in 1 .. Len(r) : r[i] \in Stray
    <3>1. \A i \in 1 .. Len(w) : w[i] \in Stray
      BY <1>3, <2>2, <2>3, StraysJoined
    <3>2. Said' = w
      BY <1>3
    <3> HIDE DEF w
    <3>3. Replied(Said)'
      BY ONLY <3>1, <3>2 DEF Replied
    <3>. QED
      BY <2>1, <3>3
  <2>4. CASE r = <<k, EndOfLine>> /\ Cleared' /\ toDevice' = toDevice
    <3>1. k \in Answers
      BY Marks
    <3>2. \A i \in 1 .. Len(w) : w[i] \in Stray \/ (i = Len(w) - 1 /\ w[i] = k)
      <4>1. w = Said \o <<k, EndOfLine>>
        BY <2>4
      <4>2. Said \in Seq(Answers)
        BY <1>3
      <4> HIDE DEF w, k
      <4>. QED
        BY ONLY <2>2, <3>1, <4>1, <4>2, AnswerFollows, Zenon
    <3>3. Done'
      BY <2>1, <2>4 DEF Done
    <3>4. Good(k)'
      BY <2>1, Marks DEF Good
    <3>5. Said' = w
      BY <1>3
    <3> HIDE DEF w, k
    <3>6. Replied(Said)'
      BY ONLY <3>2, <3>3, <3>4, <3>5 DEF Replied
    <3>. QED
      BY <2>1, <2>4, <3>6
  <2>. QED
    BY <2>1, <2>3, <2>4
<1>11. ReplyInv' /\ StoredInv'
  <2>1. Waits' => Waits
    BY DEF Waits
  <2>. QED
    BY <1>10, <2>1 DEF ReplyInv, StoredInv
<1>. QED
  BY <1>4, <1>7, <1>8, <1>9, <1>11

(* A byte is not read.                                                     *)
LEMMA IgnoreStep ==
  ASSUME IInv, Ignore
  PROVE  IInv'
<1>1. /\ device.mode # "loader" /\ toDevice # <<>> /\ toDevice' = Tail(toDevice)
      /\ UNCHANGED <<host, device, memory, toHost, input, sessions, acked, lost, torn>>
  BY DEF Ignore
<1>2. device.command = <<>> /\ ~device.escaped /\ TypeInv
  BY <1>1 DEF IInv, DeviceInv, BufferInv
<1>3. /\ toHost \o <<>> = toHost /\ <<>> \in Seq(Answers)
      /\ \A f \in Seq(Answers) : f \o <<>> = f
  BY <1>2 DEF TypeInv
<1>4. Fresh \in Seq(Answers)
  <2>1. \A f, g \in Seq(Answers) : f \o g \in Seq(Answers)
    OBVIOUS
  <2>. QED
    BY <1>2, <2>1 DEF TypeInv, Fresh, Said
<1>5. device' \in [mode : {"boot", "loader", "program"}, command : {<<>>},
                   escaped : {FALSE}]
  BY <1>1, <1>2 DEF TypeInv
<1>6. memory' \in [Address -> Byte]
  BY <1>1, <1>2 DEF TypeInv
<1>7. \A i \in 1 .. Len(<<>>) : <<>>[i] \in Stray
  OBVIOUS
<1>. QED
  BY <1>1, <1>3, <1>4, <1>5, <1>6, <1>7, DeafStep

(* The device has booted.                                                  *)
LEMMA BootStep ==
  ASSUME IInv, Boot
  PROVE  IInv'
<1>1. /\ device.mode = "boot" /\ device' = [device EXCEPT !.mode = "loader"]
      /\ toHost' = toHost \o <<Mark("!")>>
      /\ UNCHANGED <<host, memory, toDevice, input, sessions, acked, lost, torn>>
  <2>1. TypeInv
    BY DEF IInv
  <2>2. Append(toHost, Mark("!")) = toHost \o <<Mark("!")>>
    BY <2>1, Marks DEF TypeInv
  <2>. QED
    BY <2>2 DEF Boot
<1>2. device.command = <<>> /\ ~device.escaped /\ TypeInv
  BY <1>1 DEF IInv, DeviceInv, BufferInv
<1>3. <<Mark("!")>> \in Seq(Answers)
  BY Marks
<1>4. Fresh \in Seq(Answers)
  <2>1. \A f, g \in Seq(Answers) : f \o g \in Seq(Answers)
    OBVIOUS
  <2>. QED
    BY <1>2, <2>1 DEF TypeInv, Fresh, Said
<1>5. device' \in [mode : {"boot", "loader", "program"}, command : {<<>>},
                   escaped : {FALSE}]
  BY <1>1, <1>2 DEF TypeInv
<1>6. memory' \in [Address -> Byte]
  BY <1>1, <1>2 DEF TypeInv
<1>7. ~Has(Fresh, EndOfLine) /\ InTurn(Fresh) =>
        /\ InTurn(Fresh \o <<Mark("!")>>)
        /\ ~Has(Fresh \o <<Mark("!")>>, EndOfLine)
  BY <1>4, MoreInTurn
<1>8. /\ \A i \in 1 .. Len(<<Mark("!")>>) : <<Mark("!")>>[i] \in Stray
      /\ device'.mode = "loader"
  BY <1>1 DEF Stray, TypeInv
<1>. QED
  BY <1>1, <1>3, <1>5, <1>6, <1>7, <1>8, DeafStep

(* The program has returned.                                               *)
LEMMA ProgramReturnsStep ==
  ASSUME IInv, ProgramReturns
  PROVE  IInv'
<1> DEFINE r == <<Mark("k"), EndOfLine>>
<1>1. TypeInv
  BY DEF IInv
<1>2. /\ device.mode = "program" /\ device' = [device EXCEPT !.mode = "loader"]
      /\ memory' \in {memory, [a \in Address |-> Blank]}
      /\ toHost' = (toHost \o <<Mark("k")>>) \o <<EndOfLine>>
      /\ UNCHANGED <<host, toDevice, input, sessions, acked, lost, torn>>
  BY DEF ProgramReturns, Reply
<1>3. device.command = <<>> /\ ~device.escaped
  BY <1>2 DEF IInv, DeviceInv, BufferInv
<1>4. r \in Seq(Answers) /\ toHost' = toHost \o r
  <2>1. Mark("k") \in Answers /\ EndOfLine \in Answers
    BY Marks
  <2>2. toHost \in Seq(Answers)
    BY <1>1 DEF TypeInv
  <2>. QED
    BY <1>2, <2>1, <2>2, OneLine
<1>5. Fresh \in Seq(Answers)
  <2>1. \A f, g \in Seq(Answers) : f \o g \in Seq(Answers)
    OBVIOUS
  <2>. QED
    BY <1>1, <2>1 DEF TypeInv, Fresh, Said
<1>6. device' \in [mode : {"boot", "loader", "program"}, command : {<<>>},
                   escaped : {FALSE}] /\ device'.mode = "loader"
  BY <1>1, <1>2, <1>3 DEF TypeInv
<1>7. memory' \in [Address -> Byte]
  <2>1. memory \in [Address -> Byte]
    BY <1>1 DEF TypeInv
  <2>2. [a \in Address |-> Blank] \in [Address -> Byte]
    BY BlankAssumption DEF Byte
  <2>. QED
    BY <1>2, <2>1, <2>2
<1>8. ~Has(Fresh, EndOfLine) /\ InTurn(Fresh) => InTurn(Fresh \o r)
  BY <1>5, MoreInTurn
<1>9. Cleared'
  BY <1>6 DEF Cleared
<1>10. r = <<Mark("k"), EndOfLine>>
  OBVIOUS
<1> HIDE DEF r
<1>. QED
  BY <1>2, <1>4, <1>6, <1>7, <1>8, <1>9, <1>10, DeafStep

(* A token goes from the line, and the device says nothing or !.           *)
LEMMA TokenGoes ==
  ASSUME IInv, toDevice # <<>>, toDevice' = Tail(toDevice),
         UNCHANGED <<host, memory, input, sessions, acked>>,
         lost' = lost \/ lost' = lost + 1, torn => torn', LedInv',
         device'.mode = device.mode,
         \/ toHost' = toHost
         \/ toHost' = toHost \o <<Mark("!"), EndOfLine>> /\ Cleared',
         OnlyCtrlC(toDevice) /\ Cleared => Cleared',
         device'.command # <<>> /\ device'.command[1] \in Letter =>
           \/ Has(toDevice, device'.command[1])
           \/ device.command # <<>> /\ device.command[1] = device'.command[1]
  PROVE  HostInv' /\ VerifiedInv' /\ toHost' \in Seq(Answers)
<1> DEFINE a == <<Mark("!"), EndOfLine>>
           r == IF toHost' = toHost THEN <<>> ELSE a
<1>1. TypeInv /\ BufferInv /\ VerifiedInv /\ SyncInv /\ ReplyInv /\ StoredInv
  BY DEF IInv, DeviceInv, HostInv
<1>2. /\ \A t : Has(toDevice', t) => Has(toDevice, t)
      /\ OnlyCtrlC(toDevice) => OnlyCtrlC(toDevice')
  BY <1>1, RestOrdered DEF TypeInv, BufferInv
<1>3. toHost \in Seq(Answers)
  BY <1>1 DEF TypeInv
<1>4. a \in Seq(Answers) /\ <<>> \in Seq(Answers) /\ toHost \o <<>> = toHost
      /\ \A f \in Seq(Answers) : f \o <<>> = f
  BY <1>3, Marks
<1>5. r \in Seq(Answers) /\ toHost' = toHost \o r
      /\ (r = <<>> \/ (r = a /\ Cleared'))
  BY <1>4
<1> HIDE DEF r, a
<1>6. /\ Said \in Seq(Answers) /\ Said' = Said \o r
      /\ Fresh \in Seq(Answers) /\ Fresh' = Fresh \o r
      /\ toHost' \in Seq(Answers)
  BY <1>1, <1>5, SaysMore
<1>7. lost' = 0 => lost = 0
  BY <1>1 DEF TypeInv
<1>8. SyncInv'
  <2>1. Syncs' <=> Syncs
    BY DEF Syncs
  <2>2. ASSUME Syncs
        PROVE  Heard(Fresh)'
    <3>1. InTurn(Fresh) /\ (Has(Fresh, EndOfLine) => Cleared) /\ OnlyCtrlC(toDevice)
      BY <1>1, <2>2 DEF SyncInv, Heard
    <3>2. CASE r = <<>>
      BY <1>4, <1>6, <3>1, <3>2 DEF Heard
    <3>3. CASE r = a /\ Cleared'
      BY <1>6, <3>1, <3>3, MoreInTurn DEF Heard, a
    <3>. QED
      BY <1>5, <3>2, <3>3
  <2>. QED
    BY <1>1, <1>2, <2>1, <2>2 DEF SyncInv
<1>9. ReplyInv'
  <2> SUFFICES ASSUME Waits
               PROVE  /\ device'.mode = "loader"
                      /\ ~torn' => AllSent'
                      /\ Replied(Said)'
    BY DEF ReplyInv, Waits
  <2>1. device.mode = "loader" /\ Replied(Said)
    BY <1>1 DEF ReplyInv
  <2>2. ASSUME ~torn'
        PROVE  AllSent'
    <3>1. AllSent /\ Sent' = Sent
      BY <1>1, <2>2 DEF ReplyInv, Sent
    <3>2. \A t \in Letter : Has(toDevice', t) => t = Sent
      BY <1>2, <3>1 DEF AllSent
    <3>3. device'.command # <<>> => device'.command[1] = Sent
      BY <2>2, <3>1 DEF AllSent, LedInv
    <3>. QED
      BY <3>1, <3>2, <3>3 DEF AllSent
  <2>5. \A i \in 1 .. Len(Said) : Said[i] \in Stray
    BY <2>1 DEF Replied, Done
  <2>6. \A i \in 1 .. Len(Said \o r) : (Said \o r)[i] \in Stray
    <3>1. CASE r = <<>>
      BY <1>4, <1>6, <2>5, <3>1
    <3>2. CASE r = a
      BY <1>6, <2>5, <3>2, StraysFollow DEF a
    <3>. QED
      BY <1>5, <3>1, <3>2
  <2>7. Replied(Said)'
    BY <1>6, <2>6 DEF Replied
  <2>. QED
    BY <2>1, <2>2, <2>7
<1>10. StoredInv'
  BY <1>1, <1>7 DEF StoredInv, Waits, IsImage
<1>11. VerifiedInv'
  <2>1. Go \in Letter
    BY DEF Go, Letter
  <2>. QED
    BY <1>1, <1>2, <1>7, <2>1 DEF VerifiedInv, IsImage
<1>. QED
  BY <1>6, <1>8, <1>9, <1>10, <1>11 DEF HostInv

(* The room for what is left on the line.                                  *)
LEMMA RoomAfter ==
  ASSUME IInv, toDevice # <<>>
  PROVE  /\ Len(device.command) \in Nat /\ Len(device.command) <= ChunkSize + 1
         /\ Ordered(Tail(toDevice)) /\ Tail(toDevice) \in Seq(Token)
         /\ Fits(Tail(toDevice), Len(device.command), ChunkSize + 1)
         /\ Fits(Tail(toDevice), 0, ChunkSize + 1)
         /\ IsStored(Head(toDevice)) =>
              /\ Len(device.command) + 1 <= ChunkSize + 1
              /\ Fits(Tail(toDevice), Len(device.command) + 1, ChunkSize + 1)
<1> DEFINE n == Len(device.command)
<1>1. /\ toDevice \in Seq(Token) /\ device.command \in Seq(Token)
      /\ Ordered(toDevice) /\ n <= ChunkSize + 1 /\ Fits(toDevice, n, ChunkSize + 1)
  BY DEF IInv, TypeInv, DeviceInv, BufferInv
<1>2. n \in Nat /\ ChunkSize + 1 \in Nat /\ 0 \in Nat /\ 0 <= n
  BY <1>1, ChunkAssumption
<1>3. Ordered(Tail(toDevice)) /\ Tail(toDevice) \in Seq(Token)
  BY <1>1, RestOrdered
<1> HIDE DEF n
<1>4. /\ Fits(Tail(toDevice), n, ChunkSize + 1)
      /\ IsStored(Head(toDevice)) =>
           n + 1 <= ChunkSize + 1 /\ Fits(Tail(toDevice), n + 1, ChunkSize + 1)
  BY <1>1, <1>2, RestFits
<1>5. Fits(Tail(toDevice), 0, ChunkSize + 1)
  BY <1>2, <1>3, <1>4, FitsEarlier
<1>. QED
  BY <1>1, <1>2, <1>3, <1>4, <1>5 DEF n

(* What comes next as long as no header is torn.                           *)
LEMMA LedOn ==
  ASSUME IInv, ~torn, toDevice # <<>>
  PROVE  /\ \A t \in Torn : ~Has(Tail(toDevice), t)
         /\ Head(toDevice) = CtrlC =>
              OnlyCtrlC(Tail(toDevice)) \/ HasHeader(Tail(toDevice))
         /\ Head(toDevice) # CtrlC =>
              \/ OnlyCtrlC(Tail(toDevice))
              \/ Tail(toDevice) # <<>> /\ Head(Tail(toDevice)) # CtrlC
         /\ Head(toDevice) \notin {CtrlC} \cup Header => device.command # <<>>
         /\ Head(toDevice) \in Header => Head(toDevice) \in Letter
<1> DEFINE h == Head(toDevice)
           r == Tail(toDevice)
<1>1. toDevice \in Seq(Token) /\ Ordered(toDevice) /\ LedInv
  BY DEF IInv, DeviceInv, TypeInv, BufferInv
<1>2. /\ Len(toDevice) \in Nat \ {0} /\ h = toDevice[1] /\ r \in Seq(Token)
      /\ Len(r) = Len(toDevice) - 1
      /\ \A i \in 1 .. Len(toDevice) - 1 : r[i] = toDevice[i + 1]
  BY <1>1, Behind
<1>3. /\ \A t : Has(r, t) => Has(toDevice, t)
      /\ OnlyCtrlC(toDevice) => OnlyCtrlC(r) /\ h = CtrlC
      /\ h # CtrlC => ~HasHeader(r) /\ ~Has(r, CtrlC)
      /\ Has(toDevice, h)
  BY <1>1, RestOrdered
<1> HIDE DEF h, r
<1>4. /\ \A t \in Torn : ~Has(toDevice, t)
      /\ \/ OnlyCtrlC(toDevice)
         \/ HasHeader(toDevice)
         \/ device.command # <<>> /\ h # CtrlC
  BY <1>1 DEF LedInv, h
<1>5. \A i \in 1 .. Len(toDevice) : i = 1 \/ (i - 1 \in 1 .. Len(r) /\ i - 1 + 1 = i)
  BY <1>2
<1>6. ASSUME h \notin Header, HasHeader(toDevice)
      PROVE  HasHeader(r) /\ h = CtrlC
  <2>1. PICK i \in 1 .. Len(toDevice) : toDevice[i] \in Header
    BY <1>6 DEF HasHeader
  <2>2. i - 1 \in 1 .. Len(r) /\ r[i - 1] = toDevice[i]
    BY <1>2, <1>5, <1>6, <2>1
  <2>3. HasHeader(r)
    BY <2>1, <2>2 DEF HasHeader
  <2>. QED
    BY <1>3, <2>3
<1>7. CtrlC \notin Header
  BY Tokens
<1>8. h = CtrlC => OnlyCtrlC(r) \/ HasHeader(r)
  BY <1>3, <1>4, <1>6, <1>7
<1>9. ASSUME h # CtrlC
      PROVE  OnlyCtrlC(r) \/ (r # <<>> /\ Head(r) # CtrlC)
  <2>1. CASE r = <<>>
    BY <2>1 DEF OnlyCtrlC
  <2>2. CASE r # <<>>
    <3>1. Head(r) = r[1] /\ 1 \in 1 .. Len(r)
      BY <1>2, <2>2, Behind
    <3>. QED
      BY <1>3, <1>9, <2>2, <3>1 DEF Has
  <2>. QED
    BY <2>1, <2>2
<1>10. h \notin {CtrlC} \cup Header => device.command # <<>>
  BY <1>3, <1>4, <1>6
<1>11. h \in Header => h \in Letter
  BY <1>3, <1>4 DEF Header
<1>. QED
  BY <1>3, <1>4, <1>8, <1>9, <1>10, <1>11 DEF h, r

(* A byte that is lost is a header, or leaves a frame's header before the  *)
(* rest of it.                                                             *)
LEMMA LoseByteStep ==
  ASSUME IInv, Lose, LoseByte
  PROVE  IInv'
<1>1. /\ toDevice # <<>> /\ toDevice' = Tail(toDevice) /\ lost' = lost + 1
      /\ lost < MaxLost /\ torn' = (torn \/ IsHeader(Head(toDevice)))
      /\ UNCHANGED <<host, device, memory, toHost, input, sessions, acked>>
  BY DEF Lose, LoseByte
<1>2. TypeInv /\ BufferInv /\ LedInv
  BY DEF IInv, DeviceInv
<1>3. device.command # <<>> /\ device.command[1] \in Letter =>
        device.command # <<>> /\ device.command[1] = device.command[1]
  OBVIOUS
<1>4. LedInv'
  <2> SUFFICES ASSUME ~torn'
               PROVE  LedInv'
    BY DEF LedInv
  <2>1. ~torn /\ ~IsHeader(Head(toDevice))
    BY <1>1
  <2>2. Head(toDevice) \notin Header
    BY <2>1, Tokens DEF IsHeader
  <2>. QED
    BY <1>1, <1>2, <2>1, <2>2, LedOn DEF LedInv
<1>5. HostInv' /\ VerifiedInv' /\ toHost' \in Seq(Answers)
  BY <1>1, <1>4, TokenGoes DEF Cleared
<1>6. lost' \in 0 .. MaxLost /\ lost' # 0 /\ torn' \in BOOLEAN
  BY <1>1, <1>2, BoundAssumption DEF TypeInv
<1>7. TypeInv'
  <2>1. toDevice' \in Seq(Token)
    BY <1>1, RoomAfter
  <2>. QED
    BY <1>1, <1>2, <1>5, <1>6, <2>1 DEF TypeInv
<1>8. BufferInv'
  <2>1. /\ HasHeader(toDevice') => HasHeader(toDevice)
        /\ OnlyCtrlC(toDevice) => OnlyCtrlC(toDevice')
    BY <1>1, <1>2, RestOrdered DEF TypeInv, BufferInv
  <2>. QED
    BY <1>1, <1>2, <2>1, RoomAfter DEF BufferInv, Cleared
<1>9. WholeInv'
  BY <1>6 DEF WholeInv
<1>. QED
  BY <1>4, <1>5, <1>7, <1>8, <1>9 DEF IInv, DeviceInv

(* A header of which a part is lost takes the same room.                   *)
LEMMA HeadSpoilt ==
  ASSUME NEW f \in Seq(Token), f # <<>>, Ordered(f), Head(f) \in Header,
         NEW t \in Torn \cup {Char(49)}, NEW a, NEW b, Fits(f, a, b)
  PROVE  LET g == [f EXCEPT ![1] = t] IN
         g \in Seq(Token) /\ g # <<>> /\ Ordered(g) /\ Fits(g, a, b)
<1> DEFINE g == [f EXCEPT ![1] = t]
<1>1. t \in Token /\ t \notin {CtrlC, Esc, CR}
  <2>1. Char(49) \in Data /\ Char(49) \notin {CtrlC, Esc, CR}
    BY DEF Data, Byte, Char, CtrlC, Esc, CR
  <2>. QED
    BY <2>1, Tokens DEF Token, Header
<1>2. Len(f) \in Nat \ {0} /\ Head(f) = f[1]
  BY Behind
<1>3. /\ g \in Seq(Token) /\ Len(g) = Len(f) /\ g[1] = t
      /\ \A i \in 2 .. Len(f) : g[i] = f[i]
  BY <1>1, <1>2
<1> HIDE DEF g
<1>4. \A i \in 2 .. Len(f) : f[i] \notin Header \cup {CtrlC}
  <2>1. f[1] # CtrlC
    BY <1>2, Tokens
  <2>2. \A i \in 2 .. Len(f) : i \in 1 .. Len(f) /\ 1 \in 1 .. i - 1
    BY <1>2
  <2>. QED
    BY <2>1, <2>2 DEF Ordered
<1>5. \A i \in 1 .. Len(f) : i = 1 \/ i \in 2 .. Len(f)
  BY <1>2
<1>6. Ordered(g)
  <2>1. ASSUME NEW i \in 1 .. Len(f), g[i] \in Header \cup {CtrlC}, NEW j \in 1 .. i - 1
        PROVE  g[j] = CtrlC
    <3>1. i = 1
      BY <1>3, <1>4, <1>5, <2>1
    <3>. QED
      BY <2>1, <3>1
  <2>2. ASSUME NEW i \in 1 .. Len(f), g[i] = CR
        PROVE  i = Len(f)
    <3>1. i \in 2 .. Len(f)
      BY <1>1, <1>3, <1>5, <2>2
    <3>. QED
      BY <1>3, <2>2, <3>1 DEF Ordered
  <2>. QED
    BY <1>3, <2>1, <2>2 DEF Ordered
<1>7. Fits(g, a, b)
  <2>1. PICK slot \in [1 .. Len(f) -> Nat] : Places(slot, f, a, b)
    BY DEF Fits
  <2>2. \A i \in 1 .. Len(f) : IsStored(g[i]) => IsStored(f[i])
    <3>1. IsStored(f[1])
      BY <1>2, Tokens DEF IsStored
    <3>. QED
      BY <1>3, <1>5, <3>1
  <2>3. \A i \in 1 .. Len(f) : \A j \in 1 .. i - 1 : j \in 1 .. Len(f)
    BY <1>2
  <2>4. Places(slot, g, a, b)
    BY <1>3, <2>1, <2>2, <2>3 DEF Places
  <2>. QED
    BY <1>3, <2>1, <2>4 DEF Fits
<1>8. g # <<>>
  BY <1>2, <1>3
<1>. QED
  BY <1>3, <1>6, <1>7, <1>8 DEF g

(* With a part of a header lost nobody is promised anything but that the   *)
(* buffer is large enough.                                                 *)
LEMMA LosePartStep ==
  ASSUME IInv, Lose, LosePartOfHeader
  PROVE  IInv'
<1>1. TypeInv /\ BufferInv /\ SyncInv /\ ReplyInv /\ StoredInv
  BY DEF IInv, DeviceInv, HostInv
<1>2. /\ toDevice # <<>> /\ IsHeader(Head(toDevice)) /\ torn' = TRUE
      /\ lost' = lost + 1 /\ lost < MaxLost
      /\ UNCHANGED <<host, device, memory, toHost, input, sessions, acked>>
  BY DEF Lose, LosePartOfHeader
<1>3. /\ toDevice \in Seq(Token) /\ Ordered(toDevice) /\ Head(toDevice) \in Token
      /\ Head(toDevice) \in Header => HasHeader(toDevice)
      /\ OnlyCtrlC(toDevice) => Head(toDevice) = CtrlC
  BY <1>1, <1>2, RestOrdered DEF TypeInv, BufferInv
<1>4. Head(toDevice) \in Header
  BY <1>2, <1>3 DEF Token, Data, Char, IsHeader
<1>5. Cleared /\ ~OnlyCtrlC(toDevice)
  BY <1>1, <1>3, <1>4, Tokens DEF BufferInv
<1>6. PICK t \in Torn \cup {Char(49)} : toDevice' = [toDevice EXCEPT ![1] = t]
  <2>1. Head(toDevice)[1] \in {"X", "u", "c"}
    BY <1>4 DEF Header, Letter, Torn
  <2>2. <<Head(toDevice)[1], Damaged>> \in Torn
    BY <2>1 DEF Torn
  <2>. QED
    BY <2>2 DEF LosePartOfHeader
<1>7. /\ toDevice' \in Seq(Token) /\ toDevice' # <<>> /\ Ordered(toDevice')
      /\ Fits(toDevice', Len(device.command), ChunkSize + 1)
  BY <1>1, <1>2, <1>3, <1>4, <1>6, HeadSpoilt DEF BufferInv
<1>8. lost' \in 0 .. MaxLost /\ lost' # 0
  BY <1>1, <1>2, BoundAssumption DEF TypeInv
<1>9. TypeInv'
  BY <1>1, <1>2, <1>7, <1>8 DEF TypeInv
<1>10. BufferInv'
  BY <1>1, <1>2, <1>5, <1>7 DEF BufferInv, Cleared
<1>11. WholeInv' /\ VerifiedInv' /\ LedInv'
  BY <1>2, <1>8 DEF WholeInv, VerifiedInv, LedInv
<1>12. SyncInv'
  BY <1>1, <1>2, <1>5 DEF SyncInv, Syncs
<1>13. Said' = Said
  BY <1>2 DEF Said
<1>14. ReplyInv'
  <2>1. Waits => \A i \in 1 .. Len(Said) : Said[i] \in Stray
    BY <1>1, <1>2 DEF ReplyInv, Replied, Done
  <2>2. Waits => Replied(Said)'
    BY <1>13, <2>1 DEF Replied
  <2>. QED
    BY <1>2, <1>5, <2>2 DEF ReplyInv, Waits, Cleared
<1>15. StoredInv'
  BY <1>1, <1>2, <1>8 DEF StoredInv, Waits
<1>. QED
  BY <1>9, <1>10, <1>11, <1>12, <1>14, <1>15 DEF IInv, DeviceInv, HostInv

(* A Ctrl-C clears the buffer, in the middle of a frame too.               *)
LEMMA ReceiveCtrlCStep ==
  ASSUME IInv, ReceiveCtrlC
  PROVE  IInv'
<1>1. TypeInv /\ BufferInv /\ WholeInv
  BY DEF IInv, DeviceInv
<1>2. /\ device.mode = "loader" /\ toDevice # <<>> /\ Head(toDevice) = CtrlC
      /\ toDevice' = Tail(toDevice)
      /\ UNCHANGED <<host, memory, input, sessions, acked, lost, torn>>
      /\ toHost' = (toHost \o <<Mark("!")>>) \o <<EndOfLine>>
  BY DEF ReceiveCtrlC, Receives, Reply
<1>3. /\ device' \in [mode : {"loader"}, command : {<<>>}, escaped : {FALSE}]
      /\ device'.mode = "loader" /\ device'.command = <<>> /\ device'.escaped = FALSE
  BY <1>1, <1>2 DEF ReceiveCtrlC, Restart, TypeInv
<1>4. toHost' = toHost \o <<Mark("!"), EndOfLine>>
  BY <1>1, <1>2, Marks, OneLine DEF TypeInv
<1>5. Cleared'
  BY <1>3 DEF Cleared
<1>10. LedInv'
  BY <1>2, <1>3, LedOn DEF LedInv
<1>6. HostInv' /\ VerifiedInv' /\ toHost' \in Seq(Answers)
  BY <1>2, <1>3, <1>4, <1>5, <1>10, TokenGoes
<1>7. TypeInv'
  <2>1. <<>> \in Seq(Token)
    OBVIOUS
  <2>2. toDevice' \in Seq(Token)
    BY <1>2, RoomAfter
  <2>. QED
    BY <1>1, <1>2, <1>3, <1>6, <2>1, <2>2 DEF TypeInv
<1>8. BufferInv'
  <2>1. Len(<<>>) = 0 /\ 0 <= ChunkSize + 1
    BY ChunkAssumption
  <2>2. \A i \in 2 .. Len(device'.command) : device'.command[i] \in Data
    BY <1>3
  <2>. QED
    BY <1>2, <1>3, <1>5, <2>1, <2>2, RoomAfter DEF BufferInv
<1>9. WholeInv'
  <2> SUFFICES ASSUME lost' = 0, Has(toDevice', CR)
               PROVE  \E t \in Letter : InTransit(t)'
    BY DEF WholeInv
  <2>1. lost = 0 /\ Has(toDevice, CR)
    BY <1>1, <1>2, RestOrdered DEF TypeInv, BufferInv
  <2>2. PICK t \in Letter : InTransit(t)
    BY <1>1, <2>1 DEF WholeInv
  <2>3. InTransit(t)'
    BY <1>1, <1>2, <1>5, <2>2, TransitCtrlC
  <2>. QED
    BY <2>3
<1>. QED
  BY <1>6, <1>7, <1>8, <1>9, <1>10 DEF IInv, DeviceInv

(* What is not a Ctrl-C is not read before a letter or another Ctrl-C.     *)
LEMMA NoMore ==
  ASSUME IInv, toDevice # <<>>, Head(toDevice) # CtrlC
  PROVE  ~HasHeader(Tail(toDevice)) /\ ~OnlyCtrlC(toDevice)
BY RestOrdered DEF IInv, TypeInv, DeviceInv, BufferInv

(* An escape.                                                              *)
LEMMA ReceiveEscStep ==
  ASSUME IInv, ReceiveEsc
  PROVE  IInv'
<1>1. TypeInv /\ BufferInv /\ WholeInv
  BY DEF IInv, DeviceInv
<1>2. /\ device.mode = "loader" /\ toDevice # <<>> /\ Head(toDevice) = Esc
      /\ toDevice' = Tail(toDevice)
      /\ UNCHANGED <<host, memory, toHost, input, sessions, acked, lost, torn>>
      /\ device' = [device EXCEPT !.escaped = TRUE]
  BY DEF ReceiveEsc, Receives
<1>3. Esc # CtrlC
  BY Tokens
<1>4. ~HasHeader(toDevice') /\ ~OnlyCtrlC(toDevice)
  BY <1>2, <1>3, NoMore
<1>5. /\ device'.mode = "loader" /\ device'.command = device.command
      /\ device' \in [mode : {"boot", "loader", "program"}, command : Seq(Token),
                      escaped : BOOLEAN]
  BY <1>1, <1>2 DEF TypeInv
<1>11. LedInv'
  <2>1. Esc \notin {CtrlC} \cup Header
    BY Tokens
  <2>2. LedInv
    BY DEF IInv, DeviceInv
  <2>. QED
    BY <1>2, <1>5, <2>1, <2>2, LedOn DEF LedInv
<1>6. HostInv' /\ VerifiedInv' /\ toHost' \in Seq(Answers)
  BY <1>2, <1>4, <1>5, <1>11, TokenGoes
<1>7. toDevice' \in Seq(Token)
  BY <1>2, RoomAfter
<1>8. TypeInv'
  BY <1>1, <1>2, <1>5, <1>6, <1>7 DEF TypeInv
<1>9. BufferInv'
  BY <1>1, <1>2, <1>4, <1>5, RoomAfter DEF BufferInv
<1>10. WholeInv'
  <2> SUFFICES ASSUME lost' = 0, Has(toDevice', CR)
               PROVE  \E t \in Letter : InTransit(t)'
    BY DEF WholeInv
  <2>1. lost = 0 /\ Has(toDevice, CR)
    BY <1>1, <1>2, RestOrdered DEF TypeInv, BufferInv
  <2>2. PICK t \in Letter : InTransit(t)
    BY <1>1, <2>1 DEF WholeInv
  <2>3. InTransit(t)'
    BY <1>1, <1>2, <2>2, TransitEsc
  <2>. QED
    BY <2>3
<1>. QED
  BY <1>6, <1>8, <1>9, <1>10, <1>11 DEF IInv, DeviceInv

(* A byte, or a letter, is stored.                                         *)
LEMMA ReceiveByteStep ==
  ASSUME IInv, ReceiveByte
  PROVE  IInv'
<1> DEFINE h == Head(toDevice)
           b == IF device.escaped THEN <<h[1], Flip(h[2])>> ELSE h
           c == device.command
<1>1. TypeInv /\ BufferInv /\ WholeInv
  BY DEF IInv, DeviceInv
<1>2. /\ device.mode = "loader" /\ toDevice # <<>> /\ h \notin {CtrlC, Esc, CR}
      /\ toDevice' = Tail(toDevice) /\ Store(h)
      /\ UNCHANGED <<host, memory, toHost, input, sessions, acked, lost, torn>>
  BY DEF ReceiveByte, Receives
<1>3. /\ device'.mode = "loader" /\ device'.command = Append(c, b)
      /\ device'.escaped = FALSE
      /\ device' \in [mode : {"loader"}, command : {Append(c, b)}, escaped : {FALSE}]
  BY <1>1, <1>2 DEF TypeInv, Store
<1>4. ~HasHeader(toDevice') /\ ~OnlyCtrlC(toDevice)
  BY <1>2, NoMore
<1>5. h \in Token /\ Has(toDevice, h) /\ (h \in Header => Cleared)
  BY <1>1, <1>2, RestOrdered DEF TypeInv, BufferInv
<1>6. /\ b \in Token /\ (b \in Header => b = h /\ Cleared)
      /\ (~Cleared => b \in Data) /\ (h \in Header => b = h)
  <2>1. CASE h \in Header
    BY <1>5, <2>1 DEF Cleared
  <2>2. CASE h \notin Header
    <3>1. PICK x \in Byte : h = Char(x)
      BY <1>5, <2>2 DEF Token, Data
    <3>2. b = Char(x) \/ b = Char(Flip(x))
      BY <3>1 DEF Char
    <3>3. b \in Data
      BY <3>1, <3>2, Flipped DEF Data
    <3>. QED
      BY <2>2, <3>3, Tokens DEF Token
  <2>. QED
    BY <2>1, <2>2
<1>7. c \in Seq(Token) /\ Len(c) \in Nat
  BY <1>1 DEF TypeInv
<1> HIDE DEF b, c
<1>8. /\ Append(c, b) \in Seq(Token) /\ Len(Append(c, b)) = Len(c) + 1
      /\ Append(c, b)[Len(c) + 1] = b
      /\ \A i \in 1 .. Len(c) : Append(c, b)[i] = c[i]
  BY <1>6, <1>7
<1>9. c = <<>> => Append(c, b)[1] = b
  <2>1. Append(<<>>, b)[1] = b
    OBVIOUS
  <2>. QED
    BY <2>1
<1>10. c # <<>> => Append(c, b)[1] = c[1]
  <2>1. c # <<>> => 1 \in 1 .. Len(c)
    BY <1>7
  <2>. QED
    BY <1>8, <2>1
<1>15. LedInv'
  <2> SUFFICES ASSUME ~torn
               PROVE  LedInv'
    BY <1>2 DEF LedInv
  <2>1. CASE h \in Header
    <3>1. c = <<>> /\ h \in Letter
      BY <1>2, <1>5, <2>1, LedOn DEF Cleared, c
    <3>2. device'.command[1] \in Letter
      BY <1>3, <1>6, <1>9, <2>1, <3>1
    <3>. QED
      BY <1>2, <1>3, <1>8, <3>2, LedOn DEF LedInv
  <2>2. CASE h \notin Header
    <3>1. c # <<>>
      BY <1>2, <2>2, LedOn DEF c
    <3>2. device'.command[1] \in Letter
      BY <1>3, <1>10, <3>1 DEF c, IInv, DeviceInv, LedInv
    <3>. QED
      BY <1>2, <1>3, <1>8, <3>2, LedOn DEF LedInv
  <2>. QED
    BY <2>1, <2>2
<1>11. HostInv' /\ VerifiedInv' /\ toHost' \in Seq(Answers)
  <2>1. device'.command # <<>> /\ device'.command[1] \in Letter =>
          \/ Has(toDevice, device'.command[1])
          \/ device.command # <<>> /\ device.command[1] = device'.command[1]
    BY <1>3, <1>5, <1>6, <1>9, <1>10 DEF c, Header
  <2>. QED
    BY <1>2, <1>3, <1>4, <1>15, <2>1, TokenGoes
<1>12. TypeInv'
  <2>1. toDevice' \in Seq(Token)
    BY <1>2, RoomAfter
  <2>. QED
    BY <1>1, <1>2, <1>3, <1>8, <1>11, <2>1 DEF TypeInv
<1>13. BufferInv'
  <2>1. IsStored(h)
    BY <1>2 DEF IsStored
  <2>2. /\ Ordered(toDevice') /\ Len(c) + 1 <= ChunkSize + 1
        /\ Fits(toDevice', Len(c) + 1, ChunkSize + 1)
    BY <1>2, <2>1, RoomAfter DEF c
  <2>3. ASSUME NEW i \in 2 .. Len(c) + 1
        PROVE  Append(c, b)[i] \in Data
    <3>1. CASE i = Len(c) + 1
      <4>1. c # <<>>
        BY <1>7, <3>1
      <4>. QED
        BY <1>6, <1>8, <3>1, <4>1 DEF c, Cleared
    <3>2. CASE i \in 2 .. Len(c)
      <4>1. i \in 1 .. Len(c)
        BY <1>7, <3>2
      <4>. QED
        BY <1>1, <1>8, <3>2, <4>1 DEF BufferInv, c
    <3>. QED
      BY <1>7, <3>1, <3>2
  <2>. QED
    BY <1>3, <1>4, <1>8, <2>2, <2>3 DEF BufferInv
<1>14. WholeInv'
  <2> SUFFICES ASSUME lost' = 0, Has(toDevice', CR)
               PROVE  \E t \in Letter : InTransit(t)'
    BY DEF WholeInv
  <2>1. lost = 0 /\ Has(toDevice, CR)
    BY <1>1, <1>2, RestOrdered DEF TypeInv, BufferInv
  <2>2. PICK t \in Letter : InTransit(t)
    BY <1>1, <2>1 DEF WholeInv
  <2>3. InTransit(t)'
    BY <1>1, <1>2, <2>2, TransitByte
  <2>. QED
    BY <2>3
<1>. QED
  BY <1>11, <1>12, <1>13, <1>14, <1>15 DEF IInv, DeviceInv

(* The end of a frame is all there is on the line, and nobody is being     *)
(* heard; the device answers, if it does, with one line.                   *)
LEMMA EndOfFrame ==
  ASSUME IInv, NEW command, Dispatch(command)
  PROVE  /\ toDevice # <<>> /\ Head(toDevice) = CR /\ toDevice' = <<>>
         /\ device.mode = "loader" /\ ~Syncs /\ Has(toDevice, CR)
         /\ UNCHANGED <<host, input, sessions, acked, lost, torn>>
         /\ AsSent => /\ device.command # <<>> /\ device.command[1] \in Letter
                      /\ command = device.command[1][1]
         /\ ~torn /\ device.command # <<>> => AsSent
         /\ command # "none" => device.command # <<>>
<1>1. TypeInv /\ BufferInv /\ SyncInv /\ LedInv
  BY DEF IInv, DeviceInv, HostInv
<1>2. /\ device.mode = "loader" /\ toDevice # <<>> /\ Head(toDevice) = CR
      /\ toDevice' = Tail(toDevice) /\ Command = command
      /\ UNCHANGED <<host, input, sessions, acked, lost, torn>>
  BY DEF Dispatch, Receives
<1>3. toDevice' = <<>> /\ Has(toDevice, CR)
  BY <1>1, <1>2, RestOrdered DEF TypeInv, BufferInv
<1>4. CR # CtrlC
  BY Tokens
<1>5. ~Syncs
  BY <1>1, <1>2, <1>4, NoMore DEF SyncInv
<1>6. command # "none" => device.command # <<>>
  BY <1>2 DEF Command
<1>7. device.command # <<>> =>
        First = device.command[1] /\ device.command[1] \in Token
  <2>1. device.command \in Seq(Token)
    BY <1>1 DEF TypeInv
  <2>. QED
    BY <2>1, Behind DEF First
<1>8. ASSUME AsSent
      PROVE  /\ device.command # <<>> /\ device.command[1] \in Letter
             /\ command = device.command[1][1]
  <2>1. \A t \in Data : t[1] = "char"
    BY DEF Data, Char
  <2>2. device.command # <<>> /\ IsHeader(First) /\ First[2] # Damaged
    BY <1>8 DEF AsSent
  <2>3. First \in Header
    BY <1>7, <2>1, <2>2 DEF Token, IsHeader
  <2>. QED
    BY <1>2, <1>7, <2>2, <2>3, Tokens DEF Command
<1>9. ASSUME ~torn, device.command # <<>>
      PROVE  AsSent
  <2>1. First \in Letter
    BY <1>1, <1>7, <1>9 DEF LedInv
  <2>. QED
    BY <1>9, <2>1, Tokens DEF AsSent, IsHeader, Header
<1>. QED
  BY <1>2, <1>3, <1>5, <1>6, <1>8, <1>9

(* The device has obeyed a command and answers a.                          *)
LEMMA DispatchStep ==
  ASSUME IInv, NEW command, Dispatch(command), NEW a \in Answers,
         Reply(<<a>>), Restart(<<>>), memory' \in [Address -> Byte],
         Waits => /\ a \in Stray \/ Good(a)'
                  /\ lost = 0 => IsImage(0 .. host.at - 1)'
  PROVE  IInv'
<1> DEFINE r == <<a, EndOfLine>>
<1>1. TypeInv /\ BufferInv /\ SyncInv /\ ReplyInv /\ StoredInv
  BY DEF IInv, DeviceInv, HostInv
<1>2. /\ toDevice # <<>> /\ Head(toDevice) = CR /\ toDevice' = <<>>
      /\ device.mode = "loader" /\ ~Syncs
      /\ UNCHANGED <<host, input, sessions, acked, lost, torn>>
  BY EndOfFrame
<1>3. /\ device' \in [mode : {"loader"}, command : {<<>>}, escaped : {FALSE}]
      /\ device'.mode = "loader" /\ device'.command = <<>> /\ device'.escaped = FALSE
  BY <1>1, <1>2 DEF Restart, TypeInv
<1>4. toHost' = toHost \o r /\ r \in Seq(Answers)
  BY <1>1, Marks, OneLine DEF Reply, TypeInv
<1> HIDE DEF r
<1>5. /\ Said \in Seq(Answers) /\ Said' = Said \o r /\ toHost' \in Seq(Answers)
  BY <1>1, <1>2, <1>4, SaysMore
<1>6. /\ OnlyCtrlC(toDevice') /\ ~Has(toDevice', CR) /\ ~Has(toDevice', Go)
      /\ ~HasHeader(toDevice') /\ Ordered(toDevice') /\ toDevice' \in Seq(Token)
      /\ Fits(toDevice', 0, ChunkSize + 1) /\ \A t : ~Has(toDevice', t)
  <2>1. <<>> \in Seq(Token) /\ OnlyCtrlC(<<>>) /\ \A t : ~Has(<<>>, t)
    BY DEF OnlyCtrlC, Has
  <2>. QED
    BY <1>2, <2>1, CtrlCs
<1>7. TypeInv'
  <2>1. <<>> \in Seq(Token)
    OBVIOUS
  <2>. QED
    BY <1>1, <1>2, <1>3, <1>5, <1>6, <2>1 DEF TypeInv
<1>8. BufferInv'
  <2>1. Len(<<>>) = 0 /\ 0 <= ChunkSize + 1
    BY ChunkAssumption
  <2>2. \A i \in 2 .. Len(device'.command) : device'.command[i] \in Data
    BY <1>3
  <2>. QED
    BY <1>3, <1>6, <2>1, <2>2 DEF BufferInv
<1>9. WholeInv' /\ VerifiedInv' /\ LedInv'
  BY <1>3, <1>6 DEF WholeInv, VerifiedInv, LedInv
<1>10. SyncInv'
  BY <1>1, <1>2 DEF SyncInv, Syncs
<1>11. ASSUME Waits
       PROVE  Replied(Said)'
  <2>1. \A i \in 1 .. Len(Said) : Said[i] \in Stray
    BY <1>1, <1>2, <1>11 DEF ReplyInv, Replied, Done
  <2>2. \A i \in 1 .. Len(Said \o r) :
          \/ (Said \o r)[i] \in Stray
          \/ i = Len(Said \o r) - 1 /\ (Said \o r)[i] = a
    BY <1>5, <2>1, AnswerFollows DEF r
  <2>3. Done'
    BY <1>2, <1>3 DEF Done, Cleared
  <2>. QED
    BY <1>5, <1>11, <2>2, <2>3 DEF Replied
<1>12. ReplyInv'
  <2>1. Waits' => Waits
    BY <1>2 DEF Waits
  <2>2. AllSent'
    BY <1>3, <1>6 DEF AllSent
  <2>. QED
    BY <1>3, <1>11, <2>1, <2>2 DEF ReplyInv
<1>13. StoredInv'
  <2>1. Waits' => Waits
    BY <1>2 DEF Waits
  <2>. QED
    BY <1>1, <1>2, <2>1 DEF StoredInv, IsImage
<1>. QED
  BY <1>7, <1>8, <1>9, <1>10, <1>12, <1>13 DEF IInv, DeviceInv, HostInv

(* The frame that a host waits for is the one that is obeyed.              *)
LEMMA Obeyed ==
  ASSUME IInv, AsSent, ~torn, NEW command, Dispatch(command), Waits
  PROVE  /\ host.await = command /\ device.command[1] = Sent
         /\ Sent \in Letter
         /\ lost = 0 => device.command = Stored(Sent, Len(Payload(Sent)))
<1>1. TypeInv /\ WholeInv /\ ReplyInv
  BY DEF IInv, DeviceInv, HostInv
<1>2. /\ device.command # <<>> /\ device.command[1] \in Letter
      /\ command = device.command[1][1] /\ toDevice # <<>> /\ Head(toDevice) = CR
      /\ Has(toDevice, CR)
  BY EndOfFrame
<1>3. device.command[1] = Sent
  BY <1>1, <1>2 DEF ReplyInv, AllSent
<1>4. Sent[1] = host.await
  BY DEF Sent
<1>5. ASSUME lost = 0
      PROVE  device.command = Stored(Sent, Len(Payload(Sent)))
  <2>1. PICK t \in Letter : InTransit(t)
    BY <1>1, <1>2, <1>5 DEF WholeInv
  <2>2. device.command = Stored(t, Len(Payload(t)))
    BY <1>1, <1>2, <2>1, TransitEnd
  <2>3. Len(Payload(t)) \in 0 .. Len(Payload(t))
    BY PayloadType
  <2>4. device.command[1] = t
    BY <2>2, <2>3, StoredFacts
  <2>. QED
    BY <1>3, <2>2, <2>4
<1>. QED
  BY <1>2, <1>3, <1>4, <1>5

(* A chunk is written.                                                     *)
LEMMA WriteBinaryStep ==
  ASSUME IInv, WriteBinary
  PROVE  IInv'
<1> DEFINE c == device.command
           o == First[2]
           data == Tail(c)
<1>1. TypeInv /\ BufferInv /\ StoredInv
  BY DEF IInv, DeviceInv, HostInv
<1>2. /\ AsSent /\ Dispatch("X") /\ Reply(<<Mark("k")>>) /\ Restart(<<>>)
      /\ memory' = Written(o, data)
  BY DEF WriteBinary
<1>3. /\ c # <<>> /\ c[1] \in Letter /\ c[1][1] = "X"
      /\ UNCHANGED <<host, input, sessions, acked, lost, torn>>
  BY <1>2, EndOfFrame
<1>4. /\ Len(c) \in Nat /\ First = c[1] /\ DOMAIN data = 1 .. Len(c) - 1
      /\ \A i \in 1 .. Len(c) - 1 : data[i] = c[i + 1]
  BY <1>1, <1>3, Behind DEF TypeInv, First
<1>5. \A i \in DOMAIN data : data[i][2] \in Byte
  <2>1. \A t \in Data : t[2] \in Byte
    BY DEF Data, Char
  <2>2. \A i \in 1 .. Len(c) - 1 : i + 1 \in 2 .. Len(c)
    BY <1>4
  <2>. QED
    BY <1>1, <1>4, <2>1, <2>2 DEF BufferInv
<1> HIDE DEF data, c
<1>6. memory' = [a \in Address |-> IF a - o + 1 \in DOMAIN data
                                   THEN data[a - o + 1][2] ELSE memory[a]]
  BY <1>2 DEF Written
<1>7. memory' \in [Address -> Byte]
  BY <1>1, <1>5, <1>6 DEF TypeInv
<1>8. ASSUME Waits, lost = 0
      PROVE  /\ host.await = "X"
             /\ \A a \in Address : a \in host.at .. host.at + ChunkSize - 1
                                   => memory'[a] = Image[a + 1]
             /\ \A a \in Address : a \in 0 .. host.at - 1 => memory'[a] = Image[a + 1]
  <2>1. /\ host.await = "X" /\ c[1] = Sent /\ Sent \in Letter
        /\ c = Stored(Sent, Len(Payload(Sent)))
    BY <1>1, <1>2, <1>8, Obeyed DEF c, TypeInv
  <2>2. o = host.at /\ Sent = <<"X", host.at>> /\ o \in Offset
    BY <1>4, <2>1 DEF Sent, Letter
  <2>3. Payload(Sent) = Chunk(o)
    BY <2>2 DEF Payload
  <2>4. Len(Chunk(o)) \in 0 .. Len(Payload(Sent)) /\ Len(Chunk(o)) \in Nat
    BY <2>1, <2>3, PayloadType
  <2>5. data = [i \in 1 .. Len(Chunk(o)) |-> Char(Chunk(o)[i])]
    <3>1. Len(Payload(Sent)) \in 0 .. Len(Payload(Sent))
      BY <2>1, PayloadType
    <3>2. Tail(Stored(Sent, Len(Payload(Sent))))
            = [i \in 1 .. Len(Payload(Sent)) |-> Char(Payload(Sent)[i])]
      BY <2>1, <3>1, StoredFacts
    <3>. QED
      BY <2>1, <2>3, <3>2, Zenon DEF data
  <2>6. /\ o \in Nat
        /\ \A i \in 1 .. Len(Chunk(o)) : Chunk(o)[i] = Image[o + i]
        /\ \A a \in Address : a \in o .. o + ChunkSize - 1
                              => a - o + 1 \in 1 .. Len(Chunk(o))
    BY <2>2, ChunkFacts
  <2>7. \A i \in 1 .. Len(Chunk(o)) : data[i][2] = Chunk(o)[i]
    BY <2>5 DEF Char
  <2>8. DOMAIN data = 1 .. Len(Chunk(o))
    BY <2>5
  <2> HIDE DEF o
  <2>9. ASSUME NEW a \in Address, a \in o .. o + ChunkSize - 1
        PROVE  memory'[a] = Image[a + 1]
    <3>1. a - o + 1 \in 1 .. Len(Chunk(o))
      BY <2>6, <2>9
    <3>2. memory'[a] = Image[o + (a - o + 1)]
      BY <1>6, <2>6, <2>7, <2>8, <3>1
    <3>3. o + (a - o + 1) = a + 1
      BY <2>6 DEF Address
    <3>. QED
      BY <3>2, <3>3
  <2>10. ASSUME NEW a \in Address, a \in 0 .. o - 1
         PROVE  memory'[a] = Image[a + 1]
    <3>1. a - o + 1 \notin 1 .. Len(Chunk(o))
      BY <2>4, <2>6, <2>10
    <3>2. memory'[a] = memory[a]
      BY <1>6, <2>8, <3>1
    <3>. QED
      BY <1>1, <1>8, <2>2, <2>10, <3>2 DEF StoredInv, IsImage
  <2>. QED
    BY <2>1, <2>2, <2>9, <2>10
<1>9. ASSUME Waits
      PROVE  Good(Mark("k"))' /\ (lost = 0 => IsImage(0 .. host.at - 1)')
  BY <1>3, <1>8, <1>9, Marks DEF Good, IsImage
<1>10. Mark("k") \in Answers
  BY Marks
<1>. QED
  BY <1>2, <1>7, <1>9, <1>10, DispatchStep

(* The checksum is given.                                                  *)
LEMMA GiveChecksumStep ==
  ASSUME IInv, GiveChecksum
  PROVE  IInv'
<1>1. TypeInv /\ StoredInv
  BY DEF IInv, HostInv
<1>2. /\ Dispatch("u") /\ Reply(<<Sum(memory)>>) /\ Restart(<<>>) /\ memory' = memory
  BY DEF GiveChecksum, Sum
<1>3. UNCHANGED <<host, input, sessions, acked, lost, torn>>
  BY <1>2, EndOfFrame
<1>4. Sum(memory) \in Answers /\ memory' \in [Address -> Byte]
  BY <1>1, <1>2 DEF Answers, TypeInv
<1>5. Good(Sum(memory))'
  BY <1>2, Marks DEF Good
<1>6. Waits /\ lost = 0 => IsImage(0 .. host.at - 1)'
  BY <1>1, <1>2, <1>3 DEF StoredInv, IsImage
<1>. QED
  BY <1>2, <1>4, <1>5, <1>6, DispatchStep

(* A frame that is none of the commands.                                   *)
LEMMA UnrecognisedStep ==
  ASSUME IInv, Unrecognised
  PROVE  IInv'
<1>1. TypeInv /\ StoredInv
  BY DEF IInv, HostInv
<1>2. /\ Dispatch("none") /\ Reply(<<Mark("?")>>) /\ Restart(<<>>)
      /\ memory' = memory
  BY DEF Unrecognised
<1>3. UNCHANGED <<host, input, sessions, acked, lost, torn>>
  BY <1>2, EndOfFrame
<1>4. Mark("?") \in Answers /\ memory' \in [Address -> Byte]
  BY <1>1, <1>2, Marks DEF TypeInv
<1>5. Good(Mark("?"))'
  BY Marks DEF Good
<1>6. Waits /\ lost = 0 => IsImage(0 .. host.at - 1)'
  BY <1>1, <1>2, <1>3 DEF StoredInv, IsImage
<1>. QED
  BY <1>2, <1>4, <1>5, <1>6, DispatchStep

(* The loader is left: nobody waits, unless a header was torn.             *)
LEMMA LeaveStep ==
  ASSUME IInv, NEW command, Dispatch(command), Leave, toHost' = toHost,
         memory' \in [Address -> Byte],
         Waits => torn
  PROVE  IInv'
<1>1. TypeInv /\ SyncInv /\ ReplyInv /\ StoredInv
  BY DEF IInv, DeviceInv, HostInv
<1>2. device' = [mode |-> "program", command |-> <<>>, escaped |-> FALSE]
  BY DEF Leave
<1>3. /\ toDevice # <<>> /\ toDevice' = <<>> /\ ~Syncs
      /\ UNCHANGED <<host, input, sessions, acked, lost, torn>>
  BY EndOfFrame
<1>4. /\ OnlyCtrlC(toDevice') /\ ~Has(toDevice', CR) /\ ~Has(toDevice', Go)
      /\ ~HasHeader(toDevice') /\ Ordered(toDevice') /\ toDevice' \in Seq(Token)
      /\ Fits(toDevice', 0, ChunkSize + 1)
  <2>1. <<>> \in Seq(Token) /\ OnlyCtrlC(<<>>)
    BY DEF OnlyCtrlC
  <2>. QED
    BY <1>3, <2>1, CtrlCs
<1>5. TypeInv'
  <2>1. <<>> \in Seq(Token)
    OBVIOUS
  <2>. QED
    BY <1>1, <1>2, <1>3, <1>4, <2>1 DEF TypeInv
<1>6. BufferInv'
  <2>1. Len(<<>>) = 0 /\ 0 <= ChunkSize + 1
    BY ChunkAssumption
  <2>2. \A i \in 2 .. Len(<<>>) : <<>>[i] \in Data
    OBVIOUS
  <2>. QED
    BY <1>2, <1>4, <2>1, <2>2 DEF BufferInv
<1>7. WholeInv' /\ VerifiedInv' /\ LedInv'
  BY <1>2, <1>4, NoneTorn DEF WholeInv, VerifiedInv, LedInv
<1>8. SyncInv'
  BY <1>1, <1>3 DEF SyncInv, Syncs
<1>9. ReplyInv'
  <2>1. Said' = Said
    BY <1>3 DEF Said
  <2>2. Waits => \A i \in 1 .. Len(Said) : Said[i] \in Stray
    BY <1>1, <1>3 DEF ReplyInv, Replied, Done
  <2>3. Waits => Replied(Said)'
    BY <2>1, <2>2 DEF Replied
  <2>. QED
    BY <1>3, <2>3 DEF ReplyInv, Waits
<1>10. StoredInv'
  BY <1>1, <1>3 DEF StoredInv, Waits, TypeInv
<1>. QED
  BY <1>5, <1>6, <1>7, <1>8, <1>9, <1>10 DEF IInv, DeviceInv, HostInv

(* The program is started, as the host asked for: it does not wait for     *)
(* the answer to another command.                                          *)
LEMMA ChangeExecutionStep ==
  ASSUME IInv, ChangeExecution
  PROVE  IInv'
<1>1. /\ AsSent /\ Dispatch("c") /\ Leave /\ memory' = memory
      /\ toHost' = toHost
  BY DEF ChangeExecution
<1>2. memory' \in [Address -> Byte] /\ torn \in BOOLEAN
  BY <1>1 DEF IInv, TypeInv
<1>3. Waits => torn
  BY <1>1, <1>2, Obeyed DEF Waits
<1>. QED
  BY <1>1, <1>2, <1>3, LeaveStep

(* A command is obeyed by accident only if a header was torn.              *)
LEMMA AstrayFacts ==
  ASSUME IInv, NEW commands, Astray(commands), "none" \notin commands
  PROVE  /\ torn /\ lost # 0
         /\ \E command \in commands : Dispatch(command)
<1>1. PICK command \in commands : Dispatch(command)
  BY DEF Astray
<1>2. torn
  BY <1>1, EndOfFrame DEF Astray
<1>. QED
  BY <1>1, <1>2 DEF IInv, TypeInv

(* What it writes are bytes.                                               *)
LEMMA SpoiltType ==
  ASSUME IInv
  PROVE  Spoilt \subseteq [Address -> Byte]
<1>1. memory \in [Address -> Byte]
  BY DEF IInv, TypeInv
<1>2. Garbage \subseteq Byte
  BY GarbageAssumption DEF Byte
<1>. QED
  BY <1>1, <1>2 DEF Spoilt

(* Any answer is good enough.                                              *)
LEMMA AnyAnswer ==
  ASSUME torn', lost' # 0, NEW a \in Answers
  PROVE  a \in Stray \/ Good(a)'
BY DEF Good

(* A command that nobody sent writes to memory.                            *)
LEMMA WriteAstrayStep ==
  ASSUME IInv, WriteAstray
  PROVE  IInv'
<1>1. /\ Astray({"X", "M", "B"}) /\ memory' \in Spoilt
      /\ Reply(<<Mark("k")>>) /\ Restart(<<>>)
  BY DEF WriteAstray
<1>2. PICK command : Dispatch(command) /\ torn /\ lost # 0
  BY <1>1, AstrayFacts
<1>3. torn' /\ lost' # 0
  BY <1>2, EndOfFrame
<1>4. memory' \in [Address -> Byte] /\ Mark("k") \in Answers
  BY <1>1, SpoiltType, Marks
<1>. QED
  BY <1>1, <1>2, <1>3, <1>4, AnyAnswer, DispatchStep

(* It says something.                                                      *)
LEMMA AnswerAstrayStep ==
  ASSUME IInv, AnswerAstray
  PROVE  IInv'
<1>1. /\ Astray({"u", "m", "?", "!"}) /\ Restart(<<>>) /\ memory' = memory
  BY DEF AnswerAstray
<1>2. PICK a \in {Mark("!"), Mark("?"), <<"sum", Checksum(Image)>>} : Reply(<<a>>)
  BY DEF AnswerAstray
<1>3. PICK command : Dispatch(command) /\ torn /\ lost # 0
  BY <1>1, AstrayFacts
<1>4. torn' /\ lost' # 0
  BY <1>3, EndOfFrame
<1>5. memory' \in [Address -> Byte]
  BY <1>1 DEF IInv, TypeInv
<1>6. a \in Answers
  BY <1>2, Marks
<1>. QED
  BY <1>1, <1>2, <1>3, <1>4, <1>5, <1>6, AnyAnswer, DispatchStep

(* It does not come back.                                                  *)
LEMMA LeaveAstrayStep ==
  ASSUME IInv, LeaveAstray
  PROVE  IInv'
<1>1. /\ Astray({"c", "X", "M", "B"}) /\ Leave /\ memory' \in Spoilt
      /\ toHost' = toHost
  BY DEF LeaveAstray
<1>2. PICK command : Dispatch(command) /\ torn
  BY <1>1, AstrayFacts
<1>3. memory' \in [Address -> Byte]
  BY <1>1, SpoiltType
<1>. QED
  BY <1>1, <1>2, <1>3, LeaveStep
-----------------------------------------------------------------------------
(* The steps of the line and the host.  The next chunk starts at a         *)
(* multiple of the chunk size too.                                         *)
LEMMA NextChunk ==
  ASSUME NEW o \in Nat, o % ChunkSize = 0
  PROVE  (o + ChunkSize) % ChunkSize = 0
<1> DEFINE c == ChunkSize
           q == o \div c
           r == (o + c) % c
           p == (o + c) \div c
<1>1. c \in Nat \ {0}
  BY ChunkAssumption
<1> HIDE DEF c
<1>2. q \in Int /\ o = (c * q) + (o % c)
  BY <1>1
<1>3. o + c = c * (q + 1)
  BY <1>1, <1>2 DEF c
<1>4. p \in Int /\ r \in Int /\ o + c = (c * p) + r /\ 0 <= r /\ r < c
  BY <1>1
<1> HIDE DEF q, p, r
<1>5. r = c * (q + 1 - p)
  BY <1>1, <1>2, <1>3, <1>4
<1>6. ~(q + 1 - p >= 1)
  BY <1>1, <1>2, <1>4, <1>5
<1>7. ~(q + 1 - p <= -1)
  BY <1>1, <1>2, <1>4, <1>5
<1>8. q + 1 - p = 0
  BY <1>2, <1>4, <1>6, <1>7
<1>9. r = 0
  BY <1>1, <1>5, <1>8
<1>. QED
  BY <1>9 DEF r, c

(* Nothing of the device's concerns the host's variables.                  *)
LEMMA DeviceSame ==
  ASSUME DeviceInv, UNCHANGED <<device, memory, toDevice, lost, torn>>
  PROVE  DeviceInv'
<1>1. BufferInv'
  BY DEF DeviceInv, BufferInv, Cleared
<1>2. \A t \in Letter : InTransit(t) => InTransit(t)'
  BY DEF InTransit, OnItsWay, Arriving, Escaping, Cleared
<1>3. WholeInv'
  BY <1>2 DEF DeviceInv, WholeInv
<1>4. VerifiedInv'
  BY DEF DeviceInv, VerifiedInv, IsImage
<1>5. LedInv'
  BY DEF DeviceInv, LedInv
<1>. QED
  BY <1>1, <1>3, <1>4, <1>5 DEF DeviceInv

(* A byte reaches the host's buffer.                                       *)
LEMMA DeliverStep ==
  ASSUME IInv, Deliver
  PROVE  IInv'
<1>1. TypeInv /\ SyncInv /\ ReplyInv /\ StoredInv /\ DeviceInv
  BY DEF IInv, HostInv
<1>2. /\ toHost # <<>> /\ input' = Append(input, Head(toHost)) /\ toHost' = Tail(toHost)
      /\ UNCHANGED <<host, device, memory, toDevice, sessions, acked, lost, torn>>
  BY DEF Deliver
<1> DEFINE a == Head(toHost)
           r == Tail(toHost)
<1>3. /\ host.msg \in Seq(Answers) /\ input \in Seq(Answers) /\ toHost \in Seq(Answers)
  BY <1>1 DEF TypeInv
<1>4. /\ a \in Answers /\ r \in Seq(Answers) /\ toHost = <<a>> \o r
      /\ <<a>> \in Seq(Answers) /\ Append(input, a) = input \o <<a>>
  <2>1. a \in Answers /\ r \in Seq(Answers)
    BY <1>2, <1>3, Behind
  <2>2. toHost = <<a>> \o r
    BY <1>2, <1>3
  <2>. QED
    BY <1>3, <2>1, <2>2
<1>5. r \in Seq(Answers) /\ Len(r) = Len(toHost) - 1
      /\ \A i \in 1 .. Len(toHost) - 1 : r[i] = toHost[i + 1]
  BY <1>2, <1>3, Behind
<1> HIDE DEF a, r
<1>6. TypeInv'
  <2>1. input' \in Seq(Answers) /\ toHost' \in Seq(Answers)
    BY <1>2, <1>3, <1>4 DEF a, r
  <2>. QED
    BY <1>1, <1>2, <2>1 DEF TypeInv
<1>7. Said' = Said
  <2>1. \A x, y, z \in Seq(Answers) : (x \o y) \o z = x \o (y \o z)
    OBVIOUS
  <2>2. \A x, y \in Seq(Answers) : x \o y \in Seq(Answers)
    OBVIOUS
  <2> DEFINE m == host.msg
             b == <<a>>
  <2>3. m \in Seq(Answers) /\ b \in Seq(Answers)
    BY <1>3, <1>4
  <2>4. Said' = (m \o (input \o b)) \o r
    BY <1>2, <1>4 DEF Said, a, r
  <2>5. Said = (m \o input) \o (b \o r)
    BY <1>4 DEF Said
  <2> HIDE DEF m, b
  <2>6. (m \o (input \o b)) \o r = ((m \o input) \o b) \o r
    BY <1>3, <2>1, <2>3
  <2> DEFINE x == m \o input
  <2>7. x \in Seq(Answers)
    BY <1>3, <2>2, <2>3
  <2> HIDE DEF x
  <2>8. (x \o b) \o r = x \o (b \o r)
    BY <1>4, <2>1, <2>3, <2>7
  <2>. QED
    BY <2>4, <2>5, <2>6, <2>8 DEF x
<1>8. InTurn(toHost) => InTurn(r)
  <2> SUFFICES ASSUME InTurn(toHost), NEW i \in 1 .. Len(r)
               PROVE  /\ r[i] \in Stray \cup {Mark("k")}
                      /\ r[i] = EndOfLine =>
                           \A j \in 1 .. Len(r) : j > i => r[j] # Mark("k")
    BY DEF InTurn
  <2>1. \A j \in 1 .. Len(r) : /\ j + 1 \in 1 .. Len(toHost) /\ r[j] = toHost[j + 1]
                               /\ j > i => j + 1 > i + 1
    BY <1>3, <1>5
  <2>. QED
    BY <2>1 DEF InTurn
<1>9. Has(r, EndOfLine) => Has(toHost, EndOfLine)
  <2>1. \A j \in 1 .. Len(r) : j + 1 \in 1 .. Len(toHost) /\ r[j] = toHost[j + 1]
    BY <1>3, <1>5
  <2>. QED
    BY <2>1 DEF Has
<1>10. SyncInv'
  <2>1. Cleared' <=> Cleared
    BY <1>2 DEF Cleared
  <2>2. Heard(Fresh) => Heard(Fresh)'
    <3>1. CASE host.pc = "get"
      BY <1>2, <1>7, <2>1, <3>1 DEF Fresh, Heard
    <3>2. CASE host.pc # "get"
      <4>1. Fresh = toHost /\ Fresh' = r
        BY <1>2, <3>2 DEF Fresh, r
      <4>. QED
        BY <1>8, <1>9, <2>1, <4>1 DEF Heard
    <3>. QED
      BY <3>1, <3>2
  <2>. QED
    BY <1>1, <1>2, <2>2 DEF SyncInv, Syncs
<1>11. ReplyInv'
  <2>1. Replied(Said) => Replied(Said)'
    BY <1>2, <1>7 DEF Replied, Done, Cleared, Good, IsImage, Sum
  <2>. QED
    BY <1>1, <1>2, <2>1 DEF ReplyInv, AllSent, Waits, Sent
<1>12. StoredInv'
  BY <1>1, <1>2 DEF StoredInv, Waits, IsImage
<1>13. DeviceInv'
  BY <1>1, <1>2, DeviceSame
<1>. QED
  BY <1>6, <1>10, <1>11, <1>12, <1>13 DEF IInv, HostInv

(* What is cut short begins as the whole does, or is nothing but Ctrl-C's. *)
LEMMA FirstLed ==
  ASSUME NEW f \in Seq(Token), NEW m \in 0 .. Len(f), Ordered(f)
  PROVE  LET p == SubSeq(f, 1, m) IN
         /\ HasHeader(f) => OnlyCtrlC(p) \/ HasHeader(p)
         /\ OnlyCtrlC(p) \/ Head(p) = Head(f)
<1> DEFINE p == SubSeq(f, 1, m)
<1>1. /\ p \in Seq(Token) /\ Len(p) = m /\ Len(f) \in Nat /\ m \in Nat
      /\ \A i \in 1 .. m : p[i] = f[i] /\ i \in 1 .. Len(f)
  BY FirstOf
<1> HIDE DEF p
<1>2. ASSUME HasHeader(f)
      PROVE  OnlyCtrlC(p) \/ HasHeader(p)
  <2>1. PICK i \in 1 .. Len(f) : f[i] \in Header
    BY <1>2 DEF HasHeader
  <2>2. \A j \in 1 .. i - 1 : f[j] = CtrlC
    BY <2>1 DEF Ordered
  <2>3. CASE i \in 1 .. m
    BY <1>1, <2>1, <2>3 DEF HasHeader
  <2>4. CASE i \notin 1 .. m
    <3>1. \A j \in 1 .. m : j \in 1 .. i - 1
      BY <1>1, <2>1, <2>4
    <3>. QED
      BY <1>1, <2>2, <3>1 DEF OnlyCtrlC
  <2>. QED
    BY <2>3, <2>4
<1>3. OnlyCtrlC(p) \/ Head(p) = Head(f)
  <2>1. CASE m = 0
    BY <1>1, <2>1 DEF OnlyCtrlC
  <2>2. CASE m # 0
    <3>1. 1 \in 1 .. m /\ p # <<>> /\ f # <<>>
      BY <1>1, <2>2
    <3>2. Head(p) = p[1] /\ Head(f) = f[1]
      BY <1>1, <3>1, Behind
    <3>. QED
      BY <1>1, <3>1, <3>2
  <2>. QED
    BY <2>1, <2>2
<1>. QED
  BY <1>2, <1>3 DEF p

(* The host is idle: its last write may have been cut short.               *)
LEMMA IdleStep ==
  ASSUME IInv, GoTo("idle"), toDevice' \in Prefixes(toDevice),
         UNCHANGED <<device, memory, toHost, sessions, acked, lost, torn>>,
         input' \in Seq(Answers)
  PROVE  IInv'
<1>1. /\ TypeInv /\ SyncInv /\ DeviceInv /\ BufferInv /\ WholeInv /\ VerifiedInv
      /\ LedInv
  BY DEF IInv, HostInv, DeviceInv
<1>2. host'.pc = "idle" /\ host' = [host EXCEPT !.pc = "idle"]
  BY <1>1 DEF GoTo, TypeInv
<1>3. PICK m \in 0 .. Len(toDevice) : toDevice' = SubSeq(toDevice, 1, m)
  BY DEF Prefixes
<1>4. toDevice \in Seq(Token) /\ Ordered(toDevice)
  BY <1>1 DEF TypeInv, BufferInv
<1>5. /\ Ordered(toDevice') /\ toDevice' \in Seq(Token)
      /\ \A t : Has(toDevice', t) => Has(toDevice, t)
      /\ HasHeader(toDevice') => HasHeader(toDevice)
      /\ OnlyCtrlC(toDevice) => OnlyCtrlC(toDevice')
      /\ Has(toDevice', CR) => toDevice' = toDevice
  BY <1>3, <1>4, FirstOrdered
<1>6. Fits(toDevice', Len(device.command), ChunkSize + 1)
  BY <1>1, <1>3, <1>4, FirstFits DEF BufferInv
<1>7. TypeInv'
  BY <1>1, <1>2, <1>5 DEF TypeInv
<1>8. BufferInv'
  BY <1>1, <1>5, <1>6 DEF BufferInv, Cleared
<1>9. WholeInv'
  <2> SUFFICES ASSUME lost' = 0, Has(toDevice', CR)
               PROVE  \E t \in Letter : InTransit(t)'
    BY DEF WholeInv
  <2>1. toDevice' = toDevice
    BY <1>5
  <2>. QED
    BY <1>1, <2>1, DeviceSame DEF DeviceInv, WholeInv
<1>10. VerifiedInv'
  BY <1>1, <1>5 DEF VerifiedInv, IsImage
<1>11. HostInv'
  BY <1>2 DEF HostInv, SyncInv, ReplyInv, StoredInv, Syncs, Waits
<1>12. LedInv'
  <2> SUFFICES ASSUME ~torn
               PROVE  LedInv'
    BY DEF LedInv
  <2>1. OnlyCtrlC(toDevice') \/ HasHeader(toDevice')
          \/ (device.command # <<>> /\ Head(toDevice') # CtrlC)
    <3>1. /\ HasHeader(toDevice) => OnlyCtrlC(toDevice') \/ HasHeader(toDevice')
          /\ OnlyCtrlC(toDevice') \/ Head(toDevice') = Head(toDevice)
      BY <1>3, <1>4, FirstLed
    <3>. QED
      BY <1>1, <1>5, <3>1 DEF LedInv
  <2>. QED
    BY <1>1, <1>5, <2>1 DEF LedInv
<1>. QED
  BY <1>7, <1>8, <1>9, <1>10, <1>11, <1>12 DEF IInv, DeviceInv

(* All of the line is a beginning of it.                                   *)
LEMMA AllOfIt ==
  ASSUME TypeInv
  PROVE  toDevice \in Prefixes(toDevice)
<1>1. toDevice \in Seq(Token)
  BY DEF TypeInv
<1>2. Len(toDevice) \in 0 .. Len(toDevice)
  BY <1>1
<1>3. SubSeq(toDevice, 1, Len(toDevice)) = toDevice
  BY <1>1
<1>. QED
  BY <1>2, <1>3 DEF Prefixes

(* The host gives up.                                                      *)
LEMMA GiveUpStep ==
  ASSUME IInv, GiveUp, UNCHANGED <<device, memory, toHost, sessions, lost, torn>>,
         input' = input \/ input' = <<>>
  PROVE  IInv'
<1>1. TypeInv
  BY DEF IInv
<1>2. input' \in Seq(Answers)
  <2>1. input \in Seq(Answers) /\ <<>> \in Seq(Answers)
    BY <1>1 DEF TypeInv
  <2>. QED
    BY <2>1
<1>3. GoTo("idle") /\ toDevice' \in Prefixes(toDevice) /\ acked' = acked
  BY <1>1, AllOfIt DEF GiveUp
<1>. QED
  BY <1>2, <1>3, IdleStep

(* No answer has come in time.                                             *)
LEMMA TimeOutStep ==
  ASSUME IInv, TimeOut
  PROVE  IInv'
BY GiveUpStep DEF TimeOut

(* The host is stopped.                                                    *)
LEMMA StoppedStep ==
  ASSUME IInv, Stopped
  PROVE  IInv'
<1>1. input' \in Seq(Answers)
  BY DEF Stopped, IInv, TypeInv
<1>. QED
  BY <1>1, IdleStep DEF Stopped

(* The host has sent go, and takes any answer.                             *)
LEMMA StartedStep ==
  ASSUME IInv, Started
  PROVE  IInv'
BY GiveUpStep DEF Started, Gets

(* A run of the host begins, with a reset of the device or without.        *)
LEMMA ResetStep ==
  ASSUME IInv, Reset
  PROVE  IInv'
<1>1. TypeInv /\ DeviceInv
  BY DEF IInv
<1>2. /\ sessions < MaxSessions /\ sessions' = sessions + 1 /\ acked' = {}
      /\ host' = [pc |-> "sleep", await |-> "!", at |-> 0, msg |-> <<>>, polls |-> 0]
      /\ UNCHANGED <<toHost, input, lost, torn>>
  BY DEF Reset
<1>3. host' \in [pc : {"idle", "sleep", "poll", "look", "drain", "get"},
                 await : {"!", "X", "u", "c"}, at : {o \in Nat : o % ChunkSize = 0},
                 msg : Seq(Answers), polls : 0 .. MaxPolls]
  <2>1. 0 % ChunkSize = 0 /\ 0 \in 0 .. MaxPolls
    BY ChunkAssumption, BoundAssumption
  <2>2. <<>> \in Seq(Answers)
    OBVIOUS
  <2>. QED
    BY <1>2, <2>1, <2>2
<1>4. sessions' \in 0 .. MaxSessions /\ acked' \subseteq Offset
  BY <1>1, <1>2, BoundAssumption DEF TypeInv
<1>5. HostInv'
  BY <1>2 DEF HostInv, SyncInv, ReplyInv, StoredInv, Syncs, Waits
<1>6. CASE UNCHANGED <<device, memory, toDevice>>
  <2>1. DeviceInv'
    BY <1>1, <1>2, <1>6, DeviceSame
  <2>2. TypeInv'
    BY <1>1, <1>2, <1>3, <1>4, <1>6 DEF TypeInv
  <2>. QED
    BY <1>5, <2>1, <2>2 DEF IInv
<1>7. CASE /\ device' = [mode |-> "boot", command |-> <<>>, escaped |-> FALSE]
           /\ memory' \in {memory, [a \in Address |-> Blank]}
           /\ toDevice' = <<>>
  <2>1. memory' \in [Address -> Byte]
    <3>1. memory \in [Address -> Byte]
      BY <1>1 DEF TypeInv
    <3>2. [a \in Address |-> Blank] \in [Address -> Byte]
      BY BlankAssumption DEF Byte
    <3>. QED
      BY <1>7, <3>1, <3>2
  <2>2. /\ OnlyCtrlC(toDevice') /\ ~Has(toDevice', CR) /\ ~Has(toDevice', Go)
        /\ ~HasHeader(toDevice') /\ Ordered(toDevice') /\ toDevice' \in Seq(Token)
        /\ Fits(toDevice', 0, ChunkSize + 1)
    <3>1. <<>> \in Seq(Token) /\ OnlyCtrlC(<<>>)
      BY DEF OnlyCtrlC
    <3>. QED
      BY <1>7, <3>1, CtrlCs
  <2>3. TypeInv'
    <3>1. <<>> \in Seq(Token)
      OBVIOUS
    <3>. QED
      BY <1>1, <1>2, <1>3, <1>4, <1>7, <2>1, <2>2, <3>1 DEF TypeInv
  <2>4. BufferInv'
    <3>1. Len(<<>>) = 0 /\ 0 <= ChunkSize + 1
      BY ChunkAssumption
    <3>2. \A i \in 2 .. Len(<<>>) : <<>>[i] \in Data
      OBVIOUS
    <3>. QED
      BY <1>7, <2>2, <3>1, <3>2 DEF BufferInv
  <2>5. WholeInv' /\ VerifiedInv' /\ LedInv'
    BY <1>7, <2>2, NoneTorn DEF WholeInv, VerifiedInv, LedInv
  <2>. QED
    BY <1>5, <2>3, <2>4, <2>5 DEF IInv, DeviceInv
<1>. QED
  BY <1>6, <1>7 DEF Reset

(* Nothing is on the line any more.                                        *)
LEMMA AwakeStep ==
  ASSUME IInv, Awake
  PROVE  IInv'
<1>1. TypeInv /\ DeviceInv /\ SyncInv
  BY DEF IInv, HostInv
<1>2. /\ host.pc = "sleep" /\ toDevice = <<>> /\ toHost = <<>>
      /\ host' = [host EXCEPT !.pc = "poll"]
      /\ UNCHANGED <<device, memory, line, sessions, acked, lost, torn>>
  BY DEF Awake, At, GoTo
<1>3. UNCHANGED <<toDevice, toHost, input>>
  BY <1>2 DEF line
<1>4. TypeInv' /\ host'.pc = "poll"
  BY <1>1, <1>2, <1>3 DEF TypeInv
<1>5. DeviceInv'
  BY <1>1, <1>2, <1>3, DeviceSame
<1>6. SyncInv'
  <2>1. OnlyCtrlC(<<>>) /\ InTurn(<<>>) /\ ~Has(<<>>, EndOfLine)
    BY DEF OnlyCtrlC, InTurn, Has
  <2>2. acked = {}
    BY <1>1, <1>2 DEF SyncInv
  <2>3. Fresh' = <<>>
    BY <1>2, <1>3, <1>4 DEF Fresh
  <2>. QED
    BY <1>2, <1>3, <2>1, <2>2, <2>3 DEF SyncInv, Heard
<1>7. ReplyInv' /\ StoredInv'
  BY <1>4 DEF ReplyInv, StoredInv, Waits
<1>. QED
  BY <1>4, <1>5, <1>6, <1>7 DEF IInv, HostInv

(* One more Ctrl-C on the line.                                            *)
LEMMA OneMoreSent ==
  ASSUME IInv, Syncs, Send(<<CtrlC>>), UNCHANGED <<device, memory, lost, torn>>
  PROVE  DeviceInv' /\ toDevice' \in Seq(Token) /\ OnlyCtrlC(toDevice')
<1>1. TypeInv /\ BufferInv /\ SyncInv
  BY DEF IInv, DeviceInv, HostInv
<1>2. toDevice \in Seq(Token) /\ OnlyCtrlC(toDevice)
  BY <1>1 DEF TypeInv, SyncInv
<1>3. toDevice' \in Seq(Token) /\ OnlyCtrlC(toDevice')
  BY <1>2, OneMore DEF Send
<1>4. /\ Ordered(toDevice') /\ ~HasHeader(toDevice') /\ ~Has(toDevice', CR)
      /\ ~Has(toDevice', Go) /\ Fits(toDevice', Len(device.command), ChunkSize + 1)
  BY <1>3, CtrlCs
<1>5. BufferInv'
  BY <1>1, <1>3, <1>4 DEF BufferInv
<1>6. WholeInv'
  BY <1>4 DEF WholeInv
<1>7. VerifiedInv'
  BY <1>4 DEF IInv, DeviceInv, VerifiedInv, IsImage
<1>8. LedInv'
  BY <1>3, NoneTorn DEF IInv, DeviceInv, LedInv
<1>. QED
  BY <1>3, <1>5, <1>6, <1>7, <1>8 DEF DeviceInv

(* The steps of a host that makes itself heard: what it has not looked at  *)
(* is as before.                                                           *)
LEMMA SyncingStep ==
  ASSUME IInv, Syncs, Syncs', ~Waits', host'.pc # "sleep",
         DeviceInv', TypeInv', OnlyCtrlC(toDevice'),
         UNCHANGED <<device, acked>>, Fresh' = Fresh
  PROVE  IInv'
<1>1. SyncInv
  BY DEF IInv, HostInv
<1>2. SyncInv'
  BY <1>1 DEF SyncInv, Heard, Cleared
<1>3. ReplyInv' /\ StoredInv'
  BY DEF ReplyInv, StoredInv
<1>. QED
  BY <1>2, <1>3 DEF IInv, HostInv

(* One more Ctrl-C is sent.                                                *)
LEMMA PollStep ==
  ASSUME IInv, Poll
  PROVE  IInv'
<1>1. TypeInv
  BY DEF IInv
<1>2. /\ host.pc = "poll" /\ host.polls < MaxPolls /\ Send(<<CtrlC>>)
      /\ host' = [host EXCEPT !.pc = "look", !.polls = @ + 1]
      /\ UNCHANGED <<device, memory, toHost, input, sessions, acked, lost, torn>>
  BY DEF Poll, At
<1>3. Syncs
  BY <1>2 DEF Syncs
<1>4. DeviceInv' /\ toDevice' \in Seq(Token) /\ OnlyCtrlC(toDevice')
  BY <1>2, <1>3, OneMoreSent
<1>5. host'.pc = "look" /\ host'.polls \in 0 .. MaxPolls
  BY <1>1, <1>2, BoundAssumption DEF TypeInv
<1>6. TypeInv'
  BY <1>1, <1>2, <1>4, <1>5 DEF TypeInv
<1>7. Syncs' /\ ~Waits' /\ host'.pc # "sleep"
  BY <1>5 DEF Syncs, Waits
<1>8. Fresh' = Fresh
  BY <1>2, <1>5 DEF Fresh
<1>. QED
  BY <1>2, <1>3, <1>4, <1>6, <1>7, <1>8, SyncingStep

(* The host reads one character, or none.                                  *)
LEMMA LookStep ==
  ASSUME IInv, Look
  PROVE  IInv'
<1>1. TypeInv /\ DeviceInv /\ SyncInv
  BY DEF IInv, HostInv
<1>2. /\ host.pc = "look"
      /\ \E p \in {"drain", "poll"} : host' = [host EXCEPT !.pc = p]
      /\ input' = IF input = <<>> THEN input ELSE Tail(input)
      /\ UNCHANGED <<device, memory, toDevice, toHost, sessions, acked, lost, torn>>
  BY DEF Look, At, GoTo
<1>3. Syncs
  BY <1>2 DEF Syncs
<1>4. host'.pc \in {"drain", "poll"}
  BY <1>1, <1>2 DEF TypeInv
<1>5. input' \in Seq(Answers)
  <2>1. input \in Seq(Answers)
    BY <1>1 DEF TypeInv
  <2>. QED
    BY <1>2, <2>1, Behind
<1>6. TypeInv'
  BY <1>1, <1>2, <1>5 DEF TypeInv
<1>7. DeviceInv'
  BY <1>1, <1>2, DeviceSame
<1>8. Syncs' /\ ~Waits' /\ host'.pc # "sleep"
  BY <1>4 DEF Syncs, Waits
<1>9. Fresh' = Fresh
  BY <1>2, <1>4 DEF Fresh
<1>10. OnlyCtrlC(toDevice')
  BY <1>1, <1>2, <1>3 DEF SyncInv
<1>. QED
  BY <1>2, <1>3, <1>6, <1>7, <1>8, <1>9, <1>10, SyncingStep

(* The host drops what it has been told and sends the last Ctrl-C.         *)
LEMMA DrainStep ==
  ASSUME IInv, Drain
  PROVE  IInv'
<1>1. TypeInv
  BY DEF IInv
<1>2. /\ host.pc = "drain" /\ input' = <<>> /\ Send(<<CtrlC>>)
      /\ host' = [host EXCEPT !.pc = "get", !.await = "!", !.at = 0, !.msg = <<>>]
      /\ UNCHANGED <<device, memory, toHost, sessions, acked, lost, torn>>
  BY DEF Drain, At, Await
<1>3. Syncs
  BY <1>2 DEF Syncs
<1>4. DeviceInv' /\ toDevice' \in Seq(Token) /\ OnlyCtrlC(toDevice')
  BY <1>2, <1>3, OneMoreSent
<1>5. host'.pc = "get" /\ host'.await = "!" /\ host'.msg = <<>>
  BY <1>1, <1>2 DEF TypeInv
<1>6. TypeInv'
  <2>1. 0 % ChunkSize = 0
    BY ChunkAssumption
  <2>2. <<>> \in Seq(Answers)
    OBVIOUS
  <2>. QED
    BY <1>1, <1>2, <1>4, <2>1, <2>2 DEF TypeInv
<1>7. Syncs' /\ ~Waits' /\ host'.pc # "sleep"
  BY <1>5 DEF Syncs, Waits
<1>8. Fresh' = Fresh
  <2>1. Fresh = toHost /\ Fresh' = (<<>> \o <<>>) \o toHost
    BY <1>2, <1>5 DEF Fresh, Said
  <2>2. toHost \in Seq(Answers)
    BY <1>1 DEF TypeInv
  <2>3. <<>> \o <<>> = <<>> /\ <<>> \o toHost = toHost
    BY <2>2
  <2>. QED
    BY <2>1, <2>3
<1>. QED
  BY <1>2, <1>3, <1>4, <1>6, <1>7, <1>8, SyncingStep

(* What is in the host's buffer goes to its message.                       *)
LEMMA GetMoreStep ==
  ASSUME IInv, GetMore
  PROVE  IInv'
<1>1. TypeInv /\ DeviceInv /\ SyncInv /\ ReplyInv /\ StoredInv
  BY DEF IInv, HostInv
<1>2. /\ host.pc = "get" /\ input' = <<>>
      /\ host' = [host EXCEPT !.msg = host.msg \o input]
      /\ UNCHANGED <<device, memory, toDevice, toHost, sessions, acked, lost, torn>>
  BY DEF GetMore, At
<1>3. /\ host'.pc = host.pc /\ host'.await = host.await /\ host'.at = host.at
      /\ host'.msg = host.msg \o input
  BY <1>1, <1>2 DEF TypeInv
<1>4. /\ host.msg \in Seq(Answers) /\ input \in Seq(Answers)
      /\ host.msg \o input \in Seq(Answers)
  BY <1>1 DEF TypeInv
<1>5. TypeInv'
  <2>1. <<>> \in Seq(Answers)
    OBVIOUS
  <2>. QED
    BY <1>1, <1>2, <1>4, <2>1 DEF TypeInv
<1>6. Said' = Said
  <2>1. (host.msg \o input) \o <<>> = host.msg \o input
    BY <1>4
  <2>. QED
    BY <1>2, <1>3, <2>1 DEF Said
<1>7. DeviceInv'
  BY <1>1, <1>2, DeviceSame
<1>8. SyncInv'
  <2>1. Fresh' = Fresh
    BY <1>2, <1>3, <1>6 DEF Fresh
  <2>. QED
    BY <1>1, <1>2, <1>3, <2>1 DEF SyncInv, Syncs, Heard, Cleared
<1>9. ReplyInv'
  <2>1. Replied(Said) => Replied(Said)'
    BY <1>2, <1>3, <1>6 DEF Replied, Done, Cleared, Good, IsImage, Sum
  <2>. QED
    BY <1>1, <1>2, <1>3, <2>1 DEF ReplyInv, AllSent, Waits, Sent
<1>10. StoredInv'
  BY <1>1, <1>2, <1>3 DEF StoredInv, Waits, IsImage
<1>. QED
  BY <1>5, <1>7, <1>8, <1>9, <1>10 DEF IInv, HostInv

(* The first end of a line in the host's buffer.                           *)
LEMMA FirstLineFacts ==
  ASSUME input \in Seq(Answers), FirstLine > 0
  PROVE  FirstLine \in 1 .. Len(input) /\ input[FirstLine] = EndOfLine
<1> DEFINE I == {i \in 1 .. Len(input) : input[i] = EndOfLine}
<1>1. FirstLine = IF I # {} THEN Min(I) ELSE 0
  BY Zenon DEF FirstLine, SelectInSeq
<1>2. I # {}
  BY <1>1
<1>3. I \in SUBSET Nat
  OBVIOUS
<1>4. PICK m \in I : \A z \in I : m <= z
  BY <1>2, <1>3, LeastOf
<1>5. Min(I) \in I
  BY <1>4, Zenon DEF Min
<1>6. FirstLine \in I
  BY <1>1, <1>2, <1>5
<1>. QED
  BY <1>6

(* Two parts of what the device has said.                                  *)
LEMMA SaidJoined ==
  ASSUME NEW f \in Seq(Answers), NEW g \in Seq(Answers)
  PROVE  /\ f \o g \in Seq(Answers) /\ Len(f \o g) = Len(f) + Len(g)
         /\ Len(f) \in Nat /\ Len(g) \in Nat
         /\ \A i \in 1 .. Len(f) : (f \o g)[i] = f[i]
         /\ \A i \in 1 .. Len(g) : (f \o g)[Len(f) + i] = g[i]
OBVIOUS

(* An answer that a host that waits takes for one is the only one.         *)
LEMMA AnswerIs ==
  ASSUME IInv, Waits, FirstLine > 0, NEW a, Answer = <<a>>, a \notin Stray
  PROVE  Done /\ Good(a) /\ toHost = <<>>
<1> DEFINE m == host.msg
           F == FirstLine
           p == SubSeq(input, 1, F - 1)
           q == m \o input
<1>1. m \in Seq(Answers) /\ input \in Seq(Answers) /\ toHost \in Seq(Answers)
  BY DEF IInv, TypeInv
<1>2. F \in 1 .. Len(input)
  BY <1>1, FirstLineFacts
<1>3. Replied(Said)
  BY DEF IInv, HostInv, ReplyInv
<1>4. /\ Len(m) \in Nat /\ Len(input) \in Nat /\ Len(toHost) \in Nat
      /\ F - 1 \in 0 .. Len(input)
  BY <1>1, <1>2
<1>5. /\ p \in Seq(Answers) /\ Len(p) = F - 1
      /\ \A k \in 1 .. F - 1 : p[k] = input[k]
  BY <1>1, <1>4, FirstOf
<1>6. m \o p = <<a>>
  BY DEF Answer
<1> HIDE DEF m, F, p
<1>7. /\ Len(m \o p) = Len(m) + Len(p) /\ Len(<<a>>) = 1 /\ <<a>>[1] = a
      /\ \A i \in 1 .. Len(m) : (m \o p)[i] = m[i]
      /\ \A i \in 1 .. Len(p) : (m \o p)[Len(m) + i] = p[i]
  <2>1. Len(<<a>>) = 1 /\ <<a>>[1] = a
    OBVIOUS
  <2>. QED
    BY <1>1, <1>5, <2>1, SaidJoined
<1>8. Len(m) + F = 2
  BY <1>2, <1>4, <1>5, <1>6, <1>7
<1>9. /\ q \in Seq(Answers) /\ Len(q) = Len(m) + Len(input)
      /\ \A i \in 1 .. Len(m) : q[i] = m[i]
      /\ \A i \in 1 .. Len(input) : q[Len(m) + i] = input[i]
  BY <1>1, SaidJoined
<1>10. q[1] = a
  <2>1. CASE Len(m) = 1
    <3>1. 1 \in 1 .. Len(m)
      BY <2>1
    <3>2. (m \o p)[1] = m[1] /\ q[1] = m[1]
      BY <1>7, <1>9, <3>1
    <3>. QED
      BY <1>6, <1>7, <3>2
  <2>2. CASE Len(m) = 0
    <3>1. F = 2 /\ 1 \in 1 .. Len(p) /\ 1 \in 1 .. Len(input) /\ Len(m) + 1 = 1
      BY <1>2, <1>4, <1>5, <1>8, <2>2
    <3>2. (m \o p)[Len(m) + 1] = p[1] /\ q[Len(m) + 1] = input[1] /\ p[1] = input[1]
      BY <1>5, <1>7, <1>9, <3>1
    <3>3. (m \o p)[1] = p[1] /\ q[1] = input[1]
      BY <3>1, <3>2
    <3>. QED
      BY <1>6, <1>7, <3>2, <3>3
  <2>3. Len(m) = 0 \/ Len(m) = 1
    BY <1>2, <1>4, <1>8
  <2>. QED
    BY <2>1, <2>2, <2>3
<1>11. Said = q \o toHost
  BY DEF Said, m
<1>12. Len(q) >= 2 /\ 1 \in 1 .. Len(q)
  BY <1>2, <1>4, <1>8, <1>9
<1> HIDE DEF q
<1>13. /\ Len(q \o toHost) = Len(q) + Len(toHost)
       /\ \A i \in 1 .. Len(q) : (q \o toHost)[i] = q[i]
  BY <1>1, <1>9, <1>11, SaidJoined
<1>14. Said[1] = a /\ 1 \in 1 .. Len(Said)
  BY <1>4, <1>10, <1>11, <1>12, <1>13
<1>15. 1 = Len(Said) - 1 /\ Done /\ Good(a)
  BY <1>3, <1>14 DEF Replied
<1>16. Len(toHost) = 0
  BY <1>4, <1>11, <1>12, <1>13, <1>15
<1>17. toHost = <<>>
  BY <1>1, <1>16
<1>. QED
  BY <1>15, <1>17

(* A frame is sent to a device that listens and has an empty buffer, and   *)
(* nothing on the line can be taken for its answer.                        *)
LEMMA SendStep ==
  ASSUME IInv, NEW t \in Letter, Cleared, OnlyCtrlC(toDevice),
         toDevice' = toDevice \o Frame(t), input' = <<>>,
         UNCHANGED <<device, memory, toHost, sessions, lost, torn>>,
         \A i \in 1 .. Len(toHost) : toHost[i] \in Stray,
         NEW c \in {"X", "u", "c"}, NEW o \in Nat, o % ChunkSize = 0,
         Await(c, o), acked' \subseteq Offset,
         c \in {"X", "u"} => /\ t = <<c, IF c = "X" THEN o ELSE 0>>
                             /\ c = "X" <=> o < Len(Image)
                             /\ \A x \in acked' : x + ChunkSize <= o
                             /\ lost = 0 => IsImage(0 .. o - 1),
         t = Go /\ ~torn =>
           Checksum(memory) = Checksum(Image) /\ (lost = 0 => IsImage(Address))
  PROVE  IInv'
<1>1. TypeInv /\ BufferInv
  BY DEF IInv, DeviceInv
<1>2. toDevice \in Seq(Token) /\ toHost \in Seq(Answers)
  BY <1>1 DEF TypeInv
<1>3. /\ toDevice' \in Seq(Token) /\ Ordered(toDevice')
      /\ Fits(toDevice', 0, ChunkSize + 1)
      /\ \A i \in 1 .. Len(toDevice') : toDevice'[i] \in Header => toDevice'[i] = t
      /\ Len(toDevice') = Len(toDevice) + Len(Frame(t)) /\ Len(toDevice) \in Nat
      /\ \A i \in 1 .. Len(toDevice) : toDevice'[i] = CtrlC
      /\ \A i \in 1 .. Len(Frame(t)) : toDevice'[Len(toDevice) + i] = Frame(t)[i]
  BY <1>2, FrameOrdered
<1>4. /\ host'.pc = "get" /\ host'.await = c /\ host'.at = o /\ host'.msg = <<>>
      /\ host' = [host EXCEPT !.pc = "get", !.await = c, !.at = o, !.msg = <<>>]
  BY <1>1 DEF Await, TypeInv
<1>5. TypeInv'
  <2>1. <<>> \in Seq(Answers)
    OBVIOUS
  <2>. QED
    BY <1>1, <1>3, <1>4, <2>1 DEF TypeInv
<1>6. /\ device'.mode = "loader" /\ device'.command = <<>> /\ ~device'.escaped
      /\ Cleared' /\ Len(<<>>) = 0 /\ 0 <= ChunkSize + 1
  <2>1. Len(<<>>) = 0
    OBVIOUS
  <2>. QED
    BY <2>1, ChunkAssumption DEF Cleared
<1>7. BufferInv'
  <2>1. \A i \in 2 .. Len(device'.command) : device'.command[i] \in Data
    BY <1>6
  <2>. QED
    BY <1>3, <1>6, <2>1 DEF BufferInv
<1>8. WholeInv'
  <2>1. OnItsWay(t)'
    BY <1>3, <1>6 DEF OnItsWay
  <2>. QED
    BY <2>1 DEF WholeInv, InTransit
<1>9. VerifiedInv'
  <2>1. Has(toDevice', Go) => t = Go
    BY <1>3 DEF Has, Go, Header, Letter
  <2>. QED
    BY <1>6, <2>1 DEF VerifiedInv, IsImage
<1>14. LedInv'
  <2>1. HasHeader(toDevice')
    <3>1. 1 \in 1 .. Len(Frame(t)) /\ Frame(t)[1] = t
      BY FrameFacts
    <3>2. Len(toDevice) + 1 \in 1 .. Len(toDevice')
      BY <1>3, <3>1
    <3>. QED
      BY <1>3, <3>1, <3>2 DEF HasHeader, Header
  <2>2. \A x \in Torn : x # t
    BY Tokens DEF Torn, Header
  <2>3. \A x \in Torn : ~Has(toDevice', x)
    BY <1>3, <2>2 DEF Has, Header
  <2>. QED
    BY <1>6, <2>1, <2>3 DEF LedInv
<1>10. SyncInv'
  BY <1>4 DEF SyncInv, Syncs
<1>11. Said' = toHost
  <2>1. Said' = (<<>> \o <<>>) \o toHost
    BY <1>4 DEF Said
  <2>2. <<>> \o <<>> = <<>> /\ <<>> \o toHost = toHost
    BY <1>2
  <2>. QED
    BY <2>1, <2>2
<1>12. ReplyInv'
  <2>1. Replied(Said)'
    BY <1>11 DEF Replied
  <2>2. Waits' => Sent' = t
    BY <1>4 DEF Waits, Sent
  <2>3. Waits' => AllSent'
    BY <1>3, <1>6, <2>2 DEF AllSent, Has, Header
  <2>. QED
    BY <1>6, <2>1, <2>3 DEF ReplyInv
<1>13. StoredInv'
  BY <1>4 DEF StoredInv, Waits, IsImage
<1>. QED
  BY <1>5, <1>7, <1>8, <1>9, <1>10, <1>12, <1>13, <1>14 DEF IInv, DeviceInv,
     HostInv

(* A frame without bytes is its letter and its end.                        *)
LEMMA ShortFrame ==
  ASSUME NEW t \in Letter, t[1] # "X"
  PROVE  Frame(t) = <<t, CR>>
<1>1. Payload(t) = <<>>
  BY DEF Payload
<1>2. Encode(<<>>) = <<>>
  <2>1. <<>> \in Seq(Byte) /\ Len(<<>>) = 0
    OBVIOUS
  <2>2. EncodedFrom(<<>>)[Len(<<>>) + 1] = <<>>
    BY <2>1, Encoded
  <2>3. Len(<<>>) + 1 = 1
    BY <2>1
  <2>. QED
    BY <2>2, <2>3 DEF Encode
<1>3. t \in Token /\ CR \in Token
  BY Tokens DEF Token
<1>4. <<t>> \o <<>> = <<t>>
  OBVIOUS
<1>5. <<t>> \o <<CR>> = <<t, CR>>
  <2> DEFINE w == <<t>> \o <<CR>>
             v == <<t, CR>>
  <2>1. w \in Seq(Token) /\ Len(w) = 2 /\ w[1] = t /\ w[2] = CR
    BY <1>3
  <2>2. v \in Seq(Token) /\ Len(v) = 2 /\ v[1] = t /\ v[2] = CR
    BY <1>3
  <2> HIDE DEF w, v
  <2>3. w = v
    BY <2>1, <2>2
  <2>. QED
    BY <2>3 DEF w, v
<1>. QED
  BY <1>1, <1>2, <1>4, <1>5 DEF Frame

(* What load() writes are frames.                                          *)
LEMMA ContinueSends ==
  ASSUME NEW o \in Nat, o % ChunkSize = 0, Continue(o)
  PROVE  \E t \in Letter, c \in {"X", "u"} :
           /\ toDevice' = toDevice \o Frame(t) /\ Await(c, o)
           /\ t = <<c, IF c = "X" THEN o ELSE 0>>
           /\ c = "X" <=> o < Len(Image)
<1>1. CASE o < Len(Image)
  <2> DEFINE t == <<"X", o>>
  <2>1. o \in Offset
    BY <1>1, ImageAssumption DEF Offset, Address
  <2>2. t \in Letter
    BY <2>1 DEF Letter
  <2>3. Frame(t) = << <<"X", o>> >> \o Encode(Chunk(o)) \o <<CR>>
    BY DEF Frame, Payload
  <2>4. toDevice' = toDevice \o Frame(t) /\ Await("X", o)
    BY <1>1, <2>3 DEF Continue, Send
  <2>. QED
    BY <1>1, <2>2, <2>4
<1>2. CASE ~(o < Len(Image))
  <2> DEFINE t == <<"u", 0>>
  <2>1. t \in Letter
    BY DEF Letter
  <2>2. Frame(t) = << t, CR >>
    BY <2>1, ShortFrame
  <2>3. toDevice' = toDevice \o Frame(t) /\ Await("u", o)
    BY <1>2, <2>2 DEF Continue, Send
  <2>. QED
    BY <1>2, <2>1, <2>3
<1>. QED
  BY <1>1, <1>2

(* The device has answered the Ctrl-C.                                     *)
LEMMA InSyncStep ==
  ASSUME IInv, InSync
  PROVE  IInv'
<1>1. TypeInv /\ SyncInv
  BY DEF IInv, HostInv
<1>2. /\ host.pc = "get" /\ host.await = "!" /\ FirstLine > 0 /\ input' = <<>>
      /\ Continue(0) /\ acked' = acked
      /\ UNCHANGED <<device, memory, toHost, sessions, lost, torn>>
  BY DEF InSync, Gets, At
<1>3. Syncs /\ Fresh = Said
  BY <1>2 DEF Syncs, Fresh
<1>4. acked = {} /\ OnlyCtrlC(toDevice) /\ InTurn(Said)
      /\ (Has(Said, EndOfLine) => Cleared)
  BY <1>1, <1>3 DEF SyncInv, Heard
<1> DEFINE q == host.msg \o input
           m == Len(host.msg)
           n == Len(toHost)
<1>5. host.msg \in Seq(Answers) /\ input \in Seq(Answers) /\ toHost \in Seq(Answers)
  BY <1>1 DEF TypeInv
<1>6. FirstLine \in 1 .. Len(input) /\ input[FirstLine] = EndOfLine
  BY <1>2, <1>5, FirstLineFacts
<1>7. /\ q \in Seq(Answers) /\ Len(q) = m + Len(input) /\ m \in Nat
      /\ Len(input) \in Nat
      /\ \A i \in 1 .. Len(input) : q[m + i] = input[i]
  BY <1>5, SaidJoined
<1>8. Said = q \o toHost
  BY DEF Said
<1> HIDE DEF q, m
<1>9. /\ Len(Said) = Len(q) + n /\ n \in Nat
      /\ \A i \in 1 .. Len(q) : Said[i] = q[i]
      /\ \A i \in 1 .. n : Said[Len(q) + i] = toHost[i]
  <2>1. /\ Len(q \o toHost) = Len(q) + n /\ n \in Nat
        /\ \A i \in 1 .. Len(q) : (q \o toHost)[i] = q[i]
        /\ \A i \in 1 .. n : (q \o toHost)[Len(q) + i] = toHost[i]
    BY <1>5, <1>7, SaidJoined
  <2>. QED
    BY <1>8, <2>1
<1> HIDE DEF n
<1> DEFINE f == m + FirstLine
<1>10. f \in 1 .. Len(q) /\ f \in 1 .. Len(Said)
  BY <1>6, <1>7, <1>9
<1>11. Said[f] = EndOfLine
  BY <1>6, <1>7, <1>9, <1>10
<1> HIDE DEF f
<1>12. Cleared
  BY <1>4, <1>10, <1>11 DEF Has
<1>13. ASSUME NEW i \in 1 .. n
       PROVE  toHost[i] \in Stray
  <2>1. Len(q) + i \in 1 .. Len(Said) /\ Len(q) + i > f
    BY <1>7, <1>9, <1>10
  <2>2. Said[Len(q) + i] = toHost[i]
    BY <1>9
  <2>3. /\ Said[Len(q) + i] \in Stray \cup {Mark("k")}
        /\ Said[Len(q) + i] # Mark("k")
    BY <1>4, <1>10, <1>11, <2>1 DEF InTurn
  <2>. QED
    BY <2>2, <2>3
<1>14. 0 \in Nat /\ 0 % ChunkSize = 0
  BY ChunkAssumption
<1>15. PICK t \in Letter, c \in {"X", "u"} :
         /\ toDevice' = toDevice \o Frame(t) /\ Await(c, 0)
         /\ t = <<c, IF c = "X" THEN 0 ELSE 0>>
         /\ c = "X" <=> 0 < Len(Image)
  BY <1>2, <1>14, ContinueSends
<1>16. t # Go
  BY <1>15 DEF Go
<1>17. IsImage(0 .. 0 - 1)
  BY DEF IsImage
<1>18. acked' \subseteq Offset /\ \A x \in acked' : x + ChunkSize <= 0
  BY <1>2, <1>4
<1>. QED
  BY <1>2, <1>4, <1>12, <1>13, <1>14, <1>15, <1>16, <1>17, <1>18, SendStep DEF n

(* The device has answered a write.                                        *)
LEMMA ChunkWrittenStep ==
  ASSUME IInv, ChunkWritten
  PROVE  IInv'
<1>1. TypeInv /\ StoredInv /\ BufferInv
  BY DEF IInv, HostInv, DeviceInv
<1>2. /\ host.pc = "get" /\ host.await = "X" /\ FirstLine > 0 /\ input' = <<>>
      /\ UNCHANGED <<device, memory, toHost, sessions, lost, torn>>
  BY DEF ChunkWritten, Gets, At
<1>3. CASE Answer = <<Mark("k")>>
  <2> DEFINE o == host.at
             z == o + ChunkSize
  <2>1. Continue(z) /\ acked' = acked \cup {o}
    BY <1>3 DEF ChunkWritten
  <2>2. Waits
    BY <1>2 DEF Waits
  <2>3. Done /\ Good(Mark("k")) /\ toHost = <<>>
    BY <1>2, <1>3, <2>2, AnswerIs, Marks
  <2>4. Cleared /\ OnlyCtrlC(toDevice)
    BY <2>3 DEF Done, OnlyCtrlC
  <2>5. o \in Nat /\ o % ChunkSize = 0 /\ acked \subseteq Offset
    BY <1>1 DEF TypeInv
  <2>6. o < Len(Image) /\ \A x \in acked : x + ChunkSize <= o
    BY <1>1, <1>2, <2>2 DEF StoredInv
  <2>7. lost = 0 => IsImage(0 .. o - 1) /\ IsImage(o .. o + ChunkSize - 1)
    BY <1>1, <2>2, <2>3 DEF StoredInv, Good
  <2> HIDE DEF o
  <2>8. o \in Offset
    BY <2>5, <2>6, ImageAssumption DEF Offset, Address
  <2>9. acked' \subseteq Offset
    BY <2>1, <2>5, <2>8
  <2>10. z \in Nat /\ z % ChunkSize = 0
    <3>1. z \in Nat
      BY <2>5, ChunkAssumption
    <3>2. z % ChunkSize = 0
      BY <2>5, NextChunk
    <3>. QED
      BY <3>1, <3>2
  <2>11. \A x \in acked' : x + ChunkSize <= z
    <3>1. \A x \in acked : x \in Nat
      BY <2>5 DEF Offset, Address
    <3>. QED
      BY <2>1, <2>5, <2>6, <3>1, ChunkAssumption
  <2>12. lost = 0 => IsImage(0 .. z - 1)
    <3>1. \A a \in Address : a \in 0 .. z - 1
            => a \in 0 .. o - 1 \/ a \in o .. o + ChunkSize - 1
      BY <2>5, ChunkAssumption DEF Address
    <3>. QED
      BY <2>7, <3>1 DEF IsImage
  <2> HIDE DEF z
  <2>13. PICK t \in Letter, c \in {"X", "u"} :
           /\ toDevice' = toDevice \o Frame(t) /\ Await(c, z)
           /\ t = <<c, IF c = "X" THEN z ELSE 0>>
           /\ c = "X" <=> z < Len(Image)
    BY <2>1, <2>10, ContinueSends DEF z
  <2>14. t # Go
    BY <2>13 DEF Go
  <2>15. \A i \in 1 .. Len(toHost) : toHost[i] \in Stray
    BY <2>3
  <2>. QED
    BY <1>2, <2>4, <2>9, <2>10, <2>11, <2>12, <2>13, <2>14, <2>15, SendStep
<1>4. CASE Answer # <<Mark("k")>>
  BY <1>2, <1>4, GiveUpStep DEF ChunkWritten
<1>. QED
  BY <1>3, <1>4

(* The device has given the checksum.                                      *)
LEMMA VerifiedStep ==
  ASSUME IInv, Verified
  PROVE  IInv'
<1>1. TypeInv /\ StoredInv
  BY DEF IInv, HostInv
<1>2. /\ host.pc = "get" /\ host.await = "u" /\ FirstLine > 0 /\ input' = <<>>
      /\ UNCHANGED <<device, memory, toHost, sessions, lost, torn>>
  BY DEF Verified, Gets, At
<1> DEFINE a == <<"sum", Checksum(Image)>>
<1>3. CASE Answer = <<a>>
  <2>1. /\ Send(<<Go, CR>>) /\ Await("c", host.at) /\ acked' = acked
    BY <1>3 DEF Verified, Go
  <2>2. Waits
    BY <1>2 DEF Waits
  <2>3. a \notin Stray \cup {Mark("k"), Mark("?")}
    BY DEF Stray, Mark, EndOfLine
  <2>4. Done /\ Good(a) /\ toHost = <<>>
    BY <1>2, <1>3, <2>2, <2>3, AnswerIs
  <2>5. Cleared /\ OnlyCtrlC(toDevice)
    BY <2>4 DEF Done, OnlyCtrlC
  <2>6. ~torn => a = Sum(memory)
    BY <2>3, <2>4 DEF Good
  <2>7. ~torn => Checksum(memory) = Checksum(Image)
    BY <2>6 DEF Sum
  <2>8. host.at \in Nat /\ host.at % ChunkSize = 0 /\ acked \subseteq Offset
    BY <1>1 DEF TypeInv
  <2>9. ~(host.at < Len(Image)) /\ (lost = 0 => IsImage(0 .. host.at - 1))
    BY <1>1, <1>2, <2>2 DEF StoredInv
  <2>10. lost = 0 => IsImage(Address)
    <3>1. \A b \in Address : b \in 0 .. host.at - 1
      BY <2>8, <2>9, ImageAssumption DEF Address
    <3>. QED
      BY <2>9, <3>1 DEF IsImage
  <2>11. Go \in Letter /\ Frame(Go) = <<Go, CR>>
    <3>1. Go \in Letter
      BY DEF Go, Letter
    <3>. QED
      BY <3>1, ShortFrame DEF Go
  <2>12. toDevice' = toDevice \o Frame(Go)
    BY <2>1, <2>11 DEF Send
  <2>13. \A i \in 1 .. Len(toHost) : toHost[i] \in Stray
    BY <2>4
  <2> HIDE DEF a
  <2>14. "c" \in {"X", "u", "c"} /\ "c" \notin {"X", "u"} /\ acked' \subseteq Offset
    BY <2>1, <2>8
  <2>. QED
    BY <1>2, <2>1, <2>5, <2>7, <2>8, <2>10, <2>11, <2>12, <2>13, <2>14, SendStep
<1>4. CASE Answer # <<a>>
  BY <1>2, <1>4, GiveUpStep DEF Verified
<1>. QED
  BY <1>3, <1>4
-----------------------------------------------------------------------------
(* The invariant holds at first, is kept by every step, and has in it what *)
(* is to be shown.                                                         *)
LEMMA InitInv ==
  ASSUME Init
  PROVE  IInv
<1>1. /\ host = [pc |-> "idle", await |-> "!", at |-> 0, msg |-> <<>>, polls |-> 0]
      /\ device \in [mode : {"loader", "program"}, command : {<<>>}, escaped : {FALSE}]
      /\ memory = [a \in Address |-> Blank]
      /\ toDevice = <<>> /\ toHost = <<>> /\ input = <<>>
      /\ sessions = 0 /\ acked = {} /\ lost = 0 /\ torn = FALSE
  BY DEF Init
<1>2. <<>> \in Seq(Token) /\ <<>> \in Seq(Answers) /\ Len(<<>>) = 0
  OBVIOUS
<1>3. host \in [pc : {"idle", "sleep", "poll", "look", "drain", "get"},
                await : {"!", "X", "u", "c"}, at : {o \in Nat : o % ChunkSize = 0},
                msg : Seq(Answers), polls : 0 .. MaxPolls]
  <2>1. 0 % ChunkSize = 0 /\ 0 \in 0 .. MaxPolls
    BY ChunkAssumption, BoundAssumption
  <2>. QED
    BY <1>1, <1>2, <2>1
<1>4. device \in [mode : {"boot", "loader", "program"}, command : Seq(Token),
                  escaped : BOOLEAN] /\ device.command = <<>> /\ device.escaped = FALSE
  BY <1>1, <1>2
<1>5. memory \in [Address -> Byte]
  BY <1>1, BlankAssumption DEF Byte
<1>6. sessions \in 0 .. MaxSessions /\ lost \in 0 .. MaxLost /\ acked \subseteq Offset
  BY <1>1, BoundAssumption
<1>7. TypeInv
  BY <1>1, <1>2, <1>3, <1>4, <1>5, <1>6 DEF TypeInv
<1>8. OnlyCtrlC(<<>>)
  BY DEF OnlyCtrlC
<1>9. /\ Ordered(<<>>) /\ ~HasHeader(<<>>) /\ ~Has(<<>>, CR) /\ ~Has(<<>>, Go)
      /\ Fits(<<>>, 0, ChunkSize + 1)
  BY <1>2, <1>8, CtrlCs
<1>10. BufferInv
  <2>1. 0 <= ChunkSize + 1
    BY ChunkAssumption
  <2>2. \A i \in 2 .. Len(<<>>) : <<>>[i] \in Data
    OBVIOUS
  <2>. QED
    BY <1>1, <1>2, <1>4, <1>8, <1>9, <2>1, <2>2 DEF BufferInv
<1>11. WholeInv /\ VerifiedInv /\ LedInv
  BY <1>1, <1>2, <1>4, <1>8, <1>9, NoneTorn DEF WholeInv, VerifiedInv, LedInv
<1>12. host.pc = "idle"
  BY <1>1
<1>13. HostInv
  BY <1>12 DEF HostInv, SyncInv, ReplyInv, StoredInv, Syncs, Waits
<1>. QED
  BY <1>7, <1>10, <1>11, <1>13 DEF IInv, DeviceInv

(* A step that changes nothing.                                            *)
LEMMA StutterInv ==
  ASSUME IInv, UNCHANGED vars
  PROVE  IInv'
<1>1. UNCHANGED <<host, device, memory, toDevice, toHost, input, sessions, acked, lost, torn>>
  BY DEF vars, line
<1>2. TypeInv' /\ DeviceInv'
  BY <1>1, DeviceSame DEF IInv, TypeInv
<1>3. Said' = Said /\ Fresh' = Fresh
  BY <1>1 DEF Said, Fresh
<1>4. SyncInv'
  BY <1>1, <1>3 DEF IInv, HostInv, SyncInv, Syncs, Heard, Cleared
<1>5. ReplyInv'
  <2>1. Replied(Said) => Replied(Said)'
    BY <1>1, <1>3 DEF Replied, Done, Cleared, Good, IsImage, Sum
  <2>. QED
    BY <1>1, <2>1 DEF IInv, HostInv, ReplyInv, AllSent, Waits, Sent
<1>6. StoredInv'
  BY <1>1 DEF IInv, HostInv, StoredInv, Waits, IsImage
<1>. QED
  BY <1>2, <1>4, <1>5, <1>6 DEF IInv, HostInv

(* One step for each action.                                               *)
LEMMA StepInv ==
  ASSUME IInv, [Next]_vars
  PROVE  IInv'
<1>1. CASE Deliver
  BY <1>1, DeliverStep
<1>2. CASE Lose
  BY <1>2, LoseByteStep, LosePartStep DEF Lose
<1>3. CASE Ignore
  BY <1>3, IgnoreStep
<1>4. CASE Boot
  BY <1>4, BootStep
<1>5. CASE ProgramReturns
  BY <1>5, ProgramReturnsStep
<1>6. CASE ReceiveCtrlC
  BY <1>6, ReceiveCtrlCStep
<1>7. CASE ReceiveEsc
  BY <1>7, ReceiveEscStep
<1>8. CASE ReceiveByte
  BY <1>8, ReceiveByteStep
<1>9. CASE WriteBinary
  BY <1>9, WriteBinaryStep
<1>10. CASE GiveChecksum
  BY <1>10, GiveChecksumStep
<1>11. CASE ChangeExecution
  BY <1>11, ChangeExecutionStep
<1>12. CASE Unrecognised
  BY <1>12, UnrecognisedStep
<1>13. CASE Reset
  BY <1>13, ResetStep
<1>14. CASE Awake
  BY <1>14, AwakeStep
<1>15. CASE Poll
  BY <1>15, PollStep
<1>16. CASE Look
  BY <1>16, LookStep
<1>17. CASE Drain
  BY <1>17, DrainStep
<1>18. CASE GetMore
  BY <1>18, GetMoreStep
<1>19. CASE InSync
  BY <1>19, InSyncStep
<1>20. CASE ChunkWritten
  BY <1>20, ChunkWrittenStep
<1>21. CASE Verified
  BY <1>21, VerifiedStep
<1>22. CASE Started
  BY <1>22, StartedStep
<1>23. CASE TimeOut
  BY <1>23, TimeOutStep
<1>24. CASE Stopped
  BY <1>24, StoppedStep
<1>25. CASE UNCHANGED vars
  BY <1>25, StutterInv
<1>26. CASE WriteAstray
  BY <1>26, WriteAstrayStep
<1>27. CASE AnswerAstray
  BY <1>27, AnswerAstrayStep
<1>28. CASE LeaveAstray
  BY <1>28, LeaveAstrayStep
<1>. QED
  BY <1>1, <1>2, <1>3, <1>4, <1>5, <1>6, <1>7, <1>8, <1>9, <1>10, <1>11, <1>12,
     <1>13, <1>14, <1>15, <1>16, <1>17, <1>18, <1>19, <1>20, <1>21, <1>22, <1>23,
     <1>24, <1>25, <1>26, <1>27, <1>28 DEF Next, Device, Host

(* The inductive invariant holds throughout.                               *)
THEOREM Inductive == Spec => []IInv
<1>1. Init => IInv
  BY InitInv
<1>2. IInv /\ [Next]_vars => IInv'
  BY StepInv
<1>. QED
  BY <1>1, <1>2, PTL DEF Spec

(* Every variable has its type, and receive()'s buffer never holds more    *)
(* than a header and the bytes of a chunk, whatever the line loses and     *)
(* wherever the host is stopped (loader.c 169-210).                        *)
THEOREM TypeCorrect == Spec => []TypeOK
<1>1. IInv => TypeOK
  BY DEF IInv, TypeInv, DeviceInv, BufferInv, TypeOK, Byte
<1>. QED
  BY <1>1, Inductive, PTL

(* A chunk whose write has been answered is in memory, byte for byte, if   *)
(* the line lost nothing (loader.py 121-137).                              *)
THEOREM AcknowledgedAlwaysStored == Spec => []AcknowledgedIsStored
<1>1. ASSUME IInv
      PROVE  AcknowledgedIsStored
  <2> SUFFICES ASSUME host.pc = "get", host.await \in {"X", "u"}, lost = 0,
                      NEW o \in acked, NEW i \in DOMAIN Chunk(o)
               PROVE  memory[o + i - 1] = Chunk(o)[i]
    BY DEF AcknowledgedIsStored
  <2>1. TypeInv /\ StoredInv
    BY <1>1 DEF IInv, HostInv
  <2>2. o \in Offset /\ host.at \in Nat
    BY <2>1 DEF TypeInv
  <2>3. o + ChunkSize <= host.at /\ IsImage(0 .. host.at - 1)
    BY <2>1 DEF StoredInv, Waits
  <2>4. /\ Chunk(o) \in Seq(Byte) /\ Len(Chunk(o)) <= ChunkSize /\ o \in Nat
        /\ \A j \in 1 .. Len(Chunk(o)) :
             o + j \in 1 .. Len(Image) /\ Chunk(o)[j] = Image[o + j]
    BY <2>2, ChunkFacts
  <2>5. i \in 1 .. Len(Chunk(o)) /\ Len(Chunk(o)) \in Nat
    BY <2>4
  <2>6. o + i \in 1 .. Len(Image) /\ Chunk(o)[i] = Image[o + i]
    BY <2>4, <2>5
  <2>7. /\ o + i - 1 \in Address /\ o + i - 1 \in 0 .. host.at - 1
        /\ o + i - 1 + 1 = o + i
    BY <2>2, <2>3, <2>4, <2>5, <2>6, ChunkAssumption, ImageAssumption DEF Address
  <2>. QED
    BY <2>3, <2>6, <2>7 DEF IsImage
<1>. QED
  BY <1>1, Inductive, PTL

(* What is dispatched is a frame that a host has sent as a whole, whatever *)
(* an earlier run left in the buffer or on the line (loader.c 17-18,       *)
(* 162-166).                                                               *)
THEOREM OnlyWholeFramesObeyed == Spec => OnlyWholeFrames
<1>1. ASSUME IInv, lost = 0, toDevice # <<>>, Head(toDevice) = CR
      PROVE  \/ device.command \in {<< <<"u", 0>> >>, << <<"c", 0>> >>}
             \/ \E o \in Offset :
                  device.command = << <<"X", o>> >>
                    \o [i \in DOMAIN Chunk(o) |-> Char(Chunk(o)[i])]
  <2>1. TypeInv /\ BufferInv /\ WholeInv
    BY <1>1 DEF IInv, DeviceInv
  <2>2. Has(toDevice, CR)
    BY <1>1, <2>1, RestOrdered DEF TypeInv, BufferInv
  <2>3. PICK t \in Letter : InTransit(t)
    BY <1>1, <2>1, <2>2 DEF WholeInv
  <2>4. device.command = Stored(t, Len(Payload(t)))
    BY <1>1, <2>1, <2>3, TransitEnd
  <2>5. CASE t \in {<<"u", 0>>, <<"c", 0>>}
    <3>1. Payload(t) = <<>>
      BY <2>5 DEF Payload
    <3>2. device.command = Stored(t, 0)
      <4>1. Len(<<>>) = 0
        OBVIOUS
      <4>. QED
        BY <2>4, <3>1, <4>1
    <3>3. device.command = <<t>>
      BY <3>2, StoredFacts
    <3>. QED
      BY <2>5, <3>3
  <2>6. CASE \E o \in Offset : t = <<"X", o>>
    <3>1. PICK o \in Offset : t = <<"X", o>>
      BY <2>6
    <3>2. Payload(t) = Chunk(o)
      BY <3>1 DEF Payload
    <3>3. DOMAIN Chunk(o) = 1 .. Len(Chunk(o))
      BY <3>1, ChunkFacts
    <3>4. device.command = <<t>> \o [i \in 1 .. Len(Chunk(o)) |-> Char(Chunk(o)[i])]
      BY <2>4, <3>2, Zenon DEF Stored
    <3>. QED
      BY <3>1, <3>3, <3>4, Zenon
  <2>. QED
    BY <2>5, <2>6 DEF Letter
<1>2. IInv => (lost = 0 /\ device.mode = "loader" /\ toDevice # <<>>
               /\ Head(toDevice) = CR /\ toDevice' = Tail(toDevice)
               => \/ device.command \in {<< <<"u", 0>> >>, << <<"c", 0>> >>}
                  \/ \E o \in Offset :
                       device.command = << <<"X", o>> >>
                         \o [i \in DOMAIN Chunk(o) |-> Char(Chunk(o)[i])])
  BY <1>1
<1>. QED
  BY <1>2, Inductive, PTL DEF OnlyWholeFrames

(* The loader starts nothing but what a host has verified, unless the line *)
(* lost a part of a header: then it may obey data, or a go with another    *)
(* address (loader.c 175-203), and it is only then (loader.py 81-115).     *)
THEOREM StartsOnlyVerified == Spec => StartsWhatWasVerified
<1>1. ASSUME IInv, ChangeExecution
      PROVE  /\ ~torn => Checksum(memory) = Checksum(Image)
             /\ lost = 0 => \A a \in Address : memory[a] = Image[a + 1]
  <2>1. /\ device.command # <<>> /\ device.command[1] \in Letter
        /\ "c" = device.command[1][1]
    BY <1>1, EndOfFrame DEF ChangeExecution
  <2>2. device.command[1] = Go
    BY <2>1 DEF Letter, Go
  <2>3. VerifiedInv /\ (lost = 0 => ~torn)
    BY <1>1 DEF IInv, DeviceInv, TypeInv
  <2>. QED
    BY <2>1, <2>2, <2>3 DEF VerifiedInv, IsImage
<1>2. ASSUME IInv, LeaveAstray
      PROVE  torn /\ lost # 0
  BY <1>2, AstrayFacts DEF LeaveAstray
<1>3. ASSUME IInv, [Next]_vars, device.mode = "loader", device'.mode = "program"
      PROVE  ChangeExecution \/ LeaveAstray
  <2>1. TypeInv
    BY <1>3 DEF IInv
  <2>2. CASE Deliver \/ Lose \/ Host \/ UNCHANGED vars
    BY <1>3, <2>2 DEF Deliver, Lose, Host, Reset, Awake, Poll, Look, Drain, GetMore,
       InSync, ChunkWritten, Verified, Started, TimeOut, Stopped, Gets, vars, line
  <2>3. CASE Ignore \/ Boot \/ ProgramReturns
    BY <1>3, <2>3 DEF Ignore, Boot, ProgramReturns
  <2>4. CASE \/ ReceiveCtrlC \/ WriteBinary \/ GiveChecksum \/ Unrecognised
             \/ WriteAstray \/ AnswerAstray
    BY <1>3, <2>1, <2>4 DEF ReceiveCtrlC, WriteBinary, GiveChecksum, Unrecognised,
       WriteAstray, AnswerAstray, Restart, TypeInv
  <2>5. CASE ReceiveEsc \/ ReceiveByte
    BY <1>3, <2>1, <2>5 DEF ReceiveEsc, ReceiveByte, Store, TypeInv
  <2>. QED
    BY <1>3, <2>2, <2>3, <2>4, <2>5 DEF Next, Device
<1>4. IInv /\ [Next]_vars =>
        (device.mode = "loader" /\ device'.mode = "program"
         => /\ ~torn => Checksum(memory) = Checksum(Image)
            /\ lost = 0 => \A a \in Address : memory[a] = Image[a + 1])
  BY <1>1, <1>2, <1>3
<1>. QED
  BY <1>4, Inductive, PTL DEF StartsWhatWasVerified, Spec
=============================================================================
