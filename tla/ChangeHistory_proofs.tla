-------------------------- MODULE ChangeHistory_proofs --------------------------
(***************************************************************************)
(* Proofs about ChangeHistory: the types, that retention keeps the newest  *)
(* rows although it compares texts, that every duplicate is paid for by a  *)
(* failure, and that without failures the listed events of a server lead   *)
(* to its stored settings.                                                 *)
(*                                                                         *)
(* The order of the texts is the order of times between seconds only.  The *)
(* argument therefore does not go by time: every text has a rank among all *)
(* texts, and the stamp a metadata cycle takes over, the one of the latest *)
(* core snapshot by its text, never falls in rank.                         *)
(***************************************************************************)
EXTENDS ChangeHistory, FiniteSetTheorems, WellFoundedInduction, SequenceTheorems, TLAPS

(* Both tables are finite and hold rows of registered servers only. *)
TablesSound ==
    /\ IsFiniteSet(events) /\ IsFiniteSet(audit)
    /\ \A e \in events : e.server \in exists

(* What an accepted deployment asks for. *)
RequestSound ==
    request.op = "deploy" => request.server \in Server /\ request.at \in Time

(***************************************************************************)
(* The place of a text among all texts.  A whole second comes last in its  *)
(* second; a fraction of one digit comes after the ones it begins.         *)
(***************************************************************************)
Fraction(t) == 11 * t.f[1] + (IF Len(t.f) = 1 THEN 10 ELSE t.f[2])
Rank(t) == 1000 * t.s + (IF t.f = <<>> THEN 200 ELSE Fraction(t))

(* The stamps a server had, one after the other, by their texts. *)
NotAfter(a, b) == Rank(a) <= Rank(b)

(***************************************************************************)
(* The stamp of a metadata cycle lies between the one of the settings that *)
(* are stored and the one of the latest core snapshot.                     *)
(***************************************************************************)
StampsOrdered(s) ==
    /\ stored[s].at = None <=> stored[s].value = None
    /\ stored[s].at # None => coreAt[s] # None /\ NotAfter(stored[s].at, coreAt[s])
    /\ cycle[s].pc # "idle" =>
        /\ cycle[s].at # None /\ coreAt[s] # None /\ NotAfter(cycle[s].at, coreAt[s])
        /\ stored[s].at # None => NotAfter(stored[s].at, cycle[s].at)
    /\ cycle[s].pc = "compare" =>
        cycle[s].before = stored[s].value \/ (cycle[s].before = None /\ faults # 0)
    /\ cycle[s].pc = "save" => cycle[s].value # None

(* A save that is due will replace the stored settings. *)
Replaces(s) == stored[s].at # None => TextBefore(stored[s].at, cycle[s].at)

(* The settings the next comparison will find stored. *)
Expected(s) ==
    IF cycle[s].pc = "save" /\ Replaces(s) THEN cycle[s].value ELSE stored[s].value

(* Events the next comparison will record: one if the settings differ ... *)
Due(s) == IF Expected(s) \in {None, setting[s]} THEN 0 ELSE 1

(* ... and one more for a cycle whose save will not replace what is stored. *)
Extra(s) == IF cycle[s].pc = "compare" /\ cycle[s].at = stored[s].at THEN 1 ELSE 0

Counted(s) == Cardinality(Detected(s)) + Due(s) + Extra(s) <= changes[s] + faults

(* The last settings that were compared, and the stamp they have. *)
Compared(s) ==
    IF cycle[s].pc = "save" THEN [at |-> cycle[s].at, value |-> cycle[s].value] ELSE stored[s]

(* No event of the table is between two others. *)
Adjacent(rows, e, x) ==
    Rank(e.at) < Rank(x.at) /\ \A y \in rows : Rank(y.at) <= Rank(e.at) \/ Rank(x.at) <= Rank(y.at)

(* No two events of one time, and each starts where the one before ends. *)
Chain(rows, final) ==
    /\ \A e, x \in rows : Rank(e.at) = Rank(x.at) => e = x
    /\ \A e \in rows : (\A x \in rows : Rank(x.at) <= Rank(e.at)) => e.to = final
    /\ \A e, x \in rows : Adjacent(rows, e, x) => x.from = e.to

(***************************************************************************)
(* While nothing failed: every cycle has a stamp of its own, and the       *)
(* events are a chain up to the settings that were compared last.          *)
(***************************************************************************)
Explained(s) ==
    /\ cycle[s].pc # "idle" => stored[s].at = None \/ Rank(stored[s].at) < Rank(cycle[s].at)
    /\ \A e \in Detected(s) : Compared(s).at # None /\ Rank(e.at) <= Rank(Compared(s).at)
    /\ Chain(Detected(s), Compared(s).value)

SoundFor(s) == StampsOrdered(s) /\ Counted(s) /\ (faults = 0 => Explained(s))

IInv ==
    /\ TypeOK
    /\ TablesSound
    /\ RequestSound
    /\ \A s \in exists : SoundFor(s)

-----------------------------------------------------------------------------
(* Times and their texts *)

Moment == [s : Int, f : Digits]

LEMMA MomentOfTime ==
  ASSUME NEW t \in Time
  PROVE  t \in Moment /\ t.s \in Nat /\ Cutoff(t) \in Moment
<1>1. Retention \in Nat
  BY ChangeHistoryAssumption
<1>2. t.s \in Nat /\ t.f \in Digits /\ t = [s |-> t.s, f |-> t.f]
  BY DEF Time
<1>3. Cutoff(t) = [s |-> t.s - Retention, f |-> t.f]
  BY <1>2 DEF Cutoff
<1> QED BY <1>1, <1>2, <1>3 DEF Moment

(* A fraction has at most two digits. *)
LEMMA DigitsCases ==
  ASSUME NEW f \in Digits
  PROVE  \/ f = <<>>
         \/ \E d \in 1..9 : f = <<d>>
         \/ \E d \in 0..9, e \in 1..9 : f = <<d, e>>
<1>1. CASE f \in {<<>>}
  BY <1>1
<1>2. CASE f \in {<<d>> : d \in 1..9}
  BY <1>2
<1>3. CASE f \in {<<d, e>> : d \in 0..9, e \in 1..9}
  BY <1>3
<1> QED BY <1>1, <1>2, <1>3 DEF Digits

(* The fraction is less than a second. *)
LEMMA HundredthsBounded ==
  ASSUME NEW t \in Moment
  PROVE  /\ Hundredths(t) \in Int
         /\ 100 * t.s <= Hundredths(t)
         /\ Hundredths(t) <= 100 * t.s + 99
<1>1. t.s \in Int /\ t.f \in Digits
  BY DEF Moment
<1>2. CASE t.f = <<>>
  BY <1>1, <1>2 DEF Hundredths
<1>3. CASE \E d \in 1..9 : t.f = <<d>>
  <2>1. PICK d \in 1..9 : t.f = <<d>>
    BY <1>3
  <2>2. Len(t.f) = 1 /\ t.f[1] = d
    BY <2>1
  <2> QED BY <1>1, <2>2 DEF Hundredths
<1>4. CASE \E d \in 0..9, e \in 1..9 : t.f = <<d, e>>
  <2>1. PICK d \in 0..9, e \in 1..9 : t.f = <<d, e>>
    BY <1>4
  <2>2. Len(t.f) = 2 /\ t.f[1] = d /\ t.f[2] = e
    BY <2>1
  <2> QED BY <1>1, <2>2 DEF Hundredths
<1>5. \/ t.f = <<>>
      \/ \E d \in 1..9 : t.f = <<d>>
      \/ \E d \in 0..9, e \in 1..9 : t.f = <<d, e>>
  BY <1>1, DigitsCases
<1> QED BY <1>2, <1>3, <1>4, <1>5, Zenon

LEMMA TextType ==
  ASSUME NEW t \in Moment
  PROVE  Text(t) \in Seq(Int)
<1>1. t.f \in Digits
  BY DEF Moment
<1>2. t.f \in Seq(Int)
  <2>1. CASE t.f = <<>>
    BY <2>1
  <2>2. CASE \E d \in 1..9 : t.f = <<d>>
    BY <2>2
  <2>3. CASE \E d \in 0..9, e \in 1..9 : t.f = <<d, e>>
    BY <2>3
  <2>4. \/ t.f = <<>>
        \/ \E d \in 1..9 : t.f = <<d>>
        \/ \E d \in 0..9, e \in 1..9 : t.f = <<d, e>>
    BY <1>1, DigitsCases
  <2> QED BY <2>1, <2>2, <2>3, <2>4, Zenon
<1>3. <<10>> \in Seq(Int) /\ <<-1>> \in Seq(Int)
  OBVIOUS
<1>4. <<-1>> \o t.f \in Seq(Int)
  BY <1>2, <1>3
<1>5. <<-1>> \o t.f \o <<10>> \in Seq(Int)
  BY <1>3, <1>4
<1> QED BY <1>3, <1>5 DEF Text

(* Between seconds the texts are ordered like the times, and strictly. *)
LEMMA TextOrder ==
  ASSUME NEW a \in Moment, NEW b \in Moment
  PROVE  /\ TextBefore(a, b) => a.s <= b.s /\ a # b
         /\ a.s < b.s => TextBefore(a, b)
<1>1. a.s \in Int /\ b.s \in Int
  BY DEF Moment
<1>2. TextBefore(a, b) => a.s <= b.s
  BY <1>1 DEF TextBefore
<1>3. a.s < b.s => TextBefore(a, b)
  BY DEF TextBefore
<1>4. ~TextBefore(a, a)
  <2>1. Text(a) \in Seq(Int)
    BY TextType
  <2>2. \A i \in DOMAIN Text(a) : Text(a)[i] \in Int
    BY <2>1
  <2>3. \A i \in DOMAIN Text(a) : ~(Text(a)[i] < Text(a)[i])
    BY <2>2
  <2> QED BY <1>1, <2>3 DEF TextBefore
<1> QED BY <1>2, <1>3, <1>4

(* What sorts before another is at most one second later. *)
LEMMA TextWithinSecond ==
  ASSUME NEW a \in Moment, NEW b \in Moment
  PROVE  /\ TextBefore(a, b) => Hundredths(a) < Hundredths(b) + 100
         /\ ~TextBefore(a, b) => Hundredths(a) + 100 > Hundredths(b)
<1>1. a.s \in Int /\ b.s \in Int
  BY DEF Moment
<1>2. /\ TextBefore(a, b) => a.s <= b.s
      /\ ~TextBefore(a, b) => a.s >= b.s
  BY <1>1, TextOrder
<1> QED BY <1>1, <1>2, HundredthsBounded

LEMMA EndsInZ ==
  ASSUME NEW u \in Seq(Int)
  PROVE  /\ Len(u \o <<10>>) = Len(u) + 1
         /\ \A i \in 1..Len(u) : (u \o <<10>>)[i] = u[i]
         /\ (u \o <<10>>)[Len(u) + 1] = 10
<1> DEFINE z == <<10>>
<1>1. z \in Seq(Int) /\ Len(z) = 1 /\ z[1] = 10
  OBVIOUS
<1> HIDE DEF z
<1>2. /\ Len(u \o z) = Len(u) + Len(z)
      /\ \A i \in 1 .. Len(u) + Len(z) : (u \o z)[i] = IF i <= Len(u) THEN u[i] ELSE z[i - Len(u)]
  BY <1>1, ConcatProperties
<1>3. Len(u) \in Nat
  OBVIOUS
<1>4. Len(u \o z) = Len(u) + 1
  BY <1>1, <1>2, <1>3
<1>5. \A i \in 1..Len(u) : (u \o z)[i] = u[i]
  BY <1>1, <1>2, <1>3
<1>6. (u \o z)[Len(u) + 1] = z[Len(u) + 1 - Len(u)]
  BY <1>1, <1>2, <1>3
<1>7. Len(u) + 1 - Len(u) = 1
  BY <1>3
<1> QED BY <1>1, <1>4, <1>5, <1>6, <1>7 DEF z

(* A text with a fraction: a point, one or two digits, the Z. *)
LEMMA TextShape ==
  ASSUME NEW t \in Moment, t.f # <<>>
  PROVE  /\ Len(Text(t)) >= 3
         /\ Text(t)[1] = -1
         /\ Text(t)[2] = t.f[1] /\ t.f[1] \in 0..9
         /\ Text(t)[3] = (IF Len(t.f) = 1 THEN 10 ELSE t.f[2]) /\ Text(t)[3] \in 1..10
         /\ t.f = IF Text(t)[3] = 10 THEN <<Text(t)[2]>> ELSE <<Text(t)[2], Text(t)[3]>>
<1>1. t.f \in Digits
  BY DEF Moment
<1>2. CASE \E d \in 1..9 : t.f = <<d>>
  <2>1. PICK d \in 1..9 : t.f = <<d>>
    BY <1>2
  <2> DEFINE u == <<-1>> \o <<d>>
  <2>2. u \in Seq(Int) /\ Len(u) = 2 /\ u[1] = -1 /\ u[2] = d
    OBVIOUS
  <2>3. Text(t) = u \o <<10>>
    BY <2>1 DEF Text
  <2> HIDE DEF u
  <2>4. Len(Text(t)) = 3 /\ Text(t)[1] = -1 /\ Text(t)[2] = d /\ Text(t)[3] = 10
    <3>1. /\ Len(u \o <<10>>) = Len(u) + 1
          /\ \A i \in 1..Len(u) : (u \o <<10>>)[i] = u[i]
          /\ (u \o <<10>>)[Len(u) + 1] = 10
      BY <2>2, EndsInZ, Zenon
    <3>2. 1 \in 1..Len(u) /\ 2 \in 1..Len(u) /\ Len(u) + 1 = 3
      BY <2>2
    <3>3. /\ (u \o <<10>>)[1] = u[1] /\ (u \o <<10>>)[2] = u[2] /\ (u \o <<10>>)[3] = 10
          /\ Len(u \o <<10>>) = 3
      BY <3>1, <3>2, Zenon
    <3> QED BY <2>2, <2>3, <3>3, Zenon
  <2>5. Len(t.f) = 1 /\ t.f[1] = d
    BY <2>1
  <2> QED BY <2>1, <2>4, <2>5
<1>3. CASE \E d \in 0..9, e \in 1..9 : t.f = <<d, e>>
  <2>1. PICK d \in 0..9, e \in 1..9 : t.f = <<d, e>>
    BY <1>3
  <2> DEFINE u == <<-1>> \o <<d, e>>
  <2>2. u \in Seq(Int) /\ Len(u) = 3 /\ u[1] = -1 /\ u[2] = d /\ u[3] = e
    OBVIOUS
  <2>3. Text(t) = u \o <<10>>
    BY <2>1 DEF Text
  <2> HIDE DEF u
  <2>4. Len(Text(t)) = 4 /\ Text(t)[1] = -1 /\ Text(t)[2] = d /\ Text(t)[3] = e
    <3>1. /\ Len(u \o <<10>>) = Len(u) + 1
          /\ \A i \in 1..Len(u) : (u \o <<10>>)[i] = u[i]
      BY <2>2, EndsInZ, Zenon
    <3>2. 1 \in 1..Len(u) /\ 2 \in 1..Len(u) /\ 3 \in 1..Len(u) /\ Len(u) + 1 = 4
      BY <2>2
    <3>3. /\ (u \o <<10>>)[1] = u[1] /\ (u \o <<10>>)[2] = u[2] /\ (u \o <<10>>)[3] = u[3]
          /\ Len(u \o <<10>>) = 4
      BY <3>1, <3>2, Zenon
    <3> QED BY <2>2, <2>3, <3>3, Zenon
  <2>5. Len(t.f) = 2 /\ t.f[1] = d /\ t.f[2] = e
    BY <2>1
  <2> QED BY <2>1, <2>4, <2>5
<1> QED BY <1>1, <1>2, <1>3, DigitsCases, Zenon

(* Texts of one second differ, if at all, in one of the first three places. *)
LEMMA Lexical ==
  ASSUME NEW x \in Seq(Int), NEW y \in Seq(Int), Len(x) >= 3, Len(y) >= 3, x[1] = y[1],
         x[2] # y[2] \/ x[3] # y[3]
  PROVE  (\E i \in DOMAIN x \cap DOMAIN y : x[i] < y[i] /\ \A j \in 1..(i - 1) : x[j] = y[j])
            <=> x[2] < y[2] \/ (x[2] = y[2] /\ x[3] < y[3])
<1>1. /\ DOMAIN x = 1..Len(x) /\ DOMAIN y = 1..Len(y) /\ Len(x) \in Nat /\ Len(y) \in Nat
      /\ x[1] \in Int /\ x[2] \in Int /\ x[3] \in Int
      /\ y[1] \in Int /\ y[2] \in Int /\ y[3] \in Int
  OBVIOUS
<1>2. {1, 2, 3} \subseteq DOMAIN x \cap DOMAIN y
  BY <1>1
<1>3. CASE x[2] < y[2]
  <2>1. \A j \in 1..(2 - 1) : x[j] = y[j]
    OBVIOUS
  <2> QED BY <1>2, <1>3, <2>1
<1>4. CASE x[2] = y[2] /\ x[3] < y[3]
  <2>1. \A j \in 1..(3 - 1) : x[j] = y[j]
    BY <1>4
  <2> QED BY <1>2, <1>4, <2>1
<1>5. CASE ~(x[2] < y[2] \/ (x[2] = y[2] /\ x[3] < y[3]))
  <2> SUFFICES ASSUME NEW i \in DOMAIN x \cap DOMAIN y, x[i] < y[i],
                      \A j \in 1..(i - 1) : x[j] = y[j]
               PROVE  FALSE
    BY <1>5
  <2>1. i \in Nat /\ i # 1 /\ i # 2
    BY <1>1, <1>5
  <2>2. i > 2 => x[2] = y[2]
    BY <2>1
  <2>3. i # 3
    BY <1>1, <1>5, <2>2
  <2>4. i > 3 => x[3] = y[3]
    BY <2>1
  <2> QED BY <1>1, <2>1, <2>2, <2>3, <2>4
<1> QED BY <1>3, <1>4, <1>5

(* The rank orders the texts, all of them. *)
LEMMA TextRank ==
  ASSUME NEW a \in Moment, NEW b \in Moment
  PROVE  /\ Rank(a) \in Int
         /\ TextBefore(a, b) <=> Rank(a) < Rank(b)
         /\ Rank(a) = Rank(b) => a = b
<1> DEFINE part(t) == IF t.f = <<>> THEN 200 ELSE Fraction(t)
           first == \E i \in DOMAIN Text(a) \cap DOMAIN Text(b) :
                      Text(a)[i] < Text(b)[i] /\ \A j \in 1..(i - 1) : Text(a)[j] = Text(b)[j]
<1>1. /\ a.s \in Int /\ b.s \in Int
      /\ a = [s |-> a.s, f |-> a.f] /\ b = [s |-> b.s, f |-> b.f]
  BY DEF Moment
<1>2. ASSUME NEW t \in Moment PROVE part(t) \in 1..200 /\ (t.f # <<>> => part(t) < 200)
  <2>1. CASE t.f = <<>>
    BY <2>1
  <2>2. CASE t.f # <<>>
    <3>1. part(t) = 11 * Text(t)[2] + Text(t)[3] /\ Text(t)[2] \in 0..9 /\ Text(t)[3] \in 1..10
      BY <2>2, TextShape DEF Fraction
    <3> HIDE DEF part
    <3>2. PICK p \in 0..9, i \in 1..10 : p = Text(t)[2] /\ i = Text(t)[3]
      BY <3>1
    <3>3. part(t) = 11 * p + i
      BY <3>1, <3>2
    <3> QED BY <3>3
  <2> QED BY <2>1, <2>2
<1>3. (first <=> part(a) < part(b)) /\ (part(a) = part(b) => a.f = b.f)
  <2>1. CASE a.f = <<>> /\ b.f = <<>>
    <3>1. Text(a) = <<10>> /\ Text(b) = <<10>>
      BY <2>1 DEF Text
    <3>2. ~first
      BY <3>1
    <3> QED BY <2>1, <3>2
  <2>2. CASE a.f = <<>> /\ b.f # <<>>
    <3>1. Text(a) = <<10>> /\ Text(b)[1] = -1
      BY <2>2, TextShape DEF Text
    <3>2. ~first
      BY <3>1
    <3>3. part(a) = 200 /\ part(b) < 200 /\ part(b) \in 1..200
      BY <1>2, <2>2
    <3> HIDE DEF part, first
    <3> QED BY <3>2, <3>3
  <2>3. CASE a.f # <<>> /\ b.f = <<>>
    <3>1. Text(b) = <<10>> /\ Text(a)[1] = -1 /\ Len(Text(a)) >= 3 /\ Text(a) \in Seq(Int)
      BY <2>3, TextShape, TextType DEF Text
    <3>2. 1 \in DOMAIN Text(a) \cap DOMAIN Text(b) /\ Text(a)[1] < Text(b)[1]
      BY <3>1
    <3>3. first
      BY <3>2
    <3>4. part(b) = 200 /\ part(a) < 200 /\ part(a) \in 1..200
      BY <1>2, <2>3
    <3> HIDE DEF part, first
    <3> QED BY <3>3, <3>4
  <2>4. CASE a.f # <<>> /\ b.f # <<>>
    <3> DEFINE x == Text(a)
               y == Text(b)
    <3>1. /\ Len(x) >= 3 /\ x[1] = -1 /\ x[2] \in 0..9 /\ x[3] \in 1..10
          /\ a.f = IF x[3] = 10 THEN <<x[2]>> ELSE <<x[2], x[3]>>
          /\ Len(y) >= 3 /\ y[1] = -1 /\ y[2] \in 0..9 /\ y[3] \in 1..10
          /\ b.f = IF y[3] = 10 THEN <<y[2]>> ELSE <<y[2], y[3]>>
      BY <2>4, TextShape
    <3>2. part(a) = 11 * x[2] + x[3] /\ part(b) = 11 * y[2] + y[3]
      BY <2>4, TextShape DEF Fraction
    <3>3. x \in Seq(Int) /\ y \in Seq(Int)
      BY TextType
    <3> HIDE DEF x, y, part
    <3>4. CASE x[2] = y[2] /\ x[3] = y[3]
      <4>1. a.f = b.f
        BY <3>1, <3>4
      <4>2. x = y
        BY <4>1 DEF Text, x, y
      <4>3. ~first
        BY <3>3, <4>2 DEF x, y
      <4> HIDE DEF first
      <4>4. PICK p \in 0..9, i \in 1..10 : p = x[2] /\ i = x[3]
        BY <3>1
      <4>5. part(a) = 11 * p + i /\ part(b) = 11 * p + i
        BY <3>2, <3>4, <4>4, Zenon
      <4>6. ~(part(a) < part(b))
        BY <4>5
      <4> QED BY <4>1, <4>3, <4>6, Zenon
    <3>5. CASE x[2] # y[2] \/ x[3] # y[3]
      <4>1. first <=> x[2] < y[2] \/ (x[2] = y[2] /\ x[3] < y[3])
        BY <3>1, <3>3, <3>5, Lexical DEF x, y
      <4> HIDE DEF first
      <4>2. PICK p \in 0..9, i \in 1..10 : p = x[2] /\ i = x[3]
        BY <3>1
      <4>3. PICK q \in 0..9, j \in 1..10 : q = y[2] /\ j = y[3]
        BY <3>1
      <4>4. /\ 11 * p + i < 11 * q + j <=> p < q \/ (p = q /\ i < j)
            /\ 11 * p + i = 11 * q + j => p = q /\ i = j
        OBVIOUS
      <4> QED BY <3>2, <3>5, <4>1, <4>2, <4>3, <4>4, Zenon
    <3> QED BY <3>4, <3>5
  <2> QED BY <2>1, <2>2, <2>3, <2>4
<1>4. Rank(a) = 1000 * a.s + part(a) /\ Rank(b) = 1000 * b.s + part(b)
  BY DEF Rank
<1>5. TextBefore(a, b) <=> a.s < b.s \/ (a.s = b.s /\ first)
  BY DEF TextBefore
<1> HIDE DEF part, first
<1>6. part(a) \in 1..200 /\ part(b) \in 1..200
  BY <1>2
<1>7. PICK p \in Int, i \in 1..200 : p = a.s /\ i = part(a)
  BY <1>1, <1>6
<1>8. PICK q \in Int, j \in 1..200 : q = b.s /\ j = part(b)
  BY <1>1, <1>6
<1>9. Rank(a) = 1000 * p + i /\ Rank(b) = 1000 * q + j
  BY <1>4, <1>7, <1>8
<1>10. /\ 1000 * p + i < 1000 * q + j <=> p < q \/ (p = q /\ i < j)
       /\ 1000 * p + i = 1000 * q + j => p = q /\ i = j
       /\ 1000 * p + i \in Int
  OBVIOUS
<1>11. TextBefore(a, b) <=> Rank(a) < Rank(b)
  <2>1. first <=> i < j
    BY <1>3, <1>7, <1>8, Zenon
  <2>2. TextBefore(a, b) <=> p < q \/ (p = q /\ first)
    BY <1>5, <1>7, <1>8, Zenon
  <2> QED BY <1>9, <1>10, <2>1, <2>2
<1>12. Rank(a) = Rank(b) => a.s = b.s /\ a.f = b.f
  <2>1. i = j => a.f = b.f
    BY <1>3, <1>7, <1>8, Zenon
  <2> QED BY <1>7, <1>8, <1>9, <1>10, <2>1
<1>13. Rank(a) \in Int
  BY <1>9, <1>10
<1>14. Rank(a) = Rank(b) => a = b
  BY <1>1, <1>12, Zenon
<1> QED BY <1>11, <1>13, <1>14, Zenon

LEMMA RankOfTime ==
  ASSUME NEW t \in Time
  PROVE  Rank(t) \in Nat
<1>1. t \in Moment /\ t.s \in Nat
  BY MomentOfTime
<1>2. CASE t.f = <<>>
  BY <1>1, <1>2 DEF Rank
<1>3. CASE t.f # <<>>
  <2>1. /\ Text(t)[2] = t.f[1] /\ t.f[1] \in 0..9
        /\ Text(t)[3] = (IF Len(t.f) = 1 THEN 10 ELSE t.f[2]) /\ Text(t)[3] \in 1..10
    BY <1>1, <1>3, TextShape, Zenon
  <2>2. PICK n \in Nat, d \in 0..9, i \in 1..10 : n = t.s /\ d = t.f[1] /\ i = Text(t)[3]
    BY <1>1, <2>1
  <2>3. Fraction(t) = 11 * d + i
    BY <2>1, <2>2 DEF Fraction
  <2>4. Rank(t) = 1000 * n + (11 * d + i)
    BY <1>3, <2>2, <2>3 DEF Rank
  <2> QED BY <2>4
<1> QED BY <1>2, <1>3

-----------------------------------------------------------------------------
(* What a log keeps *)

LEMMA SubsetCount ==
  ASSUME NEW S, IsFiniteSet(S), NEW T, T \subseteq S
  PROVE  /\ IsFiniteSet(T)
         /\ Cardinality(S) \in Nat /\ Cardinality(T) \in Nat
         /\ Cardinality(T) <= Cardinality(S)
         /\ T # S => Cardinality(T) < Cardinality(S)
<1>1. T \in SUBSET S
  OBVIOUS
<1> QED BY <1>1, FS_Subset, FS_CardinalityType

LEMMA AddOne ==
  ASSUME NEW S, IsFiniteSet(S), NEW x
  PROVE  /\ IsFiniteSet(S \cup {x})
         /\ Cardinality(S) \in Nat /\ Cardinality(S \cup {x}) \in Nat
         /\ Cardinality(S \cup {x}) <= Cardinality(S) + 1
  BY FS_AddElement, FS_CardinalityType

(* A row is dropped only for as many rows as are kept, none of which sorts before it. *)
LEMMA NewestKept ==
  ASSUME NEW rows, IsFiniteSet(rows), NEW n \in Nat, NEW kept \in Newest(rows, n)
  PROVE  /\ kept \subseteq rows
         /\ IsFiniteSet(kept)
         /\ Cardinality(kept) \in Nat
         /\ Cardinality(kept) <= n
         /\ \A d \in rows \ kept :
                Cardinality(kept) = n /\ \A k \in kept : ~TextBefore(k.at, d.at)
<1>1. /\ kept \subseteq rows
      /\ Cardinality(kept) = IF Cardinality(rows) < n THEN Cardinality(rows) ELSE n
      /\ \A k \in kept, d \in rows \ kept : ~TextBefore(k.at, d.at)
  BY DEF Newest
<1>2. /\ IsFiniteSet(kept)
      /\ Cardinality(rows) \in Nat /\ Cardinality(kept) \in Nat
      /\ kept # rows => Cardinality(kept) < Cardinality(rows)
  BY <1>1, SubsetCount
<1>3. \A d \in rows \ kept : Cardinality(kept) = n
  BY <1>1, <1>2
<1> QED BY <1>1, <1>2, <1>3

LEMMA NowType ==
  ASSUME TypeOK
  PROVE  Now \in Time
<1>1. clock \in DOMAIN Instants /\ Instants \in Seq(Time)
  BY ChangeHistoryAssumption DEF TypeOK
<1> QED BY <1>1 DEF Now

LEMMA TooOld ==
  ASSUME TypeOK, NEW rows, NEW r \in rows, r.at \in Time, r \notin Aged(rows)
  PROVE  /\ TextBefore(r.at, Cutoff(Now))
         /\ Hundredths(r.at) < Hundredths(Cutoff(Now)) + 100
<1>1. TextBefore(r.at, Cutoff(Now))
  BY DEF Aged
<1>2. r.at \in Moment /\ Cutoff(Now) \in Moment
  BY NowType, MomentOfTime
<1> QED BY <1>1, <1>2, TextWithinSecond

(* The rows that are kept of many are all within the last second of the dropped one. *)
LEMMA NewerCounted ==
  ASSUME NEW kept, NEW n, Cardinality(kept) = n, NEW r, r.at \in Time,
         \A k \in kept : k.at \in Time /\ ~TextBefore(k.at, r.at)
  PROVE  Cardinality({k \in kept : Hundredths(k.at) + 100 > Hundredths(r.at)}) = n
<1>1. \A k \in kept : Hundredths(k.at) + 100 > Hundredths(r.at)
  BY MomentOfTime, TextWithinSecond
<1>2. {k \in kept : Hundredths(k.at) + 100 > Hundredths(r.at)} = kept
  BY <1>1
<1> QED BY <1>2

(* Everything RecordChangeEvent does to the table. *)
LEMMA EventRecorded ==
  ASSUME TypeOK, TablesSound, NEW e, e.at \in Time, e.server \in Server, RecordChangeEvent(e)
  PROVE  /\ events' \subseteq events \cup {e}
         /\ IsFiniteSet(events')
         /\ \A s \in Server : Cardinality(Of(s, events')) <= Cap
         /\ \A r \in (events \cup {e}) \ events' :
                /\ RightlyPruned(r, Of(r.server, events'), Cap)
                /\ \A k \in Of(r.server, events') : Rank(r.at) <= Rank(k.at)
<1> DEFINE kept == Aged(events \cup {e})
           mine == Of(e.server, kept)
<1>1. PICK own \in Newest(mine, Cap) : events' = (kept \ mine) \cup own
  BY DEF RecordChangeEvent
<1>2. \A r \in events \cup {e} : r.at \in Time
  BY DEF TypeOK
<1>3. kept \subseteq events \cup {e} /\ mine \subseteq kept
  BY DEF Aged, Of
<1>4. IsFiniteSet(events \cup {e})
  BY FS_AddElement DEF TablesSound
<1>5. IsFiniteSet(kept) /\ IsFiniteSet(mine) /\ Cap \in Nat
  BY <1>3, <1>4, SubsetCount, ChangeHistoryAssumption
<1>6. /\ own \subseteq mine
      /\ IsFiniteSet(own) /\ Cardinality(own) <= Cap
      /\ \A d \in mine \ own :
            Cardinality(own) = Cap /\ \A k \in own : ~TextBefore(k.at, d.at)
  <2> HIDE DEF mine
  <2> QED BY <1>1, <1>5, NewestKept
<1>7. /\ events' \subseteq kept
      /\ \A k \in events' : k.at \in Time
      /\ events' \subseteq events \cup {e}
  BY <1>1, <1>2, <1>3, <1>6
<1>8. IsFiniteSet(events')
  BY <1>5, <1>7, SubsetCount
<1>9. Of(e.server, events') = own
  BY <1>1, <1>6 DEF Of
<1>10. ASSUME NEW s \in Server
       PROVE  Cardinality(Of(s, events')) <= Cap
  <2>1. CASE s = e.server
    BY <1>6, <1>9, <2>1
  <2>2. CASE s # e.server
    <3>1. Of(s, events') \subseteq Of(s, events)
      BY <1>7, <2>2 DEF Of
    <3>2. Of(s, events) \subseteq events
      BY DEF Of
    <3>3. IsFiniteSet(Of(s, events))
      BY <3>2, SubsetCount DEF TablesSound
    <3>4. /\ Cardinality(Of(s, events')) \in Nat /\ Cardinality(Of(s, events)) \in Nat
          /\ Cardinality(Of(s, events')) <= Cardinality(Of(s, events))
      BY <3>1, <3>3, SubsetCount
    <3>5. Cardinality(Of(s, events)) <= Cap
      BY DEF TypeOK
    <3> QED BY <1>5, <3>4, <3>5
  <2> QED BY <2>1, <2>2
<1>11. ASSUME NEW r \in (events \cup {e}) \ events'
       PROVE  /\ RightlyPruned(r, Of(r.server, events'), Cap)
              /\ \A k \in Of(r.server, events') : Rank(r.at) <= Rank(k.at)
  <2>1. r.at \in Time /\ \A k \in events' : k.at \in Time
    BY <1>2, <1>7
  <2>2. \A k \in Of(r.server, events') : k.at \in Time
    BY <2>1 DEF Of
  <2>3. CASE r \notin kept
    <3>1. /\ TextBefore(r.at, Cutoff(Now))
          /\ Hundredths(r.at) < Hundredths(Cutoff(Now)) + 100
      BY <2>1, <2>3, TooOld
    <3>2. ASSUME NEW k \in Of(r.server, events')
          PROVE  Rank(r.at) <= Rank(k.at)
      <4>1. k \in kept
        BY <1>7 DEF Of
      <4>2. ~TextBefore(k.at, Cutoff(Now))
        BY <4>1 DEF Aged
      <4>3. r.at \in Moment /\ k.at \in Moment /\ Cutoff(Now) \in Moment
        BY <2>1, <2>2, NowType, MomentOfTime
      <4>4. Rank(r.at) < Rank(Cutoff(Now)) /\ ~(Rank(k.at) < Rank(Cutoff(Now)))
        BY <3>1, <4>2, <4>3, TextRank
      <4>5. Rank(r.at) \in Int /\ Rank(k.at) \in Int /\ Rank(Cutoff(Now)) \in Int
        BY <4>3, TextRank
      <4> QED BY <4>4, <4>5
    <3> QED BY <3>1, <3>2 DEF RightlyPruned
  <2>4. CASE r \in kept
    <3>1. r \in mine \ own /\ r.server = e.server
      BY <1>1, <2>4 DEF Of
    <3>2. Cardinality(own) = Cap /\ \A k \in own : ~TextBefore(k.at, r.at)
      BY <1>6, <3>1
    <3>3. Of(r.server, events') = own
      BY <1>9, <3>1
    <3>4. Cardinality({k \in own : Hundredths(k.at) + 100 > Hundredths(r.at)}) = Cap
      BY <2>1, <2>2, <3>2, <3>3, NewerCounted
    <3>5. ASSUME NEW k \in own
          PROVE  Rank(r.at) <= Rank(k.at)
      <4>1. r.at \in Moment /\ k.at \in Moment
        BY <2>1, <2>2, <3>3, MomentOfTime
      <4>2. /\ ~(Rank(k.at) < Rank(r.at))
            /\ Rank(k.at) \in Int /\ Rank(r.at) \in Int
        BY <3>2, <4>1, TextRank
      <4> QED BY <4>2
    <3> QED BY <1>5, <3>3, <3>4, <3>5 DEF RightlyPruned
  <2> QED BY <2>3, <2>4
<1> QED BY <1>7, <1>8, <1>10, <1>11

(* Everything RecordAuditEvent does to the table. *)
LEMMA AuditRecorded ==
  ASSUME TypeOK, TablesSound, NEW about, RecordAuditEvent(about)
  PROVE  /\ IsFiniteSet(audit')
         /\ Cardinality(audit') <= AuditCap
         /\ \A a \in audit' : a.at \in Time
         /\ \A a \in audit \ audit' : RightlyPruned(a, audit', AuditCap)
<1> DEFINE row == [at |-> Now, about |-> about]
           kept == Aged(audit \cup {row})
<1>1. audit' \in Newest(kept, AuditCap)
  BY DEF RecordAuditEvent
<1>2. \A a \in audit \cup {row} : a.at \in Time
  BY NowType DEF TypeOK
<1>3. kept \subseteq audit \cup {row}
  BY DEF Aged
<1>4. IsFiniteSet(audit \cup {row})
  BY FS_AddElement DEF TablesSound
<1>5. IsFiniteSet(kept) /\ AuditCap \in Nat
  BY <1>3, <1>4, SubsetCount, ChangeHistoryAssumption
<1>6. /\ audit' \subseteq kept
      /\ IsFiniteSet(audit') /\ Cardinality(audit') <= AuditCap
      /\ \A d \in kept \ audit' :
            Cardinality(audit') = AuditCap /\ \A k \in audit' : ~TextBefore(k.at, d.at)
  <2> HIDE DEF kept
  <2> QED BY <1>1, <1>5, NewestKept
<1>7. \A a \in audit' : a.at \in Time
  BY <1>2, <1>3, <1>6
<1>8. ASSUME NEW a \in audit \ audit'
      PROVE  RightlyPruned(a, audit', AuditCap)
  <2>1. CASE a \notin kept
    <3>1. a \in audit \cup {row} /\ a.at \in Time
      BY <1>2
    <3>2. Hundredths(a.at) < Hundredths(Cutoff(Now)) + 100
      BY <2>1, <3>1, TooOld
    <3> QED BY <3>2 DEF RightlyPruned
  <2>2. CASE a \in kept
    <3>1. Cardinality(audit') = AuditCap /\ \A k \in audit' : ~TextBefore(k.at, a.at)
      BY <1>6, <2>2
    <3>2. Cardinality({k \in audit' : Hundredths(k.at) + 100 > Hundredths(a.at)}) = AuditCap
      BY <1>2, <1>7, <3>1, NewerCounted
    <3> QED BY <1>5, <3>2 DEF RightlyPruned
  <2> QED BY <2>1, <2>2
<1> QED BY <1>6, <1>7, <1>8

-----------------------------------------------------------------------------
(* Chains of events *)

(* Dropping the oldest events leaves a chain. *)
LEMMA ChainPruned ==
  ASSUME NEW rows, NEW rest, rest \subseteq rows, NEW final, Chain(rows, final),
         \A r \in rows : Rank(r.at) \in Nat,
         \A r \in rows \ rest : \A k \in rest : Rank(r.at) <= Rank(k.at)
  PROVE  Chain(rest, final)
<1>1. \A r \in rows \ rest : \A k \in rest : Rank(r.at) < Rank(k.at)
  BY DEF Chain
<1>2. \A e, x \in rest : Rank(e.at) = Rank(x.at) => e = x
  BY DEF Chain
<1>3. ASSUME NEW e \in rest, \A x \in rest : Rank(x.at) <= Rank(e.at)
      PROVE  e.to = final
  <2>1. \A x \in rows : Rank(x.at) <= Rank(e.at)
    BY <1>1, <1>3
  <2> QED BY <2>1 DEF Chain
<1>4. ASSUME NEW e \in rest, NEW x \in rest, Adjacent(rest, e, x)
      PROVE  x.from = e.to
  <2>1. Adjacent(rows, e, x)
    BY <1>1, <1>4 DEF Adjacent
  <2> QED BY <2>1 DEF Chain
<1> QED BY <1>2, <1>3, <1>4 DEF Chain

(* An event of a later text, that starts where the chain ends, extends it. *)
LEMMA ChainExtended ==
  ASSUME NEW rows, NEW final, Chain(rows, final), NEW e, Rank(e.at) \in Nat, e.from = final,
         \A r \in rows : Rank(r.at) \in Nat /\ Rank(r.at) < Rank(e.at)
  PROVE  Chain(rows \cup {e}, e.to)
<1>1. \A x, y \in rows \cup {e} : Rank(x.at) = Rank(y.at) => x = y
  BY DEF Chain
<1>2. ASSUME NEW x \in rows \cup {e}, \A y \in rows \cup {e} : Rank(y.at) <= Rank(x.at)
      PROVE  x.to = e.to
  BY <1>2
<1>3. ASSUME NEW x \in rows \cup {e}, NEW z \in rows \cup {e}, Adjacent(rows \cup {e}, x, z)
      PROVE  z.from = x.to
  <2>1. CASE z = e
    <3>1. x \in rows
      BY <1>3, <2>1 DEF Adjacent
    <3>2. \A y \in rows : Rank(y.at) <= Rank(x.at)
      BY <1>3, <2>1, <3>1 DEF Adjacent
    <3> QED BY <2>1, <3>1, <3>2 DEF Chain
  <2>2. CASE z # e
    <3>1. z \in rows /\ x \in rows
      BY <1>3, <2>2 DEF Adjacent
    <3>2. Adjacent(rows, x, z)
      BY <1>3 DEF Adjacent
    <3> QED BY <3>1, <3>2 DEF Chain
  <2> QED BY <2>1, <2>2
<1> QED BY <1>1, <1>2, <1>3 DEF Chain

LEMMA LeastNatural ==
  ASSUME NEW S, S \subseteq Nat, S # {}
  PROVE  \E m \in S : \A n \in S : m <= n
<1>1. PICK m \in S : \A n \in S : ~(<<n, m>> \in OpToRel(<, Nat))
  BY NatLessThanWellFounded, WFMin
<1>2. \A n \in S : ~(n < m)
  BY <1>1 DEF OpToRel
<1> QED BY <1>2

(* Read in the order of the texts, a chain leads from each event to the next. *)
LEMMA ChainRead ==
  ASSUME NEW rows, NEW final, Chain(rows, final), \A r \in rows : r.at \in Time, NEW e \in rows
  PROVE  LET later == {x \in rows : TextBefore(e.at, x.at)}
             next == {x \in later : \A y \in later : ~TextBefore(y.at, x.at)}
         IN  IF later = {} THEN e.to = final
             ELSE \E x \in next : next = {x} /\ x.from = e.to
<1> DEFINE later == {x \in rows : TextBefore(e.at, x.at)}
           next == {x \in later : \A y \in later : ~TextBefore(y.at, x.at)}
<1>1. \A r \in rows : r.at \in Moment /\ Rank(r.at) \in Nat
  BY MomentOfTime, RankOfTime
<1>2. \A x, y \in rows : TextBefore(x.at, y.at) <=> Rank(x.at) < Rank(y.at)
  BY <1>1, TextRank
<1>3. CASE later = {}
  <2>1. \A x \in rows : Rank(x.at) <= Rank(e.at)
    BY <1>1, <1>2, <1>3
  <2> QED BY <1>3, <2>1 DEF Chain
<1>4. CASE later # {}
  <2> DEFINE ranks == {Rank(x.at) : x \in later}
  <2>1. ranks \subseteq Nat /\ ranks # {}
    BY <1>1, <1>4
  <2>2. PICK m \in ranks : \A n \in ranks : m <= n
    BY <2>1, LeastNatural
  <2>3. PICK x \in later : Rank(x.at) = m
    BY <2>2
  <2>4. x \in rows /\ \A y \in later : y \in rows /\ Rank(y.at) \in Nat /\ Rank(x.at) <= Rank(y.at)
    BY <1>1, <2>2, <2>3
  <2>5. x \in next
    BY <1>1, <1>2, <2>4
  <2>6. next = {x}
    <3> SUFFICES ASSUME NEW z \in next
                 PROVE  z = x
      BY <2>5
    <3>1. z \in later /\ ~TextBefore(x.at, z.at)
      OBVIOUS
    <3>2. Rank(z.at) = Rank(x.at)
      BY <1>1, <1>2, <2>4, <3>1
    <3> QED BY <2>4, <3>1, <3>2 DEF Chain
  <2>7. Rank(e.at) < Rank(x.at)
    BY <1>2, <2>4
  <2>8. Adjacent(rows, e, x)
    BY <1>1, <1>2, <2>4, <2>7 DEF Adjacent
  <2>9. x.from = e.to
    BY <2>4, <2>8 DEF Chain
  <2> QED BY <1>4, <2>5, <2>6, <2>9
<1> QED BY <1>3, <1>4

-----------------------------------------------------------------------------
(* One server at a time *)

CycleRecord ==
    [pc : {"idle", "compare", "save"}, at : Time \cup {None},
     before : Setting \cup {None}, value : Setting \cup {None}]

LEMMA ServerTypes ==
  ASSUME TypeOK, TablesSound, NEW s \in exists
  PROVE  /\ s \in Server
         /\ setting[s] \in Setting /\ setting[s] # None
         /\ coreAt[s] \in Time \cup {None}
         /\ stored[s].at \in Time \cup {None} /\ stored[s].value \in Setting \cup {None}
         /\ cycle[s] \in CycleRecord
         /\ cycle[s].at \in Time \cup {None}
         /\ cycle[s].before \in Setting \cup {None} /\ cycle[s].value \in Setting \cup {None}
         /\ changes[s] \in Nat /\ faults \in Nat
         /\ IsFiniteSet(Detected(s)) /\ Cardinality(Detected(s)) \in Nat
         /\ \A e \in Detected(s) : e.at \in Time /\ Rank(e.at) \in Nat
<1>1. Detected(s) \subseteq events
  BY DEF Detected, Of
<1>2. IsFiniteSet(Detected(s)) /\ Cardinality(Detected(s)) \in Nat
  BY <1>1, SubsetCount DEF TablesSound
<1>3. \A e \in Detected(s) : e.at \in Time /\ Rank(e.at) \in Nat
  BY <1>1, RankOfTime DEF TypeOK
<1>4. s \in Server
  BY DEF TypeOK
<1>5. cycle[s] \in CycleRecord
  BY <1>4 DEF TypeOK, CycleRecord
<1>6. MaxChanges \in Nat /\ MaxFaults \in Nat /\ None \notin Setting
  BY ChangeHistoryAssumption
<1>7. changes[s] \in Nat /\ faults \in Nat
  BY <1>4, <1>6 DEF TypeOK
<1>8. /\ setting[s] \in Setting /\ coreAt[s] \in Time \cup {None}
      /\ stored[s].at \in Time \cup {None} /\ stored[s].value \in Setting \cup {None}
  BY <1>4 DEF TypeOK
<1> QED BY <1>2, <1>3, <1>4, <1>5, <1>6, <1>7, <1>8 DEF CycleRecord

(* The oldest events of s, if any, are gone from its listing. *)
Pruned(s) ==
    /\ Detected(s)' \subseteq Detected(s)
    /\ \A r \in Detected(s) \ Detected(s)' : \A k \in Detected(s)' : Rank(r.at) <= Rank(k.at)

LEMMA PrunedCount ==
  ASSUME TypeOK, TablesSound, NEW s \in exists, Pruned(s)
  PROVE  /\ Cardinality(Detected(s)') \in Nat
         /\ Cardinality(Detected(s)') <= Cardinality(Detected(s))
  BY ServerTypes, SubsetCount DEF Pruned

LEMMA SameEvents ==
  ASSUME events' = events, NEW s
  PROVE  Detected(s)' = Detected(s) /\ Pruned(s)
  BY DEF Pruned, Detected, Of

(* A step that does not concern s but may prune its events, or fail elsewhere. *)
LEMMA Untouched ==
  ASSUME TypeOK, TablesSound, NEW s \in exists, SoundFor(s), Pruned(s),
         setting'[s] = setting[s], coreAt'[s] = coreAt[s], stored'[s] = stored[s],
         cycle'[s] = cycle[s], changes'[s] = changes[s],
         faults' = faults \/ faults' = faults + 1
  PROVE  SoundFor(s)'
<1>1. StampsOrdered(s)'
  <2>1. faults \in Nat /\ (faults # 0 => faults' # 0)
    BY ServerTypes
  <2> QED BY <2>1 DEF SoundFor, StampsOrdered
<1>2. Counted(s)'
  <2>1. Due(s)' = Due(s) /\ Extra(s)' = Extra(s)
    BY DEF Due, Extra, Expected, Replaces
  <2>2. Due(s) \in Nat /\ Extra(s) \in Nat
    BY DEF Due, Extra
  <2>3. Cardinality(Detected(s)) + Due(s) + Extra(s) <= changes[s] + faults
    BY DEF SoundFor, Counted
  <2>4. Cardinality(Detected(s)') + Due(s)' + Extra(s)' <= changes'[s] + faults'
    BY <2>1, <2>2, <2>3, PrunedCount, ServerTypes
  <2> QED BY <2>4 DEF Counted
<1>3. ASSUME faults' = 0
      PROVE  Explained(s)'
  <2>1. Explained(s) /\ Compared(s)' = Compared(s)
    BY <1>3, ServerTypes DEF SoundFor, Compared
  <2>2. Chain(Detected(s), Compared(s).value)
    BY <2>1 DEF Explained
  <2>3. Chain(Detected(s)', Compared(s).value)
    BY <2>2, ChainPruned, ServerTypes DEF Pruned
  <2>4. \A e \in Detected(s)' : Compared(s)'.at # None /\ Rank(e.at) <= Rank(Compared(s)'.at)
    BY <2>1 DEF Explained, Pruned
  <2> QED BY <2>1, <2>3, <2>4 DEF Explained
<1> QED BY <1>1, <1>2, <1>3 DEF SoundFor

LEMMA DueBounded ==
  ASSUME NEW s
  PROVE  /\ Due(s) \in {0, 1} /\ Extra(s) \in {0, 1}
         /\ Due(s)' \in {0, 1} /\ Extra(s)' \in {0, 1}
  BY DEF Due, Extra

LEMMA StampsCompared ==
  ASSUME NEW a \in Time, NEW b \in Time
  PROVE  /\ Rank(a) \in Nat /\ Rank(b) \in Nat
         /\ TextBefore(a, b) <=> Rank(a) < Rank(b)
         /\ Rank(a) = Rank(b) => a = b
  BY MomentOfTime, RankOfTime, TextRank

LEMMA NotAfterTrans ==
  ASSUME NEW a \in Time, NEW b \in Time, NEW c \in Time, NotAfter(a, b), NotAfter(b, c)
  PROVE  NotAfter(a, c)
<1>1. Rank(a) \in Nat /\ Rank(b) \in Nat /\ Rank(c) \in Nat
  BY RankOfTime
<1> QED BY <1>1 DEF NotAfter

(* A cycle of s is given up by a failure. *)
LEMMA GivenUp ==
  ASSUME TypeOK, TablesSound, NEW s \in exists, SoundFor(s), events' = events,
         setting'[s] = setting[s], coreAt'[s] = coreAt[s], stored'[s] = stored[s],
         cycle'[s] = NoCycle, changes'[s] = changes[s], faults' = faults + 1
  PROVE  SoundFor(s)'
<1>1. StampsOrdered(s)'
  BY DEF SoundFor, StampsOrdered, NoCycle
<1>2. Counted(s)'
  <2>1. Detected(s)' = Detected(s)
    BY SameEvents
  <2>2. Extra(s)' = 0
    BY DEF Extra, NoCycle
  <2>3. Cardinality(Detected(s)) + Due(s) + Extra(s) <= changes[s] + faults
    BY DEF SoundFor, Counted
  <2>4. Cardinality(Detected(s)') + Due(s)' + Extra(s)' <= changes'[s] + faults'
    BY <2>1, <2>2, <2>3, DueBounded, ServerTypes
  <2> QED BY <2>4 DEF Counted
<1>3. faults' # 0
  BY ServerTypes
<1> QED BY <1>1, <1>2, <1>3 DEF SoundFor

LEMMA SaveCoreSound ==
  ASSUME TypeOK, TablesSound, NEW s \in exists, SoundFor(s), SaveCore(s)
  PROVE  SoundFor(s)'
<1>1. /\ coreAt'[s] = IF coreAt[s] # None /\ TextBefore(Now, coreAt[s]) THEN coreAt[s] ELSE Now
      /\ Now \in Time
      /\ UNCHANGED <<setting, stored, cycle, events, changes, faults>>
  BY NowType, ServerTypes DEF SaveCore, TypeOK, logVars
<1>2. /\ coreAt'[s] # None /\ coreAt'[s] \in Time
      /\ coreAt[s] # None => coreAt[s] \in Time /\ NotAfter(coreAt[s], coreAt'[s])
  <2>1. None \notin Time
    BY ChangeHistoryAssumption
  <2>2. CASE coreAt[s] = None
    BY <1>1, <2>1, <2>2
  <2>3. CASE coreAt[s] # None
    <3>1. coreAt[s] \in Time
      BY <2>3, ServerTypes
    <3>2. /\ Rank(coreAt[s]) \in Nat /\ Rank(Now) \in Nat
          /\ TextBefore(Now, coreAt[s]) <=> Rank(Now) < Rank(coreAt[s])
      BY <1>1, <3>1, StampsCompared
    <3>3. /\ NotAfter(coreAt[s], coreAt[s])
          /\ ~TextBefore(Now, coreAt[s]) => NotAfter(coreAt[s], Now)
      BY <3>2 DEF NotAfter
    <3> QED BY <1>1, <2>1, <2>3, <3>1, <3>3
  <2> QED BY <2>2, <2>3
<1>3. /\ stored[s].at # None => NotAfter(stored[s].at, coreAt'[s])
      /\ cycle[s].pc # "idle" => NotAfter(cycle[s].at, coreAt'[s])
  BY <1>2, NotAfterTrans, ServerTypes DEF SoundFor, StampsOrdered
<1>4. StampsOrdered(s)'
  BY <1>1, <1>2, <1>3 DEF SoundFor, StampsOrdered
<1>5. Counted(s)' /\ (faults' = 0 => Explained(s)')
  BY <1>1 DEF SoundFor, Counted, Detected, Of, Due, Extra, Expected, Replaces,
              Explained, Compared
<1> QED BY <1>4, <1>5 DEF SoundFor

(* A cycle of s begins, with the settings stored or, when their read failed, none. *)
LEMMA CompareSound ==
  ASSUME TypeOK, TablesSound, NEW s \in exists, SoundFor(s), NEW before, Compare(s, before),
         \/ /\ before = stored[s].value
            /\ IF coreAt[s] = stored[s].at THEN faults' = faults + 1 ELSE faults' = faults
         \/ before = None /\ faults' = faults + 1
  PROVE  SoundFor(s)'
<1>1. /\ cycle[s].pc = "idle" /\ coreAt[s] # None
      /\ cycle'[s] = [pc |-> "compare", at |-> coreAt[s], before |-> before, value |-> None]
      /\ UNCHANGED <<setting, coreAt, stored, events, changes>>
  BY ServerTypes DEF Compare, TypeOK, logVars
<1>2. /\ coreAt[s] \in Time /\ Rank(coreAt[s]) \in Nat
      /\ faults \in Nat
      /\ stored[s].at # None => stored[s].at \in Time /\ Rank(stored[s].at) \in Nat
  BY <1>1, ServerTypes, RankOfTime
<1>3. StampsOrdered(s)'
  BY <1>1, <1>2 DEF SoundFor, StampsOrdered, NotAfter
<1>4. Detected(s)' = Detected(s)
  BY <1>1, SameEvents
<1>5. Counted(s)'
  <2>1. Due(s)' = Due(s)
    BY <1>1 DEF Due, Expected
  <2>2. Extra(s) = 0 /\ Extra(s)' = IF coreAt[s] = stored[s].at THEN 1 ELSE 0
    BY <1>1 DEF Extra
  <2>3. Cardinality(Detected(s)) + Due(s) + Extra(s) <= changes[s] + faults
    BY DEF SoundFor, Counted
  <2>4. faults' >= faults /\ (coreAt[s] = stored[s].at => faults' = faults + 1) /\ faults' \in Nat
    BY <1>2
  <2>5. Cardinality(Detected(s)') + Due(s)' + Extra(s)' <= changes'[s] + faults'
    BY <1>1, <1>4, <2>1, <2>2, <2>3, <2>4, DueBounded, ServerTypes
  <2> QED BY <2>5 DEF Counted
<1>6. ASSUME faults' = 0
      PROVE  Explained(s)'
  <2>1. coreAt[s] # stored[s].at /\ faults = 0
    BY <1>2, <1>6
  <2>2. Explained(s)
    BY <2>1 DEF SoundFor
  <2>3. stored[s].at = None \/ Rank(stored[s].at) < Rank(coreAt[s])
    <3>1. stored[s].at # None => Rank(stored[s].at) <= Rank(coreAt[s])
      BY DEF SoundFor, StampsOrdered, NotAfter
    <3>2. stored[s].at # None => Rank(stored[s].at) # Rank(coreAt[s])
      BY <1>2, <2>1, StampsCompared
    <3> QED BY <1>2, <3>1, <3>2
  <2>4. Compared(s)' = Compared(s)
    BY <1>1 DEF Compared
  <2> QED BY <1>1, <1>4, <2>2, <2>3, <2>4 DEF Explained
<1> QED BY <1>3, <1>5, <1>6 DEF SoundFor

LEMMA CycleBegins ==
  ASSUME TypeOK, NEW s \in Server, StartMetadata(s) \/ ReadFails(s)
  PROVE  \E before \in Setting \cup {None} :
            /\ Compare(s, before)
            /\ \/ /\ before = stored[s].value
                  /\ IF coreAt[s] = stored[s].at THEN faults' = faults + 1 ELSE faults' = faults
               \/ before = None /\ faults' = faults + 1
<1>1. stored[s].value \in Setting \cup {None}
  BY DEF TypeOK
<1> QED BY <1>1 DEF StartMetadata, ReadFails, Fault

LEMMA SettingsChangeSound ==
  ASSUME TypeOK, TablesSound, NEW s \in exists, SoundFor(s), NEW v, SettingsChange(s, v)
  PROVE  SoundFor(s)'
<1>1. /\ changes'[s] = changes[s] + 1
      /\ UNCHANGED <<coreAt, stored, cycle, events, faults>>
  BY ServerTypes DEF SettingsChange, TypeOK, logVars
<1>2. Counted(s)'
  <2>1. Detected(s)' = Detected(s)
    BY <1>1, SameEvents
  <2>2. Extra(s)' = Extra(s)
    BY <1>1 DEF Extra
  <2>3. Cardinality(Detected(s)) + Due(s) + Extra(s) <= changes[s] + faults
    BY DEF SoundFor, Counted
  <2>4. Cardinality(Detected(s)') + Due(s)' + Extra(s)' <= changes'[s] + faults'
    BY <1>1, <2>1, <2>2, <2>3, DueBounded, ServerTypes
  <2> QED BY <2>4 DEF Counted
<1>3. StampsOrdered(s)' /\ (faults' = 0 => Explained(s)')
  BY <1>1 DEF SoundFor, StampsOrdered, Detected, Of, Explained, Compared
<1> QED BY <1>2, <1>3 DEF SoundFor

(* The cycle of s goes on to the save with what it collected. *)
Collected(s) ==
    cycle'[s] = [pc |-> "save", at |-> cycle[s].at, before |-> cycle[s].before,
                 value |-> setting[s]]

LEMMA CycleStep ==
  ASSUME NEW c \in CycleRecord, NEW pc, NEW value
  PROVE  [c EXCEPT !.pc = pc, !.value = value]
            = [pc |-> pc, at |-> c.at, before |-> c.before, value |-> value]
<1>1. PICK d : d = [c EXCEPT !.pc = pc]
  OBVIOUS
<1>2. d = [pc |-> pc, at |-> c.at, before |-> c.before, value |-> c.value]
  BY <1>1 DEF CycleRecord
<1>3. [d EXCEPT !.value = value]
        = [pc |-> pc, at |-> c.at, before |-> c.before, value |-> value]
  BY <1>2
<1>4. [c EXCEPT !.pc = pc, !.value = value] = [d EXCEPT !.value = value]
  BY <1>1, Zenon
<1> QED BY <1>3, <1>4

LEMMA CollectedType ==
  ASSUME TypeOK, NEW s \in Server, Step(s, "save", setting[s])
  PROVE  Collected(s) /\ \A x \in Server \ {s} : cycle'[x] = cycle[x]
<1>1. cycle[s] \in CycleRecord /\ cycle \in [Server -> CycleRecord]
  BY DEF TypeOK, CycleRecord
<1>2. cycle'[s] = [cycle[s] EXCEPT !.pc = "save", !.value = setting[s]]
  BY <1>1 DEF Step
<1>3. [cycle[s] EXCEPT !.pc = "save", !.value = setting[s]]
        = [pc |-> "save", at |-> cycle[s].at, before |-> cycle[s].before, value |-> setting[s]]
  BY <1>1, CycleStep
<1>4. \A x \in Server \ {s} : cycle'[x] = cycle[x]
  BY <1>1 DEF Step
<1> QED BY <1>2, <1>3, <1>4 DEF Collected

LEMMA CollectedStamps ==
  ASSUME TypeOK, TablesSound, NEW s \in exists, SoundFor(s), cycle[s].pc = "compare",
         Collected(s), UNCHANGED <<setting, coreAt, stored>>
  PROVE  /\ StampsOrdered(s)'
         /\ Extra(s)' = 0
         /\ Due(s)' = 1 => Extra(s) = 1 \/ Due(s) = 1
         /\ Due(s)' = 1 /\ ChangedSettings(s) => Extra(s) = 1
         /\ ChangedSettings(s) => Due(s) = 1
<1>1. StampsOrdered(s)'
  BY ServerTypes DEF SoundFor, StampsOrdered, Collected
<1>2. Extra(s)' = 0
  BY DEF Extra, Collected
<1>3. /\ cycle[s].before \in {stored[s].value, None} /\ cycle[s].at \in Time
      /\ stored[s].at # None => stored[s].at \in Time /\ NotAfter(stored[s].at, cycle[s].at)
  BY ServerTypes DEF SoundFor, StampsOrdered
<1>4. ChangedSettings(s) => Due(s) = 1
  BY <1>3 DEF Due, Expected, ChangedSettings
<1>5. CASE stored[s].at # None => TextBefore(stored[s].at, cycle[s].at)
  <2>1. Due(s)' = 0
    BY <1>5 DEF Due, Expected, Replaces, Collected
  <2> QED BY <1>1, <1>2, <1>4, <2>1
<1>6. CASE stored[s].at # None /\ ~TextBefore(stored[s].at, cycle[s].at)
  <2>1. stored[s].at = cycle[s].at
    <3>1. /\ Rank(stored[s].at) \in Nat /\ Rank(cycle[s].at) \in Nat
          /\ ~(Rank(stored[s].at) < Rank(cycle[s].at))
          /\ Rank(stored[s].at) = Rank(cycle[s].at) => stored[s].at = cycle[s].at
      BY <1>3, <1>6, StampsCompared
    <3> QED BY <1>3, <1>6, <3>1 DEF NotAfter
  <2>2. Extra(s) = 1
    BY <2>1 DEF Extra
  <2> QED BY <1>1, <1>2, <1>4, <2>2
<1> QED BY <1>5, <1>6

LEMMA CompareSettingsSound ==
  ASSUME TypeOK, TablesSound, NEW s \in exists, SoundFor(s), CompareSettings(s)
  PROVE  SoundFor(s)'
<1>1. /\ cycle[s].pc = "compare" /\ Collected(s)
      /\ UNCHANGED <<setting, coreAt, stored, changes, faults>>
  BY CollectedType, ServerTypes DEF CompareSettings
<1>2. /\ StampsOrdered(s)' /\ Extra(s)' = 0
      /\ Due(s)' = 1 => Extra(s) = 1 \/ Due(s) = 1
      /\ Due(s)' = 1 /\ ChangedSettings(s) => Extra(s) = 1
      /\ ChangedSettings(s) => Due(s) = 1
  BY <1>1, CollectedStamps
<1>3. Cardinality(Detected(s)) + Due(s) + Extra(s) <= changes[s] + faults
  BY DEF SoundFor, Counted
<1>4. /\ faults = 0 => cycle[s].before = stored[s].value
      /\ cycle[s].before \in {stored[s].value, None} /\ cycle[s].at \in Time
      /\ stored[s].at = None <=> stored[s].value = None
  BY <1>1, ServerTypes DEF SoundFor, StampsOrdered
<1>5. Compared(s)' = [at |-> cycle[s].at, value |-> setting[s]]
  BY <1>1 DEF Compared, Collected
<1>6. ASSUME faults' = 0
      PROVE  /\ stored[s].at = None \/ Rank(stored[s].at) < Rank(cycle[s].at)
             /\ \A r \in Detected(s) : Rank(r.at) < Rank(cycle[s].at) /\ stored[s].at # None
             /\ Chain(Detected(s), stored[s].value)
  <2>1. Explained(s)
    BY <1>1, <1>6 DEF SoundFor
  <2>2. Compared(s) = stored[s]
    BY <1>1 DEF Compared
  <2>3. stored[s].at = None \/ Rank(stored[s].at) < Rank(cycle[s].at)
    BY <1>1, <2>1 DEF Explained
  <2>4. \A r \in Detected(s) : stored[s].at # None /\ Rank(r.at) <= Rank(stored[s].at)
    BY <2>1, <2>2 DEF Explained
  <2>5. Rank(cycle[s].at) \in Nat /\ (stored[s].at # None => Rank(stored[s].at) \in Nat)
    BY <1>4, ServerTypes, RankOfTime
  <2>6. \A r \in Detected(s) : Rank(r.at) < Rank(cycle[s].at) /\ stored[s].at # None
    BY <2>3, <2>4, <2>5, ServerTypes
  <2> QED BY <2>1, <2>2, <2>3, <2>6 DEF Explained
<1>7. CASE ~ChangedSettings(s)
  <2>1. events' = events
    BY <1>7 DEF CompareSettings
  <2>2. Detected(s)' = Detected(s)
    BY <2>1, SameEvents
  <2>3. Cardinality(Detected(s)') + Due(s)' + Extra(s)' <= changes'[s] + faults'
    <3>1. Due(s)' <= Due(s) + Extra(s)
      BY <1>2, DueBounded
    <3> QED BY <1>1, <1>2, <1>3, <2>2, <3>1, DueBounded, ServerTypes
  <2>4. ASSUME faults' = 0
        PROVE  Explained(s)'
    <3>1. \A r \in Detected(s) : stored[s].value = setting[s]
      BY <1>1, <1>4, <1>6, <1>7, <2>4 DEF ChangedSettings
    <3>2. Chain(Detected(s), setting[s])
      BY <1>6, <2>4, <3>1 DEF Chain
    <3>3. \A r \in Detected(s) : cycle[s].at # None /\ Rank(r.at) <= Rank(cycle[s].at)
      BY <1>4, <1>6, <2>4, ServerTypes, RankOfTime, ChangeHistoryAssumption
    <3> QED BY <1>1, <1>5, <1>6, <2>2, <2>4, <3>2, <3>3 DEF Explained, Collected
  <2> QED BY <1>2, <2>3, <2>4 DEF SoundFor, Counted
<1>8. CASE ChangedSettings(s)
  <2> DEFINE e == Configuration(s)
  <2>1. /\ e.server = s /\ e.at = cycle[s].at /\ e.kind = "configuration"
        /\ e.from = stored[s].value /\ e.to = setting[s]
    BY <1>4, <1>8 DEF Configuration, ChangedSettings
  <2>2. RecordChangeEvent(e)
    BY <1>8 DEF CompareSettings
  <2> HIDE DEF e
  <2>3. /\ events' \subseteq events \cup {e}
        /\ \A r \in (events \cup {e}) \ events' :
                \A k \in Of(r.server, events') : Rank(r.at) <= Rank(k.at)
    BY <1>4, <2>1, <2>2, EventRecorded, ServerTypes
  <2>4. /\ Detected(s)' \subseteq Detected(s) \cup {e}
        /\ \A r \in (Detected(s) \cup {e}) \ Detected(s)' :
                \A k \in Detected(s)' : Rank(r.at) <= Rank(k.at)
    BY <2>1, <2>3 DEF Detected, Of
  <2>5. /\ Cardinality(Detected(s)') \in Nat
        /\ Cardinality(Detected(s)') <= Cardinality(Detected(s)) + 1
    <3>1. /\ IsFiniteSet(Detected(s) \cup {e})
          /\ Cardinality(Detected(s) \cup {e}) \in Nat
          /\ Cardinality(Detected(s) \cup {e}) <= Cardinality(Detected(s)) + 1
      BY AddOne, ServerTypes
    <3>2. /\ Cardinality(Detected(s)') \in Nat
          /\ Cardinality(Detected(s)') <= Cardinality(Detected(s) \cup {e})
      BY <2>4, <3>1, SubsetCount
    <3> QED BY <3>1, <3>2, ServerTypes
  <2>6. Cardinality(Detected(s)') + Due(s)' + Extra(s)' <= changes'[s] + faults'
    <3>1. Due(s)' <= Extra(s) /\ Due(s) = 1
      BY <1>2, <1>8, DueBounded
    <3> QED BY <1>1, <1>2, <1>3, <2>5, <3>1, DueBounded, ServerTypes
  <2>7. ASSUME faults' = 0
        PROVE  Explained(s)'
    <3>1. Rank(cycle[s].at) \in Nat /\ cycle[s].at # None
      BY <1>4, RankOfTime, ChangeHistoryAssumption
    <3>2. \A r \in Detected(s) : Rank(r.at) \in Nat /\ Rank(r.at) < Rank(e.at)
      BY <1>6, <2>1, <2>7, ServerTypes
    <3>3. Chain(Detected(s) \cup {e}, setting[s])
      BY <1>6, <2>1, <2>7, <3>1, <3>2, ChainExtended
    <3>4. \A r \in Detected(s) \cup {e} : Rank(r.at) \in Nat /\ Rank(r.at) <= Rank(cycle[s].at)
      BY <2>1, <3>1, <3>2
    <3>5. Chain(Detected(s)', setting[s])
      BY <2>4, <3>3, <3>4, ChainPruned
    <3>6. \A r \in Detected(s)' : Rank(r.at) <= Rank(cycle[s].at)
      BY <2>4, <3>4
    <3> QED BY <1>1, <1>5, <1>6, <2>7, <3>1, <3>5, <3>6 DEF Explained, Collected
  <2> QED BY <1>2, <2>6, <2>7 DEF SoundFor, Counted
<1> QED BY <1>7, <1>8

LEMMA CompareFailsSound ==
  ASSUME TypeOK, TablesSound, NEW s \in exists, SoundFor(s), CompareFails(s)
  PROVE  SoundFor(s)'
<1>1. /\ cycle[s].pc = "compare" /\ faults' = faults + 1
      /\ UNCHANGED <<setting, coreAt, stored, events, changes>>
  BY DEF CompareFails, Fault, logVars
<1>2. CASE cycle' = [cycle EXCEPT ![s] = NoCycle]
  <2>1. cycle'[s] = NoCycle
    BY <1>2, ServerTypes DEF TypeOK
  <2> QED BY <1>1, <2>1, GivenUp
<1>3. CASE ChangedSettings(s) /\ Step(s, "save", setting[s])
  <2>1. Collected(s)
    BY <1>3, CollectedType, ServerTypes
  <2>2. StampsOrdered(s)' /\ Extra(s)' = 0
    BY <1>1, <2>1, CollectedStamps
  <2>3. Cardinality(Detected(s)) + Due(s) + Extra(s) <= changes[s] + faults
    BY DEF SoundFor, Counted
  <2>4. Cardinality(Detected(s)') + Due(s)' + Extra(s)' <= changes'[s] + faults'
    BY <1>1, <2>2, <2>3, SameEvents, DueBounded, ServerTypes
  <2>5. faults' # 0
    BY <1>1, ServerTypes
  <2> QED BY <2>2, <2>4, <2>5 DEF SoundFor, Counted
<1> QED BY <1>2, <1>3 DEF CompareFails

LEMMA SaveSettingsSound ==
  ASSUME TypeOK, TablesSound, NEW s \in exists, SoundFor(s), SaveSettings(s)
  PROVE  SoundFor(s)'
<1>1. /\ cycle[s].pc = "save" /\ cycle'[s] = NoCycle
      /\ stored'[s] = IF Replaces(s)
                       THEN [at |-> cycle[s].at, value |-> cycle[s].value] ELSE stored[s]
      /\ UNCHANGED <<setting, coreAt, events, changes, faults>>
  BY ServerTypes DEF SaveSettings, TypeOK, logVars, Replaces
<1>2. StampsOrdered(s)'
  BY <1>1 DEF SoundFor, StampsOrdered, NoCycle
<1>3. Detected(s)' = Detected(s)
  BY <1>1, SameEvents
<1>4. Counted(s)'
  <2>1. Due(s)' = Due(s)
    BY <1>1 DEF Due, Expected, NoCycle
  <2>2. Extra(s)' = Extra(s)
    BY <1>1 DEF Extra, NoCycle
  <2> QED BY <1>1, <1>3, <2>1, <2>2 DEF SoundFor, Counted
<1>5. ASSUME faults' = 0
      PROVE  Explained(s)'
  <2>1. Explained(s)
    BY <1>1, <1>5 DEF SoundFor
  <2>2. stored[s].at = None \/ Rank(stored[s].at) < Rank(cycle[s].at)
    BY <1>1, <2>1 DEF Explained
  <2>3. Replaces(s)
    <3>1. cycle[s].at \in Time /\ stored[s].at \in Time \cup {None}
      BY <1>1, ServerTypes DEF SoundFor, StampsOrdered
    <3> QED BY <2>2, <3>1, StampsCompared DEF Replaces
  <2>4. Compared(s)' = Compared(s)
    BY <1>1, <2>3 DEF Compared, NoCycle
  <2>5. cycle'[s].pc = "idle"
    BY <1>1 DEF NoCycle
  <2> QED BY <1>3, <2>1, <2>4, <2>5 DEF Explained
<1> QED BY <1>2, <1>4, <1>5 DEF SoundFor

-----------------------------------------------------------------------------
(* Every step keeps the invariant *)

LEMMA Bounds ==
  /\ MaxFaults \in Nat /\ MaxChanges \in Nat /\ MaxEvents \in Nat
  /\ Cap \in Nat /\ AuditCap \in Nat
  /\ None \notin Time /\ None \notin Setting
  BY ChangeHistoryAssumption

LEMMA FaultType ==
  ASSUME TypeOK, Fault
  PROVE  faults' = faults + 1 /\ faults' \in 0..MaxFaults
  BY Bounds DEF TypeOK, Fault

LEMMA NothingTyped ==
  ASSUME NEW s \in Server, TypeOK
  PROVE  /\ [cycle EXCEPT ![s] = NoCycle] \in [Server -> CycleRecord]
         /\ [x \in Server |-> NoCycle] \in [Server -> CycleRecord]
<1>1. NoCycle \in CycleRecord
  BY DEF NoCycle, CycleRecord
<1>2. cycle \in [Server -> CycleRecord]
  BY DEF TypeOK, CycleRecord
<1> QED BY <1>1, <1>2

(* The rest of the types when the logs do not change, or only lose rows of a server. *)
LEMMA LogsUntouched ==
  ASSUME TypeOK, TablesSound, UNCHANGED logVars, exists' = exists
  PROVE  /\ TablesSound'
         /\ \A e \in events' : e.at \in Time /\ e.kind \in {"deployment", "configuration"}
         /\ \A s \in Server : Cardinality(Of(s, events')) <= Cap
         /\ \A e \in audit' : e.at \in Time
         /\ Cardinality(audit') <= AuditCap
         /\ nextId' \in 1..(MaxEvents + 1)
  BY DEF TypeOK, TablesSound, logVars

LEMMA AllUntouched ==
  ASSUME IInv, UNCHANGED <<exists, setting, coreAt, stored, cycle, changes>>,
         faults' = faults \/ faults' = faults + 1,
         \A s \in exists : Pruned(s)
  PROVE  \A s \in exists' : SoundFor(s)'
  BY Untouched DEF IInv

LEMMA OthersUntouched ==
  ASSUME IInv, NEW s \in Server, exists' = exists,
         \A x \in Server \ {s} :
            /\ setting'[x] = setting[x] /\ coreAt'[x] = coreAt[x] /\ stored'[x] = stored[x]
            /\ cycle'[x] = cycle[x] /\ changes'[x] = changes[x],
         faults' = faults \/ faults' = faults + 1,
         \A x \in exists \ {s} : Pruned(x),
         s \in exists => SoundFor(s)'
  PROVE  \A x \in exists' : SoundFor(x)'
<1> SUFFICES ASSUME NEW x \in exists, x # s
             PROVE  SoundFor(x)'
  OBVIOUS
<1>1. TypeOK /\ TablesSound /\ SoundFor(x) /\ x \in Server
  BY DEF IInv, TypeOK
<1> QED BY <1>1, Untouched

LEMMA TickKeeps ==
  ASSUME IInv, Tick
  PROVE  IInv'
<1>1. clock' \in DOMAIN Instants
  <2>1. clock \in 1..Len(Instants) /\ Len(Instants) \in Nat /\ DOMAIN Instants = 1..Len(Instants)
    BY ChangeHistoryAssumption DEF IInv, TypeOK
  <2> QED BY <2>1 DEF Tick
<1>2. TypeOK' /\ TablesSound' /\ RequestSound'
  BY <1>1, LogsUntouched DEF IInv, Tick, TypeOK, RequestSound
<1>3. \A s \in exists : Pruned(s)
  BY SameEvents DEF Tick, logVars
<1>4. \A s \in exists' : SoundFor(s)'
  BY <1>3, AllUntouched DEF Tick
<1> QED BY <1>2, <1>4 DEF IInv

LEMMA RestartKeeps ==
  ASSUME IInv, Restart
  PROVE  IInv'
<1>1. TypeOK /\ TablesSound /\ faults' = faults + 1 /\ faults' \in 0..MaxFaults
  BY FaultType DEF IInv, Restart
<1>2. /\ request' = NoRequest
      /\ UNCHANGED <<clock, exists, setting, coreAt, stored, logVars, events, changes>>
  BY DEF Restart, Ask, logVars
<1>3. cycle' = [x \in Server |-> NoCycle] /\ cycle' \in [Server -> CycleRecord]
  BY DEF Restart, NoCycle, CycleRecord
<1>4. request'.op \in {"none", "deploy", "audit"} /\ RequestSound'
  BY <1>2 DEF NoRequest, RequestSound
<1>5. TypeOK' /\ TablesSound'
  BY <1>1, <1>2, <1>3, <1>4, LogsUntouched DEF TypeOK, CycleRecord
<1>6. ASSUME NEW s \in exists'
      PROVE  SoundFor(s)'
  <2>1. s \in exists /\ s \in Server /\ SoundFor(s)
    BY <1>1, <1>2 DEF IInv, TypeOK
  <2>2. cycle'[s] = NoCycle
    BY <1>3, <2>1
  <2> QED BY <1>1, <1>2, <2>1, <2>2, GivenUp
<1> QED BY <1>4, <1>5, <1>6 DEF IInv

LEMMA SettingsChangeKeeps ==
  ASSUME IInv, NEW s \in Server, NEW v \in Setting, SettingsChange(s, v)
  PROVE  IInv'
<1>1. TypeOK /\ TablesSound /\ RequestSound
  BY DEF IInv
<1>2. UNCHANGED <<clock, exists, coreAt, stored, cycle, logVars, events, request, faults>>
  BY DEF SettingsChange, logVars
<1>3. setting' \in [Server -> Setting] /\ \A x \in Server \ {s} : setting'[x] = setting[x]
  BY <1>1 DEF SettingsChange, TypeOK
<1>4. /\ changes' \in [Server -> 0..MaxChanges]
      /\ \A x \in Server \ {s} : changes'[x] = changes[x]
  <2>1. changes[s] + 1 \in 0..MaxChanges
    BY <1>1, Bounds DEF SettingsChange, TypeOK
  <2> QED BY <1>1, <2>1 DEF SettingsChange, TypeOK
<1>5. TypeOK' /\ TablesSound' /\ RequestSound'
  BY <1>1, <1>2, <1>3, <1>4, LogsUntouched DEF TypeOK, RequestSound
<1>6. s \in exists => SoundFor(s)'
  BY <1>1, SettingsChangeSound DEF IInv
<1>7. \A x \in exists' : SoundFor(x)'
  BY <1>2, <1>3, <1>4, <1>6, SameEvents, OthersUntouched
<1> QED BY <1>5, <1>7 DEF IInv

LEMMA SaveCoreKeeps ==
  ASSUME IInv, NEW s \in Server, SaveCore(s)
  PROVE  IInv'
<1>1. TypeOK /\ TablesSound /\ RequestSound
  BY DEF IInv
<1>2. UNCHANGED <<clock, exists, setting, stored, cycle, logVars, events, request, changes, faults>>
  BY DEF SaveCore, logVars
<1>3. /\ coreAt' \in [Server -> Time \cup {None}]
      /\ \A x \in Server \ {s} : coreAt'[x] = coreAt[x]
  BY <1>1, NowType DEF SaveCore, TypeOK
<1>4. TypeOK' /\ TablesSound' /\ RequestSound'
  BY <1>1, <1>2, <1>3, LogsUntouched DEF TypeOK, RequestSound
<1>5. s \in exists => SoundFor(s)'
  BY <1>1, SaveCoreSound DEF IInv
<1>6. \A x \in exists' : SoundFor(x)'
  BY <1>2, <1>3, <1>5, SameEvents, OthersUntouched
<1> QED BY <1>4, <1>6 DEF IInv

LEMMA CycleBeginsKeeps ==
  ASSUME IInv, NEW s \in Server, StartMetadata(s) \/ ReadFails(s)
  PROVE  IInv'
<1>1. TypeOK /\ TablesSound /\ RequestSound
  BY DEF IInv
<1>2. PICK before \in Setting \cup {None} :
        /\ Compare(s, before)
        /\ \/ /\ before = stored[s].value
              /\ IF coreAt[s] = stored[s].at THEN faults' = faults + 1 ELSE faults' = faults
           \/ before = None /\ faults' = faults + 1
  BY <1>1, CycleBegins
<1> DEFINE begun == [pc |-> "compare", at |-> coreAt[s], before |-> before, value |-> None]
<1>3. UNCHANGED <<clock, exists, setting, coreAt, stored, logVars, events, request, changes>>
  BY <1>2 DEF Compare, logVars
<1>4. faults' \in 0..MaxFaults /\ (faults' = faults \/ faults' = faults + 1)
  BY <1>1, FaultType DEF StartMetadata, ReadFails, TypeOK
<1>5. begun \in CycleRecord
  BY <1>1 DEF TypeOK, CycleRecord
<1>6. cycle' = [cycle EXCEPT ![s] = begun] /\ cycle \in [Server -> CycleRecord]
  BY <1>1, <1>2 DEF Compare, TypeOK, CycleRecord
<1> HIDE DEF begun
<1>7. cycle' \in [Server -> CycleRecord] /\ \A x \in Server \ {s} : cycle'[x] = cycle[x]
  BY <1>5, <1>6
<1>8. TypeOK' /\ TablesSound' /\ RequestSound'
  BY <1>1, <1>3, <1>4, <1>7, LogsUntouched DEF TypeOK, RequestSound, CycleRecord
<1>9. s \in exists => SoundFor(s)'
  BY <1>1, <1>2, CompareSound DEF IInv
<1>10. \A x \in exists' : SoundFor(x)'
  BY <1>3, <1>4, <1>7, <1>9, SameEvents, OthersUntouched
<1> QED BY <1>8, <1>10 DEF IInv

LEMMA CollectedKeepsType ==
  ASSUME TypeOK, NEW s \in Server, Step(s, "save", setting[s])
  PROVE  cycle' \in [Server -> CycleRecord] /\ \A x \in Server \ {s} : cycle'[x] = cycle[x]
<1>1. cycle \in [Server -> CycleRecord] /\ setting[s] \in Setting
  BY DEF TypeOK, CycleRecord
<1>2. [cycle[s] EXCEPT !.pc = "save", !.value = setting[s]]
        = [pc |-> "save", at |-> cycle[s].at, before |-> cycle[s].before, value |-> setting[s]]
  BY <1>1, CycleStep
<1>3. [cycle[s] EXCEPT !.pc = "save", !.value = setting[s]] \in CycleRecord
  BY <1>1, <1>2 DEF CycleRecord
<1>4. cycle' = [cycle EXCEPT ![s] = [cycle[s] EXCEPT !.pc = "save", !.value = setting[s]]]
  BY <1>1 DEF Step
<1> QED BY <1>1, <1>3, <1>4

(* The tables after an event is recorded, and the listings it is not part of. *)
LEMMA EventKept ==
  ASSUME TypeOK, TablesSound, NEW e, e.at \in Time, e.server \in exists,
         e.kind \in {"deployment", "configuration"}, RecordChangeEvent(e),
         UNCHANGED <<exists, audit>>
  PROVE  /\ TablesSound'
         /\ \A r \in events' : r.at \in Time /\ r.kind \in {"deployment", "configuration"}
         /\ \A s \in Server : Cardinality(Of(s, events')) <= Cap
         /\ nextId' \in 1..(MaxEvents + 1)
         /\ \A s : e.server # s \/ e.kind # "configuration" => Pruned(s)
<1>1. e.server \in Server
  BY DEF TypeOK
<1>2. /\ events' \subseteq events \cup {e} /\ IsFiniteSet(events')
      /\ \A s \in Server : Cardinality(Of(s, events')) <= Cap
      /\ \A r \in (events \cup {e}) \ events' :
            \A k \in Of(r.server, events') : Rank(r.at) <= Rank(k.at)
  BY <1>1, EventRecorded
<1>3. TablesSound'
  BY <1>2 DEF TablesSound
<1>4. \A r \in events' : r.at \in Time /\ r.kind \in {"deployment", "configuration"}
  BY <1>2 DEF TypeOK
<1>5. nextId' \in 1..(MaxEvents + 1)
  BY Bounds DEF RecordChangeEvent, TypeOK
<1>6. ASSUME NEW s, e.server # s \/ e.kind # "configuration"
      PROVE  Pruned(s)
  BY <1>2, <1>6 DEF Pruned, Detected, Of
<1> QED BY <1>2, <1>3, <1>4, <1>5, <1>6

LEMMA CompareSettingsKeeps ==
  ASSUME IInv, NEW s \in Server, CompareSettings(s)
  PROVE  IInv'
<1>1. TypeOK /\ TablesSound /\ RequestSound
  BY DEF IInv
<1>2. UNCHANGED <<clock, exists, setting, coreAt, stored, audit, request, changes, faults>>
  BY DEF CompareSettings
<1>3. cycle' \in [Server -> CycleRecord] /\ \A x \in Server \ {s} : cycle'[x] = cycle[x]
  BY <1>1, CollectedKeepsType DEF CompareSettings
<1>4. /\ TablesSound'
      /\ \A r \in events' : r.at \in Time /\ r.kind \in {"deployment", "configuration"}
      /\ \A x \in Server : Cardinality(Of(x, events')) <= Cap
      /\ nextId' \in 1..(MaxEvents + 1)
      /\ \A x \in exists \ {s} : Pruned(x)
  <2>1. CASE ChangedSettings(s) /\ s \in exists
    <3> DEFINE e == Configuration(s)
    <3>1. cycle[s].at \in Time
      BY <1>1, <2>1, ServerTypes DEF CompareSettings, IInv, SoundFor, StampsOrdered
    <3>2. e.server = s /\ e.kind = "configuration" /\ e.at \in Time
      BY <3>1 DEF Configuration
    <3>3. RecordChangeEvent(e)
      BY <2>1 DEF CompareSettings
    <3> HIDE DEF e
    <3> QED BY <1>1, <1>2, <2>1, <3>2, <3>3, EventKept
  <2>2. CASE ~(ChangedSettings(s) /\ s \in exists)
    <3>1. UNCHANGED logVars /\ events' = events
      BY <1>2, <2>2 DEF CompareSettings, logVars
    <3> QED BY <1>1, <1>2, <3>1, LogsUntouched, SameEvents
  <2> QED BY <2>1, <2>2
<1>5. TypeOK' /\ RequestSound'
  BY <1>1, <1>2, <1>3, <1>4 DEF TypeOK, RequestSound, CycleRecord
<1>6. s \in exists => SoundFor(s)'
  BY <1>1, CompareSettingsSound DEF IInv
<1>7. \A x \in exists' : SoundFor(x)'
  BY <1>2, <1>3, <1>4, <1>6, OthersUntouched
<1> QED BY <1>4, <1>5, <1>7 DEF IInv

LEMMA CompareFailsKeeps ==
  ASSUME IInv, NEW s \in Server, CompareFails(s)
  PROVE  IInv'
<1>1. TypeOK /\ TablesSound /\ RequestSound
  BY DEF IInv
<1>2. UNCHANGED <<clock, exists, setting, coreAt, stored, logVars, events, request, changes>>
  BY DEF CompareFails, logVars
<1>3. faults' = faults + 1 /\ faults' \in 0..MaxFaults
  BY <1>1, FaultType DEF CompareFails
<1>4. cycle' \in [Server -> CycleRecord] /\ \A x \in Server \ {s} : cycle'[x] = cycle[x]
  <2>1. CASE cycle' = [cycle EXCEPT ![s] = NoCycle]
    BY <1>1, <2>1, NothingTyped DEF TypeOK
  <2>2. CASE Step(s, "save", setting[s])
    BY <1>1, <2>2, CollectedKeepsType
  <2> QED BY <2>1, <2>2 DEF CompareFails
<1>5. TypeOK' /\ TablesSound' /\ RequestSound'
  BY <1>1, <1>2, <1>3, <1>4, LogsUntouched DEF TypeOK, RequestSound, CycleRecord
<1>6. s \in exists => SoundFor(s)'
  BY <1>1, CompareFailsSound DEF IInv
<1>7. \A x \in exists' : SoundFor(x)'
  BY <1>2, <1>3, <1>4, <1>6, SameEvents, OthersUntouched
<1> QED BY <1>5, <1>7 DEF IInv

LEMMA SaveSettingsKeeps ==
  ASSUME IInv, NEW s \in Server, SaveSettings(s)
  PROVE  IInv'
<1> DEFINE Row == [at : Time \cup {None}, value : Setting \cup {None}]
           new == [at |-> cycle[s].at, value |-> cycle[s].value]
<1>1. TypeOK /\ TablesSound /\ RequestSound
  BY DEF IInv
<1>2. UNCHANGED <<clock, exists, setting, coreAt, logVars, events, request, changes, faults>>
  BY DEF SaveSettings, logVars
<1>3. cycle' \in [Server -> CycleRecord] /\ \A x \in Server \ {s} : cycle'[x] = cycle[x]
  BY <1>1, NothingTyped DEF SaveSettings, TypeOK
<1>4. new \in Row /\ stored \in [Server -> Row]
  BY <1>1 DEF TypeOK
<1>5. stored' = [stored EXCEPT ![s] = new] \/ stored' = stored
  BY DEF SaveSettings
<1> HIDE DEF Row, new
<1>6. stored' \in [Server -> Row] /\ \A x \in Server \ {s} : stored'[x] = stored[x]
  BY <1>4, <1>5
<1>7. TypeOK' /\ TablesSound' /\ RequestSound'
  BY <1>1, <1>2, <1>3, <1>6, LogsUntouched DEF TypeOK, RequestSound, CycleRecord, Row
<1>8. s \in exists => SoundFor(s)'
  BY <1>1, SaveSettingsSound DEF IInv
<1>9. \A x \in exists' : SoundFor(x)'
  BY <1>2, <1>3, <1>6, <1>8, SameEvents, OthersUntouched
<1> QED BY <1>7, <1>9 DEF IInv

LEMMA SaveFailsKeeps ==
  ASSUME IInv, NEW s \in Server, SaveFails(s)
  PROVE  IInv'
<1>1. TypeOK /\ TablesSound /\ RequestSound
  BY DEF IInv
<1>2. UNCHANGED <<clock, exists, setting, coreAt, stored, logVars, events, request, changes>>
  BY DEF SaveFails, logVars
<1>3. faults' = faults + 1 /\ faults' \in 0..MaxFaults
  BY <1>1, FaultType DEF SaveFails
<1>4. /\ cycle' \in [Server -> CycleRecord] /\ cycle'[s] = NoCycle
      /\ \A x \in Server \ {s} : cycle'[x] = cycle[x]
  BY <1>1, NothingTyped DEF SaveFails, TypeOK
<1>5. TypeOK' /\ TablesSound' /\ RequestSound'
  BY <1>1, <1>2, <1>3, <1>4, LogsUntouched DEF TypeOK, RequestSound, CycleRecord
<1>6. s \in exists => SoundFor(s)'
  BY <1>1, <1>2, <1>3, <1>4, GivenUp DEF IInv
<1>7. \A x \in exists' : SoundFor(x)'
  BY <1>2, <1>3, <1>4, <1>6, SameEvents, OthersUntouched
<1> QED BY <1>5, <1>7 DEF IInv

LEMMA CreateDeploymentKeeps ==
  ASSUME IInv, NEW s \in Server, NEW i \in DOMAIN Instants, CreateDeploymentEvent(s, Instants[i])
  PROVE  IInv'
<1>1. TypeOK /\ TablesSound /\ Instants[i] \in Time
  BY ChangeHistoryAssumption DEF IInv
<1>2. UNCHANGED <<clock, exists, setting, coreAt, stored, cycle, logVars, events, changes, faults>>
  BY DEF CreateDeploymentEvent, logVars
<1>3. request'.op \in {"none", "deploy", "audit"} /\ RequestSound'
  BY <1>1 DEF CreateDeploymentEvent, Ask, RequestSound
<1>4. TypeOK' /\ TablesSound'
  BY <1>1, <1>2, <1>3, LogsUntouched DEF TypeOK
<1>5. \A x \in exists' : SoundFor(x)'
  BY <1>2, SameEvents, AllUntouched
<1> QED BY <1>3, <1>4, <1>5 DEF IInv

LEMMA RecordDeploymentKeeps ==
  ASSUME IInv, RecordDeployment
  PROVE  IInv'
<1>1. TypeOK /\ TablesSound
  BY DEF IInv
<1>2. UNCHANGED <<clock, exists, setting, coreAt, stored, cycle, audit, changes, faults>>
  BY DEF RecordDeployment
<1>3. request'.op \in {"none", "deploy", "audit"} /\ RequestSound'
  BY DEF RecordDeployment, Ask, NoRequest, RequestSound
<1>4. /\ TablesSound'
      /\ \A r \in events' : r.at \in Time /\ r.kind \in {"deployment", "configuration"}
      /\ \A s \in Server : Cardinality(Of(s, events')) <= Cap
      /\ nextId' \in 1..(MaxEvents + 1)
      /\ \A s \in exists : Pruned(s)
  <2>1. CASE request.server \in exists
    <3> DEFINE e == Deployment(request.server, request.at)
    <3>1. e.server = request.server /\ e.kind = "deployment" /\ e.at \in Time
      BY DEF Deployment, RecordDeployment, IInv, RequestSound
    <3>2. RecordChangeEvent(e)
      BY <2>1 DEF RecordDeployment
    <3> HIDE DEF e
    <3> QED BY <1>1, <1>2, <2>1, <3>1, <3>2, EventKept
  <2>2. CASE request.server \notin exists
    <3>1. UNCHANGED logVars /\ events' = events
      BY <1>2, <2>2 DEF RecordDeployment, logVars
    <3> QED BY <1>1, <1>2, <3>1, LogsUntouched, SameEvents
  <2> QED BY <2>1, <2>2
<1>5. TypeOK'
  BY <1>1, <1>2, <1>3, <1>4 DEF TypeOK
<1>6. \A s \in exists' : SoundFor(s)'
  BY <1>2, <1>4, AllUntouched
<1> QED BY <1>3, <1>4, <1>5, <1>6 DEF IInv

(* Deletions leave the table finite and within its bound. *)
LEMMA EventsDeleted ==
  ASSUME TypeOK, TablesSound, events' \subseteq events, UNCHANGED <<audit, nextId>>,
         \A e \in events' : e.server \in exists'
  PROVE  /\ TablesSound'
         /\ \A e \in events' : e.at \in Time /\ e.kind \in {"deployment", "configuration"}
         /\ \A s \in Server : Cardinality(Of(s, events')) <= Cap
<1>1. IsFiniteSet(events')
  BY SubsetCount DEF TablesSound
<1>2. ASSUME NEW s \in Server
      PROVE  Cardinality(Of(s, events')) <= Cap
  <2>1. Of(s, events') \subseteq Of(s, events) /\ Of(s, events) \subseteq events
    BY DEF Of
  <2>2. IsFiniteSet(Of(s, events))
    BY <2>1, SubsetCount DEF TablesSound
  <2>3. /\ Cardinality(Of(s, events')) \in Nat /\ Cardinality(Of(s, events)) \in Nat
        /\ Cardinality(Of(s, events')) <= Cardinality(Of(s, events))
    BY <2>1, <2>2, SubsetCount
  <2>4. Cardinality(Of(s, events)) <= Cap
    BY DEF TypeOK
  <2> QED BY <2>3, <2>4, Bounds
<1> QED BY <1>1, <1>2 DEF TablesSound, TypeOK

LEMMA DeleteDeploymentKeeps ==
  ASSUME IInv, NEW e \in events, DeleteDeploymentEvent(e)
  PROVE  IInv'
<1>1. TypeOK /\ TablesSound
  BY DEF IInv
<1>2. /\ UNCHANGED <<clock, exists, setting, coreAt, stored, cycle, audit, nextId, changes, faults>>
      /\ events' = events \ {e} /\ e.kind = "deployment"
  BY DEF DeleteDeploymentEvent, Deletable
<1>3. request'.op \in {"none", "deploy", "audit"} /\ RequestSound'
  BY DEF DeleteDeploymentEvent, Ask, RequestSound
<1>4. /\ TablesSound'
      /\ \A x \in events' : x.at \in Time /\ x.kind \in {"deployment", "configuration"}
      /\ \A s \in Server : Cardinality(Of(s, events')) <= Cap
  BY <1>1, <1>2, EventsDeleted DEF TablesSound
<1>5. TypeOK'
  BY <1>1, <1>2, <1>3, <1>4 DEF TypeOK
<1>6. \A s \in exists : Pruned(s)
  BY <1>2 DEF Pruned, Detected, Of
<1>7. \A s \in exists' : SoundFor(s)'
  BY <1>2, <1>6, AllUntouched
<1> QED BY <1>3, <1>4, <1>5, <1>7 DEF IInv

LEMMA DeleteServerKeeps ==
  ASSUME IInv, NEW s \in Server, DeleteServer(s)
  PROVE  IInv'
<1>1. TypeOK /\ TablesSound
  BY DEF IInv
<1>2. /\ UNCHANGED <<clock, setting, cycle, audit, nextId, changes, faults>>
      /\ exists' = exists \ {s}
      /\ events' = events \ Of(s, events)
  BY DEF DeleteServer
<1>3. request'.op \in {"none", "deploy", "audit"} /\ RequestSound'
  BY DEF DeleteServer, Ask, RequestSound
<1>4. \A e \in events' : e.server \in exists'
  BY <1>1, <1>2 DEF TablesSound, Of
<1>5. /\ TablesSound'
      /\ \A x \in events' : x.at \in Time /\ x.kind \in {"deployment", "configuration"}
      /\ \A x \in Server : Cardinality(Of(x, events')) <= Cap
  BY <1>1, <1>2, <1>4, EventsDeleted
<1>6. /\ coreAt' \in [Server -> Time \cup {None}]
      /\ \A x \in Server \ {s} : coreAt'[x] = coreAt[x] /\ stored'[x] = stored[x]
  BY <1>1 DEF DeleteServer, TypeOK
<1>7. stored' \in [Server -> [at : Time \cup {None}, value : Setting \cup {None}]]
  <2> DEFINE Row == [at : Time \cup {None}, value : Setting \cup {None}]
  <2>1. NoSettings \in Row /\ stored \in [Server -> Row]
    BY <1>1 DEF NoSettings, TypeOK
  <2> HIDE DEF Row
  <2>2. stored' \in [Server -> Row]
    BY <2>1 DEF DeleteServer
  <2> QED BY <2>2 DEF Row
<1>8. TypeOK'
  BY <1>1, <1>2, <1>3, <1>5, <1>6, <1>7 DEF TypeOK
<1>9. ASSUME NEW x \in exists'
      PROVE  SoundFor(x)'
  <2>1. x \in exists /\ x # s /\ x \in Server /\ SoundFor(x)
    BY <1>1, <1>2 DEF IInv, TypeOK
  <2>2. Pruned(x)
    BY <1>2, <2>1 DEF Pruned, Detected, Of
  <2> QED BY <1>1, <1>2, <1>6, <2>1, <2>2, Untouched
<1> QED BY <1>3, <1>5, <1>8, <1>9 DEF IInv

LEMMA WriteAuditKeeps ==
  ASSUME IInv, WriteAudit
  PROVE  IInv'
<1>1. TypeOK /\ TablesSound
  BY DEF IInv
<1>2. UNCHANGED <<clock, exists, setting, coreAt, stored, cycle, events, nextId, changes, faults>>
  BY DEF WriteAudit
<1>3. request'.op \in {"none", "deploy", "audit"} /\ RequestSound'
  BY DEF WriteAudit, Ask, NoRequest, RequestSound
<1>4. IsFiniteSet(audit') /\ Cardinality(audit') <= AuditCap /\ \A a \in audit' : a.at \in Time
  BY <1>1, AuditRecorded DEF WriteAudit
<1>5. TypeOK' /\ TablesSound'
  BY <1>1, <1>2, <1>3, <1>4 DEF TypeOK, TablesSound
<1>6. \A s \in exists' : SoundFor(s)'
  BY <1>2, SameEvents, AllUntouched
<1> QED BY <1>3, <1>5, <1>6 DEF IInv

LEMMA RequestFailsKeeps ==
  ASSUME IInv, RequestFails
  PROVE  IInv'
<1>1. TypeOK /\ TablesSound
  BY DEF IInv
<1>2. UNCHANGED <<clock, exists, setting, coreAt, stored, cycle, logVars, events, changes>>
  BY DEF RequestFails, logVars
<1>3. faults' = faults + 1 /\ faults' \in 0..MaxFaults
  BY <1>1, FaultType DEF RequestFails
<1>4. request'.op \in {"none", "deploy", "audit"} /\ RequestSound'
  BY DEF RequestFails, Ask, NoRequest, RequestSound
<1>5. TypeOK' /\ TablesSound'
  BY <1>1, <1>2, <1>3, <1>4, LogsUntouched DEF TypeOK
<1>6. \A s \in exists' : SoundFor(s)'
  BY <1>2, <1>3, SameEvents, AllUntouched
<1> QED BY <1>4, <1>5, <1>6 DEF IInv

LEMMA InitSound == Init => IInv
<1> SUFFICES ASSUME Init
             PROVE  IInv
  OBVIOUS
<1>1. events = {} /\ audit = {} /\ IsFiniteSet({}) /\ Cardinality({}) = 0
  BY FS_EmptySet DEF Init
<1>2. \A s \in Server : Of(s, events) = {} /\ Detected(s) = {}
  BY <1>1 DEF Of, Detected
<1>3. clock \in DOMAIN Instants
  BY ChangeHistoryAssumption DEF Init
<1>4. stored \in [Server -> [at : Time \cup {None}, value : Setting \cup {None}]]
  BY DEF Init, NoSettings
<1>5. cycle \in [Server -> CycleRecord]
  BY DEF Init, NoCycle, CycleRecord
<1>6. TypeOK
  BY <1>1, <1>2, <1>3, <1>4, <1>5, Bounds DEF Init, TypeOK, CycleRecord, NoRequest
<1>7. TablesSound /\ RequestSound
  BY <1>1 DEF Init, TablesSound, RequestSound, NoRequest
<1>8. ASSUME NEW s \in exists
      PROVE  SoundFor(s)
  <2>1. /\ s \in Server /\ stored[s] = NoSettings /\ cycle[s] = NoCycle
        /\ changes[s] = 0 /\ faults = 0
    BY DEF Init
  <2>2. StampsOrdered(s)
    BY <2>1 DEF StampsOrdered, NoSettings, NoCycle
  <2>3. Due(s) = 0 /\ Extra(s) = 0
    BY <2>1 DEF Due, Extra, Expected, NoSettings, NoCycle
  <2>4. Counted(s)
    BY <1>1, <1>2, <2>1, <2>3 DEF Counted
  <2>5. Explained(s)
    BY <1>2, <2>1 DEF Explained, Chain, NoCycle
  <2> QED BY <2>2, <2>4, <2>5 DEF SoundFor
<1> QED BY <1>6, <1>7, <1>8 DEF IInv

LEMMA StepSound == IInv /\ [Next]_vars => IInv'
<1> SUFFICES ASSUME IInv, [Next]_vars
             PROVE  IInv'
  OBVIOUS
<1>1. CASE UNCHANGED vars
  <2>1. UNCHANGED <<clock, exists, setting, coreAt, stored, cycle, events, audit, nextId, request,
                    changes, faults>>
    BY <1>1 DEF vars, logVars
  <2>2. TypeOK' /\ TablesSound' /\ RequestSound'
    BY <2>1 DEF IInv, TypeOK, TablesSound, RequestSound
  <2>3. \A s \in exists' : SoundFor(s)'
    BY <2>1, SameEvents, AllUntouched
  <2> QED BY <2>2, <2>3 DEF IInv
<1>2. ASSUME NEW s \in Server, NEW i \in DOMAIN Instants, CreateDeploymentEvent(s, Instants[i])
      PROVE  IInv'
  BY <1>2, CreateDeploymentKeeps
<1>3. ASSUME NEW s \in Server, DeleteServer(s) PROVE IInv'
  BY <1>3, DeleteServerKeeps
<1>4. ASSUME NEW s \in Server, SaveCore(s) PROVE IInv'
  BY <1>4, SaveCoreKeeps
<1>5. ASSUME NEW s \in Server, StartMetadata(s) \/ ReadFails(s) PROVE IInv'
  BY <1>5, CycleBeginsKeeps
<1>6. ASSUME NEW s \in Server, CompareSettings(s) PROVE IInv'
  BY <1>6, CompareSettingsKeeps
<1>7. ASSUME NEW s \in Server, CompareFails(s) PROVE IInv'
  BY <1>7, CompareFailsKeeps
<1>8. ASSUME NEW s \in Server, SaveSettings(s) PROVE IInv'
  BY <1>8, SaveSettingsKeeps
<1>9. ASSUME NEW s \in Server, SaveFails(s) PROVE IInv'
  BY <1>9, SaveFailsKeeps
<1>10. ASSUME NEW s \in Server, NEW v \in Setting, SettingsChange(s, v) PROVE IInv'
  BY <1>10, SettingsChangeKeeps
<1>11. CASE RecordDeployment
  BY <1>11, RecordDeploymentKeeps
<1>12. ASSUME NEW e \in events, DeleteDeploymentEvent(e) PROVE IInv'
  BY <1>12, DeleteDeploymentKeeps
<1>13. CASE WriteAudit
  BY <1>13, WriteAuditKeeps
<1>14. CASE RequestFails
  BY <1>14, RequestFailsKeeps
<1>15. CASE Tick
  BY <1>15, TickKeeps
<1>16. CASE Restart
  BY <1>16, RestartKeeps
<1> QED
  BY <1>1, <1>2, <1>3, <1>4, <1>5, <1>6, <1>7, <1>8, <1>9, <1>10, <1>11, <1>12, <1>13, <1>14,
     <1>15, <1>16 DEF Next

-----------------------------------------------------------------------------
(* The theorems *)

(***************************************************************************)
(* The inductive invariant: the stamps of a server never fall in rank, the *)
(* events it has, and those the stored settings still owe it, are paid for *)
(* by changes and failures, and without failures they are a chain.         *)
(***************************************************************************)
THEOREM Invariance == Spec => []IInv
  BY InitSound, StepSound, PTL DEF Spec

(***************************************************************************)
(* The types; change_events holds at most Cap rows of a server and         *)
(* audit_events at most AuditCap rows, after every insertion.              *)
(***************************************************************************)
THEOREM TypeCorrect == Spec => []TypeOK
<1>1. IInv => TypeOK
  BY DEF IInv
<1> QED BY <1>1, Invariance, PTL

(***************************************************************************)
(* Metadata cycles of any number of servers record at most one event per   *)
(* change of the settings of a server and per failure.                     *)
(***************************************************************************)
THEOREM DuplicatesArePaid == Spec => []DuplicatesNeedFailures
<1>1. IInv => DuplicatesNeedFailures
  <2> SUFFICES ASSUME IInv, NEW s \in Server
               PROVE  Cardinality(Detected(s)) <= changes[s] + faults
    BY DEF DuplicatesNeedFailures
  <2>1. CASE s \in exists
    BY <2>1, ServerTypes, DueBounded DEF IInv, SoundFor, Counted
  <2>2. CASE s \notin exists
    <3>1. Detected(s) = {} /\ Cardinality({}) = 0
      BY <2>2, FS_EmptySet DEF IInv, TablesSound, Detected, Of
    <3>2. changes[s] \in Nat /\ faults \in Nat
      BY Bounds DEF IInv, TypeOK
    <3> QED BY <3>1, <3>2
  <2> QED BY <2>1, <2>2
<1> QED BY <1>1, Invariance, PTL

(***************************************************************************)
(* The change history of a server, listed in the order of the texts, leads *)
(* to the settings that are stored as long as nothing failed.              *)
(***************************************************************************)
THEOREM ListingLeadsToSettings == Spec => []ListingExplainsSettings
<1>1. IInv => ListingExplainsSettings
  <2> SUFFICES ASSUME IInv, faults = 0, NEW s \in exists, cycle[s].pc # "save",
                      NEW e \in Detected(s)
               PROVE  LET later == {x \in Detected(s) : TextBefore(e.at, x.at)}
                          next == {x \in later : \A y \in later : ~TextBefore(y.at, x.at)}
                      IN  IF later = {} THEN e.to = stored[s].value
                          ELSE \E x \in next : next = {x} /\ x.from = e.to
    BY DEF ListingExplainsSettings
  <2>1. Chain(Detected(s), stored[s].value)
    BY DEF IInv, SoundFor, Explained, Compared
  <2>2. \A r \in Detected(s) : r.at \in Time
    BY ServerTypes DEF IInv
  <2> QED BY <2>1, <2>2, ChainRead
<1> QED BY <1>1, Invariance, PTL

(* The two halves of KeepsNewest, as properties of a step. *)
EventsKept ==
    events' \ events # {} =>
        \A e \in events \ events' : RightlyPruned(e, Of(e.server, events'), Cap)
AuditKept == \A a \in audit \ audit' : RightlyPruned(a, audit', AuditCap)

LEMMA NothingPruned ==
  ASSUME events' \subseteq events, audit' = audit
  PROVE  EventsKept /\ AuditKept
  BY DEF EventsKept, AuditKept

LEMMA OnlyOldestPruned ==
  ASSUME TypeOK, TablesSound, NEW e, e.at \in Time, e.server \in exists, RecordChangeEvent(e),
         audit' = audit
  PROVE  EventsKept /\ AuditKept
<1>1. e.server \in Server
  BY DEF TypeOK
<1>2. \A r \in (events \cup {e}) \ events' : RightlyPruned(r, Of(r.server, events'), Cap)
  BY <1>1, EventRecorded
<1> QED BY <1>2 DEF EventsKept, AuditKept

LEMMA StepKeepsNewest ==
  ASSUME IInv, [Next]_vars
  PROVE  EventsKept /\ AuditKept
<1>1. TypeOK /\ TablesSound
  BY DEF IInv
<1>2. ASSUME NEW s \in Server, CompareSettings(s)
      PROVE  EventsKept /\ AuditKept
  <2>1. CASE ChangedSettings(s) /\ s \in exists
    <3> DEFINE e == Configuration(s)
    <3>1. cycle[s].at \in Time
      BY <1>1, <1>2, <2>1, ServerTypes DEF CompareSettings, IInv, SoundFor, StampsOrdered
    <3>2. e.server \in exists /\ e.at \in Time /\ audit' = audit
      BY <1>2, <2>1, <3>1 DEF Configuration, CompareSettings
    <3>3. RecordChangeEvent(e)
      BY <1>2, <2>1 DEF CompareSettings
    <3> HIDE DEF e
    <3> QED BY <1>1, <3>2, <3>3, OnlyOldestPruned
  <2>2. CASE ~(ChangedSettings(s) /\ s \in exists)
    BY <1>2, <2>2, NothingPruned DEF CompareSettings
  <2> QED BY <2>1, <2>2
<1>3. CASE RecordDeployment
  <2>1. CASE request.server \in exists
    <3> DEFINE e == Deployment(request.server, request.at)
    <3>1. e.server \in exists /\ e.at \in Time /\ audit' = audit
      BY <1>3, <2>1 DEF Deployment, RecordDeployment, IInv, RequestSound
    <3>2. RecordChangeEvent(e)
      BY <1>3, <2>1 DEF RecordDeployment
    <3> HIDE DEF e
    <3> QED BY <1>1, <3>1, <3>2, OnlyOldestPruned
  <2>2. CASE request.server \notin exists
    BY <1>3, <2>2, NothingPruned DEF RecordDeployment
  <2> QED BY <2>1, <2>2
<1>4. CASE WriteAudit
  <2>1. AuditKept
    BY <1>1, <1>4, AuditRecorded DEF WriteAudit, AuditKept
  <2> QED BY <1>4, <2>1 DEF WriteAudit, EventsKept
<1>5. ASSUME NEW s \in Server, DeleteServer(s)
      PROVE  EventsKept /\ AuditKept
  BY <1>5, NothingPruned DEF DeleteServer
<1>6. ASSUME NEW e \in events, DeleteDeploymentEvent(e)
      PROVE  EventsKept /\ AuditKept
  BY <1>6, NothingPruned DEF DeleteDeploymentEvent
<1>7. CASE UNCHANGED <<events, audit>>
  BY <1>7, NothingPruned
<1>8. CASE UNCHANGED vars
  BY <1>7, <1>8 DEF vars, logVars
<1>9. ASSUME NEW s \in Server,
             \/ \E i \in DOMAIN Instants : CreateDeploymentEvent(s, Instants[i])
             \/ SaveCore(s) \/ StartMetadata(s) \/ ReadFails(s) \/ CompareFails(s)
             \/ SaveSettings(s) \/ SaveFails(s)
             \/ \E v \in Setting : SettingsChange(s, v)
      PROVE  EventsKept /\ AuditKept
  BY <1>7, <1>9 DEF CreateDeploymentEvent, SaveCore, StartMetadata, ReadFails, Compare,
                    CompareFails, SaveSettings, SaveFails, SettingsChange, logVars
<1>10. CASE RequestFails \/ Tick \/ Restart
  BY <1>7, <1>10 DEF RequestFails, Tick, Restart, logVars
<1> QED BY <1>2, <1>3, <1>4, <1>5, <1>6, <1>8, <1>9, <1>10 DEF Next

(***************************************************************************)
(* What RecordChangeEvent and RecordAuditEvent remove is too old, or too   *)
(* many newer rows are kept, up to the second the texts cannot order.      *)
(***************************************************************************)
THEOREM RetentionKeepsNewest == Spec => KeepsNewest
<1>1. IInv /\ [Next]_vars =>
        [/\ events' \ events # {} =>
                \A e \in events \ events' : RightlyPruned(e, Of(e.server, events'), Cap)
         /\ \A a \in audit \ audit' : RightlyPruned(a, audit', AuditCap)]_vars
  BY StepKeepsNewest DEF EventsKept, AuditKept
<1> QED BY <1>1, Invariance, PTL DEF Spec, KeepsNewest
=============================================================================
